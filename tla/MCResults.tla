----------------------------- MODULE MCResults -----------------------------
(* Instances of Results for TLC.                                           *)
EXTENDS Results, TLC

Symmetry == Permutations(Instances) \cup Permutations(Values)

NoEncoding == [t \in 1..MaxTests |-> {"none"}]
MixedEncoding == [t \in 1..MaxTests |->
                    IF t = 1 THEN {"keep", "destructive"} ELSE {"none"}]

\* One instance and every command: up to four results of one Test, up to two of
\* two Tests, of which one may have no data file.  Instances that are killed and
\* fail: one up to three results, two that end in the same second up to two.
MCConfs ==
    {[procs |-> {i}, tests |-> x[1], unsaved |-> x[2], values |-> Values,
      encoding |-> MixedEncoding, commands |-> {"run", "filter", "report"},
      faults |-> FALSE, sameSecond |-> FALSE, until |-> x[3]] :
         i \in Instances, x \in {<<1, {}, 4>>, <<2, {}, 2>>, <<2, {2}, 2>>}}
    \cup {[procs |-> ps, tests |-> 1, unsaved |-> {}, values |-> {v},
           encoding |-> NoEncoding, commands |-> {"run", "report"},
           faults |-> TRUE, sameSecond |-> Cardinality(ps) = 2,
           until |-> 4 - Cardinality(ps)] :
              ps \in SUBSET Instances \ {{}}, v \in Values}
============================================================================
