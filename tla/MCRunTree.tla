----------------------------- MODULE MCRunTree -----------------------------
EXTENDS RunTree

Run(kind, runs) ==
    [kind |-> kind, runs |-> runs, sequential |-> FALSE, weights |-> <<>>,
     node |-> "none"]

\* The lists of the Runs given: a ClosedLoopActor has only the last.
ListsOf(runs) ==
    {Run(k, runs) : k \in {"Serial", "Parallel", "Schedule", "Random"}}
    \cup {Run("ClosedLoopActor", <<runs[Len(runs)]>>)}
    \cup {[Run("Schedule", runs) EXCEPT !.sequential = TRUE]}

Timed(lists) == {l \in lists : l.kind \in {"Schedule", "ClosedLoopActor"}}

\* Two leaves: two runners, or an empty Run and a Child with a Child.
Leaves2(child) ==
    IF child
    THEN <<Run("Empty", <<>>), [Run("Child", <<6>>) EXCEPT !.node = "a"],
           [Run("Child", <<7>>) EXCEPT !.node = "b"], Run("Runner", <<>>)>>
    ELSE <<Run("Runner", <<>>), Run("Runner", <<>>)>>

\* A list in a list, behind a runner.
TwoLevels ==
    {<<outer, Run("Runner", <<>>), inner>> \o Leaves2(child) :
        outer \in ListsOf(<<2, 3>>), inner \in ListsOf(<<4, 5>>),
        child \in BOOLEAN}

\* Two lists with timers in a list.
TwoLists ==
    {<<outer, left, right, Run("Runner", <<>>), Run("Runner", <<>>),
       Run("Runner", <<>>), Run("Runner", <<>>)>> :
        outer \in ListsOf(<<2, 3>>), left \in Timed(ListsOf(<<4, 5>>)),
        right \in Timed(ListsOf(<<6, 7>>))}

\* A Random of three runners with weights, in a Parallel.
Weighted ==
    {<<Run("Parallel", <<2>>), [Run("Random", <<3, 4, 5>>) EXCEPT !.weights = ws],
       Run("Runner", <<>>), Run("Runner", <<>>), Run("Runner", <<>>)>> :
        ws \in [1 .. 3 -> 0 .. 2]}

\* A Schedule of three.
Three ==
    {<<[Run("Schedule", <<2, 3, 4>>) EXCEPT !.sequential = s],
       Run("Runner", <<>>), Run("Runner", <<>>), Run("Runner", <<>>)>> :
        s \in BOOLEAN}

AllTrees == TwoLevels \cup TwoLists \cup Weighted \cup Three
=============================================================================
