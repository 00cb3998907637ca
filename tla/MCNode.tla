------------------------------- MODULE MCNode -------------------------------
(* Instances of Node for TLC.                                              *)
EXTENDS Node, TLC

\* The Runs are interchangeable where all or none of them sample, and so are
\* the children.
Symmetry == Permutations(Runs) \cup Permutations(Children)

Conf(children, faulty, background) ==
    [children |-> children, faulty |-> faulty, background |-> background]

Sound == {Conf(Children, {}, {})}

\* The transport to the parent may fail, or may not.
ParentFails == {Conf(Children, {"parent"}, {})}

\* All children, whose transports may fail; one of them, when that to the parent
\* may fail too; and Runs that leave goroutines in the background.
MCConfs ==
    {Conf(Children, Children, {})}
    \cup {Conf({c}, {c, "parent"}, {}) : c \in Children}
    \cup {Conf({}, {"parent"}, Runs)}
=============================================================================
