---------------------------- MODULE NodeService ----------------------------
(***************************************************************************)
(* What a node promises the parent it serves (node/node.go): a Run is      *)
(* either accepted and later answered, or refused; canceled, the final     *)
(* message, is sent once nothing accepted is still open, and nothing is    *)
(* answered after it; then the node is done.                               *)
(***************************************************************************)
CONSTANT Runs       \* the Runs the parent may send

VARIABLES
    phase,          \* "serving", "final" once canceled was sent, or "done"
    asked           \* what became of each Run

svars == <<phase, asked>>

Fates == {"none", "open", "answered", "refused"}

Init ==
    /\ phase = "serving"
    /\ asked = [r \in Runs |-> "none"]

Accept(r) ==
    /\ phase = "serving" /\ asked[r] = "none"
    /\ asked' = [asked EXCEPT ![r] = "open"]
    /\ UNCHANGED phase

Answer(r) ==
    /\ phase = "serving" /\ asked[r] = "open"
    /\ asked' = [asked EXCEPT ![r] = "answered"]
    /\ UNCHANGED phase

\* A Run that comes too late is dropped.
Refuse(r) ==
    /\ phase # "done" /\ asked[r] = "none"
    /\ asked' = [asked EXCEPT ![r] = "refused"]
    /\ UNCHANGED phase

Final ==
    /\ phase = "serving"
    /\ \A r \in Runs : asked[r] # "open"
    /\ phase' = "final"
    /\ UNCHANGED asked

Done ==
    /\ phase = "final"
    /\ phase' = "done"
    /\ UNCHANGED asked

Next ==
    \/ \E r \in Runs : Accept(r) \/ Answer(r) \/ Refuse(r)
    \/ Final \/ Done

Spec == Init /\ [][Next]_svars
============================================================================
