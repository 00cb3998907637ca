------------------------------ MODULE MCStream ------------------------------
(* Instances of Stream for TLC.                                            *)
EXTENDS Stream, TLC

CONSTANTS c1, c2

X(kind, length, timed) == [kind |-> kind, length |-> length, timed |-> timed]

\* One client with all kinds of transfers: of three bytes, until Duration is
\* over, and whichever of the two is first; and two with a byte each.
MCTransfers ==
    {(c1 :> X(k, n[1], n[2])) @@ (c2 :> NoTransfer) :
        k \in {"Upload", "Download"}, n \in {<<3, FALSE>>, <<0, TRUE>>, <<2, TRUE>>}}
    \cup {(c1 :> X("Upload", 1, FALSE)) @@ (c2 :> X("Download", 1, FALSE))}
=============================================================================
