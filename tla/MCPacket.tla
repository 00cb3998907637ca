------------------------------ MODULE MCPacket ------------------------------
(* Instances of Packet for TLC.                                            *)
EXTENDS Packet, TLC

CONSTANTS c1, c2

U(wait, first, duration, echo) ==
    [Wait |-> wait, WaitFirst |-> first, Duration |-> duration, Echo |-> echo]
Client(flow, senders, may) == [Flow |-> flow, Sender |-> senders, may |-> may]
NoClient == Client("f1", <<>>, {})

\* One client with two Senders whose packets interleave, and one whose Waits are
\* cycled through; one for which everything may fail; two that want echos, of
\* one Flow and of two.
MCConfs ==
    {(c1 :> Client("f1", s, {"cancel"})) @@ (c2 :> NoClient) :
        s \in {<<U(<<2>>, FALSE, 3, FALSE), U(<<1, 2>>, TRUE, 4, FALSE)>>,
               <<U(<<1, 2>>, FALSE, 4, FALSE)>>}}
    \cup {(c1 :> Client("f1", <<U(<<1>>, FALSE, 2, TRUE)>>,
                        {"cancel", "write", "read", "server"}))
          @@ (c2 :> NoClient)}
    \cup {(c1 :> Client("f1", <<U(<<1>>, FALSE, 1, TRUE)>>, {}))
          @@ (c2 :> Client(flow, <<U(<<1>>, FALSE, 1, TRUE)>>, {})) :
             flow \in {"f1", "f2"}}
=============================================================================
