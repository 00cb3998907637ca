------------------------------- MODULE Stream -------------------------------
(***************************************************************************)
(* Stream tests (node/stream.go): a StreamServer with its accept and main  *)
(* goroutines and one serve goroutine per connection, the StreamClients    *)
(* that connect to it, each with the goroutine that closes its connection  *)
(* some time after cancel, and the Transfers between them, Uploads and     *)
(* Downloads.                                                              *)
(*                                                                         *)
(* A connection is two queues of bytes, of which a read may take any part  *)
(* that is there.  The network may go down under a connection: then only   *)
(* the closing of one's own end is still seen.                             *)
(***************************************************************************)
EXTENDS Integers, Sequences, FiniteSets

CONSTANTS
    Clients,     \* the StreamClients
    Transfers,   \* what each Client transfers, if it runs: a set of choices
    BufLen,      \* Transfer.BufLen
    SockBuf,     \* the bytes that a connection holds in one direction
    MaxLen       \* the bytes sent by when the Duration is over

Sides == {"client", "server"}
Transfer == [kind : {"Upload", "Download"}, length : Nat, timed : BOOLEAN]
NoTransfer == [kind |-> "none", length |-> 0, timed |-> FALSE]

ASSUME StreamAssumption ==
    /\ Transfers \subseteq [Clients -> Transfer \cup {NoTransfer}]
    /\ \A y \in Transfers : \A c \in Clients :
          y[c] = NoTransfer \/ y[c].length > 0 \/ y[c].timed
    /\ BufLen \in Nat \ {0} /\ SockBuf \in Nat /\ SockBuf >= BufLen
    /\ MaxLen \in Nat

VARIABLES
    x,         \* the Transfers
    ctx,       \* the nodes whose context is done: a set of Sides
    pc,        \* where the goroutines of each connection are, on each side
    res,       \* how they ended
    watch,     \* the goroutine of each client that closes its connection
    \* the connections
    up, down,  \* the bytes on their way to the server, and to the client
    closed,    \* for each connection, the sides that have closed it
    broken,    \* the connections under which the network is down
    backlog,   \* connections that are not accepted yet
    \* Transfer.send and Transfer.receive
    sent,      \* the sender's l, and the Total of its last StreamIO
    rcvd,      \* the same of the receiver
    \* StreamServer
    accept,    \* the accept goroutine
    accepted,  \* the connection that it has to hand over
    dones,     \* its deferred calls: the errDone that it has to send
    main,      \* "select", then "done" once errc is closed
    g,         \* the main goroutine's count of goroutines
    canceled   \* its d is nil, and the listener is closed

connVars == <<up, down, closed, broken, backlog>>
serverVars == <<accept, accepted, dones, main, g, canceled>>
vars == <<x, ctx, pc, res, watch, connVars, sent, rcvd, serverVars>>

NoConn == "none"
Peer(side) == IF side = "client" THEN "server" ELSE "client"
Sender(c) == IF x[c].kind = "Upload" THEN "client" ELSE "server"
Receiver(c) == Peer(Sender(c))
Serving == {"header", "transfer", "final", "error", "errDone"}

TypeOK ==
    /\ x \in Transfers /\ ctx \subseteq Sides
    /\ pc \in [Sides -> [Clients -> {"idle", "header", "transfer", "final",
                                     "error", "errDone", "done"}]]
    /\ res \in [Sides -> [Clients -> {"none", "ok", "error"}]]
    /\ watch \in [Clients -> {"off", "watch", "timer", "done"}]
    /\ up \in [Clients -> Seq({"header", "fill", "final", "ack"})]
    /\ down \in [Clients -> Seq({"fill", "final", "ack"})]
    /\ \A c \in Clients : Len(up[c]) <= SockBuf /\ Len(down[c]) <= SockBuf
    /\ closed \in [Clients -> SUBSET Sides]
    /\ broken \subseteq Clients /\ backlog \subseteq Clients
    /\ {sent, rcvd} \subseteq [Clients -> [l : Nat, io : Nat]]
    /\ accept \in {"accept", "cc", "error", "errDone"}
    /\ accepted \in Clients \cup {NoConn}
    /\ dones \in Nat /\ g \in Nat
    /\ main \in {"select", "done"} /\ canceled \in BOOLEAN

\* StreamServer.Run has returned; the clients have not started yet.
Init ==
    /\ x \in Transfers /\ ctx = {}
    /\ pc = [side \in Sides |-> [c \in Clients |->
                                   IF x[c] = NoTransfer THEN "done" ELSE "idle"]]
    /\ res = [side \in Sides |-> [c \in Clients |-> "none"]]
    /\ watch = [c \in Clients |-> "off"]
    /\ up = [c \in Clients |-> <<>>] /\ down = [c \in Clients |-> <<>>]
    /\ closed = [c \in Clients |-> {}] /\ broken = {} /\ backlog = {}
    /\ sent = [c \in Clients |-> [l |-> 0, io |-> 0]] /\ rcvd = sent
    /\ accept = "accept" /\ accepted = NoConn /\ dones = 1
    /\ main = "select" /\ g = 1 /\ canceled = FALSE

-----------------------------------------------------------------------------
(* The connection c, as the goroutine on one side of it sees it.           *)

Goto(side, c, l) == pc' = [pc EXCEPT ![side][c] = l]

In(side, c) == IF side = "server" THEN up[c] ELSE down[c]
SetIn(side, c, q) ==
    IF side = "server" THEN up' = [up EXCEPT ![c] = q] /\ UNCHANGED down
    ELSE down' = [down EXCEPT ![c] = q] /\ UNCHANGED up

Alive(side, c) == side \notin closed[c] /\ c \notin broken

\* conn.Read returns the first n bytes; it fails at the end of what the peer
\* has sent, and if this side was closed.
Read(side, c, n) ==
    /\ Alive(side, c) /\ n <= Len(In(side, c))
    /\ SetIn(side, c, SubSeq(In(side, c), n + 1, Len(In(side, c))))

ReadFails(side, c) ==
    \/ side \in closed[c]
    \/ Alive(side, c) /\ In(side, c) = <<>> /\ Peer(side) \in closed[c]

\* conn.Write returns when there is room for all bytes.
Write(side, c, b) ==
    /\ Alive(side, c) /\ Peer(side) \notin closed[c]
    /\ Len(In(Peer(side), c)) + Len(b) <= SockBuf
    /\ SetIn(Peer(side), c, In(Peer(side), c) \o b)

WriteFails(side, c) ==
    side \in closed[c] \/ (Alive(side, c) /\ Peer(side) \in closed[c])

\* handleClient or handleServer is done.  The client closes the connection and
\* tells its other goroutine; serve closes it too, and has an error and errDone
\* to send.
Return(side, c, r) ==
    /\ res' = [res EXCEPT ![side][c] = r]
    /\ closed' = [closed EXCEPT ![c] = @ \cup {side}]
    /\ Goto(side, c, IF side = "client" THEN "done"
                     ELSE IF r = "error" THEN "error" ELSE "errDone")
    /\ watch' = IF side = "client" THEN [watch EXCEPT ![c] = "done"] ELSE watch

\* After a read or a write: an error if the context is done, else go on.
Proceed(side, c, l) ==
    IF side \in ctx THEN Return(side, c, "error")
    ELSE Goto(side, c, l) /\ UNCHANGED <<res, closed, watch>>

-----------------------------------------------------------------------------
(* Transfer.                                                               *)

\* What send writes next: one byte when Duration is over, else the rest of
\* Length, or a whole buffer.
Chunks(c) ==
    LET l == sent[c].l
        n == x[c].length
        Chunk(k, d) == [b |-> [i \in 1 .. k |-> IF d /\ i = k THEN "final" ELSE "fill"],
                        done |-> d]
        Rest == IF n > 0 /\ n - l <= BufLen THEN Chunk(n - l, TRUE)
                ELSE Chunk(BufLen, FALSE)
    IN  (IF x[c].timed /\ l > 0 THEN {Chunk(1, TRUE)} ELSE {})
        \cup (IF x[c].timed /\ l >= MaxLen THEN {} ELSE {Rest})

\* A StreamIO is recorded at the end, and before when the interval is over.
Sample(v, n, done) ==
    IF done THEN {[l |-> v.l + n, io |-> v.l + n]}
    ELSE {[l |-> v.l + n, io |-> i] : i \in {v.io, v.l + n}}

Send(c) ==
    LET side == Sender(c) IN
    /\ pc[side][c] = "transfer"
    /\ \E k \in Chunks(c) :
          /\ Write(side, c, k.b)
          /\ \E v \in Sample(sent[c], Len(k.b), k.done) :
                sent' = [sent EXCEPT ![c] = v]
          /\ Proceed(side, c, IF k.done THEN "final" ELSE "transfer")
    /\ UNCHANGED <<x, ctx, broken, backlog, rcvd, serverVars>>

\* Mutant: the ACK is not waited for.
SendAckNot(c) ==
    LET side == Sender(c) IN
    /\ pc[side][c] = "final"
    /\ Return(side, c, "ok")
    /\ UNCHANGED <<x, ctx, up, down, broken, backlog, sent, rcvd, serverVars>>

\* The sender reads the ACK.
SendAck(c) ==
    LET side == Sender(c) IN
    /\ pc[side][c] = "final"
    /\ In(side, c) # <<>> /\ Read(side, c, 1)
    /\ Return(side, c, IF Head(In(side, c)) = "ack" THEN "ok" ELSE "error")
    /\ UNCHANGED <<x, ctx, broken, backlog, sent, rcvd, serverVars>>

\* receive reads at most up to Length; the final byte is the last one there is.
Receive(c) ==
    LET side == Receiver(c)
        q == In(side, c)
        n == x[c].length
        r == IF n > 0 /\ n - rcvd[c].l < BufLen THEN n - rcvd[c].l ELSE BufLen
    IN
    /\ pc[side][c] = "transfer"
    /\ \E k \in 1 .. r :
          /\ Read(side, c, k)
          /\ \E v \in Sample(rcvd[c], k, q[k] = "final") :
                rcvd' = [rcvd EXCEPT ![c] = v]
          /\ Proceed(side, c, IF q[k] = "final" THEN "final" ELSE "transfer")
    /\ UNCHANGED <<x, ctx, broken, backlog, sent, serverVars>>

ReceiveAck(c) ==
    LET side == Receiver(c) IN
    /\ pc[side][c] = "final"
    /\ Write(side, c, <<"ack">>)
    /\ Return(side, c, "ok")
    /\ UNCHANGED <<x, ctx, broken, backlog, sent, rcvd, serverVars>>

\* A read or a write of the transfer fails.
TransferFails(side, c) ==
    /\ pc[side][c] \in {"transfer", "final"}
    /\ IF (side = Sender(c)) = (pc[side][c] = "transfer")
       THEN WriteFails(side, c) ELSE ReadFails(side, c)
    /\ Return(side, c, "error")
    /\ UNCHANGED <<x, ctx, up, down, broken, backlog, sent, rcvd, serverVars>>

-----------------------------------------------------------------------------
(* StreamClient.                                                           *)

\* Run dials, and starts the goroutine that watches the context.
Dial(c) ==
    /\ pc["client"][c] = "idle"
    /\ IF canceled \/ "client" \in ctx THEN Return("client", c, "error") /\ UNCHANGED backlog
       ELSE /\ Goto("client", c, "header")
            /\ watch' = [watch EXCEPT ![c] = "watch"]
            /\ backlog' = backlog \cup {c}
            /\ UNCHANGED <<res, closed>>
    /\ UNCHANGED <<x, ctx, up, down, broken, sent, rcvd, serverVars>>

\* The header is written.
ClientHeader(c) ==
    /\ pc["client"][c] = "header"
    /\ \/ /\ Write("client", c, <<"header">>)
          /\ Goto("client", c, "transfer") /\ UNCHANGED <<res, closed, watch>>
       \/ /\ WriteFails("client", c) /\ Return("client", c, "error")
          /\ UNCHANGED <<up, down>>
    /\ UNCHANGED <<x, ctx, broken, backlog, sent, rcvd, serverVars>>

\* Mutant: d is not set to nil, so that the timer starts anew again and again.
WatchAgain(c) == watch[c] = "watch" /\ "client" \in ctx /\ UNCHANGED vars

\* The goroutine sees that the context is done, and starts a timer of 1s.
Watch(c) ==
    /\ watch[c] = "watch" /\ "client" \in ctx
    /\ watch' = [watch EXCEPT ![c] = "timer"]
    /\ UNCHANGED <<x, ctx, pc, res, connVars, sent, rcvd, serverVars>>

\* The timer fires while Run is still busy: the connection is closed.
CancelTimeout(c) ==
    /\ watch[c] = "timer"
    /\ watch' = [watch EXCEPT ![c] = "done"]
    /\ closed' = [closed EXCEPT ![c] = @ \cup {"client"}]
    /\ UNCHANGED <<x, ctx, pc, res, up, down, broken, backlog, sent, rcvd, serverVars>>

-----------------------------------------------------------------------------
(* StreamServer.                                                           *)

Accept(c) ==
    /\ accept = "accept" /\ ~canceled
    /\ c \in backlog
    /\ backlog' = backlog \ {c}
    /\ accept' = "cc" /\ accepted' = c
    /\ UNCHANGED <<x, ctx, pc, res, watch, up, down, closed, broken, sent, rcvd, dones,
                   main, g, canceled>>

\* Accept returns an error, as it must once the listener is closed and may before:
\* the goroutine returns, and the deferred calls, one for each time around the
\* loop, are to be run.
AcceptFails ==
    /\ accept = "accept"
    /\ accept' = "error"
    /\ UNCHANGED <<x, ctx, pc, res, watch, connVars, sent, rcvd, accepted, dones, main, g,
                   canceled>>

\* The main goroutine gets a connection: it starts a goroutine to serve it or,
\* after cancel, closes it.  The accept goroutine goes around its loop, and so
\* defers another call.
MainServes ==
    LET c == accepted IN
    /\ main = "select" /\ accept = "cc"
    /\ accept' = "accept" /\ accepted' = NoConn
    /\ dones' = dones + 1
    /\ IF canceled THEN /\ closed' = [closed EXCEPT ![c] = @ \cup {"server"}]
                        /\ UNCHANGED <<pc, g>>
       ELSE Goto("server", c, "header") /\ g' = g + 1 /\ UNCHANGED closed
    /\ UNCHANGED <<x, ctx, res, watch, up, down, broken, backlog, sent, rcvd, main,
                   canceled>>

\* It sees that the context is done, and closes the listener: connections that
\* were not accepted are reset.
MainCancels ==
    /\ main = "select" /\ "server" \in ctx /\ ~canceled
    /\ canceled' = TRUE
    /\ closed' = [c \in Clients |-> IF c \in backlog THEN closed[c] \cup {"server"}
                                    ELSE closed[c]]
    /\ backlog' = {}
    /\ UNCHANGED <<x, ctx, pc, res, watch, up, down, broken, sent, rcvd, accept, accepted,
                   dones, main, g>>

\* It receives an error, which is sent to the parent unless it comes after
\* cancel.
MainError ==
    /\ main = "select"
    /\ \/ accept = "error" /\ accept' = "errDone" /\ UNCHANGED pc
       \/ /\ \E c \in Clients : pc["server"][c] = "error" /\ Goto("server", c, "errDone")
          /\ UNCHANGED accept
    /\ UNCHANGED <<x, ctx, res, watch, connVars, sent, rcvd, accepted, dones, main, g,
                   canceled>>

\* Mutant: the main goroutine ends one errDone too early.
MainDoneEarly ==
    /\ main = "select"
    /\ \/ /\ accept = "errDone" /\ dones > 0
          /\ dones' = dones - 1 /\ UNCHANGED pc
       \/ /\ \E c \in Clients : pc["server"][c] = "errDone" /\ Goto("server", c, "done")
          /\ UNCHANGED dones
    /\ g' = g - 1
    /\ main' = IF g' <= 1 THEN "done" ELSE "select"
    /\ UNCHANGED <<x, ctx, res, watch, connVars, sent, rcvd, accept, accepted, canceled>>

\* Mutant: errDone is counted twice.
MainDoneTwice ==
    /\ main = "select"
    /\ \/ /\ accept = "errDone" /\ dones > 0
          /\ dones' = dones - 1 /\ UNCHANGED pc
       \/ /\ \E c \in Clients : pc["server"][c] = "errDone" /\ Goto("server", c, "done")
          /\ UNCHANGED dones
    /\ g' = g - 2
    /\ main' = IF g' = 0 THEN "done" ELSE "select"
    /\ UNCHANGED <<x, ctx, res, watch, connVars, sent, rcvd, accept, accepted, canceled>>

\* It receives errDone; with the last one that it counts it closes errc, and
\* Cancel returns.
MainDone ==
    /\ main = "select"
    /\ \/ /\ accept = "errDone" /\ dones > 0
          /\ dones' = dones - 1 /\ UNCHANGED pc
       \/ /\ \E c \in Clients : pc["server"][c] = "errDone" /\ Goto("server", c, "done")
          /\ UNCHANGED dones
    /\ g' = g - 1
    /\ main' = IF g' = 0 THEN "done" ELSE "select"
    /\ UNCHANGED <<x, ctx, res, watch, connVars, sent, rcvd, accept, accepted, canceled>>

\* serve reads the header, or fails to.
ServerHeader(c) ==
    /\ pc["server"][c] = "header"
    /\ \/ /\ up[c] # <<>> /\ Read("server", c, 1)
          /\ Goto("server", c, "transfer") /\ UNCHANGED <<res, closed, watch>>
       \/ /\ ReadFails("server", c) /\ Return("server", c, "error")
          /\ UNCHANGED <<up, down>>
    /\ UNCHANGED <<x, ctx, broken, backlog, sent, rcvd, serverVars>>

-----------------------------------------------------------------------------

\* The node on one side is canceled; see Node.
Cancel(side) ==
    /\ side \notin ctx
    /\ ctx' = ctx \cup {side}
    /\ UNCHANGED <<x, pc, res, watch, connVars, sent, rcvd, serverVars>>

\* The network goes down under a connection.
Break(c) ==
    /\ c \notin broken /\ pc["client"][c] \in {"header", "transfer", "final"}
    /\ broken' = broken \cup {c}
    /\ UNCHANGED <<x, ctx, pc, res, watch, up, down, closed, backlog, sent, rcvd, serverVars>>

TransferStep(c) ==
    \/ Send(c) \/ SendAck(c) \/ Receive(c) \/ ReceiveAck(c)
    \/ \E side \in Sides : TransferFails(side, c)

ClientStep(c) == Dial(c) \/ ClientHeader(c) \/ Watch(c) \/ CancelTimeout(c)

ServerStep ==
    \/ (canceled /\ AcceptFails) \/ MainServes \/ MainCancels \/ MainError \/ MainDone
    \/ \E c \in Clients : Accept(c) \/ ServerHeader(c)

Finished == main = "done" /\ \A c \in Clients : pc["client"][c] = "done"

Next ==
    \/ \E c \in Clients : TransferStep(c) \/ ClientStep(c) \/ Break(c)
    \/ ServerStep \/ AcceptFails
    \/ \E side \in Sides : Cancel(side)
    \/ Finished /\ UNCHANGED vars

Spec == Init /\ [][Next]_vars

\* Every goroutine goes on while it can, the timer fires, and both nodes are
\* canceled in the end.  Accept need not fail before that.
Fairness ==
    /\ \A c \in Clients : WF_vars(TransferStep(c)) /\ WF_vars(ClientStep(c))
    /\ SF_vars(ServerStep)
    /\ \A side \in Sides : WF_vars(Cancel(side))

FairSpec == Spec /\ Fairness

-----------------------------------------------------------------------------
(* Properties.                                                             *)

\* A transfer that ends well on either side has arrived as a whole: both sides
\* have counted the same bytes, all of Length if there is no Duration, and have
\* recorded that count in their last StreamIO, from which goodput is computed.
\* This however reads and writes are cut, and whenever a side is canceled.
TransferComplete ==
    \A c \in Clients, side \in Sides :
       res[side][c] = "ok" =>
          /\ sent[c].l = rcvd[c].l
          /\ sent[c].io = sent[c].l /\ rcvd[c].io = rcvd[c].l
          /\ ~x[c].timed => sent[c].l = x[c].length

\* As long as its accept goroutine goes on, the server counts the goroutines it
\* has, and goes on to serve, however many connections have come and failed, and
\* on after cancel until the last of them is done.  Once that goroutine ends, be it
\* that Accept fails before cancel, it counts down for each connection that it
\* ever accepted.
ServesWhileAccepting ==
    accept \in {"accept", "cc"} =>
       /\ main = "select"
       /\ g = 1 + Cardinality({c \in Clients : pc["server"][c] \in Serving})

\* A client returns after cancel, though the network be down; and Cancel of the
\* server returns.
StreamEnds ==
    /\ "client" \in ctx ~> \A c \in Clients : pc["client"][c] = "done"
    /\ "server" \in ctx ~> main = "done"

-----------------------------------------------------------------------------
(* The inductive invariant; StreamProofs proves it.                        *)

\* The main goroutine ends when its count is 0.  A connection is with one
\* goroutine at a time: in the backlog, then with the accept goroutine, then
\* served.
ServerInv ==
    /\ main = "select" <=> g > 0
    /\ accept = "cc" => accepted \in Clients
    /\ \A c \in Clients :
          /\ pc["client"][c] = "idle" => c \notin backlog /\ ~(accept = "cc" /\ accepted = c)
          /\ c \in backlog => ~(accept = "cc" /\ accepted = c)
          /\ pc["client"][c] = "idle" \/ c \in backlog \/ (accept = "cc" /\ accepted = c) =>
                pc["server"][c] = "idle"
    /\ accept \in {"accept", "cc"} => IsFiniteSet({c \in Clients : pc["server"][c] \in Serving})

\* The bytes of the Transfer that are on their way.
HasHeader(q) == q # <<>> /\ Head(q) = "header"
Data(c) == LET q == In(Receiver(c), c) IN IF HasHeader(q) THEN Tail(q) ELSE q

\* The server reads the header before anything else, and once.
HeaderInv ==
    \A c \in Clients :
       /\ \A i \in 2 .. Len(up[c]) : up[c][i] # "header"
       /\ pc["client"][c] \in {"idle", "header"} =>
             up[c] = <<>> /\ pc["server"][c] \notin {"transfer", "final"}
       /\ pc["server"][c] \in {"idle", "header"} =>
             HasHeader(up[c]) \/ (up[c] = <<>> /\ pc["client"][c] \notin {"transfer", "final"})
       /\ pc["server"][c] \in {"transfer", "final"} => ~HasHeader(up[c])

Begins == {"idle", "header", "transfer"}

\* The sender has sent it all, and the receiver has received it all.
SentAll(c) ==
    /\ pc[Sender(c)][c] \notin Begins
    /\ sent[c].io = sent[c].l
    /\ ~x[c].timed => sent[c].l = x[c].length
Arrived(c) ==
    /\ SentAll(c)
    /\ pc[Receiver(c)][c] \notin Begins
    /\ sent[c].l = rcvd[c].l /\ rcvd[c].io = rcvd[c].l

\* No byte is lost or made up.  The final byte is the last, and is sent with all
\* of the Length; an ACK is sent when all has arrived.
FlowInv ==
    \A c \in Clients :
       LET q == In(Sender(c), c) IN
       /\ sent[c].l = rcvd[c].l + Len(Data(c))
       /\ \A i \in 1 .. Len(Data(c)) : Data(c)[i] = "final" => i = Len(Data(c)) /\ SentAll(c)
       /\ pc[Sender(c)][c] \in Begins /\ x[c].length > 0 => sent[c].l < x[c].length
       /\ \/ pc[Receiver(c)][c] = "final"
          \/ \E side \in Sides : res[side][c] = "ok"
          \/ \E i \in 1 .. Len(q) : q[i] = "ack"
          => Arrived(c)

\* All of this holds always: it is what keeps send, receive and the goroutines of
\* StreamServer in step, whatever order they run in.
StreamInv == TypeOK /\ ServesWhileAccepting /\ ServerInv /\ HeaderInv /\ FlowInv
=============================================================================
