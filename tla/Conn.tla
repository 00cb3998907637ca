-------------------------------- MODULE Conn --------------------------------
(***************************************************************************)
(* One endpoint of a connection between two nodes: the conn type of        *)
(* node/conn.go, with the mutex its methods and its two I/O goroutines     *)
(* share, the buffer goroutine that holds results back or streams them,    *)
(* the send and receive goroutines, and the shutdown they agree on in      *)
(* ioDone.  The transport and the peer behind it are the environment.      *)
(*                                                                         *)
(* Message kinds are what conn tells apart: "run" carries an RPC; "push"   *)
(* stands for the other messages with flagPush (ran, Error); a member of   *)
(* DataKinds for a result that the buffer may hold back; "final" for       *)
(* cancel and canceled.                                                    *)
(***************************************************************************)
EXTENDS Naturals, Sequences, FiniteSets

CONSTANTS
    Owner,       \* the goroutine that reads the event channel
    Runners,     \* the other goroutines that call the conn's methods
    Canceler,    \* the goroutine that calls Cancel or Canceled
    DataKinds,   \* kinds of result messages that may be buffered
    Filters,     \* the ResultStreams that may be passed to Stream
    TxBufLen,    \* capacity of the tx channel (16 in the code)
    MaxCalls,    \* bound on the calls of Run, Send and Stream
    CloseFails,  \* whether the transport's Close may return an error
    IsParent     \* whether this is the conn to Owner's parent node

Callers == Runners \cup {Owner}
IO == {"send", "receive"}
Unlocked == "unlocked"
RunIDs == 0 .. MaxCalls - 1
Kinds == DataKinds \cup {"push", "run", "final"}
ResultStream == [include: SUBSET DataKinds, exclude: SUBSET DataKinds]
NoFilter == [include |-> {}, exclude |-> {}]
NoItem == [kind |-> "none", id |-> 0, s |-> NoFilter]
PC == {"loop", "handle", "event", "error", "drain", "ioDone", "closeErr",
       "connDone", "done"}

ASSUME ConnAssumption ==
    /\ Owner \notin Runners
    /\ Canceler \in Callers
    /\ (Callers \cup {Unlocked}) \cap IO = {}
    /\ Unlocked \notin Callers
    /\ DataKinds \cap {"push", "run", "final", "stream", "none"} = {}
    /\ Filters \subseteq ResultStream
    /\ TxBufLen \in Nat \ {0}
    /\ MaxCalls \in Nat
    /\ CloseFails \in BOOLEAN /\ IsParent \in BOOLEAN

VARIABLES
    \* the conn's fields
    mtx,         \* the goroutine that holds the mutex, or Unlocked
    canceled,    \* Cancel or Canceled was called
    io,          \* I/O goroutines still running
    rpc,         \* IDs of the Runs that wait for a reply
    id,          \* ID for the next Run
    tqClosed,    \* the tq channel was closed
    \* the callers
    at,          \* where each caller is: "idle", "lock" or "tq"
    item,        \* what each caller's call is about to put on tq
    calls,       \* calls made so far, bounded by MaxCalls
    replies,     \* replies put on each Run's channel, whose buffer is 1
    \* the buffer goroutine
    tq,          \* its local tq is not nil: it still receives
    s,           \* the last ResultStream
    t,           \* messages ready to be sent
    b,           \* messages held back
    rest,        \* messages of b that a new ResultStream has yet to judge
    seq,         \* messages it has received so far
    \* the tx channel, the I/O goroutines, and the peer
    tx,          \* contents of the tx channel
    txClosed,    \* the tx channel was closed
    pc,          \* control state of the I/O goroutines
    rmsg,        \* the message the receive goroutine is handling
    wire,        \* messages the transport has taken, in order
    unanswered   \* Runs that reached the peer and have no reply yet

fieldVars == <<canceled, io, rpc, id, tqClosed>>
callVars == <<at, item, calls, replies>>
bufVars == <<tq, s, t, b, rest, seq>>
netVars == <<tx, txClosed, wire, unanswered>>
vars == <<mtx, fieldVars, callVars, bufVars, netVars, pc, rmsg>>

Item == [kind: Kinds \cup {"stream", "none"}, id: Nat, s: ResultStream]
Message == [kind: Kinds, id: Nat, seq: Nat \ {0}]
Received == [kind: {"none", "ran", "event", "cancel", "canceled"}, id: Nat]
NoMessage == [kind |-> "none", id |-> 0]

TypeOK ==
    /\ mtx \in Callers \cup IO \cup {Unlocked}
    /\ canceled \in BOOLEAN /\ io \in Nat
    /\ rpc \subseteq Nat /\ id \in Nat
    /\ tqClosed \in BOOLEAN
    /\ at \in [Callers -> {"idle", "lock", "tq"}]
    /\ item \in [Callers -> Item]
    /\ calls \in 0 .. MaxCalls
    /\ replies \in [RunIDs -> Nat]
    /\ tq \in BOOLEAN
    /\ s \in ResultStream
    /\ t \in Seq(Message) /\ b \in Seq(Message) /\ rest \in Seq(Message)
    /\ seq \in Nat
    /\ tx \in Seq(Message) /\ txClosed \in BOOLEAN
    /\ pc \in [IO -> PC]
    /\ rmsg \in Received
    /\ wire \in Seq(Message)
    /\ unanswered \subseteq Nat

\* newConn, then start: the buffer and both I/O goroutines are running.
Init ==
    /\ mtx = Unlocked
    /\ canceled = FALSE /\ io = 2 /\ rpc = {} /\ id = 0 /\ tqClosed = FALSE
    /\ at = [c \in Callers |-> "idle"]
    /\ item = [c \in Callers |-> NoItem]
    /\ calls = 0
    /\ replies = [i \in RunIDs |-> 0]
    /\ tq = TRUE /\ s = NoFilter /\ t = <<>> /\ b = <<>>
    /\ rest = <<>> /\ seq = 0
    /\ tx = <<>> /\ txClosed = FALSE
    /\ pc = [g \in IO |-> "loop"]
    /\ rmsg = NoMessage
    /\ wire = <<>> /\ unanswered = {}

-----------------------------------------------------------------------------
(* The methods.  Each locks mtx, returns at once if the conn is canceled,  *)
(* and otherwise puts its item on the unbuffered tq, still holding mtx.    *)

\* The event reader of a node makes no call on a conn it has canceled, other
\* than those of SendsBack, and the one in Do makes none at all.  (Quiescent
\* of module Node shows the former for the parent's conn.)
MayCall(c) == c # Owner \/ (Canceler = Owner /\ ~canceled)

Call(c, kind, f) ==
    /\ at[c] = "idle"
    /\ MayCall(c)
    /\ at' = [at EXCEPT ![c] = "lock"]
    /\ item' = [item EXCEPT ![c] = [kind |-> kind, id |-> 0, s |-> f]]
    /\ UNCHANGED <<mtx, fieldVars, replies, bufVars, netVars, pc, rmsg>>

CallRunOrSend(c) ==
    /\ calls < MaxCalls
    /\ \E kind \in Kinds \ {"final"} : Call(c, kind, NoFilter)
    /\ calls' = calls + 1

CallStream(c) ==
    /\ calls < MaxCalls
    /\ \E f \in Filters : Call(c, "stream", f)
    /\ calls' = calls + 1

CallCancel(c) ==
    /\ c = Canceler /\ ~canceled
    /\ Call(c, "final", NoFilter)
    /\ UNCHANGED calls

\* The lock is taken and the conn is canceled: the message is dropped, and a
\* Run fails immediately.
Drop(c) ==
    /\ at[c] = "lock" /\ mtx = Unlocked /\ canceled
    /\ at' = [at EXCEPT ![c] = "idle"]
    /\ item' = [item EXCEPT ![c] = NoItem]
    /\ IF item[c].kind = "run"
       THEN id' = id + 1 /\ replies' = [replies EXCEPT ![id] = @ + 1]
       ELSE UNCHANGED <<id, replies>>
    /\ UNCHANGED <<mtx, canceled, io, rpc, tqClosed, calls, bufVars, netVars,
                   pc, rmsg>>

\* Mutant: canceled is set only after the final message was sent.
LockSetsLate(c) ==
    /\ at[c] = "lock" /\ mtx = Unlocked /\ ~canceled
    /\ mtx' = c
    /\ at' = [at EXCEPT ![c] = "tq"]
    /\ rpc' = IF item[c].kind = "run" THEN rpc \cup {id} ELSE rpc
    /\ item' = [item EXCEPT ![c].id = IF item[c].kind = "run" THEN id ELSE 0]
    /\ UNCHANGED <<canceled, io, id, tqClosed, calls, replies, bufVars, netVars,
                   pc, rmsg>>

\* The lock is taken and the caller goes on to send on tq: Cancel and
\* Canceled have set canceled, Run has registered the RPC.
Lock(c) ==
    /\ at[c] = "lock" /\ mtx = Unlocked /\ ~canceled
    /\ mtx' = c
    /\ at' = [at EXCEPT ![c] = "tq"]
    /\ canceled' = (item[c].kind = "final")
    /\ rpc' = IF item[c].kind = "run" THEN rpc \cup {id} ELSE rpc
    /\ item' = [item EXCEPT ![c].id = IF item[c].kind = "run" THEN id ELSE 0]
    /\ UNCHANGED <<io, id, tqClosed, calls, replies, bufVars, netVars, pc,
                   rmsg>>

\* Mutant: failRPC clears the map and sends nothing.
FailedRepliesNone == replies

\* failRPC, as the value replies takes: every Run in rpc gets a failure.
FailedReplies ==
    [i \in RunIDs |-> IF i \in rpc THEN replies[i] + 1 ELSE replies[i]]

-----------------------------------------------------------------------------
(* The buffer goroutine.                                                   *)

\* ResultStream.accept: with no Include nothing is streamed, and Exclude
\* leaves the verdict of Include as it is.
Accept(f, kind) == kind \in f.include

Pushed(kind) == kind \in {"push", "run", "final"}

\* buffer receives c's item from tq; c returns from its call.  A final
\* message ends the reception and releases what was held back ahead of it.
\* (The branch for a closed tq is never taken: see CloseInv.)
BufferRecv(c) ==
    LET i == item[c]
        m == [kind |-> i.kind, id |-> i.id, seq |-> seq + 1]
    IN
    /\ at[c] = "tq" /\ tq /\ rest = <<>>
    /\ \/ /\ i.kind = "stream"
          /\ s' = i.s
          /\ rest' = b
          /\ b' = <<>>
          /\ UNCHANGED <<tq, t, seq>>
       \/ /\ i.kind \in DataKinds /\ ~Accept(s, i.kind)
          /\ b' = Append(b, m)
          /\ seq' = seq + 1
          /\ UNCHANGED <<tq, s, t, rest>>
       \/ /\ i.kind # "final"
          /\ Pushed(i.kind) \/ (i.kind \in DataKinds /\ Accept(s, i.kind))
          /\ t' = Append(t, m)
          /\ seq' = seq + 1
          /\ UNCHANGED <<tq, s, b, rest>>
       \/ /\ i.kind = "final"
          /\ t' = Append(t \o b, m)
          /\ b' = <<>>
          /\ tq' = FALSE
          /\ seq' = seq + 1
          /\ UNCHANGED <<s, rest>>
    /\ id' = IF i.kind = "run" THEN id + 1 ELSE id
    /\ mtx' = Unlocked
    /\ at' = [at EXCEPT ![c] = "idle"]
    /\ item' = [item EXCEPT ![c] = NoItem]
    /\ UNCHANGED <<canceled, io, rpc, tqClosed, calls, replies, netVars, pc,
                   rmsg>>

\* Mutants: what the ResultStream rejects is lost, or put back in front.
RefilterLoses ==
    /\ rest # <<>>
    /\ t' = IF Accept(s, Head(rest).kind) THEN Append(t, Head(rest)) ELSE t
    /\ rest' = Tail(rest)
    /\ UNCHANGED <<mtx, fieldVars, callVars, tq, s, b, seq, netVars, pc, rmsg>>

RefilterReverses ==
    /\ rest # <<>>
    /\ IF Accept(s, Head(rest).kind)
       THEN t' = Append(t, Head(rest)) /\ UNCHANGED b
       ELSE b' = <<Head(rest)>> \o b /\ UNCHANGED t
    /\ rest' = Tail(rest)
    /\ UNCHANGED <<mtx, fieldVars, callVars, tq, s, seq, netVars, pc, rmsg>>

\* One turn of the loop over b after a new ResultStream: buffer neither
\* receives nor sends before the last one.
Refilter ==
    /\ rest # <<>>
    /\ IF Accept(s, Head(rest).kind)
       THEN t' = Append(t, Head(rest)) /\ UNCHANGED b
       ELSE b' = Append(b, Head(rest)) /\ UNCHANGED t
    /\ rest' = Tail(rest)
    /\ UNCHANGED <<mtx, fieldVars, callVars, tq, s, seq, netVars, pc, rmsg>>

\* buffer moves its next message to the tx channel, when that has room.
BufferTx ==
    /\ t # <<>> /\ Len(tx) < TxBufLen /\ rest = <<>>
    /\ tx' = Append(tx, Head(t))
    /\ t' = Tail(t)
    /\ UNCHANGED <<mtx, fieldVars, callVars, tq, s, b, rest, seq, txClosed,
                   wire, unanswered, pc, rmsg>>

\* Mutant: buffer goes around its loop again instead of returning.
BufferExitLeaves == ~tq /\ t = <<>> /\ rest = <<>> /\ ~txClosed /\ UNCHANGED vars

\* buffer returns, and closes tx.
BufferExit ==
    /\ ~tq /\ t = <<>> /\ rest = <<>> /\ ~txClosed
    /\ txClosed' = TRUE
    /\ UNCHANGED <<mtx, fieldVars, callVars, bufVars, tx, wire, unanswered, pc,
                   rmsg>>

-----------------------------------------------------------------------------
(* The send goroutine.                                                     *)

Goto(g, where) == pc' = [pc EXCEPT ![g] = where]

\* The transport takes a message.
SendMessage ==
    /\ pc["send"] = "loop" /\ tx # <<>>
    /\ wire' = Append(wire, Head(tx))
    /\ unanswered' = IF Head(tx).kind = "run"
                     THEN unanswered \cup {Head(tx).id} ELSE unanswered
    /\ tx' = Tail(tx)
    /\ UNCHANGED <<mtx, fieldVars, callVars, bufVars, txClosed, pc, rmsg>>

\* The transport fails to send: the message is lost, and an error event goes
\* out before the channel is drained.
SendError ==
    /\ pc["send"] = "loop" /\ tx # <<>>
    /\ tx' = Tail(tx)
    /\ Goto("send", "error")
    /\ UNCHANGED <<mtx, fieldVars, callVars, bufVars, txClosed, wire,
                   unanswered, rmsg>>

Drain ==
    /\ pc["send"] = "drain" /\ tx # <<>>
    /\ tx' = Tail(tx)
    /\ UNCHANGED <<mtx, fieldVars, callVars, bufVars, txClosed, wire,
                   unanswered, pc, rmsg>>

\* Mutant: after an error, send ends without draining tx.
SendEndsEarly ==
    /\ pc["send"] = "drain" \/ (pc["send"] = "loop" /\ tx = <<>> /\ txClosed)
    /\ Goto("send", "ioDone")
    /\ UNCHANGED <<mtx, fieldVars, callVars, bufVars, netVars, rmsg>>

SendEnds ==
    /\ pc["send"] \in {"loop", "drain"} /\ tx = <<>> /\ txClosed
    /\ Goto("send", "ioDone")
    /\ UNCHANGED <<mtx, fieldVars, callVars, bufVars, netVars, rmsg>>

-----------------------------------------------------------------------------
(* The receive goroutine.                                                  *)

\* A message arrives: the reply to a Run, an event for the node (run, Error or
\* a result), or a final message, cancel or canceled.
Receive(kind, i) ==
    /\ pc["receive"] = "loop"
    /\ rmsg' = [kind |-> kind, id |-> i]
    /\ Goto("receive", IF kind \in {"event", "cancel"} THEN "event" ELSE "handle")
    /\ unanswered' = IF kind = "ran" THEN unanswered \ {i} ELSE unanswered
    /\ UNCHANGED <<mtx, fieldVars, callVars, bufVars, tx, txClosed, wire>>

ReceiveMessage ==
    \/ \E i \in unanswered : Receive("ran", i)
    \/ Receive("event", 0)

\* The final message is cancel from a parent, and canceled from a child.
ReceiveFinal == Receive(IF IsParent THEN "cancel" ELSE "canceled", 0)

\* The transport fails, or yields nil or a message of unknown type.
ReceiveError ==
    /\ pc["receive"] = "loop"
    /\ Goto("receive", "error")
    /\ UNCHANGED <<mtx, fieldVars, callVars, bufVars, netVars, rmsg>>

\* Mutant: the Run stays in rpc.
HandleRanKeeps ==
    /\ pc["receive"] = "handle" /\ rmsg.kind = "ran" /\ mtx = Unlocked
    /\ replies' = [replies EXCEPT ![rmsg.id] =
                      IF rmsg.id \in rpc THEN @ + 1 ELSE @]
    /\ Goto("receive", "loop")
    /\ rmsg' = NoMessage
    /\ UNCHANGED <<mtx, fieldVars, at, item, calls, bufVars, netVars>>

\* received, for the reply to a Run: it is delivered if the Run still waits.
HandleRan ==
    /\ pc["receive"] = "handle" /\ rmsg.kind = "ran" /\ mtx = Unlocked
    /\ replies' = [replies EXCEPT ![rmsg.id] =
                      IF rmsg.id \in rpc THEN @ + 1 ELSE @]
    /\ rpc' = rpc \ {rmsg.id}
    /\ Goto("receive", "loop")
    /\ rmsg' = NoMessage
    /\ UNCHANGED <<mtx, canceled, io, id, tqClosed, at, item, calls, bufVars,
                   netVars>>

\* received, for canceled: every Run that waits fails, and receive ends.
HandleCanceled ==
    /\ pc["receive"] = "handle" /\ rmsg.kind = "canceled" /\ mtx = Unlocked
    /\ replies' = FailedReplies
    /\ rpc' = {}
    /\ Goto("receive", "ioDone")
    /\ rmsg' = NoMessage
    /\ UNCHANGED <<mtx, canceled, io, id, tqClosed, at, item, calls, bufVars,
                   netVars>>

-----------------------------------------------------------------------------
(* The shared end of the I/O goroutines, and the event channel.            *)

\* ioDone.  The last one fails the Runs that wait, closes tq and the
\* transport, and keeps mtx while it sends its last event or events.
IoDone(g) ==
    /\ pc[g] = "ioDone" /\ mtx = Unlocked
    /\ io' = io - 1
    /\ \/ /\ io # 1
          /\ Goto(g, "done")
          /\ UNCHANGED <<mtx, rpc, replies, tqClosed>>
       \/ /\ io = 1
          /\ mtx' = g
          /\ replies' = FailedReplies
          /\ rpc' = {}
          /\ tqClosed' = TRUE
          /\ \/ Goto(g, "connDone")
             \/ CloseFails /\ Goto(g, "closeErr")
    /\ UNCHANGED <<canceled, id, at, item, calls, bufVars, netVars, rmsg>>

\* Where an I/O goroutine goes once its event was taken.
AfterEvent(g) ==
    IF pc[g] = "event" THEN IF rmsg.kind = "cancel" THEN "ioDone" ELSE "loop"
    ELSE IF pc[g] = "error" THEN IF g = "send" THEN "drain" ELSE "ioDone"
    ELSE IF pc[g] = "closeErr" THEN "connDone" ELSE "done"

\* The events of the parent's conn whose handler calls Send on that same conn
\* when it is canceled: a close error, which is not flagged as an I/O error
\* (errorEvent.handle), and a Run, which is dropped and logged (run.handle).
SendsBack(g) ==
    /\ IsParent
    /\ \/ pc[g] = "closeErr"
       \/ pc[g] = "event" /\ rmsg.kind = "event" /\ canceled

\* Owner takes an event of goroutine g.
TakeEvent(g) ==
    /\ at[Owner] = "idle"
    /\ pc[g] \in {"event", "error", "closeErr", "connDone"}
    /\ Goto(g, AfterEvent(g))
    /\ mtx' = IF pc[g] = "connDone" THEN Unlocked ELSE mtx
    /\ rmsg' = IF pc[g] = "event" THEN NoMessage ELSE rmsg
    /\ IF SendsBack(g)
       THEN /\ at' = [at EXCEPT ![Owner] = "lock"]
            /\ item' = [item EXCEPT ![Owner] =
                           [kind |-> "push", id |-> 0, s |-> NoFilter]]
       ELSE UNCHANGED <<at, item>>
    /\ UNCHANGED <<fieldVars, calls, replies, bufVars, netVars>>

\* Both goroutines are done and nobody is in a call: the conn is at its end.
Finished ==
    /\ \A g \in IO : pc[g] = "done"
    /\ \A c \in Callers : at[c] = "idle"

Next ==
    \/ \E c \in Callers :
          \/ CallRunOrSend(c) \/ CallStream(c) \/ CallCancel(c)
          \/ Drop(c) \/ Lock(c) \/ BufferRecv(c)
    \/ Refilter \/ BufferTx \/ BufferExit
    \/ SendMessage \/ SendError \/ Drain \/ SendEnds
    \/ ReceiveMessage \/ ReceiveFinal \/ ReceiveError
    \/ HandleRan \/ HandleCanceled
    \/ \E g \in IO : IoDone(g) \/ TakeEvent(g)
    \/ Finished /\ UNCHANGED vars

\* Every goroutine runs.  The peer ends its direction once it got our final
\* message, or once sending to it failed; it may send other messages first.
PeerEnds ==
    /\ pc["send"] # "loop" \/ (wire # <<>> /\ wire[Len(wire)].kind = "final")
    /\ ReceiveFinal \/ ReceiveError

Fairness ==
    /\ \A c \in Callers : WF_vars(Drop(c)) /\ WF_vars(Lock(c))
                          /\ WF_vars(BufferRecv(c))
    /\ WF_vars(Refilter) /\ WF_vars(BufferTx) /\ WF_vars(BufferExit)
    /\ WF_vars(SendMessage \/ SendError) /\ WF_vars(Drain) /\ WF_vars(SendEnds)
    /\ WF_vars(HandleRan) /\ WF_vars(HandleCanceled)
    /\ SF_vars(PeerEnds)
    /\ \A g \in IO : WF_vars(IoDone(g)) /\ WF_vars(TakeEvent(g))

Spec == Init /\ [][Next]_vars
FairSpec == Spec /\ Fairness

-----------------------------------------------------------------------------
(* Properties.                                                             *)

\* No goroutine ever sends on tq after ioDone has closed it, which would
\* panic, and whoever holds mtx at "tq <-" finds the buffer goroutine
\* receiving, so mtx is always released again.
NoSendOnClosed ==
    \A c \in Callers : at[c] = "tq" => tq /\ ~tqClosed

\* A Run that was issued is either waiting in rpc or was answered, so that none
\* is forgotten, and it gets one reply at most, whichever of ran, canceled,
\* ioDone and the check of canceled in Run come to answer it: a second one would
\* block a goroutine that holds mtx, as the Run's channel has room for one.
RunsAccounted ==
    \A i \in RunIDs :
       /\ replies[i] <= 1
       /\ i < id => (i \in rpc <=> replies[i] = 0)

\* What goes onto the transport ends with the final message, and by then all
\* the buffer ever received has gone out ahead of it: nothing held back by a
\* ResultStream is lost, and nothing is sent twice.
FinalFlushes ==
    \A n \in 1 .. Len(wire) :
       wire[n].kind = "final" =>
          /\ n = Len(wire) /\ n = seq
          /\ {wire[k].seq : k \in 1 .. n} = 1 .. seq

\* Messages of one kind go out in the order in which they were sent, though
\* ResultStreams come and go between them.
KindsInOrder ==
    \A j, k \in 1 .. Len(wire) :
       j < k /\ wire[j].kind = wire[k].kind => wire[j].seq < wire[k].seq

\* Cancel (or Canceled) leads to connDone, after which the conn's goroutines
\* are gone (comment of the conn type, conn.go:18-20).
EndsAfterCancel == canceled ~> \A g \in IO : pc[g] = "done"

-----------------------------------------------------------------------------
(* The inductive invariant behind the safety properties (ConnProofs).      *)

Ended(g) == pc[g] \in {"closeErr", "connDone", "done"}

\* Who holds mtx, and what io counts.
LockInv ==
    /\ \A c \in Callers : at[c] = "tq" <=> mtx = c
    /\ \A g \in IO : pc[g] \in {"closeErr", "connDone"} <=> mtx = g
    /\ \A c \in Callers : at[c] # "idle" => item[c].kind # "none"
    /\ pc["send"] \notin {"event", "handle"} /\ pc["receive"] # "drain"
    /\ pc["receive"] = "handle" => rmsg.kind \in {"ran", "canceled"}
    /\ io = (IF Ended("send") THEN 0 ELSE 1) + (IF Ended("receive") THEN 0 ELSE 1)

\* The chain that keeps tq from being closed under a caller: tq is closed, so
\* send has ended, so tx was closed, so the buffer has stopped receiving, so
\* it got the final message, so the conn is canceled.
CloseInv ==
    /\ tqClosed => Ended("send") /\ Ended("receive")
    /\ Ended("send") \/ pc["send"] = "ioDone" => txClosed
    /\ txClosed => ~tq
    /\ ~tq => canceled /\ \A c \in Callers : at[c] # "tq"
    /\ canceled /\ tq => \E c \in Callers : at[c] = "tq" /\ item[c].kind = "final"
    /\ \A c \in Callers : at[c] = "tq" /\ item[c].kind = "final" => canceled

\* A Run is in rpc or answered, from the moment it is registered under mtx.
ReplyInv ==
    /\ \A i \in rpc : i < id \/ (i = id /\ \E c \in Callers :
                                   at[c] = "tq" /\ item[c].kind = "run")
    /\ \A c \in Callers : at[c] = "tq" /\ item[c].kind = "run"
                             => item[c].id = id /\ id \in rpc
    /\ \A i \in RunIDs : /\ replies[i] <= 1
                         /\ i \in rpc \/ i >= id => replies[i] = 0
                         /\ i < id /\ i \notin rpc => replies[i] = 1

\* p holds earlier messages than q does, kind by kind; p is in order.
Before(p, q) == \A j \in 1 .. Len(p), k \in 1 .. Len(q) :
                   p[j].kind = q[k].kind => p[j].seq < q[k].seq
InOrder(p) == \A j, k \in 1 .. Len(p) :
                   j < k /\ p[j].kind = p[k].kind => p[j].seq < p[k].seq
Numbered(p) == \A k \in 1 .. Len(p) : p[k].seq <= seq

\* The queues a message passes are in order, each and one after the other,
\* because b never holds a kind that the current ResultStream accepts.
OrderInv ==
    /\ InOrder(wire) /\ InOrder(tx) /\ InOrder(t) /\ InOrder(b) /\ InOrder(rest)
    /\ Before(wire, tx) /\ Before(wire, t) /\ Before(wire, b) /\ Before(wire, rest)
    /\ Before(tx, t) /\ Before(tx, b) /\ Before(tx, rest)
    /\ Before(t, b) /\ Before(t, rest)
    /\ Before(b, rest)
    /\ \A k \in 1 .. Len(b) : b[k].kind \in DataKinds /\ ~Accept(s, b[k].kind)
    /\ \A k \in 1 .. Len(rest) : rest[k].kind \in DataKinds
    /\ Numbered(wire) /\ Numbered(tx) /\ Numbered(t) /\ Numbered(b)
    /\ Numbered(rest)

FinalLast(p) == \A k \in 1 .. Len(p) : p[k].kind = "final" => k = Len(p)
Holds(p, n) == \E k \in 1 .. Len(p) : p[k].seq = n
HasFinal(p) == \E k \in 1 .. Len(p) : p[k].kind = "final"

\* Until a send fails no message is lost between the buffer and the
\* transport; the final message is behind all the others.
FlushInv ==
    /\ tq => ~HasFinal(wire) /\ ~HasFinal(tx) /\ ~HasFinal(t)
    /\ ~tq => b = <<>> /\ rest = <<>>
    /\ FinalLast(wire) /\ FinalLast(tx) /\ FinalLast(t)
    /\ HasFinal(wire) => tx = <<>> /\ t = <<>>
    /\ HasFinal(tx) => t = <<>>
    /\ pc["send"] = "loop" \/ HasFinal(wire) =>
          /\ Len(wire) + Len(tx) + Len(t) + Len(b) + Len(rest) = seq
          /\ \A n \in 1 .. seq :
                \/ Holds(wire, n) \/ Holds(tx, n) \/ Holds(t, n)
                \/ Holds(b, n) \/ Holds(rest, n)

\* The inductive invariant.
ConnInv == TypeOK /\ LockInv /\ CloseInv /\ ReplyInv /\ OrderInv /\ FlushInv
=============================================================================
