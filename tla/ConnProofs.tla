------------------------------ MODULE ConnProofs ------------------------------
(***************************************************************************)
(* Proofs of the safety properties of Conn, for any callers, any kinds and *)
(* ResultStreams, any capacity of tx and any number of calls.              *)
(***************************************************************************)
EXTENDS Conn, TLAPS

\* The values an idle caller and a new buffer start with have their types.
LEMMA NoFilterType == NoFilter \in ResultStream /\ NoItem \in Item
BY DEF NoFilter, ResultStream, NoItem, Item

\* A map of counters stays one when one of them is counted up.
LEMMA Counting ==
    ASSUME NEW S, NEW f \in [S -> Nat], NEW x, NEW C \in BOOLEAN
    PROVE  /\ [f EXCEPT ![x] = @ + 1] \in [S -> Nat]
           /\ [f EXCEPT ![x] = IF C THEN @ + 1 ELSE @] \in [S -> Nat]
<1>1. CASE x \in S
  BY <1>1
<1>2. CASE x \notin S
  BY <1>2
<1>3. QED
  BY <1>1, <1>2

\* Taking the first message of a queue leaves a queue.
LEMMA HeadTail ==
    ASSUME NEW S, NEW q \in Seq(S), q # <<>>
    PROVE  Head(q) \in S /\ Tail(q) \in Seq(S) /\ Len(Tail(q)) = Len(q) - 1
OBVIOUS

\* Adding a message to a queue, or a queue to a queue, gives a queue.
LEMMA Appending ==
    ASSUME NEW S, NEW q \in Seq(S), NEW r \in Seq(S), NEW x \in S
    PROVE  /\ Append(q, x) \in Seq(S)
           /\ Append(q \o r, x) \in Seq(S)
           /\ <<>> \in Seq(S)
OBVIOUS

\* Every step keeps the types; io stays above zero until both goroutines end.
LEMMA TypeNext == TypeOK /\ LockInv /\ [Next]_vars => TypeOK'
<1> SUFFICES ASSUME TypeOK, LockInv, [Next]_vars PROVE TypeOK'
  OBVIOUS
<1> USE ConnAssumption, NoFilterType DEF TypeOK, IO, Received, Kinds,
      NoMessage, PC, fieldVars, callVars, bufVars, netVars
<1>1. ASSUME NEW c \in Callers, CallRunOrSend(c) PROVE TypeOK'
  BY <1>1 DEF CallRunOrSend, Call, Item
<1>2. ASSUME NEW c \in Callers, CallStream(c) PROVE TypeOK'
  BY <1>2 DEF CallStream, Call, Item
<1>3. ASSUME NEW c \in Callers, CallCancel(c) PROVE TypeOK'
  BY <1>3 DEF CallCancel, Call, Item
<1>4. ASSUME NEW c \in Callers, Drop(c) PROVE TypeOK'
  <2>1. replies' \in [RunIDs -> Nat]
    <3>1. [replies EXCEPT ![id] = @ + 1] \in [RunIDs -> Nat]
      BY Counting, Zenon
    <3>2. replies' \in {replies, [replies EXCEPT ![id] = @ + 1]}
      BY <1>4 DEF Drop
    <3>3. QED
      BY <3>1, <3>2
  <2>2. QED
    BY <1>4, <2>1, SMTT(60) DEF Drop
<1>5. ASSUME NEW c \in Callers, Lock(c) PROVE TypeOK'
  BY <1>5 DEF Lock, Item
<1>6. ASSUME NEW c \in Callers, BufferRecv(c) PROVE TypeOK'
  <2> DEFINE m == [kind |-> item[c].kind, id |-> item[c].id, seq |-> seq + 1]
  <2>1. item[c].id \in Nat /\ item[c].s \in ResultStream
    BY DEF Item
  <2>2. item[c].kind \in Kinds => m \in Message
    BY <2>1 DEF Message
  <2>3. /\ t' \in Seq(Message) /\ b' \in Seq(Message) /\ rest' \in Seq(Message)
        /\ seq' \in Nat /\ s' \in ResultStream /\ tq' \in BOOLEAN
    <3>1. item[c].kind \in Kinds \cup {"stream", "none"}
      BY DEF Item
    <3>2. CASE item[c].kind = "stream"
      BY <1>6, <2>1, <3>2 DEF BufferRecv, Pushed
    <3>3. CASE item[c].kind \in Kinds
      <4> HIDE DEF m
      <4>1. \/ b' = Append(b, m) /\ UNCHANGED t
            \/ t' = Append(t, m) /\ UNCHANGED b
            \/ t' = Append(t \o b, m) /\ b' = <<>>
        BY <1>6, <3>3 DEF BufferRecv, m
      <4>2. rest' = rest /\ s' = s /\ seq' = seq + 1 /\ tq' \in BOOLEAN
        BY <1>6, <3>3 DEF BufferRecv
      <4>3. QED
        <5>1. m \in Message
          BY <2>2, <3>3
        <5>2. /\ Append(b, m) \in Seq(Message) /\ Append(t, m) \in Seq(Message)
              /\ Append(t \o b, m) \in Seq(Message) /\ <<>> \in Seq(Message)
          BY <5>1, Appending, Zenon
        <5>3. t' \in Seq(Message) /\ b' \in Seq(Message)
          BY <4>1, <5>2, Zenon
        <5>4. rest' \in Seq(Message) /\ s' \in ResultStream /\ seq' \in Nat
          BY <4>2
        <5>5. QED
          BY <4>2, <5>3, <5>4
    <3>4. QED
      BY <1>6, <3>1, <3>2, <3>3 DEF BufferRecv, Pushed
  <2>4. QED
    BY <1>6, <2>3 DEF BufferRecv
<1>7. CASE Refilter
  <2>1. Head(rest) \in Message /\ Tail(rest) \in Seq(Message)
    BY <1>7, HeadTail DEF Refilter
  <2>2. /\ Append(b, Head(rest)) \in Seq(Message)
        /\ Append(t, Head(rest)) \in Seq(Message)
    BY <2>1, Appending, Zenon
  <2>3. QED
    BY <1>7, <2>1, <2>2 DEF Refilter
<1>8. CASE BufferTx
  BY <1>8 DEF BufferTx
<1>9. CASE BufferExit
  BY <1>9 DEF BufferExit
<1>10. CASE SendMessage
  <2>1. Head(tx) \in Message /\ Tail(tx) \in Seq(Message)
    <3>1. tx # <<>>
      BY <1>10 DEF SendMessage
    <3>2. QED
      BY <3>1, HeadTail, Zenon
  <2>2. Head(tx).id \in Nat
    BY <2>1 DEF Message
  <2>3. QED
    <3>1. Append(wire, Head(tx)) \in Seq(Message)
      BY <2>1, Appending, Zenon
    <3>2. QED
      BY <1>10, <2>1, <2>2, <3>1 DEF SendMessage
<1>11. CASE SendError
  BY <1>11 DEF SendError, Goto
<1>12. CASE Drain
  BY <1>12 DEF Drain
<1>13. CASE SendEnds
  BY <1>13 DEF SendEnds, Goto
<1>14. CASE ReceiveMessage
  <2>1. ASSUME NEW i \in unanswered, Receive("ran", i) PROVE TypeOK'
    BY <2>1 DEF Receive, Goto
  <2>2. CASE Receive("event", 0)
    BY <2>2 DEF Receive, Goto
  <2>3. QED
    BY <1>14, <2>1, <2>2 DEF ReceiveMessage
<1>15. CASE ReceiveFinal
  BY <1>15 DEF ReceiveFinal, Receive, Goto
<1>16. CASE ReceiveError
  BY <1>16 DEF ReceiveError, Goto
<1>17. CASE HandleRan
  <2>1. replies' \in [RunIDs -> Nat]
    <3>1. [replies EXCEPT ![rmsg.id] = IF rmsg.id \in rpc THEN @ + 1 ELSE @]
             \in [RunIDs -> Nat]
      BY Counting, Zenon
    <3>2. QED
      BY <1>17, <3>1 DEF HandleRan
  <2>2. QED
    BY <1>17, <2>1 DEF HandleRan, Goto
<1>18. CASE HandleCanceled
  BY <1>18 DEF HandleCanceled, Goto, FailedReplies
<1>19. ASSUME NEW g \in IO, IoDone(g) PROVE TypeOK'
  <2>1. io' \in Nat /\ replies' \in [RunIDs -> Nat] /\ rpc' \subseteq Nat
    <3>1. io \in Nat \ {0}
      BY <1>19 DEF IoDone, LockInv, Ended
    <3>4. io' \in Nat
      BY <1>19, <3>1 DEF IoDone
    <3>2. FailedReplies \in [RunIDs -> Nat]
      BY DEF FailedReplies
    <3>3. QED
      BY <1>19, <3>2, <3>4 DEF IoDone
  <2>2. pc' \in [IO -> PC]
    BY <1>19 DEF IoDone, Goto
  <2>3. QED
    BY <1>19, <2>1, <2>2 DEF IoDone
<1>20. ASSUME NEW g \in IO, TakeEvent(g) PROVE TypeOK'
  BY <1>20 DEF TakeEvent, SendsBack, Goto, AfterEvent, Item, Callers
<1>21. CASE UNCHANGED vars
  BY <1>21 DEF vars
<1>22. QED
  BY <1>1, <1>2, <1>3, <1>4, <1>5, <1>6, <1>7, <1>8, <1>9, <1>10, <1>11, <1>12,
     <1>13, <1>14, <1>15, <1>16, <1>17, <1>18, <1>19, <1>20, <1>21 DEF Next

\* Every step keeps the account of who holds mtx and of what io counts.
LEMMA LockNext == TypeOK /\ LockInv /\ [Next]_vars => LockInv'
<1> SUFFICES ASSUME TypeOK, LockInv, [Next]_vars PROVE LockInv'
  OBVIOUS
<1> USE ConnAssumption DEF TypeOK, Callers, IO, fieldVars, callVars,
      bufVars, netVars, Ended, Unlocked, LockInv, NoItem, NoMessage, PC, Received
<1>1. ASSUME NEW c \in Callers, CallRunOrSend(c) PROVE LockInv'
  <2>1. PICK kind \in Kinds \ {"final"} : Call(c, kind, NoFilter)
    BY <1>1 DEF CallRunOrSend
  <2>2. kind # "none"
    BY DEF Kinds
  <2>3. QED
    BY <2>1, <2>2 DEF Call
<1>2. ASSUME NEW c \in Callers, CallStream(c) PROVE LockInv'
  BY <1>2 DEF CallStream, Call
<1>3. ASSUME NEW c \in Callers, CallCancel(c) PROVE LockInv'
  BY <1>3 DEF CallCancel, Call
<1>4. ASSUME NEW c \in Callers, Drop(c) PROVE LockInv'
  BY <1>4 DEF Drop
<1>5. ASSUME NEW c \in Callers, Lock(c) PROVE LockInv'
  BY <1>5 DEF Lock
<1>6. ASSUME NEW c \in Callers, BufferRecv(c) PROVE LockInv'
  BY <1>6 DEF BufferRecv
<1>7. CASE Refilter
  BY <1>7 DEF Refilter
<1>8. CASE BufferTx
  BY <1>8 DEF BufferTx
<1>9. CASE BufferExit
  BY <1>9 DEF BufferExit
<1>10. CASE SendMessage
  BY <1>10 DEF SendMessage
<1>11. CASE SendError
  BY <1>11 DEF SendError, Goto
<1>12. CASE Drain
  BY <1>12 DEF Drain
<1>13. CASE SendEnds
  BY <1>13 DEF SendEnds, Goto
<1>14. CASE ReceiveMessage
  BY <1>14, SMTT(60) DEF ReceiveMessage, Receive, Goto
<1>15. CASE ReceiveFinal
  BY <1>15 DEF ReceiveFinal, Receive, Goto
<1>16. CASE ReceiveError
  BY <1>16 DEF ReceiveError, Goto
<1>17. CASE HandleRan
  BY <1>17 DEF HandleRan, Goto
<1>18. CASE HandleCanceled
  BY <1>18 DEF HandleCanceled, Goto, FailedReplies
<1>19. ASSUME NEW g \in IO, IoDone(g) PROVE LockInv'
  BY <1>19 DEF IoDone, Goto, FailedReplies
<1>20. ASSUME NEW g \in IO, TakeEvent(g) PROVE LockInv'
  BY <1>20 DEF TakeEvent, Goto, AfterEvent
<1>21. CASE UNCHANGED vars
  BY <1>21 DEF vars
<1>22. QED
  BY <1>1, <1>2, <1>3, <1>4, <1>5, <1>6, <1>7, <1>8, <1>9, <1>10, <1>11,
     <1>12, <1>13, <1>14, <1>15, <1>16, <1>17, <1>18, <1>19, <1>20, <1>21 DEF Next

\* Every step keeps the order of the shutdown: final message, tx, send, tq.
LEMMA CloseNext == TypeOK /\ LockInv /\ CloseInv /\ [Next]_vars => CloseInv'
<1> SUFFICES ASSUME TypeOK, LockInv, CloseInv, [Next]_vars PROVE CloseInv'
  OBVIOUS
<1> USE ConnAssumption DEF TypeOK, Callers, IO, fieldVars, callVars,
      bufVars, netVars, Ended, Unlocked, LockInv, CloseInv, NoItem
<1>1. ASSUME NEW c \in Callers, CallRunOrSend(c) PROVE CloseInv'
  BY <1>1 DEF CallRunOrSend, Call
<1>2. ASSUME NEW c \in Callers, CallStream(c) PROVE CloseInv'
  BY <1>2 DEF CallStream, Call
<1>3. ASSUME NEW c \in Callers, CallCancel(c) PROVE CloseInv'
  BY <1>3 DEF CallCancel, Call
<1>4. ASSUME NEW c \in Callers, Drop(c) PROVE CloseInv'
  BY <1>4 DEF Drop
<1>5. ASSUME NEW c \in Callers, Lock(c) PROVE CloseInv'
  BY <1>5 DEF Lock
<1>6. ASSUME NEW c \in Callers, BufferRecv(c) PROVE CloseInv'
  BY <1>6 DEF BufferRecv
<1>7. CASE Refilter
  BY <1>7 DEF Refilter
<1>8. CASE BufferTx
  BY <1>8 DEF BufferTx
<1>9. CASE BufferExit
  BY <1>9 DEF BufferExit
<1>10. CASE SendMessage
  BY <1>10 DEF SendMessage
<1>11. CASE SendError
  BY <1>11 DEF SendError, Goto
<1>12. CASE Drain
  BY <1>12 DEF Drain
<1>13. CASE SendEnds
  BY <1>13 DEF SendEnds, Goto
<1>14. CASE ReceiveMessage
  <2>1. ASSUME NEW i \in unanswered, Receive("ran", i) PROVE CloseInv'
    BY <2>1 DEF Receive, Goto
  <2>2. CASE Receive("event", 0)
    BY <2>2 DEF Receive, Goto
  <2>3. QED
    BY <1>14, <2>1, <2>2 DEF ReceiveMessage
<1>15. CASE ReceiveFinal
  BY <1>15 DEF ReceiveFinal, Receive, Goto
<1>16. CASE ReceiveError
  BY <1>16 DEF ReceiveError, Goto
<1>17. CASE HandleRan
  BY <1>17 DEF HandleRan, Goto
<1>18. CASE HandleCanceled
  BY <1>18 DEF HandleCanceled, Goto, FailedReplies
<1>19. ASSUME NEW g \in IO, IoDone(g) PROVE CloseInv'
  BY <1>19 DEF IoDone, Goto, FailedReplies
<1>20. ASSUME NEW g \in IO, TakeEvent(g) PROVE CloseInv'
  <2>1. /\ \A h \in IO : h # g => pc'[h] = pc[h]
        /\ Ended(g) => Ended(g)'
        /\ Ended(g)' => Ended(g) /\ pc'[g] # "ioDone"
        /\ pc'[g] = "ioDone" => g = "receive"
    BY <1>20 DEF TakeEvent, SendsBack, Goto, AfterEvent, PC
  <2>2. \A c \in Callers : at'[c] = "tq" <=> at[c] = "tq"
    BY <1>20 DEF TakeEvent
  <2>3. \A c \in Callers : at[c] = "tq" => item'[c] = item[c]
    BY <1>20 DEF TakeEvent
  <2>4. UNCHANGED <<canceled, tqClosed, tq, txClosed>>
    BY <1>20 DEF TakeEvent
  <2>5. (tqClosed => Ended("send") /\ Ended("receive"))'
    BY <2>1, <2>4
  <2>6. (Ended("send") \/ pc["send"] = "ioDone" => txClosed)'
    BY <2>1, <2>4
  <2>7. (canceled /\ tq => \E c \in Callers : at[c] = "tq" /\ item[c].kind = "final")'
    BY <2>2, <2>3, <2>4
  <2>8. (\A c \in Callers : at[c] = "tq" /\ item[c].kind = "final" => canceled)'
    BY <2>2, <2>3, <2>4
  <2>9. ((txClosed => ~tq) /\ (~tq => canceled /\ \A c \in Callers : at[c] # "tq"))'
    BY <2>2, <2>4
  <2>10. QED
    BY <2>5, <2>6, <2>7, <2>8, <2>9
<1>21. CASE UNCHANGED vars
  BY <1>21 DEF vars
<1>22. QED
  BY <1>1, <1>2, <1>3, <1>4, <1>5, <1>6, <1>7, <1>8, <1>9, <1>10, <1>11,
     <1>12, <1>13, <1>14, <1>15, <1>16, <1>17, <1>18, <1>19, <1>20, <1>21 DEF Next

\* Every step keeps a registered Run either in rpc or answered once.
LEMMA ReplyNext == TypeOK /\ LockInv /\ ReplyInv /\ [Next]_vars => ReplyInv'
<1> SUFFICES ASSUME TypeOK, LockInv, ReplyInv, [Next]_vars PROVE ReplyInv'
  OBVIOUS
<1> USE ConnAssumption DEF TypeOK, Callers, IO, fieldVars, callVars,
      bufVars, netVars, Ended, Unlocked, LockInv, ReplyInv, NoItem, RunIDs
<1>1. ASSUME NEW c \in Callers, CallRunOrSend(c) PROVE ReplyInv'
  <2>1. PICK kind \in Kinds \ {"final"} : Call(c, kind, NoFilter)
    BY <1>1 DEF CallRunOrSend
  <2>2. QED
    BY <2>1 DEF Call
<1>2. ASSUME NEW c \in Callers, CallStream(c) PROVE ReplyInv'
  BY <1>2 DEF CallStream, Call
<1>3. ASSUME NEW c \in Callers, CallCancel(c) PROVE ReplyInv'
  BY <1>3 DEF CallCancel, Call
<1>4. ASSUME NEW c \in Callers, Drop(c) PROVE ReplyInv'
  <2>1. /\ \A d \in Callers : at[d] # "tq" /\ at'[d] # "tq"
        /\ rpc' = rpc /\ id \notin rpc
    BY <1>4 DEF Drop
  <2>2. CASE item[c].kind = "run"
    <3>1. id' = id + 1 /\ replies' = [replies EXCEPT ![id] = @ + 1]
      BY <1>4, <2>2 DEF Drop
    <3>2. \A i \in RunIDs : replies'[i] = IF i = id THEN 1 ELSE replies[i]
      BY <3>1
    <3>3. \A i \in rpc' : i < id'
      BY <2>1, <3>1
    <3>4. ASSUME NEW i \in RunIDs
          PROVE  /\ replies'[i] <= 1
                 /\ i \in rpc' \/ i >= id' => replies'[i] = 0
                 /\ i < id' /\ i \notin rpc' => replies'[i] = 1
      <4>1. i \in Nat /\ replies[i] \in Nat
        OBVIOUS
      <4>2. CASE i = id
        BY <2>1, <3>1, <3>2, <4>1, <4>2
      <4>3. CASE i # id
        BY <2>1, <3>1, <3>2, <4>1, <4>3
      <4>4. QED
        BY <4>2, <4>3
    <3>5. QED
      BY <2>1, <3>3, <3>4
  <2>3. CASE item[c].kind # "run"
    BY <1>4, <2>1, <2>3 DEF Drop
  <2>4. QED
    BY <2>2, <2>3
<1>5. ASSUME NEW c \in Callers, Lock(c) PROVE ReplyInv'
  BY <1>5 DEF Lock
<1>6. ASSUME NEW c \in Callers, BufferRecv(c) PROVE ReplyInv'
  BY <1>6 DEF BufferRecv
<1>7. CASE Refilter
  BY <1>7 DEF Refilter
<1>8. CASE BufferTx
  BY <1>8 DEF BufferTx
<1>9. CASE BufferExit
  BY <1>9 DEF BufferExit
<1>10. CASE SendMessage
  BY <1>10 DEF SendMessage
<1>11. CASE SendError
  BY <1>11 DEF SendError, Goto
<1>12. CASE Drain
  BY <1>12 DEF Drain
<1>13. CASE SendEnds
  BY <1>13 DEF SendEnds, Goto
<1>14. CASE ReceiveMessage
  <2>1. ASSUME NEW i \in unanswered, Receive("ran", i) PROVE ReplyInv'
    BY <2>1 DEF Receive, Goto
  <2>2. CASE Receive("event", 0)
    BY <2>2 DEF Receive, Goto
  <2>3. QED
    BY <1>14, <2>1, <2>2 DEF ReceiveMessage
<1>15. CASE ReceiveFinal
  BY <1>15 DEF ReceiveFinal, Receive, Goto
<1>16. CASE ReceiveError
  BY <1>16 DEF ReceiveError, Goto
<1>17. CASE HandleRan
  BY <1>17 DEF HandleRan, Goto
<1>18. CASE HandleCanceled
  BY <1>18 DEF HandleCanceled, Goto, FailedReplies
<1>19. ASSUME NEW g \in IO, IoDone(g) PROVE ReplyInv'
  <2>1. \A d \in Callers : at[d] # "tq" /\ at'[d] # "tq"
    BY <1>19 DEF IoDone
  <2>2. id' = id
    BY <1>19 DEF IoDone
  <2>3. CASE rpc' = rpc /\ replies' = replies
    BY <2>1, <2>2, <2>3
  <2>4. CASE rpc' = {} /\ replies' = FailedReplies
    BY <2>1, <2>2, <2>4 DEF FailedReplies
  <2>5. QED
    BY <1>19, <2>3, <2>4 DEF IoDone
<1>20. ASSUME NEW g \in IO, TakeEvent(g) PROVE ReplyInv'
  <2>1. \A c \in Callers : at'[c] = "tq" <=> at[c] = "tq"
    BY <1>20 DEF TakeEvent
  <2>2. \A c \in Callers : at[c] = "tq" => item'[c] = item[c]
    BY <1>20 DEF TakeEvent
  <2>3. UNCHANGED <<rpc, id, replies>>
    BY <1>20 DEF TakeEvent, fieldVars
  <2>4. (\A i \in rpc : i < id \/ (i = id /\ \E c \in Callers :
                                     at[c] = "tq" /\ item[c].kind = "run"))'
    BY <2>1, <2>2, <2>3
  <2>5. (\A c \in Callers : at[c] = "tq" /\ item[c].kind = "run"
                               => item[c].id = id /\ id \in rpc)'
    BY <2>1, <2>2, <2>3
  <2>6. QED
    BY <2>3, <2>4, <2>5
<1>21. CASE UNCHANGED vars
  BY <1>21 DEF vars
<1>22. QED
  BY <1>1, <1>2, <1>3, <1>4, <1>5, <1>6, <1>7, <1>8, <1>9, <1>10, <1>11,
     <1>12, <1>13, <1>14, <1>15, <1>16, <1>17, <1>18, <1>19, <1>20, <1>21 DEF Next


(***************************************************************************)
(* The queues.  Only six actions move messages.                            *)
(***************************************************************************)

queues == <<wire, tx, t, b, rest, seq, s, tq>>

\* Only the steps of the buffer and the send goroutine move messages.
LEMMA QueueSteps ==
    ASSUME [Next]_vars
    PROVE  \/ \E c \in Callers : BufferRecv(c)
           \/ Refilter \/ BufferTx \/ SendMessage \/ SendError \/ Drain
           \/ UNCHANGED queues
BY DEF Next, vars, queues, fieldVars, callVars, bufVars, netVars, CallRunOrSend,
   CallStream, CallCancel, Call, Drop, Lock, BufferExit, SendEnds, ReceiveMessage,
   ReceiveFinal, Receive, ReceiveError, HandleRan, HandleCanceled, IoDone, TakeEvent

\* What Append returns, place by place.
LEMMA AppendAt ==
    ASSUME NEW S, NEW q \in Seq(S), NEW x \in S
    PROVE  /\ Append(q, x) \in Seq(S)
           /\ Len(Append(q, x)) = Len(q) + 1
           /\ \A k \in 1 .. Len(q) : Append(q, x)[k] = q[k]
           /\ Append(q, x)[Len(q) + 1] = x
OBVIOUS

\* What Tail returns, place by place.
LEMMA TailAt ==
    ASSUME NEW S, NEW q \in Seq(S), q # <<>>
    PROVE  /\ Head(q) \in S /\ Head(q) = q[1]
           /\ Tail(q) \in Seq(S)
           /\ Len(q) \in Nat \ {0} /\ Len(Tail(q)) = Len(q) - 1
           /\ \A k \in 1 .. Len(Tail(q)) : Tail(q)[k] = q[k + 1]
OBVIOUS

\* What a concatenation is, place by place.
LEMMA CatAt ==
    ASSUME NEW S, NEW q \in Seq(S), NEW r \in Seq(S)
    PROVE  /\ q \o r \in Seq(S)
           /\ Len(q \o r) = Len(q) + Len(r)
           /\ \A k \in 1 .. Len(q) : (q \o r)[k] = q[k]
           /\ \A k \in Len(q) + 1 .. Len(q) + Len(r) : (q \o r)[k] = r[k - Len(q)]
OBVIOUS

\* Every message of x's kind in q was sent before x, or after it.
Below(q, x) == \A k \in 1 .. Len(q) : q[k].kind = x.kind => q[k].seq < x.seq
Above(q, x) == \A k \in 1 .. Len(q) : q[k].kind = x.kind => x.seq < q[k].seq

\* Order is kept when a message is added that none of its kind follows.
LEMMA OrderAppend ==
    ASSUME NEW p \in Seq(Message), NEW q \in Seq(Message), NEW x \in Message
    PROVE  /\ InOrder(q) /\ Below(q, x) => InOrder(Append(q, x))
           /\ Before(p, q) /\ Below(p, x) => Before(p, Append(q, x))
           /\ Before(q, p) /\ Above(p, x) => Before(Append(q, x), p)
<1>1. /\ Append(q, x) \in Seq(Message)
      /\ Len(Append(q, x)) = Len(q) + 1
      /\ \A k \in 1 .. Len(q) : Append(q, x)[k] = q[k]
      /\ Append(q, x)[Len(q) + 1] = x
      /\ Len(q) \in Nat
  BY AppendAt
<1>2. \A k \in 1 .. Len(q) + 1 : k \in 1 .. Len(q) \/ k = Len(q) + 1
  BY <1>1
<1> DEFINE a == Append(q, x)
<1> HIDE DEF a
<1>3. ASSUME InOrder(q), Below(q, x) PROVE InOrder(a)
  <2> SUFFICES ASSUME NEW j \in 1 .. Len(q) + 1, NEW k \in 1 .. Len(q) + 1,
                      j < k, a[j].kind = a[k].kind
               PROVE  a[j].seq < a[k].seq
    BY <1>1 DEF InOrder, a
  <2>1. j \in 1 .. Len(q)
    BY <1>1
  <2>2. QED
    BY <1>1, <1>2, <1>3, <2>1 DEF InOrder, Below, a
<1>4. ASSUME Before(p, q), Below(p, x) PROVE Before(p, a)
  BY <1>1, <1>2, <1>4 DEF Before, Below, a
<1>5. ASSUME Before(q, p), Above(p, x) PROVE Before(a, p)
  BY <1>1, <1>2, <1>5 DEF Before, Above, a
<1>6. QED
  BY <1>3, <1>4, <1>5 DEF a

\* Order is kept when the first message is taken.
LEMMA OrderTail ==
    ASSUME NEW p \in Seq(Message), NEW q \in Seq(Message), q # <<>>
    PROVE  /\ InOrder(q) => InOrder(Tail(q)) /\ Above(Tail(q), Head(q))
           /\ Before(p, q) => Before(p, Tail(q)) /\ Below(p, Head(q))
           /\ Before(q, p) => Before(Tail(q), p) /\ Above(p, Head(q))
<1>1. /\ Head(q) = q[1] /\ Len(q) \in Nat \ {0} /\ Len(Tail(q)) = Len(q) - 1
      /\ \A k \in 1 .. Len(Tail(q)) : Tail(q)[k] = q[k + 1]
  BY TailAt
<1>2. /\ \A k \in 1 .. Len(q) - 1 : k + 1 \in 1 .. Len(q)
      /\ 1 \in 1 .. Len(q)
  BY <1>1
<1>3. ASSUME InOrder(q) PROVE InOrder(Tail(q)) /\ Above(Tail(q), Head(q))
  BY <1>1, <1>2, <1>3 DEF InOrder, Above
<1>4. ASSUME Before(p, q) PROVE Before(p, Tail(q)) /\ Below(p, Head(q))
  BY <1>1, <1>2, <1>4 DEF Before, Below
<1>5. ASSUME Before(q, p) PROVE Before(Tail(q), p) /\ Above(p, Head(q))
  BY <1>1, <1>2, <1>5 DEF Before, Above
<1>6. QED
  BY <1>3, <1>4, <1>5

\* Order is kept when a queue is put behind one that comes before it.
LEMMA OrderCat ==
    ASSUME NEW p \in Seq(Message), NEW q \in Seq(Message), NEW r \in Seq(Message)
    PROVE  /\ InOrder(p) /\ InOrder(q) /\ Before(p, q) => InOrder(p \o q)
           /\ Before(r, p) /\ Before(r, q) => Before(r, p \o q)
           /\ Before(p, r) /\ Before(q, r) => Before(p \o q, r)
<1> DEFINE a == p \o q
<1>1. /\ Len(a) = Len(p) + Len(q)
      /\ \A k \in 1 .. Len(p) : a[k] = p[k]
      /\ \A k \in Len(p) + 1 .. Len(p) + Len(q) : a[k] = q[k - Len(p)]
      /\ Len(p) \in Nat /\ Len(q) \in Nat
  BY CatAt
<1>2. \A k \in 1 .. Len(a) : \/ k \in 1 .. Len(p)
                             \/ /\ k \in Len(p) + 1 .. Len(p) + Len(q)
                                /\ k - Len(p) \in 1 .. Len(q)
  BY <1>1
<1> HIDE DEF a
<1>3. ASSUME InOrder(p), InOrder(q), Before(p, q) PROVE InOrder(a)
  <2> SUFFICES ASSUME NEW j \in 1 .. Len(a), NEW k \in 1 .. Len(a),
                      j < k, a[j].kind = a[k].kind
               PROVE  a[j].seq < a[k].seq
    BY DEF InOrder
  <2>1. CASE k \in 1 .. Len(p)
    <3>1. j \in 1 .. Len(p)
      BY <1>1, <2>1
    <3>2. a[j] = p[j] /\ a[k] = p[k]
      BY <1>1, <2>1, <3>1
    <3>3. QED
      BY <1>3, <2>1, <3>1, <3>2 DEF InOrder
  <2>2. CASE k \in Len(p) + 1 .. Len(p) + Len(q) /\ j \in 1 .. Len(p)
    <3>1. a[j] = p[j] /\ a[k] = q[k - Len(p)] /\ k - Len(p) \in 1 .. Len(q)
      BY <1>1, <2>2
    <3>2. QED
      BY <1>3, <2>2, <3>1 DEF Before
  <2>3. CASE j \in Len(p) + 1 .. Len(p) + Len(q)
    <3>1. k \in Len(p) + 1 .. Len(p) + Len(q)
      BY <1>1, <2>3
    <3>2. /\ a[j] = q[j - Len(p)] /\ a[k] = q[k - Len(p)]
          /\ j - Len(p) \in 1 .. Len(q) /\ k - Len(p) \in 1 .. Len(q)
          /\ j - Len(p) < k - Len(p)
      BY <1>1, <2>3, <3>1
    <3>3. QED
      BY <1>3, <3>2 DEF InOrder
  <2>4. QED
    BY <1>2, <2>1, <2>2, <2>3
<1>4. ASSUME Before(r, p), Before(r, q) PROVE Before(r, a)
  BY <1>1, <1>2, <1>4 DEF Before
<1>5. ASSUME Before(p, r), Before(q, r) PROVE Before(a, r)
  BY <1>1, <1>2, <1>5 DEF Before
<1>6. QED
  BY <1>3, <1>4, <1>5 DEF a

\* The messages of q carry numbers up to n.
UpTo(q, n) == \A k \in 1 .. Len(q) : q[k].seq <= n

\* The bound on sequence numbers is kept by taking, adding and joining, and
\* everything within it is below the next number.
LEMMA UpToFacts ==
    ASSUME NEW q \in Seq(Message), NEW r \in Seq(Message), NEW x \in Message,
           NEW n \in Nat
    PROVE  /\ UpTo(q, n) => UpTo(q, n + 1)
           /\ UpTo(q, n) /\ x.seq <= n => UpTo(Append(q, x), n)
           /\ UpTo(q, n) /\ UpTo(r, n) => UpTo(q \o r, n)
           /\ UpTo(q, n) /\ q # <<>> => UpTo(Tail(q), n) /\ Head(q).seq <= n
           /\ UpTo(q, n) /\ x.seq = n + 1 => Below(q, x)
<1>1. \A k \in 1 .. Len(q) : q[k] \in Message
  OBVIOUS
<1>2. \A k \in 1 .. Len(q) : q[k].seq \in Nat
  BY <1>1 DEF Message
<1>3. UpTo(q, n) => UpTo(q, n + 1)
  BY <1>2 DEF UpTo
<1>4. UpTo(q, n) /\ x.seq = n + 1 => Below(q, x)
  BY <1>2 DEF UpTo, Below
<1>5. UpTo(q, n) /\ x.seq <= n => UpTo(Append(q, x), n)
  <2>1. /\ Len(Append(q, x)) = Len(q) + 1 /\ Len(q) \in Nat
        /\ \A k \in 1 .. Len(q) : Append(q, x)[k] = q[k]
        /\ Append(q, x)[Len(q) + 1] = x
    BY AppendAt
  <2>2. \A k \in 1 .. Len(q) + 1 : k \in 1 .. Len(q) \/ k = Len(q) + 1
    BY <2>1
  <2>3. QED
    BY <2>1, <2>2 DEF UpTo
<1>6. UpTo(q, n) /\ UpTo(r, n) => UpTo(q \o r, n)
  <2>1. /\ Len(q \o r) = Len(q) + Len(r) /\ Len(q) \in Nat /\ Len(r) \in Nat
        /\ \A k \in 1 .. Len(q) : (q \o r)[k] = q[k]
        /\ \A k \in Len(q) + 1 .. Len(q) + Len(r) : (q \o r)[k] = r[k - Len(q)]
    BY CatAt
  <2>2. \A k \in 1 .. Len(q \o r) : \/ k \in 1 .. Len(q)
                                    \/ /\ k \in Len(q) + 1 .. Len(q) + Len(r)
                                       /\ k - Len(q) \in 1 .. Len(r)
    BY <2>1
  <2>3. QED
    BY <2>1, <2>2 DEF UpTo
<1>7. UpTo(q, n) /\ q # <<>> => UpTo(Tail(q), n) /\ Head(q).seq <= n
  <2> SUFFICES ASSUME UpTo(q, n), q # <<>> PROVE UpTo(Tail(q), n) /\ Head(q).seq <= n
    OBVIOUS
  <2>1. /\ Head(q) = q[1] /\ Len(q) \in Nat \ {0} /\ Len(Tail(q)) = Len(q) - 1
        /\ \A k \in 1 .. Len(Tail(q)) : Tail(q)[k] = q[k + 1]
    BY TailAt
  <2>2. /\ \A k \in 1 .. Len(q) - 1 : k + 1 \in 1 .. Len(q)
        /\ 1 \in 1 .. Len(q)
    BY <2>1
  <2>3. QED
    BY <2>1, <2>2 DEF UpTo
<1>8. QED
  BY <1>3, <1>4, <1>5, <1>6, <1>7

\* The order of the queues as a statement about five sequences.
Ordered(w, x, y, z, r) ==
    /\ InOrder(w) /\ InOrder(x) /\ InOrder(y) /\ InOrder(z) /\ InOrder(r)
    /\ Before(w, x) /\ Before(w, y) /\ Before(w, z) /\ Before(w, r)
    /\ Before(x, y) /\ Before(x, z) /\ Before(x, r)
    /\ Before(y, z) /\ Before(y, r)
    /\ Before(z, r)

\* Appending the newest message, number n + 1, to the third or fourth queue.
LEMMA OrderedRecv ==
    ASSUME NEW w \in Seq(Message), NEW x \in Seq(Message), NEW y \in Seq(Message),
           NEW z \in Seq(Message), NEW m \in Message, NEW n \in Nat, m.seq = n + 1,
           UpTo(w, n), UpTo(x, n), UpTo(y, n), UpTo(z, n), Ordered(w, x, y, z, <<>>)
    PROVE  /\ Ordered(w, x, y, Append(z, m), <<>>)
           /\ Above(z, m) => Ordered(w, x, Append(y, m), z, <<>>)
           /\ Ordered(w, x, Append(y \o z, m), <<>>, <<>>)
<1>e. ASSUME NEW q \in Seq(Message)
      PROVE  Before(q, <<>>) /\ Before(<<>>, q) /\ InOrder(<<>>)
  BY DEF Before, InOrder
<1>1. Below(w, m) /\ Below(x, m) /\ Below(y, m) /\ Below(z, m)
  BY UpToFacts
<1>2. Append(y, m) \in Seq(Message) /\ Append(z, m) \in Seq(Message)
  OBVIOUS
<1>3. Ordered(w, x, y, Append(z, m), <<>>)
  BY <1>e, <1>1, <1>2, OrderAppend DEF Ordered
<1>4. Above(z, m) => Ordered(w, x, Append(y, m), z, <<>>)
  BY <1>e, <1>1, <1>2, OrderAppend DEF Ordered
<1>5. Ordered(w, x, Append(y \o z, m), <<>>, <<>>)
  <2>1. y \o z \in Seq(Message) /\ Append(y \o z, m) \in Seq(Message)
    OBVIOUS
  <2>2. UpTo(y \o z, n)
    BY UpToFacts
  <2>3. Below(y \o z, m)
    BY <2>1, <2>2, UpToFacts
  <2>4. InOrder(y \o z) /\ Before(w, y \o z) /\ Before(x, y \o z)
    BY OrderCat DEF Ordered
  <2>5. /\ InOrder(Append(y \o z, m))
        /\ Before(w, Append(y \o z, m)) /\ Before(x, Append(y \o z, m))
    BY <1>1, <2>1, <2>3, <2>4, OrderAppend
  <2>6. /\ Before(w, <<>>) /\ Before(x, <<>>) /\ Before(Append(y \o z, m), <<>>)
        /\ InOrder(<<>>) /\ Before(<<>>, <<>>)
    BY DEF Before, InOrder
  <2>7. QED
    BY <2>5, <2>6 DEF Ordered
<1>6. QED
  BY <1>3, <1>4, <1>5

\* Moving the first message of a queue to the end of an earlier one, or
\* dropping it.  A message of rest goes past b only if b has none of its kind.
LEMMA OrderedMove ==
    ASSUME NEW w \in Seq(Message), NEW x \in Seq(Message), NEW y \in Seq(Message),
           NEW z \in Seq(Message), NEW r \in Seq(Message), Ordered(w, x, y, z, r)
    PROVE  /\ x # <<>> => /\ Ordered(Append(w, Head(x)), Tail(x), y, z, r)
                          /\ Ordered(w, Tail(x), y, z, r)
           /\ y # <<>> => Ordered(w, Append(x, Head(y)), Tail(y), z, r)
           /\ r # <<>> => /\ Ordered(w, x, y, Append(z, Head(r)), Tail(r))
                          /\ Above(z, Head(r)) =>
                                Ordered(w, x, Append(y, Head(r)), z, Tail(r))
<1>1. ASSUME x # <<>>
      PROVE  /\ Ordered(Append(w, Head(x)), Tail(x), y, z, r)
             /\ Ordered(w, Tail(x), y, z, r)
  <2>1. Head(x) \in Message /\ Tail(x) \in Seq(Message)
    BY <1>1
  <2>2. /\ InOrder(Tail(x)) /\ Above(Tail(x), Head(x))
        /\ Before(w, Tail(x)) /\ Below(w, Head(x))
        /\ Before(Tail(x), y) /\ Above(y, Head(x))
        /\ Before(Tail(x), z) /\ Above(z, Head(x))
        /\ Before(Tail(x), r) /\ Above(r, Head(x))
    BY <1>1, OrderTail DEF Ordered
  <2>3. /\ InOrder(Append(w, Head(x))) /\ Before(Append(w, Head(x)), Tail(x))
        /\ Before(Append(w, Head(x)), y) /\ Before(Append(w, Head(x)), z)
        /\ Before(Append(w, Head(x)), r)
    BY <2>1, <2>2, OrderAppend DEF Ordered
  <2>4. QED
    BY <2>2, <2>3 DEF Ordered
<1>2. ASSUME y # <<>>
      PROVE  Ordered(w, Append(x, Head(y)), Tail(y), z, r)
  <2>1. Head(y) \in Message /\ Tail(y) \in Seq(Message)
    BY <1>2
  <2>2. /\ InOrder(Tail(y)) /\ Above(Tail(y), Head(y))
        /\ Before(w, Tail(y)) /\ Below(w, Head(y))
        /\ Before(x, Tail(y)) /\ Below(x, Head(y))
        /\ Before(Tail(y), z) /\ Above(z, Head(y))
        /\ Before(Tail(y), r) /\ Above(r, Head(y))
    BY <1>2, OrderTail DEF Ordered
  <2>3. /\ InOrder(Append(x, Head(y))) /\ Before(Append(x, Head(y)), Tail(y))
        /\ Before(w, Append(x, Head(y)))
        /\ Before(Append(x, Head(y)), z) /\ Before(Append(x, Head(y)), r)
    BY <2>1, <2>2, OrderAppend DEF Ordered
  <2>4. QED
    BY <2>2, <2>3 DEF Ordered
<1>3. ASSUME r # <<>>
      PROVE  /\ Ordered(w, x, y, Append(z, Head(r)), Tail(r))
             /\ Above(z, Head(r)) => Ordered(w, x, Append(y, Head(r)), z, Tail(r))
  <2>1. Head(r) \in Message /\ Tail(r) \in Seq(Message)
    BY <1>3
  <2>2. /\ InOrder(Tail(r)) /\ Above(Tail(r), Head(r))
        /\ Before(w, Tail(r)) /\ Below(w, Head(r))
        /\ Before(x, Tail(r)) /\ Below(x, Head(r))
        /\ Before(y, Tail(r)) /\ Below(y, Head(r))
        /\ Before(z, Tail(r)) /\ Below(z, Head(r))
    BY <1>3, OrderTail DEF Ordered
  <2>3. /\ InOrder(Append(z, Head(r))) /\ Before(Append(z, Head(r)), Tail(r))
        /\ Before(w, Append(z, Head(r))) /\ Before(x, Append(z, Head(r)))
        /\ Before(y, Append(z, Head(r)))
    BY <2>1, <2>2, OrderAppend DEF Ordered
  <2>4. /\ InOrder(Append(y, Head(r))) /\ Before(Append(y, Head(r)), Tail(r))
        /\ Before(w, Append(y, Head(r))) /\ Before(x, Append(y, Head(r)))
        /\ Above(z, Head(r)) => Before(Append(y, Head(r)), z)
    BY <2>1, <2>2, OrderAppend DEF Ordered
  <2>5. QED
    BY <2>2, <2>3, <2>4 DEF Ordered
<1>4. QED
  BY <1>1, <1>2, <1>3

\* Every step keeps messages of a kind in order from b to the transport.
LEMMA OrderNext == TypeOK /\ OrderInv /\ [Next]_vars => OrderInv'
<1> SUFFICES ASSUME TypeOK, OrderInv, [Next]_vars PROVE OrderInv'
  OBVIOUS
<1> DEFINE Held(q, f) == \A k \in 1 .. Len(q) :
                            q[k].kind \in DataKinds /\ ~Accept(f, q[k].kind)
           Data(q) == \A k \in 1 .. Len(q) : q[k].kind \in DataKinds
<1>0. /\ wire \in Seq(Message) /\ tx \in Seq(Message) /\ t \in Seq(Message)
      /\ b \in Seq(Message) /\ rest \in Seq(Message) /\ <<>> \in Seq(Message)
      /\ seq \in Nat
  BY DEF TypeOK
<1>i. /\ Ordered(wire, tx, t, b, rest) /\ Held(b, s) /\ Data(rest)
      /\ UpTo(wire, seq) /\ UpTo(tx, seq) /\ UpTo(t, seq) /\ UpTo(b, seq)
      /\ UpTo(rest, seq)
  BY DEF OrderInv, Ordered, Numbered, UpTo
<1>g. SUFFICES /\ Ordered(wire', tx', t', b', rest') /\ Held(b', s') /\ Data(rest')
               /\ UpTo(wire', seq') /\ UpTo(tx', seq') /\ UpTo(t', seq')
               /\ UpTo(b', seq') /\ UpTo(rest', seq')
  BY DEF OrderInv, Ordered, Numbered, UpTo
<1>1. ASSUME NEW c \in Callers, BufferRecv(c) PROVE <1>g!1
  <2>1. UNCHANGED <<wire, tx>> /\ rest = <<>>
    BY <1>1 DEF BufferRecv, netVars
  <2>2. CASE item[c].kind = "stream"
    <3>1. UNCHANGED <<t, seq>> /\ rest' = b /\ b' = <<>>
      BY <1>1, <2>2, ConnAssumption DEF BufferRecv, Pushed
    <3>2. QED
      BY <1>0, <1>i, <2>1, <3>1 DEF Ordered, Before, InOrder, UpTo
  <2>3. CASE item[c].kind \in Kinds
    <3>1. PICK m : m = [kind |-> item[c].kind, id |-> item[c].id, seq |-> seq + 1]
      OBVIOUS
    <3>2. m \in Message /\ m.seq = seq + 1 /\ m.kind = item[c].kind
      BY <2>3, <3>1 DEF Message, TypeOK, Item
    <3>3. seq' = seq + 1 /\ s' = s /\ rest' = rest
      BY <1>1, <2>3, ConnAssumption DEF BufferRecv, Kinds
    <3>4. /\ UpTo(wire, seq + 1) /\ UpTo(tx, seq + 1) /\ UpTo(t, seq + 1)
          /\ UpTo(b, seq + 1) /\ UpTo(rest, seq + 1)
      BY <1>0, <1>i, UpToFacts, <3>2
    <3>n. seq + 1 \in Nat /\ m.seq <= seq + 1
      BY <1>0, <3>2
    <3>5. \/ /\ b' = Append(b, m) /\ t' = t
             /\ m.kind \in DataKinds /\ ~Accept(s, m.kind)
          \/ /\ t' = Append(t, m) /\ b' = b
             /\ m.kind \notin DataKinds \/ Accept(s, m.kind)
          \/ t' = Append(t \o b, m) /\ b' = <<>>
      <4>1. CASE item[c].kind = "final"
        BY <1>1, <3>1, <4>1, ConnAssumption DEF BufferRecv
      <4>2. CASE item[c].kind \in DataKinds
        BY <1>1, <3>1, <3>2, <4>2, ConnAssumption DEF BufferRecv, Pushed
      <4>3. CASE item[c].kind \in {"push", "run"}
        BY <1>1, <3>1, <3>2, <4>3, ConnAssumption DEF BufferRecv, Pushed
      <4>4. QED
        BY <2>3, <4>1, <4>2, <4>3 DEF Kinds
    <3>6. CASE /\ b' = Append(b, m) /\ t' = t
               /\ m.kind \in DataKinds /\ ~Accept(s, m.kind)
      <4>1. Ordered(wire, tx, t, Append(b, m), <<>>)
        BY <1>0, <1>i, <2>1, <3>2, OrderedRecv
      <4>2. UpTo(Append(b, m), seq + 1)
        BY <1>0, <3>2, <3>4, <3>n, UpToFacts
      <4>3. Held(Append(b, m), s)
        BY <1>0, <1>i, <3>2, <3>6, AppendAt
      <4>4. QED
        BY <1>i, <2>1, <3>3, <3>4, <3>6, <4>1, <4>2, <4>3
    <3>7. CASE /\ t' = Append(t, m) /\ b' = b
               /\ m.kind \notin DataKinds \/ Accept(s, m.kind)
      <4>1. Above(b, m)
        BY <1>i, <3>7 DEF Above
      <4>2. Ordered(wire, tx, Append(t, m), b, <<>>)
        BY <1>0, <1>i, <2>1, <3>2, <4>1, OrderedRecv
      <4>3. UpTo(Append(t, m), seq + 1)
        BY <1>0, <3>2, <3>4, <3>n, UpToFacts
      <4>4. QED
        BY <1>i, <2>1, <3>3, <3>4, <3>7, <4>2, <4>3
    <3>8. CASE t' = Append(t \o b, m) /\ b' = <<>>
      <4>1. Ordered(wire, tx, Append(t \o b, m), <<>>, <<>>)
        BY <1>0, <1>i, <2>1, <3>2, OrderedRecv
      <4>2. t \o b \in Seq(Message) /\ UpTo(t \o b, seq + 1)
        BY <1>0, <3>2, <3>4, UpToFacts
      <4>3. UpTo(Append(t \o b, m), seq + 1)
        BY <3>2, <3>n, <4>2, UpToFacts
      <4>4. UpTo(<<>>, seq + 1) /\ Held(<<>>, s)
        BY DEF UpTo
      <4>5. QED
        BY <1>i, <2>1, <3>3, <3>4, <3>8, <4>1, <4>3, <4>4
    <3>9. QED
      BY <3>5, <3>6, <3>7, <3>8
  <2>4. QED
    BY <1>1, <2>2, <2>3 DEF BufferRecv, Pushed, Kinds
<1>2. CASE Refilter
  <2>1. /\ rest # <<>> /\ rest' = Tail(rest)
        /\ UNCHANGED <<wire, tx, s, seq>>
    BY <1>2 DEF Refilter, netVars
  <2>2. Head(rest) \in Message /\ Tail(rest) \in Seq(Message)
    BY <1>0, <2>1
  <2>3. Head(rest).kind \in DataKinds /\ Data(Tail(rest))
    BY <1>0, <1>i, <2>1, TailAt
  <2>4. UpTo(Tail(rest), seq) /\ Head(rest).seq <= seq
    BY <1>0, <1>i, <2>1, <2>2, UpToFacts
  <2>5. CASE Accept(s, Head(rest).kind)
    <3>1. t' = Append(t, Head(rest)) /\ b' = b
      BY <1>2, <2>5 DEF Refilter
    <3>2. Above(b, Head(rest))
      BY <1>i, <2>5 DEF Above
    <3>3. Ordered(wire, tx, Append(t, Head(rest)), b, Tail(rest))
      BY <1>0, <1>i, <2>1, <3>2, OrderedMove
    <3>4. UpTo(Append(t, Head(rest)), seq)
      BY <1>0, <1>i, <2>2, <2>4, UpToFacts
    <3>5. QED
      BY <1>i, <2>1, <2>3, <2>4, <3>1, <3>3, <3>4
  <2>6. CASE ~Accept(s, Head(rest).kind)
    <3>1. b' = Append(b, Head(rest)) /\ t' = t
      BY <1>2, <2>6 DEF Refilter
    <3>2. Ordered(wire, tx, t, Append(b, Head(rest)), Tail(rest))
      BY <1>0, <1>i, <2>1, OrderedMove
    <3>3. UpTo(Append(b, Head(rest)), seq)
      BY <1>0, <1>i, <2>2, <2>4, UpToFacts
    <3>4. Held(Append(b, Head(rest)), s)
      BY <1>0, <1>i, <2>2, <2>3, <2>6, AppendAt
    <3>5. QED
      BY <1>i, <2>1, <2>3, <2>4, <3>1, <3>2, <3>3, <3>4
  <2>7. QED
    BY <2>5, <2>6
<1>3. CASE BufferTx
  <2>1. /\ t # <<>> /\ t' = Tail(t) /\ tx' = Append(tx, Head(t))
        /\ UNCHANGED <<wire, b, rest, s, seq>>
    BY <1>3 DEF BufferTx
  <2>2. Ordered(wire, Append(tx, Head(t)), Tail(t), b, rest)
    BY <1>0, <1>i, <2>1, OrderedMove
  <2>3. Head(t) \in Message /\ UpTo(Tail(t), seq) /\ Head(t).seq <= seq
    BY <1>0, <1>i, <2>1, UpToFacts, TailAt
  <2>4. UpTo(Append(tx, Head(t)), seq)
    BY <1>0, <1>i, <2>3, UpToFacts
  <2>5. QED
    BY <1>i, <2>1, <2>2, <2>3, <2>4
<1>4. CASE SendMessage
  <2>1. /\ tx # <<>> /\ tx' = Tail(tx) /\ wire' = Append(wire, Head(tx))
        /\ UNCHANGED <<t, b, rest, s, seq>>
    BY <1>4 DEF SendMessage, bufVars
  <2>2. Ordered(Append(wire, Head(tx)), Tail(tx), t, b, rest)
    BY <1>0, <1>i, <2>1, OrderedMove
  <2>3. Head(tx) \in Message /\ UpTo(Tail(tx), seq) /\ Head(tx).seq <= seq
    BY <1>0, <1>i, <2>1, UpToFacts, TailAt
  <2>4. UpTo(Append(wire, Head(tx)), seq)
    BY <1>0, <1>i, <2>3, UpToFacts
  <2>5. QED
    BY <1>i, <2>1, <2>2, <2>3, <2>4
<1>5. CASE SendError \/ Drain
  <2>1. tx # <<>> /\ tx' = Tail(tx) /\ UNCHANGED <<wire, t, b, rest, s, seq>>
    BY <1>5 DEF SendError, Drain, bufVars
  <2>2. Ordered(wire, Tail(tx), t, b, rest)
    BY <1>0, <1>i, <2>1, OrderedMove
  <2>3. Head(tx) \in Message /\ UpTo(Tail(tx), seq)
    BY <1>0, <1>i, <2>1, UpToFacts, TailAt
  <2>4. QED
    BY <1>i, <2>1, <2>2, <2>3
<1>6. CASE UNCHANGED queues
  BY <1>i, <1>6 DEF queues
<1>7. QED
  BY <1>1, <1>2, <1>3, <1>4, <1>5, <1>6, QueueSteps

\* What a message added to a queue does to the final message and to the
\* sequence numbers it holds.
LEMMA FinalAppend ==
    ASSUME NEW q \in Seq(Message), NEW x \in Message
    PROVE  /\ HasFinal(Append(q, x)) <=> HasFinal(q) \/ x.kind = "final"
           /\ ~HasFinal(q) => FinalLast(Append(q, x))
           /\ \A n : Holds(Append(q, x), n) <=> Holds(q, n) \/ x.seq = n
<1>1. /\ Len(Append(q, x)) = Len(q) + 1 /\ Len(q) \in Nat
      /\ \A k \in 1 .. Len(q) : Append(q, x)[k] = q[k]
      /\ Append(q, x)[Len(q) + 1] = x
  BY AppendAt
<1>2. /\ \A k \in 1 .. Len(q) + 1 : k \in 1 .. Len(q) \/ k = Len(q) + 1
      /\ \A k \in 1 .. Len(q) : k \in 1 .. Len(q) + 1
      /\ Len(q) + 1 \in 1 .. Len(q) + 1
  BY <1>1
<1>3. HasFinal(Append(q, x)) <=> HasFinal(q) \/ x.kind = "final"
  BY <1>1, <1>2 DEF HasFinal
<1>4. ~HasFinal(q) => FinalLast(Append(q, x))
  BY <1>1, <1>2 DEF HasFinal, FinalLast
<1>5. ASSUME NEW n PROVE Holds(Append(q, x), n) <=> Holds(q, n) \/ x.seq = n
  BY <1>1, <1>2 DEF Holds
<1>6. QED
  BY <1>3, <1>4, <1>5

\* What taking the first message does to them.
LEMMA FinalTail ==
    ASSUME NEW q \in Seq(Message), q # <<>>
    PROVE  /\ HasFinal(Tail(q)) => HasFinal(q)
           /\ Head(q).kind = "final" => HasFinal(q)
           /\ FinalLast(q) => FinalLast(Tail(q))
           /\ FinalLast(q) /\ Head(q).kind = "final" => Tail(q) = <<>>
           /\ \A n : Holds(q, n) <=> Head(q).seq = n \/ Holds(Tail(q), n)
<1> DEFINE r == Tail(q)
<1>1. /\ Head(q) = q[1] /\ Len(q) \in Nat \ {0} /\ Len(r) = Len(q) - 1
      /\ \A k \in 1 .. Len(r) : r[k] = q[k + 1]
      /\ r \in Seq(Message)
  BY TailAt
<1> HIDE DEF r
<1>2. /\ \A k \in 1 .. Len(q) - 1 : k + 1 \in 1 .. Len(q)
      /\ 1 \in 1 .. Len(q)
      /\ \A k \in 1 .. Len(q) : k = 1 \/ (k - 1 \in 1 .. Len(q) - 1 /\ (k - 1) + 1 = k)
  BY <1>1
<1>3. HasFinal(r) => HasFinal(q)
  BY <1>1, <1>2 DEF HasFinal
<1>4. Head(q).kind = "final" => HasFinal(q)
  BY <1>1, <1>2 DEF HasFinal
<1>5. ASSUME FinalLast(q), NEW k \in 1 .. Len(r), r[k].kind = "final"
      PROVE  k = Len(r)
  <2>1. k + 1 \in 1 .. Len(q) /\ q[k + 1].kind = "final"
    BY <1>1, <1>2, <1>5
  <2>2. k + 1 = Len(q)
    BY <1>5, <2>1 DEF FinalLast
  <2>3. k \in Nat /\ Len(r) \in Nat
    BY <1>1
  <2>4. QED
    BY <1>1, <2>2, <2>3
<1>6. ASSUME FinalLast(q), Head(q).kind = "final" PROVE r = <<>>
  <2>1. 1 = Len(q)
    BY <1>1, <1>2, <1>6 DEF FinalLast
  <2>2. Len(r) = 0
    BY <1>1, <2>1
  <2>3. QED
    BY <1>1, <2>2
<1>7. ASSUME NEW n PROVE Holds(q, n) <=> Head(q).seq = n \/ Holds(r, n)
  <2>1. ASSUME Holds(q, n) PROVE Head(q).seq = n \/ Holds(r, n)
    <3>1. PICK k \in 1 .. Len(q) : q[k].seq = n
      BY <2>1 DEF Holds
    <3>2. CASE k = 1
      BY <1>1, <3>1, <3>2
    <3>3. CASE k # 1
      <4>1. k - 1 \in 1 .. Len(r) /\ r[k - 1] = q[k]
        BY <1>1, <1>2, <3>3
      <4>2. QED
        BY <3>1, <4>1 DEF Holds
    <3>4. QED
      BY <3>2, <3>3
  <2>2. ASSUME Head(q).seq = n \/ Holds(r, n) PROVE Holds(q, n)
    BY <1>1, <1>2, <2>2 DEF Holds
  <2>3. QED
    BY <2>1, <2>2
<1>8. QED
  BY <1>3, <1>4, <1>5, <1>6, <1>7 DEF FinalLast, r

\* What joining two queues does to them.
LEMMA FinalCat ==
    ASSUME NEW q \in Seq(Message), NEW r \in Seq(Message)
    PROVE  /\ HasFinal(q \o r) => HasFinal(q) \/ HasFinal(r)
           /\ \A n : Holds(q, n) \/ Holds(r, n) => Holds(q \o r, n)
<1>1. /\ Len(q \o r) = Len(q) + Len(r) /\ Len(q) \in Nat /\ Len(r) \in Nat
      /\ \A k \in 1 .. Len(q) : (q \o r)[k] = q[k]
      /\ \A k \in Len(q) + 1 .. Len(q) + Len(r) : (q \o r)[k] = r[k - Len(q)]
  BY CatAt
<1>2. /\ \A k \in 1 .. Len(q \o r) : \/ k \in 1 .. Len(q)
                                     \/ /\ k \in Len(q) + 1 .. Len(q) + Len(r)
                                        /\ k - Len(q) \in 1 .. Len(r)
      /\ \A k \in 1 .. Len(q) : k \in 1 .. Len(q \o r)
      /\ \A k \in 1 .. Len(r) : /\ k + Len(q) \in Len(q) + 1 .. Len(q) + Len(r)
                                /\ k + Len(q) \in 1 .. Len(q \o r)
                                /\ (k + Len(q)) - Len(q) = k
  BY <1>1
<1>3. HasFinal(q \o r) => HasFinal(q) \/ HasFinal(r)
  BY <1>1, <1>2 DEF HasFinal
<1>4. ASSUME NEW n PROVE Holds(q, n) => Holds(q \o r, n)
  BY <1>1, <1>2 DEF Holds
<1>5. ASSUME NEW n PROVE Holds(r, n) => Holds(q \o r, n)
  <2> SUFFICES ASSUME NEW k \in 1 .. Len(r), r[k].seq = n PROVE Holds(q \o r, n)
    BY DEF Holds
  <2>1. (q \o r)[k + Len(q)] = r[k] /\ k + Len(q) \in 1 .. Len(q \o r)
    BY <1>1, <1>2
  <2>2. QED
    BY <2>1 DEF Holds
<1>6. QED
  BY <1>3, <1>4, <1>5

\* The send goroutine does not get back into its loop.
LEMMA SendLoop ==
    TypeOK /\ LockInv /\ [Next]_vars /\ pc'["send"] = "loop" => pc["send"] = "loop"
<1> SUFFICES ASSUME TypeOK, LockInv, [Next]_vars, pc'["send"] = "loop"
             PROVE  pc["send"] = "loop"
  OBVIOUS
<1> USE DEF TypeOK, IO, Goto
<1>1. CASE SendError \/ SendEnds
  BY <1>1 DEF SendError, SendEnds
<1>2. CASE ReceiveMessage \/ ReceiveFinal \/ ReceiveError
  BY <1>2 DEF ReceiveMessage, ReceiveFinal, ReceiveError, Receive
<1>3. CASE HandleRan \/ HandleCanceled
  BY <1>3 DEF HandleRan, HandleCanceled
<1>4. ASSUME NEW g \in IO, IoDone(g) PROVE pc["send"] = "loop"
  BY <1>4 DEF IoDone
<1>5. ASSUME NEW g \in IO, TakeEvent(g) PROVE pc["send"] = "loop"
  <2>1. pc' = [pc EXCEPT ![g] = AfterEvent(g)]
    BY <1>5 DEF TakeEvent
  <2>2. g = "send" => AfterEvent(g) # "loop"
    BY DEF AfterEvent, LockInv
  <2>3. QED
    BY <2>1, <2>2
<1>6. CASE UNCHANGED pc
  BY <1>6
<1>7. QED
  <2>1. \/ UNCHANGED pc
        \/ SendError \/ SendEnds \/ ReceiveMessage \/ ReceiveFinal \/ ReceiveError
        \/ HandleRan \/ HandleCanceled
        \/ \E g \in IO : IoDone(g) \/ TakeEvent(g)
    BY DEF Next, vars, CallRunOrSend, CallStream, CallCancel, Call, Drop, Lock,
       BufferRecv, Refilter, BufferTx, BufferExit, SendMessage, Drain
  <2>2. QED
    BY <1>1, <1>2, <1>3, <1>4, <1>5, <1>6, <2>1

\* Every step keeps all messages on their way until the final one is out.
LEMMA FlushNext ==
    TypeOK /\ LockInv /\ OrderInv /\ FlushInv /\ [Next]_vars => FlushInv'
<1> SUFFICES ASSUME TypeOK, LockInv, OrderInv, FlushInv, [Next]_vars PROVE FlushInv'
  OBVIOUS
<1> DEFINE Size == Len(wire) + Len(tx) + Len(t) + Len(b) + Len(rest)
           Kept(n) == \/ Holds(wire, n) \/ Holds(tx, n) \/ Holds(t, n)
                      \/ Holds(b, n) \/ Holds(rest, n)
           Live == pc["send"] = "loop" \/ HasFinal(wire)
<1>0. /\ wire \in Seq(Message) /\ tx \in Seq(Message) /\ t \in Seq(Message)
      /\ b \in Seq(Message) /\ rest \in Seq(Message) /\ <<>> \in Seq(Message)
      /\ seq \in Nat /\ tq \in BOOLEAN
      /\ Len(wire) \in Nat /\ Len(tx) \in Nat /\ Len(t) \in Nat /\ Len(b) \in Nat
      /\ Len(rest) \in Nat
  BY DEF TypeOK
<1>n. /\ Len(wire) \in Nat /\ Len(tx) \in Nat /\ Len(t) \in Nat /\ Len(b) \in Nat
      /\ Len(rest) \in Nat /\ seq \in Nat
  BY <1>0
<1>s. Live => Size = seq
  BY DEF FlushInv
<1>p. pc'["send"] = "loop" => pc["send"] = "loop"
  BY SendLoop
<1>e. ~HasFinal(<<>>) /\ FinalLast(<<>>) /\ Len(<<>>) = 0
  BY DEF HasFinal, FinalLast
<1>h. ~HasFinal(b) /\ ~HasFinal(rest)
  BY ConnAssumption DEF OrderInv, HasFinal
<1>1. ASSUME NEW c \in Callers, BufferRecv(c) PROVE FlushInv'
  <2>1. UNCHANGED <<wire, tx, pc>> /\ rest = <<>> /\ tq
    BY <1>1 DEF BufferRecv, netVars
  <2>f. ~HasFinal(wire) /\ ~HasFinal(tx) /\ ~HasFinal(t)
    BY <2>1 DEF FlushInv
  <2>2. CASE item[c].kind = "stream"
    <3>1. UNCHANGED <<t, tq, seq>> /\ rest' = b /\ b' = <<>>
      BY <1>1, <2>2, ConnAssumption DEF BufferRecv, Pushed
    <3>2. Live' => Len(wire') + Len(tx') + Len(t') + Len(b') + Len(rest') = seq'
      BY <1>0, <1>e, <2>1, <3>1 DEF FlushInv
    <3>3. Live' => \A n \in 1 .. seq' : Kept(n)'
      BY <2>1, <3>1 DEF FlushInv, Holds
    <3>4. QED
      BY <2>1, <2>f, <3>1, <3>2, <3>3 DEF FlushInv
  <2>3. CASE item[c].kind \in Kinds
    <3>1. PICK m : m = [kind |-> item[c].kind, id |-> item[c].id, seq |-> seq + 1]
      OBVIOUS
    <3>2. m \in Message /\ m.seq = seq + 1 /\ m.kind = item[c].kind
      BY <2>3, <3>1 DEF Message, TypeOK, Item
    <3>3. seq' = seq + 1 /\ rest' = rest
      BY <1>1, <2>3, ConnAssumption DEF BufferRecv, Kinds
    <3>n. \A n \in 1 .. seq + 1 : n \in 1 .. seq \/ n = seq + 1
      BY <1>0
    <3>5. \/ b' = Append(b, m) /\ t' = t /\ tq'
          \/ t' = Append(t, m) /\ b' = b /\ tq' /\ m.kind # "final"
          \/ t' = Append(t \o b, m) /\ b' = <<>> /\ ~tq'
      BY <1>1, <2>1, <3>1, <3>2, <2>3, ConnAssumption DEF BufferRecv, Kinds
    <3>6. CASE b' = Append(b, m) /\ t' = t /\ tq'
      <4>1. Len(b') = Len(b) + 1 /\ (\A n : Holds(b', n) <=> Holds(b, n) \/ m.seq = n)
        BY <1>0, <3>2, <3>6, FinalAppend, AppendAt
      <4>2. Live' => Len(wire') + Len(tx') + Len(t') + Len(b') + Len(rest') = seq'
        <5>1. Live' => Live
          BY <2>1
        <5>2. /\ Len(wire') = Len(wire) /\ Len(tx') = Len(tx) /\ Len(t') = Len(t)
              /\ Len(b') = Len(b) + 1 /\ Len(rest') = Len(rest) /\ seq' = seq + 1
          BY <2>1, <3>3, <3>6, <4>1
        <5>3. ASSUME Live' PROVE Len(wire') + Len(tx') + Len(t') + Len(b') + Len(rest') = seq'
          <6>1. Len(wire) + Len(tx) + Len(t) + Len(b) + Len(rest) = seq
            BY <1>s, <5>1, <5>3
          <6>2. QED
            BY <1>n, <5>2, <6>1
        <5>4. QED
          BY <5>3
      <4>3. Live' => \A n \in 1 .. seq' : Kept(n)'
        BY <2>1, <3>2, <3>3, <3>6, <3>n, <4>1 DEF FlushInv
      <4>4. QED
        BY <2>1, <2>f, <3>6, <4>2, <4>3 DEF FlushInv
    <3>7. CASE t' = Append(t, m) /\ b' = b /\ tq' /\ m.kind # "final"
      <4>1. /\ Len(t') = Len(t) + 1 /\ (\A n : Holds(t', n) <=> Holds(t, n) \/ m.seq = n)
            /\ ~HasFinal(t') /\ FinalLast(t')
        BY <1>0, <2>f, <3>2, <3>7, FinalAppend, AppendAt
      <4>2. Live' => Len(wire') + Len(tx') + Len(t') + Len(b') + Len(rest') = seq'
        <5>1. Live' => Live
          BY <2>1
        <5>2. /\ Len(wire') = Len(wire) /\ Len(tx') = Len(tx) /\ Len(t') = Len(t) + 1
              /\ Len(b') = Len(b) /\ Len(rest') = Len(rest) /\ seq' = seq + 1
          BY <2>1, <3>3, <3>7, <4>1
        <5>3. ASSUME Live' PROVE Len(wire') + Len(tx') + Len(t') + Len(b') + Len(rest') = seq'
          <6>1. Len(wire) + Len(tx) + Len(t) + Len(b) + Len(rest) = seq
            BY <1>s, <5>1, <5>3
          <6>2. QED
            BY <1>n, <5>2, <6>1
        <5>4. QED
          BY <5>3
      <4>3. Live' => \A n \in 1 .. seq' : Kept(n)'
        BY <2>1, <3>2, <3>3, <3>7, <3>n, <4>1 DEF FlushInv
      <4>4. QED
        BY <2>1, <2>f, <3>7, <4>1, <4>2, <4>3 DEF FlushInv
    <3>8. CASE t' = Append(t \o b, m) /\ b' = <<>> /\ ~tq'
      <4>1. /\ t \o b \in Seq(Message) /\ Len(t \o b) = Len(t) + Len(b)
            /\ ~HasFinal(t \o b)
            /\ \A n : Holds(t, n) \/ Holds(b, n) => Holds(t \o b, n)
        BY <1>0, <1>h, <2>f, FinalCat, CatAt
      <4>2. /\ Len(t') = Len(t) + Len(b) + 1 /\ FinalLast(t')
            /\ (\A n : Holds(t \o b, n) \/ m.seq = n => Holds(t', n))
        <5>1. PICK q \in Seq(Message) : q = t \o b
          BY <4>1
        <5>2. /\ Len(Append(q, m)) = Len(q) + 1 /\ FinalLast(Append(q, m))
              /\ \A n : Holds(q, n) \/ m.seq = n => Holds(Append(q, m), n)
          <6>1. ~HasFinal(q)
            BY <4>1, <5>1
          <6>2. QED
            BY <3>2, <6>1, FinalAppend, AppendAt
        <5>3. QED
          BY <1>0, <3>8, <4>1, <5>1, <5>2
      <4>3. Live' => Len(wire') + Len(tx') + Len(t') + Len(b') + Len(rest') = seq'
        <5>1. Live' => Live
          BY <2>1
        <5>2. QED
          BY <1>0, <1>s, <1>e, <2>1, <3>3, <3>8, <4>2, <5>1
      <4>4. Live' => \A n \in 1 .. seq' : Kept(n)'
        BY <2>1, <3>2, <3>3, <3>8, <3>n, <4>1, <4>2 DEF FlushInv
      <4>5. QED
        BY <2>1, <2>f, <3>3, <3>8, <4>2, <4>3, <4>4 DEF FlushInv
    <3>9. QED
      BY <3>5, <3>6, <3>7, <3>8
  <2>4. QED
    BY <1>1, <2>2, <2>3 DEF BufferRecv, Pushed, Kinds
<1>2. CASE Refilter
  <2>1. /\ rest # <<>> /\ rest' = Tail(rest)
        /\ UNCHANGED <<wire, tx, tq, seq, pc>>
    BY <1>2 DEF Refilter, netVars
  <2>2. /\ Head(rest) \in Message /\ Head(rest).kind # "final"
        /\ Len(Tail(rest)) = Len(rest) - 1
        /\ \A n : Holds(rest, n) <=> Head(rest).seq = n \/ Holds(Tail(rest), n)
    BY <1>0, <1>h, <2>1, FinalTail, TailAt
  <2>3. tq /\ ~HasFinal(wire) /\ ~HasFinal(tx) /\ ~HasFinal(t)
    BY <1>0, <2>1 DEF FlushInv
  <2>4. CASE t' = Append(t, Head(rest)) /\ b' = b
    <3>1. /\ Len(t') = Len(t) + 1 /\ ~HasFinal(t') /\ FinalLast(t')
          /\ \A n : Holds(t', n) <=> Holds(t, n) \/ Head(rest).seq = n
      BY <1>0, <2>2, <2>3, <2>4, FinalAppend, AppendAt
    <3>2. Live' => Len(wire') + Len(tx') + Len(t') + Len(b') + Len(rest') = seq'
      <4>1. Live' => Live
        BY <2>1
      <4>2. /\ Len(wire') = Len(wire) /\ Len(tx') = Len(tx) /\ Len(t') = Len(t) + 1
            /\ Len(b') = Len(b) /\ Len(rest') = Len(rest) - 1 /\ seq' = seq
        BY <2>1, <2>2, <2>4, <3>1
      <4>3. ASSUME Live' PROVE Len(wire') + Len(tx') + Len(t') + Len(b') + Len(rest') = seq'
        <5>1. Len(wire) + Len(tx) + Len(t) + Len(b) + Len(rest) = seq
          BY <1>s, <4>1, <4>3
        <5>2. QED
          BY <1>n, <4>2, <5>1
      <4>4. QED
        BY <4>3
    <3>3. Live' => \A n \in 1 .. seq' : Kept(n)'
      BY <2>1, <2>2, <2>4, <3>1 DEF FlushInv
    <3>4. QED
      BY <2>1, <2>3, <2>4, <3>1, <3>2, <3>3 DEF FlushInv
  <2>5. CASE b' = Append(b, Head(rest)) /\ t' = t
    <3>1. /\ Len(b') = Len(b) + 1
          /\ \A n : Holds(b', n) <=> Holds(b, n) \/ Head(rest).seq = n
      BY <1>0, <2>2, <2>5, FinalAppend, AppendAt
    <3>2. Live' => Len(wire') + Len(tx') + Len(t') + Len(b') + Len(rest') = seq'
      <4>1. Live' => Live
        BY <2>1
      <4>2. /\ Len(wire') = Len(wire) /\ Len(tx') = Len(tx) /\ Len(t') = Len(t)
            /\ Len(b') = Len(b) + 1 /\ Len(rest') = Len(rest) - 1 /\ seq' = seq
        BY <2>1, <2>2, <2>5, <3>1
      <4>3. ASSUME Live' PROVE Len(wire') + Len(tx') + Len(t') + Len(b') + Len(rest') = seq'
        <5>1. Len(wire) + Len(tx) + Len(t) + Len(b) + Len(rest) = seq
          BY <1>s, <4>1, <4>3
        <5>2. QED
          BY <1>n, <4>2, <5>1
      <4>4. QED
        BY <4>3
    <3>3. Live' => \A n \in 1 .. seq' : Kept(n)'
      BY <2>1, <2>2, <2>5, <3>1 DEF FlushInv
    <3>4. QED
      BY <2>1, <2>3, <2>5, <3>2, <3>3 DEF FlushInv
  <2>6. QED
    BY <1>2, <2>4, <2>5 DEF Refilter
<1>3. CASE BufferTx
  <2>1. /\ t # <<>> /\ t' = Tail(t) /\ tx' = Append(tx, Head(t))
        /\ UNCHANGED <<wire, b, rest, tq, seq, pc>>
    BY <1>3 DEF BufferTx
  <2>2. /\ Head(t) \in Message /\ Len(Tail(t)) = Len(t) - 1
        /\ HasFinal(Tail(t)) \/ Head(t).kind = "final" => HasFinal(t)
        /\ FinalLast(Tail(t))
        /\ Head(t).kind = "final" => Tail(t) = <<>>
        /\ \A n : Holds(t, n) <=> Head(t).seq = n \/ Holds(Tail(t), n)
    BY <1>0, <2>1, FinalTail, TailAt DEF FlushInv
  <2>3. ~HasFinal(wire) /\ ~HasFinal(tx)
    BY <2>1 DEF FlushInv
  <2>4. /\ Len(tx') = Len(tx) + 1 /\ FinalLast(tx')
        /\ HasFinal(tx') <=> Head(t).kind = "final"
        /\ \A n : Holds(tx', n) <=> Holds(tx, n) \/ Head(t).seq = n
    BY <1>0, <2>1, <2>2, <2>3, FinalAppend, AppendAt
  <2>5. Live' => Len(wire') + Len(tx') + Len(t') + Len(b') + Len(rest') = seq'
    <3>1. Live' => Live
      BY <2>1
    <3>2. /\ Len(wire') = Len(wire) /\ Len(tx') = Len(tx) + 1 /\ Len(t') = Len(t) - 1
          /\ Len(b') = Len(b) /\ Len(rest') = Len(rest) /\ seq' = seq
      BY <2>1, <2>2, <2>4
    <3>3. ASSUME Live' PROVE Len(wire') + Len(tx') + Len(t') + Len(b') + Len(rest') = seq'
      <4>1. Len(wire) + Len(tx) + Len(t) + Len(b) + Len(rest) = seq
        BY <1>s, <3>1, <3>3
      <4>2. QED
        BY <1>n, <3>2, <4>1
    <3>4. QED
      BY <3>3
  <2>6. Live' => \A n \in 1 .. seq' : Kept(n)'
    BY <2>1, <2>2, <2>4 DEF FlushInv
  <2>7. QED
    BY <2>1, <2>2, <2>3, <2>4, <2>5, <2>6 DEF FlushInv
<1>4. CASE SendMessage
  <2>1. /\ tx # <<>> /\ tx' = Tail(tx) /\ wire' = Append(wire, Head(tx))
        /\ pc["send"] = "loop"
        /\ UNCHANGED <<t, b, rest, tq, seq, pc>>
    BY <1>4 DEF SendMessage, bufVars
  <2>2. /\ Head(tx) \in Message /\ Len(Tail(tx)) = Len(tx) - 1
        /\ HasFinal(Tail(tx)) \/ Head(tx).kind = "final" => HasFinal(tx)
        /\ FinalLast(Tail(tx))
        /\ Head(tx).kind = "final" => Tail(tx) = <<>>
        /\ \A n : Holds(tx, n) <=> Head(tx).seq = n \/ Holds(Tail(tx), n)
    BY <1>0, <2>1, FinalTail, TailAt DEF FlushInv
  <2>3. ~HasFinal(wire)
    BY <2>1 DEF FlushInv
  <2>4. /\ Len(wire') = Len(wire) + 1 /\ FinalLast(wire')
        /\ HasFinal(wire') <=> Head(tx).kind = "final"
        /\ \A n : Holds(wire', n) <=> Holds(wire, n) \/ Head(tx).seq = n
    BY <1>0, <2>1, <2>2, <2>3, FinalAppend, AppendAt
  <2>5. Len(wire') + Len(tx') + Len(t') + Len(b') + Len(rest') = seq'
    <3>1. /\ Len(tx') = Len(tx) - 1 /\ Len(wire') = Len(wire) + 1
          /\ Len(t') = Len(t) /\ Len(b') = Len(b) /\ Len(rest') = Len(rest)
          /\ seq' = seq
      BY <2>1, <2>2, <2>4
    <3>2. Len(wire) + Len(tx) + Len(t) + Len(b) + Len(rest) = seq
      BY <1>s, <2>1
    <3>3. QED
      BY <1>n, <3>1, <3>2
  <2>6. \A n \in 1 .. seq' : Kept(n)'
    BY <2>1, <2>2, <2>4 DEF FlushInv
  <2>7. QED
    BY <2>1, <2>2, <2>3, <2>4, <2>5, <2>6 DEF FlushInv
<1>5. CASE SendError \/ Drain
  <2>1. /\ tx # <<>> /\ tx' = Tail(tx) /\ UNCHANGED <<wire, t, b, rest, tq, seq>>
        /\ pc'["send"] # "loop"
    BY <1>5 DEF SendError, Drain, bufVars, Goto, TypeOK, IO
  <2>2. /\ HasFinal(Tail(tx)) => HasFinal(tx)
        /\ FinalLast(Tail(tx))
    BY <1>0, <2>1, FinalTail DEF FlushInv
  <2>3. ~HasFinal(wire)
    BY <2>1 DEF FlushInv
  <2>4. QED
    BY <2>1, <2>2, <2>3 DEF FlushInv
<1>6. CASE UNCHANGED queues
  BY <1>p, <1>6 DEF queues, FlushInv
<1>7. QED
  BY <1>1, <1>2, <1>3, <1>4, <1>5, <1>6, QueueSteps

-----------------------------------------------------------------------------

\* The conn that newConn and start leave satisfies the invariant.
LEMMA ConnInit == Init => ConnInv
<1> SUFFICES ASSUME Init PROVE ConnInv
  OBVIOUS
<1>1. TypeOK
  <2>1. /\ item \in [Callers -> Item] /\ at \in [Callers -> {"idle", "lock", "tq"}]
        /\ replies \in [RunIDs -> Nat] /\ calls \in 0 .. MaxCalls
        /\ s \in ResultStream
    BY NoFilterType, ConnAssumption DEF Init
  <2>2. /\ pc \in [IO -> PC] /\ rmsg \in Received
        /\ mtx \in Callers \cup IO \cup {Unlocked}
    BY DEF Init, PC, Received, NoMessage
  <2>3. /\ t \in Seq(Message) /\ b \in Seq(Message) /\ rest \in Seq(Message)
        /\ tx \in Seq(Message) /\ wire \in Seq(Message)
    BY DEF Init
  <2>4. /\ canceled \in BOOLEAN /\ io \in Nat /\ rpc \subseteq Nat /\ id \in Nat
        /\ tqClosed \in BOOLEAN /\ tq \in BOOLEAN /\ seq \in Nat
        /\ txClosed \in BOOLEAN /\ unanswered \subseteq Nat
    BY DEF Init
  <2>5. QED
    BY <2>1, <2>2, <2>3, <2>4 DEF TypeOK
<1>2. LockInv
  BY ConnAssumption DEF Init, LockInv, Ended, Callers, IO, Unlocked, NoMessage
<1>3. CloseInv
  BY DEF Init, CloseInv, Ended, IO
<1>4. ReplyInv
  BY ConnAssumption DEF Init, ReplyInv, RunIDs
<1>5. OrderInv
  BY DEF Init, OrderInv, InOrder, Before, Numbered
<1>6. FlushInv
  BY DEF Init, FlushInv, HasFinal, FinalLast
<1>7. QED
  BY <1>1, <1>2, <1>3, <1>4, <1>5, <1>6 DEF ConnInv

\* The inductive invariant of the conn holds in every reachable state, for any
\* callers, kinds, ResultStreams, capacity of tx and number of calls.
THEOREM ConnCorrect == Spec => []ConnInv
<1>1. Init => ConnInv
  BY ConnInit
<1>2. ConnInv /\ [Next]_vars => ConnInv'
  BY TypeNext, LockNext, CloseNext, ReplyNext, OrderNext, FlushNext DEF ConnInv
<1>3. QED
  BY <1>1, <1>2, PTL DEF Spec

\* Every field, queue and goroutine state of the conn keeps its type.
THEOREM ConnTypeCorrect == Spec => []TypeOK
<1>1. ConnInv => TypeOK
  BY DEF ConnInv
<1>2. QED
  BY <1>1, ConnCorrect, PTL

\* No method of conn ever sends on a closed tq, and none blocks there with mtx
\* held: the buffer goroutine is receiving whenever a caller is sending.
THEOREM ConnNoSendOnClosed == Spec => []NoSendOnClosed
<1>1. ConnInv => NoSendOnClosed
  BY DEF ConnInv, CloseInv, NoSendOnClosed, Ended, TypeOK
<1>2. QED
  BY <1>1, ConnCorrect, PTL

\* An issued Run is waiting in rpc or was answered, and it is answered once.
THEOREM ConnRunsAccounted == Spec => []RunsAccounted
<1>1. ConnInv => RunsAccounted
  BY DEF ConnInv, ReplyInv, RunsAccounted, TypeOK
<1>2. QED
  BY <1>1, ConnCorrect, PTL

\* The final message goes out last, after all that the buffer ever received.
THEOREM ConnFinalFlushes == Spec => []FinalFlushes
<1>1. ConnInv => FinalFlushes
  <2> SUFFICES ASSUME ConnInv, NEW n \in 1 .. Len(wire), wire[n].kind = "final"
               PROVE  /\ n = Len(wire) /\ n = seq
                      /\ {wire[k].seq : k \in 1 .. n} = 1 .. seq
    BY DEF FinalFlushes
  <2>1. HasFinal(wire) /\ n = Len(wire)
    BY DEF ConnInv, FlushInv, HasFinal, FinalLast
  <2>2. tx = <<>> /\ t = <<>> /\ b = <<>> /\ rest = <<>>
    BY <2>1 DEF ConnInv, FlushInv, TypeOK
  <2>3. Len(wire) + Len(tx) + Len(t) + Len(b) + Len(rest) = seq
    BY <2>1 DEF ConnInv, FlushInv
  <2>4. Len(wire) \in Nat /\ Len(<<>>) = 0 /\ seq \in Nat
    BY DEF ConnInv, TypeOK
  <2>5. n = seq
    BY <2>1, <2>2, <2>3, <2>4
  <2>6. ASSUME NEW k \in 1 .. n PROVE wire[k].seq \in 1 .. seq
    <3>1. wire[k] \in Message
      BY <2>1, <2>6 DEF ConnInv, TypeOK
    <3>2. wire[k].seq \in Nat \ {0}
      BY <3>1 DEF Message
    <3>3. wire[k].seq <= seq
      BY <2>1 DEF ConnInv, OrderInv, Numbered
    <3>4. QED
      BY <2>4, <3>2, <3>3
  <2>7. ASSUME NEW i \in 1 .. seq PROVE \E k \in 1 .. n : wire[k].seq = i
    <3>1. \/ Holds(wire, i) \/ Holds(tx, i) \/ Holds(t, i) \/ Holds(b, i)
          \/ Holds(rest, i)
      BY <2>1 DEF ConnInv, FlushInv
    <3>2. ~Holds(<<>>, i)
      BY DEF Holds
    <3>3. Holds(wire, i)
      BY <2>2, <3>1, <3>2
    <3>4. QED
      BY <2>1, <3>3 DEF Holds
  <2>8. QED
    BY <2>1, <2>5, <2>6, <2>7
<1>2. QED
  BY <1>1, ConnCorrect, PTL

\* The messages of each kind go out in the order in which they were sent.
THEOREM ConnKindsInOrder == Spec => []KindsInOrder
<1>1. ConnInv => KindsInOrder
  BY DEF ConnInv, OrderInv, InOrder, KindsInOrder
<1>2. QED
  BY <1>1, ConnCorrect, PTL
=============================================================================
