---------------------------- MODULE StreamProofs -----------------------------
(***************************************************************************)
(* Proofs of the safety properties of Stream, for any number of clients,   *)
(* any Transfers and any buffer sizes.                                     *)
(***************************************************************************)
EXTENDS Stream, FiniteSetTheorems, TLAPS

Labels == {"idle", "header", "transfer", "final", "error", "errDone", "done"}
Ended == {"error", "errDone", "done"}
UpBytes == {"header", "fill", "final", "ack"}
DownBytes == {"fill", "final", "ack"}
Counts == [l : Nat, io : Nat]

\* The Transfer of a client.
LEMMA TransferFacts ==
    ASSUME TypeOK, NEW c \in Clients
    PROVE  /\ x[c].length \in Nat /\ x[c].timed \in BOOLEAN
           /\ x[c] # NoTransfer /\ ~x[c].timed => x[c].length > 0
           /\ Sender(c) \in Sides /\ Receiver(c) \in Sides /\ Sender(c) # Receiver(c)
           /\ Sender(c) = "client" => Receiver(c) = "server"
           /\ Sender(c) = "server" => Receiver(c) = "client"
           /\ \A side \in Sides : side = Sender(c) \/ side = Receiver(c)
           /\ BufLen \in Nat /\ BufLen > 0 /\ SockBuf \in Nat /\ MaxLen \in Nat
<1>1. x \in [Clients -> Transfer \cup {NoTransfer}] /\ x \in Transfers
  BY StreamAssumption DEF TypeOK
<1>2. x[c].length \in Nat /\ x[c].timed \in BOOLEAN
  <2>1. CASE x[c] \in Transfer
    BY <2>1 DEF Transfer
  <2>2. CASE x[c] = NoTransfer
    BY <2>2 DEF NoTransfer
  <2>3. QED
    BY <1>1, <2>1, <2>2
<1>3. x[c] # NoTransfer /\ ~x[c].timed => x[c].length > 0
  BY <1>1, StreamAssumption
<1>4. QED
  BY <1>2, <1>3, StreamAssumption DEF Sender, Receiver, Peer, Sides

-----------------------------------------------------------------------------
(* What the steps of a goroutine are made of.                              *)

\* A goroutine goes to l.
LEMMA GotoFacts ==
    ASSUME pc \in [Sides -> [Clients -> Labels]], NEW side \in Sides, NEW c \in Clients,
           NEW l \in Labels, Goto(side, c, l)
    PROVE  /\ pc' \in [Sides -> [Clients -> Labels]]
           /\ pc'[side][c] = l
           /\ \A s \in Sides, d \in Clients : s # side \/ d # c => pc'[s][d] = pc[s][d]
BY DEF Goto

\* A goroutine moves to l with the result r, and closes what it closes.
Moves(side, c, l, r) ==
    /\ pc' \in [Sides -> [Clients -> Labels]]
    /\ res' \in [Sides -> [Clients -> {"none", "ok", "error"}]]
    /\ closed' \in [Clients -> SUBSET Sides]
    /\ watch' \in [Clients -> {"off", "watch", "timer", "done"}]
    /\ pc'[side][c] = l /\ res'[side][c] = r
    /\ \A s \in Sides, d \in Clients : s # side \/ d # c =>
          pc'[s][d] = pc[s][d] /\ res'[s][d] = res[s][d]

\* A goroutine that returns has ended, and a serve goroutine has errDone to send.
LEMMA ReturnFacts ==
    ASSUME TypeOK, NEW side \in Sides, NEW c \in Clients, NEW r \in {"ok", "error"},
           Return(side, c, r)
    PROVE  \E l \in Ended : Moves(side, c, l, r) /\ (side = "server" => l # "done")
<1> DEFINE l == IF side = "client" THEN "done" ELSE IF r = "error" THEN "error" ELSE "errDone"
<1>1. Goto(side, c, l) /\ l \in Labels /\ l \in Ended /\ (side = "server" => l # "done")
  BY DEF Return, Labels, Ended
<1> HIDE DEF l
<1>2. /\ pc' \in [Sides -> [Clients -> Labels]]
      /\ pc'[side][c] = l
      /\ \A s \in Sides, d \in Clients : s # side \/ d # c => pc'[s][d] = pc[s][d]
  <2>1. pc \in [Sides -> [Clients -> Labels]]
    BY DEF TypeOK, Labels
  <2>2. QED
    BY <1>1, <2>1, GotoFacts
<1>3. /\ res' \in [Sides -> [Clients -> {"none", "ok", "error"}]]
      /\ res'[side][c] = r
      /\ \A s \in Sides, d \in Clients : s # side \/ d # c => res'[s][d] = res[s][d]
  BY DEF Return, TypeOK
<1>4. closed' \in [Clients -> SUBSET Sides]
  BY DEF Return, TypeOK
<1>5. watch' \in [Clients -> {"off", "watch", "timer", "done"}]
  BY DEF Return, TypeOK
<1>6. QED
  BY <1>1, <1>2, <1>3, <1>4, <1>5 DEF Moves

\* After a read or a write, it goes to l or it has ended with an error.
LEMMA ProceedFacts ==
    ASSUME TypeOK, NEW side \in Sides, NEW c \in Clients, NEW l \in Labels,
           Proceed(side, c, l)
    PROVE  \/ Moves(side, c, l, res[side][c])
           \/ \E m \in Ended : Moves(side, c, m, "error") /\ (side = "server" => m # "done")
<1>1. CASE side \in ctx
  BY <1>1, ReturnFacts DEF Proceed
<1>2. CASE side \notin ctx
  <2>1. Goto(side, c, l) /\ UNCHANGED <<res, closed, watch>>
    BY <1>2 DEF Proceed
  <2>2. pc \in [Sides -> [Clients -> Labels]]
    BY DEF TypeOK, Labels
  <2>3. /\ pc' \in [Sides -> [Clients -> Labels]]
        /\ pc'[side][c] = l
        /\ \A s \in Sides, d \in Clients : s # side \/ d # c => pc'[s][d] = pc[s][d]
    BY <2>1, <2>2, GotoFacts
  <2>4. QED
    BY <2>1, <2>3 DEF Moves, TypeOK
<1>3. QED
  BY <1>1, <1>2

\* The bytes that may be on their way to one side.
Bytes(side) == IF side = "server" THEN UpBytes ELSE DownBytes

\* The queue of c to one side becomes q, and no other changes.
Queued(side, c, q) ==
    /\ up' \in [Clients -> Seq(UpBytes)] /\ down' \in [Clients -> Seq(DownBytes)]
    /\ \A d \in Clients : Len(up'[d]) <= SockBuf /\ Len(down'[d]) <= SockBuf
    /\ side = "server" => up'[c] = q /\ down'[c] = down[c]
    /\ side = "client" => down'[c] = q /\ up'[c] = up[c]
    /\ \A d \in Clients : d # c => up'[d] = up[d] /\ down'[d] = down[d]

\* Setting a queue to bytes of its kind, no more than fit, keeps the types.
LEMMA QueueFacts ==
    ASSUME TypeOK, NEW side \in Sides, NEW c \in Clients, NEW q \in Seq(Bytes(side)),
           Len(q) <= SockBuf, SetIn(side, c, q)
    PROVE  Queued(side, c, q)
<1>1. /\ up \in [Clients -> Seq(UpBytes)] /\ down \in [Clients -> Seq(DownBytes)]
      /\ \A d \in Clients : Len(up[d]) <= SockBuf /\ Len(down[d]) <= SockBuf
  BY DEF TypeOK, UpBytes, DownBytes
<1>2. CASE side = "server"
  <2>1. up' = [up EXCEPT ![c] = q] /\ UNCHANGED down /\ q \in Seq(UpBytes)
    BY <1>2 DEF SetIn, Bytes
  <2>2. QED
    BY <1>1, <1>2, <2>1 DEF Queued
<1>3. CASE side = "client"
  <2>1. down' = [down EXCEPT ![c] = q] /\ UNCHANGED up /\ q \in Seq(DownBytes)
    BY <1>3 DEF SetIn, Bytes
  <2>2. QED
    BY <1>1, <1>3, <2>1 DEF Queued
<1>4. QED
  BY <1>2, <1>3 DEF Sides

\* A read takes the first n bytes.
LEMMA ReadFacts ==
    ASSUME TypeOK, NEW side \in Sides, NEW c \in Clients, NEW n \in Nat, Read(side, c, n)
    PROVE  LET q == In(side, c)
           IN  /\ q \in Seq(Bytes(side)) /\ n <= Len(q) /\ Len(q) \in Nat
               /\ Queued(side, c, SubSeq(q, n + 1, Len(q)))
<1> DEFINE q == In(side, c)
<1>1. q \in Seq(Bytes(side)) /\ Len(q) <= SockBuf /\ Len(q) \in Nat
  BY DEF In, Bytes, TypeOK, UpBytes, DownBytes, Sides
<1>2. n <= Len(q) /\ SetIn(side, c, SubSeq(q, n + 1, Len(q)))
  BY DEF Read
<1> HIDE DEF q
<1>3. SubSeq(q, n + 1, Len(q)) \in Seq(Bytes(side)) /\ Len(SubSeq(q, n + 1, Len(q))) <= SockBuf
  <2>1. SockBuf \in Nat
    BY StreamAssumption
  <2>2. Len(SubSeq(q, n + 1, Len(q))) = Len(q) - n
    BY <1>1, <1>2
  <2>3. QED
    BY <1>1, <1>2, <2>1, <2>2
<1>4. Queued(side, c, SubSeq(q, n + 1, Len(q)))
  BY <1>2, <1>3, QueueFacts
<1>5. QED
  BY <1>1, <1>2, <1>4 DEF q

\* A write appends.
LEMMA WriteFacts ==
    ASSUME TypeOK, NEW side \in Sides, NEW c \in Clients, NEW b \in Seq(Bytes(Peer(side))),
           Write(side, c, b)
    PROVE  LET q == In(Peer(side), c)
           IN  /\ q \in Seq(Bytes(Peer(side)))
               /\ Queued(Peer(side), c, q \o b)
<1> DEFINE r == Peer(side)
           q == In(r, c)
<1>1. r \in Sides
  BY DEF Peer, Sides
<1>2. q \in Seq(Bytes(r)) /\ Len(q) <= SockBuf /\ Len(q) \in Nat
  BY <1>1 DEF In, Bytes, TypeOK, UpBytes, DownBytes, Sides
<1>3. Len(q) + Len(b) <= SockBuf /\ SetIn(r, c, q \o b)
  BY DEF Write
<1> HIDE DEF q, r
<1>4. q \o b \in Seq(Bytes(r)) /\ Len(q \o b) <= SockBuf
  BY <1>2, <1>3 DEF r
<1>5. Queued(r, c, q \o b)
  BY <1>1, <1>3, <1>4, QueueFacts
<1>6. QED
  BY <1>2, <1>5 DEF q, r

\* What send writes: the last chunk has all of the rest, and ends in the final
\* byte.
LEMMA ChunkFacts ==
    ASSUME TypeOK, NEW c \in Clients, NEW k \in Chunks(c),
           x[c].length > 0 => sent[c].l < x[c].length
    PROVE  /\ k.b \in Seq({"fill", "final"}) /\ Len(k.b) \in Nat /\ Len(k.b) > 0
           /\ k.done \in BOOLEAN
           /\ \A i \in 1 .. Len(k.b) : k.b[i] = "final" <=> k.done /\ i = Len(k.b)
           /\ k.done /\ ~x[c].timed => sent[c].l + Len(k.b) = x[c].length
           /\ ~k.done /\ x[c].length > 0 => sent[c].l + Len(k.b) < x[c].length
<1> DEFINE l == sent[c].l
           n == x[c].length
           Chunk(m, d) == [b |-> [i \in 1 .. m |-> IF d /\ i = m THEN "final" ELSE "fill"],
                           done |-> d]
<1>1. /\ n \in Nat /\ x[c].timed \in BOOLEAN
      /\ BufLen \in Nat /\ BufLen > 0 /\ MaxLen \in Nat
  BY TransferFacts
<1>2. l \in Nat
  BY DEF TypeOK
<1>3. ASSUME NEW m \in Nat, m > 0, NEW d \in BOOLEAN, k = Chunk(m, d),
             d /\ ~x[c].timed => l + m = n, ~d /\ n > 0 => l + m < n
      PROVE  /\ k.b \in Seq({"fill", "final"}) /\ Len(k.b) \in Nat /\ Len(k.b) > 0
             /\ k.done \in BOOLEAN
             /\ \A i \in 1 .. Len(k.b) : k.b[i] = "final" <=> k.done /\ i = Len(k.b)
             /\ k.done /\ ~x[c].timed => sent[c].l + Len(k.b) = x[c].length
             /\ ~k.done /\ x[c].length > 0 => sent[c].l + Len(k.b) < x[c].length
  <2> DEFINE b == [i \in 1 .. m |-> IF d /\ i = m THEN "final" ELSE "fill"]
  <2>1. k.b = b /\ k.done = d
    BY <1>3
  <2>2. b \in Seq({"fill", "final"}) /\ Len(b) = m
    <3>1. b \in [1 .. m -> {"fill", "final"}]
      OBVIOUS
    <3> HIDE DEF b
    <3>2. QED
      BY <1>3, <3>1
  <2>3. \A i \in 1 .. m : b[i] = "final" <=> d /\ i = m
    OBVIOUS
  <2> HIDE DEF b
  <2>4. QED
    BY <1>3, <2>1, <2>2, <2>3
<1>4. \/ x[c].timed /\ k = Chunk(1, TRUE)
      \/ n > 0 /\ n - l <= BufLen /\ k = Chunk(n - l, TRUE)
      \/ ~(n > 0 /\ n - l <= BufLen) /\ k = Chunk(BufLen, FALSE)
  BY DEF Chunks
<1> HIDE DEF Chunk
<1>5. CASE x[c].timed /\ k = Chunk(1, TRUE)
  <2>1. 1 \in Nat /\ 1 > 0 /\ TRUE \in BOOLEAN /\ x[c].timed /\ k = Chunk(1, TRUE)
    BY <1>5
  <2>2. QED
    BY <1>3, <2>1
<1>6. CASE n > 0 /\ n - l <= BufLen /\ k = Chunk(n - l, TRUE)
  <2>1. n - l \in Nat /\ n - l > 0 /\ l + (n - l) = n
    BY <1>1, <1>2, <1>6
  <2>2. QED
    BY <1>3, <1>6, <2>1
<1>7. CASE ~(n > 0 /\ n - l <= BufLen) /\ k = Chunk(BufLen, FALSE)
  <2>1. n > 0 => l + BufLen < n
    BY <1>1, <1>2, <1>7
  <2>2. QED
    BY <1>1, <1>3, <1>7, <2>1
<1>8. QED
  BY <1>4, <1>5, <1>6, <1>7

\* The count after n bytes.
LEMMA SampleFacts ==
    ASSUME NEW v \in Counts, NEW n \in Nat, NEW done \in BOOLEAN, NEW u \in Sample(v, n, done)
    PROVE  u \in Counts /\ u.l = v.l + n /\ (done => u.io = u.l)
BY DEF Sample, Counts

-----------------------------------------------------------------------------
(* The steps of a Transfer.                                                *)

\* The chunk k is sent and counted as v; the sender goes to l with result r.
Sends(c, k, v, l, r) ==
    LET S == Sender(c)
        R == Receiver(c)
    IN  /\ pc[S][c] = "transfer"
        /\ k.b \in Seq({"fill", "final"}) /\ Len(k.b) \in Nat /\ Len(k.b) > 0
        /\ k.done \in BOOLEAN
        /\ \A i \in 1 .. Len(k.b) : k.b[i] = "final" <=> k.done /\ i = Len(k.b)
        /\ k.done /\ ~x[c].timed => sent[c].l + Len(k.b) = x[c].length
        /\ ~k.done /\ x[c].length > 0 => sent[c].l + Len(k.b) < x[c].length
        /\ Queued(R, c, In(R, c) \o k.b) /\ In(R, c) \in Seq(Bytes(R))
        /\ v \in Counts /\ v.l = sent[c].l + Len(k.b) /\ (k.done => v.io = v.l)
        /\ sent' = [sent EXCEPT ![c] = v]
        /\ Moves(S, c, l, r)
        /\ \/ r = res[S][c] /\ l = IF k.done THEN "final" ELSE "transfer"
           \/ r = "error" /\ l \in Ended
        /\ S = "server" => l # "done"
        /\ UNCHANGED <<x, ctx, broken, backlog, rcvd, serverVars>>

\* Send is such a step.
LEMMA SendFacts ==
    ASSUME TypeOK, FlowInv, NEW c \in Clients, Send(c)
    PROVE  \E k, v, l, r : Sends(c, k, v, l, r)
<1> DEFINE S == Sender(c)
           R == Receiver(c)
<1>1. PICK k \in Chunks(c) :
         /\ Write(S, c, k.b)
         /\ \E v \in Sample(sent[c], Len(k.b), k.done) : sent' = [sent EXCEPT ![c] = v]
         /\ Proceed(S, c, IF k.done THEN "final" ELSE "transfer")
  BY DEF Send
<1>2. PICK v \in Sample(sent[c], Len(k.b), k.done) : sent' = [sent EXCEPT ![c] = v]
  BY <1>1
<1>3. pc[S][c] = "transfer" /\ UNCHANGED <<x, ctx, broken, backlog, rcvd, serverVars>>
  BY DEF Send
<1>4. x[c].length > 0 => sent[c].l < x[c].length
  BY <1>3 DEF FlowInv, Begins
<1>5. /\ k.b \in Seq({"fill", "final"}) /\ Len(k.b) \in Nat /\ Len(k.b) > 0
      /\ k.done \in BOOLEAN
      /\ \A i \in 1 .. Len(k.b) : k.b[i] = "final" <=> k.done /\ i = Len(k.b)
      /\ k.done /\ ~x[c].timed => sent[c].l + Len(k.b) = x[c].length
      /\ ~k.done /\ x[c].length > 0 => sent[c].l + Len(k.b) < x[c].length
  BY <1>4, ChunkFacts
<1>6. S \in Sides /\ R \in Sides /\ R = Peer(S)
  BY TransferFacts DEF Receiver
<1>7. k.b \in Seq(Bytes(R))
  <2>1. {"fill", "final"} \subseteq Bytes(R)
    BY DEF Bytes, UpBytes, DownBytes
  <2>2. QED
    BY <1>5, <2>1
<1>8. Queued(R, c, In(R, c) \o k.b) /\ In(R, c) \in Seq(Bytes(R))
  BY <1>1, <1>6, <1>7, WriteFacts
<1>9. v \in Counts /\ v.l = sent[c].l + Len(k.b) /\ (k.done => v.io = v.l)
  <2>1. sent[c] \in Counts
    BY DEF TypeOK, Counts
  <2>2. QED
    BY <1>2, <1>5, <2>1, SampleFacts
<1> DEFINE m == IF k.done THEN "final" ELSE "transfer"
<1>10. \/ Moves(S, c, m, res[S][c])
       \/ \E l \in Ended : Moves(S, c, l, "error") /\ (S = "server" => l # "done")
  <2>1. m \in Labels
    BY DEF Labels
  <2>2. Proceed(S, c, m)
    BY <1>1
  <2> HIDE DEF m
  <2>3. QED
    BY <1>6, <2>1, <2>2, ProceedFacts
<1>11. PICK l, r : /\ Moves(S, c, l, r)
                   /\ (r = res[S][c] /\ l = m) \/ (r = "error" /\ l \in Ended)
                   /\ S = "server" => l # "done"
  <2>1. m \in Labels /\ m # "done" /\ Ended \subseteq Labels
    BY DEF Labels, Ended
  <2> HIDE DEF m
  <2>2. QED
    BY <1>10, <2>1
<1>12. Sends(c, k, v, l, r)
  BY <1>2, <1>3, <1>5, <1>8, <1>9, <1>11 DEF Sends
<1>13. QED
  BY <1>12

\* The receiver reads k bytes and counts them as v; it goes to l with result r.
Receives(c, k, v, l, r) ==
    LET R == Receiver(c)
        q == In(R, c)
    IN  /\ pc[R][c] = "transfer"
        /\ k \in Nat /\ k > 0 /\ k <= Len(q) /\ Len(q) \in Nat
        /\ q \in Seq(Bytes(R)) /\ Queued(R, c, SubSeq(q, k + 1, Len(q)))
        /\ v \in Counts /\ v.l = rcvd[c].l + k /\ (q[k] = "final" => v.io = v.l)
        /\ rcvd' = [rcvd EXCEPT ![c] = v]
        /\ Moves(R, c, l, r)
        /\ \/ r = res[R][c] /\ l = IF q[k] = "final" THEN "final" ELSE "transfer"
           \/ r = "error" /\ l \in Ended
        /\ R = "server" => l # "done"
        /\ UNCHANGED <<x, ctx, broken, backlog, sent, serverVars>>

\* Receive is such a step.
LEMMA ReceiveFacts ==
    ASSUME TypeOK, NEW c \in Clients, Receive(c)
    PROVE  \E k, v, l, r : Receives(c, k, v, l, r)
<1> DEFINE R == Receiver(c)
           q == In(R, c)
           n == x[c].length
           b == IF n > 0 /\ n - rcvd[c].l < BufLen THEN n - rcvd[c].l ELSE BufLen
<1>1. PICK k \in 1 .. b :
         /\ Read(R, c, k)
         /\ \E v \in Sample(rcvd[c], k, q[k] = "final") : rcvd' = [rcvd EXCEPT ![c] = v]
         /\ Proceed(R, c, IF q[k] = "final" THEN "final" ELSE "transfer")
  BY DEF Receive
<1>2. PICK v \in Sample(rcvd[c], k, q[k] = "final") : rcvd' = [rcvd EXCEPT ![c] = v]
  BY <1>1
<1>3. pc[R][c] = "transfer" /\ UNCHANGED <<x, ctx, broken, backlog, sent, serverVars>>
  BY DEF Receive
<1>4. k \in Nat /\ k > 0
  <2>1. b \in Int
    <3>1. n \in Nat /\ BufLen \in Nat
      BY TransferFacts
    <3>2. rcvd[c].l \in Nat
      BY DEF TypeOK
    <3>3. QED
      BY <3>1, <3>2
  <2> HIDE DEF b
  <2>2. QED
    BY <2>1
<1>5. R \in Sides
  BY TransferFacts
<1>6. /\ q \in Seq(Bytes(R)) /\ k <= Len(q) /\ Len(q) \in Nat
      /\ Queued(R, c, SubSeq(q, k + 1, Len(q)))
  BY <1>1, <1>4, <1>5, ReadFacts
<1>7. v \in Counts /\ v.l = rcvd[c].l + k /\ (q[k] = "final" => v.io = v.l)
  <2>1. rcvd[c] \in Counts /\ (q[k] = "final") \in BOOLEAN
    BY DEF TypeOK, Counts
  <2>2. QED
    BY <1>2, <1>4, <2>1, SampleFacts
<1> DEFINE m == IF q[k] = "final" THEN "final" ELSE "transfer"
<1>8. \/ Moves(R, c, m, res[R][c])
      \/ \E l \in Ended : Moves(R, c, l, "error") /\ (R = "server" => l # "done")
  <2>1. m \in Labels
    BY DEF Labels
  <2>2. Proceed(R, c, m)
    BY <1>1
  <2> HIDE DEF m
  <2>3. QED
    BY <1>5, <2>1, <2>2, ProceedFacts
<1>9. PICK l, r : /\ Moves(R, c, l, r)
                  /\ (r = res[R][c] /\ l = m) \/ (r = "error" /\ l \in Ended)
                  /\ R = "server" => l # "done"
  <2>1. m # "done"
    OBVIOUS
  <2> HIDE DEF m
  <2>2. QED
    BY <1>8, <2>1
<1> HIDE DEF R
<1>10. Receives(c, k, v, l, r)
  BY <1>2, <1>3, <1>4, <1>6, <1>7, <1>9 DEF Receives, R
<1>11. QED
  BY <1>10

\* The sender reads the ACK, or something else.
ReadsAck(c, l, r) ==
    LET S == Sender(c)
        q == In(S, c)
    IN  /\ pc[S][c] = "final"
        /\ q \in Seq(Bytes(S)) /\ q # <<>> /\ Queued(S, c, SubSeq(q, 2, Len(q)))
        /\ l \in Ended /\ Moves(S, c, l, r) /\ (r = "ok" => Head(q) = "ack")
        /\ S = "server" => l # "done"
        /\ UNCHANGED <<x, ctx, broken, backlog, sent, rcvd, serverVars>>

\* SendAck is such a step.
LEMMA SendAckFacts ==
    ASSUME TypeOK, NEW c \in Clients, SendAck(c)
    PROVE  \E l, r : ReadsAck(c, l, r)
<1> DEFINE S == Sender(c)
           q == In(S, c)
           r == IF Head(q) = "ack" THEN "ok" ELSE "error"
<1>1. /\ pc[S][c] = "final" /\ q # <<>> /\ Read(S, c, 1) /\ Return(S, c, r)
      /\ UNCHANGED <<x, ctx, broken, backlog, sent, rcvd, serverVars>>
  BY DEF SendAck
<1>2. S \in Sides /\ 1 \in Nat /\ 1 + 1 = 2
  BY TransferFacts
<1>3. q \in Seq(Bytes(S)) /\ Queued(S, c, SubSeq(q, 1 + 1, Len(q)))
  BY <1>1, <1>2, ReadFacts
<1>4. r \in {"ok", "error"} /\ (r = "ok" => Head(q) = "ack")
  OBVIOUS
<1> HIDE DEF r
<1>5. PICK l \in Ended : Moves(S, c, l, r) /\ (S = "server" => l # "done")
  BY <1>1, <1>2, <1>4, ReturnFacts
<1> HIDE DEF S
<1>6. ReadsAck(c, l, r)
  BY <1>1, <1>2, <1>3, <1>4, <1>5 DEF ReadsAck, S
<1>7. QED
  BY <1>6

\* The receiver writes the ACK.
WritesAck(c, l) ==
    LET S == Sender(c)
        R == Receiver(c)
    IN  /\ pc[R][c] = "final"
        /\ In(S, c) \in Seq(Bytes(S)) /\ Queued(S, c, In(S, c) \o <<"ack">>)
        /\ l \in Ended /\ Moves(R, c, l, "ok")
        /\ R = "server" => l # "done"
        /\ UNCHANGED <<x, ctx, broken, backlog, sent, rcvd, serverVars>>

\* ReceiveAck is such a step.
LEMMA ReceiveAckFacts ==
    ASSUME TypeOK, NEW c \in Clients, ReceiveAck(c)
    PROVE  \E l : WritesAck(c, l)
<1> DEFINE S == Sender(c)
           R == Receiver(c)
<1>1. /\ pc[R][c] = "final" /\ Write(R, c, <<"ack">>) /\ Return(R, c, "ok")
      /\ UNCHANGED <<x, ctx, broken, backlog, sent, rcvd, serverVars>>
  BY DEF ReceiveAck
<1>2. S \in Sides /\ R \in Sides /\ S = Peer(R)
  BY TransferFacts DEF Peer, Sides
<1>3. <<"ack">> \in Seq(Bytes(S))
  <2>1. "ack" \in Bytes(S)
    BY DEF Bytes, UpBytes, DownBytes
  <2>2. QED
    BY <2>1
<1>4. In(S, c) \in Seq(Bytes(S)) /\ Queued(S, c, In(S, c) \o <<"ack">>)
  BY <1>1, <1>2, <1>3, WriteFacts
<1>5. PICK l \in Ended : Moves(R, c, l, "ok") /\ (R = "server" => l # "done")
  BY <1>1, <1>2, ReturnFacts
<1>6. WritesAck(c, l)
  BY <1>1, <1>4, <1>5 DEF WritesAck
<1>7. QED
  BY <1>6

\* The header is written, and read.
WritesHeader(c) ==
    /\ pc["client"][c] = "header"
    /\ up[c] \in Seq(UpBytes) /\ Queued("server", c, up[c] \o <<"header">>)
    /\ Moves("client", c, "transfer", res["client"][c])
    /\ UNCHANGED <<x, ctx, broken, backlog, sent, rcvd, serverVars>>
ReadsHeader(c) ==
    /\ pc["server"][c] = "header"
    /\ up[c] \in Seq(UpBytes) /\ up[c] # <<>>
    /\ Queued("server", c, SubSeq(up[c], 2, Len(up[c])))
    /\ Moves("server", c, "transfer", res["server"][c])
    /\ UNCHANGED <<x, ctx, broken, backlog, sent, rcvd, serverVars>>

\* A step that fails: the goroutine ends with an error.
Fails(side, c, l) ==
    /\ pc[side][c] \in {"header", "transfer", "final"}
    /\ l \in Ended /\ Moves(side, c, l, "error")
    /\ side = "server" => l # "done"
    /\ UNCHANGED <<x, ctx, up, down, broken, backlog, sent, rcvd, serverVars>>

\* The two goroutines' steps with the header, and the failures, are such steps.
LEMMA HeaderFacts ==
    ASSUME TypeOK, NEW c \in Clients
    PROVE  /\ ClientHeader(c) => WritesHeader(c) \/ \E l : Fails("client", c, l)
           /\ ServerHeader(c) => ReadsHeader(c) \/ \E l : Fails("server", c, l)
           /\ \A side \in Sides : TransferFails(side, c) => \E l : Fails(side, c, l)
<1>1. pc \in [Sides -> [Clients -> Labels]] /\ "transfer" \in Labels
  BY DEF TypeOK, Labels
<1>2. "client" \in Sides /\ "server" \in Sides /\ Peer("client") = "server"
  BY DEF Sides, Peer
<1>3. ASSUME NEW side \in Sides, Goto(side, c, "transfer"), UNCHANGED <<res, closed, watch>>
      PROVE  Moves(side, c, "transfer", res[side][c])
  <2>1. /\ pc' \in [Sides -> [Clients -> Labels]]
        /\ pc'[side][c] = "transfer"
        /\ \A s \in Sides, d \in Clients : s # side \/ d # c => pc'[s][d] = pc[s][d]
    BY <1>1, <1>3, GotoFacts
  <2>2. QED
    BY <1>3, <2>1 DEF Moves, TypeOK
<1>4. ASSUME NEW side \in Sides, Return(side, c, "error")
      PROVE  \E l \in Ended : Moves(side, c, l, "error") /\ (side = "server" => l # "done")
  BY <1>4, ReturnFacts
<1>5. ASSUME ClientHeader(c) PROVE WritesHeader(c) \/ \E l : Fails("client", c, l)
  <2>1. CASE Write("client", c, <<"header">>) /\ Goto("client", c, "transfer")
             /\ UNCHANGED <<res, closed, watch>>
    <3>1. <<"header">> \in Seq(Bytes("server"))
      BY DEF Bytes, UpBytes
    <3>2. In("server", c) = up[c] /\ Bytes("server") = UpBytes
      BY DEF In, Bytes
    <3>3. up[c] \in Seq(UpBytes) /\ Queued("server", c, up[c] \o <<"header">>)
      BY <1>2, <2>1, <3>1, <3>2, WriteFacts
    <3>4. QED
      BY <1>2, <1>3, <1>5, <2>1, <3>3 DEF ClientHeader, WritesHeader
  <2>2. CASE Return("client", c, "error") /\ UNCHANGED <<up, down>>
    BY <1>2, <1>4, <1>5, <2>2 DEF ClientHeader, Fails
  <2>3. QED
    BY <1>5, <2>1, <2>2 DEF ClientHeader
<1>6. ASSUME ServerHeader(c) PROVE ReadsHeader(c) \/ \E l : Fails("server", c, l)
  <2>1. CASE up[c] # <<>> /\ Read("server", c, 1) /\ Goto("server", c, "transfer")
             /\ UNCHANGED <<res, closed, watch>>
    <3>1. In("server", c) = up[c] /\ Bytes("server") = UpBytes /\ 1 \in Nat /\ 1 + 1 = 2
      BY DEF In, Bytes
    <3>2. up[c] \in Seq(UpBytes) /\ Queued("server", c, SubSeq(up[c], 1 + 1, Len(up[c])))
      BY <1>2, <2>1, <3>1, ReadFacts
    <3>3. QED
      BY <1>2, <1>3, <1>6, <2>1, <3>1, <3>2 DEF ServerHeader, ReadsHeader
  <2>2. CASE Return("server", c, "error") /\ UNCHANGED <<up, down>>
    BY <1>2, <1>4, <1>6, <2>2 DEF ServerHeader, Fails
  <2>3. QED
    BY <1>6, <2>1, <2>2 DEF ServerHeader
<1>7. ASSUME NEW side \in Sides, TransferFails(side, c) PROVE \E l : Fails(side, c, l)
  <2>1. PICK l \in Ended : Moves(side, c, l, "error") /\ (side = "server" => l # "done")
    BY <1>4, <1>7 DEF TransferFails
  <2>2. Fails(side, c, l)
    BY <1>7, <2>1 DEF TransferFails, Fails
  <2>3. QED
    BY <2>2
<1>8. QED
  BY <1>5, <1>6, <1>7

\* A step of the server, or of a node, that no byte is sent or received in.
LEMMA ServerTypes ==
    ASSUME TypeOK, ServerInv,
           \/ AcceptFails \/ MainServes \/ MainCancels \/ MainError \/ MainDone
           \/ \E c \in Clients : Accept(c)
    PROVE  /\ pc' \in [Sides -> [Clients -> Labels]]
           /\ closed' \in [Clients -> SUBSET Sides] /\ backlog' \subseteq Clients
           /\ accept' \in {"accept", "cc", "error", "errDone"}
           /\ accepted' \in Clients \cup {NoConn}
           /\ dones' \in Nat /\ g' \in Nat
           /\ main' \in {"select", "done"} /\ canceled' \in BOOLEAN
           /\ UNCHANGED <<x, ctx, res, watch, up, down, broken, sent, rcvd>>
<1>1. /\ pc \in [Sides -> [Clients -> Labels]] /\ "server" \in Sides
      /\ {"header", "done", "errDone"} \subseteq Labels
      /\ dones \in Nat /\ g \in Nat
  BY DEF TypeOK, Labels, Sides
<1>2. CASE AcceptFails
  BY <1>1, <1>2 DEF AcceptFails, TypeOK, connVars
<1>3. CASE MainServes
  <2>1. accepted \in Clients
    BY <1>3 DEF MainServes, ServerInv
  <2>2. pc' \in [Sides -> [Clients -> Labels]] /\ g' \in Nat /\ dones' \in Nat
    BY <1>1, <1>3, <2>1, GotoFacts DEF MainServes
  <2>3. closed' \in [Clients -> SUBSET Sides]
    <3>1. closed \in [Clients -> SUBSET Sides] /\ closed[accepted] \cup {"server"} \in SUBSET Sides
      BY <2>1 DEF TypeOK, Sides
    <3>2. \/ closed' = [closed EXCEPT ![accepted] = closed[accepted] \cup {"server"}]
          \/ closed' = closed
      BY <1>3 DEF MainServes
    <3>3. QED
      BY <2>1, <3>1, <3>2
  <2>4. QED
    BY <1>3, <2>2, <2>3 DEF MainServes, TypeOK
<1>4. CASE MainCancels
  <2>1. closed' \in [Clients -> SUBSET Sides]
    BY <1>4 DEF MainCancels, TypeOK, Sides
  <2>2. QED
    BY <1>1, <1>4, <2>1 DEF MainCancels, TypeOK
<1>5. CASE MainError
  <2>1. pc' \in [Sides -> [Clients -> Labels]]
    BY <1>1, <1>5, GotoFacts DEF MainError
  <2>2. QED
    BY <1>5, <2>1 DEF MainError, TypeOK, connVars
<1>6. CASE MainDone
  <2>1. pc' \in [Sides -> [Clients -> Labels]]
    BY <1>1, <1>6, GotoFacts DEF MainDone
  <2>2. g' \in Nat /\ dones' \in Nat
    BY <1>1, <1>6 DEF MainDone, ServerInv
  <2>3. main' \in {"select", "done"}
    BY <1>6 DEF MainDone
  <2>4. QED
    BY <1>6, <2>1, <2>2, <2>3 DEF MainDone, TypeOK, connVars
<1>7. CASE \E c \in Clients : Accept(c)
  BY <1>1, <1>7 DEF Accept, TypeOK
<1>8. QED
  BY <1>2, <1>3, <1>4, <1>5, <1>6, <1>7

\* A dialed client waits in the backlog, or has ended.
Dials(c, l, r) ==
    /\ pc["client"][c] = "idle" /\ Moves("client", c, l, r)
    /\ \/ l = "header" /\ r = res["client"][c] /\ backlog' = backlog \cup {c} /\ ~canceled
       \/ l \in Ended /\ r = "error" /\ UNCHANGED backlog
    /\ UNCHANGED <<x, ctx, up, down, broken, sent, rcvd, serverVars>>

\* Dial is such a step.
LEMMA DialFacts ==
    ASSUME TypeOK, NEW c \in Clients, Dial(c)
    PROVE  \E l, r : Dials(c, l, r)
<1>1. CASE Return("client", c, "error") /\ UNCHANGED backlog
  <2>1. "client" \in Sides
    BY DEF Sides
  <2>2. PICK l \in Ended : Moves("client", c, l, "error")
    BY <1>1, <2>1, ReturnFacts
  <2>3. Dials(c, l, "error")
    BY <1>1, <2>2 DEF Dial, Dials
  <2>4. QED
    BY <2>3
<1>2. CASE ~(canceled \/ "client" \in ctx)
  <2>1. /\ Goto("client", c, "header") /\ watch' = [watch EXCEPT ![c] = "watch"]
        /\ backlog' = backlog \cup {c} /\ UNCHANGED <<res, closed>>
    BY <1>2 DEF Dial
  <2>2. pc \in [Sides -> [Clients -> Labels]] /\ "client" \in Sides /\ "header" \in Labels
    BY DEF TypeOK, Labels, Sides
  <2>3. /\ pc' \in [Sides -> [Clients -> Labels]]
        /\ pc'["client"][c] = "header"
        /\ \A s \in Sides, d \in Clients : s # "client" \/ d # c => pc'[s][d] = pc[s][d]
    BY <2>1, <2>2, GotoFacts
  <2>4. Moves("client", c, "header", res["client"][c])
    BY <2>1, <2>3 DEF Moves, TypeOK
  <2>5. Dials(c, "header", res["client"][c])
    BY <1>2, <2>1, <2>4 DEF Dial, Dials
  <2>6. QED
    BY <2>5
<1>3. QED
  BY <1>1, <1>2 DEF Dial

\* A step of a goroutine for the connection of c.
ConnStep(c) ==
    \/ \E k, v, l, r : Sends(c, k, v, l, r)
    \/ \E k, v, l, r : Receives(c, k, v, l, r)
    \/ \E l, r : ReadsAck(c, l, r)
    \/ \E l : WritesAck(c, l)
    \/ WritesHeader(c) \/ ReadsHeader(c)
    \/ \E side \in Sides, l \in Ended : Fails(side, c, l)
    \/ \E l, r : Dials(c, l, r)

\* A step that moves none of them.
Still ==
    /\ closed' \in [Clients -> SUBSET Sides] /\ broken' \subseteq Clients
    /\ watch' \in [Clients -> {"off", "watch", "timer", "done"}] /\ ctx' \subseteq Sides
    /\ UNCHANGED <<x, pc, res, up, down, backlog, sent, rcvd, serverVars>>

ServerMoves ==
    \/ AcceptFails \/ MainServes \/ MainCancels \/ MainError \/ MainDone
    \/ \E c \in Clients : Accept(c)

\* What steps there are.
LEMMA Steps ==
    ASSUME TypeOK, FlowInv, Next
    PROVE  (\E c \in Clients : ConnStep(c)) \/ Still \/ ServerMoves
<1>1. ASSUME NEW c \in Clients, TransferStep(c) PROVE ConnStep(c)
  <2>1. CASE Send(c)
    BY <2>1, SendFacts DEF ConnStep
  <2>2. CASE SendAck(c)
    BY <2>2, SendAckFacts DEF ConnStep
  <2>3. CASE Receive(c)
    BY <2>3, ReceiveFacts DEF ConnStep
  <2>4. CASE ReceiveAck(c)
    BY <2>4, ReceiveAckFacts DEF ConnStep
  <2>5. CASE \E side \in Sides : TransferFails(side, c)
    BY <2>5, HeaderFacts DEF ConnStep, Fails
  <2>6. QED
    BY <1>1, <2>1, <2>2, <2>3, <2>4, <2>5 DEF TransferStep
<1>2. ASSUME NEW c \in Clients, ClientStep(c) PROVE ConnStep(c) \/ Still
  <2>1. CASE Dial(c)
    BY <2>1, DialFacts DEF ConnStep
  <2>2. CASE ClientHeader(c)
    <3>1. WritesHeader(c) \/ \E l : Fails("client", c, l)
      BY <2>2, HeaderFacts
    <3>2. QED
      BY <3>1 DEF ConnStep, Fails, Sides
  <2>3. CASE Watch(c)
    BY <2>3 DEF Watch, Still, TypeOK, connVars
  <2>4. CASE CancelTimeout(c)
    BY <2>4 DEF CancelTimeout, Still, TypeOK, Sides
  <2>5. QED
    BY <1>2, <2>1, <2>2, <2>3, <2>4 DEF ClientStep
<1>3. ASSUME NEW c \in Clients, Break(c) PROVE Still
  BY <1>3 DEF Break, Still, TypeOK
<1>4. ASSUME NEW c \in Clients, ServerHeader(c) PROVE ConnStep(c)
  <2>1. ReadsHeader(c) \/ \E l : Fails("server", c, l)
    BY <1>4, HeaderFacts
  <2>2. QED
    BY <2>1 DEF ConnStep, Fails, Sides
<1>5. ASSUME NEW side \in Sides, Cancel(side) PROVE Still
  BY <1>5 DEF Cancel, Still, TypeOK, connVars
<1>6. ASSUME UNCHANGED vars PROVE Still
  BY <1>6 DEF vars, Still, TypeOK, connVars
<1>7. QED
  BY <1>1, <1>2, <1>3, <1>4, <1>5, <1>6 DEF Next, ServerStep, ServerMoves

-----------------------------------------------------------------------------
(* Types.                                                                  *)

\* Every step keeps the types.
LEMMA TypeStep ==
    ASSUME StreamInv, Next
    PROVE  TypeOK'
<1>1. TypeOK /\ ServerInv /\ FlowInv
  BY DEF StreamInv
<1>2. ASSUME NEW side, NEW c, NEW l, NEW r, Moves(side, c, l, r),
             up' \in [Clients -> Seq(UpBytes)], down' \in [Clients -> Seq(DownBytes)],
             \A d \in Clients : Len(up'[d]) <= SockBuf /\ Len(down'[d]) <= SockBuf,
             backlog' \subseteq Clients, {sent', rcvd'} \subseteq [Clients -> Counts],
             UNCHANGED <<x, ctx, broken, serverVars>>
      PROVE  TypeOK'
  BY <1>1, <1>2 DEF TypeOK, Moves, Labels, UpBytes, DownBytes, Counts, serverVars
<1>3. /\ up \in [Clients -> Seq(UpBytes)] /\ down \in [Clients -> Seq(DownBytes)]
      /\ \A d \in Clients : Len(up[d]) <= SockBuf /\ Len(down[d]) <= SockBuf
      /\ backlog \subseteq Clients /\ sent \in [Clients -> Counts] /\ rcvd \in [Clients -> Counts]
  BY <1>1 DEF TypeOK, UpBytes, DownBytes, Counts
<1>4. ASSUME NEW c \in Clients, ConnStep(c) PROVE TypeOK'
  <2>1. ASSUME NEW k, NEW v, NEW l, NEW r, Sends(c, k, v, l, r) PROVE TypeOK'
    <3>1. sent' \in [Clients -> Counts] /\ rcvd' \in [Clients -> Counts]
      BY <1>3, <2>1 DEF Sends
    <3>2. QED
      BY <1>2, <1>3, <2>1, <3>1 DEF Sends, Queued
  <2>2. ASSUME NEW k, NEW v, NEW l, NEW r, Receives(c, k, v, l, r) PROVE TypeOK'
    <3>1. sent' \in [Clients -> Counts] /\ rcvd' \in [Clients -> Counts]
      BY <1>3, <2>2 DEF Receives
    <3>2. QED
      BY <1>2, <1>3, <2>2, <3>1 DEF Receives, Queued
  <2>3. ASSUME NEW l, NEW r, ReadsAck(c, l, r) PROVE TypeOK'
    BY <1>2, <1>3, <2>3 DEF ReadsAck, Queued
  <2>4. ASSUME NEW l, WritesAck(c, l) PROVE TypeOK'
    BY <1>2, <1>3, <2>4 DEF WritesAck, Queued
  <2>5. CASE WritesHeader(c)
    BY <1>2, <1>3, <2>5 DEF WritesHeader, Queued
  <2>6. CASE ReadsHeader(c)
    BY <1>2, <1>3, <2>6 DEF ReadsHeader, Queued
  <2>7. ASSUME NEW side \in Sides, NEW l \in Ended, Fails(side, c, l) PROVE TypeOK'
    BY <1>2, <1>3, <2>7 DEF Fails
  <2>8. ASSUME NEW l, NEW r, Dials(c, l, r) PROVE TypeOK'
    BY <1>2, <1>3, <2>8 DEF Dials
  <2>9. QED
    BY <1>4, <2>1, <2>2, <2>3, <2>4, <2>5, <2>6, <2>7, <2>8 DEF ConnStep
<1>5. CASE Still
  BY <1>1, <1>5 DEF Still, TypeOK, serverVars
<1>6. CASE ServerMoves
  <2>1. /\ pc' \in [Sides -> [Clients -> Labels]]
        /\ closed' \in [Clients -> SUBSET Sides] /\ backlog' \subseteq Clients
        /\ accept' \in {"accept", "cc", "error", "errDone"}
        /\ accepted' \in Clients \cup {NoConn}
        /\ dones' \in Nat /\ g' \in Nat
        /\ main' \in {"select", "done"} /\ canceled' \in BOOLEAN
        /\ UNCHANGED <<x, ctx, res, watch, up, down, broken, sent, rcvd>>
    BY <1>1, <1>6, ServerTypes DEF ServerMoves
  <2>2. QED
    BY <1>1, <2>1 DEF TypeOK, Labels
<1>7. QED
  BY <1>1, <1>4, <1>5, <1>6, Steps

-----------------------------------------------------------------------------
(* The flow of bytes.                                                      *)

\* Nothing happens on the connection of c but that a goroutine starts, or ends
\* without having succeeded.
Quiet(c) ==
    /\ UNCHANGED x
    /\ up'[c] = up[c] /\ down'[c] = down[c] /\ sent'[c] = sent[c] /\ rcvd'[c] = rcvd[c]
    /\ \A s \in Sides :
          /\ res'[s][c] = "ok" => res[s][c] = "ok"
          /\ \/ pc'[s][c] = pc[s][c] \/ pc'[s][c] \in Ended
             \/ pc[s][c] = "idle" /\ pc'[s][c] = "header"

\* A step of its Transfer.
Busy(c) ==
    \/ \E k, v, l, r : Sends(c, k, v, l, r)
    \/ \E k, v, l, r : Receives(c, k, v, l, r)
    \/ \E l, r : ReadsAck(c, l, r)
    \/ \E l : WritesAck(c, l)
    \/ WritesHeader(c) \/ ReadsHeader(c)

\* Every step is quiet for a connection, or a step of its Transfer.
LEMMA QuietOrBusy ==
    ASSUME StreamInv, Next, NEW c \in Clients
    PROVE  Quiet(c) \/ Busy(c)
<1>1. TypeOK /\ ServerInv /\ FlowInv
  BY DEF StreamInv
<1>2. ASSUME NEW d \in Clients, d # c, ConnStep(d) PROVE Quiet(c)
  <2>1. ASSUME NEW side, NEW l, NEW r, Moves(side, d, l, r), UNCHANGED x,
               up'[c] = up[c], down'[c] = down[c], sent'[c] = sent[c], rcvd'[c] = rcvd[c]
        PROVE  Quiet(c)
    BY <1>2, <2>1 DEF Moves, Quiet
  <2>2. ASSUME NEW side \in Sides, NEW q, Queued(side, d, q) PROVE up'[c] = up[c] /\ down'[c] = down[c]
    BY <1>2, <2>2 DEF Queued
  <2>3. Sender(d) \in Sides /\ Receiver(d) \in Sides /\ "server" \in Sides
    BY <1>1, TransferFacts DEF Sides
  <2>4. sent \in [Clients -> Counts] /\ rcvd \in [Clients -> Counts]
    BY <1>1 DEF TypeOK, Counts
  <2>5. ASSUME NEW k, NEW v, NEW l, NEW r, Sends(d, k, v, l, r) PROVE Quiet(c)
    <3>1. sent'[c] = sent[c] /\ rcvd'[c] = rcvd[c]
      BY <1>2, <2>4, <2>5 DEF Sends
    <3>2. QED
      BY <2>1, <2>2, <2>3, <2>5, <3>1 DEF Sends
  <2>6. ASSUME NEW k, NEW v, NEW l, NEW r, Receives(d, k, v, l, r) PROVE Quiet(c)
    <3>1. sent'[c] = sent[c] /\ rcvd'[c] = rcvd[c]
      BY <1>2, <2>4, <2>6 DEF Receives
    <3>2. QED
      BY <2>1, <2>2, <2>3, <2>6, <3>1 DEF Receives
  <2>7. ASSUME NEW l, NEW r, ReadsAck(d, l, r) PROVE Quiet(c)
    BY <2>1, <2>2, <2>3, <2>7 DEF ReadsAck
  <2>8. ASSUME NEW l, WritesAck(d, l) PROVE Quiet(c)
    BY <2>1, <2>2, <2>3, <2>8 DEF WritesAck
  <2>9. CASE WritesHeader(d)
    BY <2>1, <2>2, <2>3, <2>9 DEF WritesHeader
  <2>10. CASE ReadsHeader(d)
    BY <2>1, <2>2, <2>3, <2>10 DEF ReadsHeader
  <2>11. ASSUME NEW side \in Sides, NEW l \in Ended, Fails(side, d, l) PROVE Quiet(c)
    BY <2>1, <2>11 DEF Fails
  <2>12. ASSUME NEW l, NEW r, Dials(d, l, r) PROVE Quiet(c)
    BY <2>1, <2>12 DEF Dials
  <2>13. QED
    BY <1>2, <2>5, <2>6, <2>7, <2>8, <2>9, <2>10, <2>11, <2>12 DEF ConnStep
<1>3. CASE ConnStep(c)
  <2>1. ASSUME NEW side \in Sides, NEW l \in Ended, Fails(side, c, l) PROVE Quiet(c)
    BY <2>1 DEF Fails, Moves, Quiet
  <2>2. ASSUME NEW l, NEW r, Dials(c, l, r) PROVE Quiet(c)
    BY <2>2 DEF Dials, Moves, Quiet
  <2>3. QED
    BY <1>3, <2>1, <2>2 DEF ConnStep, Busy
<1>4. CASE Still
  BY <1>4 DEF Still, Quiet
<1>5. CASE ServerMoves
  <2>1. UNCHANGED <<x, res, up, down, sent, rcvd>>
    BY <1>1, <1>5, ServerTypes DEF ServerMoves
  <2>2. pc \in [Sides -> [Clients -> Labels]] /\ "server" \in Sides
        /\ {"header", "done", "errDone"} \subseteq Labels
    BY <1>1 DEF TypeOK, Labels, Sides
  <2>3. ASSUME NEW d \in Clients, NEW l \in {"header", "done", "errDone"}, Goto("server", d, l),
               l \in Ended \/ pc["server"][d] = "idle"
        PROVE  Quiet(c)
    <3>1. /\ pc'["server"][d] = l
          /\ \A s \in Sides, e \in Clients : s # "server" \/ e # d => pc'[s][e] = pc[s][e]
      BY <2>2, <2>3, GotoFacts
    <3>2. QED
      BY <2>1, <2>3, <3>1 DEF Quiet, Ended
  <2>4. ASSUME UNCHANGED pc PROVE Quiet(c)
    BY <2>1, <2>4 DEF Quiet
  <2>5. CASE MainServes
    <3>1. accepted \in Clients /\ pc["server"][accepted] = "idle"
      BY <1>1, <2>5 DEF MainServes, ServerInv
    <3>2. QED
      BY <2>3, <2>4, <2>5, <3>1 DEF MainServes
  <2>6. CASE MainError
    <3>1. UNCHANGED pc \/ \E d \in Clients : Goto("server", d, "errDone")
      BY <2>6 DEF MainError
    <3>2. "errDone" \in Ended
      BY DEF Ended
    <3>3. QED
      BY <2>3, <2>4, <3>1, <3>2
  <2>7. CASE MainDone
    <3>1. UNCHANGED pc \/ \E d \in Clients : Goto("server", d, "done")
      BY <2>7 DEF MainDone
    <3>2. "done" \in Ended
      BY DEF Ended
    <3>3. QED
      BY <2>3, <2>4, <3>1, <3>2
  <2>8. CASE AcceptFails \/ MainCancels \/ \E d \in Clients : Accept(d)
    BY <2>4, <2>8 DEF AcceptFails, MainCancels, Accept
  <2>9. QED
    BY <1>5, <2>5, <2>6, <2>7, <2>8 DEF ServerMoves
<1>6. QED
  BY <1>1, <1>2, <1>3, <1>4, <1>5, Steps

-----------------------------------------------------------------------------
(* What the invariants say of one connection, as relations between values:  *)
(* the Transfer y, the counts s and r, the data d, the queue q to the       *)
(* sender, and the pc and res of sender and receiver.                       *)

All(y, s, ps) == ps \notin Begins /\ s.io = s.l /\ (~y.timed => s.l = y.length)
Sums(y, s, r, d, q, ps, pr, rs, rr) ==
    /\ s.l = r.l + Len(d)
    /\ \A i \in 1 .. Len(d) : d[i] = "final" => i = Len(d) /\ All(y, s, ps)
    /\ ps \in Begins /\ y.length > 0 => s.l < y.length
    /\ (pr = "final" \/ rs = "ok" \/ rr = "ok" \/ \E i \in 1 .. Len(q) : q[i] = "ack") =>
          All(y, s, ps) /\ pr \notin Begins /\ s.l = r.l /\ r.io = r.l

\* Sending keeps the sums.
LEMMA SumsSend ==
    ASSUME NEW y, NEW s \in Counts, NEW r \in Counts, NEW d \in Seq(UpBytes), NEW q,
           NEW pr, NEW rs, NEW rr, Sums(y, s, r, d, q, "transfer", pr, rs, rr),
           NEW k, k.b \in Seq({"fill", "final"}), Len(k.b) > 0, k.done \in BOOLEAN,
           \A i \in 1 .. Len(k.b) : k.b[i] = "final" <=> k.done /\ i = Len(k.b),
           k.done /\ ~y.timed => s.l + Len(k.b) = y.length,
           ~k.done /\ y.length > 0 => s.l + Len(k.b) < y.length,
           NEW v \in Counts, v.l = s.l + Len(k.b), k.done => v.io = v.l,
           NEW l, NEW u, \/ u = rs /\ l = IF k.done THEN "final" ELSE "transfer"
                         \/ u = "error" /\ l \in Ended
    PROVE  Sums(y, v, r, d \o k.b, q, l, pr, u, rr)
<1>1. "transfer" \in Begins /\ "final" \notin Begins /\ Ended \cap Begins = {}
  BY DEF Begins, Ended
<1>2. ~All(y, s, "transfer")
  BY <1>1 DEF All
<1>3. /\ s.l = r.l + Len(d) /\ \A i \in 1 .. Len(d) : d[i] # "final"
      /\ ~(pr = "final" \/ rs = "ok" \/ rr = "ok" \/ \E i \in 1 .. Len(q) : q[i] = "ack")
  BY <1>2 DEF Sums
<1> DEFINE b == k.b
           e == d \o b
<1>4. /\ Len(d) \in Nat /\ Len(b) \in Nat /\ Len(e) = Len(d) + Len(b)
      /\ \A i \in 1 .. Len(e) : e[i] = IF i <= Len(d) THEN d[i] ELSE b[i - Len(d)]
  <2>1. b \in Seq(UpBytes)
    <3>1. {"fill", "final"} \subseteq UpBytes
      BY DEF UpBytes
    <3>2. QED
      BY <3>1
  <2>2. QED
    BY <2>1
<1>5. v.l = r.l + Len(e)
  BY <1>3, <1>4 DEF Counts
<1>6. k.done => All(y, v, l)
  BY <1>1 DEF All
<1>7. \A i \in 1 .. Len(e) : e[i] = "final" => k.done /\ i = Len(e)
  <2>1. SUFFICES ASSUME NEW i \in 1 .. Len(e), e[i] = "final" PROVE k.done /\ i = Len(e)
    OBVIOUS
  <2> HIDE DEF e, b
  <2>2. i > Len(d) /\ b[i - Len(d)] = "final" /\ i - Len(d) \in 1 .. Len(b)
    BY <1>3, <1>4, <2>1
  <2>3. k.done /\ i - Len(d) = Len(b)
    BY <2>2 DEF b
  <2>4. QED
    BY <1>4, <2>3
<1>8. l \in Begins /\ y.length > 0 => v.l < y.length
  BY <1>1
<1>9. u # "ok"
  BY <1>3
<1> HIDE DEF e
<1>10. Sums(y, v, r, e, q, l, pr, u, rr)
  BY <1>3, <1>5, <1>6, <1>7, <1>8, <1>9 DEF Sums
<1>11. QED
  BY <1>10 DEF e

\* Receiving keeps the sums.
LEMMA SumsReceive ==
    ASSUME NEW y, NEW s \in Counts, NEW r \in Counts, NEW d \in Seq(UpBytes), NEW q,
           NEW ps, NEW rs, NEW rr, Sums(y, s, r, d, q, ps, "transfer", rs, rr),
           NEW k \in Nat, k > 0, k <= Len(d),
           NEW v \in Counts, v.l = r.l + k, d[k] = "final" => v.io = v.l,
           NEW l, NEW u, \/ u = rr /\ l = IF d[k] = "final" THEN "final" ELSE "transfer"
                         \/ u = "error" /\ l \in Ended
    PROVE  Sums(y, s, v, SubSeq(d, k + 1, Len(d)), q, ps, l, rs, u)
<1>1. "transfer" \in Begins /\ "final" \notin Begins /\ "final" \notin Ended
  BY DEF Begins, Ended
<1>2. /\ s.l = r.l + Len(d)
      /\ \A i \in 1 .. Len(d) : d[i] = "final" => i = Len(d) /\ All(y, s, ps)
      /\ ps \in Begins /\ y.length > 0 => s.l < y.length
      /\ ~("transfer" = "final" \/ rs = "ok" \/ rr = "ok" \/ \E i \in 1 .. Len(q) : q[i] = "ack")
  BY <1>1 DEF Sums
<1> DEFINE e == SubSeq(d, k + 1, Len(d))
<1>3. /\ Len(d) \in Nat /\ Len(e) = Len(d) - k
      /\ \A i \in 1 .. Len(e) : e[i] = d[i + k]
  OBVIOUS
<1> HIDE DEF e
<1>4. s.l = v.l + Len(e)
  BY <1>2, <1>3 DEF Counts
<1>5. \A i \in 1 .. Len(e) : e[i] = "final" => i = Len(e) /\ All(y, s, ps)
  <2>1. SUFFICES ASSUME NEW i \in 1 .. Len(e), e[i] = "final" PROVE i = Len(e) /\ All(y, s, ps)
    OBVIOUS
  <2>2. i + k \in 1 .. Len(d) /\ d[i + k] = "final" /\ i \in Int
    BY <1>3, <2>1
  <2>3. i + k = Len(d)
    BY <1>2, <2>2
  <2>4. i = Len(e)
    <3> DEFINE n == Len(d)
               m == Len(e)
    <3>1. n \in Int /\ k \in Int
      BY <1>3
    <3>2. m = n - k
      BY <1>3
    <3>3. i + k = n
      BY <2>3
    <3> HIDE DEF n, m
    <3>4. i = m
      BY <2>2, <3>1, <3>2, <3>3
    <3>5. QED
      BY <3>4 DEF m
  <2>5. QED
    BY <1>2, <2>2, <2>4
<1>6. l = "final" => All(y, s, ps) /\ l \notin Begins /\ s.l = v.l /\ v.io = v.l
  <2>1. SUFFICES ASSUME l = "final" PROVE All(y, s, ps) /\ s.l = v.l /\ v.io = v.l
    BY <1>1
  <2>2. d[k] = "final"
    BY <1>1, <2>1
  <2>3. k = Len(d) /\ All(y, s, ps)
    BY <1>2, <1>3, <2>2
  <2>4. QED
    BY <1>2, <2>2, <2>3 DEF Counts
<1>7. u # "ok"
  BY <1>2
<1>8. Sums(y, s, v, e, q, ps, l, rs, u)
  BY <1>2, <1>4, <1>5, <1>6, <1>7 DEF Sums
<1>9. QED
  BY <1>8 DEF e

\* There is an ACK on its way to the sender, or a side knows that all is there.
Known(q, pr, rs, rr) ==
    pr = "final" \/ rs = "ok" \/ rr = "ok" \/ \E i \in 1 .. Len(q) : q[i] = "ack"

\* So does a step that moves no data, and that says that all is there only if
\* that is known.
LEMMA SumsRest ==
    ASSUME NEW y, NEW s, NEW r, NEW d, NEW q, NEW e, NEW ps, NEW pr, NEW rs, NEW rr,
           Sums(y, s, r, d, q, ps, pr, rs, rr),
           NEW l, NEW m, NEW u, NEW v,
           l \in Begins => ps \in Begins, ps \notin Begins => l \notin Begins,
           pr \notin Begins => m \notin Begins,
           Known(e, m, u, v) => Known(q, pr, rs, rr)
    PROVE  Sums(y, s, r, d, e, l, m, u, v)
BY DEF Sums, Known, All

\* The data in a queue to the receiver.
DataOf(q) == IF HasHeader(q) THEN Tail(q) ELSE q

\* How reads and writes change the data.
LEMMA DataFacts ==
    ASSUME NEW q \in Seq(UpBytes)
    PROVE  /\ DataOf(q) \in Seq(UpBytes)
           /\ \A b \in Seq({"fill", "final"}) : DataOf(q \o b) = DataOf(q) \o b
           /\ q = <<>> => DataOf(q \o <<"header">>) = DataOf(q)
           /\ (\A i \in 1 .. Len(q) : q[i] # "header") =>
                 /\ DataOf(q) = q
                 /\ \A k \in 0 .. Len(q) : DataOf(SubSeq(q, k + 1, Len(q))) = SubSeq(q, k + 1, Len(q))
           /\ HasHeader(q) /\ (\A i \in 2 .. Len(q) : q[i] # "header") =>
                 DataOf(SubSeq(q, 2, Len(q))) = DataOf(q)
<1>1. DataOf(q) \in Seq(UpBytes)
  BY DEF DataOf, HasHeader
<1>2. ASSUME NEW b \in Seq({"fill", "final"}) PROVE DataOf(q \o b) = DataOf(q) \o b
  <2>0. b \in Seq(UpBytes) /\ (b # <<>> => b[1] # "header")
    <3>1. {"fill", "final"} \subseteq UpBytes
      BY DEF UpBytes
    <3>2. QED
      BY <1>2, <3>1
  <2>1. CASE q = <<>>
    <3>1. q \o b = b
      BY <2>0, <2>1
    <3>2. QED
      BY <2>0, <2>1, <3>1 DEF DataOf, HasHeader
  <2>2. CASE q # <<>>
    <3>1. Head(q \o b) = Head(q) /\ q \o b # <<>> /\ Tail(q \o b) = Tail(q) \o b
      BY <2>0, <2>2
    <3>2. QED
      BY <2>2, <3>1 DEF DataOf, HasHeader
  <2>3. QED
    BY <2>1, <2>2
<1>3. ASSUME q = <<>> PROVE DataOf(q \o <<"header">>) = DataOf(q)
  <2>1. q \o <<"header">> = <<"header">> /\ Head(<<"header">>) = "header" /\ Tail(<<"header">>) = <<>>
        /\ <<"header">> # <<>>
    BY <1>3
  <2>2. QED
    BY <1>3, <2>1 DEF DataOf, HasHeader
<1>4. ASSUME \A i \in 1 .. Len(q) : q[i] # "header", NEW k \in 0 .. Len(q)
      PROVE  DataOf(SubSeq(q, k + 1, Len(q))) = SubSeq(q, k + 1, Len(q))
  <2> DEFINE e == SubSeq(q, k + 1, Len(q))
  <2>1. e # <<>> => Head(e) = q[k + 1] /\ k + 1 \in 1 .. Len(q)
    OBVIOUS
  <2> HIDE DEF e
  <2>2. ~HasHeader(e)
    BY <1>4, <2>1 DEF HasHeader
  <2>3. QED
    BY <2>2 DEF DataOf, e
<1>5. ASSUME \A i \in 1 .. Len(q) : q[i] # "header" PROVE DataOf(q) = q
  BY <1>5 DEF DataOf, HasHeader
<1>6. ASSUME HasHeader(q), \A i \in 2 .. Len(q) : q[i] # "header"
      PROVE  DataOf(SubSeq(q, 2, Len(q))) = DataOf(q)
  <2> DEFINE e == SubSeq(q, 2, Len(q))
  <2>1. e = Tail(q) /\ (e # <<>> => Head(e) = q[2] /\ 2 \in 2 .. Len(q))
    BY <1>6 DEF HasHeader
  <2> HIDE DEF e
  <2>2. ~HasHeader(e)
    BY <1>6, <2>1 DEF HasHeader
  <2>3. QED
    BY <1>6, <2>1, <2>2 DEF DataOf, e
<1>7. QED
  BY <1>1, <1>2, <1>3, <1>4, <1>5, <1>6

\* FlowInv for one connection.
FlowAt(c) ==
    LET S == Sender(c)
        R == Receiver(c)
    IN  Sums(x[c], sent[c], rcvd[c], DataOf(In(R, c)), In(S, c), pc[S][c], pc[R][c],
             res[S][c], res[R][c])

\* It says what FlowInv says.
LEMMA FlowUnfold ==
    ASSUME TypeOK
    PROVE  FlowInv <=> \A c \in Clients : FlowAt(c)
<1>1. ASSUME NEW c \in Clients PROVE \A side \in Sides : side = Sender(c) \/ side = Receiver(c)
  BY TransferFacts
<1>2. ASSUME NEW c \in Clients PROVE Sender(c) \in Sides /\ Receiver(c) \in Sides
  BY TransferFacts
<1>3. ASSUME NEW c \in Clients
      PROVE  (\E side \in Sides : res[side][c] = "ok") <=>
                res[Sender(c)][c] = "ok" \/ res[Receiver(c)][c] = "ok"
  BY <1>1, <1>2
<1>4. QED
  BY <1>3 DEF FlowInv, FlowAt, Sums, All, SentAll, Arrived, Data, DataOf

\* The same of the next state.
LEMMA FlowUnfoldNext ==
    ASSUME TypeOK', \A c \in Clients : FlowAt(c)'
    PROVE  FlowInv'
<1>1. x' \in Transfers
  BY DEF TypeOK
<1>2. ASSUME NEW c \in Clients
      PROVE  (\E side \in Sides : res'[side][c] = "ok") <=>
                res'[Sender(c)'][c] = "ok" \/ res'[Receiver(c)'][c] = "ok"
  BY DEF Sender, Receiver, Peer, Sides
<1>3. QED
  BY <1>2 DEF FlowInv, FlowAt, Sums, All, SentAll, Arrived, Data, DataOf

\* HeaderInv for one connection: the queue u to the server, and the pc of client
\* and server.
Heads(u, cl, sv) ==
    /\ \A i \in 2 .. Len(u) : u[i] # "header"
    /\ cl \in {"idle", "header"} => u = <<>> /\ sv \notin {"transfer", "final"}
    /\ sv \in {"idle", "header"} => HasHeader(u) \/ (u = <<>> /\ cl \notin {"transfer", "final"})
    /\ sv \in {"transfer", "final"} => ~HasHeader(u)

\* What keeps it.
LEMMA HeadsFacts ==
    ASSUME NEW u \in Seq(UpBytes), NEW cl \in Labels, NEW sv \in Labels, Heads(u, cl, sv),
           NEW l \in Labels
    PROVE  \* the client writes
           /\ \A b \in Seq({"fill", "final", "ack"}) :
                 cl \in {"transfer", "final"} /\ l \notin {"idle", "header"} =>
                    Heads(u \o b, l, sv)
           /\ cl = "header" => Heads(u \o <<"header">>, "transfer", sv)
           \* the server reads
           /\ \A k \in 0 .. Len(u) :
                 sv \in {"transfer", "final"} /\ l \notin {"idle", "header"} =>
                    Heads(SubSeq(u, k + 1, Len(u)), cl, l)
           /\ sv = "header" /\ u # <<>> => HasHeader(u) /\ Heads(SubSeq(u, 2, Len(u)), cl, "transfer")
           \* nothing is written or read
           /\ l \in Ended \/ (cl \in {"transfer", "final"} /\ l \in {"transfer", "final"})
                 => Heads(u, l, sv)
           /\ l \in Ended \/ (sv \in {"transfer", "final"} /\ l \in {"transfer", "final"})
                 => Heads(u, cl, l)
<1>1. ASSUME NEW b \in Seq({"fill", "final", "ack"}),
             cl \in {"transfer", "final"}, l \notin {"idle", "header"}
      PROVE  Heads(u \o b, l, sv)
  <2> DEFINE e == u \o b
  <2>0. b \in Seq(UpBytes) /\ \A i \in 1 .. Len(b) : b[i] # "header"
    <3>1. {"fill", "final", "ack"} \subseteq UpBytes
      BY DEF UpBytes
    <3>2. b \in Seq(UpBytes)
      BY <1>1, <3>1
    <3>3. ASSUME NEW i \in 1 .. Len(b) PROVE b[i] # "header"
      <4>1. b[i] \in {"fill", "final", "ack"}
        BY <1>1, <3>3
      <4>2. QED
        BY <4>1
    <3>4. QED
      BY <3>2, <3>3
  <2>1. /\ e \in Seq(UpBytes) /\ Len(e) = Len(u) + Len(b) /\ Len(u) \in Nat /\ Len(b) \in Nat
        /\ \A i \in 1 .. Len(e) : e[i] = IF i <= Len(u) THEN u[i] ELSE b[i - Len(u)]
    BY <2>0
  <2> HIDE DEF e
  <2>2. \A i \in 2 .. Len(e) : e[i] # "header"
    <3>1. SUFFICES ASSUME NEW i \in 2 .. Len(e) PROVE e[i] # "header"
      OBVIOUS
    <3>2. CASE i <= Len(u)
      BY <2>1, <3>1, <3>2 DEF Heads
    <3>3. CASE ~(i <= Len(u))
      <4>1. i - Len(u) \in 1 .. Len(b) /\ e[i] = b[i - Len(u)]
        BY <2>1, <3>1, <3>3
      <4>2. QED
        BY <2>0, <4>1
    <3>4. QED
      BY <3>2, <3>3
  <2>3. HasHeader(u) => HasHeader(e)
    BY <2>1 DEF HasHeader
  <2>4. ~HasHeader(u) => ~HasHeader(e)
    <3>1. CASE u = <<>>
      <4>1. e # <<>> => Head(e) = b[1] /\ 1 \in 1 .. Len(b)
        BY <2>1, <3>1
      <4>2. QED
        BY <2>0, <4>1 DEF HasHeader
    <3>2. CASE u # <<>>
      BY <2>1, <3>2 DEF HasHeader
    <3>3. QED
      BY <3>1, <3>2
  <2>5. Heads(e, l, sv)
    BY <1>1, <2>2, <2>3, <2>4 DEF Heads
  <2>6. QED
    BY <2>5 DEF e
<1>2. ASSUME cl = "header" PROVE Heads(u \o <<"header">>, "transfer", sv)
  <2>1. u = <<>> /\ sv \notin {"transfer", "final"}
    BY <1>2 DEF Heads
  <2>2. u \o <<"header">> = <<"header">> /\ HasHeader(<<"header">>) /\ Len(<<"header">>) = 1
    BY <2>1 DEF HasHeader
  <2>3. QED
    BY <2>1, <2>2 DEF Heads
<1>3. ASSUME NEW k \in 0 .. Len(u), sv \in {"transfer", "final"}, l \notin {"idle", "header"}
      PROVE  Heads(SubSeq(u, k + 1, Len(u)), cl, l)
  <2> DEFINE e == SubSeq(u, k + 1, Len(u))
  <2>1. \A i \in 1 .. Len(u) : u[i] # "header"
    BY <1>3 DEF Heads, HasHeader
  <2>2. Len(u) \in Nat /\ Len(e) \in Nat /\ e \in Seq(UpBytes) /\ \A i \in 1 .. Len(e) : e[i] = u[i + k] /\ i + k \in 1 .. Len(u)
    OBVIOUS
  <2> HIDE DEF e
  <2>3. \A i \in 1 .. Len(e) : e[i] # "header"
    BY <2>1, <2>2
  <2>4. ~HasHeader(e) /\ \A i \in 2 .. Len(e) : e[i] # "header"
    BY <2>2, <2>3 DEF HasHeader
  <2>5. cl \notin {"idle", "header"}
    BY <1>3 DEF Heads
  <2>6. Heads(e, cl, l)
    BY <1>3, <2>4, <2>5 DEF Heads
  <2>7. QED
    BY <2>6 DEF e
<1>4. ASSUME sv = "header", u # <<>>
      PROVE  HasHeader(u) /\ Heads(SubSeq(u, 2, Len(u)), cl, "transfer")
  <2> DEFINE e == SubSeq(u, 2, Len(u))
  <2>1. HasHeader(u) /\ cl \notin {"idle", "header"} /\ \A i \in 2 .. Len(u) : u[i] # "header"
    BY <1>4 DEF Heads
  <2>2. Len(u) \in Nat /\ Len(e) \in Nat /\ e \in Seq(UpBytes) /\ \A i \in 1 .. Len(e) : e[i] = u[i + 1] /\ i + 1 \in 2 .. Len(u)
    OBVIOUS
  <2> HIDE DEF e
  <2>3. \A i \in 1 .. Len(e) : e[i] # "header"
    BY <2>1, <2>2
  <2>4. ~HasHeader(e) /\ \A i \in 2 .. Len(e) : e[i] # "header"
    BY <2>2, <2>3 DEF HasHeader
  <2>5. Heads(e, cl, "transfer")
    BY <2>1, <2>4 DEF Heads
  <2>6. QED
    BY <2>1, <2>5 DEF e
<1>5. ASSUME l \in Ended \/ (cl \in {"transfer", "final"} /\ l \in {"transfer", "final"})
      PROVE Heads(u, l, sv)
  BY <1>5 DEF Heads, Ended
<1>6. ASSUME l \in Ended \/ (sv \in {"transfer", "final"} /\ l \in {"transfer", "final"})
      PROVE Heads(u, cl, l)
  BY <1>6 DEF Heads, Ended
<1>7. QED
  BY <1>1, <1>2, <1>3, <1>4, <1>5, <1>6

\* The queues of c after a write or a read.
LEMMA QueuedIn ==
    ASSUME NEW side \in Sides, NEW c \in Clients, NEW q, Queued(side, c, q)
    PROVE  In(side, c)' = q /\ \A s \in Sides : s # side => In(s, c)' = In(s, c)
BY DEF Queued, In, Sides

\* A step keeps the flow of a connection.
LEMMA FlowStep ==
    ASSUME StreamInv, Next, TypeOK', NEW c \in Clients
    PROVE  FlowAt(c)'
<1>0. PICK S, R : S = Sender(c) /\ R = Receiver(c)
  OBVIOUS
<1> DEFINE d == DataOf(In(R, c))
           q == In(S, c)
<1>1. TypeOK /\ FlowAt(c) /\ Heads(up[c], pc["client"][c], pc["server"][c])
  BY FlowUnfold DEF StreamInv, HeaderInv, Heads
<1>2. S \in Sides /\ R \in Sides /\ S # R /\ (R = "server" => S = "client") /\ (R = "client" => S = "server")
  BY <1>0, <1>1, TransferFacts DEF Sides
<1>3. /\ sent \in [Clients -> Counts] /\ rcvd \in [Clients -> Counts]
      /\ sent[c] \in Counts /\ rcvd[c] \in Counts
  BY <1>1 DEF TypeOK, Counts
<1>4. In(R, c) \in Seq(UpBytes) /\ (R = "server" => In(R, c) = up[c])
      /\ (R = "client" => \A i \in 1 .. Len(In(R, c)) : In(R, c)[i] # "header")
  <2>1. up[c] \in Seq(UpBytes) /\ down[c] \in Seq(DownBytes)
    BY <1>1 DEF TypeOK, UpBytes, DownBytes
  <2>2. DownBytes \subseteq UpBytes /\ "header" \notin DownBytes
    BY DEF UpBytes, DownBytes
  <2>3. down[c] \in Seq(UpBytes)
    BY <2>1, <2>2
  <2>4. \A i \in 1 .. Len(down[c]) : down[c][i] # "header"
    BY <2>1, <2>2
  <2>5. In(R, c) = IF R = "server" THEN up[c] ELSE down[c]
    BY DEF In
  <2>6. QED
    BY <2>1, <2>3, <2>4, <2>5
<1>5. d \in Seq(UpBytes) /\ Sums(x[c], sent[c], rcvd[c], d, q, pc[S][c], pc[R][c], res[S][c], res[R][c])
  BY <1>0, <1>1, <1>4, DataFacts DEF FlowAt
<1>6. ASSUME UNCHANGED x, NEW e, NEW p, DataOf(In(R, c)') = e, In(S, c)' = p,
             Sums(x[c], sent'[c], rcvd'[c], e, p, pc'[S][c], pc'[R][c], res'[S][c], res'[R][c])
      PROVE  FlowAt(c)'
  <2>1. Sender(c)' = S /\ Receiver(c)' = R /\ x'[c] = x[c]
    BY <1>0, <1>6 DEF Sender, Receiver
  <2>2. QED
    BY <1>6, <2>1 DEF FlowAt
<1> HIDE DEF d, q
<1>7. CASE Quiet(c)
  <2>1. In(R, c)' = In(R, c) /\ In(S, c)' = In(S, c)
    BY <1>7 DEF Quiet, In
  <2>2. /\ pc'[S][c] \in Begins => pc[S][c] \in Begins
        /\ pc[S][c] \notin Begins => pc'[S][c] \notin Begins
        /\ pc[R][c] \notin Begins => pc'[R][c] \notin Begins
        /\ pc'[R][c] = "final" => pc[R][c] = "final"
        /\ res'[S][c] = "ok" => res[S][c] = "ok"
        /\ res'[R][c] = "ok" => res[R][c] = "ok"
    BY <1>2, <1>7 DEF Quiet, Begins, Ended
  <2>3. Known(q, pc'[R][c], res'[S][c], res'[R][c]) => Known(q, pc[R][c], res[S][c], res[R][c])
    BY <2>2 DEF Known
  <2>4. Sums(x[c], sent[c], rcvd[c], d, q, pc'[S][c], pc'[R][c], res'[S][c], res'[R][c])
    BY <1>5, <2>2, <2>3, SumsRest
  <2>5. QED
    BY <1>6, <1>7, <2>1, <2>4 DEF Quiet, d, q
<1>8. ASSUME NEW k, NEW v, NEW l, NEW r, Sends(c, k, v, l, r) PROVE FlowAt(c)'
  <2>1. /\ pc[S][c] = "transfer"
        /\ k.b \in Seq({"fill", "final"}) /\ Len(k.b) > 0 /\ k.done \in BOOLEAN
        /\ \A i \in 1 .. Len(k.b) : k.b[i] = "final" <=> k.done /\ i = Len(k.b)
        /\ k.done /\ ~x[c].timed => sent[c].l + Len(k.b) = x[c].length
        /\ ~k.done /\ x[c].length > 0 => sent[c].l + Len(k.b) < x[c].length
        /\ v \in Counts /\ v.l = sent[c].l + Len(k.b) /\ (k.done => v.io = v.l)
        /\ \/ r = res[S][c] /\ l = IF k.done THEN "final" ELSE "transfer"
           \/ r = "error" /\ l \in Ended
    BY <1>0, <1>8 DEF Sends
  <2>2. Sums(x[c], v, rcvd[c], d \o k.b, q, l, pc[R][c], r, res[R][c])
    <3>1. Sums(x[c], sent[c], rcvd[c], d, q, "transfer", pc[R][c], res[S][c], res[R][c])
      BY <1>5, <2>1
    <3>2. QED
      BY <1>3, <1>5, <2>1, <3>1, SumsSend
  <2>3. In(R, c)' = In(R, c) \o k.b /\ In(S, c)' = q
    BY <1>0, <1>2, <1>8, QueuedIn DEF Sends, q
  <2>4. DataOf(In(R, c)') = d \o k.b
    BY <1>4, <2>1, <2>3, DataFacts DEF d
  <2>5. /\ sent'[c] = v /\ rcvd'[c] = rcvd[c] /\ UNCHANGED x
        /\ pc'[S][c] = l /\ res'[S][c] = r /\ pc'[R][c] = pc[R][c] /\ res'[R][c] = res[R][c]
    BY <1>0, <1>2, <1>3, <1>8 DEF Sends, Moves
  <2>6. QED
    BY <1>6, <2>2, <2>3, <2>4, <2>5
<1>9. ASSUME NEW k, NEW v, NEW l, NEW r, Receives(c, k, v, l, r) PROVE FlowAt(c)'
  <2>1. /\ pc[R][c] = "transfer" /\ k \in Nat /\ k > 0 /\ k <= Len(In(R, c)) /\ Len(In(R, c)) \in Nat
        /\ v \in Counts /\ v.l = rcvd[c].l + k /\ (In(R, c)[k] = "final" => v.io = v.l)
        /\ \/ r = res[R][c] /\ l = IF In(R, c)[k] = "final" THEN "final" ELSE "transfer"
           \/ r = "error" /\ l \in Ended
    BY <1>0, <1>9 DEF Receives
  <2>2. \A i \in 1 .. Len(In(R, c)) : In(R, c)[i] # "header"
    <3>1. CASE R = "client"
      BY <1>4, <3>1
    <3>2. CASE R = "server"
      <4>1. /\ ~HasHeader(up[c]) /\ \A i \in 2 .. Len(up[c]) : up[c][i] # "header"
            /\ up[c] \in Seq(UpBytes)
        BY <1>1, <1>4, <2>1, <3>2 DEF Heads
      <4>2. \A i \in 1 .. Len(up[c]) : up[c][i] # "header"
        BY <4>1 DEF HasHeader
      <4>3. QED
        BY <1>4, <3>2, <4>2
    <3>3. QED
      BY <1>2, <3>1, <3>2 DEF Sides
  <2>3. d = In(R, c)
    BY <1>4, <2>2, DataFacts DEF d
  <2>4. DataOf(SubSeq(In(R, c), k + 1, Len(In(R, c)))) = SubSeq(d, k + 1, Len(d))
    <3>1. k \in 0 .. Len(In(R, c))
      BY <2>1
    <3>2. QED
      BY <1>4, <2>2, <2>3, <3>1, DataFacts
  <2>5. Sums(x[c], sent[c], v, SubSeq(d, k + 1, Len(d)), q, pc[S][c], l, res[S][c], r)
    <3>1. Sums(x[c], sent[c], rcvd[c], d, q, pc[S][c], "transfer", res[S][c], res[R][c])
      BY <1>5, <2>1
    <3>2. QED
      BY <1>3, <1>5, <2>1, <2>3, <3>1, SumsReceive
  <2>6. In(R, c)' = SubSeq(In(R, c), k + 1, Len(In(R, c))) /\ In(S, c)' = q
    BY <1>0, <1>2, <1>9, QueuedIn DEF Receives, q
  <2>7. /\ rcvd'[c] = v /\ sent'[c] = sent[c] /\ UNCHANGED x
        /\ pc'[R][c] = l /\ res'[R][c] = r /\ pc'[S][c] = pc[S][c] /\ res'[S][c] = res[S][c]
    BY <1>0, <1>2, <1>3, <1>9 DEF Receives, Moves
  <2>8. QED
    BY <1>6, <2>4, <2>5, <2>6, <2>7
<1>10. ASSUME NEW l, NEW r, ReadsAck(c, l, r) PROVE FlowAt(c)'
  <2>1. /\ pc[S][c] = "final" /\ q \in Seq(Bytes(S)) /\ q # <<>> /\ l \in Ended
        /\ r = "ok" => Head(q) = "ack"
    BY <1>0, <1>10 DEF ReadsAck, q
  <2> DEFINE e == SubSeq(q, 2, Len(q))
  <2>2. In(S, c)' = e /\ In(R, c)' = In(R, c)
    BY <1>0, <1>2, <1>10, QueuedIn DEF ReadsAck, q
  <2>3. /\ rcvd'[c] = rcvd[c] /\ sent'[c] = sent[c] /\ UNCHANGED x
        /\ pc'[S][c] = l /\ res'[S][c] = r /\ pc'[R][c] = pc[R][c] /\ res'[R][c] = res[R][c]
    BY <1>0, <1>2, <1>10 DEF ReadsAck, Moves
  <2>4. /\ \A i \in 1 .. Len(e) : i + 1 \in 1 .. Len(q) /\ e[i] = q[i + 1]
        /\ 1 \in 1 .. Len(q) /\ Head(q) = q[1]
    BY <2>1
  <2> HIDE DEF e
  <2>5. Known(e, pc[R][c], r, res[R][c]) => Known(q, pc[R][c], res[S][c], res[R][c])
    BY <2>1, <2>4 DEF Known
  <2>6. "final" \notin Begins /\ l \notin Begins
    BY <2>1 DEF Begins, Ended
  <2>7. Sums(x[c], sent[c], rcvd[c], d, e, l, pc[R][c], r, res[R][c])
    BY <1>5, <2>1, <2>5, <2>6, SumsRest
  <2>8. QED
    BY <1>6, <2>2, <2>3, <2>7 DEF d
<1>11. ASSUME NEW l, WritesAck(c, l) PROVE FlowAt(c)'
  <2>1. pc[R][c] = "final" /\ l \in Ended
    BY <1>0, <1>11 DEF WritesAck
  <2> DEFINE e == q \o <<"ack">>
  <2>2. In(S, c)' = e /\ In(R, c)' = In(R, c)
    BY <1>0, <1>2, <1>11, QueuedIn DEF WritesAck, q
  <2>3. /\ rcvd'[c] = rcvd[c] /\ sent'[c] = sent[c] /\ UNCHANGED x
        /\ pc'[R][c] = l /\ res'[R][c] = "ok" /\ pc'[S][c] = pc[S][c] /\ res'[S][c] = res[S][c]
    BY <1>0, <1>2, <1>11 DEF WritesAck, Moves
  <2> HIDE DEF e
  <2>4. Known(q, pc[R][c], res[S][c], res[R][c]) /\ l \notin Begins
    BY <2>1 DEF Known, Begins, Ended
  <2>5. Sums(x[c], sent[c], rcvd[c], d, e, pc[S][c], l, res[S][c], "ok")
    BY <1>5, <2>4, SumsRest
  <2>6. QED
    BY <1>6, <2>2, <2>3, <2>5 DEF d
\* A side that only begins has not received it all.
<1>12. ASSUME NEW side \in Sides, pc[side][c] \in {"header"}, pc'[side][c] = "transfer",
              \A s \in Sides : s # side => pc'[s][c] = pc[s][c],
              \A s \in Sides : res'[s][c] = res[s][c], NEW e, In(S, c)' = e,
              \A i \in 1 .. Len(e) : e[i] = "ack" => \E j \in 1 .. Len(q) : q[j] = "ack",
              DataOf(In(R, c)') = d, UNCHANGED <<x, sent, rcvd>>
       PROVE  FlowAt(c)'
  <2>1. /\ pc'[S][c] \in Begins => pc[S][c] \in Begins
        /\ pc[S][c] \notin Begins => pc'[S][c] \notin Begins
        /\ pc[R][c] \notin Begins => pc'[R][c] \notin Begins
        /\ pc'[R][c] = "final" => pc[R][c] = "final"
    BY <1>2, <1>12 DEF Begins
  <2>2. res'[S][c] = res[S][c] /\ res'[R][c] = res[R][c]
    BY <1>2, <1>12
  <2>3. Known(e, pc'[R][c], res'[S][c], res'[R][c]) => Known(q, pc[R][c], res[S][c], res[R][c])
    BY <1>12, <2>1, <2>2 DEF Known
  <2>4. Sums(x[c], sent[c], rcvd[c], d, e, pc'[S][c], pc'[R][c], res'[S][c], res'[R][c])
    BY <1>5, <2>1, <2>3, SumsRest
  <2>5. QED
    BY <1>6, <1>12, <2>4
<1>13. "client" \in Sides /\ "server" \in Sides /\ up[c] \in Seq(UpBytes)
       /\ In("server", c) = up[c]
  BY <1>1 DEF TypeOK, Sides, In, UpBytes
<1>14. CASE WritesHeader(c)
  <2>1. /\ pc["client"][c] = "header" /\ pc'["client"][c] = "transfer"
        /\ \A s \in Sides : s # "client" => pc'[s][c] = pc[s][c]
        /\ \A s \in Sides : res'[s][c] = res[s][c]
        /\ UNCHANGED <<x, sent, rcvd>>
    BY <1>14 DEF WritesHeader, Moves
  <2>2. up[c] = <<>>
    BY <1>1, <2>1 DEF Heads
  <2>3. /\ In("server", c)' = up[c] \o <<"header">> /\ In("client", c)' = In("client", c)
    BY <1>13, <1>14, QueuedIn, ZenonT(40) DEF WritesHeader
  <2>4. up[c] \o <<"header">> = <<"header">> /\ Len(<<"header">>) = 1 /\ <<"header">>[1] # "ack"
    BY <2>2
  <2>5. DataOf(In(R, c)') = d
    <3>1. CASE R = "client"
      BY <2>3, <3>1 DEF d
    <3>2. CASE R = "server"
      <4>1. DataOf(up[c] \o <<"header">>) = DataOf(up[c])
        BY <1>13, <2>2, DataFacts
      <4>2. QED
        BY <1>13, <2>3, <3>2, <4>1 DEF d
    <3>3. QED
      BY <1>2, <3>1, <3>2 DEF Sides
  <2>6. \A i \in 1 .. Len(In(S, c)') : In(S, c)'[i] = "ack" => \E j \in 1 .. Len(q) : q[j] = "ack"
    <3>1. CASE S = "client"
      BY <2>3, <3>1 DEF q
    <3>2. CASE S = "server"
      BY <2>3, <2>4, <3>2
    <3>3. QED
      BY <1>2, <3>1, <3>2 DEF Sides
  <2>7. QED
    BY <1>12, <1>13, <2>1, <2>5, <2>6
<1>15. CASE ReadsHeader(c)
  <2>1. /\ pc["server"][c] = "header" /\ pc'["server"][c] = "transfer" /\ up[c] # <<>>
        /\ \A s \in Sides : s # "server" => pc'[s][c] = pc[s][c]
        /\ \A s \in Sides : res'[s][c] = res[s][c]
        /\ UNCHANGED <<x, sent, rcvd>>
    BY <1>15 DEF ReadsHeader, Moves
  <2>2. HasHeader(up[c]) /\ \A i \in 2 .. Len(up[c]) : up[c][i] # "header"
    BY <1>1, <2>1 DEF Heads
  <2>3. /\ In("server", c)' = SubSeq(up[c], 2, Len(up[c])) /\ In("client", c)' = In("client", c)
    <3>1. Queued("server", c, SubSeq(up[c], 2, Len(up[c])))
      BY <1>15 DEF ReadsHeader
    <3>2. QED
      BY <3>1 DEF Queued, In
  <2>4. DataOf(In(R, c)') = d
    <3>1. CASE R = "client"
      BY <2>3, <3>1 DEF d
    <3>2. CASE R = "server"
      <4>1. DataOf(SubSeq(up[c], 2, Len(up[c]))) = DataOf(up[c])
        BY <1>13, <2>2, DataFacts
      <4>2. QED
        BY <1>13, <2>3, <3>2, <4>1 DEF d
    <3>3. QED
      BY <1>2, <3>1, <3>2 DEF Sides
  <2>5. \A i \in 1 .. Len(In(S, c)') : In(S, c)'[i] = "ack" => \E j \in 1 .. Len(q) : q[j] = "ack"
    <3>1. CASE S = "client"
      BY <2>3, <3>1 DEF q
    <3>2. CASE S = "server"
      <4> DEFINE e == SubSeq(up[c], 2, Len(up[c]))
      <4>1. \A i \in 1 .. Len(e) : i + 1 \in 1 .. Len(up[c]) /\ e[i] = up[c][i + 1]
        BY <1>13, <2>1
      <4> HIDE DEF e
      <4>2. In(S, c)' = e /\ q = up[c]
        BY <1>13, <2>3, <3>2 DEF e, q
      <4>3. QED
        BY <4>1, <4>2
    <3>3. QED
      BY <1>2, <3>1, <3>2 DEF Sides
  <2>6. QED
    BY <1>12, <1>13, <2>1, <2>4, <2>5
<1>16. QED
  BY <1>7, <1>8, <1>9, <1>10, <1>11, <1>14, <1>15, QuietOrBusy DEF Busy

\* A step keeps what is known of the header of a connection.
LEMMA HeaderStep ==
    ASSUME StreamInv, Next, TypeOK', NEW c \in Clients
    PROVE  Heads(up'[c], pc'["client"][c], pc'["server"][c])
<1> DEFINE u == up[c]
           cl == pc["client"][c]
           sv == pc["server"][c]
           Tr == {"transfer", "final"}
<1>0. PICK S, R : S = Sender(c) /\ R = Receiver(c)
  OBVIOUS
<1>1. /\ TypeOK /\ Heads(u, cl, sv) /\ u \in Seq(UpBytes) /\ cl \in Labels /\ sv \in Labels
      /\ "client" \in Sides /\ "server" \in Sides
  <2>1. TypeOK /\ HeaderInv
    BY DEF StreamInv
  <2>2. Heads(u, cl, sv)
    BY <2>1 DEF HeaderInv, Heads
  <2>3. "client" \in Sides /\ "server" \in Sides
    BY DEF Sides
  <2>4. u \in Seq(UpBytes) /\ cl \in Labels /\ sv \in Labels
    <3>1. up \in [Clients -> Seq(UpBytes)] /\ pc \in [Sides -> [Clients -> Labels]]
      BY <2>1 DEF TypeOK, UpBytes, Labels
    <3>2. QED
      BY <2>3, <3>1
  <2>5. QED
    BY <2>1, <2>2, <2>3, <2>4
<1>2. (R = "server" /\ S = "client") \/ (R = "client" /\ S = "server")
  BY <1>0 DEF Sender, Receiver, Peer
<1>3. ASSUME NEW e, NEW a, NEW b, up'[c] = e, pc'["client"][c] = a, pc'["server"][c] = b,
             Heads(e, a, b)
      PROVE  Heads(up'[c], pc'["client"][c], pc'["server"][c])
  BY <1>3
<1>4. Ended \subseteq Labels /\ "transfer" \in Labels /\ "final" \in Labels /\ "done" \in Labels
      /\ \A l \in Ended \cup Tr : l \in Labels /\ l \notin {"idle", "header"}
  BY DEF Ended, Labels
<1> HIDE DEF u, cl, sv
<1>5. CASE Quiet(c)
  BY <1>1, <1>5 DEF Quiet, Heads, Ended, u, cl, sv
\* The client writes b and goes to l.
<1>6. ASSUME NEW b \in Seq({"fill", "final", "ack"}), NEW l \in Ended \cup Tr, cl \in Tr,
             Queued("server", c, u \o b), pc'["client"][c] = l, pc'["server"][c] = sv
      PROVE  Heads(up'[c], pc'["client"][c], pc'["server"][c])
  <2>1. Heads(u \o b, l, sv)
    BY <1>1, <1>4, <1>6, HeadsFacts
  <2>2. up'[c] = u \o b
    BY <1>6 DEF Queued
  <2>3. QED
    BY <1>6, <2>1, <2>2
\* The server reads k bytes and goes to l.
<1>7. ASSUME NEW k \in 0 .. Len(u), NEW l \in Ended \cup Tr, sv \in Tr,
             Queued("server", c, SubSeq(u, k + 1, Len(u))),
             pc'["server"][c] = l, pc'["client"][c] = cl
      PROVE  Heads(up'[c], pc'["client"][c], pc'["server"][c])
  <2>1. Heads(SubSeq(u, k + 1, Len(u)), cl, l)
    BY <1>1, <1>4, <1>7, HeadsFacts
  <2>2. up'[c] = SubSeq(u, k + 1, Len(u))
    BY <1>7 DEF Queued
  <2>3. QED
    BY <1>7, <2>1, <2>2
\* The queue to the client is used.
<1>8. ASSUME NEW q, Queued("client", c, q), NEW l \in Ended \cup Tr,
             \/ cl \in Tr /\ pc'["client"][c] = l /\ pc'["server"][c] = sv
             \/ sv \in Tr /\ pc'["server"][c] = l /\ pc'["client"][c] = cl
      PROVE  Heads(up'[c], pc'["client"][c], pc'["server"][c])
  <2>1. up'[c] = u
    BY <1>8 DEF Queued, u
  <2>2. (cl \in Tr => Heads(u, l, sv)) /\ (sv \in Tr => Heads(u, cl, l))
    BY <1>1, <1>4, <1>8, HeadsFacts
  <2>3. QED
    BY <1>8, <2>1, <2>2
<1>9. In("server", c) = u
  BY DEF In, u
<1>10. ASSUME NEW k, NEW v, NEW l, NEW r, Sends(c, k, v, l, r)
       PROVE  Heads(up'[c], pc'["client"][c], pc'["server"][c])
  <2>1. /\ pc[S][c] \in Tr /\ l \in Ended \cup Tr /\ Queued(R, c, In(R, c) \o k.b)
        /\ k.b \in Seq({"fill", "final"}) /\ pc'[S][c] = l
    BY <1>0, <1>10 DEF Sends, Moves
  <2>2. pc'[R][c] = pc[R][c]
    BY <1>0, <1>1, <1>2, <1>10 DEF Sends, Moves
  <2>3. k.b \in Seq({"fill", "final", "ack"})
    <3>1. {"fill", "final"} \subseteq {"fill", "final", "ack"}
      OBVIOUS
    <3>2. QED
      BY <2>1, <3>1
  <2>4. CASE R = "server" /\ S = "client"
    BY <1>6, <1>9, <2>1, <2>2, <2>3, <2>4 DEF cl, sv
  <2>5. CASE R = "client" /\ S = "server"
    BY <1>8, <2>1, <2>2, <2>5 DEF cl, sv
  <2>6. QED
    BY <1>2, <2>4, <2>5
<1>11. ASSUME NEW k, NEW v, NEW l, NEW r, Receives(c, k, v, l, r)
       PROVE  Heads(up'[c], pc'["client"][c], pc'["server"][c])
  <2>1. /\ pc[R][c] \in Tr /\ l \in Ended \cup Tr
        /\ k \in Nat /\ k <= Len(In(R, c)) /\ Len(In(R, c)) \in Nat
        /\ Queued(R, c, SubSeq(In(R, c), k + 1, Len(In(R, c)))) /\ pc'[R][c] = l
    BY <1>0, <1>11 DEF Receives, Moves
  <2>2. pc'[S][c] = pc[S][c]
    BY <1>0, <1>1, <1>2, <1>11 DEF Receives, Moves
  <2>3. CASE R = "server" /\ S = "client"
    <3>1. k \in 0 .. Len(u)
      BY <1>9, <2>1, <2>3
    <3>2. QED
      BY <1>7, <1>9, <2>1, <2>2, <2>3, <3>1 DEF cl, sv
  <2>4. CASE R = "client" /\ S = "server"
    BY <1>8, <2>1, <2>2, <2>4 DEF cl, sv
  <2>5. QED
    BY <1>2, <2>3, <2>4
<1>12. ASSUME NEW l, NEW r, ReadsAck(c, l, r)
       PROVE  Heads(up'[c], pc'["client"][c], pc'["server"][c])
  <2>1. /\ pc[S][c] \in Tr /\ l \in Ended \cup Tr /\ In(S, c) \in Seq(Bytes(S)) /\ In(S, c) # <<>>
        /\ Queued(S, c, SubSeq(In(S, c), 2, Len(In(S, c)))) /\ pc'[S][c] = l
    BY <1>0, <1>12 DEF ReadsAck, Moves
  <2>2. pc'[R][c] = pc[R][c]
    BY <1>0, <1>1, <1>2, <1>12 DEF ReadsAck, Moves
  <2>3. CASE S = "server"
    <3>1. 1 \in 0 .. Len(u) /\ 1 + 1 = 2
      BY <1>1, <1>9, <2>1, <2>3
    <3>2. Queued("server", c, SubSeq(u, 1 + 1, Len(u))) /\ pc'["client"][c] = cl /\ sv \in Tr
      BY <1>2, <1>9, <2>1, <2>2, <2>3, <3>1 DEF cl, sv
    <3>3. QED
      BY <1>7, <2>1, <2>3, <3>1, <3>2
  <2>4. CASE S = "client"
    BY <1>2, <1>8, <2>1, <2>2, <2>4 DEF cl, sv
  <2>5. QED
    BY <1>2, <2>3, <2>4
<1>13. ASSUME NEW l, WritesAck(c, l)
       PROVE  Heads(up'[c], pc'["client"][c], pc'["server"][c])
  <2>1. /\ pc[R][c] \in Tr /\ l \in Ended \cup Tr
        /\ Queued(S, c, In(S, c) \o <<"ack">>) /\ pc'[R][c] = l
    BY <1>0, <1>13 DEF WritesAck, Moves
  <2>2. pc'[S][c] = pc[S][c] /\ <<"ack">> \in Seq({"fill", "final", "ack"})
    BY <1>0, <1>1, <1>2, <1>13 DEF WritesAck, Moves
  <2>3. CASE S = "server"
    BY <1>2, <1>6, <1>9, <2>1, <2>2, <2>3 DEF cl, sv
  <2>4. CASE S = "client"
    BY <1>2, <1>8, <2>1, <2>2, <2>4 DEF cl, sv
  <2>5. QED
    BY <1>2, <2>3, <2>4
<1>14. CASE WritesHeader(c)
  <2>1. /\ cl = "header" /\ up'[c] = u \o <<"header">> /\ pc'["client"][c] = "transfer"
        /\ pc'["server"][c] = sv
    BY <1>1, <1>14 DEF WritesHeader, Queued, Moves, u, cl, sv
  <2>2. Heads(u \o <<"header">>, "transfer", sv)
    BY <1>1, <2>1, HeadsFacts
  <2>3. QED
    BY <2>1, <2>2
<1>15. CASE ReadsHeader(c)
  <2>1. /\ sv = "header" /\ u # <<>> /\ up'[c] = SubSeq(u, 2, Len(u)) /\ pc'["client"][c] = cl
        /\ pc'["server"][c] = "transfer"
    BY <1>1, <1>15 DEF ReadsHeader, Queued, Moves, u, cl, sv
  <2>2. Heads(SubSeq(u, 2, Len(u)), cl, "transfer")
    BY <1>1, <2>1, HeadsFacts
  <2>3. QED
    BY <2>1, <2>2
<1>16. QED
  BY <1>5, <1>10, <1>11, <1>12, <1>13, <1>14, <1>15, QuietOrBusy DEF Busy

-----------------------------------------------------------------------------
(* The server.                                                             *)

Served == {c \in Clients : pc["server"][c] \in Serving}

\* What a goroutine of a connection leaves to the server.
Leaves(c) ==
    /\ UNCHANGED serverVars /\ Served' = Served
    /\ \A d \in Clients :
          /\ pc'["client"][d] = "idle" => pc["client"][d] = "idle"
          /\ pc["server"][d] = "idle" => pc'["server"][d] = "idle"
    /\ \/ backlog' = backlog
       \/ backlog' = backlog \cup {c} /\ pc["client"][c] = "idle" /\ pc'["client"][c] # "idle"

\* A step of a connection neither begins nor ends to serve one.
LEMMA ConnLeaves ==
    ASSUME TypeOK, NEW c \in Clients, ConnStep(c)
    PROVE  Leaves(c)
<1>1. "client" \in Sides /\ "server" \in Sides /\ Sender(c) \in Sides /\ Receiver(c) \in Sides
  BY TransferFacts DEF Sides
<1> DEFINE Tr == {"header", "transfer", "final"}
<1>2. Tr \subseteq Serving /\ "idle" \notin Tr /\ "idle" \notin Ended /\ Ended \ {"done"} \subseteq Serving
      /\ {"transfer", "final"} \subseteq Tr
  BY DEF Serving, Ended
<1>3. ASSUME NEW side \in Sides, NEW l, NEW r, Moves(side, c, l, r),
             pc[side][c] \in Tr, l \in Tr \cup Ended, side = "server" => l # "done",
             UNCHANGED serverVars, backlog' = backlog
      PROVE  Leaves(c)
  <2>1. ASSUME NEW d \in Clients
        PROVE  /\ pc'["server"][d] \in Serving <=> pc["server"][d] \in Serving
               /\ pc'["client"][d] = "idle" => pc["client"][d] = "idle"
               /\ pc["server"][d] = "idle" => pc'["server"][d] = "idle"
    <3>1. CASE d = c /\ side = "server"
      BY <1>1, <1>2, <1>3, <3>1 DEF Moves
    <3>2. CASE d = c /\ side = "client"
      BY <1>1, <1>2, <1>3, <3>2 DEF Moves
    <3>3. CASE d # c
      BY <1>1, <1>3, <3>3 DEF Moves
    <3>4. QED
      BY <3>1, <3>2, <3>3 DEF Sides
  <2>2. Served' = Served
    BY <2>1 DEF Served
  <2>3. QED
    BY <1>3, <2>1, <2>2 DEF Leaves
<1>4. ASSUME NEW k, NEW v, NEW l, NEW r, Sends(c, k, v, l, r) PROVE Leaves(c)
  BY <1>1, <1>2, <1>3, <1>4 DEF Sends
<1>5. ASSUME NEW k, NEW v, NEW l, NEW r, Receives(c, k, v, l, r) PROVE Leaves(c)
  BY <1>1, <1>2, <1>3, <1>5 DEF Receives
<1>6. ASSUME NEW l, NEW r, ReadsAck(c, l, r) PROVE Leaves(c)
  BY <1>1, <1>2, <1>3, <1>6 DEF ReadsAck
<1>7. ASSUME NEW l, WritesAck(c, l) PROVE Leaves(c)
  BY <1>1, <1>2, <1>3, <1>7 DEF WritesAck
<1>8. CASE WritesHeader(c) \/ ReadsHeader(c)
  BY <1>1, <1>2, <1>3, <1>8 DEF WritesHeader, ReadsHeader
<1>9. ASSUME NEW side \in Sides, NEW l \in Ended, Fails(side, c, l) PROVE Leaves(c)
  BY <1>2, <1>3, <1>9 DEF Fails
<1>10. ASSUME NEW l, NEW r, Dials(c, l, r) PROVE Leaves(c)
  <2>1. \A d \in Clients : pc'["server"][d] = pc["server"][d]
    BY <1>1, <1>10 DEF Dials, Moves
  <2>2. pc'["client"][c] # "idle" /\ pc["client"][c] = "idle"
    BY <1>2, <1>10 DEF Dials, Moves
  <2>3. \A d \in Clients : d # c => pc'["client"][d] = pc["client"][d]
    BY <1>1, <1>10 DEF Dials, Moves
  <2>4. Served' = Served
    BY <2>1 DEF Served
  <2>5. UNCHANGED serverVars /\ (backlog' = backlog \/ backlog' = backlog \cup {c})
    BY <1>10 DEF Dials
  <2>6. QED
    BY <2>1, <2>2, <2>3, <2>4, <2>5 DEF Leaves
<1>11. QED
  BY <1>4, <1>5, <1>6, <1>7, <1>8, <1>9, <1>10 DEF ConnStep

\* Every step keeps ServerInv, and the count of goroutines.
LEMMA ServerInvStep ==
    ASSUME StreamInv, Next
    PROVE  ServerInv' /\ ServesWhileAccepting'
<1>1. TypeOK /\ ServerInv /\ FlowInv /\ ServesWhileAccepting
  BY DEF StreamInv
<1>2. ServesWhileAccepting =
         (accept \in {"accept", "cc"} => main = "select" /\ g = 1 + Cardinality(Served))
  BY DEF ServesWhileAccepting, Served
<1>3. ServesWhileAccepting' =
         (accept' \in {"accept", "cc"} => main' = "select" /\ g' = 1 + Cardinality(Served'))
  BY DEF ServesWhileAccepting, Served
<1>4. /\ (main = "select" <=> g > 0) /\ (accept = "cc" => accepted \in Clients)
      /\ \A c \in Clients :
            /\ pc["client"][c] = "idle" => c \notin backlog /\ ~(accept = "cc" /\ accepted = c)
            /\ c \in backlog => ~(accept = "cc" /\ accepted = c)
            /\ pc["client"][c] = "idle" \/ c \in backlog \/ (accept = "cc" /\ accepted = c) =>
                  pc["server"][c] = "idle"
      /\ accept \in {"accept", "cc"} => IsFiniteSet(Served)
  BY <1>1 DEF ServerInv, Served
<1>5. ASSUME main' = "select" <=> g' > 0, accept' = "cc" => accepted' \in Clients,
             \A c \in Clients :
                /\ pc'["client"][c] = "idle" => c \notin backlog' /\ ~(accept' = "cc" /\ accepted' = c)
                /\ c \in backlog' => ~(accept' = "cc" /\ accepted' = c)
                /\ pc'["client"][c] = "idle" \/ c \in backlog' \/ (accept' = "cc" /\ accepted' = c) =>
                      pc'["server"][c] = "idle",
             accept' \in {"accept", "cc"} => IsFiniteSet(Served')
      PROVE  ServerInv'
  BY <1>5 DEF ServerInv, Served
<1>6. ASSUME NEW c \in Clients, Leaves(c) PROVE ServerInv' /\ ServesWhileAccepting'
  <2>1. UNCHANGED serverVars /\ Served' = Served
    BY <1>6 DEF Leaves
  <2>2. UNCHANGED <<accept, accepted, main, g, canceled>>
    BY <2>1 DEF serverVars
  <2>3. ASSUME NEW d \in Clients
        PROVE  /\ pc'["client"][d] = "idle" => d \notin backlog' /\ ~(accept = "cc" /\ accepted = d)
               /\ d \in backlog' => ~(accept = "cc" /\ accepted = d)
               /\ pc'["client"][d] = "idle" \/ d \in backlog' \/ (accept = "cc" /\ accepted = d) =>
                     pc'["server"][d] = "idle"
    BY <1>4, <1>6, <2>3 DEF Leaves
  <2>4. ServerInv'
    BY <1>4, <1>5, <2>1, <2>2, <2>3
  <2>5. ServesWhileAccepting'
    BY <1>1, <1>2, <1>3, <2>1, <2>2
  <2>6. QED
    BY <2>4, <2>5
<1>7. CASE Still
  <2>1. UNCHANGED <<pc, backlog, accept, accepted, main, g, canceled>>
    BY <1>7 DEF Still, serverVars
  <2>2. Served' = Served
    BY <2>1 DEF Served
  <2>3. ServerInv'
    BY <1>4, <1>5, <2>1, <2>2
  <2>4. ServesWhileAccepting'
    BY <1>1, <1>2, <1>3, <2>1, <2>2
  <2>5. QED
    BY <2>3, <2>4
<1>8. pc \in [Sides -> [Clients -> Labels]] /\ "server" \in Sides /\ "client" \in Sides
      /\ {"header", "done", "errDone"} \subseteq Labels /\ g \in Nat
  BY <1>1 DEF TypeOK, Labels, Sides
<1>9. ASSUME NEW c \in Clients, NEW l \in {"header", "done", "errDone"}, Goto("server", c, l)
      PROVE  /\ pc'["server"][c] = l
             /\ \A d \in Clients : pc'["client"][d] = pc["client"][d]
             /\ \A d \in Clients : d # c => pc'["server"][d] = pc["server"][d]
  BY <1>8, <1>9, GotoFacts
<1>10. CASE AcceptFails
  <2>1. accept' = "error" /\ accept = "accept" /\ UNCHANGED <<pc, backlog, main, g>>
    BY <1>10 DEF AcceptFails, connVars
  <2>2. QED
    BY <1>3, <1>4, <1>5, <2>1
<1>11. CASE MainServes
  <2>1. main = "select" /\ accept = "cc" /\ accept' = "accept" /\ UNCHANGED <<main, canceled, backlog>>
    BY <1>11 DEF MainServes
  <2>2. CASE canceled
    <3>1. UNCHANGED <<pc, g>>
      BY <1>11, <2>2 DEF MainServes
    <3>2. Served' = Served
      BY <3>1 DEF Served
    <3>3. ServesWhileAccepting'
      BY <1>1, <1>2, <1>3, <2>1, <3>1, <3>2
    <3>4. ServerInv'
      BY <1>4, <1>5, <2>1, <3>1, <3>2
    <3>5. QED
      BY <3>3, <3>4
  <2>3. CASE ~canceled
    <3>1. Goto("server", accepted, "header") /\ g' = g + 1 /\ accepted \in Clients
      BY <1>4, <1>11, <2>1, <2>3 DEF MainServes
    <3>2. /\ pc'["server"][accepted] = "header" /\ pc["server"][accepted] = "idle"
          /\ \A d \in Clients : pc'["client"][d] = pc["client"][d]
          /\ \A d \in Clients : d # accepted => pc'["server"][d] = pc["server"][d]
      BY <1>4, <1>9, <2>1, <3>1
    <3>3. Served' = Served \cup {accepted} /\ accepted \notin Served
      BY <3>1, <3>2 DEF Served, Serving
    <3>4. IsFiniteSet(Served) /\ g = 1 + Cardinality(Served)
      BY <1>1, <1>2, <1>4, <2>1
    <3>5. IsFiniteSet(Served') /\ Cardinality(Served') = Cardinality(Served) + 1
      BY <3>3, <3>4, FS_AddElement
    <3>6. Cardinality(Served) \in Nat
      BY <3>4, FS_CardinalityType
    <3>7. ServesWhileAccepting'
      <4>1. g' = 1 + Cardinality(Served')
        BY <3>1, <3>4, <3>5, <3>6
      <4>2. QED
        BY <1>3, <2>1, <4>1
    <3>8. \A d \in Clients :
             /\ pc'["client"][d] = "idle" => d \notin backlog'
             /\ pc'["client"][d] = "idle" \/ d \in backlog' => pc'["server"][d] = "idle"
      BY <1>4, <2>1, <3>1, <3>2
    <3>9. main' = "select" <=> g' > 0
      BY <1>4, <1>8, <2>1, <3>1
    <3>10. ServerInv'
      BY <1>5, <2>1, <3>5, <3>8, <3>9
    <3>11. QED
      BY <3>7, <3>10
  <2>4. QED
    BY <2>2, <2>3
<1>12. CASE MainCancels
  <2>1. backlog' = {} /\ UNCHANGED <<pc, accept, accepted, main, g>>
    BY <1>12 DEF MainCancels
  <2>2. Served' = Served
    BY <2>1 DEF Served
  <2>3. ServesWhileAccepting'
    BY <1>1, <1>2, <1>3, <2>1, <2>2
  <2>4. ServerInv'
    BY <1>4, <1>5, <2>1, <2>2
  <2>5. QED
    BY <2>3, <2>4
<1>13. CASE MainError
  <2>1. UNCHANGED <<backlog, accepted, main, g, canceled>>
    BY <1>13 DEF MainError, connVars
  <2>2. CASE accept = "error" /\ accept' = "errDone" /\ UNCHANGED pc
    BY <1>3, <1>4, <1>5, <2>1, <2>2
  <2>3. ASSUME NEW c \in Clients, pc["server"][c] = "error", Goto("server", c, "errDone"),
               UNCHANGED accept
        PROVE  ServerInv' /\ ServesWhileAccepting'
    <3>1. /\ pc'["server"][c] = "errDone"
          /\ \A d \in Clients : pc'["client"][d] = pc["client"][d]
          /\ \A d \in Clients : d # c => pc'["server"][d] = pc["server"][d]
      BY <1>9, <2>3
    <3>2. Served' = Served
      BY <2>3, <3>1 DEF Served, Serving
    <3>3. ServesWhileAccepting'
      BY <1>1, <1>2, <1>3, <2>1, <2>3, <3>2
    <3>4. ServerInv'
      BY <1>4, <1>5, <2>1, <2>3, <3>1, <3>2
    <3>5. QED
      BY <3>3, <3>4
  <2>4. QED
    BY <1>13, <2>2, <2>3 DEF MainError
<1>14. CASE MainDone
  <2>1. /\ main = "select" /\ g' = g - 1 /\ main' = IF g' = 0 THEN "done" ELSE "select"
        /\ UNCHANGED <<backlog, accept, accepted, canceled>>
    BY <1>14 DEF MainDone, connVars
  <2>2. g > 0 /\ g' \in Nat /\ (main' = "select" <=> g' > 0)
    BY <1>4, <1>8, <2>1
  <2>3. CASE accept = "errDone" /\ UNCHANGED pc
    BY <1>3, <1>4, <1>5, <2>1, <2>2, <2>3
  <2>4. ASSUME NEW c \in Clients, pc["server"][c] = "errDone", Goto("server", c, "done")
        PROVE  ServerInv' /\ ServesWhileAccepting'
    <3>1. /\ pc'["server"][c] = "done"
          /\ \A d \in Clients : pc'["client"][d] = pc["client"][d]
          /\ \A d \in Clients : d # c => pc'["server"][d] = pc["server"][d]
      BY <1>9, <2>4
    <3>2. Served' = Served \ {c} /\ c \in Served
      BY <2>4, <3>1 DEF Served, Serving
    <3>3. accept \in {"accept", "cc"} =>
             IsFiniteSet(Served') /\ main' = "select" /\ g' = 1 + Cardinality(Served')
      <4>1. SUFFICES ASSUME accept \in {"accept", "cc"}
                     PROVE  IsFiniteSet(Served') /\ main' = "select" /\ g' = 1 + Cardinality(Served')
        OBVIOUS
      <4>2. IsFiniteSet(Served) /\ g = 1 + Cardinality(Served)
        BY <1>1, <1>2, <1>4, <4>1
      <4>3. IsFiniteSet(Served') /\ Cardinality(Served') = Cardinality(Served) - 1
        BY <3>2, <4>2, FS_RemoveElement
      <4>4. Cardinality(Served) \in Nat /\ Cardinality(Served') \in Nat
        BY <4>2, <4>3, FS_CardinalityType
      <4>5. QED
        BY <2>1, <4>2, <4>3, <4>4
    <3>4. ServesWhileAccepting'
      BY <1>3, <2>1, <3>3
    <3>5. ServerInv'
      BY <1>4, <1>5, <2>1, <2>2, <2>4, <3>1, <3>3
    <3>6. QED
      BY <3>4, <3>5
  <2>5. QED
    BY <1>14, <2>3, <2>4 DEF MainDone
<1>15. ASSUME NEW c \in Clients, Accept(c) PROVE ServerInv' /\ ServesWhileAccepting'
  <2>1. /\ accept = "accept" /\ ~canceled /\ c \in backlog /\ backlog' = backlog \ {c}
        /\ accept' = "cc" /\ accepted' = c /\ UNCHANGED <<pc, main, g, canceled>>
    BY <1>15 DEF Accept
  <2>2. Served' = Served
    BY <2>1 DEF Served
  <2>3. ServesWhileAccepting'
    BY <1>1, <1>2, <1>3, <2>1, <2>2
  <2>4. ServerInv'
    BY <1>4, <1>5, <2>1, <2>2
  <2>5. QED
    BY <2>3, <2>4
<1>16. QED
  BY <1>1, <1>6, <1>7, <1>10, <1>11, <1>12, <1>13, <1>14, <1>15, ConnLeaves, Steps DEF ServerMoves

-----------------------------------------------------------------------------
(* The theorems.                                                           *)

\* The invariant holds when StreamServer.Run has returned.
LEMMA InitInv ==
    ASSUME Init
    PROVE  StreamInv
<1>1. x \in [Clients -> Transfer \cup {NoTransfer}] /\ x \in Transfers
  BY StreamAssumption DEF Init
<1>2. TypeOK
  <2>1. pc \in [Sides -> [Clients -> {"idle", "header", "transfer", "final",
                                      "error", "errDone", "done"}]]
    BY DEF Init
  <2>2. res \in [Sides -> [Clients -> {"none", "ok", "error"}]]
    BY DEF Init
  <2>3. up \in [Clients -> Seq({"header", "fill", "final", "ack"})]
    BY DEF Init
  <2>4. down \in [Clients -> Seq({"fill", "final", "ack"})]
    BY DEF Init
  <2>5. \A c \in Clients : Len(up[c]) <= SockBuf /\ Len(down[c]) <= SockBuf
    BY StreamAssumption DEF Init
  <2>6. {sent, rcvd} \subseteq [Clients -> [l : Nat, io : Nat]]
    BY DEF Init
  <2>7. closed \in [Clients -> SUBSET Sides] /\ watch \in [Clients -> {"off", "watch", "timer", "done"}]
    BY DEF Init
  <2>8. QED
    BY <1>1, <2>1, <2>2, <2>3, <2>4, <2>5, <2>6, <2>7 DEF Init, TypeOK
<1>3. "client" \in Sides /\ "server" \in Sides
  BY DEF Sides
<1>4. \A c \in Clients, side \in Sides :
         pc[side][c] = (IF x[c] = NoTransfer THEN "done" ELSE "idle") /\ res[side][c] = "none"
  BY DEF Init
<1>5. Served = {}
  BY <1>3, <1>4 DEF Served, Serving
<1>6. IsFiniteSet({}) /\ Cardinality({}) = 0
  BY FS_EmptySet
<1>7. ServesWhileAccepting
  <2>1. g = 1 + Cardinality(Served) /\ main = "select" /\ accept \in {"accept", "cc"}
    BY <1>5, <1>6 DEF Init
  <2>2. QED
    BY <2>1 DEF ServesWhileAccepting, Served
<1>8. ServerInv
  <2>1. /\ main = "select" /\ g = 1 /\ accept = "accept" /\ backlog = {}
    BY DEF Init
  <2>2. \A c \in Clients : pc["client"][c] = "idle" => pc["server"][c] = "idle"
    BY <1>3, <1>4
  <2>3. IsFiniteSet({c \in Clients : pc["server"][c] \in Serving})
    BY <1>5, <1>6 DEF Served
  <2>4. QED
    BY <2>1, <2>2, <2>3 DEF ServerInv
<1>9. \A c \in Clients : up[c] = <<>> /\ down[c] = <<>> /\ sent[c] = [l |-> 0, io |-> 0] /\ rcvd[c] = sent[c]
  BY DEF Init
<1>10. HeaderInv
  <2>1. \A c \in Clients :
           /\ pc["client"][c] \notin {"transfer", "final"}
           /\ pc["server"][c] \notin {"transfer", "final"} /\ Len(up[c]) = 0
    BY <1>3, <1>4, <1>9
  <2>2. QED
    BY <1>9, <2>1 DEF HeaderInv, HasHeader
<1>11. ASSUME NEW c \in Clients PROVE FlowAt(c)
  <2>1. Sender(c) \in Sides /\ Receiver(c) \in Sides /\ x[c].length \in Nat
    BY <1>2, TransferFacts
  <2>2. In(Sender(c), c) = <<>> /\ In(Receiver(c), c) = <<>>
    BY <1>9 DEF In
  <2>3. DataOf(<<>>) = <<>> /\ Len(<<>>) = 0
    BY DEF DataOf, HasHeader
  <2>4. pc[Sender(c)][c] \in Begins => x[c] # NoTransfer
    BY <1>4, <2>1 DEF Begins
  <2>5. pc[Receiver(c)][c] # "final" /\ res[Sender(c)][c] # "ok" /\ res[Receiver(c)][c] # "ok"
    BY <1>4, <2>1
  <2>6. Sums(x[c], sent[c], rcvd[c], <<>>, <<>>, pc[Sender(c)][c], pc[Receiver(c)][c],
             res[Sender(c)][c], res[Receiver(c)][c])
    BY <1>9, <2>1, <2>3, <2>5 DEF Sums
  <2>7. QED
    BY <2>2, <2>3, <2>6 DEF FlowAt
<1>12. FlowInv
  BY <1>2, <1>11, FlowUnfold
<1>13. QED
  BY <1>2, <1>7, <1>8, <1>10, <1>12 DEF StreamInv

\* Every step keeps the invariant.
LEMMA StepInv ==
    ASSUME StreamInv, [Next]_vars
    PROVE  StreamInv'
<1>1. CASE Next
  <2>1. TypeOK'
    BY <1>1, TypeStep
  <2>2. \A c \in Clients : FlowAt(c)'
    BY <1>1, <2>1, FlowStep
  <2>3. FlowInv'
    BY <2>1, <2>2, FlowUnfoldNext
  <2>4. HeaderInv'
    <3>1. \A c \in Clients : Heads(up'[c], pc'["client"][c], pc'["server"][c])
      BY <1>1, <2>1, HeaderStep
    <3>2. QED
      BY <3>1 DEF HeaderInv, Heads
  <2>5. ServerInv' /\ ServesWhileAccepting'
    BY <1>1, ServerInvStep
  <2>6. QED
    BY <2>1, <2>3, <2>4, <2>5 DEF StreamInv
<1>2. CASE UNCHANGED vars
  <2>1. UNCHANGED <<x, ctx, pc, res, watch, up, down, closed, broken, backlog, sent, rcvd,
                    accept, accepted, dones, main, g, canceled>>
    BY <1>2 DEF vars, connVars, serverVars
  <2>2. TypeOK'
    BY <2>1 DEF StreamInv, TypeOK
  <2>3. ServesWhileAccepting' /\ ServerInv'
    BY <2>1 DEF StreamInv, ServesWhileAccepting, ServerInv
  <2>4. HeaderInv'
    BY <2>1 DEF StreamInv, HeaderInv
  <2>5. FlowInv'
    <3>1. ASSUME NEW c \in Clients PROVE FlowAt(c)'
      <4>1. FlowAt(c)
        BY FlowUnfold DEF StreamInv
      <4>2. Sender(c)' = Sender(c) /\ Receiver(c)' = Receiver(c)
        BY <2>1 DEF Sender, Receiver
      <4>3. In(Sender(c), c)' = In(Sender(c), c) /\ In(Receiver(c), c)' = In(Receiver(c), c)
        BY <2>1, <4>2 DEF In
      <4>4. QED
        BY <2>1, <4>1, <4>2, <4>3 DEF FlowAt
    <3>2. QED
      BY <2>2, <3>1, FlowUnfoldNext
  <2>6. QED
    BY <2>2, <2>3, <2>4, <2>5 DEF StreamInv
<1>3. QED
  BY <1>1, <1>2

\* The invariant holds always: in particular the types, and that the bytes of
\* a transfer are neither lost nor made up, whatever becomes of the two sides.
THEOREM StreamCorrect == Spec => []StreamInv
<1>1. Init => StreamInv
  BY InitInv
<1>2. StreamInv /\ [Next]_vars => StreamInv'
  BY StepInv
<1>3. QED
  BY <1>1, <1>2, PTL DEF Spec

\* A Transfer that ends well on either side has arrived as a whole, and both
\* sides have recorded that (Transfer.send and Transfer.receive).
THEOREM TransferCompleteAlways == Spec => []TransferComplete
<1>1. StreamInv => TransferComplete
  BY DEF StreamInv, FlowInv, Arrived, SentAll, TransferComplete
<1>2. QED
  BY <1>1, StreamCorrect, PTL

\* StreamServer counts its goroutines right, and serves as long as its accept
\* goroutine goes on.
THEOREM ServesWhileAcceptingAlways == Spec => []ServesWhileAccepting
<1>1. StreamInv => ServesWhileAccepting
  BY DEF StreamInv
<1>2. QED
  BY <1>1, StreamCorrect, PTL
=============================================================================
