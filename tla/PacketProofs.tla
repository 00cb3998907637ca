---------------------------- MODULE PacketProofs ----------------------------
(***************************************************************************)
(* Proofs of the safety properties of Packet, for any number of clients,   *)
(* any Senders, and any network.                                           *)
(***************************************************************************)
EXTENDS Packet, WellFoundedInduction, SequenceTheorems, TLAPS

-----------------------------------------------------------------------------
(* The times of a Sender, by induction: the least counterexample.          *)

\* A set of natural numbers has a smallest one.
LEMMA Smallest ==
    ASSUME NEW T \in SUBSET Nat, T # {}
    PROVE  \E x \in T : \A y \in T : x <= y
<1>1. IsWellFoundedOn(OpToRel(<, Nat), Nat)
  BY NatLessThanWellFounded
<1>2. PICK x \in T : \A y \in T : ~(<<y, x>> \in OpToRel(<, Nat))
  BY <1>1, WFMin
<1>3. \A y \in T : ~(y < x)
  BY <1>2 DEF OpToRel
<1>4. QED
  BY <1>3

\* What is 0, and n + 1 whenever it is n < N, is all that is at most N.
LEMMA UpTo ==
    ASSUME NEW N \in Nat, NEW T \in SUBSET Nat, 0 \in T,
           \A n \in T : n < N => n + 1 \in T
    PROVE  \A n \in Nat : n <= N => n \in T
<1> DEFINE B == {n \in Nat : n <= N /\ n \notin T}
<1>1. SUFFICES ASSUME B # {} PROVE FALSE
  OBVIOUS
<1>2. PICK x \in B : \A y \in B : x <= y
  BY <1>1, Smallest
<1>3. x # 0 /\ x - 1 \in Nat /\ x - 1 < N /\ x - 1 < x /\ x \in Nat
  BY <1>2
<1>4. x - 1 \in T
  BY <1>2, <1>3
<1>5. (x - 1) + 1 \in T
  BY <1>3, <1>4
<1>6. QED
  BY <1>2, <1>3, <1>5

\* A Sender that Validate accepts, as PacketAssumption has it.
Sends(s) == s \in Sender /\ s.Wait # <<>> /\ \A j \in DOMAIN s.Wait : s.Wait[j] > 0

\* The Wait before call k.
WaitAt(s, k) == s.Wait[(k % Len(s.Wait)) + 1]

\* Every Wait is positive.
LEMMA WaitFacts ==
    ASSUME NEW s, Sends(s), NEW k \in Nat
    PROVE  WaitAt(s, k) \in Nat /\ WaitAt(s, k) > 0 /\ Len(s.Wait) \in Nat \ {0}
<1> DEFINE n == Len(s.Wait)
<1>1. s.Wait \in Seq(Nat) /\ s.Wait # <<>>
  BY DEF Sends, Sender
<1>2. n \in Nat /\ n > 0 /\ DOMAIN s.Wait = 1 .. n /\ \A j \in 1 .. n : s.Wait[j] \in Nat
  BY <1>1, EmptySeq
<1> HIDE DEF n
<1>3. (k % n) \in 0 .. n - 1
  BY <1>2
<1>4. (k % n) + 1 \in 1 .. n
  BY <1>2, <1>3
<1> DEFINE i == (k % n) + 1
<1> HIDE DEF i
<1>5. i \in 1 .. n /\ s.Wait[i] \in Nat /\ s.Wait[i] > 0
  BY <1>2, <1>4 DEF Sends, i
<1>6. QED
  BY <1>2, <1>5 DEF WaitAt, i, n

\* Division with remainder, of n * q + r.
LEMMA Remainder ==
    ASSUME NEW n \in Nat, n > 0, NEW q \in Nat, NEW r \in Nat, r < n
    PROVE  (n * q + r) % n = r
OBVIOUS

\* Counting on from the remainder is counting on from the number.
LEMMA Cycle ==
    ASSUME NEW n \in Nat, n > 0, NEW k \in Nat
    PROVE  ((k % n) + 1) % n = (k + 1) % n
<1> DEFINE q == k \div n
           r == k % n
<1>1. k = n * q + r
  OBVIOUS
<1>2. q \in Nat /\ r \in Nat /\ r < n
  OBVIOUS
<1> HIDE DEF q, r
<1>3. CASE r + 1 < n
  <2>1. k + 1 = n * q + (r + 1) /\ r + 1 \in Nat
    BY <1>1, <1>2
  <2>2. (k + 1) % n = r + 1
    BY <1>2, <1>3, <2>1, Remainder
  <2>3. (r + 1) % n = r + 1
    BY <1>2, <1>3
  <2>4. QED
    BY <2>2, <2>3 DEF r
<1>4. CASE r + 1 = n
  <2>1. k + 1 = n * (q + 1) + 0 /\ q + 1 \in Nat
    BY <1>1, <1>2, <1>4
  <2>2. (k + 1) % n = 0
    BY <2>1, Remainder
  <2>3. (r + 1) % n = 0
    BY <1>4
  <2>4. QED
    BY <2>2, <2>3 DEF r
<1>5. QED
  BY <1>2, <1>3, <1>4

\* g has the first k times.
SumsTo(s, g, k) == g[0] = 0 /\ \A i \in 1 .. k : g[i] = g[i - 1] + WaitAt(s, i - 1)

\* At is what its recursive definition says.
LEMMA AtSums ==
    ASSUME NEW s, Sends(s)
    PROVE  At(s) \in [0 .. s.Duration + 1 -> Nat] /\ SumsTo(s, At(s), s.Duration + 1)
<1> DEFINE N == s.Duration + 1
           T == {k \in Nat : k <= N => \E g \in [0 .. N -> Nat] : SumsTo(s, g, k)}
<1>1. N \in Nat
  BY DEF Sends, Sender
<1> HIDE DEF N
<1>2. 0 \in T
  <2>1. [i \in 0 .. N |-> 0] \in [0 .. N -> Nat] /\ 0 \in 0 .. N
    BY <1>1
  <2>2. SumsTo(s, [i \in 0 .. N |-> 0], 0)
    BY <2>1 DEF SumsTo
  <2>3. QED
    BY <2>1, <2>2
<1>3. ASSUME NEW k \in T, k < N PROVE k + 1 \in T
  <2>1. k \in Nat /\ k + 1 \in 0 .. N /\ k \in 0 .. N
    BY <1>1, <1>3
  <2>2. PICK g \in [0 .. N -> Nat] : SumsTo(s, g, k)
    BY <1>1, <1>3, <2>1
  <2> DEFINE a == g[k] + WaitAt(s, k)
             h == [g EXCEPT ![k + 1] = a]
  <2>3. a \in Nat
    <3>1. WaitAt(s, k) \in Nat /\ g[k] \in Nat
      BY <2>1, <2>2, WaitFacts
    <3>2. QED
      BY <3>1
  <2> HIDE DEF a
  <2>4. h \in [0 .. N -> Nat] /\ h[k + 1] = a /\ \A i \in 0 .. k : h[i] = g[i]
    BY <1>1, <2>1, <2>3
  <2> HIDE DEF h
  <2>5. ASSUME NEW i \in 1 .. k + 1 PROVE h[i] = h[i - 1] + WaitAt(s, i - 1)
    <3>1. CASE i = k + 1
      <4>1. i - 1 = k /\ k \in 0 .. k
        BY <2>1, <3>1
      <4>2. QED
        BY <2>4, <3>1, <4>1 DEF a
    <3>2. CASE i \in 1 .. k
      <4>1. i - 1 \in 0 .. k /\ i \in 0 .. k
        BY <2>1, <3>2
      <4>2. QED
        BY <2>2, <2>4, <3>2, <4>1 DEF SumsTo
    <3>3. QED
      BY <2>1, <3>1, <3>2
  <2>6. h[0] = 0
    <3>1. 0 \in 0 .. k
      BY <2>1
    <3>2. QED
      BY <2>2, <2>4, <3>1 DEF SumsTo
  <2>7. SumsTo(s, h, k + 1)
    BY <2>5, <2>6 DEF SumsTo
  <2>8. QED
    BY <2>1, <2>4, <2>7
<1>4. N \in T
  <2>1. T \in SUBSET Nat /\ N \in 0 .. N
    BY <1>1
  <2> HIDE DEF T
  <2>2. QED
    BY <1>1, <1>2, <1>3, <2>1, UpTo
<1>5. PICK g \in [0 .. N -> Nat] : SumsTo(s, g, N)
  BY <1>1, <1>4
<1>6. g = [k \in 0 .. N |-> IF k = 0 THEN 0 ELSE g[k - 1] + s.Wait[((k - 1) % Len(s.Wait)) + 1]]
  <2>1. ASSUME NEW k \in 0 .. N
        PROVE  g[k] = IF k = 0 THEN 0 ELSE g[k - 1] + s.Wait[((k - 1) % Len(s.Wait)) + 1]
    <3>1. k # 0 => k \in 1 .. N
      BY <1>1
    <3>2. QED
      BY <1>5, <3>1 DEF SumsTo, WaitAt
  <2>2. QED
    BY <2>1
<1> DEFINE c == At(s)
<1>7. c = [k \in 0 .. N |-> IF k = 0 THEN 0 ELSE c[k - 1] + s.Wait[((k - 1) % Len(s.Wait)) + 1]]
  BY <1>6 DEF At, N
<1> HIDE DEF c
<1>8. SumsTo(s, c, N)
  <2>1. c[0] = 0
    BY <1>1, <1>7
  <2>2. ASSUME NEW i \in 1 .. N PROVE c[i] = c[i - 1] + WaitAt(s, i - 1)
    <3>1. i \in 0 .. N /\ i # 0
      BY <1>1
    <3>2. QED
      BY <1>7, <3>1 DEF WaitAt
  <2>3. QED
    BY <2>1, <2>2 DEF SumsTo
<1> DEFINE U == {k \in Nat : k <= N => c[k] \in Nat}
<1>9. \A k \in Nat : k <= N => k \in U
  <2>1. 0 \in U
    BY <1>8 DEF SumsTo
  <2>2. ASSUME NEW k \in U, k < N PROVE k + 1 \in U
    <3>1. k \in Nat /\ c[k] \in Nat /\ k + 1 \in 1 .. N /\ (k + 1) - 1 = k
      BY <1>1, <2>2
    <3>2. c[k + 1] = c[k] + WaitAt(s, k)
      BY <1>8, <3>1 DEF SumsTo
    <3>3. WaitAt(s, k) \in Nat
      BY <3>1, WaitFacts
    <3>4. QED
      BY <3>1, <3>2, <3>3
  <2>3. U \in SUBSET Nat
    OBVIOUS
  <2> HIDE DEF U
  <2>4. QED
    BY <1>1, <2>1, <2>2, <2>3, UpTo
<1>10. c \in [0 .. N -> Nat]
  <2>1. \A k \in 0 .. N : c[k] \in Nat
    BY <1>1, <1>9
  <2>2. DOMAIN c = 0 .. N /\ c = [k \in 0 .. N |-> c[k]]
    BY <1>7
  <2>3. QED
    BY <2>1, <2>2
<1>11. QED
  BY <1>8, <1>10 DEF c, N

\* The times start at 0 and grow, by one at least from each to the next.
LEMMA AtFacts ==
    ASSUME NEW s, Sends(s)
    PROVE  /\ s.Duration \in Nat
           /\ At(s)[0] = 0
           /\ \A k \in 0 .. s.Duration + 1 : At(s)[k] \in Nat /\ At(s)[k] >= k
           /\ \A k \in 0 .. s.Duration : At(s)[k + 1] = At(s)[k] + WaitAt(s, k)
           /\ \A k \in 0 .. s.Duration + 1 : \A m \in 0 .. k - 1 : At(s)[m] < At(s)[k]
<1> DEFINE N == s.Duration + 1
           at == At(s)
<1>1. s.Duration \in Nat /\ N \in Nat
  BY DEF Sends, Sender
<1>2. at \in [0 .. N -> Nat] /\ SumsTo(s, at, N)
  BY AtSums
<1> HIDE DEF at
<1>3. ASSUME NEW k \in 0 .. s.Duration PROVE at[k + 1] = at[k] + WaitAt(s, k)
  <2>1. k + 1 \in 1 .. N /\ (k + 1) - 1 = k
    BY <1>1
  <2>2. QED
    BY <1>2, <2>1 DEF SumsTo
<1> DEFINE T == {k \in Nat : k <= N => at[k] >= k /\ \A m \in 0 .. k - 1 : at[m] < at[k]}
<1> HIDE DEF N
<1>4. 0 \in T
  BY <1>2 DEF SumsTo
<1>5. ASSUME NEW k \in T, k < N PROVE k + 1 \in T
  <2>1. k \in Nat /\ k \in 0 .. s.Duration /\ k \in 0 .. N /\ k + 1 \in 0 .. N /\ k + 1 \in Nat
    BY <1>1, <1>5 DEF N
  <2>2. at[k] \in Nat /\ at[k + 1] \in Nat /\ at[k] >= k /\ \A m \in 0 .. k - 1 : at[m] < at[k]
    BY <1>1, <1>2, <1>5, <2>1
  <2>3. at[k + 1] > at[k]
    <3>1. at[k + 1] = at[k] + WaitAt(s, k) /\ WaitAt(s, k) \in Nat /\ WaitAt(s, k) > 0
      BY <1>3, <2>1, WaitFacts
    <3>2. QED
      BY <2>2, <3>1
  <2>4. at[k + 1] >= k + 1
    BY <2>1, <2>2, <2>3
  <2>5. ASSUME NEW m \in 0 .. (k + 1) - 1 PROVE at[m] < at[k + 1]
    <3>1. CASE m = k
      BY <2>3, <3>1
    <3>2. CASE m # k
      <4>1. m \in 0 .. k - 1 /\ m \in 0 .. N
        <5>1. N \in Nat /\ k \in Nat /\ k < N
          BY <1>1, <1>5, <2>1
        <5>2. m \in Int /\ 0 <= m /\ m <= k /\ m # k
          BY <3>2, <5>1
        <5>3. QED
          BY <5>1, <5>2
      <4>2. at[m] < at[k] /\ at[m] \in Nat
        BY <1>2, <2>2, <4>1
      <4>3. QED
        BY <2>2, <2>3, <4>2
    <3>3. QED
      BY <3>1, <3>2
  <2>6. QED
    BY <2>1, <2>4, <2>5
<1>6. \A k \in Nat : k <= N => k \in T
  <2>1. T \in SUBSET Nat
    OBVIOUS
  <2> HIDE DEF T
  <2>2. QED
    BY <1>1, <1>4, <1>5, <2>1, UpTo
<1>7. ASSUME NEW k \in 0 .. N
      PROVE  at[k] \in Nat /\ at[k] >= k /\ \A m \in 0 .. k - 1 : at[m] < at[k]
  BY <1>1, <1>2, <1>6
<1>8. QED
  BY <1>1, <1>2, <1>3, <1>7 DEF SumsTo, N, at

-----------------------------------------------------------------------------
(* What a call of a Sender does to its timer and to what it has sent, in   *)
(* terms of its state v, the timers T and the packets L of its client.     *)

Unresponsive == [done : Nat, started : BOOLEAN, waitIndex : Nat]
Entry == [sender : Nat, at : Nat, now : Nat]

\* Scheduled and SentFor, of these values.
ScheduledIn(s, v, T, i, k) ==
    /\ v.started <=> k > 0
    /\ v.waitIndex = (k % Len(s.Wait)) + 1
    /\ k > 0 => v.done = s.Duration
    /\ \A m \in 1 .. k - 1 : At(s)[m] < s.Duration
    /\ \A x \in T : x.sender = i => k > 0 /\ x.at = At(s)[k] /\ At(s)[k] < s.Duration
    /\ k > 0 /\ At(s)[k] < s.Duration => [sender |-> i, at |-> At(s)[k]] \in T

SentIn(L, i) == {j \in DOMAIN L : L[j].sender = i}

SentForIn(at, waitFirst, L, i, k) ==
    /\ \A j \in SentIn(L, i) : \E m \in 0 .. k - 1 : (m = 0 => ~waitFirst) /\ L[j].at = at[m]
    /\ \A m \in 0 .. k - 1 :
          (m = 0 => ~waitFirst) => \E j \in SentIn(L, i) : L[j].at = at[m]
    /\ \A j, l \in SentIn(L, i) : L[j].at = L[l].at => j = l

\* A Sender that is called for its next time is scheduled for the one after.
LEMMA CallSchedules ==
    ASSUME NEW s, Sends(s), NEW i \in Nat, NEW k \in 0 .. s.Duration + 1,
           NEW T \in SUBSET PacketTimer, NEW v \in Unresponsive,
           ScheduledIn(s, v, T, i, k), NEW b \in Nat,
           (k = 0 /\ b = 0) \/ [sender |-> i, at |-> b] \in T
    PROVE  LET done == IF v.started THEN v.done ELSE b + s.Duration
               a == b + s.Wait[v.waitIndex]
               w == [done |-> done, started |-> TRUE,
                     waitIndex |-> (v.waitIndex % Len(s.Wait)) + 1]
               S == (T \ {[sender |-> i, at |-> b]})
                    \cup (IF a < done THEN {[sender |-> i, at |-> a]} ELSE {})
           IN  /\ k + 1 \in 0 .. s.Duration + 1
               /\ b = At(s)[k] /\ a \in Nat /\ a >= b /\ w \in Unresponsive
               /\ ScheduledIn(s, w, S, i, k + 1)
<1> DEFINE at == At(s)
           D == s.Duration
           done == IF v.started THEN v.done ELSE b + D
           a == b + s.Wait[v.waitIndex]
           wi == (v.waitIndex % Len(s.Wait)) + 1
           w == [done |-> done, started |-> TRUE, waitIndex |-> wi]
           S == (T \ {[sender |-> i, at |-> b]})
                \cup (IF a < done THEN {[sender |-> i, at |-> a]} ELSE {})
<1>1. /\ D \in Nat /\ at[0] = 0
      /\ \A m \in 0 .. D + 1 : at[m] \in Nat /\ at[m] >= m
      /\ \A m \in 0 .. D : at[m + 1] = at[m] + WaitAt(s, m)
  BY AtFacts
<1>2. /\ v.started <=> k > 0
      /\ v.waitIndex = (k % Len(s.Wait)) + 1
      /\ k > 0 => v.done = D
      /\ \A m \in 1 .. k - 1 : at[m] < D
      /\ \A x \in T : x.sender = i => k > 0 /\ x.at = at[k] /\ at[k] < D
  BY DEF ScheduledIn
<1> HIDE DEF at, D
<1>3. k \in Nat /\ k <= D + 1
  BY <1>1 DEF D
<1>4. at[k] \in Nat /\ at[k] >= k
  BY <1>1, <1>3
<1>5. b = at[k] /\ (k > 0 => at[k] < D)
  <2>1. CASE k = 0 /\ b = 0
    BY <1>1, <2>1
  <2>2. CASE [sender |-> i, at |-> b] \in T
    BY <1>2, <2>2
  <2>3. QED
    BY <2>1, <2>2
<1>6. k <= D /\ k + 1 \in 0 .. D + 1
  BY <1>1, <1>3, <1>4, <1>5
<1>7. a = at[k + 1] /\ at[k + 1] \in Nat /\ at[k + 1] > at[k]
  <2>1. k \in 0 .. D /\ WaitAt(s, k) \in Nat /\ WaitAt(s, k) > 0
    BY <1>1, <1>3, <1>6, WaitFacts
  <2>2. s.Wait[v.waitIndex] = WaitAt(s, k)
    BY <1>2 DEF WaitAt
  <2>3. at[k + 1] = at[k] + WaitAt(s, k)
    BY <1>1, <2>1
  <2>4. QED
    BY <1>4, <1>5, <2>1, <2>2, <2>3
<1>8. done = D
  <2>1. CASE k > 0
    BY <1>2, <2>1
  <2>2. CASE k = 0
    BY <1>1, <1>2, <1>5, <2>2 DEF D
  <2>3. QED
    BY <1>3, <2>1, <2>2
<1>9. wi = ((k + 1) % Len(s.Wait)) + 1 /\ wi \in Nat
  <2> DEFINE n == Len(s.Wait)
  <2>1. n \in Nat /\ n > 0
    BY <1>3, WaitFacts, SMTT(20)
  <2>2. v.waitIndex = (k % n) + 1
    BY <1>2
  <2> HIDE DEF n
  <2>3. v.waitIndex % n = (k + 1) % n
    BY <1>3, <2>1, <2>2, Cycle
  <2>4. (k + 1) % n \in Nat
    BY <1>3, <2>1
  <2>5. wi = ((k + 1) % n) + 1
    BY <2>3 DEF n
  <2> HIDE DEF wi
  <2>6. wi \in Nat
    BY <2>4, <2>5
  <2>7. QED
    BY <2>5, <2>6 DEF n
<1> HIDE DEF done, wi
<1>10. w.done = D /\ w.started = TRUE /\ w.waitIndex = wi /\ w \in Unresponsive
  <2>1. TRUE \in BOOLEAN
    OBVIOUS
  <2>2. QED
    BY <1>1, <1>8, <1>9, <2>1 DEF Unresponsive
<1> DEFINE y == [sender |-> i, at |-> b]
           z == [sender |-> i, at |-> a]
<1>11. S = (T \ {y}) \cup (IF a < D THEN {z} ELSE {})
  BY <1>8
<1>12. \A x \in T : x.sender = i => x = y
  BY <1>2, <1>5 DEF PacketTimer
<1>13. z.sender = i /\ z.at = at[k + 1] /\ z = [sender |-> i, at |-> at[k + 1]]
  BY <1>7
<1> HIDE DEF w, S, y, z, done, a
<1>14. \A x \in S : x.sender = i => k + 1 > 0 /\ x.at = at[k + 1] /\ at[k + 1] < D
  <2>1. TAKE x \in S
  <2>2. HAVE x.sender = i
  <2>3. x \notin T \ {y}
    BY <1>12, <2>2
  <2>4. a < D /\ x = z
    BY <1>11, <2>3
  <2>5. QED
    BY <1>3, <1>7, <1>13, <2>4
<1>15. at[k + 1] < D => [sender |-> i, at |-> at[k + 1]] \in S
  BY <1>7, <1>11, <1>13
<1>16. \A m \in 1 .. (k + 1) - 1 : at[m] < D
  <2>1. TAKE m \in 1 .. (k + 1) - 1
  <2>2. m \in 1 .. k - 1 \/ (m = k /\ k > 0)
    BY <1>3
  <2>3. QED
    BY <1>2, <1>5, <2>2
<1>17. ScheduledIn(s, w, S, i, k + 1)
  <2>1. k + 1 > 0
    BY <1>3
  <2>2. QED
    BY <1>9, <1>10, <1>14, <1>15, <1>16, <2>1 DEF ScheduledIn, at, D
<1>18. QED
  BY <1>4, <1>5, <1>6, <1>7, <1>10, <1>17 DEF w, wi, S, done, a, at, D, y, z

\* The packets of a client when one is sent.
LEMMA AppendFacts ==
    ASSUME NEW L \in Seq(Entry), NEW e \in Entry
    PROVE  /\ Append(L, e) \in Seq(Entry)
           /\ Len(L) \in Nat /\ DOMAIN L = 1 .. Len(L)
           /\ DOMAIN Append(L, e) = 1 .. Len(L) + 1
           /\ Append(L, e)[Len(L) + 1] = e
           /\ \A j \in 1 .. Len(L) : Append(L, e)[j] = L[j] /\ L[j] \in Entry
OBVIOUS

\* The times of packets are times.
LEMMA EntryFacts ==
    ASSUME NEW L \in Seq(Entry)
    PROVE  \A j \in DOMAIN L : L[j].at \in Nat
<1>1. \A j \in DOMAIN L : L[j] \in Entry
  OBVIOUS
<1>2. QED
  BY <1>1 DEF Entry

\* A packet of another Sender is nothing to this one.
LEMMA SendOther ==
    ASSUME NEW at, NEW first, NEW L \in Seq(Entry), NEW e \in Entry, NEW i, NEW k,
           e.sender # i, SentForIn(at, first, L, i, k)
    PROVE  SentForIn(at, first, Append(L, e), i, k)
<1> DEFINE M == Append(L, e)
<1>1. SentIn(M, i) = SentIn(L, i) /\ \A j \in SentIn(L, i) : M[j] = L[j]
  <2>1. /\ Len(L) \in Nat /\ DOMAIN L = 1 .. Len(L) /\ DOMAIN M = 1 .. Len(L) + 1
        /\ M[Len(L) + 1] = e /\ \A j \in 1 .. Len(L) : M[j] = L[j]
    BY AppendFacts
  <2> HIDE DEF M
  <2>2. QED
    BY <2>1 DEF SentIn
<1> HIDE DEF M
<1>2. SentForIn(at, first, M, i, k)
  BY <1>1 DEF SentForIn
<1>3. QED
  BY <1>2 DEF M

\* A packet for time k, after those before it.
LEMMA SendNext ==
    ASSUME NEW at, NEW first \in BOOLEAN, NEW L \in Seq(Entry), NEW e \in Entry,
           NEW i, NEW k \in Nat,
           e.sender = i, e.at = at[k], k = 0 => ~first,
           \A m \in 0 .. k - 1 : at[m] # at[k],
           SentForIn(at, first, L, i, k)
    PROVE  SentForIn(at, first, Append(L, e), i, k + 1)
<1> DEFINE M == Append(L, e)
           n == Len(L) + 1
<1>1. SentIn(M, i) = SentIn(L, i) \cup {n} /\ M[n] = e /\ \A j \in SentIn(L, i) : M[j] = L[j]
  <2>1. /\ Len(L) \in Nat /\ DOMAIN L = 1 .. Len(L) /\ DOMAIN M = 1 .. Len(L) + 1
        /\ M[Len(L) + 1] = e /\ \A j \in 1 .. Len(L) : M[j] = L[j]
    BY AppendFacts
  <2> HIDE DEF M
  <2>2. QED
    BY <2>1 DEF SentIn
<1> HIDE DEF M, n
<1>2. (k + 1) - 1 = k /\ k \in 0 .. k /\ \A m \in 0 .. k : m = k \/ m \in 0 .. k - 1
  OBVIOUS
<1>3. \A m \in 0 .. k - 1 : m \in 0 .. k
  OBVIOUS
<1>4. \A j \in SentIn(L, i) : L[j].at # e.at
  BY DEF SentForIn
<1>5. \A j \in SentIn(M, i) : \E m \in 0 .. k : (m = 0 => ~first) /\ M[j].at = at[m]
  <2>1. TAKE j \in SentIn(M, i)
  <2>2. CASE j = n
    BY <1>1, <1>2, <2>2
  <2>3. CASE j \in SentIn(L, i)
    BY <1>1, <1>3, <2>3 DEF SentForIn
  <2>4. QED
    BY <1>1, <2>2, <2>3
<1>6. \A m \in 0 .. k : (m = 0 => ~first) => \E j \in SentIn(M, i) : M[j].at = at[m]
  <2>1. TAKE m \in 0 .. k
  <2>2. CASE m = k
    BY <1>1, <2>2
  <2>3. CASE m \in 0 .. k - 1
    BY <1>1, <2>3 DEF SentForIn
  <2>4. QED
    BY <1>2, <2>2, <2>3
<1>7. \A j, l \in SentIn(M, i) : M[j].at = M[l].at => j = l
  BY <1>1, <1>4 DEF SentForIn
<1>8. 0 .. (k + 1) - 1 = 0 .. k
  BY <1>2
<1>9. SentForIn(at, first, M, i, k + 1)
  BY <1>5, <1>6, <1>7, <1>8 DEF SentForIn
<1>10. QED
  BY <1>9 DEF M

\* The first call with WaitFirst sends nothing.
LEMMA SendNone ==
    ASSUME NEW at, NEW L, NEW i, SentForIn(at, TRUE, L, i, 0)
    PROVE  SentForIn(at, TRUE, L, i, 1)
<1>1. SentIn(L, i) = {}
  BY DEF SentForIn
<1>2. \A m \in 0 .. 0 : m = 0
  OBVIOUS
<1>3. QED
  BY <1>1, <1>2 DEF SentForIn

-----------------------------------------------------------------------------
(* One client.                                                             *)

ClientInv(c) == QueueInv(c) /\ RunInv(c) /\ SenderInv(c)

\* What the Senders of a client are.
LEMMA SenderFacts ==
    ASSUME conf \in Confs, NEW c \in Clients
    PROVE  /\ Len(conf[c].Sender) \in Nat
           /\ DOMAIN conf[c].Sender = 1 .. Len(conf[c].Sender)
           /\ \A i \in DOMAIN conf[c].Sender :
                 /\ i \in Nat /\ i > 0
                 /\ Sends(conf[c].Sender[i]) /\ conf[c].Sender[i].Duration <= MaxNow
                 /\ conf[c].Sender[i].WaitFirst \in BOOLEAN
                 /\ conf[c].Sender[i].Duration \in Nat
<1> DEFINE q == conf[c].Sender
<1>1. /\ q \in Seq(Sender)
      /\ \A i \in DOMAIN q : /\ q[i].Wait # <<>> /\ \A j \in DOMAIN q[i].Wait : q[i].Wait[j] > 0
                            /\ q[i].Duration <= MaxNow
  BY PacketAssumption
<1> HIDE DEF q
<1>2. Len(q) \in Nat /\ DOMAIN q = 1 .. Len(q) /\ \A i \in 1 .. Len(q) : q[i] \in Sender
  BY <1>1
<1>3. ASSUME NEW i \in DOMAIN q
      PROVE  /\ i \in Nat /\ i > 0
             /\ Sends(q[i]) /\ q[i].Duration <= MaxNow
             /\ q[i].WaitFirst \in BOOLEAN /\ q[i].Duration \in Nat
  <2>1. i \in Nat /\ i > 0 /\ q[i] \in Sender
    BY <1>2
  <2>2. QED
    BY <1>1, <2>1 DEF Sends, Sender
<1>4. QED
  BY <1>2, <1>3 DEF q

\* A client of which the step changes nothing, but that it may be canceled.
Kept(c) ==
    /\ conf' = conf /\ pc'[c] = pc[c] /\ sender'[c] = sender[c] /\ timerQ'[c] = timerQ[c]
    /\ t'[c] = t[c] /\ res'[c] = res[c] /\ u'[c] = u[c] /\ log'[c] = log[c]
    /\ c \in ctx => c \in ctx'

\* The state of the Senders, and so what is said of it, is the same.
LEMMA KeptSenders ==
    ASSUME NEW c, conf' = conf, timerQ'[c] = timerQ[c], t'[c] = t[c], u'[c] = u[c],
           log'[c] = log[c]
    PROVE  /\ Timers(c)' = Timers(c)
           /\ QueueInv(c) => QueueInv(c)'
           /\ SenderInv(c) => SenderInv(c)'
<1>1. Timers(c)' = Timers(c)
  BY DEF Timers, NoTimer
<1>2. QueueInv(c) => QueueInv(c)'
  BY <1>1 DEF QueueInv, NoTimer
<1>3. ASSUME NEW i, NEW k PROVE Scheduled(c, i, k)' = Scheduled(c, i, k)
  BY <1>1 DEF Scheduled
<1>4. ASSUME NEW i, NEW k PROVE SentFor(c, i, k)' = SentFor(c, i, k)
  BY DEF SentFor, Sent
<1>5. SenderInv(c) => SenderInv(c)'
  BY <1>3, <1>4 DEF SenderInv
<1>6. QED
  BY <1>1, <1>2, <1>5

\* A step of others.
LEMMA KeptClient ==
    ASSUME NEW c, Kept(c), ClientInv(c)
    PROVE  ClientInv(c)'
<1>1. Timers(c)' = Timers(c) /\ QueueInv(c)' /\ SenderInv(c)'
  BY KeptSenders DEF Kept, ClientInv
<1>2. RunInv(c)'
  BY <1>1 DEF Kept, ClientInv, RunInv, NoTimer
<1>3. QED
  BY <1>1, <1>2 DEF ClientInv

\* Run ends, or has ended.
LEMMA EndClient ==
    ASSUME NEW c, ClientInv(c), conf' = conf, timerQ'[c] = timerQ[c], t'[c] = t[c],
           u'[c] = u[c], log'[c] = log[c],
           pc'[c] \in {"drain", "done"},
           res'[c] = "ok" /\ c \notin ctx' =>
              Timers(c) = {} /\ \A i \in DOMAIN conf[c].Sender : u[c][i].started
    PROVE  ClientInv(c)'
<1>1. Timers(c)' = Timers(c) /\ QueueInv(c)' /\ SenderInv(c)'
  BY KeptSenders DEF ClientInv
<1>2. RunInv(c)'
  BY <1>1 DEF RunInv
<1>3. QED
  BY <1>1, <1>2 DEF ClientInv

\* The earliest timer is armed.
LEMMA ArmClient ==
    ASSUME TypeOK, NEW c \in Clients, ClientInv(c), Arm(c)
    PROVE  ClientInv(c)'
<1>1. /\ pc[c] = "arm" /\ t[c] = NoTimer /\ res[c] = "none"
      /\ \A i \in DOMAIN conf[c].Sender : u[c][i].started
  BY DEF Arm, ClientInv, RunInv
<1>2. /\ conf' = conf /\ ctx' = ctx /\ res' = res /\ u' = u /\ log' = log
      /\ pc'[c] = "select"
  BY DEF Arm, TypeOK
<1>3. /\ Timers(c)' = Timers(c)
      /\ t'[c] # NoTimer => t'[c] \notin timerQ'[c] /\ \A x \in timerQ'[c] : t'[c].at <= x.at
      /\ t'[c] = NoTimer => timerQ'[c] = {}
  <2>1. CASE timerQ[c] = {} /\ t' = [t EXCEPT ![c] = NoTimer] /\ timerQ' = timerQ
    <3>1. t'[c] = NoTimer /\ timerQ'[c] = {}
      BY <2>1 DEF TypeOK
    <3>2. QED
      BY <1>1, <2>1, <3>1 DEF Timers, NoTimer
  <2>2. CASE \E x \in timerQ[c] :
                /\ \A y \in timerQ[c] : x.at <= y.at
                /\ t' = [t EXCEPT ![c] = x]
                /\ timerQ' = [timerQ EXCEPT ![c] = @ \ {x}]
    <3>1. PICK x \in timerQ[c] : /\ \A y \in timerQ[c] : x.at <= y.at
                                /\ t' = [t EXCEPT ![c] = x]
                                /\ timerQ' = [timerQ EXCEPT ![c] = @ \ {x}]
      BY <2>2
    <3>2. t'[c] = x /\ timerQ'[c] = timerQ[c] \ {x}
      BY <3>1 DEF TypeOK
    <3>3. x # NoTimer
      <4>1. x.sender \in DOMAIN conf[c].Sender
        BY DEF TypeOK
      <4>2. x.sender > 0 /\ x.sender \in Nat
        BY <4>1, SenderFacts DEF TypeOK
      <4>3. QED
        BY <4>2 DEF NoTimer
    <3>4. Timers(c)' = timerQ'[c] \cup ({t'[c]} \ {NoTimer})
      BY DEF Timers, NoTimer
    <3>5. QED
      BY <1>1, <3>1, <3>2, <3>3, <3>4 DEF Timers
  <2>3. QED
    BY <2>1, <2>2 DEF Arm
<1>4. QueueInv(c)'
  <2>1. QueueInv(c) /\ NoTimer' = NoTimer
    BY DEF ClientInv, NoTimer
  <2>2. QED
    BY <1>2, <1>3, <2>1 DEF QueueInv
<1>5. SenderInv(c)'
  <2>1. ASSUME NEW i, NEW k PROVE Scheduled(c, i, k)' = Scheduled(c, i, k)
    BY <1>2, <1>3 DEF Scheduled
  <2>2. ASSUME NEW i, NEW k PROVE SentFor(c, i, k)' = SentFor(c, i, k)
    BY <1>2 DEF SentFor, Sent
  <2>3. QED
    BY <1>2, <2>1, <2>2 DEF SenderInv, ClientInv
<1>6. RunInv(c)'
  <2>1. NoTimer' = NoTimer
    BY DEF NoTimer
  <2>2. QED
    BY <1>1, <1>2, <1>3, <2>1 DEF RunInv
<1>7. QED
  BY <1>4, <1>5, <1>6 DEF ClientInv

\* A Sender is called: i for time b, either the first time or because its timer
\* has fired.
Calls(c, i, b) ==
    /\ SendPacket(c, i, b) /\ Schedule(c, i, b)
    /\ conf' = conf /\ ctx' = ctx /\ res' = res
    /\ i \in DOMAIN conf[c].Sender /\ b \in Nat /\ b <= now
    /\ \/ /\ pc[c] = "first" /\ i = sender[c] /\ b = 0 /\ t' = t
          /\ sender'[c] = i + 1
          /\ pc'[c] = IF i = Len(conf[c].Sender) THEN "arm" ELSE "first"
       \/ /\ pc[c] = "select" /\ t[c] = [sender |-> i, at |-> b]
          /\ t' = [t EXCEPT ![c] = NoTimer]
          /\ sender'[c] = sender[c] /\ pc'[c] = "arm"

\* First and Fire are such calls.
LEMMA CallActions ==
    ASSUME TypeOK, NEW c \in Clients, ClientInv(c), First(c) \/ Fire(c)
    PROVE  \E i, b : Calls(c, i, b)
<1>1. CASE First(c)
  <2>1. sender[c] \in DOMAIN conf[c].Sender /\ 0 <= now
    BY <1>1 DEF First, ClientInv, RunInv, TypeOK
  <2>2. Calls(c, sender[c], 0)
    BY <1>1, <2>1 DEF First, Calls, TypeOK
  <2>3. QED
    BY <2>2
<1>2. CASE Fire(c)
  <2>1. t[c] # NoTimer /\ t[c] \in PacketTimer /\ t[c].at <= now
    BY <1>2 DEF Fire, TypeOK, PacketTimer
  <2>2. t[c].sender \in DOMAIN conf[c].Sender /\ t[c].at \in Nat
    BY <2>1 DEF TypeOK, PacketTimer
  <2>3. t[c] = [sender |-> t[c].sender, at |-> t[c].at]
    BY <2>1 DEF PacketTimer
  <2>4. Calls(c, t[c].sender, t[c].at)
    BY <1>2, <2>1, <2>2, <2>3 DEF Fire, Calls, TypeOK
  <2>5. QED
    BY <2>4
<1>3. QED
  BY <1>1, <1>2

\* Scheduled and SentFor say of the state what their other forms say of values.
LEMMA SenderForms ==
    ASSUME NEW c, NEW i, NEW k
    PROVE  LET s == conf[c].Sender[i] IN
           /\ Scheduled(c, i, k) <=> ScheduledIn(s, u[c][i], Timers(c), i, k)
           /\ SentFor(c, i, k) <=> SentForIn(At(s), s.WaitFirst, log[c], i, k)
           /\ Sent(c, i) = SentIn(log[c], i)
BY DEF Scheduled, ScheduledIn, SentFor, SentForIn, Sent, SentIn

\* What a call leaves of the timers, the packets and the state of the Senders.
CallLeaves(c, i, b, k, S) ==
    LET s == conf[c].Sender[i] IN
    /\ k \in 0 .. s.Duration + 1 /\ k + 1 \in 0 .. s.Duration + 1 /\ b = At(s)[k]
    /\ u[c][i].started <=> k > 0
    /\ SentForIn(At(s), s.WaitFirst, log[c], i, k)
    /\ S \subseteq PacketTimer /\ timerQ'[c] = S /\ t'[c] = NoTimer /\ Timers(c)' = S
    /\ \A x \in S : x \in Timers(c) \/ (x.sender = i /\ x.at >= b)
    /\ \A x \in Timers(c) : x.sender # i => x \in S
    /\ u'[c] \in [DOMAIN conf[c].Sender -> Unresponsive] /\ u'[c][i].started
    /\ \A j \in DOMAIN conf[c].Sender : j # i => u'[c][j] = u[c][j]
    /\ ScheduledIn(s, u'[c][i], S, i, k + 1)
    /\ log'[c] = IF k = 0 /\ s.WaitFirst THEN log[c]
                 ELSE Append(log[c], [sender |-> i, at |-> b, now |-> now])

\* First and Fire leave that, for the number of calls k so far.
LEMMA CallFacts ==
    ASSUME TypeOK, NEW c \in Clients, ClientInv(c), NEW i, NEW b, Calls(c, i, b)
    PROVE  \E k, S : CallLeaves(c, i, b, k, S)
<1> DEFINE s == conf[c].Sender[i]
           v == u[c][i]
           T == Timers(c)
           done == IF v.started THEN v.done ELSE b + s.Duration
           a == b + s.Wait[v.waitIndex]
           w == [done |-> done, started |-> TRUE,
                 waitIndex |-> (v.waitIndex % Len(s.Wait)) + 1]
           y == [sender |-> i, at |-> b]
           z == [sender |-> i, at |-> a]
           S == (T \ {y}) \cup (IF a < done THEN {z} ELSE {})
<1>1. /\ i \in DOMAIN conf[c].Sender /\ i \in Nat /\ i > 0 /\ b \in Nat /\ Sends(s)
      /\ s.WaitFirst \in BOOLEAN
  BY SenderFacts DEF Calls, TypeOK
<1>2. /\ v \in Unresponsive /\ log[c] \in Seq(Entry) /\ T \in SUBSET PacketTimer
      /\ u[c] \in [DOMAIN conf[c].Sender -> Unresponsive]
  <2>1. u[c] \in [DOMAIN conf[c].Sender -> Unresponsive] /\ log[c] \in Seq(Entry)
    BY DEF TypeOK, Unresponsive, Entry
  <2>2. T \in SUBSET PacketTimer
    BY DEF TypeOK, Timers
  <2>3. QED
    BY <1>1, <2>1, <2>2
<1>3. PICK k \in 0 .. s.Duration + 1 :
         ScheduledIn(s, v, T, i, k) /\ SentForIn(At(s), s.WaitFirst, log[c], i, k)
  BY <1>1, SenderForms DEF ClientInv, SenderInv
<1>4. (v.started <=> k > 0) /\ k \in Nat
  <2>1. s.Duration \in Nat
    BY <1>1, AtFacts
  <2>2. QED
    BY <1>3, <2>1 DEF ScheduledIn
<1>5. (k = 0 /\ b = 0) \/ y \in T
  <2>1. CASE pc[c] = "first" /\ i = sender[c] /\ b = 0
    <3>1. ~v.started
      BY <1>1, <2>1 DEF ClientInv, RunInv
    <3>2. QED
      BY <1>4, <2>1, <3>1
  <2>2. CASE t[c] = y
    <3>1. y # NoTimer
      BY <1>1 DEF NoTimer
    <3>2. QED
      BY <2>2, <3>1 DEF Timers
  <2>3. QED
    BY <2>1, <2>2 DEF Calls
<1>6. /\ k + 1 \in 0 .. s.Duration + 1
      /\ b = At(s)[k] /\ a \in Nat /\ a >= b /\ w \in Unresponsive
      /\ ScheduledIn(s, w, S, i, k + 1)
  BY <1>1, <1>2, <1>3, <1>5, CallSchedules
<1>7. \A x \in T : x.sender = i => k > 0 /\ x.at = At(s)[k]
  BY <1>3 DEF ScheduledIn
<1>8. /\ u' = [u EXCEPT ![c][i] = w]
      /\ timerQ' = [timerQ EXCEPT ![c] = IF a < done THEN @ \cup {z} ELSE @]
  BY DEF Calls, Schedule
<1>9. z \in PacketTimer /\ z.sender = i /\ z.at = a
  BY <1>1, <1>6 DEF PacketTimer
<1>10. w.started
  OBVIOUS
<1> HIDE DEF s, v, T, done, a, w
<1>11. timerQ[c] = T \ {y}
  <2>1. CASE pc[c] = "first" /\ b = 0 /\ i = sender[c]
    <3>1. t[c] = NoTimer /\ ~v.started
      BY <1>1, <2>1 DEF ClientInv, RunInv, v
    <3>2. T = timerQ[c] /\ y \notin T
      BY <1>4, <1>7, <3>1 DEF T, Timers
    <3>3. QED
      BY <3>2
  <2>2. CASE pc[c] = "select" /\ t[c] = y
    <3>1. y # NoTimer
      BY <1>1 DEF NoTimer
    <3>2. y \notin timerQ[c]
      BY <2>2, <3>1 DEF ClientInv, QueueInv
    <3>3. QED
      BY <2>2, <3>1, <3>2 DEF T, Timers
  <2>3. QED
    BY <2>1, <2>2 DEF Calls
<1>12. timerQ'[c] = S
  BY <1>8, <1>11 DEF TypeOK
<1>13. t'[c] = NoTimer
  BY DEF Calls, TypeOK, ClientInv, RunInv
<1>14. Timers(c)' = S
  <2>1. Timers(c)' = timerQ'[c] \cup ({t'[c]} \ {NoTimer})
    BY DEF Timers, NoTimer
  <2>2. QED
    BY <1>12, <1>13, <2>1
<1>15. S \subseteq PacketTimer
  BY <1>2, <1>9
<1>16. \A x \in S : x \in T \/ (x.sender = i /\ x.at >= b)
  BY <1>6, <1>9
<1>17. \A x \in T : x.sender # i => x \in S
  OBVIOUS
<1>18. u'[c] = [u[c] EXCEPT ![i] = w]
  BY <1>8 DEF TypeOK
<1>19. /\ u'[c] \in [DOMAIN conf[c].Sender -> Unresponsive] /\ u'[c][i] = w
       /\ \A j \in DOMAIN conf[c].Sender : j # i => u'[c][j] = u[c][j]
  BY <1>1, <1>2, <1>6, <1>18
<1>20. log'[c] = IF k = 0 /\ s.WaitFirst THEN log[c]
                 ELSE Append(log[c], [sender |-> i, at |-> b, now |-> now])
  <2>1. CASE v.started \/ ~s.WaitFirst
    <3>1. log' = [log EXCEPT ![c] = Append(@, [sender |-> i, at |-> b, now |-> now])]
      BY <2>1 DEF Calls, SendPacket, v, s
    <3>2. log'[c] = Append(log[c], [sender |-> i, at |-> b, now |-> now])
      BY <3>1 DEF TypeOK
    <3>3. QED
      BY <1>1, <1>4, <2>1, <3>2
  <2>2. CASE ~(v.started \/ ~s.WaitFirst)
    <3>1. log' = log
      BY <2>2 DEF Calls, SendPacket, v, s
    <3>2. QED
      BY <1>1, <1>4, <2>2, <3>1
  <2>3. QED
    BY <2>1, <2>2
<1> HIDE DEF S, y, z
<1>21. CallLeaves(c, i, b, k, S)
  BY <1>3, <1>4, <1>6, <1>10, <1>12, <1>13, <1>14, <1>15, <1>16, <1>17, <1>19, <1>20
     DEF CallLeaves, s, v, T
<1>22. QED
  BY <1>21

\* The packet is in order, and the next times are not before it.
LEMMA CallQueue ==
    ASSUME TypeOK, NEW c \in Clients, ClientInv(c), NEW i, NEW b, Calls(c, i, b),
           NEW k, NEW S, CallLeaves(c, i, b, k, S)
    PROVE  QueueInv(c)'
<1> DEFINE L == log[c]
           M == log'[c]
           n == Len(L) + 1
           T == Timers(c)
<1>1. L \in Seq(Entry) /\ b \in Nat /\ now \in Nat /\ b <= now /\ i \in Nat
  BY SenderFacts, PacketAssumption DEF TypeOK, Entry, Calls
<1>2. /\ \A j, l \in DOMAIN L : j < l => L[j].at <= L[l].at
      /\ \A j \in DOMAIN L : L[j].at <= L[j].now
      /\ \A j \in DOMAIN L, x \in T : L[j].at <= x.at
  BY DEF ClientInv, QueueInv
<1>3. /\ \A j \in DOMAIN L : L[j].at <= b
      /\ \A x \in T : b <= x.at /\ x.at \in Nat
  <2>1. T \subseteq PacketTimer
    BY DEF TypeOK, Timers
  <2>2. CASE pc[c] = "first" /\ b = 0
    <3>1. \A j \in DOMAIN L : L[j].at = 0
      BY <2>2 DEF ClientInv, RunInv
    <3>2. QED
      BY <2>1, <2>2, <3>1 DEF PacketTimer
  <2>3. CASE t[c] = [sender |-> i, at |-> b]
    <3>1. t[c] # NoTimer /\ t[c].at = b
      BY <2>3, SenderFacts DEF NoTimer, Calls, TypeOK
    <3>2. t[c] \in T /\ \A x \in T : x = t[c] \/ x \in timerQ[c]
      BY <3>1 DEF Timers
    <3>3. \A x \in timerQ[c] : b <= x.at
      BY <3>1 DEF ClientInv, QueueInv
    <3>4. QED
      BY <1>1, <1>2, <2>1, <3>1, <3>2, <3>3 DEF PacketTimer
  <2>4. QED
    BY <2>2, <2>3 DEF Calls
<1>4. \A x \in S : b <= x.at /\ x.at \in Nat
  BY <1>1, <1>3 DEF CallLeaves, PacketTimer
<1>5. Timers(c)' = S /\ t'[c] = NoTimer
  BY DEF CallLeaves
<1>6. CASE M = L
  <2>1. \A j \in DOMAIN L : L[j].at \in Nat
    BY <1>1, EntryFacts
  <2>2. \A j \in DOMAIN L, x \in S : L[j].at <= x.at
    BY <1>1, <1>3, <1>4, <2>1
  <2>3. NoTimer' = NoTimer
    BY DEF NoTimer
  <2>4. QED
    BY <1>2, <1>5, <1>6, <2>2, <2>3 DEF QueueInv
<1>7. CASE M = Append(L, [sender |-> i, at |-> b, now |-> now])
  <2> DEFINE e == [sender |-> i, at |-> b, now |-> now]
  <2>1. e \in Entry /\ e.at = b /\ e.now = now
    BY <1>1 DEF Entry
  <2> HIDE DEF e
  <2>2. /\ Len(L) \in Nat /\ DOMAIN L = 1 .. Len(L)
        /\ DOMAIN M = 1 .. n /\ M[n] = e
        /\ \A j \in 1 .. Len(L) : M[j] = L[j] /\ L[j] \in Entry
    BY <1>1, <1>7, <2>1, AppendFacts DEF e
  <2> HIDE DEF L, M
  <2>3. \A j \in DOMAIN M : j = n \/ (j \in DOMAIN L /\ M[j] = L[j] /\ j < n)
    BY <2>2
  <2> HIDE DEF n
  <2>4. \A j \in DOMAIN L : L[j].at \in Nat
    BY <2>2 DEF Entry
  <2>5. \A j \in DOMAIN M : j \in Nat /\ j <= n /\ n \in Nat
    BY <2>2 DEF n
  <2>6. \A j, l \in DOMAIN M : j < l => M[j].at <= M[l].at
    <3>1. TAKE j, l \in DOMAIN M
    <3>2. HAVE j < l
    <3>3. j # n /\ j \in DOMAIN L /\ M[j] = L[j]
      BY <2>3, <2>5, <3>2
    <3>4. CASE l = n
      BY <1>3, <2>1, <2>2, <3>3, <3>4
    <3>5. CASE l # n
      BY <1>2, <2>3, <3>2, <3>3, <3>5
    <3>6. QED
      BY <3>4, <3>5
  <2>7. \A j \in DOMAIN M : M[j].at <= M[j].now
    BY <1>1, <1>2, <2>1, <2>2, <2>3
  <2>8. \A j \in DOMAIN M, x \in S : M[j].at <= x.at
    <3>1. TAKE j \in DOMAIN M, x \in S
    <3>2. CASE j = n
      BY <1>4, <2>1, <2>2, <3>2
    <3>3. CASE j # n
      <4>1. M[j] = L[j] /\ L[j].at \in Nat /\ L[j].at <= b /\ b <= x.at /\ x.at \in Nat
        BY <1>3, <1>4, <2>3, <2>4, <3>3
      <4>2. QED
        BY <1>1, <4>1
    <3>4. QED
      BY <3>2, <3>3
  <2>9. NoTimer' = NoTimer
    BY DEF NoTimer
  <2>10. QED
    BY <1>5, <2>6, <2>7, <2>8, <2>9 DEF QueueInv, M
<1>8. QED
  BY <1>6, <1>7 DEF CallLeaves

\* Every Sender is where it was called last.
LEMMA CallSenders ==
    ASSUME TypeOK, NEW c \in Clients, ClientInv(c), NEW i, NEW b, Calls(c, i, b),
           NEW k, NEW S, CallLeaves(c, i, b, k, S)
    PROVE  SenderInv(c)'
<1> DEFINE s == conf[c].Sender[i]
           L == log[c]
           e == [sender |-> i, at |-> b, now |-> now]
<1>1. /\ conf' = conf /\ i \in DOMAIN conf[c].Sender /\ i \in Nat /\ Sends(s)
      /\ s.WaitFirst \in BOOLEAN /\ b \in Nat
  BY SenderFacts DEF Calls, TypeOK
<1>2. L \in Seq(Entry) /\ e \in Entry /\ e.sender = i /\ e.at = b
  BY <1>1, PacketAssumption DEF TypeOK, Entry
<1>3. /\ k \in Nat /\ k + 1 \in 0 .. s.Duration + 1 /\ b = At(s)[k]
      /\ SentForIn(At(s), s.WaitFirst, L, i, k)
      /\ ScheduledIn(s, u'[c][i], S, i, k + 1)
      /\ Timers(c)' = S
      /\ log'[c] = IF k = 0 /\ s.WaitFirst THEN L ELSE Append(L, e)
      /\ \A m \in 0 .. k - 1 : At(s)[m] # At(s)[k]
  <2>1. s.Duration \in Nat /\ k \in 0 .. s.Duration + 1
    BY <1>1, AtFacts DEF CallLeaves
  <2>2. \A m \in 0 .. k - 1 : At(s)[m] < At(s)[k] /\ At(s)[m] \in Nat /\ At(s)[k] \in Nat
    <3>1. \A m \in 0 .. k - 1 : m \in 0 .. s.Duration + 1
      BY <2>1
    <3>2. QED
      BY <1>1, <2>1, <3>1, AtFacts
  <2>3. \A m \in 0 .. k - 1 : At(s)[m] # At(s)[k]
    BY <2>2
  <2>4. QED
    BY <2>1, <2>3 DEF CallLeaves
<1> HIDE DEF e
<1>4. SentForIn(At(s), s.WaitFirst, log'[c], i, k + 1)
  <2>1. CASE k = 0 /\ s.WaitFirst
    <3>1. s.WaitFirst = TRUE /\ log'[c] = L
      BY <1>1, <1>3, <2>1
    <3>2. SentForIn(At(s), TRUE, L, i, 0)
      BY <1>3, <2>1, <3>1
    <3>3. SentForIn(At(s), TRUE, L, i, 1)
      BY <3>2, SendNone
    <3>4. k + 1 = 1
      BY <2>1
    <3>5. QED
      BY <3>1, <3>3, <3>4
  <2>2. CASE ~(k = 0 /\ s.WaitFirst)
    <3>1. log'[c] = Append(L, e) /\ (k = 0 => ~s.WaitFirst)
      BY <1>3, <2>2
    <3>2. SentForIn(At(s), s.WaitFirst, Append(L, e), i, k + 1)
      BY <1>1, <1>2, <1>3, <3>1, SendNext
    <3>3. QED
      BY <3>1, <3>2
  <2>3. QED
    BY <2>1, <2>2
<1>5. ASSUME NEW j \in DOMAIN conf[c].Sender, j # i
      PROVE  \E m \in 0 .. conf[c].Sender[j].Duration + 1 :
                /\ ScheduledIn(conf[c].Sender[j], u'[c][j], S, j, m)
                /\ SentForIn(At(conf[c].Sender[j]), conf[c].Sender[j].WaitFirst, log'[c], j, m)
  <2> DEFINE r == conf[c].Sender[j]
  <2>1. PICK m \in 0 .. r.Duration + 1 :
           ScheduledIn(r, u[c][j], Timers(c), j, m) /\ SentForIn(At(r), r.WaitFirst, L, j, m)
    BY SenderForms DEF ClientInv, SenderInv
  <2>2. \A x : x.sender = j => (x \in S <=> x \in Timers(c))
    BY <1>5 DEF CallLeaves
  <2>3. u'[c][j] = u[c][j]
    BY <1>5 DEF CallLeaves
  <2> HIDE DEF r
  <2>4. ScheduledIn(r, u[c][j], S, j, m)
    BY <2>1, <2>2 DEF ScheduledIn
  <2>5. SentForIn(At(r), r.WaitFirst, log'[c], j, m)
    <3>1. SentForIn(At(r), r.WaitFirst, Append(L, e), j, m)
      BY <1>2, <1>5, <2>1, SendOther
    <3>2. QED
      BY <1>3, <2>1, <3>1
  <2>6. QED
    BY <2>3, <2>4, <2>5 DEF r
<1>6. ASSUME NEW j, NEW m
      PROVE  /\ Scheduled(c, j, m)' <=> ScheduledIn(conf[c].Sender[j], u'[c][j], S, j, m)
             /\ SentFor(c, j, m)' <=>
                   SentForIn(At(conf[c].Sender[j]), conf[c].Sender[j].WaitFirst, log'[c], j, m)
  BY <1>1, <1>3, SMTT(20)
     DEF Scheduled, ScheduledIn, SentFor, SentForIn, Sent, SentIn
<1>7. ASSUME NEW j \in DOMAIN conf[c].Sender
      PROVE  \E m \in 0 .. conf[c].Sender[j].Duration + 1 :
                Scheduled(c, j, m)' /\ SentFor(c, j, m)'
  <2>1. CASE j = i
    BY <1>3, <1>4, <1>6, <2>1
  <2>2. CASE j # i
    BY <1>5, <1>6, <2>2
  <2>3. QED
    BY <2>1, <2>2
<1>8. QED
  BY <1>1, <1>7 DEF SenderInv

\* Run goes on to the next Sender, or waits.
LEMMA CallRun ==
    ASSUME TypeOK, NEW c \in Clients, ClientInv(c), NEW i, NEW b, Calls(c, i, b),
           NEW k, NEW S, CallLeaves(c, i, b, k, S)
    PROVE  RunInv(c)'
<1> DEFINE all == DOMAIN conf[c].Sender
           N == Len(conf[c].Sender)
<1>1. N \in Nat /\ all = 1 .. N /\ i \in all /\ i \in Nat /\ conf' = conf /\ b \in Nat
  BY SenderFacts DEF Calls, TypeOK
<1>2. /\ t'[c] = NoTimer /\ u'[c][i].started
      /\ \A j \in all : j # i => u'[c][j] = u[c][j]
  BY DEF CallLeaves
<1>3. res'[c] = "none"
  BY DEF Calls, ClientInv, RunInv
<1>4. NoTimer' = NoTimer
  BY DEF NoTimer
<1>5. CASE pc[c] = "first"
  <2>1. /\ i = sender[c] /\ b = 0 /\ sender'[c] = i + 1
        /\ pc'[c] = IF i = N THEN "arm" ELSE "first"
    BY <1>5 DEF Calls
  <2>2. /\ \A j \in all : u[c][j].started <=> j < i
        /\ \A j \in DOMAIN log[c] : log[c][j].at = 0
    BY <1>5, <2>1 DEF ClientInv, RunInv
  <2> HIDE DEF N
  <2>3. \A j \in all : u'[c][j].started <=> j < i + 1
    <3>1. TAKE j \in all
    <3>2. j \in Nat
      BY <1>1
    <3>3. CASE j = i
      BY <1>1, <1>2, <3>3
    <3>4. CASE j # i
      <4>1. u'[c][j].started <=> j < i
        BY <1>2, <2>2, <3>4
      <4>2. j < i <=> j < i + 1
        BY <1>1, <3>2, <3>4
      <4>3. QED
        BY <4>1, <4>2
    <3>5. QED
      BY <3>3, <3>4
  <2>4. \A j \in DOMAIN log'[c] : log'[c][j].at = 0
    <3> DEFINE e == [sender |-> i, at |-> b, now |-> now]
    <3>1. log[c] \in Seq(Entry) /\ e \in Entry /\ e.at = 0
      BY <1>1, <2>1, PacketAssumption DEF TypeOK, Entry
    <3>2. log'[c] = log[c] \/ log'[c] = Append(log[c], e)
      BY DEF CallLeaves
    <3> HIDE DEF e
    <3>3. CASE log'[c] = log[c]
      BY <2>2, <3>3
    <3>4. CASE log'[c] = Append(log[c], e)
      <4> DEFINE L == log[c]
                 M == log'[c]
      <4>1. /\ Len(L) \in Nat /\ DOMAIN L = 1 .. Len(L) /\ DOMAIN M = 1 .. Len(L) + 1
            /\ M[Len(L) + 1] = e /\ \A j \in 1 .. Len(L) : M[j] = L[j]
        BY <3>1, <3>4, AppendFacts
      <4>2. \A j \in DOMAIN L : L[j].at = 0
        BY <2>2
      <4> HIDE DEF L, M
      <4>3. \A j \in DOMAIN M : M[j].at = 0
        BY <3>1, <4>1, <4>2
      <4>4. QED
        BY <4>3 DEF M
    <3>5. QED
      BY <3>2, <3>3, <3>4
  <2>5. CASE i = N
    <3>1. pc'[c] = "arm"
      BY <2>1, <2>5
    <3>2. \A j \in all : u'[c][j].started
      <4>1. \A j \in all : j < i + 1
        BY <1>1, <2>5
      <4>2. QED
        BY <2>3, <4>1
    <3>3. QED
      BY <1>1, <1>2, <1>3, <1>4, <3>1, <3>2 DEF RunInv
  <2>6. CASE i # N
    <3>1. pc'[c] = "first" /\ sender'[c] \in all
      BY <1>1, <2>1, <2>6
    <3>2. QED
      BY <1>1, <1>2, <1>3, <1>4, <2>1, <2>3, <2>4, <3>1 DEF RunInv
  <2>7. QED
    BY <2>5, <2>6
<1>6. CASE pc[c] = "select" /\ pc'[c] = "arm"
  <2>1. \A j \in all : u[c][j].started
    BY <1>6 DEF ClientInv, RunInv
  <2>2. \A j \in all : u'[c][j].started
    BY <1>2, <2>1
  <2>3. QED
    BY <1>1, <1>2, <1>3, <1>4, <1>6, <2>2 DEF RunInv
<1>7. QED
  BY <1>5, <1>6 DEF Calls

\* So a call keeps what holds of the client.
LEMMA CallClient ==
    ASSUME TypeOK, NEW c \in Clients, ClientInv(c), First(c) \/ Fire(c)
    PROVE  ClientInv(c)'
<1>1. PICK i, b : Calls(c, i, b)
  BY CallActions
<1>2. PICK k, S : CallLeaves(c, i, b, k, S)
  BY <1>1, CallFacts
<1>3. QED
  BY <1>1, <1>2, CallQueue, CallSenders, CallRun DEF ClientInv

-----------------------------------------------------------------------------
(* Types.                                                                  *)

\* The parts of TypeOK about the clients, and about the server and the network.
ClientTypes ==
    /\ conf \in Confs /\ now \in 0..MaxNow /\ ctx \subseteq Clients
    /\ pc \in [Clients -> {"first", "arm", "select", "drain", "done"}]
    /\ sender \in [Clients -> Nat]
    /\ timerQ \in [Clients -> SUBSET PacketTimer] /\ t \in [Clients -> PacketTimer]
    /\ res \in [Clients -> {"none", "ok", "error"}]
    /\ DOMAIN u = Clients
    /\ \A c \in Clients :
          /\ u[c] \in [DOMAIN conf[c].Sender -> Unresponsive]
          /\ \A x \in Timers(c) : x.sender \in DOMAIN conf[c].Sender
    /\ log \in [Clients -> Seq(Entry)]
    /\ open \subseteq Clients
    /\ rd \in [Clients -> {"read", "send", "error", "closed"}]

ServerTypes ==
    /\ main \in {"run", "done"} /\ srv \in {"read", "stuck"}
    /\ \A x \in DOMAIN f : f[x] \in Clients
    /\ d \subseteq Nat /\ net \subseteq Packets /\ heard \subseteq Packets
    /\ echoed \in Seq(Packets)
    /\ dups \in 0..MaxDup

\* There are no more.
LEMMA TypeParts == TypeOK <=> ClientTypes /\ ServerTypes
BY DEF TypeOK, ClientTypes, ServerTypes, Timers, Unresponsive, Entry

\* A call of a Sender keeps the types.
LEMMA CallTypes ==
    ASSUME TypeOK, NEW c \in Clients, ClientInv(c), First(c) \/ Fire(c)
    PROVE  ClientTypes' /\ ServerTypes'
<1>1. PICK i, b : Calls(c, i, b)
  BY CallActions
<1>2. PICK k, S : CallLeaves(c, i, b, k, S)
  BY <1>1, CallFacts
<1>3. ClientTypes /\ ServerTypes
  BY TypeParts
<1>4. /\ conf' = conf /\ now' = now /\ ctx' = ctx /\ res' = res /\ open' = open /\ rd' = rd
      /\ main' = main /\ srv' = srv /\ f' = f /\ d' = d /\ heard' = heard /\ echoed' = echoed
      /\ dups' = dups
  BY DEF First, Fire, serverVars
<1>5. i \in DOMAIN conf[c].Sender /\ i \in Nat /\ b \in Nat
  BY <1>1, SenderFacts DEF Calls, TypeOK
<1> DEFINE e == [sender |-> i, at |-> b, now |-> now]
           q == [c |-> c, Seq |-> Len(log[c]),
                 Flag |-> IF conf[c].Sender[i].Echo THEN "FlagEcho" ELSE "none"]
<1>6. log[c] \in Seq(Entry) /\ e \in Entry /\ Len(log[c]) \in Nat
  BY <1>3, <1>5, PacketAssumption DEF ClientTypes, Entry
<1>7. q \in Packets
  BY <1>6 DEF Packets
<1>8. /\ net' = net \/ net' = net \cup {q}
      /\ log' = log \/ log' = [log EXCEPT ![c] = Append(@, e)]
  BY <1>1 DEF Calls, SendPacket
<1> HIDE DEF e, q
<1>9. log' \in [Clients -> Seq(Entry)]
  <2>1. Append(log[c], e) \in Seq(Entry)
    BY <1>6, AppendFacts
  <2>2. log \in [Clients -> Seq(Entry)]
    BY <1>3 DEF ClientTypes
  <2>3. QED
    BY <1>8, <2>1, <2>2
<1>10. ServerTypes'
  <2>1. net' \subseteq Packets
    BY <1>3, <1>7, <1>8 DEF ServerTypes
  <2>2. Packets' = Packets
    BY DEF Packets
  <2>3. QED
    BY <1>3, <1>4, <2>1, <2>2 DEF ServerTypes
<1>11. pc' \in [Clients -> {"first", "arm", "select", "drain", "done"}]
  BY <1>3 DEF First, Fire, ClientTypes
<1>12. sender' \in [Clients -> Nat]
  <2>1. sender \in [Clients -> Nat]
    BY <1>3 DEF ClientTypes
  <2>2. sender' = sender \/ sender' = [sender EXCEPT ![c] = sender[c] + 1]
    BY DEF First, Fire
  <2>3. QED
    BY <2>1, <2>2
<1>13. t' \in [Clients -> PacketTimer]
  <2>1. NoTimer \in PacketTimer
    BY DEF NoTimer, PacketTimer
  <2>2. t \in [Clients -> PacketTimer] /\ (t' = t \/ t' = [t EXCEPT ![c] = NoTimer])
    BY <1>3 DEF First, Fire, ClientTypes
  <2>3. QED
    BY <2>1, <2>2
<1>14. /\ timerQ' \in [Clients -> SUBSET PacketTimer]
       /\ \A j \in Clients \ {c} : timerQ'[j] = timerQ[j]
  <2>1. PICK X : timerQ' = [timerQ EXCEPT ![c] = X]
    BY <1>1 DEF Calls, Schedule
  <2>2. timerQ \in [Clients -> SUBSET PacketTimer] /\ timerQ'[c] = S /\ S \subseteq PacketTimer
    BY <1>2, <1>3 DEF CallLeaves, ClientTypes
  <2>3. X = S
    BY <2>1, <2>2
  <2>4. QED
    BY <2>1, <2>2, <2>3
<1>15. DOMAIN u' = Clients /\ \A j \in Clients \ {c} : u'[j] = u[j]
  <2>1. PICK X : u' = [u EXCEPT ![c][i] = X]
    BY <1>1 DEF Calls, Schedule
  <2>2. QED
    BY <1>3, <2>1 DEF ClientTypes
<1>16. ASSUME NEW j \in Clients
       PROVE  /\ u'[j] \in [DOMAIN conf[j].Sender -> Unresponsive]
              /\ \A x \in Timers(j)' : x.sender \in DOMAIN conf[j].Sender
  <2>1. CASE j = c
    <3>1. u'[c] \in [DOMAIN conf[c].Sender -> Unresponsive] /\ Timers(c)' = S
      BY <1>2 DEF CallLeaves
    <3>2. \A x \in S : x \in Timers(c) \/ x.sender = i
      BY <1>2 DEF CallLeaves
    <3>3. QED
      BY <1>3, <1>5, <2>1, <3>1, <3>2 DEF ClientTypes
  <2>2. CASE j # c
    <3>1. t'[j] = t[j]
      BY <1>3, <2>2 DEF First, Fire, ClientTypes
    <3>2. Timers(j)' = Timers(j)
      BY <1>14, <2>2, <3>1 DEF Timers, NoTimer
    <3>3. QED
      BY <1>3, <1>15, <2>2, <3>2 DEF ClientTypes
  <2>3. QED
    BY <2>1, <2>2
<1>17. ClientTypes'
  <2>1. PacketTimer' = PacketTimer /\ Unresponsive' = Unresponsive /\ Entry' = Entry
    BY DEF PacketTimer, Unresponsive, Entry
  <2>2. QED
    BY <1>3, <1>4, <1>9, <1>11, <1>12, <1>13, <1>14, <1>15, <1>16, <2>1 DEF ClientTypes
<1>18. QED
  BY <1>10, <1>17

\* The other actions of a client, which call no Sender.
Others(c) ==
    \/ Arm(c) \/ FireFails(c) \/ LastWait(c) \/ FromReader(c) \/ Drained(c) \/ CtxDone(c)
    \/ ReadReply(c) \/ ReadFails(c) \/ Cancel(c)

\* They keep the state of the Senders, and move timers only between t and timerQ.
LEMMA OtherTypes ==
    ASSUME TypeOK, NEW c \in Clients, ClientInv(c), Others(c)
    PROVE  ClientTypes' /\ ServerTypes'
<1>1. ClientTypes /\ ServerTypes
  BY TypeParts
<1>2. /\ conf' = conf /\ now' = now /\ sender' = sender /\ u' = u /\ log' = log
      /\ main' = main /\ srv' = srv /\ f' = f /\ d' = d /\ heard' = heard /\ echoed' = echoed
  BY DEF Others, Arm, FireFails, LastWait, FromReader, Drained, CtxDone, ReadReply, ReadFails,
         Cancel, serverVars, clientVars
<1>3. net' \subseteq net /\ dups' \in 0..MaxDup
  <2>1. CASE ReadReply(c)
    <3>1. PICK p \in Replies(c) : Deliver(p, {})
      BY <2>1 DEF ReadReply
    <3>2. CASE net' = (net \ {p}) \cup {} /\ dups' = dups
      BY <1>1, <3>2 DEF ServerTypes
    <3>3. CASE dups < MaxDup /\ dups' = dups + 1 /\ net' = net \cup {}
      <4>1. dups \in 0..MaxDup /\ MaxDup \in Nat
        BY <1>1, PacketAssumption DEF ServerTypes
      <4>2. QED
        BY <3>3, <4>1
    <3>4. QED
      BY <3>1, <3>2, <3>3 DEF Deliver
  <2>2. CASE ~ReadReply(c)
    <3>1. net' = net /\ dups' = dups
      BY <2>2 DEF Others, Arm, FireFails, LastWait, FromReader, Drained, CtxDone, ReadFails,
             Cancel
    <3>2. QED
      BY <1>1, <3>1 DEF ServerTypes
  <2>3. QED
    BY <2>1, <2>2
<1>4. ServerTypes'
  <2>1. Packets' = Packets
    BY DEF Packets
  <2>2. QED
    BY <1>1, <1>2, <1>3, <2>1 DEF ServerTypes
<1>5. /\ ctx' \subseteq Clients /\ open' \subseteq Clients
      /\ pc' \in [Clients -> {"first", "arm", "select", "drain", "done"}]
  BY <1>1 DEF ClientTypes, Others, Arm, FireFails, LastWait, FromReader, Drained, CtxDone,
     ReadReply, ReadFails, Cancel, Return, clientVars
<1>6. /\ res' \in [Clients -> {"none", "ok", "error"}]
      /\ rd' \in [Clients -> {"read", "send", "error", "closed"}]
  BY <1>1 DEF ClientTypes, Others, Arm, FireFails, LastWait, FromReader, Drained, CtxDone,
     ReadReply, ReadFails, Cancel, Return, clientVars
<1>7. /\ timerQ' \in [Clients -> SUBSET PacketTimer] /\ t' \in [Clients -> PacketTimer]
      /\ \A j \in Clients : Timers(j)' \subseteq Timers(j)
  <2>1. CASE Arm(c)
    <3>1. NoTimer \in PacketTimer /\ NoTimer' = NoTimer
      BY DEF NoTimer, PacketTimer
    <3>2. timerQ \in [Clients -> SUBSET PacketTimer] /\ t \in [Clients -> PacketTimer]
      BY <1>1 DEF ClientTypes
    <3>3. \/ timerQ' = timerQ /\ t' = [t EXCEPT ![c] = NoTimer]
          \/ \E x \in timerQ[c] : /\ t' = [t EXCEPT ![c] = x]
                                  /\ timerQ' = [timerQ EXCEPT ![c] = @ \ {x}]
      BY <2>1 DEF Arm
    <3>4. CASE timerQ' = timerQ /\ t' = [t EXCEPT ![c] = NoTimer]
      BY <3>1, <3>2, <3>4 DEF Timers
    <3>5. CASE \E x \in timerQ[c] : /\ t' = [t EXCEPT ![c] = x]
                                    /\ timerQ' = [timerQ EXCEPT ![c] = @ \ {x}]
      <4>1. PICK x \in timerQ[c] : /\ t' = [t EXCEPT ![c] = x]
                                  /\ timerQ' = [timerQ EXCEPT ![c] = @ \ {x}]
        BY <3>5
      <4>2. x \in PacketTimer /\ timerQ[c] \ {x} \in SUBSET PacketTimer
        BY <3>2
      <4>3. timerQ' \in [Clients -> SUBSET PacketTimer] /\ t' \in [Clients -> PacketTimer]
        BY <3>2, <4>1, <4>2
      <4>4. ASSUME NEW j \in Clients PROVE Timers(j)' \subseteq Timers(j)
        <5>1. timerQ'[j] \subseteq timerQ[j] /\ (t'[j] = t[j] \/ t'[j] \in timerQ[j])
          BY <3>2, <4>1
        <5>2. QED
          BY <3>1, <5>1 DEF Timers
      <4>5. QED
        BY <4>3, <4>4
    <3>6. QED
      BY <3>3, <3>4, <3>5
  <2>2. CASE ~Arm(c)
    <3>1. timerQ' = timerQ /\ t' = t
      BY <2>2 DEF Others, FireFails, LastWait, FromReader, Drained, CtxDone, ReadReply, ReadFails,
             Cancel, clientVars
    <3>2. QED
      BY <1>1, <3>1 DEF ClientTypes, Timers, NoTimer
  <2>3. QED
    BY <2>1, <2>2
<1>8. ClientTypes'
  <2>1. PacketTimer' = PacketTimer /\ Unresponsive' = Unresponsive /\ Entry' = Entry
    BY DEF PacketTimer, Unresponsive, Entry
  <2>2. \A j \in Clients : \A x \in Timers(j)' : x.sender \in DOMAIN conf[j].Sender
    BY <1>1, <1>7 DEF ClientTypes
  <2>3. QED
    BY <1>1, <1>2, <1>5, <1>6, <1>7, <2>1, <2>2 DEF ClientTypes
<1>9. QED
  BY <1>4, <1>8

\* A step of one client keeps what holds of it.
LEMMA OtherClient ==
    ASSUME TypeOK, NEW c \in Clients, ClientInv(c), Others(c)
    PROVE  ClientInv(c)'
<1>1. CASE Arm(c)
  BY <1>1, ArmClient
<1>2. CASE ReadReply(c) \/ ReadFails(c) \/ Cancel(c) \/ (FromReader(c) /\ pc' = pc /\ res' = res)
  <2>1. Kept(c)
    BY <1>2 DEF Kept, ReadReply, ReadFails, Cancel, FromReader, clientVars
  <2>2. QED
    BY <2>1, KeptClient
<1>3. CASE FireFails(c) \/ LastWait(c) \/ Drained(c) \/ CtxDone(c)
           \/ (FromReader(c) /\ Return(c, "error"))
  <2>1. /\ conf' = conf /\ timerQ' = timerQ /\ t' = t /\ u' = u /\ log' = log /\ ctx' = ctx
    BY <1>3 DEF FireFails, LastWait, FromReader, Drained, CtxDone
  <2>2. pc'[c] \in {"drain", "done"}
    BY <1>3 DEF FireFails, LastWait, FromReader, Drained, CtxDone, Return, TypeOK
  <2>3. res'[c] = "ok" /\ c \notin ctx' =>
           Timers(c) = {} /\ \A i \in DOMAIN conf[c].Sender : u[c][i].started
    <3>1. CASE FireFails(c) \/ (FromReader(c) /\ Return(c, "error"))
      BY <3>1 DEF FireFails, Return, TypeOK
    <3>2. CASE CtxDone(c)
      BY <2>1, <3>2 DEF CtxDone
    <3>3. CASE Drained(c)
      BY <2>1, <3>3 DEF Drained, ClientInv, RunInv
    <3>4. CASE LastWait(c)
      <4>1. pc[c] = "select" /\ t[c] = NoTimer
        BY <3>4 DEF LastWait
      <4>2. timerQ[c] = {} /\ \A i \in DOMAIN conf[c].Sender : u[c][i].started
        BY <4>1 DEF ClientInv, RunInv
      <4>3. QED
        BY <4>1, <4>2 DEF Timers
    <3>5. QED
      BY <1>3, <3>1, <3>2, <3>3, <3>4
  <2>4. QED
    BY <2>1, <2>2, <2>3, EndClient
<1>4. QED
  BY <1>1, <1>2, <1>3 DEF Others, FromReader

\* And nothing of another client.
LEMMA OtherKept ==
    ASSUME TypeOK, NEW c \in Clients, First(c) \/ Fire(c) \/ Others(c), NEW j \in Clients \ {c}
    PROVE  Kept(j)
<1>1. CASE First(c) \/ Fire(c)
  <2>1. \E i, b : SendPacket(c, i, b) /\ Schedule(c, i, b)
    BY <1>1 DEF First, Fire
  <2>2. timerQ'[j] = timerQ[j] /\ u'[j] = u[j] /\ log'[j] = log[j]
    BY <2>1 DEF Schedule, SendPacket, TypeOK
  <2>3. QED
    BY <1>1, <2>2 DEF First, Fire, Kept, TypeOK
<1>2. CASE Arm(c)
  BY <1>2 DEF Arm, Kept, TypeOK
<1>3. CASE Others(c) /\ ~Arm(c)
  BY <1>3 DEF Others, FireFails, LastWait, FromReader, Drained, CtxDone, ReadReply, ReadFails,
         Cancel, clientVars, Return, Kept, TypeOK
<1>4. QED
  BY <1>1, <1>2, <1>3

-----------------------------------------------------------------------------
(* The server.                                                             *)

\* A packet and its reply.
LEMMA ReplyFacts ==
    ASSUME NEW p \in Packets
    PROVE  LET reply == [p EXCEPT !.Flag = "FlagReply"]
           IN  /\ reply \in Packets /\ reply.Seq = p.Seq /\ p.c \in Clients /\ p.Seq \in Nat
               /\ p.Flag = "FlagEcho" => [reply EXCEPT !.Flag = "FlagEcho"] = p
BY DEF Packets

\* What is delivered is gone, or comes again.
LEMMA DeliverFacts ==
    ASSUME ServerTypes, NEW p, NEW out \in SUBSET Packets, Deliver(p, out)
    PROVE  net' \subseteq Packets /\ dups' \in 0..MaxDup
<1>1. net \subseteq Packets /\ dups \in 0..MaxDup /\ MaxDup \in Nat
  BY PacketAssumption DEF ServerTypes
<1>2. CASE net' = (net \ {p}) \cup out /\ dups' = dups
  BY <1>1, <1>2
<1>3. CASE dups < MaxDup /\ dups' = dups + 1 /\ net' = net \cup out
  BY <1>1, <1>3
<1>4. QED
  BY <1>2, <1>3 DEF Deliver

\* The server records and echoes a packet, or drops it.
LEMMA ServeStep ==
    ASSUME TypeOK, ServerInv, NEW p \in net, Serve(p)
    PROVE  ServerTypes' /\ ServerInv'
<1> DEFINE flow == conf[p.c].Flow
           reply == [p EXCEPT !.Flag = "FlagReply"]
<1>1. ServerTypes /\ p \in Packets
  BY TypeParts DEF ServerTypes
<1>2. /\ reply \in Packets /\ reply.Seq = p.Seq /\ p.c \in Clients /\ p.Seq \in Nat
      /\ p.Flag = "FlagEcho" => [reply EXCEPT !.Flag = "FlagEcho"] = p
  BY <1>1, ReplyFacts
<1>3. conf' = conf /\ main' = main /\ srv = "read"
  BY DEF Serve
<1> HIDE DEF reply
<1>4. /\ \A x \in DOMAIN f : x \in DOMAIN f' /\ f'[x] = f[x]
      /\ flow \in DOMAIN f'
      /\ flow \in DOMAIN f \/ f'[flow] = p.c
      /\ \A x \in DOMAIN f' : f'[x] \in Clients
  <2>1. f' = IF flow \in DOMAIN f THEN f
             ELSE [x \in DOMAIN f \cup {flow} |-> IF x = flow THEN p.c ELSE f[x]]
    BY DEF Serve
  <2> HIDE DEF flow
  <2>2. \A x \in DOMAIN f : f[x] \in Clients
    BY <1>1 DEF ServerTypes
  <2>3. CASE flow \in DOMAIN f
    BY <2>1, <2>2, <2>3
  <2>4. CASE flow \notin DOMAIN f
    BY <1>2, <2>1, <2>2, <2>4
  <2>5. QED
    BY <2>3, <2>4
<1>5. Packets' = Packets
  BY DEF Packets
<1>6. CASE UNCHANGED <<srv, d, heard, echoed>> /\ Deliver(p, {})
  <2>1. net' \subseteq Packets /\ dups' \in 0..MaxDup
    BY <1>1, <1>6, DeliverFacts
  <2>2. ServerTypes'
    BY <1>1, <1>3, <1>4, <1>5, <1>6, <2>1 DEF ServerTypes
  <2>3. Answered' = Answered /\ Unechoed' = Unechoed
    BY <1>6 DEF Answered, Unechoed
  <2>5. ServerInv'
    BY <1>3, <1>4, <1>6, <2>3 DEF ServerInv
  <2>4. QED
    BY <2>2, <2>5
<1>7. CASE ~(flow \in DOMAIN f /\ f[flow] # p.c) /\ f'[flow] = p.c /\ heard' = heard \cup {p}
  <2>1. heard' \subseteq Packets
    BY <1>1, <1>7 DEF ServerTypes
  <2>2. \A q \in heard' : conf[q.c].Flow \in DOMAIN f' /\ f'[conf[q.c].Flow] = q.c
    BY <1>4, <1>7 DEF ServerInv
  <2>3. d = Answered /\ Unechoed = {}
    BY <1>3 DEF ServerInv, Unechoed
  <2>4. CASE /\ Echoes(p) /\ d' = d \cup {p.Seq} /\ echoed' = Append(echoed, reply)
             /\ srv' = srv /\ Deliver(p, {reply})
    <3>1. p.Flag = "FlagEcho" /\ p.Seq \notin d
      BY <2>4 DEF Echoes
    <3>2. net' \subseteq Packets /\ dups' \in 0..MaxDup
      BY <1>1, <1>2, <2>4, DeliverFacts
    <3> DEFINE n == Len(echoed) + 1
    <3>3. /\ echoed \in Seq(Packets) /\ Len(echoed) \in Nat /\ DOMAIN echoed = 1 .. Len(echoed)
      BY <1>1 DEF ServerTypes
    <3>4. /\ echoed' \in Seq(Packets) /\ DOMAIN echoed' = 1 .. n /\ echoed'[n] = reply
          /\ \A j \in 1 .. Len(echoed) : echoed'[j] = echoed[j]
      BY <1>2, <2>4, <3>3
    <3>5. \A j \in DOMAIN echoed' : j = n \/ (j \in DOMAIN echoed /\ echoed'[j] = echoed[j])
      BY <3>3, <3>4
    <3>6. n \in DOMAIN echoed' /\ \A j \in DOMAIN echoed : j \in DOMAIN echoed' /\ echoed'[j] = echoed[j]
      BY <3>3, <3>4
    <3> HIDE DEF n
    <3>7. ServerTypes'
      BY <1>1, <1>2, <1>3, <1>4, <1>5, <2>1, <2>4, <3>2, <3>4 DEF ServerTypes
    <3>8. d' = Answered'
      BY <1>2, <2>3, <2>4, <3>4, <3>5, <3>6 DEF Answered
    <3>9. \A j \in DOMAIN echoed : echoed[j].Seq # p.Seq
      BY <2>3, <3>1 DEF Answered
    <3>10. \A j, k \in DOMAIN echoed' : echoed'[j].Seq = echoed'[k].Seq => j = k
      BY <1>2, <3>4, <3>5, <3>9 DEF ServerInv
    <3>11. \A j \in DOMAIN echoed' : [echoed'[j] EXCEPT !.Flag = "FlagEcho"] \in heard'
      <4>1. TAKE j \in DOMAIN echoed'
      <4>2. CASE j = n
        BY <1>2, <1>7, <3>1, <3>4, <4>2
      <4>3. CASE j \in DOMAIN echoed /\ echoed'[j] = echoed[j]
        BY <1>7, <4>3 DEF ServerInv
      <4>4. QED
        BY <3>5, <4>2, <4>3
    <3>12. \A q \in heard' : q.Flag = "FlagEcho" => q.Seq \in d'
      BY <1>7, <2>4 DEF ServerInv
    <3>13. Unechoed' = {}
      BY <3>8, <3>12 DEF Unechoed
    <3>14. ServerInv'
      BY <1>3, <2>2, <3>8, <3>10, <3>11, <3>12, <3>13 DEF ServerInv
    <3>15. QED
      BY <3>7, <3>14
  <2>5. CASE /\ Echoes(p) /\ d' = d \cup {p.Seq} /\ echoed' = echoed
             /\ srv' = "stuck" /\ Deliver(p, {})
    <3>1. net' \subseteq Packets /\ dups' \in 0..MaxDup
      BY <1>1, <2>5, DeliverFacts
    <3>2. ServerTypes'
      BY <1>1, <1>2, <1>3, <1>4, <1>5, <2>1, <2>5, <3>1 DEF ServerTypes
    <3>3. \A q \in heard' : q.Flag = "FlagEcho" => q.Seq \in d'
      BY <1>7, <2>5 DEF ServerInv
    <3>4. \A j \in DOMAIN echoed' : [echoed'[j] EXCEPT !.Flag = "FlagEcho"] \in heard'
      BY <1>7, <2>5 DEF ServerInv
    <3>5. Answered' = Answered
      BY <2>5 DEF Answered
    <3>6. \A q \in Unechoed' : q = p
      BY <1>7, <2>3, <3>5 DEF Unechoed
    <3>7. \A q, r \in Unechoed' : q = r
      BY <3>6
    <3>8. ServerInv'
      BY <1>3, <2>2, <2>3, <2>5, <3>3, <3>4, <3>5, <3>7 DEF ServerInv
    <3>9. QED
      BY <3>2, <3>8
  <2>6. CASE ~Echoes(p) /\ d' = d /\ echoed' = echoed /\ srv' = srv /\ Deliver(p, {})
    <3>1. net' \subseteq Packets /\ dups' \in 0..MaxDup
      BY <1>1, <2>6, DeliverFacts
    <3>2. ServerTypes'
      BY <1>1, <1>3, <1>4, <1>5, <2>1, <2>6, <3>1 DEF ServerTypes
    <3>3. \A q \in heard' : q.Flag = "FlagEcho" => q.Seq \in d'
      BY <1>7, <2>6 DEF ServerInv, Echoes
    <3>4. \A j \in DOMAIN echoed' : [echoed'[j] EXCEPT !.Flag = "FlagEcho"] \in heard'
      BY <1>7, <2>6 DEF ServerInv
    <3>5. Answered' = Answered
      BY <2>6 DEF Answered
    <3>6. Unechoed' = {}
      BY <2>3, <2>6, <3>3, <3>5 DEF Unechoed
    <3>7. ServerInv'
      BY <1>3, <2>2, <2>3, <2>6, <3>3, <3>4, <3>5, <3>6 DEF ServerInv
    <3>8. QED
      BY <3>2, <3>7
  <2>7. Echo(p) => ServerTypes' /\ ServerInv'
    BY <2>4, <2>5, <2>6 DEF Echo, reply
  <2>8. CASE Echo(p)
    BY <2>7, <2>8
  <2>9. QED
    BY <1>7, <2>8 DEF Serve
<1>8. QED
  <2>1. CASE flow \in DOMAIN f /\ f[flow] # p.c
    BY <1>6, <2>1 DEF Serve
  <2>2. CASE ~(flow \in DOMAIN f /\ f[flow] # p.c)
    BY <1>4, <1>7, <2>2 DEF Serve
  <2>3. QED
    BY <2>1, <2>2

-----------------------------------------------------------------------------
(* The steps together.                                                     *)

\* The server's maps are the same.
LEMMA KeptServer ==
    ASSUME ServerInv, conf' = conf, f' = f, d' = d, heard' = heard, echoed' = echoed,
           srv' = srv \/ srv' = "stuck"
    PROVE  ServerInv'
<1>1. Answered' = Answered /\ Unechoed' = Unechoed
  BY DEF Answered, Unechoed
<1>2. QED
  BY <1>1 DEF ServerInv

\* Every step keeps the invariant: one of a client, of the server, or of the clock.
LEMMA StepInv ==
    ASSUME PacketInv, [Next]_vars
    PROVE  PacketInv'
<1>1. TypeOK /\ ServerInv /\ \A c \in Clients : ClientInv(c)
  BY DEF PacketInv, ClientInv
<1>2. ClientTypes /\ ServerTypes
  BY <1>1, TypeParts
<1>3. SUFFICES ClientTypes' /\ ServerTypes' /\ ServerInv' /\ \A c \in Clients : ClientInv(c)'
  <2>1. TypeOK' <=> ClientTypes' /\ ServerTypes'
    BY TypeParts, PTL
  <2>2. QED
    BY <2>1 DEF PacketInv, ClientInv
<1>4. ASSUME NEW c \in Clients, First(c) \/ Fire(c) \/ Others(c)
      PROVE  ClientTypes' /\ ServerTypes' /\ ServerInv' /\ \A j \in Clients : ClientInv(j)'
  <2>1. ClientTypes' /\ ServerTypes' /\ ClientInv(c)'
    BY <1>1, <1>4, CallTypes, OtherTypes, CallClient, OtherClient
  <2>2. \A j \in Clients \ {c} : ClientInv(j)'
    BY <1>1, <1>4, OtherKept, KeptClient
  <2>3. conf' = conf /\ f' = f /\ d' = d /\ heard' = heard /\ echoed' = echoed /\ srv' = srv
    BY <1>4 DEF First, Fire, Others, Arm, FireFails, LastWait, FromReader, Drained, CtxDone,
           ReadReply, ReadFails, Cancel, serverVars
  <2>4. QED
    BY <1>1, <2>1, <2>2, <2>3, KeptServer
<1>5. ASSUME UNCHANGED <<conf, ctx, pc, sender, timerQ, t, res, u, log, open, rd>>,
             now' \in 0..MaxNow
      PROVE  ClientTypes' /\ \A c \in Clients : ClientInv(c)'
  <2>1. \A c \in Clients : Kept(c)
    BY <1>5 DEF Kept
  <2>2. ClientTypes'
    BY <1>2, <1>5 DEF ClientTypes, Timers, NoTimer, PacketTimer, Unresponsive, Entry
  <2>3. QED
    BY <1>1, <2>1, <2>2, KeptClient
<1>6. ASSUME UNCHANGED <<f, d, heard, echoed, net, dups>>, conf' = conf,
             main' \in {"run", "done"}, srv' = srv \/ srv' = "stuck"
      PROVE  ServerTypes' /\ ServerInv'
  <2>1. ServerTypes'
    BY <1>2, <1>6 DEF ServerTypes, Packets
  <2>2. QED
    BY <1>1, <1>6, <2>1, KeptServer
<1>7. now \in 0..MaxNow /\ main \in {"run", "done"} /\ srv \in {"read", "stuck"}
  BY <1>2 DEF ClientTypes, ServerTypes
<1>8. CASE MainExits
  <2>1. /\ UNCHANGED <<conf, ctx, pc, sender, timerQ, t, res, u, log, open, rd>> /\ now' = now
        /\ UNCHANGED <<f, d, heard, echoed, net, dups>> /\ main' = "done" /\ srv' = srv
    BY <1>8 DEF MainExits, clientVars
  <2>2. QED
    BY <1>5, <1>6, <1>7, <2>1
<1>9. CASE ServerReadFails
  <2>1. /\ UNCHANGED <<conf, ctx, pc, sender, timerQ, t, res, u, log, open, rd>> /\ now' = now
        /\ UNCHANGED <<f, d, heard, echoed, net, dups>> /\ main' = main /\ srv' = "stuck"
    BY <1>9 DEF ServerReadFails, clientVars
  <2>2. QED
    BY <1>5, <1>6, <1>7, <2>1
<1>10. CASE Tick
  <2>1. /\ UNCHANGED <<conf, ctx, pc, sender, timerQ, t, res, u, log, open, rd>>
        /\ now' = now + 1
        /\ UNCHANGED <<f, d, heard, echoed, net, dups>> /\ main' = main /\ srv' = srv
    BY <1>10 DEF Tick, clientVars, serverVars
  <2>2. now + 1 \in 0..MaxNow
    <3>0. PICK c \in Clients : \E i \in DOMAIN conf[c].Sender : now < conf[c].Sender[i].Duration
      BY <1>10 DEF Tick
    <3>1. PICK i \in DOMAIN conf[c].Sender : now < conf[c].Sender[i].Duration
      BY <3>0
    <3>2. conf[c].Sender[i].Duration \in Nat /\ conf[c].Sender[i].Duration <= MaxNow
      BY <1>2, SenderFacts DEF ClientTypes
    <3>3. QED
      BY <1>7, <3>1, <3>2, PacketAssumption
  <2>3. QED
    BY <1>5, <1>6, <1>7, <2>1, <2>2
<1>11. ASSUME NEW p \in net, Serve(p)
       PROVE  ClientTypes' /\ ServerTypes' /\ ServerInv' /\ \A j \in Clients : ClientInv(j)'
  <2>1. UNCHANGED <<conf, ctx, pc, sender, timerQ, t, res, u, log, open, rd>> /\ now' = now
    BY <1>11 DEF Serve, clientVars
  <2>2. QED
    BY <1>1, <1>5, <1>7, <1>11, <2>1, ServeStep
<1>12. CASE UNCHANGED vars
  <2>1. /\ UNCHANGED <<conf, ctx, pc, sender, timerQ, t, res, u, log, open, rd>> /\ now' = now
        /\ UNCHANGED <<f, d, heard, echoed, net, dups>> /\ main' = main /\ srv' = srv
    BY <1>12 DEF vars, clientVars, serverVars
  <2>2. QED
    BY <1>5, <1>6, <1>7, <2>1
<1>13. QED
  BY <1>4, <1>8, <1>9, <1>10, <1>11, <1>12 DEF Next, RunStep, Others

\* There is nothing in an empty sequence.
LEMMA EmptyFacts == DOMAIN <<>> = {} /\ \A X : <<>> \in Seq(X)
OBVIOUS

\* It holds before the clients have done anything.
LEMMA InitInv == Init => PacketInv
<1> SUFFICES ASSUME Init PROVE PacketInv
  OBVIOUS
<1>1. conf \in Confs
  BY DEF Init
<1>2. NoTimer \in PacketTimer /\ \A c \in Clients : Timers(c) = {}
  BY DEF Init, NoTimer, PacketTimer, Timers
<1>3. ASSUME NEW c \in Clients PROVE u[c] \in [DOMAIN conf[c].Sender -> Unresponsive]
  <2>1. [done |-> 0, started |-> FALSE, waitIndex |-> 1] \in Unresponsive
    <3>1. FALSE \in BOOLEAN
      OBVIOUS
    <3>2. QED
      BY <3>1 DEF Unresponsive
  <2>2. u[c] = [i \in DOMAIN conf[c].Sender |-> [done |-> 0, started |-> FALSE, waitIndex |-> 1]]
    BY DEF Init
  <2>3. QED
    BY <2>1, <2>2
<1>4. ClientTypes
  <2>1. /\ now \in 0..MaxNow /\ ctx \subseteq Clients /\ open \subseteq Clients
        /\ sender \in [Clients -> Nat]
        /\ res \in [Clients -> {"none", "ok", "error"}]
        /\ DOMAIN u = Clients
    <3>1. now = 0 /\ ctx = {} /\ sender = [c \in Clients |-> 1] /\ res = [c \in Clients |-> "none"]
      BY DEF Init
    <3>2. open \subseteq Clients /\ DOMAIN u = Clients
      BY DEF Init
    <3>3. QED
      BY <3>1, <3>2, PacketAssumption
  <2>5. pc \in [Clients -> {"first", "arm", "select", "drain", "done"}]
    <3>1. pc = [c \in Clients |-> IF conf[c].Sender = <<>> THEN "done" ELSE "first"]
      BY DEF Init
    <3>2. QED
      BY <3>1
  <2>6. rd \in [Clients -> {"read", "send", "error", "closed"}]
    <3>1. rd = [c \in Clients |-> IF c \in open THEN "read" ELSE "closed"]
      BY DEF Init
    <3>2. QED
      BY <3>1
  <2>2. timerQ \in [Clients -> SUBSET PacketTimer] /\ t \in [Clients -> PacketTimer]
    BY <1>2 DEF Init
  <2>3. log \in [Clients -> Seq(Entry)]
    <3>1. <<>> \in Seq(Entry)
      OBVIOUS
    <3>2. QED
      BY <3>1 DEF Init
  <2>4. QED
    BY <1>1, <1>2, <1>3, <2>1, <2>2, <2>3, <2>5, <2>6 DEF ClientTypes
<1>5. ServerTypes /\ ServerInv
  <2>1. DOMAIN echoed = {} /\ echoed \in Seq(Packets)
    <3>1. echoed = <<>>
      BY DEF Init
    <3>2. QED
      BY <3>1, EmptyFacts
  <2>2. DOMAIN f = {} /\ d = {} /\ heard = {} /\ net = {} /\ dups \in 0..MaxDup
    <3>1. f = <<>> /\ d = {} /\ heard = {} /\ net = {} /\ dups = 0
      BY DEF Init
    <3>2. QED
      BY <3>1, EmptyFacts, PacketAssumption
  <2>3. main = "run" /\ srv = "read"
    BY DEF Init
  <2>4. Answered = {} /\ Unechoed = {}
    BY <2>1, <2>2 DEF Answered, Unechoed
  <2>5. QED
    BY <2>1, <2>2, <2>3, <2>4 DEF ServerTypes, ServerInv
<1>6. ASSUME NEW c \in Clients PROVE QueueInv(c) /\ RunInv(c) /\ SenderInv(c)
  <2>1. DOMAIN log[c] = {} /\ t[c] = NoTimer /\ timerQ[c] = {}
    <3>1. log[c] = <<>> /\ t[c] = NoTimer /\ timerQ[c] = {}
      BY DEF Init
    <3>2. QED
      BY <3>1, EmptyFacts
  <2>2. QueueInv(c)
    BY <1>2, <2>1 DEF QueueInv
  <2>3. /\ Len(conf[c].Sender) \in Nat /\ DOMAIN conf[c].Sender = 1 .. Len(conf[c].Sender)
        /\ \A i \in DOMAIN conf[c].Sender : i \in Nat /\ i > 0
    BY <1>1, SenderFacts
  <2>4. RunInv(c)
    <3>1. pc[c] \in {"first", "done"} /\ sender[c] = 1 /\ res[c] = "none"
      BY DEF Init
    <3>2. pc[c] = "first" => 1 \in DOMAIN conf[c].Sender
      <4>1. conf[c].Sender \in Seq(Sender)
        BY <1>1, PacketAssumption
      <4>2. pc[c] = "first" => conf[c].Sender # <<>>
        BY DEF Init
      <4>3. QED
        BY <2>3, <4>1, <4>2, EmptySeq
    <3>3. \A i \in DOMAIN conf[c].Sender : ~u[c][i].started /\ ~(i < 1)
      <4>1. u[c] = [i \in DOMAIN conf[c].Sender |-> [done |-> 0, started |-> FALSE, waitIndex |-> 1]]
        BY DEF Init
      <4>2. \A i \in DOMAIN conf[c].Sender : ~u[c][i].started
        BY <4>1
      <4>3. QED
        BY <2>3, <4>2
    <3>4. QED
      BY <2>1, <3>1, <3>2, <3>3 DEF RunInv
  <2>5. ASSUME NEW i \in DOMAIN conf[c].Sender
        PROVE  \E k \in 0 .. conf[c].Sender[i].Duration + 1 : Scheduled(c, i, k) /\ SentFor(c, i, k)
    <3> DEFINE s == conf[c].Sender[i]
    <3>1. Sends(s) /\ s.Duration \in Nat
      BY <1>1, SenderFacts
    <3>2. 0 \in 0 .. s.Duration + 1
      BY <3>1
    <3>3. ~u[c][i].started /\ u[c][i].waitIndex = 1
      BY DEF Init
    <3>4. 0 % Len(s.Wait) = 0
      <4>1. Len(s.Wait) \in Nat \ {0}
        BY <3>1, WaitFacts
      <4> DEFINE n == Len(s.Wait)
      <4>4. n \in Nat /\ n > 0
        BY <4>1
      <4> HIDE DEF n
      <4>2. 0 % n = 0
        BY <4>4
      <4>3. QED
        BY <4>2 DEF n
    <3>5. Scheduled(c, i, 0)
      <4> DEFINE z == 0 % Len(s.Wait)
      <4>1. z = 0
        BY <3>4
      <4> HIDE DEF z
      <4>2. u[c][i].waitIndex = z + 1
        BY <3>3, <4>1
      <4>3. u[c][i].waitIndex = (0 % Len(s.Wait)) + 1
        BY <4>2 DEF z
      <4>4. 1 .. 0 - 1 = {} /\ ~(0 > 0) /\ Timers(c) = {}
        BY <1>2
      <4>5. QED
        BY <3>3, <4>3, <4>4 DEF Scheduled
    <3>6. SentFor(c, i, 0)
      <4>1. Sent(c, i) = {}
        BY <2>1 DEF Sent
      <4>2. QED
        BY <4>1 DEF SentFor
    <3>7. QED
      BY <3>2, <3>5, <3>6
  <2>6. SenderInv(c)
    BY <2>5 DEF SenderInv
  <2>7. QED
    BY <2>2, <2>4, <2>6
<1>7. QED
  BY <1>4, <1>5, <1>6, TypeParts DEF PacketInv

\* PacketInv always holds: for any clients and Senders, however timers are late,
\* and whatever the network loses, duplicates and reorders.
THEOREM PacketCorrect == Spec => []PacketInv
<1>1. Init => PacketInv
  BY InitInv
<1>2. PacketInv /\ [Next]_vars => PacketInv'
  BY StepInv
<1>3. QED
  BY <1>1, <1>2, PTL DEF Spec

\* A packet is echoed once at most, to the client that sent it, and always unless
\* its Seq was echoed before or the server has failed at its reply.
THEOREM EchoedOnceAlways == Spec => []EchoedOnce
<1>1. ASSUME ServerInv PROVE EchoedOnce
  <2>1. \A j, k \in DOMAIN echoed : echoed[j] = echoed[k] => j = k
    BY <1>1 DEF ServerInv
  <2>2. \A j \in DOMAIN echoed : [echoed[j] EXCEPT !.Flag = "FlagEcho"] \in heard
    BY <1>1 DEF ServerInv
  <2>3. \A p, q \in heard : conf[p.c].Flow = conf[q.c].Flow => p.c = q.c
    <3>1. \A p \in heard : f[conf[p.c].Flow] = p.c
      BY <1>1 DEF ServerInv
    <3>2. QED
      BY <3>1
  <2>4. srv = "read" => Unechoed = {}
    BY <1>1 DEF ServerInv, Unechoed
  <2>5. \A p, q \in Unechoed : p = q
    BY <1>1 DEF ServerInv
  <2>6. QED
    BY <2>1, <2>2, <2>3, <2>4, <2>5 DEF EchoedOnce
<1>2. PacketInv => EchoedOnce
  BY <1>1 DEF PacketInv
<1>3. QED
  BY <1>2, PacketCorrect, PTL

\* What the calls so far have sent is the schedule up to there; all of it if
\* there is no timer left.
LEMMA SchedulePart ==
    ASSUME TypeOK, NEW c \in Clients, ClientInv(c), NEW i \in DOMAIN conf[c].Sender
    PROVE  LET sent == {log[c][j].at : j \in Sent(c, i)}
               all == Times(conf[c].Sender[i])
           IN  /\ \A j, k \in Sent(c, i) : log[c][j].at = log[c][k].at => j = k
               /\ sent \subseteq all
               /\ \A a \in all, b \in sent : a < b => a \in sent
               /\ res[c] = "ok" /\ c \notin ctx => sent = all
<1> DEFINE s == conf[c].Sender[i]
           at == At(s)
           D == s.Duration
           sent == {log[c][j].at : j \in Sent(c, i)}
           all == Times(s)
<1>1. Sends(s)
  BY SenderFacts DEF TypeOK
<1>2. /\ D \in Nat
      /\ \A k \in 0 .. D + 1 : at[k] \in Nat /\ at[k] >= k
      /\ \A k \in 0 .. D + 1 : \A m \in 0 .. k - 1 : at[m] < at[k]
  BY <1>1, AtFacts
<1>3. PICK k \in 0 .. D + 1 : Scheduled(c, i, k) /\ SentFor(c, i, k)
  BY DEF ClientInv, SenderInv
<1> DEFINE Due(m) == m = 0 => ~s.WaitFirst
<1>4. all = {at[m] : m \in {m \in 0 .. D : IF m = 0 THEN ~s.WaitFirst ELSE at[m] < D}}
  BY DEF Times
<1>5. /\ u[c][i].started <=> k > 0
      /\ \A m \in 1 .. k - 1 : at[m] < D
      /\ k > 0 /\ at[k] < D => Timers(c) # {}
  BY <1>3 DEF Scheduled
<1>6. /\ \A j \in Sent(c, i) : \E m \in 0 .. k - 1 : Due(m) /\ log[c][j].at = at[m]
      /\ \A m \in 0 .. k - 1 : Due(m) => \E j \in Sent(c, i) : log[c][j].at = at[m]
      /\ \A j, l \in Sent(c, i) : log[c][j].at = log[c][l].at => j = l
  BY <1>3 DEF SentFor
<1>7. /\ \A a \in sent : \E m \in 0 .. k - 1 : Due(m) /\ a = at[m]
      /\ \A m \in 0 .. k - 1 : Due(m) => at[m] \in sent
  BY <1>6
<1> HIDE DEF s, at, D, sent, all
<1>8. \A m \in 0 .. k - 1 : /\ m \in 0 .. D /\ m \in 0 .. D + 1
                            /\ m # 0 => m \in 1 .. k - 1
  BY <1>2
<1>9. ASSUME NEW a \in sent PROVE a \in all
  <2>2. PICK m \in 0 .. k - 1 : Due(m) /\ a = at[m]
    BY <1>7
  <2>3. m \in 0 .. D /\ IF m = 0 THEN ~s.WaitFirst ELSE at[m] < D
    BY <1>5, <1>8, <2>2
  <2>4. QED
    BY <1>4, <2>2, <2>3
<1>10. ASSUME NEW a \in all
       PROVE  \E m \in 0 .. D : Due(m) /\ a = at[m] /\ (m # 0 => at[m] < D)
  <2>1. PICK m \in {m \in 0 .. D : IF m = 0 THEN ~s.WaitFirst ELSE at[m] < D} : a = at[m]
    BY <1>4
  <2>2. QED
    BY <2>1
<1>11. \A a \in all, b \in sent : a < b => a \in sent
  <2>1. TAKE a \in all, b \in sent
  <2>2. HAVE a < b
  <2>3. PICK m \in 0 .. D : Due(m) /\ a = at[m]
    BY <1>10
  <2>4. PICK l \in 0 .. k - 1 : b = at[l]
    BY <1>7
  <2>5. m < l
    <3>1. SUFFICES ASSUME ~(m < l) PROVE FALSE
      OBVIOUS
    <3>2. m \in 0 .. D + 1 /\ l \in 0 .. D + 1 /\ (l = m \/ l \in 0 .. m - 1)
      BY <1>2, <1>8, <2>4, <3>1
    <3>3. at[l] \in Nat /\ at[m] \in Nat /\ (l = m \/ at[l] < at[m])
      BY <1>2, <3>2
    <3>4. QED
      BY <2>2, <2>3, <2>4, <3>3
  <2>6. m \in 0 .. k - 1
    BY <1>2, <2>4, <2>5
  <2>7. QED
    BY <1>7, <2>3, <2>6
<1>12. ASSUME res[c] = "ok", c \notin ctx PROVE sent = all
  <2>1. Timers(c) = {} /\ u[c][i].started
    BY <1>12 DEF ClientInv, RunInv
  <2>2. k > 0 /\ ~(at[k] < D)
    BY <1>5, <2>1
  <2>3. ASSUME NEW a \in all PROVE a \in sent
    <3>1. PICK m \in 0 .. D : Due(m) /\ a = at[m] /\ (m # 0 => at[m] < D)
      BY <1>10
    <3>2. m < k
      <4>1. SUFFICES ASSUME ~(m < k) PROVE FALSE
        OBVIOUS
      <4>2. m # 0 /\ m \in 0 .. D + 1 /\ (k = m \/ k \in 0 .. m - 1)
        BY <1>2, <2>2, <4>1
      <4>3. at[k] \in Nat /\ at[m] \in Nat /\ (k = m \/ at[k] < at[m])
        BY <1>2, <4>2
      <4>4. at[m] < D
        BY <3>1, <4>2
      <4>5. QED
        BY <1>2, <2>2, <4>3, <4>4
    <3>3. m \in 0 .. k - 1
      BY <1>2, <3>2
    <3>4. QED
      BY <1>7, <3>1, <3>3
  <2>4. QED
    BY <1>9, <2>3
<1>13. QED
  <2>1. sent \subseteq all
    BY <1>9
  <2>2. QED
    BY <1>6, <1>11, <1>12, <2>1 DEF s, sent, all

\* Packets are sent in order, not early, as scheduled, and all of them.
THEOREM ScheduleKeptAlways == Spec => []ScheduleKept
<1>1. ASSUME PacketInv PROVE ScheduleKept
  <2>1. TypeOK /\ \A c \in Clients : QueueInv(c) /\ ClientInv(c)
    BY <1>1 DEF PacketInv, ClientInv
  <2>2. \A c \in Clients :
           /\ \A j, k \in DOMAIN log[c] : j < k => log[c][j].at <= log[c][k].at
           /\ \A k \in DOMAIN log[c] : log[c][k].at <= log[c][k].now
    BY <2>1 DEF QueueInv
  <2>3. QED
    BY <2>1, <2>2, SchedulePart DEF ScheduleKept
<1>2. PacketInv => ScheduleKept
  BY <1>1
<1>3. QED
  BY <1>2, PacketCorrect, PTL
=============================================================================
