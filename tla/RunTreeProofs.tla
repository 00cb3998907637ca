---------------------------- MODULE RunTreeProofs -----------------------------
(***************************************************************************)
(* Proofs of the safety properties of RunTree, for any trees of Runs, and  *)
(* of what its recursive functions compute.                                *)
(***************************************************************************)
EXTENDS RunTree, WellFoundedInduction, SequenceTheorems, TLAPS

-----------------------------------------------------------------------------
(* Recursive functions, by induction: the least counterexample.            *)

\* A set of natural numbers has a smallest one.
LEMMA Smallest ==
    ASSUME NEW T \in SUBSET Nat, T # {}
    PROVE  \E x \in T : \A y \in T : x <= y
<1>1. IsWellFoundedOn(OpToRel(<, Nat), Nat)
  BY NatLessThanWellFounded
<1>2. PICK x \in T : \A y \in T : ~(<<y, x>> \in OpToRel(<, Nat))
  BY <1>1, WFMin
<1>3. \A y \in T : ~(y < x)
  BY <1>2 DEF OpToRel
<1>4. QED
  BY <1>3

\* A set that has 0, and n + 1 with every n, has all natural numbers.
LEMMA Induction ==
    ASSUME NEW T \in SUBSET Nat, 0 \in T, \A n \in T : n + 1 \in T
    PROVE  T = Nat
<1>1. SUFFICES ASSUME Nat \ T # {} PROVE FALSE
  OBVIOUS
<1>2. PICK x \in Nat \ T : \A y \in Nat \ T : x <= y
  BY <1>1, Smallest
<1>3. x # 0 /\ x - 1 \in Nat
  BY <1>2
<1>4. x - 1 \in T
  BY <1>2, <1>3
<1>5. (x - 1) + 1 \in T
  BY <1>4
<1>6. QED
  BY <1>2, <1>5

-----------------------------------------------------------------------------
(* sampleRun.                                                              *)

\* The function g has the sums of the first k weights.
Sums(ws, g, k) == \A i \in 1 .. k : g[i] = ws[i] + (IF i = 1 THEN 0 ELSE g[i - 1])

\* cumulativeWeights has the sum of the weights up to each.
LEMMA CumulativeFacts ==
    ASSUME NEW ws \in Seq(Nat)
    PROVE  /\ Cumulative(ws) \in [1 .. Len(ws) -> Nat]
           /\ \A i \in 1 .. Len(ws) :
                 Cumulative(ws)[i] = ws[i] + (IF i = 1 THEN 0 ELSE Cumulative(ws)[i - 1])
<1> DEFINE N == Len(ws)
           T == {k \in Nat : k <= N => \E g \in [1 .. N -> Nat] : Sums(ws, g, k)}
<1>1. N \in Nat /\ DOMAIN ws = 1 .. N /\ \A i \in 1 .. N : ws[i] \in Nat
  OBVIOUS
<1>2. 0 \in T
  <2>1. [i \in 1 .. N |-> 0] \in [1 .. N -> Nat]
    OBVIOUS
  <2>2. Sums(ws, [i \in 1 .. N |-> 0], 0)
    BY DEF Sums
  <2>3. QED
    BY <2>1, <2>2
<1>3. ASSUME NEW k \in T PROVE k + 1 \in T
  <2>0. k \in Nat /\ k + 1 \in Nat /\ (k <= N => \E g \in [1 .. N -> Nat] : Sums(ws, g, k))
    OBVIOUS
  <2>1. SUFFICES ASSUME k + 1 <= N PROVE \E g \in [1 .. N -> Nat] : Sums(ws, g, k + 1)
    BY <2>0
  <2>2. k + 1 \in 1 .. N /\ k <= N
    BY <1>1, <2>0, <2>1
  <2>3. PICK g \in [1 .. N -> Nat] : Sums(ws, g, k)
    BY <2>0, <2>2
  <2> DEFINE x == ws[k + 1] + (IF k + 1 = 1 THEN 0 ELSE g[k])
             h == [g EXCEPT ![k + 1] = x]
  <2>4. x \in Nat
    <3>1. ws[k + 1] \in Nat
      BY <1>1, <2>2
    <3>2. k + 1 # 1 => g[k] \in Nat
      <4>1. k + 1 # 1 => k \in 1 .. N
        BY <1>1, <2>0, <2>2
      <4>2. QED
        BY <4>1
    <3>3. QED
      BY <3>1, <3>2
  <2> HIDE DEF x
  <2>5. h \in [1 .. N -> Nat] /\ h[k + 1] = x /\ \A i \in 1 .. k : h[i] = g[i]
    BY <2>0, <2>2, <2>4
  <2> HIDE DEF h
  <2>6. ASSUME NEW i \in 1 .. k + 1
        PROVE  h[i] = ws[i] + (IF i = 1 THEN 0 ELSE h[i - 1])
    <3>1. CASE i = k + 1
      <4>1. (k + 1) - 1 = k /\ (k + 1 # 1 => k \in 1 .. k)
        BY <2>0
      <4>2. k + 1 # 1 => h[k] = g[k]
        BY <2>5, <4>1
      <4>3. QED
        BY <2>5, <3>1, <4>1, <4>2 DEF x
    <3>2. CASE i \in 1 .. k
      <4>1. i # 1 => i - 1 \in 1 .. k
        BY <3>2
      <4>2. QED
        BY <2>3, <2>5, <3>2, <4>1 DEF Sums
    <3>3. QED
      BY <2>0, <3>1, <3>2
  <2>7. QED
    BY <2>5, <2>6 DEF Sums
<1>4. N \in T
  <2>1. T \in SUBSET Nat
    OBVIOUS
  <2> HIDE DEF T
  <2>2. QED
    BY <1>1, <1>2, <1>3, <2>1, Induction
<1>5. PICK g \in [1 .. N -> Nat] : Sums(ws, g, N)
  BY <1>1, <1>4
<1>6. g = [i \in DOMAIN ws |-> ws[i] + (IF i = 1 THEN 0 ELSE g[i - 1])]
  BY <1>1, <1>5 DEF Sums
<1> DEFINE c == Cumulative(ws)
<1>7. c = [i \in DOMAIN ws |-> ws[i] + (IF i = 1 THEN 0 ELSE c[i - 1])]
  BY <1>6 DEF Cumulative
<1> HIDE DEF c
<1>8. \A i \in 1 .. N : c[i] = ws[i] + (IF i = 1 THEN 0 ELSE c[i - 1])
  BY <1>1, <1>7
<1> DEFINE U == {k \in Nat : k + 1 <= N => c[k + 1] \in Nat}
<1>9. 0 \in U
  BY <1>1, <1>8
<1>10. ASSUME NEW k \in U PROVE k + 1 \in U
  <2>1. SUFFICES ASSUME k + 1 + 1 <= N PROVE c[k + 1 + 1] \in Nat
    OBVIOUS
  <2>2. k \in Nat /\ c[k + 1] \in Nat
    BY <1>1, <2>1
  <2>3. k + 2 \in 1 .. N /\ k + 2 # 1 /\ (k + 2) - 1 = k + 1 /\ k + 1 + 1 = k + 2
    BY <1>1, <2>1, <2>2
  <2>4. c[k + 2] = ws[k + 2] + c[k + 1]
    BY <1>8, <2>3
  <2>5. QED
    BY <1>1, <2>2, <2>3, <2>4
<1>11. U = Nat
  <2>1. U \in SUBSET Nat
    OBVIOUS
  <2> HIDE DEF U
  <2>2. QED
    BY <1>9, <1>10, <2>1, Induction
<1>12. ASSUME NEW i \in 1 .. N PROVE c[i] \in Nat
  <2>1. i - 1 \in Nat /\ (i - 1) + 1 = i /\ i <= N
    BY <1>1
  <2>2. i - 1 \in U
    BY <1>11, <2>1
  <2>3. QED
    BY <2>1, <2>2
<1>13. c \in [1 .. N -> Nat]
  BY <1>1, <1>7, <1>12
<1>14. QED
  BY <1>8, <1>13 DEF c

\* The sums do not decrease.
LEMMA CumulativeGrows ==
    ASSUME NEW ws \in Seq(Nat), NEW i \in 1 .. Len(ws), NEW j \in i .. Len(ws)
    PROVE  Cumulative(ws)[i] <= Cumulative(ws)[j]
<1> DEFINE N == Len(ws)
           c == Cumulative(ws)
           T == {d \in Nat : i + d <= N => c[i] <= c[i + d]}
<1>1. N \in Nat /\ c \in [1 .. N -> Nat] /\ i \in Nat /\ i >= 1
      /\ \A k \in 1 .. N : ws[k] \in Nat
  BY CumulativeFacts
<1>2. \A k \in 1 .. N : c[k] = ws[k] + (IF k = 1 THEN 0 ELSE c[k - 1])
  BY CumulativeFacts
<1> HIDE DEF N, c
<1>3. 0 \in T
  BY <1>1 DEF N
<1>4. ASSUME NEW d \in T PROVE d + 1 \in T
  <2>1. SUFFICES ASSUME i + (d + 1) <= N PROVE c[i] <= c[i + (d + 1)]
    OBVIOUS
  <2> DEFINE k == i + d
  <2>2. d \in Nat /\ k \in 1 .. N /\ k + 1 \in 1 .. N /\ k + 1 # 1 /\ i + (d + 1) = k + 1
        /\ (k + 1) - 1 = k
    BY <1>1, <2>1
  <2>3. c[i] <= c[k]
    BY <1>1, <2>1, <2>2
  <2> HIDE DEF k
  <2>4. c[k + 1] = ws[k + 1] + c[k]
    BY <1>2, <2>2
  <2>5. c[i] \in Nat /\ c[k] \in Nat /\ ws[k + 1] \in Nat
    BY <1>1, <2>2 DEF N
  <2>6. c[i] <= c[k + 1]
    BY <2>3, <2>4, <2>5
  <2>7. QED
    BY <2>2, <2>6
<1>5. T = Nat
  <2>1. T \in SUBSET Nat
    OBVIOUS
  <2> HIDE DEF T
  <2>2. QED
    BY <1>3, <1>4, <2>1, Induction
<1>6. j - i \in Nat /\ i + (j - i) = j /\ j <= N
  BY <1>1 DEF N
<1>7. j - i \in T
  BY <1>5, <1>6
<1>8. c[i] <= c[j]
  BY <1>6, <1>7
<1>9. QED
  BY <1>8 DEF c

\* One step of the search: s is applied to a smaller range.
Probe(c, v, s, r) ==
    IF r[1] >= r[2] THEN r[1]
    ELSE IF c[(r[1] + r[2]) \div 2] <= v THEN s[<<(r[1] + r[2]) \div 2 + 1, r[2]>>]
    ELSE s[<<r[1], (r[1] + r[2]) \div 2>>]

\* The middle of a range of two or more.
LEMMA Middle ==
    ASSUME NEW l \in Nat, NEW h \in Nat, l < h
    PROVE  (l + h) \div 2 \in Nat /\ l <= (l + h) \div 2 /\ (l + h) \div 2 < h
OBVIOUS

\* The function that Search defines exists: it recurs on smaller ranges.
LEMMA SearchExists ==
    ASSUME NEW N \in Nat, NEW c, NEW v
    PROVE  \E s : s = [r \in (1 .. N) \X (1 .. N) |-> Probe(c, v, s, r)]
<1> DEFINE D == (1 .. N) \X (1 .. N)
           Up(s, k) == \A r \in D : r[2] - r[1] <= k => s[r] = Probe(c, v, s, r)
           OnD(s) == s = [r \in D |-> s[r]]
           T == {k \in Nat : \E s : OnD(s) /\ Up(s, k)}
<1>1. 0 \in T
  <2> DEFINE s == [r \in D |-> r[1]]
  <2>1. OnD(s)
    OBVIOUS
  <2>2. ASSUME NEW r \in D, r[2] - r[1] <= 0 PROVE s[r] = Probe(c, v, s, r)
    <3>1. r[1] >= r[2] /\ s[r] = r[1]
      BY <2>2
    <3>2. QED
      BY <3>1 DEF Probe
  <2> HIDE DEF s, OnD
  <2>3. QED
    BY <2>1, <2>2
<1>2. ASSUME NEW k \in T PROVE k + 1 \in T
  <2>1. k \in Nat /\ k + 1 \in Nat
    OBVIOUS
  <2>2. PICK g : OnD(g) /\ Up(g, k)
    OBVIOUS
  <2> DEFINE s == [r \in D |-> IF r[2] - r[1] <= k THEN g[r] ELSE Probe(c, v, g, r)]
  <2>3. OnD(s)
    OBVIOUS
  <2>4. \A r \in D : r[2] - r[1] <= k => s[r] = g[r]
    OBVIOUS
  <2>5. \A r \in D : ~(r[2] - r[1] <= k) => s[r] = Probe(c, v, g, r)
    OBVIOUS
  <2> HIDE DEF s
  <2>6. ASSUME NEW r \in D, r[2] - r[1] <= k + 1 PROVE s[r] = Probe(c, v, s, r)
    <3> DEFINE m == (r[1] + r[2]) \div 2
    <3>1. r[1] \in 1 .. N /\ r[2] \in 1 .. N
      OBVIOUS
    <3>2. CASE r[1] >= r[2]
      <4>1. r[2] - r[1] <= k
        BY <2>1, <3>1, <3>2
      <4>2. s[r] = g[r] /\ g[r] = r[1]
        BY <2>2, <2>4, <3>2, <4>1 DEF Probe
      <4>3. QED
        BY <3>2, <4>2 DEF Probe
    <3>3. CASE r[1] < r[2]
      <4>1. m \in Nat /\ r[1] <= m /\ m < r[2]
        BY <3>1, <3>3, Middle
      <4> HIDE DEF m
      <4>2. <<m + 1, r[2]>> \in D /\ <<r[1], m>> \in D
        BY <3>1, <4>1
      <4>3. r[2] - (m + 1) <= k /\ m - r[1] <= k
        BY <2>1, <2>6, <3>1, <4>1
      <4>4. s[<<m + 1, r[2]>>] = g[<<m + 1, r[2]>>] /\ s[<<r[1], m>>] = g[<<r[1], m>>]
        BY <2>4, <4>2, <4>3
      <4>5. Probe(c, v, s, r) = Probe(c, v, g, r)
        BY <4>4 DEF Probe, m
      <4>6. s[r] = Probe(c, v, g, r)
        <5>1. CASE r[2] - r[1] <= k
          BY <2>2, <2>4, <5>1
        <5>2. CASE ~(r[2] - r[1] <= k)
          BY <2>5, <5>2
        <5>3. QED
          BY <5>1, <5>2
      <4>7. QED
        BY <4>5, <4>6
    <3>4. QED
      BY <3>1, <3>2, <3>3
  <2> HIDE DEF OnD
  <2>7. QED
    BY <2>1, <2>3, <2>6
<1>3. T = Nat
  <2>1. T \in SUBSET Nat
    OBVIOUS
  <2> HIDE DEF T
  <2>2. QED
    BY <1>1, <1>2, <2>1, Induction
<1>4. PICK s : OnD(s) /\ Up(s, N)
  <2>1. N \in T
    BY <1>3
  <2> HIDE DEF OnD, Up
  <2>2. QED
    BY <2>1
<1>5. \A r \in D : s[r] = Probe(c, v, s, r)
  <2>1. \A r \in D : r[2] - r[1] <= N
    OBVIOUS
  <2>2. QED
    BY <1>4, <2>1
<1>6. s = [r \in D |-> Probe(c, v, s, r)]
  BY <1>4, <1>5
<1>7. QED
  BY <1>6

\* The binary search of sampleRun, in c with sums that do not decrease: it returns
\* the first position whose sum is greater than v, if there is one.
THEOREM SearchCorrect ==
    ASSUME NEW N \in Nat \ {0}, NEW c \in [1 .. N -> Nat], NEW v \in Nat,
           \A i \in 1 .. N : \A j \in i .. N : c[i] <= c[j]
    PROVE  /\ Search(c, v) \in 1 .. N
           /\ v < c[N] => /\ v < c[Search(c, v)]
                          /\ \A i \in 1 .. Search(c, v) - 1 : c[i] <= v
<1> DEFINE D == (1 .. N) \X (1 .. N)
           s == CHOOSE s : s = [r \in D |-> Probe(c, v, s, r)]
<1>1. DOMAIN c = 1 .. N /\ Len(c) = N
  <2>1. c \in Seq(Nat) /\ DOMAIN c = 1 .. N
    OBVIOUS
  <2>2. QED
    BY <2>1, LenProperties
<1>2. Search(c, v) = s[<<1, N>>]
  BY <1>1 DEF Search, Probe
<1>3. s = [r \in D |-> Probe(c, v, s, r)]
  BY SearchExists, SMTT(20)
<1> HIDE DEF s
<1>4. \A r \in D : s[r] = Probe(c, v, s, r)
  BY <1>3
\* What it returns for a range from l to h.
<1> DEFINE Good(l, h, i) == /\ i \in l .. h
                            /\ v < c[h] /\ (\A j \in 1 .. l - 1 : c[j] <= v) =>
                                  v < c[i] /\ \A j \in 1 .. i - 1 : c[j] <= v
           T == {k \in Nat : \A l, h \in 1 .. N : l <= h /\ h - l <= k => Good(l, h, s[<<l, h>>])}
<1>5. ASSUME NEW l \in 1 .. N PROVE Good(l, l, s[<<l, l>>])
  <2>1. <<l, l>> \in D /\ <<l, l>>[1] = l /\ <<l, l>>[2] = l /\ l >= l
    OBVIOUS
  <2>2. s[<<l, l>>] = l
    BY <1>4, <2>1 DEF Probe
  <2>3. QED
    BY <2>2
<1>6. 0 \in T
  <2>1. ASSUME NEW l \in 1 .. N, NEW h \in 1 .. N, l <= h, h - l <= 0 PROVE Good(l, h, s[<<l, h>>])
    <3>1. l = h
      BY <2>1
    <3> HIDE DEF Good
    <3>2. QED
      BY <1>5, <3>1
  <2> HIDE DEF Good
  <2>2. QED
    BY <2>1
<1>7. ASSUME NEW k \in T PROVE k + 1 \in T
  <2>1. k \in Nat /\ k + 1 \in Nat
    OBVIOUS
  <2>2. \A l, h \in 1 .. N : l <= h /\ h - l <= k => Good(l, h, s[<<l, h>>])
    <3> HIDE DEF Good
    <3>1. QED
      OBVIOUS
  <2>3. ASSUME NEW l \in 1 .. N, NEW h \in 1 .. N, l <= h, h - l <= k + 1 PROVE Good(l, h, s[<<l, h>>])
    <3> DEFINE m == (l + h) \div 2
    <3>1. CASE l = h
      <4> HIDE DEF Good
      <4>1. QED
        BY <1>5, <3>1
    <3>2. CASE l < h
      <4>1. m \in Nat /\ l <= m /\ m < h
        BY <3>2, Middle
      <4>2. <<l, h>> \in D /\ <<l, h>>[1] = l /\ <<l, h>>[2] = h /\ ~(l >= h)
        BY <3>2
      <4>3. s[<<l, h>>] = IF c[m] <= v THEN s[<<m + 1, h>>] ELSE s[<<l, m>>]
        BY <1>4, <4>2 DEF Probe
      <4> HIDE DEF m
      <4>4. /\ m \in 1 .. N /\ m + 1 \in 1 .. N /\ m + 1 <= h /\ h - (m + 1) <= k /\ m - l <= k
            /\ m + 1 \in l .. h /\ m \in l .. h
        BY <2>1, <2>3, <4>1
      <4>5. c[m] \in Nat /\ c[h] \in Nat
        BY <4>4
      <4>6. CASE c[m] <= v
        <5>1. Good(m + 1, h, s[<<m + 1, h>>])
          <6> HIDE DEF Good
          <6>1. QED
            BY <2>2, <4>4
        <5>2. s[<<m + 1, h>>] \in l .. h
          BY <4>1, <5>1
        <5>3. \A j \in 1 .. (m + 1) - 1 : c[j] <= v
          <6>1. SUFFICES ASSUME NEW j \in 1 .. (m + 1) - 1 PROVE c[j] <= v
            OBVIOUS
          <6>2. j \in 1 .. N /\ m \in j .. N
            BY <4>4
          <6>3. c[j] <= c[m] /\ c[j] \in Nat
            BY <6>2
          <6>4. QED
            BY <4>5, <4>6, <6>3
        <5>4. s[<<l, h>>] = s[<<m + 1, h>>]
          BY <4>3, <4>6
        <5>5. QED
          BY <5>1, <5>2, <5>3, <5>4
      <4>7. CASE v < c[m]
        <5>1. Good(l, m, s[<<l, m>>])
          <6> HIDE DEF Good
          <6>1. QED
            BY <2>2, <4>1, <4>4
        <5>2. s[<<l, m>>] \in l .. h
          BY <4>1, <5>1
        <5>3. s[<<l, h>>] = s[<<l, m>>]
          BY <4>3, <4>5, <4>7
        <5>4. QED
          BY <4>7, <5>1, <5>2, <5>3
      <4>8. c[m] <= v \/ v < c[m]
        BY <4>5
      <4> HIDE DEF Good
      <4>9. QED
        BY <4>6, <4>7, <4>8
    <3>3. l = h \/ l < h
      BY <2>3
    <3> HIDE DEF Good
    <3>4. QED
      BY <3>1, <3>2, <3>3
  <2> HIDE DEF Good
  <2>4. QED
    BY <2>1, <2>3
<1>8. Good(1, N, s[<<1, N>>])
  <2>1. T \in SUBSET Nat
    OBVIOUS
  <2> HIDE DEF Good
  <2>2. T = Nat
    <3> HIDE DEF T
    <3>1. QED
      BY <1>6, <1>7, <2>1, Induction
  <2>3. N \in T
    <3> HIDE DEF T
    <3>1. QED
      BY <2>2
  <2>4. 1 \in 1 .. N /\ N \in 1 .. N /\ 1 <= N /\ N - 1 <= N
    OBVIOUS
  <2>5. QED
    BY <2>3, <2>4
<1>9. QED
  BY <1>2, <1>8

\* sampleRun returns a position of the list, and one of weight 0 only if there is
\* no other.
LEMMA SamplesFacts ==
    ASSUME tree \in Trees, NEW n \in Ids, Is(n, "Random"), NEW i \in Samples(n)
    PROVE  /\ i \in DOMAIN tree[n].runs
           /\ (\E j \in DOMAIN tree[n].weights : tree[n].weights[j] > 0) => tree[n].weights[i] > 0
<1> DEFINE ws == tree[n].weights
           N == Len(ws)
           c == Cumulative(ws)
<1>1. /\ tree[n].runs # <<>> /\ ws \in Seq(Nat) /\ tree[n].runs \in Seq(n + 1 .. Len(tree))
      /\ (ws # <<>> => N = Len(tree[n].runs))
  BY TreesAssumption DEF Valid, Ids, Is
<1>2. DOMAIN tree[n].runs = 1 .. Count(n)
  BY <1>1, LenProperties DEF Count
<1>3. CASE ws = <<>>
  BY <1>3 DEF Samples
<1>4. CASE ws # <<>>
  <2>1. N \in Nat \ {0} /\ N = Count(n) /\ DOMAIN ws = 1 .. N /\ \A j \in 1 .. N : ws[j] \in Nat
    BY <1>1, <1>4, EmptySeq, LenProperties DEF Count
  <2>2. /\ c \in [1 .. N -> Nat]
        /\ \A j \in 1 .. N : c[j] = ws[j] + (IF j = 1 THEN 0 ELSE c[j - 1])
    BY <1>1, CumulativeFacts
  <2>3. \A k \in 1 .. N : \A j \in k .. N : c[k] <= c[j]
    BY <1>1, CumulativeGrows
  <2>4. PICK v \in IF c[N] = 0 THEN {0} ELSE 0 .. c[N] - 1 : i = Search(c, v)
    BY <1>4, <2>1 DEF Samples
  <2> HIDE DEF c, N, ws
  <2>5. v \in Nat /\ c[N] \in Nat /\ (c[N] # 0 => v < c[N])
    BY <2>1, <2>2, <2>4
  <2>6. /\ i \in 1 .. N
        /\ v < c[N] => v < c[i] /\ \A k \in 1 .. i - 1 : c[k] <= v
    BY <2>1, <2>2, <2>3, <2>4, <2>5, SearchCorrect
  <2>7. ASSUME NEW j \in 1 .. N, ws[j] > 0 PROVE ws[i] > 0
    <3>1. c[j] >= ws[j]
      <4>1. j # 1 => c[j - 1] \in Nat
        BY <2>1, <2>2
      <4>2. QED
        BY <2>1, <2>2, <4>1
    <3>2. c[j] <= c[N] /\ c[j] \in Nat
      BY <2>1, <2>2, <2>3
    <3>3. c[N] # 0
      BY <2>1, <2>5, <2>7, <3>1, <3>2
    <3>4. v < c[i] /\ \A k \in 1 .. i - 1 : c[k] <= v
      BY <2>5, <2>6, <3>3
    <3>5. i # 1 => c[i - 1] <= v /\ c[i - 1] \in Nat
      <4>1. i # 1 => i - 1 \in 1 .. i - 1 /\ i - 1 \in 1 .. N
        BY <2>1, <2>6
      <4>2. QED
        BY <2>2, <3>4, <4>1
    <3>6. c[i] = ws[i] + (IF i = 1 THEN 0 ELSE c[i - 1]) /\ ws[i] \in Nat
      BY <2>1, <2>2, <2>6
    <3>7. QED
      BY <2>5, <3>4, <3>5, <3>6
  <2>8. QED
    BY <1>2, <2>1, <2>6, <2>7 DEF ws
<1>5. QED
  BY <1>3, <1>4

-----------------------------------------------------------------------------
(* buildTree.                                                              *)

\* What buildTree makes of a Run, from what b has for the Runs that it lists.
Visit(t, b, n) ==
    IF t[n].kind = "Child"
    THEN {<<t[n].node>>} \cup {<<t[n].node>> \o p : p \in UNION {b[k] : k \in RunsOf(t, n)}}
    ELSE UNION {b[k] : k \in RunsOf(t, n)}

\* A Run lists only Runs behind it.
Ordered(t, N) ==
    DOMAIN t = 1 .. N /\ \A n \in 1 .. N : RunsOf(t, n) \subseteq n + 1 .. N

\* Visit looks at the Runs behind n only.
LEMMA VisitSame ==
    ASSUME NEW t, NEW b, NEW g, NEW n, \A k \in RunsOf(t, n) : g[k] = b[k]
    PROVE  Visit(t, g, n) = Visit(t, b, n)
<1>1. {g[k] : k \in RunsOf(t, n)} = {b[k] : k \in RunsOf(t, n)}
  OBVIOUS
<1>2. QED
  BY <1>1 DEF Visit

\* So the function of buildTree exists.
LEMMA BuildFacts ==
    ASSUME NEW N \in Nat, NEW t, Ordered(t, N)
    PROVE  /\ buildTree(t) = [n \in 1 .. N |-> Visit(t, buildTree(t), n)]
           /\ \A n \in 1 .. N : buildTree(t)[n] = Visit(t, buildTree(t), n)
<1> DEFINE OnAll(b) == b = [n \in 1 .. N |-> b[n]]
           From(b, k) == \A n \in 1 .. N : n > N - k => b[n] = Visit(t, b, n)
           T == {k \in Nat : \E b : OnAll(b) /\ From(b, k)}
<1>1. 0 \in T
  <2> DEFINE b == [n \in 1 .. N |-> {}]
  <2>1. OnAll(b)
    OBVIOUS
  <2>2. From(b, 0)
    OBVIOUS
  <2> HIDE DEF b, OnAll, From
  <2>3. QED
    BY <2>1, <2>2
<1>2. ASSUME NEW k \in T PROVE k + 1 \in T
  <2>1. k \in Nat /\ k + 1 \in Nat
    OBVIOUS
  <2>2. PICK g : OnAll(g) /\ From(g, k)
    <3> HIDE DEF OnAll, From
    <3>1. QED
      OBVIOUS
  <2> DEFINE b == [n \in 1 .. N |-> IF n > N - k THEN g[n] ELSE Visit(t, g, n)]
  <2>3. OnAll(b)
    OBVIOUS
  <2>4. \A n \in 1 .. N : n > N - k => b[n] = g[n]
    OBVIOUS
  <2>5. \A n \in 1 .. N : ~(n > N - k) => b[n] = Visit(t, g, n)
    OBVIOUS
  <2> HIDE DEF b
  <2>6. ASSUME NEW n \in 1 .. N, n > N - (k + 1) PROVE b[n] = Visit(t, b, n)
    <3>1. b[n] = Visit(t, g, n)
      BY <2>2, <2>4, <2>5
    <3>2. ASSUME NEW i \in RunsOf(t, n) PROVE b[i] = g[i]
      <4>1. i \in n + 1 .. N
        BY DEF Ordered
      <4>2. i \in 1 .. N /\ i > N - k
        BY <2>1, <2>6, <4>1
      <4>3. QED
        BY <2>4, <4>2
    <3>3. Visit(t, b, n) = Visit(t, g, n)
      BY <3>2, VisitSame
    <3>4. QED
      BY <3>1, <3>3
  <2>7. From(b, k + 1)
    BY <2>6
  <2> HIDE DEF OnAll, From
  <2>8. QED
    BY <2>1, <2>3, <2>7
<1>3. PICK b : OnAll(b) /\ From(b, N)
  <2>1. T \in SUBSET Nat
    OBVIOUS
  <2>2. N \in T
    <3> HIDE DEF T
    <3>1. QED
      BY <1>1, <1>2, <2>1, Induction
  <2> HIDE DEF OnAll, From
  <2>3. QED
    BY <2>2
<1>4. \A n \in 1 .. N : b[n] = Visit(t, b, n)
  <2>1. \A n \in 1 .. N : n > N - N
    OBVIOUS
  <2>2. QED
    BY <1>3, <2>1
<1>5. b = [n \in DOMAIN t |-> Visit(t, b, n)]
  BY <1>3, <1>4 DEF Ordered
<1> DEFINE B == CHOOSE f : f = [n \in DOMAIN t |-> Visit(t, f, n)]
<1>6. B = [n \in DOMAIN t |-> Visit(t, B, n)]
  BY <1>5
<1>7. buildTree(t) = B
  BY DEF buildTree, Visit
<1> HIDE DEF B
<1>8. DOMAIN t = 1 .. N
  BY DEF Ordered
<1>9. B = [n \in 1 .. N |-> Visit(t, B, n)] /\ \A n \in 1 .. N : B[n] = Visit(t, B, n)
  BY <1>6, <1>8
<1>10. QED
  BY <1>7, <1>9

\* The tree given to a child, with Run k at its root, has the nodes that it has
\* below k in the tree that it is from.
LEMMA RootFacts ==
    ASSUME NEW N \in Nat, NEW t, Ordered(t, N), NEW k \in 2 .. N
    PROVE  NewTree([t EXCEPT ![1] = t[k]]) = buildTree(t)[k]
<1> DEFINE u == [t EXCEPT ![1] = t[k]]
           b == buildTree(t)
           c == buildTree(u)
<1>1. DOMAIN t = 1 .. N /\ 1 \in 1 .. N /\ k \in 1 .. N
  BY DEF Ordered
<1>2. DOMAIN u = 1 .. N /\ u[1] = t[k] /\ \A n \in 2 .. N : u[n] = t[n]
  BY <1>1
<1> HIDE DEF u
<1>3. RunsOf(u, 1) = RunsOf(t, k) /\ \A n \in 2 .. N : RunsOf(u, n) = RunsOf(t, n)
  BY <1>2 DEF RunsOf
<1>4. Ordered(u, N)
  <2>1. ASSUME NEW n \in 1 .. N PROVE RunsOf(u, n) \subseteq n + 1 .. N
    <3>1. CASE n = 1
      <4>1. RunsOf(t, k) \subseteq k + 1 .. N
        BY <1>1 DEF Ordered
      <4>2. QED
        BY <1>3, <3>1, <4>1
    <3>2. CASE n \in 2 .. N
      BY <1>3, <3>2 DEF Ordered
    <3>3. QED
      BY <3>1, <3>2
  <2>2. QED
    BY <1>2, <2>1 DEF Ordered
<1>5. /\ \A n \in 1 .. N : b[n] = Visit(t, b, n)
      /\ \A n \in 1 .. N : c[n] = Visit(u, c, n)
  BY <1>4, BuildFacts
<1> HIDE DEF b, c
<1> DEFINE T == {d \in Nat : \A n \in 2 .. N : n > N - d => c[n] = b[n]}
<1>6. 0 \in T
  OBVIOUS
<1>7. ASSUME NEW d \in T PROVE d + 1 \in T
  <2>1. d \in Nat /\ d + 1 \in Nat /\ \A n \in 2 .. N : n > N - d => c[n] = b[n]
    OBVIOUS
  <2>2. ASSUME NEW n \in 2 .. N, n > N - (d + 1) PROVE c[n] = b[n]
    <3>1. ASSUME NEW i \in RunsOf(t, n) PROVE c[i] = b[i]
      <4>1. i \in n + 1 .. N
        BY DEF Ordered
      <4>2. i \in 2 .. N /\ i > N - d
        BY <2>1, <2>2, <4>1
      <4>3. QED
        BY <2>1, <4>2
    <3>2. Visit(t, c, n) = Visit(t, b, n)
      BY <3>1, VisitSame
    <3>3. Visit(u, c, n) = Visit(t, c, n)
      BY <1>2, <1>3 DEF Visit
    <3>4. QED
      BY <1>5, <3>2, <3>3
  <2>3. QED
    BY <2>1, <2>2
<1>8. N \in T
  <2>1. T \in SUBSET Nat
    OBVIOUS
  <2> HIDE DEF T
  <2>2. QED
    BY <1>6, <1>7, <2>1, Induction
<1>9. ASSUME NEW i \in RunsOf(t, k) PROVE c[i] = b[i]
  <2>1. i \in k + 1 .. N
    BY <1>1 DEF Ordered
  <2>2. i \in 2 .. N /\ i > N - N
    BY <2>1
  <2>3. QED
    BY <1>8, <2>2
<1>10. Visit(u, c, 1) = Visit(t, c, k)
  BY <1>2, <1>3 DEF Visit
<1>11. Visit(t, c, k) = Visit(t, b, k)
  BY <1>9, VisitSame
<1>12. c[1] = b[k]
  BY <1>1, <1>5, <1>10, <1>11
<1>13. QED
  BY <1>12 DEF NewTree, b, c, u

-----------------------------------------------------------------------------
(* The tree, and the invariant for one Run of it.                          *)

\* A Run is in one list, at one place, and behind the list.
LEMMA TreeFacts ==
    ASSUME tree \in Trees
    PROVE  /\ Len(tree) \in Nat \ {0} /\ Ids = 1 .. Len(tree) /\ 1 \in Ids
           /\ Ordered(tree, Len(tree))
           /\ \A n \in Ids :
                 /\ tree[n].kind \in Lists \cup Leaves /\ Count(n) \in Nat
                 /\ DOMAIN tree[n].runs = 1 .. Count(n)
                 /\ tree[n].sequential => tree[n].kind = "Schedule"
                 /\ tree[n].kind \in {"ClosedLoopActor", "Child"} => Count(n) = 1
           /\ \A n \in Ids : \A i \in DOMAIN tree[n].runs :
                 tree[n].runs[i] \in Ids /\ tree[n].runs[i] > n
           /\ \A m, n \in Ids : \A i \in DOMAIN tree[m].runs, j \in DOMAIN tree[n].runs :
                 tree[m].runs[i] = tree[n].runs[j] => m = n /\ i = j
<1>1. /\ Len(tree) \in Nat \ {0} /\ Ids = 1 .. Len(tree) /\ 1 \in Ids
  BY TreesAssumption DEF Valid, Ids
<1>2. ASSUME NEW n \in Ids
      PROVE  /\ tree[n].kind \in Lists \cup Leaves /\ Count(n) \in Nat
             /\ DOMAIN tree[n].runs = 1 .. Count(n)
             /\ tree[n].sequential => tree[n].kind = "Schedule"
             /\ tree[n].kind \in {"ClosedLoopActor", "Child"} => Count(n) = 1
             /\ \A i \in DOMAIN tree[n].runs : tree[n].runs[i] \in n + 1 .. Len(tree)
  <2>1. tree[n].runs \in Seq(n + 1 .. Len(tree))
    BY TreesAssumption DEF Valid, Ids
  <2>2. /\ Count(n) \in Nat /\ DOMAIN tree[n].runs = 1 .. Count(n)
        /\ \A i \in DOMAIN tree[n].runs : tree[n].runs[i] \in n + 1 .. Len(tree)
    BY <2>1, LenProperties, ElementOfSeq DEF Count
  <2>3. QED
    BY <2>2, TreesAssumption DEF Valid, Ids, Count
<1>3. ASSUME NEW n \in Ids, NEW i \in DOMAIN tree[n].runs
      PROVE  tree[n].runs[i] \in Ids /\ tree[n].runs[i] > n
  BY <1>1, <1>2
<1>4. Ordered(tree, Len(tree))
  BY <1>1, <1>2 DEF Ordered, RunsOf, Ids
<1>5. \A m, n \in Ids : \A i \in DOMAIN tree[m].runs, j \in DOMAIN tree[n].runs :
         tree[m].runs[i] = tree[n].runs[j] => m = n /\ i = j
  BY TreesAssumption DEF Valid, Ids
<1>6. QED
  BY <1>1, <1>2, <1>3, <1>4, <1>5

\* The same, for Kids.
LEMMA KidFacts ==
    ASSUME tree \in Trees, NEW n \in Ids, NEW k \in Kids(n)
    PROVE  /\ k \in Ids /\ k # n /\ k > n
           /\ \A m \in Ids : k \in Kids(m) => m = n
           /\ k \notin Kids(k) /\ n \notin Kids(k)
<1>1. k \in Ids /\ k > n /\ k # n /\ n \in Nat /\ k \in Nat
  BY TreeFacts DEF Kids, RunsOf
<1>2. ASSUME NEW m \in Ids, k \in Kids(m) PROVE m = n
  BY <1>2, TreeFacts DEF Kids, RunsOf
<1>3. ASSUME NEW m \in Ids, m \in Kids(k) PROVE m > k
  BY <1>1, <1>3, TreeFacts DEF Kids, RunsOf
<1>4. QED
  BY <1>1, <1>2, <1>3

\* The types of the variables,
Base ==
    /\ tree \in Trees
    /\ ctx \in {"live", "done"} /\ err \in BOOLEAN
    /\ pc \in [Ids -> {"idle", "run", "error", "done", "joined"}]
    /\ ok \in [Ids -> BOOLEAN] /\ at \in [Ids -> Nat]
    /\ dc \in [Ids -> BOOLEAN] /\ w \in [Ids -> BOOLEAN]

\* and all that the invariant says of Run n.
At(n) ==
    /\ at[n] <= Count(n)
    /\ Is(n, "Schedule") /\ pc[n] = "run" /\ w[n] /\ Outstanding(n) # {} => at[n] < Count(n)
    /\ pc[n] # "run" => Outstanding(n) = {}
    /\ \A i \in DOMAIN tree[n].runs : pc[tree[n].runs[i]] # "idle" <=> Started(n, i)
    /\ tree[n].kind \in Leaves => at[n] = 0
    /\ ok[n] => \A k \in Kids(n) : pc[k] = "joined" => ok[k]
    /\ ctx = "live" => dc[n]
    /\ /\ pc[n] \in {"done", "joined"} /\ ok[n] /\ ctx = "live"
       /\ tree[n].kind \in {"Serial", "Parallel", "Schedule"}
       => at[n] = Count(n)
    /\ tree[n].sequential =>
          /\ w[n] => Outstanding(n) = {}
          /\ \A i \in DOMAIN tree[n].runs : tree[n].runs[i] \in Outstanding(n) => i = at[n]
    /\ pc[n] # "idle" => buildTree(tree)[n] \subseteq NewTree(tree)

AllAt == \A n \in Ids : At(n)

\* RunInv, Run by Run.
LEMMA InvAt == RunInv <=> Base /\ AllAt
<1>1. RunInv => Base /\ AllAt
  BY DEF AllAt, RunInv, TypeOK, ListInv, SequentialInv, PathInv, Base, At
<1>2. Base /\ AllAt => RunInv
  <2>1. SUFFICES ASSUME Base, \A n \in Ids : At(n) PROVE RunInv
    BY DEF AllAt
  <2>2. TypeOK
    BY <2>1 DEF TypeOK, Base, At
  <2>3. ListInv
    BY <2>1 DEF ListInv, At
  <2>4. SequentialInv /\ PathInv
    BY <2>1 DEF SequentialInv, PathInv, At
  <2>5. QED
    BY <2>2, <2>3, <2>4 DEF RunInv
<1>3. QED
  BY <1>1, <1>2

\* A step that leaves Run n alone, or only resets or joins it, or takes its timer,
\* and leaves its Runs as they are or lets them return.
LEMMA SameAt ==
    ASSUME NEW n \in Ids, At(n), UNCHANGED tree, ctx' = ctx \/ ctx' = "done",
           at'[n] = at[n], ok'[n] = ok[n],
           dc'[n] = dc[n] \/ ctx' = "done", w'[n] => w[n],
           \/ pc'[n] = pc[n]
           \/ pc'[n] = "idle" /\ pc[n] # "run"
           \/ pc'[n] = "joined" /\ pc[n] = "done",
           \A k \in Kids(n) : /\ pc'[k] = "idle" <=> pc[k] = "idle"
                              /\ k \in Outstanding(n) <=> pc'[k] \in {"run", "error", "done"}
                              /\ pc'[k] = "joined" => pc[k] = "joined" /\ ok'[k] = ok[k]
    PROVE  At(n)'
<1>1. Kids(n)' = Kids(n) /\ Outstanding(n)' = Outstanding(n) /\ Count(n)' = Count(n)
  BY DEF Kids, RunsOf, Outstanding, Count
<1>2. \A i \in DOMAIN tree[n].runs : tree[n].runs[i] \in Kids(n) /\ (Started(n, i)' <=> Started(n, i))
  BY DEF Kids, RunsOf, Started, Is
<1>3. buildTree(tree)' = buildTree(tree) /\ NewTree(tree)' = NewTree(tree)
  OBVIOUS
<1>4. QED
  BY <1>1, <1>2, <1>3 DEF At, Is

-----------------------------------------------------------------------------
(* Runs that are started.                                                  *)

\* What Start does to the variables.
Effect(n, S, i, timer) ==
    /\ Base' /\ UNCHANGED <<tree, ctx>> /\ S \subseteq Ids /\ n \notin S
    /\ pc'[n] = pc[n] /\ ok'[n] = ok[n] /\ at'[n] = i /\ dc'[n] = dc[n] /\ w'[n] = timer
    /\ \A m \in S : pc'[m] = "run" /\ ok'[m] /\ at'[m] = 0 /\ dc'[m] /\ w'[m]
    /\ \A m \in S : \A k \in Kids(m) : k \in Ids /\ k \notin S /\ pc'[k] = "idle"
    /\ \A m \in Kids(n) \ S : m \in Ids /\ pc'[m] = pc[m] /\ ok'[m] = ok[m]
    /\ \A m \in Ids : m # n /\ m \notin S =>
          /\ ok'[m] = ok[m] /\ at'[m] = at[m] /\ dc'[m] = dc[m] /\ w'[m] = w[m]
          /\ \/ pc'[m] = pc[m]
             \/ pc'[m] = "idle" /\ \E k \in S : m \in Kids(k)
          /\ \A k \in Kids(m) : pc'[k] = pc[k] /\ ok'[k] = ok[k]

\* It has that effect.
LEMMA StartFacts ==
    ASSUME Base, NEW n \in Ids, NEW S \in SUBSET Kids(n), NEW i \in Nat, NEW timer \in BOOLEAN,
           Start(n, S, i, timer)
    PROVE  Effect(n, S, i, timer)
<1>1. /\ tree \in Trees /\ n \in Ids
      /\ pc \in [Ids -> {"idle", "run", "error", "done", "joined"}]
      /\ ok \in [Ids -> BOOLEAN] /\ at \in [Ids -> Nat]
      /\ dc \in [Ids -> BOOLEAN] /\ w \in [Ids -> BOOLEAN]
  BY DEF Base
<1>2. /\ pc' = [m \in Ids |-> IF m \in S THEN "run"
                            ELSE IF \E k \in S : m \in Kids(k) THEN "idle"
                            ELSE pc[m]]
      /\ ok' = [m \in Ids |-> m \in S \/ ok[m]]
      /\ at' = [m \in Ids |-> IF m = n THEN i ELSE IF m \in S THEN 0 ELSE at[m]]
      /\ dc' = [m \in Ids |-> m \in S \/ dc[m]]
      /\ w' = [m \in Ids |-> IF m = n THEN timer ELSE m \in S \/ w[m]]
      /\ UNCHANGED <<tree, ctx, err>>
  BY DEF Start
<1>3. Ids' = Ids
  BY <1>2 DEF Ids
<1>4. ASSUME NEW m \in S
      PROVE  m \in Ids /\ m \in Kids(n) /\ m # n /\ n \notin Kids(m) /\ \A k \in S : m \notin Kids(k)
  <2>1. m \in Ids /\ m \in Kids(n) /\ m # n /\ n \notin Kids(m)
    BY <1>1, KidFacts
  <2>2. ASSUME NEW k \in S PROVE m \notin Kids(k)
    <3>1. k \in Ids /\ k # n
      BY <1>1, KidFacts
    <3>2. QED
      BY <1>1, <2>1, <3>1, KidFacts
  <2>3. QED
    BY <2>1, <2>2
<1>5. S \subseteq Ids /\ n \notin S /\ ~\E k \in S : n \in Kids(k)
  BY <1>4
<1>6. Base'
  <2>1. pc' \in [Ids -> {"idle", "run", "error", "done", "joined"}]
    BY <1>1, <1>2
  <2>2. at' \in [Ids -> Nat]
    BY <1>1, <1>2
  <2>3. ok' \in [Ids -> BOOLEAN] /\ dc' \in [Ids -> BOOLEAN] /\ w' \in [Ids -> BOOLEAN]
    BY <1>1, <1>2
  <2>4. QED
    BY <1>2, <1>3, <2>1, <2>2, <2>3 DEF Base
<1>7. pc'[n] = pc[n] /\ ok'[n] = ok[n] /\ at'[n] = i /\ dc'[n] = dc[n] /\ w'[n] = timer
  BY <1>1, <1>2, <1>5
<1>8. \A m \in S : pc'[m] = "run" /\ ok'[m] /\ at'[m] = 0 /\ dc'[m] /\ w'[m]
  BY <1>2, <1>4
<1>9. ASSUME NEW m \in S, NEW k \in Kids(m) PROVE k \in Ids /\ k \notin S /\ pc'[k] = "idle"
  <2>1. k \in Ids /\ k \notin S
    BY <1>1, <1>4, KidFacts
  <2>2. QED
    BY <1>2, <2>1
<1>10. ASSUME NEW m \in Kids(n) \ S PROVE m \in Ids /\ pc'[m] = pc[m] /\ ok'[m] = ok[m]
  <2>1. m \in Ids
    BY <1>1, KidFacts
  <2>2. ~\E k \in S : m \in Kids(k)
    <3>1. SUFFICES ASSUME NEW k \in S, m \in Kids(k) PROVE FALSE
      OBVIOUS
    <3>2. k \in Ids /\ k # n
      BY <1>4
    <3>3. QED
      BY <1>1, <3>1, <3>2, KidFacts
  <2>3. QED
    BY <1>1, <1>2, <2>1, <2>2
<1>11. ASSUME NEW m \in Ids, m # n, m \notin S
       PROVE  /\ ok'[m] = ok[m] /\ at'[m] = at[m] /\ dc'[m] = dc[m] /\ w'[m] = w[m]
              /\ \/ pc'[m] = pc[m]
                 \/ pc'[m] = "idle" /\ \E k \in S : m \in Kids(k)
              /\ \A k \in Kids(m) : pc'[k] = pc[k] /\ ok'[k] = ok[k]
  <2>1. /\ ok'[m] = ok[m] /\ at'[m] = at[m] /\ dc'[m] = dc[m] /\ w'[m] = w[m]
    BY <1>1, <1>2, <1>11
  <2>2. \/ pc'[m] = pc[m]
        \/ pc'[m] = "idle" /\ \E k \in S : m \in Kids(k)
    BY <1>2, <1>11
  <2>3. ASSUME NEW k \in Kids(m) PROVE pc'[k] = pc[k] /\ ok'[k] = ok[k]
    <3>1. k \in Ids /\ k \notin S
      BY <1>1, <1>4, <1>11, KidFacts
    <3>2. ~\E j \in S : k \in Kids(j)
      BY <1>1, <1>4, <1>11, KidFacts
    <3>3. QED
      BY <1>1, <1>2, <3>1, <3>2
  <2>4. QED
    BY <2>1, <2>2, <2>3
<1>12. QED
  BY <1>2, <1>5, <1>6, <1>7, <1>8, <1>9, <1>10, <1>11 DEF Effect

\* A list starts some of its Runs, of which none was outstanding.
LEMMA StartStep ==
    ASSUME RunInv, NEW n \in Ids, NEW S \in SUBSET Kids(n), NEW i \in Nat, NEW timer \in BOOLEAN,
           Start(n, S, i, timer), pc[n] = "run", i <= Count(n), tree[n].kind \notin Leaves,
           S \cap Outstanding(n) = {}, timer => i < Count(n),
           \A j \in DOMAIN tree[n].runs :
              (tree[n].runs[j] \in S \/ Started(n, j)) <=>
                 IF Is(n, "Random") THEN j = i ELSE j <= i,
           tree[n].sequential =>
              /\ ~timer /\ Outstanding(n) = {}
              /\ \A j \in DOMAIN tree[n].runs : tree[n].runs[j] \in S => j = i
    PROVE  RunInv'
<1>1. Base /\ \A m \in Ids : At(m)
  BY InvAt DEF AllAt
<1>2. tree \in Trees
  BY <1>1 DEF Base
<1>3. /\ Base' /\ UNCHANGED <<tree, ctx>> /\ S \subseteq Ids /\ n \notin S
      /\ pc'[n] = pc[n] /\ ok'[n] = ok[n] /\ at'[n] = i /\ dc'[n] = dc[n] /\ w'[n] = timer
      /\ \A m \in S : pc'[m] = "run" /\ ok'[m] /\ at'[m] = 0 /\ dc'[m] /\ w'[m]
      /\ \A m \in S : \A k \in Kids(m) : k \in Ids /\ k \notin S /\ pc'[k] = "idle"
      /\ \A m \in Kids(n) \ S : m \in Ids /\ pc'[m] = pc[m] /\ ok'[m] = ok[m]
      /\ \A m \in Ids : m # n /\ m \notin S =>
            /\ ok'[m] = ok[m] /\ at'[m] = at[m] /\ dc'[m] = dc[m] /\ w'[m] = w[m]
            /\ \/ pc'[m] = pc[m]
               \/ pc'[m] = "idle" /\ \E k \in S : m \in Kids(k)
            /\ \A k \in Kids(m) : pc'[k] = pc[k] /\ ok'[k] = ok[k]
  <2>1. Effect(n, S, i, timer)
    BY <1>1, StartFacts
  <2>2. QED
    BY <2>1 DEF Effect
<1>4. /\ Ids' = Ids /\ buildTree(tree)' = buildTree(tree) /\ NewTree(tree)' = NewTree(tree)
      /\ \A m \in Ids : Kids(m)' = Kids(m) /\ Count(m)' = Count(m)
  BY <1>3 DEF Ids, Kids, RunsOf, Count
\* The Runs that are started.
<1>5. ASSUME NEW m \in S PROVE At(m)'
  <2>1. m \in Ids /\ m \in Kids(n)
    BY <1>3
  <2>2. Outstanding(m)' = {}
    BY <1>3, <1>4, <2>1 DEF Outstanding
  <2>3. \A j \in DOMAIN tree[m].runs : ~Started(m, j)' /\ tree[m].runs[j] \in Kids(m)
    <3>1. \A j \in DOMAIN tree[m].runs : j \in Nat /\ j # 0 /\ ~(j <= 0)
      BY <1>2, <2>1, TreeFacts
    <3>2. QED
      BY <1>3, <3>1 DEF Started, Kids, RunsOf, Is
  <2>4. Count(m) \in Nat /\ 0 <= Count(m)
    BY <1>2, <2>1, TreeFacts
  <2>5. buildTree(tree)[m] \subseteq NewTree(tree)
    <3>1. buildTree(tree)[n] = Visit(tree, buildTree(tree), n)
      BY <1>2, TreeFacts, BuildFacts
    <3>2. buildTree(tree)[m] \subseteq buildTree(tree)[n]
      BY <2>1, <3>1 DEF Visit, Leaves, Kids
    <3>3. buildTree(tree)[n] \subseteq NewTree(tree)
      BY <1>1 DEF At
    <3>4. QED
      BY <3>2, <3>3
  <2>6. QED
    BY <1>3, <1>4, <2>1, <2>2, <2>3, <2>4, <2>5 DEF At
\* Their list.
<1>6. At(n)'
  <2>1. Outstanding(n)' = Outstanding(n) \cup S
    BY <1>3, <1>4 DEF Outstanding
  <2>2. ASSUME NEW j \in DOMAIN tree[n].runs
        PROVE  pc'[tree[n].runs[j]] # "idle" <=> Started(n, j)'
    <3>1. tree[n].runs[j] \in Kids(n)
      BY DEF Kids, RunsOf
    <3>2. Started(n, j)' <=> (tree[n].runs[j] \in S \/ Started(n, j))
      BY <1>3 DEF Started, Is
    <3>3. pc[tree[n].runs[j]] # "idle" <=> Started(n, j)
      BY <1>1 DEF At
    <3>4. QED
      BY <1>3, <3>1, <3>2, <3>3
  <2>3. \A k \in Kids(n) : pc'[k] = "joined" => pc[k] = "joined" /\ ok'[k] = ok[k]
    BY <1>3
  <2>4. ok'[n] => \A k \in Kids(n) : pc'[k] = "joined" => ok'[k]
    BY <1>1, <1>3, <2>3 DEF At
  <2>5. tree[n].sequential =>
           \A j \in DOMAIN tree[n].runs : tree[n].runs[j] \in Outstanding(n)' => j = at'[n]
    BY <1>3, <2>1
  <2>6. ctx' = "live" => dc'[n]
    BY <1>1, <1>3 DEF At
  <2>7. buildTree(tree)[n] \subseteq NewTree(tree)
    BY <1>1 DEF At
  <2>8. QED
    BY <1>3, <1>4, <2>2, <2>4, <2>5, <2>6, <2>7 DEF At
\* The others.
<1>7. ASSUME NEW m \in Ids, m # n, m \notin S PROVE At(m)'
  <2>1. At(m)
    BY <1>1
  <2>2. pc'[m] = pc[m] \/ (pc'[m] = "idle" /\ pc[m] # "run")
    <3>1. ASSUME NEW k \in S, m \in Kids(k) PROVE pc[m] # "run"
      <4>1. k \in Ids /\ pc[k] # "run"
        BY <1>3 DEF Outstanding
      <4>2. Outstanding(k) = {}
        BY <1>1, <4>1 DEF At
      <4>3. QED
        BY <3>1, <4>2 DEF Outstanding
    <3>2. QED
      BY <1>3, <1>7, <3>1
  <2>3. /\ ok'[m] = ok[m] /\ at'[m] = at[m] /\ dc'[m] = dc[m] /\ w'[m] = w[m]
        /\ \A k \in Kids(m) : pc'[k] = pc[k] /\ ok'[k] = ok[k]
    BY <1>3, <1>7
  <2>4. \A k \in Kids(m) : /\ pc'[k] = "idle" <=> pc[k] = "idle"
                           /\ k \in Outstanding(m) <=> pc'[k] \in {"run", "error", "done"}
                           /\ pc'[k] = "joined" => pc[k] = "joined" /\ ok'[k] = ok[k]
    BY <2>3 DEF Outstanding
  <2>5. QED
    BY <1>3, <2>1, <2>2, <2>3, <2>4, SameAt
<1>8. \A m \in Ids : At(m)'
  BY <1>5, <1>6, <1>7
<1>9. Base' /\ AllAt'
  BY <1>3, <1>4, <1>8 DEF AllAt
<1>10. QED
  BY <1>9, InvAt, PTL

-----------------------------------------------------------------------------
(* Runs that return, and results that are received.                        *)

\* The result of k is received.
LEMMA JoinStep ==
    ASSUME RunInv, NEW n \in Ids, NEW k \in Kids(n), Join(n, k)
    PROVE  RunInv'
<1>1. Base /\ \A m \in Ids : At(m)
  BY InvAt DEF AllAt
<1>2. /\ tree \in Trees /\ pc \in [Ids -> {"idle", "run", "error", "done", "joined"}]
      /\ ok \in [Ids -> BOOLEAN] /\ w \in [Ids -> BOOLEAN]
  BY <1>1 DEF Base
<1>3. k \in Ids /\ k # n /\ \A m \in Ids : k \in Kids(m) => m = n
  BY <1>2, KidFacts
<1> DEFINE again == \/ Is(n, "ClosedLoopActor")
                    \/ /\ Is(n, "Schedule") /\ tree[n].sequential
                       /\ dc[n] /\ ok[n] /\ ok[k] /\ at[n] < Count(n)
<1>4. /\ pc[n] = "run" /\ pc[k] = "done" /\ UNCHANGED <<tree, ctx, err, at, dc>>
      /\ pc' = [pc EXCEPT ![k] = "joined"]
      /\ ok' = [ok EXCEPT ![n] = ok[n] /\ ok[k]]
      /\ w' = [w EXCEPT ![n] = w[n] \/ again]
  BY DEF Join
<1>5. /\ pc' \in [Ids -> {"idle", "run", "error", "done", "joined"}] /\ pc'[k] = "joined"
      /\ \A m \in Ids : m # k => pc'[m] = pc[m]
  BY <1>2, <1>3, <1>4
<1>6. /\ ok' \in [Ids -> BOOLEAN] /\ ok'[n] = (ok[n] /\ ok[k])
      /\ \A m \in Ids : m # n => ok'[m] = ok[m]
  BY <1>2, <1>3, <1>4
<1>7. again \in BOOLEAN /\ (Is(n, "Schedule") /\ again => at[n] < Count(n))
  BY DEF Is
<1> HIDE DEF again
<1>8. /\ w' \in [Ids -> BOOLEAN] /\ w'[n] = (w[n] \/ again)
      /\ \A m \in Ids : m # n => w'[m] = w[m]
  BY <1>2, <1>4, <1>7
<1>9. Base'
  BY <1>1, <1>4, <1>5, <1>6, <1>8 DEF Base, Ids
<1>10. At(n)'
  <2>1. Kids(n)' = Kids(n) /\ Count(n)' = Count(n) /\ Outstanding(n)' = Outstanding(n) \ {k}
    <3>1. Kids(n)' = Kids(n) /\ Count(n)' = Count(n)
      BY <1>4 DEF Kids, RunsOf, Count
    <3>2. Kids(n) \subseteq Ids
      BY <1>2, KidFacts
    <3>3. QED
      BY <1>5, <3>1, <3>2 DEF Outstanding
  <2>2. \A j \in DOMAIN tree[n].runs : pc'[tree[n].runs[j]] # "idle" <=> Started(n, j)'
    <3>1. SUFFICES ASSUME NEW j \in DOMAIN tree[n].runs
                   PROVE  pc'[tree[n].runs[j]] # "idle" <=> Started(n, j)'
      OBVIOUS
    <3>2. tree[n].runs[j] \in Ids /\ (Started(n, j)' <=> Started(n, j))
      BY <1>2, <1>4, TreeFacts DEF Started, Is
    <3>3. QED
      BY <1>1, <1>4, <1>5, <3>2 DEF At
  <2>3. ok'[n] => \A j \in Kids(n) : pc'[j] = "joined" => ok'[j]
    <3>1. SUFFICES ASSUME ok'[n], NEW j \in Kids(n), pc'[j] = "joined" PROVE ok'[j]
      OBVIOUS
    <3>2. j \in Ids /\ j # n
      BY <1>2, KidFacts
    <3>3. QED
      BY <1>1, <1>5, <1>6, <3>1, <3>2 DEF At
  <2>4. tree[n].sequential => Outstanding(n) \subseteq {k}
    <3>1. SUFFICES ASSUME tree[n].sequential, NEW j \in Outstanding(n) PROVE j = k
      OBVIOUS
    <3>2. k \in Outstanding(n)
      BY <1>4 DEF Outstanding
    <3>3. PICK i \in DOMAIN tree[n].runs : j = tree[n].runs[i]
      BY DEF Outstanding, Kids, RunsOf
    <3>4. PICK l \in DOMAIN tree[n].runs : k = tree[n].runs[l]
      BY DEF Kids, RunsOf
    <3>5. i = at[n] /\ l = at[n]
      BY <1>1, <3>1, <3>2, <3>3, <3>4 DEF At
    <3>6. QED
      BY <3>3, <3>4, <3>5
  <2>5. tree[n].sequential => Outstanding(n)' = {}
    BY <2>1, <2>4
  <2>6. Is(n, "Schedule") /\ w'[n] /\ Outstanding(n)' # {} => at[n] < Count(n)
    BY <1>1, <1>4, <1>7, <1>8, <2>1 DEF At
  <2>7. at[n] <= Count(n) /\ (tree[n].kind \in Leaves => at[n] = 0) /\ (ctx = "live" => dc[n])
        /\ buildTree(tree)[n] \subseteq NewTree(tree)
    BY <1>1, <1>4 DEF At
  <2>8. QED
    BY <1>3, <1>4, <1>5, <2>1, <2>2, <2>3, <2>5, <2>6, <2>7 DEF At, Is
<1>11. ASSUME NEW m \in Ids, m # n PROVE At(m)'
  <2>1. At(m)
    BY <1>1
  <2>2. at'[m] = at[m] /\ ok'[m] = ok[m] /\ dc'[m] = dc[m] /\ w'[m] = w[m]
    BY <1>4, <1>6, <1>8, <1>11
  <2>3. pc'[m] = pc[m] \/ (pc'[m] = "joined" /\ pc[m] = "done")
    BY <1>4, <1>5
  <2>4. ASSUME NEW j \in Kids(m)
        PROVE  /\ pc'[j] = "idle" <=> pc[j] = "idle"
               /\ j \in Outstanding(m) <=> pc'[j] \in {"run", "error", "done"}
               /\ pc'[j] = "joined" => pc[j] = "joined" /\ ok'[j] = ok[j]
    <3>1. j \in Ids /\ j # k
      BY <1>2, <1>3, <1>11, KidFacts
    <3>2. pc'[j] = pc[j]
      BY <1>5, <3>1
    <3>3. pc[j] = "joined" => ok'[j] = ok[j]
      BY <1>4, <1>6, <3>1
    <3>4. QED
      BY <3>2, <3>3 DEF Outstanding
  <2>5. QED
    BY <1>4, <2>1, <2>2, <2>3, <2>4, SameAt
<1>12. Base' /\ AllAt'
  BY <1>4, <1>9, <1>10, <1>11 DEF AllAt, Ids
<1>13. QED
  BY <1>12, InvAt, PTL

\* Run n returns with result r, or has an error to send first: it has received all
\* results, and none was a failure if r is OK.
LEMMA ReturnStep ==
    ASSUME RunInv, NEW n \in Ids, NEW l \in {"error", "done"}, NEW r \in BOOLEAN,
           pc' = [pc EXCEPT ![n] = l], ok' = [ok EXCEPT ![n] = r],
           UNCHANGED <<tree, ctx, at, dc, w>>, err' \in BOOLEAN,
           pc[n] \in {"run", "error"}, Outstanding(n) = {},
           r => \A k \in Kids(n) : pc[k] = "joined" => ok[k],
           /\ r /\ l = "done" /\ ctx = "live"
           /\ tree[n].kind \in {"Serial", "Parallel", "Schedule"}
           => at[n] = Count(n)
    PROVE  RunInv'
<1>1. Base /\ \A m \in Ids : At(m)
  BY InvAt DEF AllAt
<1>2. /\ tree \in Trees /\ pc \in [Ids -> {"idle", "run", "error", "done", "joined"}]
      /\ ok \in [Ids -> BOOLEAN]
  BY <1>1 DEF Base
<1>3. /\ pc' \in [Ids -> {"idle", "run", "error", "done", "joined"}] /\ pc'[n] = l
      /\ \A m \in Ids : m # n => pc'[m] = pc[m]
  BY <1>2
<1>4. /\ ok' \in [Ids -> BOOLEAN] /\ ok'[n] = r
      /\ \A m \in Ids : m # n => ok'[m] = ok[m]
  BY <1>2
<1>5. Base'
  BY <1>1, <1>3, <1>4 DEF Base, Ids
<1>6. At(n)'
  <2>1. \A k \in Kids(n) : k \in Ids /\ k # n
    BY <1>2, KidFacts
  <2>2. Kids(n)' = Kids(n) /\ Count(n)' = Count(n)
    BY DEF Kids, RunsOf, Count
  <2>3. Outstanding(n)' = {}
    BY <1>3, <2>1, <2>2 DEF Outstanding
  <2>4. \A j \in DOMAIN tree[n].runs : pc'[tree[n].runs[j]] # "idle" <=> Started(n, j)'
    <3>1. SUFFICES ASSUME NEW j \in DOMAIN tree[n].runs
                   PROVE  pc'[tree[n].runs[j]] # "idle" <=> Started(n, j)'
      OBVIOUS
    <3>2. tree[n].runs[j] \in Kids(n) /\ (Started(n, j)' <=> Started(n, j))
      BY DEF Started, Is, Kids, RunsOf
    <3>3. QED
      BY <1>1, <1>3, <2>1, <3>2 DEF At
  <2>5. r => \A k \in Kids(n) : pc'[k] = "joined" => ok'[k]
    BY <1>3, <1>4, <2>1
  <2>6. at[n] <= Count(n) /\ (tree[n].kind \in Leaves => at[n] = 0) /\ (ctx = "live" => dc[n])
        /\ buildTree(tree)[n] \subseteq NewTree(tree)
    BY <1>1 DEF At
  <2>7. tree[n].sequential =>
           \A j \in DOMAIN tree[n].runs : tree[n].runs[j] \in Outstanding(n)' => j = at[n]
    BY <2>3
  <2>8. l # "run" /\ l # "joined"
    OBVIOUS
  <2>9. QED
    BY <1>3, <1>4, <2>2, <2>3, <2>4, <2>5, <2>6, <2>7, <2>8 DEF At, Is
<1>7. ASSUME NEW m \in Ids, m # n PROVE At(m)'
  <2>1. At(m)
    BY <1>1
  <2>2. ok'[m] = ok[m] /\ pc'[m] = pc[m]
    BY <1>3, <1>4, <1>7
  <2>3. ASSUME NEW j \in Kids(m)
        PROVE  /\ pc'[j] = "idle" <=> pc[j] = "idle"
               /\ j \in Outstanding(m) <=> pc'[j] \in {"run", "error", "done"}
               /\ pc'[j] = "joined" => pc[j] = "joined" /\ ok'[j] = ok[j]
    <3>1. j \in Ids
      BY <1>2, KidFacts
    <3>2. CASE j = n
      BY <1>3, <3>2 DEF Outstanding
    <3>3. CASE j # n
      BY <1>3, <1>4, <3>1, <3>3 DEF Outstanding
    <3>4. QED
      BY <3>2, <3>3
  <2>4. QED
    BY <2>1, <2>2, <2>3, SameAt
<1>8. Base' /\ AllAt'
  BY <1>5, <1>6, <1>7 DEF AllAt, Ids
<1>9. QED
  BY <1>8, InvAt, PTL

\* The context is canceled, or a Schedule takes its timer or sees that.
LEMMA QuietStep ==
    ASSUME RunInv, UNCHANGED <<tree, err, pc, ok, at>>, Base', ctx' = ctx \/ ctx' = "done",
           \A n \in Ids : (dc'[n] = dc[n] \/ ctx' = "done") /\ (w'[n] => w[n])
    PROVE  RunInv'
<1>1. Base /\ \A m \in Ids : At(m)
  BY InvAt DEF AllAt
<1>2. ASSUME NEW m \in Ids PROVE At(m)'
  <2>1. At(m)
    BY <1>1
  <2>2. \A j \in Kids(m) : /\ pc'[j] = "idle" <=> pc[j] = "idle"
                           /\ j \in Outstanding(m) <=> pc'[j] \in {"run", "error", "done"}
                           /\ pc'[j] = "joined" => pc[j] = "joined" /\ ok'[j] = ok[j]
    BY DEF Outstanding
  <2>3. QED
    BY <2>1, <2>2, SameAt
<1>3. Base' /\ AllAt'
  BY <1>2 DEF AllAt, Ids
<1>4. QED
  BY <1>3, InvAt, PTL

-----------------------------------------------------------------------------
(* What each list may start.                                               *)

\* List n may start S, and then count i and set the timer.
Allowed(n, S, i, timer) ==
    /\ S \in SUBSET Kids(n) /\ i \in Nat /\ timer \in BOOLEAN
    /\ pc[n] = "run" /\ i <= Count(n) /\ tree[n].kind \notin Leaves
    /\ S \cap Outstanding(n) = {} /\ (timer => i < Count(n))
    /\ \A j \in DOMAIN tree[n].runs :
          (tree[n].runs[j] \in S \/ Started(n, j)) <=>
             IF Is(n, "Random") THEN j = i ELSE j <= i
    /\ tree[n].sequential =>
          /\ ~timer /\ Outstanding(n) = {}
          /\ \A j \in DOMAIN tree[n].runs : tree[n].runs[j] \in S => j = i
    /\ ~Is(n, "Parallel") =>
          \A j \in DOMAIN tree[n].runs : tree[n].runs[j] \in S => InTurn(n, j)

\* Serial and Schedule: the next Run.
LEMMA NextAllowed ==
    ASSUME RunInv, NEW n \in Ids, NEW timer \in BOOLEAN, pc[n] = "run",
           tree[n].kind \in {"Serial", "Schedule"}, ok[n], at[n] < Count(n),
           Is(n, "Serial") \/ tree[n].sequential => Outstanding(n) = {} /\ ~timer,
           timer => at[n] + 1 < Count(n)
    PROVE  Allowed(n, {tree[n].runs[at[n] + 1]}, at[n] + 1, timer)
<1> DEFINE i == at[n] + 1
           k == tree[n].runs[i]
<1>1. Base /\ At(n)
  BY InvAt DEF AllAt
<1>2. tree \in Trees /\ at[n] \in Nat /\ Count(n) \in Nat /\ DOMAIN tree[n].runs = 1 .. Count(n)
  BY <1>1, TreeFacts DEF Base
<1>3. i \in DOMAIN tree[n].runs /\ i \in Nat /\ i <= Count(n) /\ ~(i <= at[n])
  BY <1>2
<1>4. k \in Kids(n)
  BY <1>3 DEF Kids, RunsOf
<1>5. tree[n].kind \notin Leaves /\ ~Is(n, "Random") /\ ~Is(n, "Parallel")
  BY DEF Leaves, Is
<1>6. \A j \in DOMAIN tree[n].runs : tree[n].runs[j] = k => j = i
  BY <1>2, <1>3, TreeFacts
<1>7. \A j \in DOMAIN tree[n].runs : pc[tree[n].runs[j]] # "idle" <=> j <= at[n]
  BY <1>1, <1>5 DEF At, Started
<1>8. k \notin Outstanding(n)
  BY <1>3, <1>7 DEF Outstanding
<1>9. ASSUME NEW j \in DOMAIN tree[n].runs
      PROVE  (tree[n].runs[j] \in {k} \/ Started(n, j)) <=> IF Is(n, "Random") THEN j = i ELSE j <= i
  <2>1. j \in Nat /\ (Started(n, j) <=> j <= at[n])
    BY <1>2, <1>5 DEF Started
  <2>2. tree[n].runs[j] \in {k} <=> j = i
    BY <1>6
  <2>3. QED
    BY <1>2, <1>5, <2>1, <2>2
<1>10. InTurn(n, i)
  <2>1. \A j \in Kids(n) : pc[j] = "joined" => ok[j]
    BY <1>1 DEF At
  <2>2. ASSUME Is(n, "Serial") \/ tree[n].sequential, NEW l \in DOMAIN tree[n].runs
        PROVE  pc[tree[n].runs[l]] = IF l < i THEN "joined" ELSE "idle"
    <3>1. tree[n].runs[l] \in Kids(n) /\ tree[n].runs[l] \in Ids
      BY <1>2, TreeFacts DEF Kids, RunsOf
    <3>2. pc[tree[n].runs[l]] \in {"idle", "joined"}
      BY <1>1, <2>2, <3>1 DEF Base, Outstanding
    <3>3. l < i <=> l <= at[n]
      BY <1>2
    <3>4. QED
      BY <1>7, <3>2, <3>3
  <2>3. QED
    BY <1>5, <2>1, <2>2 DEF InTurn
<1> HIDE DEF i, k
<1>11. \A j \in DOMAIN tree[n].runs : tree[n].runs[j] \in {k} => j = i
  BY <1>6
<1>12. timer => i < Count(n)
  BY DEF i
<1>13. Allowed(n, {k}, i, timer)
  BY <1>3, <1>4, <1>5, <1>8, <1>9, <1>10, <1>11, <1>12 DEF Allowed
<1>14. QED
  BY <1>13 DEF k, i

\* A list that starts Runs starts those that it may.
LEMMA StartsAllowed ==
    ASSUME RunInv, NEW n \in Ids,
           \/ SerialNext(n) \/ ParallelStart(n) \/ ThinkingDone(n) \/ RandomStart(n)
           \/ ScheduleTimer(n) /\ dc[n] /\ ok[n]
    PROVE  \E S, i, timer : Allowed(n, S, i, timer) /\ Start(n, S, i, timer)
<1>1. Base /\ At(n)
  BY InvAt DEF AllAt
<1>2. /\ tree \in Trees /\ at[n] \in Nat /\ Count(n) \in Nat /\ DOMAIN tree[n].runs = 1 .. Count(n)
      /\ (tree[n].sequential => Is(n, "Schedule")) /\ Kids(n) \subseteq Ids
  BY <1>1, TreeFacts, KidFacts DEF Base, Is
<1>3. /\ ok[n] => \A k \in Kids(n) : pc[k] = "joined" => ok[k]
      /\ \A j \in DOMAIN tree[n].runs : pc[tree[n].runs[j]] # "idle" <=> Started(n, j)
      /\ at[n] <= Count(n)
  BY <1>1 DEF At
\* Nothing is started before.
<1>4. ASSUME at[n] = 0 PROVE \A k \in Kids(n) : pc[k] = "idle"
  <2>1. \A j \in DOMAIN tree[n].runs : ~Started(n, j)
    BY <1>2, <1>4 DEF Started
  <2>2. QED
    BY <1>3, <2>1 DEF Kids, RunsOf
<1>5. CASE SerialNext(n)
  <2>1. Allowed(n, {tree[n].runs[at[n] + 1]}, at[n] + 1, FALSE)
    BY <1>5, NextAllowed DEF SerialNext, Is
  <2>2. QED
    BY <1>5, <2>1 DEF SerialNext
<1>6. CASE ScheduleTimer(n) /\ dc[n] /\ ok[n]
  <2> DEFINE timer == at[n] + 1 < Count(n) /\ ~tree[n].sequential
  <2>1. /\ pc[n] = "run" /\ Is(n, "Schedule") /\ Loops(n) /\ w[n]
        /\ Start(n, {tree[n].runs[at[n] + 1]}, at[n] + 1, timer)
    BY <1>6 DEF ScheduleTimer
  <2>2. at[n] < Count(n)
    BY <1>1, <2>1 DEF At, Loops
  <2>3. tree[n].sequential => Outstanding(n) = {}
    BY <1>1, <2>1 DEF At
  <2>4. timer \in BOOLEAN /\ (timer => at[n] + 1 < Count(n)) /\ (tree[n].sequential => ~timer)
    OBVIOUS
  <2>5. ~Is(n, "Serial") /\ tree[n].kind = "Schedule"
    BY <2>1 DEF Is
  <2> HIDE DEF timer
  <2>6. Allowed(n, {tree[n].runs[at[n] + 1]}, at[n] + 1, timer)
    BY <1>6, <2>1, <2>2, <2>3, <2>4, <2>5, NextAllowed
  <2>7. QED
    BY <2>1, <2>6
<1>7. CASE ParallelStart(n)
  <2>1. pc[n] = "run" /\ Is(n, "Parallel") /\ at[n] = 0 /\ Start(n, Kids(n), Count(n), FALSE)
    BY <1>7 DEF ParallelStart
  <2>2. ~Is(n, "Random") /\ tree[n].kind \notin Leaves /\ ~tree[n].sequential
    BY <1>2, <2>1 DEF Is, Leaves
  <2>3. Kids(n) \cap Outstanding(n) = {}
    BY <1>4, <2>1 DEF Outstanding
  <2>4. \A j \in DOMAIN tree[n].runs : tree[n].runs[j] \in Kids(n) /\ j <= Count(n)
    BY <1>2 DEF Kids, RunsOf
  <2>5. Count(n) <= Count(n) /\ FALSE \in BOOLEAN
    BY <1>2
  <2>6. Allowed(n, Kids(n), Count(n), FALSE)
    BY <1>2, <2>1, <2>2, <2>3, <2>4, <2>5 DEF Allowed
  <2>7. QED
    BY <2>1, <2>6
<1>8. CASE ThinkingDone(n)
  <2>1. /\ pc[n] = "run" /\ Is(n, "ClosedLoopActor") /\ Outstanding(n) = {} /\ ok[n]
        /\ Start(n, Kids(n), 1, FALSE)
    BY <1>8 DEF ThinkingDone
  <2>2. ~Is(n, "Random") /\ tree[n].kind \notin Leaves /\ ~tree[n].sequential /\ ~Is(n, "Serial")
    BY <1>2, <2>1 DEF Is, Leaves
  <2>3. Count(n) = 1
    BY <1>2, <2>1, TreeFacts DEF Is
  <2>4. \A j \in DOMAIN tree[n].runs : tree[n].runs[j] \in Kids(n) /\ j <= 1
    BY <1>2, <2>3 DEF Kids, RunsOf
  <2>5. \A j \in DOMAIN tree[n].runs : InTurn(n, j)
    BY <1>3, <2>1, <2>2 DEF InTurn
  <2>6. 1 \in Nat /\ 1 <= Count(n) /\ FALSE \in BOOLEAN
    BY <2>3
  <2>7. Allowed(n, Kids(n), 1, FALSE)
    BY <2>1, <2>2, <2>4, <2>5, <2>6 DEF Allowed
  <2>8. QED
    BY <2>1, <2>7
<1>9. CASE RandomStart(n)
  <2>1. pc[n] = "run" /\ Is(n, "Random") /\ at[n] = 0
    BY <1>9 DEF RandomStart
  <2>2. PICK i \in Samples(n) : Start(n, {tree[n].runs[i]}, i, FALSE)
    BY <1>9 DEF RandomStart
  <2>3. /\ i \in DOMAIN tree[n].runs
        /\ (\E j \in DOMAIN tree[n].weights : tree[n].weights[j] > 0) => tree[n].weights[i] > 0
    BY <1>2, <2>1, SamplesFacts
  <2>4. i \in Nat /\ i <= Count(n)
    BY <1>2, <2>3
  <2>5. ~Is(n, "Parallel") /\ tree[n].kind \notin Leaves /\ ~tree[n].sequential /\ ~Is(n, "Serial")
    BY <1>2, <2>1 DEF Is, Leaves
  <2>6. tree[n].runs[i] \in Kids(n)
    BY <2>3 DEF Kids, RunsOf
  <2>7. {tree[n].runs[i]} \cap Outstanding(n) = {}
    BY <1>4, <2>1 DEF Outstanding
  <2>8. \A j \in DOMAIN tree[n].runs : tree[n].runs[j] \in {tree[n].runs[i]} <=> j = i
    BY <1>2, <2>3, TreeFacts
  <2>9. \A j \in DOMAIN tree[n].runs : ~Started(n, j)
    BY <1>2, <2>1 DEF Started
  <2>10. InTurn(n, i)
    BY <1>4, <2>1, <2>3, <2>5 DEF InTurn
  <2>11. Allowed(n, {tree[n].runs[i]}, i, FALSE)
    BY <2>1, <2>4, <2>5, <2>6, <2>7, <2>8, <2>9, <2>10 DEF Allowed
  <2>12. QED
    BY <2>2, <2>11
<1>10. QED
  BY <1>5, <1>6, <1>7, <1>8, <1>9

-----------------------------------------------------------------------------
(* All steps.                                                              *)

\* A step of Run n that starts none.
LEMMA OtherStep ==
    ASSUME RunInv, NEW n \in Ids,
           \/ \E k \in Kids(n) : Join(n, k)
           \/ SerialReturn(n) \/ ParallelReturn(n)
           \/ ScheduleTimer(n) /\ ~(dc[n] /\ ok[n])
           \/ ScheduleCanceled(n) \/ ScheduleReturn(n) \/ ActorCanceled(n) \/ ActorReturn(n)
           \/ RandomReturn(n) \/ EmptyReturn(n) \/ RunnerReturn(n) \/ RunnerFail(n)
           \/ ErrorTaken(n) \/ ChildReply(n)
    PROVE  RunInv' /\ \A k \in Ids : pc'[k] = "run" => pc[k] = "run"
<1>1. Base /\ At(n)
  BY InvAt DEF AllAt
<1>2. /\ tree \in Trees /\ pc \in [Ids -> {"idle", "run", "error", "done", "joined"}]
      /\ ok \in [Ids -> BOOLEAN] /\ err \in BOOLEAN /\ ctx \in {"live", "done"}
      /\ dc \in [Ids -> BOOLEAN] /\ w \in [Ids -> BOOLEAN] /\ at \in [Ids -> Nat]
  BY <1>1 DEF Base
<1>3. /\ ok[n] => \A k \in Kids(n) : pc[k] = "joined" => ok[k]
      /\ \A j \in DOMAIN tree[n].runs : pc[tree[n].runs[j]] # "idle" <=> Started(n, j)
      /\ at[n] <= Count(n) /\ (ctx = "live" => dc[n])
  BY <1>1 DEF At
<1>4. /\ DOMAIN tree[n].runs = 1 .. Count(n) /\ Count(n) \in Nat /\ at[n] \in Nat
  BY <1>2, TreeFacts
\* Runs that have no list to start from.
<1>5. ASSUME tree[n].kind \in Leaves PROVE \A k \in Kids(n) : pc[k] = "idle"
  <2>1. \A j \in DOMAIN tree[n].runs : ~Started(n, j)
    BY <1>1, <1>4, <1>5 DEF Started, At, Leaves, Is
  <2>2. QED
    BY <1>3, <2>1 DEF Kids, RunsOf
\* Finish.
<1>6. ASSUME NEW r \in BOOLEAN, Finish(n, r), pc[n] = "run", Outstanding(n) = {},
             r => \A k \in Kids(n) : pc[k] = "joined" => ok[k],
             /\ r /\ ctx = "live" /\ tree[n].kind \in {"Serial", "Parallel", "Schedule"}
             => at[n] = Count(n)
      PROVE  RunInv' /\ \A k \in Ids : pc'[k] = "run" => pc[k] = "run"
  <2>1. /\ pc' = [pc EXCEPT ![n] = "done"] /\ ok' = [ok EXCEPT ![n] = r]
        /\ UNCHANGED <<tree, ctx, err, at, dc, w>>
    BY <1>6 DEF Finish
  <2>2. RunInv'
    BY <1>2, <1>6, <2>1, ReturnStep
  <2>3. QED
    BY <1>2, <2>1, <2>2
<1>7. ASSUME Finish(n, ok[n]), pc[n] = "run", Outstanding(n) = {},
             /\ ok[n] /\ ctx = "live" /\ tree[n].kind \in {"Serial", "Parallel", "Schedule"}
             => at[n] = Count(n)
      PROVE  RunInv' /\ \A k \in Ids : pc'[k] = "run" => pc[k] = "run"
  BY <1>2, <1>3, <1>6, <1>7
<1>8. ASSUME NEW r \in BOOLEAN, Finish(n, r), pc[n] = "run", tree[n].kind \in Leaves
      PROVE  RunInv' /\ \A k \in Ids : pc'[k] = "run" => pc[k] = "run"
  <2>1. Outstanding(n) = {} /\ \A k \in Kids(n) : pc[k] = "joined" => ok[k]
    BY <1>5, <1>8 DEF Outstanding
  <2>2. tree[n].kind \notin {"Serial", "Parallel", "Schedule"}
    BY <1>8 DEF Leaves
  <2>3. QED
    BY <1>6, <1>8, <2>1, <2>2
<1>9. CASE \E k \in Kids(n) : Join(n, k)
  <2>1. PICK k \in Kids(n) : Join(n, k)
    BY <1>9
  <2>2. pc' = [pc EXCEPT ![k] = "joined"] /\ k \in Ids
    BY <1>2, <2>1, KidFacts DEF Join
  <2>3. QED
    BY <1>2, <2>1, <2>2, JoinStep
<1>10. CASE SerialReturn(n) \/ ParallelReturn(n) \/ RandomReturn(n)
  BY <1>7, <1>10 DEF SerialReturn, ParallelReturn, RandomReturn, Is
<1>11. CASE ScheduleReturn(n)
  <2>1. pc[n] = "run" /\ Is(n, "Schedule") /\ ~Loops(n) /\ Finish(n, ok[n])
    BY <1>11 DEF ScheduleReturn
  <2>2. Outstanding(n) = {} /\ ~(at[n] < Count(n) /\ dc[n] /\ ok[n])
    BY <2>1 DEF Loops
  <2>3. ok[n] /\ ctx = "live" => at[n] = Count(n)
    BY <1>3, <1>4, <2>2
  <2>4. QED
    BY <1>7, <2>1, <2>2, <2>3
<1>12. CASE ActorCanceled(n) \/ ActorReturn(n)
  BY <1>7, <1>12 DEF ActorCanceled, ActorReturn, Is
<1>13. CASE EmptyReturn(n) \/ RunnerReturn(n) \/ ChildReply(n)
  <2>1. \E r \in BOOLEAN : Finish(n, r)
    BY <1>13 DEF EmptyReturn, RunnerReturn, ChildReply
  <2>2. pc[n] = "run" /\ tree[n].kind \in Leaves
    BY <1>13 DEF EmptyReturn, RunnerReturn, ChildReply, Is, Leaves
  <2>3. QED
    BY <1>8, <2>1, <2>2
<1>14. CASE RunnerFail(n)
  <2>1. /\ pc[n] = "run" /\ tree[n].kind \in Leaves /\ pc' = [pc EXCEPT ![n] = "error"]
        /\ UNCHANGED <<tree, ctx, err, ok, at, dc, w>>
    BY <1>14 DEF RunnerFail, Is, Leaves
  <2>2. Outstanding(n) = {}
    BY <1>5, <2>1 DEF Outstanding
  <2>3. ok' = [ok EXCEPT ![n] = ok[n]] /\ ok[n] \in BOOLEAN /\ "error" # "done" /\ "error" \in {"error", "done"}
    BY <1>2, <2>1
  <2>4. RunInv'
    BY <1>2, <1>3, <2>1, <2>2, <2>3, ReturnStep
  <2>5. QED
    BY <1>2, <2>1, <2>4
<1>15. CASE ErrorTaken(n)
  <2>1. /\ pc[n] = "error" /\ pc' = [pc EXCEPT ![n] = "done"] /\ ok' = [ok EXCEPT ![n] = FALSE]
        /\ err' = TRUE /\ UNCHANGED <<tree, ctx, at, dc, w>>
    BY <1>15 DEF ErrorTaken
  <2>2. Outstanding(n) = {} /\ FALSE \in BOOLEAN /\ TRUE \in BOOLEAN /\ "done" \in {"error", "done"}
    BY <1>1, <2>1 DEF At
  <2>3. RunInv'
    BY <2>1, <2>2, ReturnStep
  <2>4. QED
    BY <1>2, <2>1, <2>3
<1>16. CASE ScheduleTimer(n) /\ ~(dc[n] /\ ok[n])
  <2>1. w' = [w EXCEPT ![n] = FALSE] /\ UNCHANGED <<tree, ctx, err, pc, ok, at, dc>>
    BY <1>16 DEF ScheduleTimer
  <2>2. w' \in [Ids -> BOOLEAN] /\ \A m \in Ids : w'[m] => w[m]
    BY <1>2, <2>1
  <2>3. Base'
    BY <1>2, <2>1, <2>2 DEF Base, Ids
  <2>4. QED
    BY <2>1, <2>2, <2>3, QuietStep
<1>17. CASE ScheduleCanceled(n)
  <2>1. /\ ctx = "done" /\ dc' = [dc EXCEPT ![n] = FALSE]
        /\ UNCHANGED <<tree, ctx, err, pc, ok, at, w>>
    BY <1>17 DEF ScheduleCanceled
  <2>2. dc' \in [Ids -> BOOLEAN]
    BY <1>2, <2>1
  <2>3. Base'
    BY <1>2, <2>1, <2>2 DEF Base, Ids
  <2>4. QED
    BY <2>1, <2>3, QuietStep
<1>18. QED
  BY <1>9, <1>10, <1>11, <1>12, <1>13, <1>14, <1>15, <1>16, <1>17

\* A step starts what a list may start, or nothing.
LEMMA StepSplit ==
    ASSUME RunInv, [Next]_vars
    PROVE  \/ \E n \in Ids : \E S, i, timer : Allowed(n, S, i, timer) /\ Start(n, S, i, timer)
           \/ RunInv' /\ UNCHANGED tree /\ \A k \in Ids : pc'[k] = "run" => pc[k] = "run"
<1>1. Base
  BY InvAt
<1>2. CASE UNCHANGED vars
  <2>1. UNCHANGED <<tree, ctx, err, pc, ok, at, dc, w>>
    BY <1>2 DEF vars
  <2>2. Base'
    BY <1>1, <2>1 DEF Base, Ids
  <2>3. QED
    BY <2>1, <2>2, QuietStep
<1>3. CASE Cancel
  <2>1. ctx' = "done" /\ UNCHANGED <<tree, err, pc, ok, at, dc, w>>
    BY <1>3 DEF Cancel
  <2>2. Base'
    BY <1>1, <2>1 DEF Base, Ids
  <2>3. QED
    BY <2>1, <2>2, QuietStep
<1>4. ASSUME NEW n \in Ids, Step(n)
      PROVE  \/ \E S, i, timer : Allowed(n, S, i, timer) /\ Start(n, S, i, timer)
             \/ RunInv' /\ UNCHANGED tree /\ \A k \in Ids : pc'[k] = "run" => pc[k] = "run"
  <2>1. CASE \/ SerialNext(n) \/ ParallelStart(n) \/ ThinkingDone(n) \/ RandomStart(n)
             \/ ScheduleTimer(n) /\ dc[n] /\ ok[n]
    BY <2>1, StartsAllowed
  <2>2. CASE \/ \E k \in Kids(n) : Join(n, k)
             \/ SerialReturn(n) \/ ParallelReturn(n)
             \/ ScheduleTimer(n) /\ ~(dc[n] /\ ok[n])
             \/ ScheduleCanceled(n) \/ ScheduleReturn(n) \/ ActorCanceled(n) \/ ActorReturn(n)
             \/ RandomReturn(n) \/ EmptyReturn(n) \/ RunnerReturn(n) \/ RunnerFail(n)
             \/ ErrorTaken(n) \/ ChildReply(n)
    <3>1. UNCHANGED tree
      BY <2>2 DEF Join, SerialReturn, ParallelReturn, ScheduleTimer, ScheduleCanceled,
         ScheduleReturn, ActorCanceled, ActorReturn, RandomReturn, EmptyReturn, RunnerReturn,
         RunnerFail, ErrorTaken, ChildReply, Finish
    <3>2. QED
      BY <2>2, <3>1, OtherStep
  <2>3. QED
    BY <1>4, <2>1, <2>2 DEF Step
<1>5. QED
  BY <1>2, <1>3, <1>4 DEF Next

\* Every step keeps the invariant, and starts Runs in turn.
LEMMA StepInv ==
    ASSUME RunInv, [Next]_vars
    PROVE  /\ RunInv'
           /\ \A n \in Ids : ~Is(n, "Parallel") => \A j \in DOMAIN tree[n].runs :
                 pc[tree[n].runs[j]] # "run" /\ pc'[tree[n].runs[j]] = "run" => InTurn(n, j)
<1>1. Base /\ tree \in Trees
  BY InvAt DEF Base
<1>2. CASE \E n \in Ids : \E S, i, timer : Allowed(n, S, i, timer) /\ Start(n, S, i, timer)
  <2>1. PICK n \in Ids : \E S, i, timer : Allowed(n, S, i, timer) /\ Start(n, S, i, timer)
    BY <1>2
  <2>2. PICK S, i, timer : Allowed(n, S, i, timer) /\ Start(n, S, i, timer)
    BY <2>1
  <2>3. RunInv'
    BY <2>2, StartStep DEF Allowed
  <2>4. Effect(n, S, i, timer)
    BY <1>1, <2>2, StartFacts DEF Allowed
  <2>5. ASSUME NEW m \in Ids, ~Is(m, "Parallel"), NEW j \in DOMAIN tree[m].runs,
               pc[tree[m].runs[j]] # "run", pc'[tree[m].runs[j]] = "run"
        PROVE  InTurn(m, j)
    <3> DEFINE k == tree[m].runs[j]
    <3>1. k \in Ids /\ k \in Kids(m)
      BY <1>1, TreeFacts DEF Kids, RunsOf
    <3>2. k \in S
      BY <2>4, <2>5, <3>1 DEF Effect
    <3>3. S \subseteq Kids(n)
      BY <2>2 DEF Allowed
    <3>4. m = n
      BY <1>1, <3>1, <3>2, <3>3, KidFacts
    <3>5. QED
      BY <2>2, <2>5, <3>2, <3>4 DEF Allowed
  <2>6. QED
    BY <2>3, <2>5
<1>3. CASE RunInv' /\ UNCHANGED tree /\ \A k \in Ids : pc'[k] = "run" => pc[k] = "run"
  <2>1. \A n \in Ids : \A j \in DOMAIN tree[n].runs : tree[n].runs[j] \in Ids
    BY <1>1, TreeFacts
  <2>2. QED
    BY <1>3, <2>1
<1>4. QED
  BY <1>2, <1>3, StepSplit

\* At the start only the root runs, which is in no list.
LEMMA InitInv == Init => RunInv
<1>1. SUFFICES ASSUME Init PROVE RunInv
  OBVIOUS
<1>2. /\ tree \in Trees /\ ctx = "live" /\ err = FALSE
      /\ pc = [n \in Ids |-> IF n = 1 THEN "run" ELSE "idle"]
      /\ ok = [n \in Ids |-> TRUE] /\ at = [n \in Ids |-> 0]
      /\ dc = [n \in Ids |-> TRUE] /\ w = [n \in Ids |-> TRUE]
  BY <1>1 DEF Init
<1>3. Base
  BY <1>2 DEF Base
<1>4. ASSUME NEW n \in Ids PROVE At(n)
  <2>1. \A k \in Kids(n) : pc[k] = "idle"
    <3>1. \A k \in Kids(n) : k \in Ids /\ k > n
      BY <1>2, KidFacts
    <3>2. n \in Nat /\ n >= 1
      BY <1>2, TreeFacts
    <3>3. \A k \in Kids(n) : k # 1
      BY <3>1, <3>2
    <3>4. QED
      BY <1>2, <3>1, <3>3
  <2>2. Outstanding(n) = {}
    BY <2>1 DEF Outstanding
  <2>3. /\ Count(n) \in Nat /\ DOMAIN tree[n].runs = 1 .. Count(n)
    BY <1>2, TreeFacts
  <2>4. \A j \in DOMAIN tree[n].runs : ~Started(n, j) /\ tree[n].runs[j] \in Kids(n)
    BY <1>2, <2>3 DEF Started, Kids, RunsOf
  <2>5. pc[n] # "idle" => n = 1
    BY <1>2
  <2>6. buildTree(tree)[1] = NewTree(tree)
    BY DEF NewTree
  <2>7. at[n] = 0 /\ ok[n] /\ dc[n] /\ w[n] /\ pc[n] \in {"run", "idle"}
    BY <1>2
  <2>8. QED
    BY <2>1, <2>2, <2>3, <2>4, <2>5, <2>6, <2>7 DEF At
<1>5. QED
  BY <1>3, <1>4, InvAt DEF AllAt

\* What do of each list has started, received and counted agrees with the
\* goroutines that there are: RunInv holds in every state of run.
THEOREM RunCorrect == Spec => []RunInv
<1>1. RunInv /\ [Next]_vars => RunInv'
  BY StepInv
<1>2. QED
  BY <1>1, InitInv, PTL DEF Spec

\* No Run returns while a goroutine of it is left, and none returns OK with a
\* failed Run below it, or, unless canceled, with one that it did not execute.
THEOREM ReturnMeansDoneAlways == Spec => []ReturnMeansDone
<1>1. ASSUME RunInv PROVE ReturnMeansDone
  <2>1. Base /\ tree \in Trees /\ \A n \in Ids : At(n)
    BY <1>1, InvAt DEF Base, AllAt
  <2>2. ASSUME NEW n \in Ids, pc[n] \in {"done", "joined"}
        PROVE  /\ Outstanding(n) = {}
               /\ ok[n] =>
                     /\ \A k \in Kids(n) : pc[k] = "joined" => ok[k]
                     /\ tree[n].kind \in {"Serial", "Parallel", "Schedule"} /\ ctx = "live" =>
                           \A k \in Kids(n) : pc[k] = "joined"
    <3>1. Outstanding(n) = {} /\ (ok[n] => \A k \in Kids(n) : pc[k] = "joined" => ok[k])
      BY <2>1, <2>2 DEF At
    <3>2. ASSUME ok[n], tree[n].kind \in {"Serial", "Parallel", "Schedule"}, ctx = "live",
                 NEW k \in Kids(n)
          PROVE  pc[k] = "joined"
      <4>1. at[n] = Count(n) /\ ~Is(n, "Random")
        BY <2>1, <2>2, <3>2 DEF At, Is
      <4>2. PICK j \in DOMAIN tree[n].runs : k = tree[n].runs[j]
        BY DEF Kids, RunsOf
      <4>3. j <= Count(n)
        BY <2>1, TreeFacts
      <4>4. pc[k] # "idle"
        BY <2>1, <4>1, <4>2, <4>3 DEF At, Started
      <4>5. k \in Ids
        BY <2>1, KidFacts
      <4>6. QED
        BY <2>1, <3>1, <4>4, <4>5 DEF Outstanding, Base
    <3>3. QED
      BY <3>1, <3>2
  <2>3. QED
    BY <2>2 DEF ReturnMeansDone
<1>2. QED
  BY <1>1, RunCorrect, PTL

\* Child.do finds the conn of its node, and the child those of the nodes below.
THEOREM NodeLaunchedAlways == Spec => []NodeLaunched
<1>1. ASSUME RunInv PROVE NodeLaunched
  <2>1. tree \in Trees /\ \A n \in Ids : At(n)
    BY <1>1, InvAt DEF Base, AllAt
  <2>2. Ordered(tree, Len(tree)) /\ Len(tree) \in Nat /\ Ids = 1 .. Len(tree)
    BY <2>1, TreeFacts
  <2>3. ASSUME NEW n \in Ids, pc[n] = "run", Is(n, "Child")
        PROVE  /\ <<tree[n].node>> \in NewTree(tree)
               /\ \A k \in Kids(n) : \A p \in NewTree([tree EXCEPT ![1] = tree[k]]) :
                     <<tree[n].node>> \o p \in NewTree(tree)
    <3>1. buildTree(tree)[n] = Visit(tree, buildTree(tree), n)
      BY <2>2, BuildFacts
    <3>2. buildTree(tree)[n] \subseteq NewTree(tree)
      BY <2>1, <2>3 DEF At
    <3>3. <<tree[n].node>> \in buildTree(tree)[n]
      BY <2>3, <3>1 DEF Visit, Is
    <3>4. ASSUME NEW k \in Kids(n), NEW p \in NewTree([tree EXCEPT ![1] = tree[k]])
          PROVE  <<tree[n].node>> \o p \in NewTree(tree)
      <4>1. k \in 2 .. Len(tree)
        BY <2>1, <2>2, KidFacts
      <4>2. p \in buildTree(tree)[k]
        BY <2>2, <4>1, RootFacts
      <4>3. p \in UNION {buildTree(tree)[j] : j \in RunsOf(tree, n)}
        BY <4>2 DEF Kids
      <4>4. <<tree[n].node>> \o p \in buildTree(tree)[n]
        BY <2>3, <3>1, <4>3 DEF Visit, Is
      <4>5. QED
        BY <3>2, <4>4
    <3>5. QED
      BY <3>2, <3>3, <3>4
  <2>4. QED
    BY <2>3 DEF NodeLaunched
<1>2. QED
  BY <1>1, RunCorrect, PTL

\* Lists start their Runs in turn and none after a failure, and Random none that
\* has weight 0.
THEOREM StartsInTurnAlways == Spec => StartsInTurn
<1>1. ASSUME RunInv, [Next]_vars
      PROVE  [\A n \in Ids : ~Is(n, "Parallel") =>
                 \A i \in DOMAIN tree[n].runs :
                    pc[tree[n].runs[i]] \in {"idle", "joined"} /\ pc'[tree[n].runs[i]] = "run" =>
                       InTurn(n, i)]_vars
  <2>1. \A n \in Ids : ~Is(n, "Parallel") => \A j \in DOMAIN tree[n].runs :
                 pc[tree[n].runs[j]] # "run" /\ pc'[tree[n].runs[j]] = "run" => InTurn(n, j)
    BY <1>1, StepInv
  <2>2. QED
    BY <2>1
<1>2. QED
  BY <1>1, RunCorrect, PTL DEF Spec, StartsInTurn
=============================================================================
