---------------------------- MODULE ResultsProofs ----------------------------
(***************************************************************************)
(* Proofs of the safety properties of Results, for any instances, Tests,   *)
(* values, times and configurations.                                       *)
(***************************************************************************)
EXTENDS Results, FiniteSetTheorems, TLAPS

\* A set of positive naturals with an upper bound has a greatest element.
LEMMA MaxElement ==
    ASSUME NEW N \in Nat, NEW S \in SUBSET (1 .. N), S # {}
    PROVE  Max(S) \in S /\ \A y \in S : Max(S) >= y
<1> DEFINE Above(z) == {y \in S : y >= z}
<1> DEFINE F == {Above(z) : z \in S}
<1>1. IsFiniteSet(S)
  <2>1. IsFiniteSet(1 .. N)
    BY FS_Interval
  <2>2. QED
    BY <2>1, FS_Subset
<1>2. F \subseteq FiniteSubsetsOf(S) /\ F # {}
  <2>1. FiniteSubsetsOf(S) = SUBSET S
    BY <1>1, FS_FiniteSubsetsOfFinite
  <2>2. \A z \in S : Above(z) \in SUBSET S
    OBVIOUS
  <2>3. F # {}
    OBVIOUS
  <2>4. QED
    BY <2>1, <2>2, <2>3
<1>3. PICK T \in F : \A U \in F : ~(<<U, T>> \in StrictSubsetOrdering(S))
  <2>1. IsWellFoundedOn(StrictSubsetOrdering(S), FiniteSubsetsOf(S))
    BY FS_StrictSubsetOrderingWellFounded
  <2> HIDE DEF F
  <2>2. QED
    BY <1>2, <2>1, WFMin
<1>4. PICK x \in S : T = Above(x)
  OBVIOUS
<1>5. ASSUME NEW z \in S, ~(x >= z) PROVE FALSE
  <2>1. x \in Int /\ z \in Int /\ \A y \in S : y \in Int
    OBVIOUS
  <2>2. \A y \in S : y >= z => y >= x
    BY <1>5, <2>1
  <2>3. Above(z) \subseteq Above(x)
    BY <2>2
  <2>4. x \in Above(x) /\ x \notin Above(z)
    BY <1>5, <2>1
  <2>5. Above(z) \in F
    OBVIOUS
  <2>6. <<Above(z), T>> \in StrictSubsetOrdering(S)
    BY <1>4, <2>3, <2>4 DEF StrictSubsetOrdering
  <2>7. QED
    BY <1>3, <2>5, <2>6
<1>6. QED
  BY <1>5 DEF Max

-----------------------------------------------------------------------------
(* The configuration, and directories.                                     *)

\* The files of a configuration, and the times that it has.
LEMMA ConfFacts ==
    ASSUME conf \in Confs
    PROVE  /\ conf \in Conf
           /\ conf.until \in Nat /\ conf.until >= 1 /\ conf.until <= MaxTime
           /\ conf.tests \in Nat /\ conf.tests >= 1 /\ conf.tests <= MaxTests
           /\ Names = (Tests \X {"data", "file", "gz", "out"}) \cup {Index}
           /\ \A n \in Names : n[1] \in Nat
           /\ MaxTime \in Nat
BY ResultsAssumption DEF Names, NamesOf, Conf, Tests, Index

\* The file system never runs out of inodes: there is one that no file of the
\* work directory and of the results uses.
LEMMA FreeInode ==
    ASSUME conf \in Confs, results \in [Times -> Dirs], NEW f \in Dirs
    PROVE  \E j \in Inodes : j \notin Used(f)
<1>1. Times = 1 .. conf.until /\ conf.until \in Nat /\ conf.until <= MaxTime /\ MaxTime \in Nat
  BY ConfFacts DEF Times
<1>2. IsFiniteSet(Names)
  <2>1. IsFiniteSet(Tests) /\ IsFiniteSet({"data", "file", "gz", "out"}) /\ IsFiniteSet({Index})
    <3>1. IsFiniteSet(Tests)
      <4>1. Tests = 1 .. conf.tests /\ conf.tests \in Int
        BY ConfFacts DEF Tests
      <4>2. QED
        BY <4>1, FS_Interval
    <3>2. IsFiniteSet({"data"}) /\ IsFiniteSet({Index})
      BY FS_Singleton
    <3>3. IsFiniteSet({"data"} \cup {"file"})
      BY <3>2, FS_AddElement
    <3>4. IsFiniteSet({"data"} \cup {"file"} \cup {"gz"})
      BY <3>3, FS_AddElement
    <3>5. IsFiniteSet({"data"} \cup {"file"} \cup {"gz"} \cup {"out"})
      BY <3>4, FS_AddElement
    <3>6. {"data"} \cup {"file"} \cup {"gz"} \cup {"out"} = {"data", "file", "gz", "out"}
      OBVIOUS
    <3>7. QED
      BY <3>1, <3>2, <3>5, <3>6
  <2>2. IsFiniteSet(Tests \X {"data", "file", "gz", "out"})
    BY <2>1, FS_Product
  <2>3. Names = (Tests \X {"data", "file", "gz", "out"}) \cup {Index}
    BY ConfFacts
  <2>4. QED
    BY <2>1, <2>2, <2>3, FS_Union
<1> DEFINE C == Cardinality(Names)
           D == Names \X (0 .. conf.until)
           g == [x \in D |-> IF x[2] = 0 THEN f[x[1]] ELSE results[x[2]][x[1]]]
<1>3. C \in Nat
  BY <1>2, FS_CardinalityType
<1>4. IsFiniteSet(D) /\ Cardinality(D) = C * (conf.until + 1)
  <2>1. IsFiniteSet(0 .. conf.until) /\ Cardinality(0 .. conf.until) = conf.until + 1
    BY <1>1, FS_Interval
  <2>2. QED
    BY <1>2, <2>1, FS_Product
<1>5. g \in Surjection(D, Used(f))
  <2>1. \A x \in D : g[x] \in Used(f)
    BY <1>1 DEF Used
  <2>2. \A i \in Used(f) : \E x \in D : g[x] = i
    <3> TAKE i \in Used(f)
    <3>1. CASE \E n \in Names : i = f[n]
      <4>1. PICK n \in Names : i = f[n]
        BY <3>1
      <4>2. <<n, 0>> \in D /\ g[<<n, 0>>] = i
        BY <1>1, <4>1
      <4>3. QED
        BY <4>2
    <3>2. CASE \E t \in Times, n \in Names : i = results[t][n]
      <4>1. PICK t \in Times, n \in Names : i = results[t][n]
        BY <3>2
      <4>2. <<n, t>> \in D /\ g[<<n, t>>] = i
        BY <1>1, <4>1
      <4>3. QED
        BY <4>2
    <3>3. i \in {f[n] : n \in Names} \/ i \in {results[t][n] : t \in Times, n \in Names}
      BY DEF Used
    <3> HIDE DEF g, D
    <3>4. QED
      BY <3>1, <3>2, <3>3
  <2>3. QED
    BY <2>1, <2>2 DEF Surjection
<1>6. IsFiniteSet(Used(f)) /\ Cardinality(Used(f)) <= C * (conf.until + 1)
  BY <1>4, <1>5, FS_Surjection
<1>7. Cardinality(Used(f)) \in Nat
  BY <1>6, FS_CardinalityType
<1>8. Inodes = 1 .. (C * (MaxTime + 1) + 1)
  BY ConfFacts, ResultsAssumption DEF Inodes, InodesOf, Names, Conf
<1>9. C * (conf.until + 1) <= C * (MaxTime + 1) /\ C * (MaxTime + 1) \in Nat
      /\ C * (conf.until + 1) \in Nat
  <2>1. C * (MaxTime + 1) = C * (conf.until + 1) + C * (MaxTime - conf.until)
    BY <1>1, <1>3
  <2>2. MaxTime - conf.until \in Nat
    BY <1>1
  <2>3. \A a, b \in Nat : a * b \in Nat
    OBVIOUS
  <2> DEFINE low == C * (conf.until + 1)
             high == C * (MaxTime + 1)
             more == C * (MaxTime - conf.until)
  <2>4. low \in Nat /\ high \in Nat /\ more \in Nat
    <3>1. conf.until + 1 \in Nat /\ MaxTime + 1 \in Nat
      BY <1>1
    <3> HIDE DEF C
    <3>2. QED
      BY <1>3, <2>2, <2>3, <3>1
  <2>5. high = low + more
    BY <2>1
  <2> HIDE DEF low, high, more
  <2>6. low <= high
    BY <2>4, <2>5
  <2>7. QED
    BY <2>4, <2>6 DEF low, high
<1>10. IsFiniteSet(Inodes) /\ Cardinality(Inodes) = C * (MaxTime + 1) + 1
  BY <1>8, <1>9, FS_Interval
<1>11. ASSUME Inodes \subseteq Used(f) PROVE FALSE
  <2>1. Cardinality(Inodes) <= Cardinality(Used(f))
    BY <1>6, <1>11, FS_Subset
  <2>2. QED
    BY <1>6, <1>7, <1>9, <1>10, <2>1
<1>12. QED
  BY <1>11

-----------------------------------------------------------------------------
(* The work directory as its holder sees it: from names to contents.       *)

Stats == [new : SUBSET Names, linked : SUBSET Names, removed : SUBSET Names]
Disks == [Inodes -> Contents \cup {Free}]

\* A work directory that has been worked on: its files are of their kinds and in
\* its account, and no file of a result has changed.
WorkOK(w) ==
    /\ w \in [f : Dirs, d : Disks, s : Stats]
    /\ OfItsKind(w.f, w.d)
    /\ Paths(w.s) = {n \in Names : w.f[n] # NoFile}
    /\ \A t \in Times, n \in Names :
          results[t][n] # NoFile => w.d[results[t][n]] = disk[results[t][n]]

\* Files are named by 0 or an inode, and what they hold is not Free.
LEMMA Inode ==
    ASSUME conf \in Confs
    PROVE  /\ NoFile \notin Inodes
           /\ Free \notin Contents
           /\ \A n \in Names : ContentOf(n) \subseteq Contents
<1>1. NoFile \notin Inodes
  BY ConfFacts, ResultsAssumption DEF Inodes, InodesOf, NoFile, Conf
<1>2. Free \notin Contents
  BY DEF Free, Contents
<1>3. QED
  BY <1>1, <1>2 DEF ContentOf, Contents

\* What findPrior finds is the same file, of some result.
LEMMA FindPrior ==
    ASSUME conf \in Confs, results \in [Times -> Dirs],
           NEW w, NEW inf \in SUBSET Times, NEW n \in Names, NEW c
    PROVE  LET p == findPrior(w, inf, n, c)
           IN  /\ p \in Inodes \cup {NoFile}
               /\ p # NoFile => w.d[p] = c /\ \E t \in Times : p = results[t][n]
<1>1. CASE inf = {}
  BY <1>1 DEF findPrior
<1>2. CASE inf # {}
  <2>1. conf.until \in Nat /\ inf \in SUBSET (1 .. conf.until)
    BY ConfFacts DEF Times
  <2>2. Max(inf) \in Times
    BY <1>2, <2>1, MaxElement
  <2>3. results[Max(inf)][n] \in Inodes \cup {NoFile}
    BY <2>2 DEF Dirs
  <2>4. QED
    BY <1>2, <2>2, <2>3 DEF findPrior
<1>3. QED
  BY <1>1, <1>2

\* Collecting the inodes that are not used keeps those that are.
LEMMA Collecting ==
    ASSUME conf \in Confs, NEW d \in Disks, NEW f \in Dirs
    PROVE  /\ Collect(d, f) \in Disks
           /\ \A n \in Names : f[n] # NoFile => Collect(d, f)[f[n]] = d[f[n]]
           /\ \A t \in Times, n \in Names :
                 results[t][n] \in Inodes => Collect(d, f)[results[t][n]] = d[results[t][n]]
<1>1. Collect(d, f) \in Disks
  BY DEF Collect, Disks
<1>2. \A n \in Names : f[n] \in Used(f)
  BY DEF Used
<1>3. \A t \in Times, n \in Names : results[t][n] \in Used(f)
  BY DEF Used
<1>4. \A j \in Inodes : j \in Used(f) => Collect(d, f)[j] = d[j]
  BY DEF Collect
<1>5. \A n \in Names : f[n] # NoFile => f[n] \in Inodes
  BY DEF Dirs
<1>6. QED
  BY <1>1, <1>2, <1>3, <1>4, <1>5

\* The account of one file.
LEMMA StatFacts ==
    ASSUME NEW st \in Stats, NEW n \in Names, NEW N \in SUBSET Names
    PROVE  /\ addNew(st, n) \in Stats /\ Paths(addNew(st, n)) = Paths(st) \cup {n}
           /\ addLinked(st, N) \in Stats /\ Paths(addLinked(st, N)) = Paths(st) \cup N
           /\ addRemoved(st, n) \in Stats /\ Paths(addRemoved(st, n)) = Paths(st) \ {n}
BY DEF Stats, Paths, addNew, addLinked, addRemoved

\* Write: the file holds c, and all others are as they were.
LEMMA WriteFacts ==
    ASSUME conf \in Confs, results \in [Times -> Dirs],
           NEW w, WorkOK(w), NEW inf \in SUBSET Times,
           NEW n \in Names, NEW c \in ContentOf(n)
    PROVE  LET u == Write(w, inf, n, c)
           IN  /\ WorkOK(u)
               /\ View(u.f, u.d) = [View(w.f, w.d) EXCEPT ![n] = c]
<1> DEFINE p == findPrior(w, inf, n, c)
           i == IF p # NoFile THEN p ELSE CHOOSE j \in Inodes : j \notin Used(w.f)
           f == Set(w.f, n, i)
           d1 == [w.d EXCEPT ![i] = c]
           d == Collect(d1, f)
           s == IF p # NoFile THEN addLinked(w.s, {n}) ELSE addNew(w.s, n)
           u == Write(w, inf, n, c)
<1>1. u = [f |-> f, d |-> d, s |-> s]
  BY DEF Write
<1>2. w.f \in Dirs /\ w.d \in Disks /\ w.s \in Stats
  BY DEF WorkOK
<1>3. /\ p \in Inodes \cup {NoFile}
      /\ p # NoFile => w.d[p] = c /\ \E t \in Times : p = results[t][n]
  BY FindPrior
<1>4. /\ i \in Inodes
      /\ p = NoFile => i \notin Used(w.f)
      /\ p # NoFile => w.d[i] = c
  <2>1. \E j \in Inodes : j \notin Used(w.f)
    BY <1>2, FreeInode
  <2>2. QED
    BY <1>3, <2>1
<1>5. c \in Contents
  BY Inode
<1> HIDE DEF p, i, u
<1>6. d1 \in Disks /\ d1[i] = c /\ \A j \in Inodes : j \in Used(w.f) => d1[j] = w.d[j]
  BY <1>2, <1>4, <1>5 DEF Disks
<1>7. f \in Dirs /\ f[n] = i /\ \A m \in Names : m # n => f[m] = w.f[m]
  BY <1>2, <1>4 DEF Dirs, Set
<1> HIDE DEF f, d1
<1>8. /\ d \in Disks
      /\ \A m \in Names : f[m] # NoFile => d[f[m]] = d1[f[m]]
      /\ \A t \in Times, m \in Names :
            results[t][m] \in Inodes => d[results[t][m]] = d1[results[t][m]]
  BY <1>6, <1>7, Collecting
<1> HIDE DEF d
<1>9. d[i] = c /\ i # NoFile
  BY <1>4, <1>6, <1>7, <1>8, Inode
<1>10. ASSUME NEW m \in Names, m # n, w.f[m] # NoFile
       PROVE  d[w.f[m]] = w.d[w.f[m]]
  <2>1. w.f[m] \in Inodes /\ w.f[m] \in Used(w.f)
    BY <1>2, <1>10 DEF Dirs, Used
  <2>2. QED
    BY <1>6, <1>7, <1>8, <1>10, <2>1
<1>11. ASSUME NEW t \in Times, NEW m \in Names, results[t][m] # NoFile
       PROVE  d[results[t][m]] = disk[results[t][m]]
  <2>1. results[t][m] \in Inodes /\ results[t][m] \in Used(w.f)
    BY <1>11 DEF Dirs, Used
  <2>2. d[results[t][m]] = w.d[results[t][m]]
    BY <1>6, <1>8, <2>1
  <2>3. QED
    BY <1>11, <2>2 DEF WorkOK
<1>12. s \in Stats /\ Paths(s) = Paths(w.s) \cup {n}
  <2>1. {n} \in SUBSET Names
    OBVIOUS
  <2>2. QED
    BY <1>2, <2>1, StatFacts
<1> HIDE DEF s
<1>13. OfItsKind(f, d)
  BY <1>7, <1>9, <1>10 DEF WorkOK, OfItsKind
<1>14. Paths(s) = {m \in Names : f[m] # NoFile}
  BY <1>7, <1>9, <1>12 DEF WorkOK
<1>15. WorkOK(u)
  BY <1>1, <1>7, <1>8, <1>11, <1>12, <1>13, <1>14 DEF WorkOK
<1>16. View(f, d) = [View(w.f, w.d) EXCEPT ![n] = c]
  BY <1>7, <1>9, <1>10 DEF View
<1>17. QED
  BY <1>1, <1>15, <1>16 DEF u

\* Remove: the file is gone, and all others are as they were.
LEMMA RemoveFacts ==
    ASSUME conf \in Confs, results \in [Times -> Dirs],
           NEW w, WorkOK(w), NEW n \in Names
    PROVE  LET u == Remove(w, n)
           IN  /\ WorkOK(u)
               /\ View(u.f, u.d) = [View(w.f, w.d) EXCEPT ![n] = Free]
<1> DEFINE f == Set(w.f, n, NoFile)
           d == Collect(w.d, f)
           s == addRemoved(w.s, n)
           u == Remove(w, n)
<1>1. u = [f |-> f, d |-> d, s |-> s]
  BY DEF Remove
<1>2. w.f \in Dirs /\ w.d \in Disks /\ w.s \in Stats
  BY DEF WorkOK
<1>3. f \in Dirs /\ f[n] = NoFile /\ \A m \in Names : m # n => f[m] = w.f[m]
  BY <1>2 DEF Dirs, Set
<1> HIDE DEF f, u
<1>4. /\ d \in Disks
      /\ \A m \in Names : f[m] # NoFile => d[f[m]] = w.d[f[m]]
      /\ \A t \in Times, m \in Names :
            results[t][m] \in Inodes => d[results[t][m]] = w.d[results[t][m]]
  BY <1>2, <1>3, Collecting
<1>5. s \in Stats /\ Paths(s) = Paths(w.s) \ {n}
  BY <1>2, StatFacts
<1> HIDE DEF d, s
<1>6. ASSUME NEW t \in Times, NEW m \in Names, results[t][m] # NoFile
      PROVE  d[results[t][m]] = disk[results[t][m]]
  <2>1. results[t][m] \in Inodes
    BY <1>6 DEF Dirs
  <2>2. QED
    BY <1>4, <1>6, <2>1 DEF WorkOK
<1>7. Paths(s) = {m \in Names : f[m] # NoFile}
  BY <1>3, <1>5 DEF WorkOK
<1>8. WorkOK(u)
  BY <1>1, <1>3, <1>4, <1>5, <1>6, <1>7 DEF WorkOK, OfItsKind
<1>9. View(f, d) = [View(w.f, w.d) EXCEPT ![n] = Free]
  BY <1>3, <1>4 DEF View
<1>10. QED
  BY <1>1, <1>8, <1>9 DEF u

\* Link: the encodings of the file are those of the last result that has one, and
\* all others are as they were.
LEMMA LinkFacts ==
    ASSUME conf \in Confs, results \in [Times -> Dirs],
           \A t \in Times : OfItsKind(results[t], disk),
           NEW w, WorkOK(w), NEW inf \in SUBSET Times, NEW n \in Names,
           Prior(inf, n) # {}
    PROVE  LET u == Link(w, inf, n)
               T == Max(Prior(inf, n))
           IN  /\ T \in inf /\ T \in Prior(inf, n) /\ \A t \in Prior(inf, n) : t <= T
               /\ WorkOK(u)
               /\ View(u.f, u.d) = [x \in Names |->
                     IF x \in Encodings(n) /\ results[T][x] # NoFile
                     THEN View(results[T], disk)[x] ELSE View(w.f, w.d)[x]]
<1> DEFINE u == Link(w, inf, n)
           T == Max(Prior(inf, n))
           X == LinkSet(inf, n)
           f == [x \in Names |-> IF x \in X THEN results[T][x] ELSE w.f[x]]
           s == addLinked(w.s, X)
<1>1. conf.until \in Nat /\ Prior(inf, n) \in SUBSET (1 .. conf.until)
  BY ConfFacts DEF Times, Prior
<1>2. T \in Prior(inf, n) /\ \A t \in Prior(inf, n) : T >= t
  BY <1>1, MaxElement
<1>3. T \in inf /\ T \in Times /\ \A t \in Prior(inf, n) : t <= T
  <2>1. T \in Int /\ \A t \in Prior(inf, n) : t \in Int
    BY <1>1, <1>2
  <2>2. T \in inf /\ T \in Times
    BY <1>2 DEF Prior
  <2>3. QED
    BY <1>2, <2>1, <2>2
<1>4. w \in [f : Dirs, d : Disks, s : Stats]
  BY DEF WorkOK
<1>5. X \in SUBSET Names /\ \A x \in Names : x \in X <=> x \in Encodings(n) /\ results[T][x] # NoFile
  <2>1. Encodings(n) \subseteq Names
    BY ConfFacts DEF Encodings, Index
  <2>2. QED
    BY <2>1 DEF LinkSet
<1>6. u = [w EXCEPT !.f = f, !.s = s]
  BY DEF Link
<1> HIDE DEF X, T, u
<1>7. u.f = f /\ u.d = w.d /\ u.s = s
  BY <1>4, <1>6
<1>8. f \in Dirs
  BY <1>3, <1>4 DEF Dirs
<1>9. s \in Stats /\ Paths(s) = Paths(w.s) \cup X
  <2>1. w.s \in Stats
    BY <1>4
  <2>2. QED
    BY <1>5, <2>1, StatFacts
<1>10. u \in [f : Dirs, d : Disks, s : Stats]
  BY <1>4, <1>6, <1>8, <1>9
<1>11. \A x \in X : results[T][x] # NoFile /\ w.d[results[T][x]] = disk[results[T][x]]
  BY <1>3, <1>5 DEF WorkOK
<1>12. ASSUME NEW x \in Names, f[x] # NoFile PROVE w.d[f[x]] \in ContentOf(x)
  <2>1. CASE x \in X
    <3>1. disk[results[T][x]] \in ContentOf(x)
      BY <1>3, <1>11, <2>1 DEF OfItsKind
    <3>2. QED
      BY <1>11, <2>1, <3>1
  <2>2. CASE x \notin X
    BY <1>12, <2>2 DEF WorkOK, OfItsKind
  <2>3. QED
    BY <2>1, <2>2
<1>13. Paths(s) = {x \in Names : f[x] # NoFile}
  BY <1>5, <1>9, <1>11 DEF WorkOK
<1>14. WorkOK(u)
  BY <1>7, <1>10, <1>12, <1>13 DEF WorkOK, OfItsKind
<1>15. View(u.f, u.d) = [x \in Names |->
           IF x \in Encodings(n) /\ results[T][x] # NoFile
           THEN View(results[T], disk)[x] ELSE View(w.f, w.d)[x]]
  BY <1>5, <1>7, <1>11 DEF View
<1>16. QED
  BY <1>2, <1>3, <1>14, <1>15 DEF u, T

\* A file is there if its view is not Free, and then the view is of its kind.
LEMMA ViewFacts ==
    ASSUME conf \in Confs, NEW f \in Dirs, NEW d \in Disks, OfItsKind(f, d)
    PROVE  /\ \A n \in Names : View(f, d)[n] = Free <=> f[n] = NoFile
           /\ \A n \in Names : View(f, d)[n] # Free =>
                 View(f, d)[n] \in ContentOf(n) /\ View(f, d)[n] = d[f[n]]
<1>1. ASSUME NEW n \in Names, f[n] # NoFile
      PROVE  View(f, d)[n] \in ContentOf(n) /\ View(f, d)[n] = d[f[n]] /\ View(f, d)[n] # Free
  <2>1. View(f, d)[n] = d[f[n]]
    BY <1>1 DEF View
  <2>2. d[f[n]] \in ContentOf(n)
    BY <1>1 DEF OfItsKind
  <2>3. QED
    BY <2>1, <2>2, Inode
<1>2. \A n \in Names : f[n] = NoFile => View(f, d)[n] = Free
  BY DEF View
<1>3. QED
  BY <1>1, <1>2

\* The names of the files of one Test, and what they hold.
LEMMA NameFacts ==
    ASSUME conf \in Confs, NEW t \in Tests
    PROVE  /\ {<<t, "data">>, <<t, "file">>, <<t, "gz">>, <<t, "out">>} \subseteq Names
           /\ Index \in Names
           /\ ContentOf(<<t, "data">>) = [v : Values, err : BOOLEAN, ref : BOOLEAN]
           /\ ContentOf(<<t, "file">>) = [v : Values]
           /\ ContentOf(<<t, "gz">>) = [v : Values]
           /\ ContentOf(<<t, "out">>) = [v : Values]
           /\ ContentOf(Index) = [paths : SUBSET Names]
           /\ Encodings(<<t, "data">>) = {<<t, "data">>}
           /\ Encodings(<<t, "file">>) = {<<t, "file">>, <<t, "gz">>}
           /\ t # 0 /\ t \in Nat
<1>1. t # 0 /\ t \in Nat
  BY ConfFacts DEF Tests
<1>2. Names = (Tests \X {"data", "file", "gz", "out"}) \cup {Index}
  BY ConfFacts
<1>3. {<<t, "data">>, <<t, "file">>, <<t, "gz">>, <<t, "out">>} \subseteq Names /\ Index \in Names
  BY <1>2
<1>4. \A k : <<t, k>> # Index
  BY <1>1 DEF Index
<1>5. /\ ContentOf(<<t, "data">>) = [v : Values, err : BOOLEAN, ref : BOOLEAN]
      /\ ContentOf(<<t, "file">>) = [v : Values]
      /\ ContentOf(<<t, "gz">>) = [v : Values]
      /\ ContentOf(<<t, "out">>) = [v : Values]
      /\ ContentOf(Index) = [paths : SUBSET Names]
  BY <1>4 DEF ContentOf
<1>6. /\ Encodings(<<t, "data">>) = {<<t, "data">>}
      /\ Encodings(<<t, "file">>) = {<<t, "file">>, <<t, "gz">>}
  BY DEF Encodings
<1>7. QED
  BY <1>1, <1>3, <1>5, <1>6

\* The During pipeline saves a file, and the data.
LEMMA DuringFacts ==
    ASSUME conf \in Confs, results \in [Times -> Dirs],
           NEW w, WorkOK(w), NEW inf \in SUBSET Times, NEW t \in Tests,
           NEW v \in Values, NEW e \in BOOLEAN, NEW s \in BOOLEAN
    PROVE  LET u == During(w, inf, t, v, e, s)
           IN  /\ WorkOK(u)
               /\ View(u.f, u.d) = [n \in Names |->
                     IF t \notin Unsaved /\ n = <<t, "data">> THEN [v |-> v, err |-> e, ref |-> s]
                     ELSE IF s /\ n = <<t, "file">> THEN [v |-> v]
                     ELSE View(w.f, w.d)[n]]
<1> DEFINE w1 == IF s THEN SaveFile(w, inf, t, v) ELSE w
           u == During(w, inf, t, v, e, s)
           V1 == [n \in Names |-> IF s /\ n = <<t, "file">> THEN [v |-> v] ELSE View(w.f, w.d)[n]]
<1>1. [v |-> v] \in ContentOf(<<t, "file">>) /\ <<t, "file">> \in Names
  BY NameFacts
<1>2. [v |-> v, err |-> e, ref |-> s] \in ContentOf(<<t, "data">>) /\ <<t, "data">> \in Names
  BY NameFacts
<1>3. WorkOK(w1) /\ View(w1.f, w1.d) = V1
  <2>1. CASE s
    <3>1. w1 = Write(w, inf, <<t, "file">>, [v |-> v])
      BY <2>1 DEF SaveFile
    <3>2. WorkOK(w1) /\ View(w1.f, w1.d) = [View(w.f, w.d) EXCEPT ![<<t, "file">>] = [v |-> v]]
      BY <1>1, <3>1, WriteFacts
    <3>3. QED
      BY <2>1, <3>2 DEF View
  <2>2. CASE ~s
    BY <2>2 DEF View
  <2>3. QED
    BY <2>1, <2>2
<1> HIDE DEF w1
<1>4. u = IF t \in Unsaved THEN w1
          ELSE Write(w1, inf, <<t, "data">>, [v |-> v, err |-> e, ref |-> s])
  BY DEF During, WriteData, w1
<1> HIDE DEF u
<1>5. CASE t \in Unsaved
  BY <1>3, <1>4, <1>5 DEF u
<1>6. CASE t \notin Unsaved
  <2>1. WorkOK(u) /\ View(u.f, u.d) =
           [View(w1.f, w1.d) EXCEPT ![<<t, "data">>] = [v |-> v, err |-> e, ref |-> s]]
    BY <1>2, <1>3, <1>4, <1>6, WriteFacts
  <2>2. QED
    BY <1>3, <1>6, <2>1 DEF u
<1>7. QED
  BY <1>5, <1>6

\* When saving fails there is the data or the file of this Test.
LEMMA SaveFacts ==
    ASSUME conf \in Confs, results \in [Times -> Dirs],
           NEW w, WorkOK(w), NEW inf \in SUBSET Times, NEW t \in Tests,
           NEW v \in Values,
           NEW u \in {SaveFile(w, inf, t, v), WriteData(w, inf, t, v, FALSE, TRUE)}
    PROVE  /\ WorkOK(u)
           /\ \A n \in Names : n[1] # t => View(u.f, u.d)[n] = View(w.f, w.d)[n]
<1>1. [v |-> v] \in ContentOf(<<t, "file">>) /\ <<t, "file">> \in Names
  BY NameFacts
<1>2. [v |-> v, err |-> FALSE, ref |-> TRUE] \in ContentOf(<<t, "data">>) /\ <<t, "data">> \in Names
  BY NameFacts
<1>3. CASE u = SaveFile(w, inf, t, v)
  <2>1. WorkOK(u) /\ View(u.f, u.d) = [View(w.f, w.d) EXCEPT ![<<t, "file">>] = [v |-> v]]
    BY <1>1, <1>3, WriteFacts DEF SaveFile
  <2>2. \A n \in Names : n[1] # t => n # <<t, "file">>
    OBVIOUS
  <2>3. \A n \in Names : n # <<t, "file">> => View(u.f, u.d)[n] = View(w.f, w.d)[n]
    BY <1>1, <2>1 DEF View
  <2>4. QED
    BY <2>1, <2>2, <2>3
<1>4. CASE u = WriteData(w, inf, t, v, FALSE, TRUE)
  <2>1. CASE t \in Unsaved
    BY <1>4, <2>1 DEF WriteData
  <2>2. CASE t \notin Unsaved
    <3>1. /\ WorkOK(u)
          /\ View(u.f, u.d) = [View(w.f, w.d) EXCEPT ![<<t, "data">>] =
                                  [v |-> v, err |-> FALSE, ref |-> TRUE]]
      BY <1>2, <1>4, <2>2, WriteFacts, SMTT(20) DEF WriteData
    <3>2. \A n \in Names : n[1] # t => n # <<t, "data">>
      OBVIOUS
    <3>3. \A n \in Names : n # <<t, "data">> => View(u.f, u.d)[n] = View(w.f, w.d)[n]
      BY <1>2, <3>1 DEF View
    <3>4. QED
      BY <3>1, <3>2, <3>3
  <2>3. QED
    BY <2>1, <2>2
<1>5. QED
  BY <1>3, <1>4

\* What the After pipeline makes of a view: it encodes the file, if there is one
\* to encode, and reports v.
Reported(V, t, v, s, e) ==
    LET encodes == s /\ e # "none" /\ V[<<t, "file">>] # Free
    IN  [n \in Names |->
           IF n = <<t, "out">> THEN [v |-> v]
           ELSE IF encodes /\ n = <<t, "gz">> THEN V[<<t, "file">>]
           ELSE IF encodes /\ e # "keep" /\ n = <<t, "file">> THEN Free
           ELSE V[n]]

\* The After pipeline.
LEMMA AfterFacts ==
    ASSUME conf \in Confs, results \in [Times -> Dirs],
           NEW w, WorkOK(w), NEW inf \in SUBSET Times, NEW t \in Tests,
           NEW v \in Values, NEW s \in BOOLEAN,
           NEW e \in {"none", "keep", "destructive"}
    PROVE  LET u == After(w, inf, t, v, s, e)
           IN  /\ WorkOK(u)
               /\ View(u.f, u.d) = Reported(View(w.f, w.d), t, v, s, e)
<1> DEFINE w1 == IF s THEN EncodeFile(w, inf, t, e) ELSE w
           V == View(w.f, w.d)
           encodes == s /\ e # "none" /\ V[<<t, "file">>] # Free
           V1 == [n \in Names |-> IF encodes /\ n = <<t, "gz">> THEN V[<<t, "file">>]
                     ELSE IF encodes /\ e # "keep" /\ n = <<t, "file">> THEN Free
                     ELSE V[n]]
           u == After(w, inf, t, v, s, e)
<1>1. /\ <<t, "file">> \in Names /\ <<t, "gz">> \in Names /\ <<t, "out">> \in Names
      /\ [v |-> v] \in ContentOf(<<t, "out">>)
      /\ ContentOf(<<t, "gz">>) = ContentOf(<<t, "file">>)
  BY NameFacts
<1>2. /\ V[<<t, "file">>] = Free <=> w.f[<<t, "file">>] = NoFile
      /\ V[<<t, "file">>] # Free =>
            /\ V[<<t, "file">>] \in ContentOf(<<t, "file">>)
            /\ V[<<t, "file">>] = w.d[w.f[<<t, "file">>]]
  <2>1. w.f \in Dirs /\ w.d \in Disks /\ OfItsKind(w.f, w.d)
    BY DEF WorkOK
  <2>2. QED
    BY <1>1, <2>1, ViewFacts
<1>3. WorkOK(w1) /\ View(w1.f, w1.d) = V1
  <2>1. CASE ~encodes
    <3>1. w1 = w
      BY <1>2, <2>1 DEF EncodeFile
    <3>2. V = V1
      BY <2>1 DEF View
    <3>3. QED
      BY <3>1, <3>2
  <2>2. CASE encodes
    <3> DEFINE w2 == Write(w, inf, <<t, "gz">>, V[<<t, "file">>])
    <3>1. WorkOK(w2) /\ View(w2.f, w2.d) = [V EXCEPT ![<<t, "gz">>] = V[<<t, "file">>]]
      <4>1. V[<<t, "file">>] \in ContentOf(<<t, "gz">>)
        BY <1>1, <1>2, <2>2
      <4>2. QED
        BY <1>1, <4>1, WriteFacts
    <3>2. w1 = IF e = "keep" THEN w2 ELSE Remove(w2, <<t, "file">>)
      BY <1>2, <2>2 DEF EncodeFile
    <3> HIDE DEF w2, w1
    <3>3. CASE e = "keep"
      BY <2>2, <3>1, <3>2, <3>3 DEF View
    <3>4. CASE e # "keep"
      <4>1. WorkOK(w1) /\ View(w1.f, w1.d) = [View(w2.f, w2.d) EXCEPT ![<<t, "file">>] = Free]
        BY <1>1, <3>1, <3>2, <3>4, RemoveFacts
      <4>2. QED
        BY <2>2, <3>1, <3>4, <4>1 DEF View
    <3>5. QED
      BY <3>3, <3>4
  <2>3. QED
    BY <2>1, <2>2
<1> HIDE DEF w1
<1>4. u = Write(w1, inf, <<t, "out">>, [v |-> v])
  BY DEF After, w1
<1>5. WorkOK(u) /\ View(u.f, u.d) = [View(w1.f, w1.d) EXCEPT ![<<t, "out">>] = [v |-> v]]
  BY <1>1, <1>3, <1>4, WriteFacts
<1> HIDE DEF u
<1>6. View(u.f, u.d) = Reported(V, t, v, s, e)
  BY <1>3, <1>5 DEF Reported
<1>7. QED
  BY <1>5, <1>6 DEF u

\* LinkPriorData links files of this Test, the data among them if it says so.
LEMMA LinkPriorFacts ==
    ASSUME conf \in Confs, results \in [Times -> Dirs],
           \A t \in Times : OfItsKind(results[t], disk),
           NEW w, WorkOK(w), NEW inf \in SUBSET Times, NEW t \in Tests
    PROVE  LET r == LinkPriorData(w, inf, t)
           IN  /\ WorkOK(r.w)
               /\ \A n \in Names : n \notin {<<t, "data">>, <<t, "file">>, <<t, "gz">>} =>
                     View(r.w.f, r.w.d)[n] = View(w.f, w.d)[n]
               /\ r.ok => r.w.f[<<t, "data">>] # NoFile
<1> DEFINE d == <<t, "data">>
           f == <<t, "file">>
           w1 == Link(w, inf, d)
           w2 == Link(w1, inf, f)
           r == LinkPriorData(w, inf, t)
<1>1. d \in Names /\ f \in Names /\ Encodings(d) = {d} /\ Encodings(f) = {f, <<t, "gz">>}
  BY NameFacts
<1>2. CASE ~CanLink(w, inf, d)
  <2>1. r = [ok |-> FALSE, w |-> w]
    BY <1>2 DEF LinkPriorData
  <2>2. QED
    BY <2>1
<1>3. CASE CanLink(w, inf, d)
  <2>1. Prior(inf, d) # {}
    BY <1>3 DEF CanLink
  <2> DEFINE T == Max(Prior(inf, d))
  <2>2. /\ T \in Prior(inf, d) /\ WorkOK(w1)
        /\ View(w1.f, w1.d) = [x \in Names |->
              IF x \in Encodings(d) /\ results[T][x] # NoFile
              THEN View(results[T], disk)[x] ELSE View(w.f, w.d)[x]]
    BY <1>1, <2>1, LinkFacts
  <2>3. results[T][d] # NoFile /\ T \in Times
    BY <1>1, <2>2 DEF Prior
  <2>4. w1.f[d] # NoFile
    <3>1. View(w1.f, w1.d)[d] = View(results[T], disk)[d] /\ View(results[T], disk)[d] = disk[results[T][d]]
      BY <1>1, <2>2, <2>3 DEF View
    <3>2. disk[results[T][d]] \in ContentOf(d)
      BY <1>1, <2>3 DEF OfItsKind
    <3>3. View(w1.f, w1.d)[d] # Free
      BY <1>1, <3>1, <3>2, Inode
    <3>4. QED
      BY <1>1, <3>3 DEF View
  <2>5. \A n \in Names : n # d => View(w1.f, w1.d)[n] = View(w.f, w.d)[n]
    BY <1>1, <2>2
  <2> HIDE DEF w1
  <2>6. CASE r.w = w1
    BY <2>2, <2>4, <2>5, <2>6
  <2>7. CASE r.w # w1
    <3>1. r.w = w2 /\ CanLink(w1, inf, f)
      BY <1>3, <2>7 DEF LinkPriorData, w1
    <3>2. Prior(inf, f) # {}
      BY <3>1 DEF CanLink
    <3> DEFINE U == Max(Prior(inf, f))
    <3>3. /\ WorkOK(w2)
          /\ View(w2.f, w2.d) = [x \in Names |->
                IF x \in Encodings(f) /\ results[U][x] # NoFile
                THEN View(results[U], disk)[x] ELSE View(w1.f, w1.d)[x]]
      BY <1>1, <2>2, <3>2, LinkFacts
    <3>4. \A n \in Names : n \notin {f, <<t, "gz">>} => View(w2.f, w2.d)[n] = View(w1.f, w1.d)[n]
      BY <1>1, <3>3
    <3> HIDE DEF w2
    <3>5. w2.f[d] # NoFile
      <4>1. View(w1.f, w1.d)[d] # Free
        <5>1. w1.f \in Dirs /\ w1.d \in Disks /\ OfItsKind(w1.f, w1.d)
          BY <2>2 DEF WorkOK
        <5>2. QED
          BY <1>1, <2>4, <5>1, ViewFacts
      <4>2. View(w2.f, w2.d)[d] # Free
        BY <1>1, <3>4, <4>1
      <4>3. QED
        BY <1>1, <4>2 DEF View
    <3>6. QED
      BY <2>5, <3>1, <3>3, <3>4, <3>5
  <2>8. QED
    BY <2>6, <2>7
<1>4. QED
  BY <1>2, <1>3

\* Sound, for one Test.
SoundAt(V, t) ==
    LET d == V[<<t, "data">>]
        Same(c) == c # Free /\ d # Free /\ c.v = d.v
    IN  /\ V[<<t, "out">>] # Free => Same(V[<<t, "out">>])
        /\ d # Free /\ d.ref => Same(Opened(V, t))
        /\ d # Free /\ d.ref /\ ~d.err /\ V[<<t, "gz">>] # Free => Same(V[<<t, "gz">>])
        /\ V[<<t, "file">>] # Free \/ V[<<t, "gz">>] # Free => d # Free
        /\ conf.encoding[t] = {"none"} => V[<<t, "gz">>] = Free

\* A view is sound if it is sound for each Test that saves data.
LEMMA SoundAll == \A V : Sound(V) <=> \A t \in Tests \ Unsaved : SoundAt(V, t)
BY ZenonT(40) DEF Sound, SoundAt, Coherent

\* Soundness of a Test depends on its own files only.
LEMMA SoundLocal ==
    ASSUME NEW V, NEW W, NEW t, SoundAt(V, t),
           \A k \in {"data", "file", "gz", "out"} : W[<<t, k>>] = V[<<t, k>>]
    PROVE  SoundAt(W, t)
BY DEF SoundAt, Opened

\* Where all results are sound, what LinkPriorData links of a Test that has no
\* files yet is the data of one result with its files.  It never links a part.
LEMMA LinkPriorSound ==
    ASSUME conf \in Confs, results \in [Times -> Dirs], disk \in Disks,
           \A t \in Times : OfItsKind(results[t], disk),
           \A t \in Times : Sound(View(results[t], disk)),
           NEW w, WorkOK(w), NEW inf \in SUBSET Times, NEW t \in Tests \ Unsaved,
           \A k \in {"data", "file", "gz", "out"} : w.f[<<t, k>>] = NoFile
    PROVE  LET r == LinkPriorData(w, inf, t)
           IN  /\ SoundAt(View(r.w.f, r.w.d), t)
               /\ ~r.ok => r.w = w
<1> DEFINE d == <<t, "data">>
           f == <<t, "file">>
           z == <<t, "gz">>
           o == <<t, "out">>
           V == View(w.f, w.d)
           w1 == Link(w, inf, d)
           w2 == Link(w1, inf, f)
           r == LinkPriorData(w, inf, t)
<1>1. /\ {d, f, z, o} \subseteq Names
      /\ Encodings(d) = {d} /\ Encodings(f) = {f, z}
      /\ d # f /\ d # z /\ d # o /\ f # z /\ f # o /\ z # o
  BY NameFacts
<1>2. V[d] = Free /\ V[f] = Free /\ V[z] = Free /\ V[o] = Free
  BY <1>1 DEF View
<1>3. CASE ~CanLink(w, inf, d)
  <2>1. r = [ok |-> FALSE, w |-> w]
    BY <1>3 DEF LinkPriorData
  <2>2. SoundAt(V, t)
    BY <1>2 DEF SoundAt
  <2>3. QED
    BY <2>1, <2>2
<1>4. CASE CanLink(w, inf, d)
  <2>1. Prior(inf, d) # {}
    BY <1>4 DEF CanLink
  <2> DEFINE T == Max(Prior(inf, d))
             R == View(results[T], disk)
  <2>2. /\ T \in Prior(inf, d) /\ WorkOK(w1) /\ \A x \in Prior(inf, d) : x <= T
        /\ View(w1.f, w1.d) = [x \in Names |->
              IF x \in Encodings(d) /\ results[T][x] # NoFile THEN R[x] ELSE V[x]]
    BY <1>1, <2>1, LinkFacts
  <2>3. results[T][d] # NoFile /\ T \in Times
    BY <1>1, <2>2 DEF Prior
  <2>4. /\ View(w1.f, w1.d)[d] = R[d]
        /\ \A x \in {f, z, o} : View(w1.f, w1.d)[x] = Free
    BY <1>1, <1>2, <2>2, <2>3
  <2>5. /\ \A n \in Names : R[n] = Free <=> results[T][n] = NoFile
        /\ R[d] \in ContentOf(d)
        /\ SoundAt(R, t)
    <3>1. results[T] \in Dirs /\ OfItsKind(results[T], disk)
      BY <2>3
    <3>2. \A n \in Names : R[n] = Free <=> results[T][n] = NoFile
      BY <3>1, ViewFacts
    <3>3. R[d] \in ContentOf(d)
      BY <1>1, <2>3, <3>1, ViewFacts
    <3>4. SoundAt(R, t)
      BY <2>3, SoundAll
    <3>5. QED
      BY <3>2, <3>3, <3>4
  <2>6. w1.f[d] # NoFile /\ w1.d[w1.f[d]] = R[d]
    <3>1. w1.f \in Dirs /\ w1.d \in Disks /\ OfItsKind(w1.f, w1.d)
      BY <2>2 DEF WorkOK
    <3>2. View(w1.f, w1.d)[d] # Free
      BY <1>1, <2>3, <2>4, <2>5
    <3>3. QED
      BY <1>1, <2>4, <3>1, <3>2, ViewFacts
  <2> HIDE DEF w1, T, R
  <2>7. CASE ~R[d].ref
    <3>1. r = [ok |-> TRUE, w |-> w1]
      BY <1>4, <2>6, <2>7 DEF LinkPriorData, w1
    <3>2. SoundAt(View(w1.f, w1.d), t)
      BY <1>1, <2>3, <2>4, <2>5, <2>7 DEF SoundAt
    <3>3. QED
      BY <3>1, <3>2
  <2>8. CASE R[d].ref
    <3>1. R[f] # Free \/ R[z] # Free
      BY <1>1, <2>3, <2>5, <2>8 DEF SoundAt, Opened
    <3>2. T \in inf /\ T \in Prior(inf, f)
      <4>1. T \in inf
        BY <2>2 DEF Prior
      <4>2. \E x \in {f, z} : results[T][x] # NoFile
        BY <1>1, <2>5, <3>1
      <4>3. QED
        BY <1>1, <4>1, <4>2 DEF Prior
    <3> DEFINE U == Max(Prior(inf, f))
    <3>3. /\ U \in inf /\ U \in Prior(inf, f) /\ T <= U
          /\ WorkOK(w2)
          /\ View(w2.f, w2.d) = [x \in Names |->
                IF x \in Encodings(f) /\ results[U][x] # NoFile
                THEN View(results[U], disk)[x] ELSE View(w1.f, w1.d)[x]]
      <4>1. Prior(inf, f) # {}
        BY <3>2
      <4>2. QED
        BY <1>1, <2>2, <3>2, <4>1, LinkFacts
    <3> HIDE DEF U, w2
    <3>4. U = T
      <4>1. U \in Times /\ \E x \in {f, z} : results[U][x] # NoFile
        BY <1>1, <3>3 DEF Prior
      <4>2. results[U] \in Dirs /\ OfItsKind(results[U], disk)
        BY <4>1
      <4>3. View(results[U], disk)[f] # Free \/ View(results[U], disk)[z] # Free
        BY <1>1, <4>1, <4>2, ViewFacts
      <4>4. SoundAt(View(results[U], disk), t)
        BY <4>1, SoundAll
      <4>5. View(results[U], disk)[d] # Free
        BY <4>3, <4>4 DEF SoundAt
      <4>6. results[U][d] # NoFile
        BY <1>1, <4>2, <4>5, ViewFacts
      <4>7. U \in Prior(inf, d)
        BY <1>1, <3>3, <4>6 DEF Prior
      <4>8. U <= T
        BY <2>2, <4>7
      <4>9. U \in Int /\ T \in Int
        BY <2>3, <4>1 DEF Times
      <4>10. QED
        BY <3>3, <4>8, <4>9
    <3>5. CanLink(w1, inf, f)
      <4>1. w1.f[f] = NoFile /\ w1.f[z] = NoFile
        <5>1. w1.f \in Dirs /\ w1.d \in Disks /\ OfItsKind(w1.f, w1.d)
          BY <2>2 DEF WorkOK
        <5>2. QED
          BY <1>1, <2>4, <5>1, ViewFacts
      <4>2. QED
        BY <1>1, <3>2, <4>1 DEF CanLink, LinkSet
    <3>6. r = [ok |-> TRUE, w |-> w2]
      BY <1>4, <2>6, <2>8, <3>5 DEF LinkPriorData, w1, w2
    <3>7. \A x \in {d, f, z} : View(w2.f, w2.d)[x] = R[x]
      BY <1>1, <2>4, <2>5, <3>3, <3>4 DEF R
    <3>8. View(w2.f, w2.d)[o] = Free
      BY <1>1, <2>4, <3>3
    <3>9. SoundAt(View(w2.f, w2.d), t)
      BY <2>5, <3>7, <3>8 DEF SoundAt, Opened
    <3>10. QED
      BY <3>6, <3>9
  <2>9. QED
    BY <2>7, <2>8
<1>5. QED
  BY <1>3, <1>4

-----------------------------------------------------------------------------
(* What a command does for one Test.                                       *)

\* The work directory of the instance that holds it.
LEMMA WorkDir ==
    ASSUME TypeOK, FileInv, NEW p \in Instances, Holding(p)
    PROVE  WorkOK(Work(p)) /\ Work(p).f = files /\ Work(p).d = disk /\ Work(p).s = stat[p]
BY DEF TypeOK, FileInv, WorkOK, Work, Stats, Disks

Checked == ~conf.faults /\ UniformEncoding

\* A step of p that is done with a Test, or fails, and leaves w.
TestStep(p, w) ==
    /\ Testing(p) /\ WorkOK(w) /\ SetWork(p, w)
    /\ \A n \in Names : n[1] # test[p] => View(w.f, w.d)[n] = View(files, disk)[n]
    /\ \/ /\ test' = [test EXCEPT ![p] = @ + 1] /\ UNCHANGED <<pc, err>>
          /\ cmd[p] = "run" /\ test[p] \notin Unsaved => GoodData(View(w.f, w.d), test[p])
       \/ /\ pc' = [pc EXCEPT ![p] = "stop"] /\ err' = [err EXCEPT ![p] = TRUE]
          /\ UNCHANGED test
    /\ Checked /\ test[p] \notin Unsaved => SoundAt(View(w.f, w.d), test[p])
    /\ seen' \in [Instances -> SUBSET Tests] /\ ran' \in [Instances -> BOOLEAN]
    /\ UNCHANGED <<conf, dirVars, now, cmd, info, dir>>

\* What the After pipeline is run on: data that says v, and a file if it says s.
Measured(V, t, v, s) ==
    /\ V[<<t, "data">>] # Free /\ V[<<t, "data">>].v = v /\ V[<<t, "data">>].ref = s
    /\ s => Opened(V, t) # Free /\ Opened(V, t).v = v
    /\ conf.encoding[t] = {"none"} => V[<<t, "gz">>] = Free

\* The After pipeline leaves a sound result, whatever it encodes.
LEMMA AfterSound ==
    ASSUME conf \in Confs, NEW V, NEW t \in Tests, NEW v, NEW s \in BOOLEAN,
           NEW e \in conf.encoding[t], Measured(V, t, v, s),
           conf.encoding[t] = {"none"} \/ "none" \notin conf.encoding[t]
    PROVE  SoundAt(Reported(V, t, v, s, e), t)
<1> DEFINE W == Reported(V, t, v, s, e)
           encodes == s /\ e # "none" /\ V[<<t, "file">>] # Free
<1>1. {<<t, "data">>, <<t, "file">>, <<t, "gz">>, <<t, "out">>} \subseteq Names
  BY NameFacts
<1>2. /\ W[<<t, "out">>] = [v |-> v]
      /\ W[<<t, "data">>] = V[<<t, "data">>]
      /\ W[<<t, "gz">>] = IF encodes THEN V[<<t, "file">>] ELSE V[<<t, "gz">>]
      /\ W[<<t, "file">>] = IF encodes /\ e # "keep" THEN Free ELSE V[<<t, "file">>]
  BY <1>1 DEF Reported
<1>3. [v |-> v] # Free
  BY DEF Free
<1> HIDE DEF W
<1>4. SoundAt(W, t)
  BY <1>2, <1>3 DEF Measured, SoundAt, Opened
<1>5. QED
  BY <1>4 DEF W

\* RunAfter, on what a Test has measured or linked.
LEMMA AfterStep ==
    ASSUME TypeOK, NEW p \in Instances, Testing(p), UNCHANGED conf,
           NEW w, WorkOK(w), NEW v \in Values, NEW s \in BOOLEAN,
           \A n \in Names : n[1] # test[p] => View(w.f, w.d)[n] = View(files, disk)[n],
           cmd[p] = "run" /\ test[p] \notin Unsaved => GoodData(View(w.f, w.d), test[p]),
           Checked /\ test[p] \notin Unsaved => Measured(View(w.f, w.d), test[p], v, s),
           RunAfter(p, w, v, s), ran' \in [Instances -> BOOLEAN]
    PROVE  \E u : TestStep(p, u)
<1> DEFINE t == test[p]
           V == View(w.f, w.d)
<1>1. t \in Tests /\ conf \in Confs /\ results \in [Times -> Dirs] /\ info[p] \in SUBSET Times
      /\ t \in Nat
  BY ConfFacts DEF TypeOK, Testing, Tests
<1>2. seen' \in [Instances -> SUBSET Tests]
  BY <1>1 DEF RunAfter, Current, TypeOK
<1>3. ASSUME conf.faults, Fail(p, w) PROVE TestStep(p, w)
  BY <1>2, <1>3 DEF TestStep, Fail, Goto, Checked
<1>4. ASSUME NEW e \in conf.encoding[t], NextTest(p, After(w, info[p], t, v, s, e))
      PROVE  \E u : TestStep(p, u)
  <2> DEFINE u == After(w, info[p], t, v, s, e)
             W == View(u.f, u.d)
  <2>1. e \in {"none", "keep", "destructive"} /\ t \in 1 .. MaxTests
    BY <1>1, <1>4, ConfFacts, ResultsAssumption DEF Conf, Tests
  <2>2. WorkOK(u) /\ W = Reported(V, t, v, s, e)
    BY <1>1, <2>1, AfterFacts
  <2>3. <<t, "data">> \in Names
    BY <1>1, NameFacts
  <2> HIDE DEF u, W, V
  <2>4. W[<<t, "data">>] = V[<<t, "data">>]
    BY <2>2, <2>3 DEF Reported
  <2>5. \A n \in Names : n[1] # t => W[n] = V[n]
    BY <2>2 DEF Reported
  <2>6. cmd[p] = "run" /\ t \notin Unsaved => GoodData(W, t)
    BY <2>4 DEF GoodData, V
  <2>7. Checked /\ t \notin Unsaved => SoundAt(W, t)
    <3> SUFFICES ASSUME Checked, t \notin Unsaved PROVE SoundAt(W, t)
      OBVIOUS
    <3>1. Measured(V, t, v, s)
      BY DEF V
    <3>2. conf.encoding[t] = {"none"} \/ "none" \notin conf.encoding[t]
      BY <2>1 DEF Checked, UniformEncoding
    <3>3. QED
      BY <1>1, <1>4, <2>2, <3>1, <3>2, AfterSound
  <2>8. TestStep(p, u)
    BY <1>2, <1>4, <2>2, <2>5, <2>6, <2>7 DEF TestStep, NextTest, V, W, u
  <2>9. QED
    BY <2>8
<1>5. QED
  BY <1>3, <1>4 DEF RunAfter, Current

\* Before a Test is run or linked, it has no files.
LEMMA TestBegins ==
    ASSUME TypeOK, FileInv, NEW p \in Instances, Testing(p)
    PROVE  LET t == test[p] IN
           /\ t \in Tests /\ t \in Nat /\ Holding(p)
           /\ conf \in Confs /\ results \in [Times -> Dirs] /\ disk \in Disks
           /\ info[p] \in SUBSET Times
           /\ \A x \in Times : OfItsKind(results[x], disk)
           /\ WorkOK(Work(p)) /\ Work(p).f = files /\ Work(p).d = disk
           /\ \A k \in {"data", "file", "gz", "out"} :
                 files[<<t, k>>] = NoFile /\ View(files, disk)[<<t, k>>] = Free
<1> DEFINE t == test[p]
<1>1. t \in Tests /\ t \in Nat /\ conf \in Confs
  BY ConfFacts DEF TypeOK, Testing, Tests
<1>2. Holding(p)
  BY DEF Testing, Holding
<1>3. \A k \in {"data", "file", "gz", "out"} : files[<<t, k>>] = NoFile
  <2>1. \A k \in {"data", "file", "gz", "out"} : <<t, k>> \in Names
    BY <1>1, NameFacts
  <2>2. \A k : <<t, k>>[1] >= t
    BY <1>1
  <2>3. QED
    BY <2>1, <2>2 DEF FileInv, Testing
<1>4. \A k \in {"data", "file", "gz", "out"} : View(files, disk)[<<t, k>>] = Free
  <2>1. \A k \in {"data", "file", "gz", "out"} : <<t, k>> \in Names
    BY <1>1, NameFacts
  <2>2. QED
    BY <1>3, <2>1 DEF View
<1>5. results \in [Times -> Dirs] /\ disk \in Disks /\ info[p] \in SUBSET Times
  BY DEF TypeOK, Disks
<1>6. \A x \in Times : OfItsKind(results[x], disk)
  BY DEF FileInv
<1>7. WorkOK(Work(p)) /\ Work(p).f = files /\ Work(p).d = disk
  BY <1>2, WorkDir
<1>8. QED
  BY <1>1, <1>2, <1>3, <1>4, <1>5, <1>6, <1>7

\* What LinkPriorData leaves, and so the directory in which a Test runs.
LEMMA LinkingFacts ==
    ASSUME TypeOK, FileInv, SoundInv, NEW p \in Instances, Testing(p),
           NEW w \in {Work(p), Linking(p).w}
    PROVE  LET t == test[p]
               V == View(w.f, w.d)
           IN  /\ WorkOK(w)
               /\ \A n \in Names : n[1] # t => V[n] = View(files, disk)[n]
               /\ V[<<t, "out">>] = Free
               /\ Checked /\ t \notin Unsaved => SoundAt(V, t)
<1> DEFINE t == test[p]
           V == View(w.f, w.d)
           r == LinkPriorData(Work(p), info[p], t)
<1>1. /\ t \in Tests /\ conf \in Confs /\ results \in [Times -> Dirs] /\ disk \in Disks
      /\ info[p] \in SUBSET Times /\ \A x \in Times : OfItsKind(results[x], disk)
      /\ WorkOK(Work(p)) /\ Work(p).f = files /\ Work(p).d = disk
      /\ \A k \in {"data", "file", "gz", "out"} :
            files[<<t, k>>] = NoFile /\ View(files, disk)[<<t, k>>] = Free
  BY TestBegins
<1>2. CASE w = Work(p)
  <2>1. V = View(files, disk)
    BY <1>1, <1>2
  <2>2. SoundAt(V, t)
    BY <1>1, <2>1 DEF SoundAt
  <2>3. QED
    BY <1>1, <1>2, <2>1, <2>2
<1>3. CASE w = Linking(p).w
  <2>1. w = r.w
    BY <1>3 DEF Linking, Current
  <2>2. /\ WorkOK(r.w)
        /\ \A n \in Names : n \notin {<<t, "data">>, <<t, "file">>, <<t, "gz">>} =>
              View(r.w.f, r.w.d)[n] = View(Work(p).f, Work(p).d)[n]
    BY <1>1, LinkPriorFacts
  <2>3. Checked /\ t \notin Unsaved => SoundAt(View(r.w.f, r.w.d), t)
    <3> SUFFICES ASSUME Checked, t \notin Unsaved
                 PROVE  SoundAt(View(r.w.f, r.w.d), t)
      OBVIOUS
    <3>1. \A x \in Times : Sound(View(results[x], disk))
      BY DEF SoundInv, Checked
    <3>2. t \in Tests \ Unsaved /\ \A k \in {"data", "file", "gz", "out"} : Work(p).f[<<t, k>>] = NoFile
      BY <1>1
    <3>3. QED
      BY <1>1, <3>1, <3>2, LinkPriorSound
  <2> HIDE DEF r
  <2>4. <<t, "out">> \in Names
    BY <1>1, NameFacts
  <2>5. QED
    BY <1>1, <2>1, <2>2, <2>3, <2>4
<1>4. QED
  BY <1>2, <1>3

\* Each of the six actions for a Test is such a step.
LEMMA TestSteps ==
    ASSUME TypeOK, FileInv, SoundInv, UNCHANGED conf, NEW p \in Instances,
           \/ TestLinked(p) \/ TestSkipped(p) \/ TestUnset(p)
           \/ TestRun(p) \/ TestRunError(p) \/ TestSaveFails(p)
    PROVE  \E u : TestStep(p, u)
<1> DEFINE t == test[p]
           L == Linking(p).w
           D == RunDir(p)
           F == View(files, disk)
<1>1. Testing(p)
  BY DEF TestLinked, TestSkipped, TestUnset, TestRun, TestRunError, TestSaveFails, Runnable
<1>2. /\ t \in Tests /\ conf \in Confs /\ results \in [Times -> Dirs] /\ disk \in Disks
      /\ info[p] \in SUBSET Times /\ \A x \in Times : OfItsKind(results[x], disk)
      /\ WorkOK(Work(p)) /\ Work(p).f = files /\ Work(p).d = disk
  BY <1>1, TestBegins
<1>3. ASSUME NEW w \in {Work(p), L}
      PROVE  /\ WorkOK(w)
             /\ \A n \in Names : n[1] # t => View(w.f, w.d)[n] = F[n]
             /\ View(w.f, w.d)[<<t, "out">>] = Free
             /\ Checked /\ t \notin Unsaved => SoundAt(View(w.f, w.d), t)
  BY <1>1, <1>3, LinkingFacts
<1>4. D \in {Work(p), L}
  BY DEF RunDir
<1>5. conf.values \subseteq Values
  BY <1>2, ConfFacts DEF Conf
<1>6. /\ <<t, "data">> \in Names /\ <<t, "file">> \in Names /\ <<t, "gz">> \in Names
      /\ <<t, "out">> \in Names
      /\ ContentOf(<<t, "data">>) = [v : Values, err : BOOLEAN, ref : BOOLEAN]
  BY <1>2, NameFacts
<1>7. ran \in [Instances -> BOOLEAN] /\ seen \in [Instances -> SUBSET Tests] /\ UNCHANGED Tests
  BY DEF TypeOK, Tests
<1> HIDE DEF D, F
<1>8. CASE TestLinked(p)
  <2> DEFINE d == L.d[L.f[<<t, "data">>]]
             V == View(L.f, L.d)
  <2>1. t \notin Unsaved /\ Linking(p).ok /\ (cmd[p] = "run" => ~d.err)
    BY <1>8 DEF TestLinked, LinkUsable, Current, DataHasError
  <2>2. L.f[<<t, "data">>] # NoFile
    BY <1>2, <2>1, LinkPriorFacts DEF Linking, Current
  <2>3. V[<<t, "data">>] = d /\ d \in ContentOf(<<t, "data">>) /\ d # Free
    <3>1. L.f \in Dirs /\ L.d \in Disks /\ OfItsKind(L.f, L.d)
      BY <1>3 DEF WorkOK
    <3> HIDE DEF L
    <3>2. /\ V[<<t, "data">>] = Free <=> L.f[<<t, "data">>] = NoFile
          /\ V[<<t, "data">>] # Free => V[<<t, "data">>] \in ContentOf(<<t, "data">>) /\ V[<<t, "data">>] = d
      BY <1>2, <1>6, <3>1, ViewFacts
    <3>3. QED
      BY <2>2, <3>2
  <2>4. RunAfter(p, L, d.v, d.ref)
    BY <1>8 DEF TestLinked, Current
  <2>5. ran' \in [Instances -> BOOLEAN]
    BY <1>7, <1>8 DEF TestLinked
  <2>6. WorkOK(L) /\ \A n \in Names : n[1] # t => V[n] = F[n]
    BY <1>3
  <2>7. Checked /\ t \notin Unsaved => SoundAt(V, t)
    BY <1>3
  <2> HIDE DEF L, V, d
  <2>8. d.v \in Values /\ d.ref \in BOOLEAN
    <3>1. d \in [v : Values, err : BOOLEAN, ref : BOOLEAN]
      BY <1>6, <2>3, Zenon
    <3>2. QED
      BY <3>1
  <2>9. cmd[p] = "run" /\ t \notin Unsaved => GoodData(V, t)
    BY <2>1, <2>3 DEF GoodData
  <2>10. Checked /\ t \notin Unsaved => Measured(V, t, d.v, d.ref)
    BY <2>3, <2>7 DEF SoundAt, Measured
  <2>11. QED
    BY <1>1, <2>4, <2>5, <2>6, <2>8, <2>9, <2>10, AfterStep DEF V, F
<1>9. CASE TestSkipped(p)
  <2>1. PICK w \in {Work(p), L} : NextTest(p, w)
    BY <1>9 DEF TestSkipped, Current
  <2>2. cmd[p] # "run"
    BY <1>9 DEF TestSkipped
  <2>3. TestStep(p, w)
    BY <1>1, <1>3, <1>7, <1>9, <2>1, <2>2 DEF TestStep, NextTest, TestSkipped, F
  <2>4. QED
    BY <2>3
<1>10. CASE TestUnset(p)
  <2>1. TestStep(p, Work(p))
    BY <1>1, <1>3, <1>7, <1>10 DEF TestStep, Fail, TestUnset, Goto, Current, F
  <2>2. QED
    BY <2>1
<1>11. ASSUME NEW v \in Values, NEW e \in BOOLEAN, NEW s \in BOOLEAN
       PROVE  LET u == During(D, info[p], t, v, e, s)
                  V == View(u.f, u.d)
              IN  /\ WorkOK(u)
                  /\ \A n \in Names : n[1] # t => V[n] = F[n]
                  /\ t \notin Unsaved => V[<<t, "data">>] = [v |-> v, err |-> e, ref |-> s]
                  /\ s => V[<<t, "file">>] = [v |-> v]
                  /\ V[<<t, "out">>] = Free
                  /\ Checked /\ t \notin Unsaved =>
                        (conf.encoding[t] = {"none"} => V[<<t, "gz">>] = Free)
  <2> DEFINE u == During(D, info[p], t, v, e, s)
             V == View(u.f, u.d)
  <2>1. /\ WorkOK(u)
        /\ V = [n \in Names |->
              IF t \notin Unsaved /\ n = <<t, "data">> THEN [v |-> v, err |-> e, ref |-> s]
              ELSE IF s /\ n = <<t, "file">> THEN [v |-> v]
              ELSE View(D.f, D.d)[n]]
    BY <1>2, <1>3, <1>4, DuringFacts
  <2>2. /\ \A n \in Names : n[1] # t => View(D.f, D.d)[n] = F[n]
        /\ View(D.f, D.d)[<<t, "out">>] = Free
        /\ Checked /\ t \notin Unsaved => SoundAt(View(D.f, D.d), t)
    BY <1>3, <1>4
  <2> HIDE DEF u, V
  <2>3. Checked /\ t \notin Unsaved =>
           (conf.encoding[t] = {"none"} => V[<<t, "gz">>] = Free)
    BY <1>6, <2>1, <2>2 DEF SoundAt
  <2>4. /\ t \notin Unsaved => V[<<t, "data">>] = [v |-> v, err |-> e, ref |-> s]
        /\ s => V[<<t, "file">>] = [v |-> v]
        /\ V[<<t, "out">>] = Free
    BY <1>6, <2>1, <2>2
  <2>5. \A n \in Names : n[1] # t => V[n] = F[n]
    BY <2>1, <2>2
  <2>6. QED
    BY <2>1, <2>3, <2>4, <2>5 DEF u, V
<1>12. CASE TestRun(p)
  <2>1. PICK v \in conf.values, s \in BOOLEAN :
           RunAfter(p, During(D, info[p], t, v, FALSE, s), v, s)
    BY <1>12 DEF TestRun, Current, D
  <2> DEFINE u == During(D, info[p], t, v, FALSE, s)
             V == View(u.f, u.d)
  <2>2. /\ WorkOK(u)
        /\ \A n \in Names : n[1] # t => V[n] = F[n]
        /\ t \notin Unsaved => V[<<t, "data">>] = [v |-> v, err |-> FALSE, ref |-> s]
        /\ s => V[<<t, "file">>] = [v |-> v]
        /\ V[<<t, "out">>] = Free
        /\ Checked /\ t \notin Unsaved =>
              (conf.encoding[t] = {"none"} => V[<<t, "gz">>] = Free)
    <3>1. v \in Values /\ FALSE \in BOOLEAN
      BY <1>5
    <3>2. QED
      BY <1>11, <3>1, Zenon
  <2>3. RunAfter(p, u, v, s)
    BY <2>1
  <2> HIDE DEF u, V
  <2>4. [v |-> v] # Free /\ [v |-> v, err |-> FALSE, ref |-> s] # Free
    BY DEF Free
  <2>5. cmd[p] = "run" /\ t \notin Unsaved => GoodData(V, t)
    BY <2>2, <2>4 DEF GoodData
  <2>6. Checked /\ t \notin Unsaved => Measured(V, t, v, s)
    BY <2>2, <2>4 DEF Measured, Opened
  <2>7. ran' \in [Instances -> BOOLEAN]
    BY <1>7, <1>12 DEF TestRun
  <2>8. v \in Values
    BY <1>5
  <2>9. QED
    BY <1>1, <2>2, <2>3, <2>5, <2>6, <2>7, <2>8, AfterStep DEF V, F
<1>13. CASE TestRunError(p)
  <2>1. PICK v \in conf.values, s \in BOOLEAN :
           Fail(p, During(D, info[p], t, v, TRUE, s))
    BY <1>13 DEF TestRunError, Current, D
  <2> DEFINE u == During(D, info[p], t, v, TRUE, s)
             V == View(u.f, u.d)
  <2>2. /\ WorkOK(u)
        /\ \A n \in Names : n[1] # t => V[n] = F[n]
        /\ t \notin Unsaved => V[<<t, "data">>] = [v |-> v, err |-> TRUE, ref |-> s]
        /\ s => V[<<t, "file">>] = [v |-> v]
        /\ V[<<t, "out">>] = Free
        /\ Checked /\ t \notin Unsaved =>
              (conf.encoding[t] = {"none"} => V[<<t, "gz">>] = Free)
    BY <1>5, <1>11, ZenonT(40)
  <2>3. Fail(p, u)
    BY <2>1
  <2> HIDE DEF u, V
  <2>4. [v |-> v] # Free /\ [v |-> v, err |-> TRUE, ref |-> s] # Free
    BY DEF Free
  <2>5. Checked /\ t \notin Unsaved => SoundAt(V, t)
    BY <2>2, <2>4 DEF SoundAt, Opened
  <2>6. TestStep(p, u)
    BY <1>1, <1>7, <1>13, <2>2, <2>3, <2>5 DEF TestStep, Fail, TestRunError, Goto, F, V
  <2>7. QED
    BY <2>6
<1>14. CASE TestSaveFails(p)
  <2>1. conf.faults
    BY <1>14 DEF TestSaveFails
  <2>2. PICK v \in conf.values :
           \E u \in {SaveFile(D, info[p], t, v), WriteData(D, info[p], t, v, FALSE, TRUE)} :
              Fail(p, u)
    BY <1>14 DEF TestSaveFails, Current, D
  <2>3. PICK u \in {SaveFile(D, info[p], t, v), WriteData(D, info[p], t, v, FALSE, TRUE)} :
           Fail(p, u)
    BY <2>2
  <2>4. WorkOK(D) /\ \A n \in Names : n[1] # t => View(D.f, D.d)[n] = F[n]
    BY <1>3, <1>4
  <2>5. WorkOK(u) /\ \A n \in Names : n[1] # t => View(u.f, u.d)[n] = View(D.f, D.d)[n]
    BY <1>2, <1>5, <2>4, SaveFacts
  <2>6. TestStep(p, u)
    BY <1>1, <1>7, <1>14, <2>1, <2>3, <2>4, <2>5
       DEF TestStep, Fail, TestSaveFails, Goto, F, Checked
  <2>7. QED
    BY <2>6
<1>15. QED
  BY <1>8, <1>9, <1>10, <1>12, <1>13, <1>14

-----------------------------------------------------------------------------
(* What each step does to the file system.                                 *)

\* The configuration does not change, and what is made of it.
LEMMA SameConf ==
    ASSUME UNCHANGED conf
    PROVE  /\ Times' = Times /\ Tests' = Tests /\ Unsaved' = Unsaved /\ Names' = Names
           /\ Inodes' = Inodes /\ Empty' = Empty /\ Dirs' = Dirs /\ Contents' = Contents
           /\ Checked' = Checked /\ Alone' = Alone
BY DEF Times, Tests, Unsaved, Names, Inodes, Empty, Dirs, Contents, Checked, UniformEncoding,
       Alone

\* What the invariants say of the directories of the next state.
LEMMA Primed ==
    ASSUME UNCHANGED conf
    PROVE  /\ OfItsKind(files, disk)' <=> OfItsKind(files', disk')
           /\ \A t : OfItsKind(results[t], disk)' <=> OfItsKind(results'[t], disk')
           /\ Sound(View(files, disk))' <=> Sound(View(files', disk'))
           /\ \A t : Sound(View(results[t], disk))' <=> Sound(View(results'[t], disk'))
           /\ IndexComplete(View(files, disk))' <=> IndexComplete(View(files', disk'))
           /\ \A t : IndexComplete(View(results[t], disk))' <=>
                        IndexComplete(View(results'[t], disk'))
           /\ \A t : GoodData(View(files, disk), t)' <=> GoodData(View(files', disk'), t)
<1>1. Names' = Names /\ Tests' = Tests /\ Unsaved' = Unsaved
  BY SameConf
<1>2. View(files, disk)' = View(files', disk')
  BY <1>1 DEF View
<1>3. \A t : View(results[t], disk)' = View(results'[t], disk')
  BY <1>1 DEF View
<1>4. OfItsKind(files, disk)' <=> OfItsKind(files', disk')
  BY <1>1 DEF OfItsKind, ContentOf
<1>5. \A t : OfItsKind(results[t], disk)' <=> OfItsKind(results'[t], disk')
  BY <1>1 DEF OfItsKind, ContentOf
<1>6. Sound(View(files, disk))' <=> Sound(View(files', disk'))
  BY <1>1, <1>2 DEF Sound, Coherent, Opened
<1>7. \A t : Sound(View(results[t], disk))' <=> Sound(View(results'[t], disk'))
  BY <1>1, <1>3 DEF Sound, Coherent, Opened
<1>8. IndexComplete(View(files, disk))' <=> IndexComplete(View(files', disk'))
  BY <1>1, <1>2 DEF IndexComplete
<1>9. \A t : IndexComplete(View(results[t], disk))' <=>
                IndexComplete(View(results'[t], disk'))
  BY <1>1, <1>3 DEF IndexComplete
<1>10. \A t : GoodData(View(files, disk), t)' <=> GoodData(View(files', disk'), t)
  BY <1>2 DEF GoodData
<1>11. QED
  BY <1>4, <1>5, <1>6, <1>7, <1>8, <1>9, <1>10

\* Results whose inodes keep what they hold are as they were.
LEMMA KeptResults ==
    ASSUME NEW R, NEW d1, NEW d2,
           \A n \in Names : R[n] # NoFile => d2[R[n]] = d1[R[n]]
    PROVE  View(R, d2) = View(R, d1) /\ (OfItsKind(R, d1) => OfItsKind(R, d2))
BY DEF View, OfItsKind

\* An empty directory.
LEMMA EmptyDir ==
    ASSUME conf \in Confs, NEW d
    PROVE  /\ Empty \in Dirs /\ \A n \in Names : Empty[n] = NoFile
           /\ OfItsKind(Empty, d) /\ \A n \in Names : View(Empty, d)[n] = Free
           /\ Index \in Names
<1>1. Empty = [n \in Names |-> NoFile]
  BY ConfFacts, ResultsAssumption DEF Empty, EmptyOf, Names
<1>2. Index \in Names
  BY ConfFacts
<1>3. QED
  BY <1>1, <1>2 DEF Dirs, OfItsKind, View

\* The index is written, and nothing else.
LEMMA StopFacts ==
    ASSUME TypeOK, FileInv, NEW p \in Instances, Stop(p), UNCHANGED conf
    PROVE  \E w : LET ps == {n \in Paths(stat[p]) : n[1] \in seen[p]} IN
              /\ WorkOK(w) /\ SetWork(p, w)
              /\ View(w.f, w.d) = [View(files, disk) EXCEPT ![Index] = [paths |-> ps]]
<1> DEFINE ps == {n \in Paths(stat[p]) : n[1] \in seen[p]}
           w == Write(Work(p), info[p], Index, [paths |-> ps])
<1>1. SetWork(p, w)
  BY DEF Stop
<1>2. Holding(p)
  BY DEF Stop, Holding
<1>3. WorkOK(Work(p)) /\ Work(p).f = files /\ Work(p).d = disk
  BY <1>2, WorkDir
<1>4. conf \in Confs /\ results \in [Times -> Dirs] /\ info[p] \in SUBSET Times
  BY DEF TypeOK
<1>5. Paths(stat[p]) \subseteq Names
  BY <1>2 DEF FileInv
<1>6. Index \in Names /\ [paths |-> ps] \in ContentOf(Index)
  BY <1>4, <1>5, ConfFacts DEF ContentOf
<1>7. WorkOK(w) /\ View(w.f, w.d) = [View(files, disk) EXCEPT ![Index] = [paths |-> ps]]
  <2> HIDE DEF ps
  <2>1. /\ WorkOK(w)
        /\ View(w.f, w.d) = [View(Work(p).f, Work(p).d) EXCEPT ![Index] = [paths |-> ps]]
    BY <1>3, <1>4, <1>6, WriteFacts
  <2>2. QED
    BY <1>3, <2>1
<1>8. QED
  BY <1>1, <1>7

-----------------------------------------------------------------------------
(* Each part of the invariant is kept.                                     *)

\* Every action keeps the types of all variables.
LEMMA TypeStep ==
    ASSUME ResultsInv, Next
    PROVE  TypeOK'
<1>1. /\ conf' = conf /\ conf' \in Confs
      /\ Times' = Times /\ Tests' = Tests /\ Names' = Names
      /\ Inodes' = Inodes /\ Empty' = Empty /\ Dirs' = Dirs /\ Contents' = Contents
      /\ conf.procs \subseteq Instances
  <2>1. conf' = conf
    BY DEF Next
  <2>2. conf \in Confs
    BY DEF ResultsInv, TypeOK
  <2>3. conf.procs \subseteq Instances
    BY <2>2, ConfFacts DEF Conf
  <2>4. QED
    BY <2>1, <2>2, <2>3, SameConf
<1>2. Empty \in Dirs
  BY <1>1, EmptyDir
<1>3. TypeOK /\ FileInv /\ SoundInv
  BY DEF ResultsInv
<1>4. NoStat \in Stats /\ conf.tests \in Nat /\ conf.tests >= 1
  <2>1. conf \in Confs
    BY <1>3 DEF TypeOK
  <2>2. QED
    BY <2>1, ConfFacts DEF NoStat, Stats
<1>5. Collect(disk, Empty) \in Disks
  BY <1>1, <1>2, <1>3, Collecting DEF TypeOK, Disks
<1>6. ASSUME NEW p \in Instances, NEW w, WorkOK(w), SetWork(p, w)
      PROVE  files' \in Dirs /\ disk' \in Disks /\ stat' \in [Instances -> Stats]
  <2>1. w.f \in Dirs /\ w.d \in Disks /\ w.s \in Stats
    BY <1>6 DEF WorkOK
  <2>2. QED
    BY <1>3, <1>6, <2>1 DEF SetWork, TypeOK, Stats
<1>7. CASE MoveAway
  BY <1>1, <1>2, <1>3, <1>5, <1>7 DEF MoveAway, TypeOK, Disks, procVars
<1>8. ASSUME NEW p \in Instances, Step(p) PROVE TypeOK'
  <2>1. ASSUME Return(p, TRUE) \/ Return(p, FALSE)
        PROVE  /\ pc' \in [Instances -> {"start", "mkdir", "info", "test", "stop", "rename",
                             "removeAll", "symlink", "relink", "dirEmpty",
                             "removeRoot"}]
               /\ cmd' \in [Instances -> conf.commands \cup {"none"}]
               /\ info' \in [Instances -> SUBSET Times]
               /\ stat' \in [Instances -> Stats]
               /\ test' \in [Instances -> 1..(conf.tests + 1)]
               /\ dir' \in [Instances -> Times \cup {0}]
               /\ seen' \in [Instances -> SUBSET Tests]
               /\ ran' \in [Instances -> BOOLEAN] /\ err' \in [Instances -> BOOLEAN]
    <3>1. /\ pc' = [pc EXCEPT ![p] = "start"] /\ cmd' = [cmd EXCEPT ![p] = "none"]
          /\ info' = [info EXCEPT ![p] = {}] /\ stat' = [stat EXCEPT ![p] = NoStat]
          /\ test' = [test EXCEPT ![p] = 1] /\ dir' = [dir EXCEPT ![p] = 0]
          /\ seen' = [seen EXCEPT ![p] = {}] /\ ran' = [ran EXCEPT ![p] = FALSE]
          /\ \E e \in BOOLEAN : err' = [err EXCEPT ![p] = @ \/ e]
      BY <2>1 DEF Return, Goto
    <3>2. 1 \in 1..(conf.tests + 1)
      BY <1>4
    <3>3. stat' \in [Instances -> Stats]
      BY <1>3, <1>4, <3>1 DEF TypeOK, Stats
    <3>4. test' \in [Instances -> 1..(conf.tests + 1)]
      BY <1>3, <3>1, <3>2 DEF TypeOK
    <3>5. err' \in [Instances -> BOOLEAN]
      BY <1>3, <3>1 DEF TypeOK
    <3>6. QED
      BY <1>3, <3>1, <3>3, <3>4, <3>5 DEF TypeOK
  <2>2. CASE Start(p)
    BY <1>1, <1>3, <2>2 DEF Start, Goto, TypeOK
  <2>3. CASE Mkdir(p)
    <3>1. CASE Return(p, TRUE)
      BY <1>1, <1>3, <2>1, <2>3, <3>1 DEF Mkdir, TypeOK, Stats
    <3>2. CASE Continue(p, "info")
      BY <1>1, <1>3, <2>3, <3>2 DEF Mkdir, Continue, Goto, TypeOK, procVars
    <3>3. QED
      BY <2>3, <3>1, <3>2 DEF Mkdir
  <2>4. CASE Info(p)
    <3>1. CASE Return(p, TRUE)
      BY <1>1, <1>3, <2>1, <2>4, <3>1 DEF Info, TypeOK, Stats, fsVars
    <3>2. CASE info' = [info EXCEPT ![p] = Existing] /\ Goto(p, "test")
               /\ UNCHANGED <<cmd, stat, test, dir, seen, ran, err>>
      BY <1>1, <1>3, <2>4, <3>2 DEF Info, Existing, Goto, TypeOK, fsVars
    <3>3. QED
      BY <2>4, <3>1, <3>2 DEF Info
  <2>5. CASE \/ TestLinked(p) \/ TestSkipped(p) \/ TestUnset(p)
             \/ TestRun(p) \/ TestRunError(p) \/ TestSaveFails(p)
    <3>1. PICK w : TestStep(p, w)
      BY <1>1, <1>3, <2>5, TestSteps
    <3>2. files' \in Dirs /\ disk' \in Disks /\ stat' \in [Instances -> Stats]
      BY <1>6, <3>1 DEF TestStep
    <3>3. test' \in [Instances -> 1..(conf.tests + 1)]
      <4>1. test[p] + 1 \in 1..(conf.tests + 1) /\ test \in [Instances -> 1..(conf.tests + 1)]
        BY <1>3, <1>4, <3>1 DEF TestStep, TypeOK, Testing
      <4>2. test' = [test EXCEPT ![p] = @ + 1] \/ test' = test
        BY <3>1 DEF TestStep
      <4>3. QED
        BY <4>1, <4>2
    <3>4. /\ pc' \in [Instances -> {"start", "mkdir", "info", "test", "stop", "rename",
                             "removeAll", "symlink", "relink", "dirEmpty",
                             "removeRoot"}]
          /\ err' \in [Instances -> BOOLEAN]
      BY <1>3, <3>1 DEF TestStep, TypeOK
    <3>5. QED
      BY <1>1, <1>3, <3>1, <3>2, <3>3, <3>4 DEF TestStep, TypeOK, dirVars, Disks, Stats
  <2>6. CASE TestsDone(p)
    BY <1>1, <1>3, <2>6 DEF TestsDone, Goto, TypeOK, fsVars, procVars
  <2>7. CASE Stop(p)
    <3>1. PICK w : WorkOK(w) /\ SetWork(p, w)
      BY <1>1, <1>3, <2>7, StopFacts
    <3>2. files' \in Dirs /\ disk' \in Disks /\ stat' \in [Instances -> Stats]
      BY <1>6, <3>1
    <3>3. QED
      BY <1>1, <1>3, <2>7, <3>2 DEF Stop, Goto, TypeOK, dirVars, Disks, Stats
  <2>8. CASE Rename(p)
    <3>1. PICK t \in Times : /\ now' = t /\ dir' = [dir EXCEPT ![p] = t]
                             /\ \/ UNCHANGED <<work, files, results>>
                                \/ /\ results' = [results EXCEPT ![t] = files]
                                   /\ work' = FALSE /\ files' = Empty
      BY <2>8 DEF Rename
    <3>2. files' \in Dirs /\ results' \in [Times -> Dirs] /\ work' \in BOOLEAN
      BY <1>2, <1>3, <3>1 DEF TypeOK
    <3>3. dir' \in [Instances -> Times \cup {0}] /\ now' \in Times
      BY <1>3, <3>1 DEF TypeOK
    <3>4. QED
      BY <1>1, <1>3, <2>8, <3>2, <3>3 DEF Rename, Goto, TypeOK
  <2>9. CASE Symlink(p)
    <3>1. CASE Return(p, TRUE) /\ UNCHANGED latestTmp
      BY <1>1, <1>3, <2>1, <2>9, <3>1 DEF Symlink, TypeOK, Stats
    <3>2. CASE latestTmp' = dir[p] /\ Continue(p, "relink")
      BY <1>1, <1>3, <2>9, <3>2 DEF Symlink, Continue, Goto, TypeOK, procVars
    <3>3. QED
      BY <2>9, <3>1, <3>2 DEF Symlink
  <2>10. CASE Relink(p)
    BY <1>1, <1>3, <2>1, <2>10 DEF Relink, TypeOK, Stats
  <2>11. CASE RemoveAll(p)
    BY <1>1, <1>2, <1>3, <1>5, <2>11 DEF RemoveAll, Continue, Goto, TypeOK, Disks, procVars
  <2>12. CASE DirEmpty(p)
    <3>1. CASE Return(p, FALSE)
      BY <1>1, <1>3, <2>1, <2>12, <3>1 DEF DirEmpty, TypeOK, Stats, fsVars
    <3>2. CASE Continue(p, "removeRoot")
      BY <1>1, <1>3, <2>12, <3>2 DEF DirEmpty, Continue, Goto, TypeOK, fsVars, procVars
    <3>3. QED
      BY <2>12, <3>1, <3>2 DEF DirEmpty
  <2>13. CASE RemoveRoot(p)
    <3>1. Return(p, TRUE) \/ Return(p, FALSE)
      BY <2>13 DEF RemoveRoot
    <3>2. QED
      BY <1>1, <1>3, <2>1, <2>13, <3>1 DEF RemoveRoot, TypeOK, Stats
  <2>14. CASE Crash(p)
    BY <1>1, <1>3, <2>1, <2>14 DEF Crash, TypeOK, Stats, fsVars
  <2>15. QED
    BY <1>8, <2>2, <2>3, <2>4, <2>5, <2>6, <2>7, <2>8, <2>9, <2>10, <2>11, <2>12, <2>13, <2>14
       DEF Step
<1>9. QED
  BY <1>1, <1>7, <1>8 DEF Next

\* How a step moves an instance: it takes the lock, keeps it, gives it up, or
\* does not have it.
Moves(p, l) ==
    LET held == {"info", "test", "stop", "rename", "removeAll"}
    IN  /\ pc' = [pc EXCEPT ![p] = l]
        /\ \/ pc[p] = "mkdir" /\ ~work /\ work' /\ l = "info"
           \/ pc[p] \in held /\ l \in held \ {"info"} /\ UNCHANGED work
           \/ pc[p] \in held /\ l \notin held
           \/ pc[p] \notin held /\ l \notin held /\ UNCHANGED work

\* Each step of an instance is such a move.
LEMMA MoveFacts ==
    ASSUME TypeOK, FileInv, SoundInv, UNCHANGED conf, NEW p \in Instances, Step(p)
    PROVE  \E l : Moves(p, l)
<1>1. pc \in [Instances -> {"start", "mkdir", "info", "test", "stop", "rename", "removeAll",
                            "symlink", "relink", "dirEmpty", "removeRoot"}]
  BY DEF TypeOK
<1>2. ASSUME Start(p) PROVE Moves(p, "mkdir")
  BY <1>1, <1>2 DEF Start, Goto, Moves
<1>3. ASSUME Mkdir(p) PROVE Moves(p, "info") \/ Moves(p, "start")
  BY <1>1, <1>3 DEF Mkdir, Continue, Return, Goto, Moves
<1>4. ASSUME Info(p) PROVE Moves(p, "test") \/ Moves(p, "start")
  BY <1>1, <1>4 DEF Info, Return, Goto, Moves, fsVars
<1>5. CASE \/ TestLinked(p) \/ TestSkipped(p) \/ TestUnset(p)
           \/ TestRun(p) \/ TestRunError(p) \/ TestSaveFails(p)
  <2>1. PICK w : TestStep(p, w)
    BY <1>5, TestSteps
  <2>2. Moves(p, "test") \/ Moves(p, "stop")
    BY <1>1, <2>1 DEF TestStep, Testing, Moves, dirVars
  <2>3. QED
    BY <2>2
<1>6. ASSUME TestsDone(p) PROVE Moves(p, "stop")
  BY <1>1, <1>6 DEF TestsDone, Goto, Moves, fsVars
<1>7. ASSUME Stop(p) PROVE Moves(p, "rename") \/ Moves(p, "removeAll")
  BY <1>1, <1>7 DEF Stop, Goto, Moves, dirVars
<1>8. ASSUME Rename(p) PROVE Moves(p, "symlink")
  BY <1>1, <1>8 DEF Rename, Goto, Moves
<1>9. ASSUME Symlink(p) PROVE Moves(p, "relink") \/ Moves(p, "start")
  BY <1>1, <1>9 DEF Symlink, Continue, Return, Goto, Moves
<1>10. ASSUME Relink(p) PROVE Moves(p, "start")
  BY <1>1, <1>10 DEF Relink, Return, Goto, Moves
<1>11. ASSUME RemoveAll(p) PROVE Moves(p, "dirEmpty")
  BY <1>1, <1>11 DEF RemoveAll, Continue, Goto, Moves
<1>12. ASSUME DirEmpty(p) PROVE Moves(p, "removeRoot") \/ Moves(p, "start")
  BY <1>1, <1>12 DEF DirEmpty, Continue, Return, Goto, Moves, fsVars
<1>13. ASSUME RemoveRoot(p) PROVE Moves(p, "start")
  BY <1>1, <1>13 DEF RemoveRoot, Return, Goto, Moves
<1>14. ASSUME Crash(p) PROVE Moves(p, "start")
  BY <1>1, <1>14 DEF Crash, Return, Goto, Moves, fsVars
<1>15. QED
  BY <1>2, <1>3, <1>4, <1>5, <1>6, <1>7, <1>8, <1>9, <1>10, <1>11, <1>12, <1>13, <1>14 DEF Step

\* Mkdir takes the lock only when it is free, and only its holder gives it up.
LEMMA OneWriterStep ==
    ASSUME ResultsInv, Next
    PROVE  OneWriter'
<1>1. TypeOK /\ OneWriter /\ FileInv /\ SoundInv /\ UNCHANGED conf
  BY DEF ResultsInv, Next
<1>2. CASE MoveAway
  BY <1>1, <1>2 DEF MoveAway, OneWriter, Holding
<1>3. ASSUME NEW p \in Instances, Step(p) PROVE OneWriter'
  <2>1. PICK l : Moves(p, l)
    BY <1>1, <1>3, MoveFacts
  <2>2. pc \in [Instances -> {"start", "mkdir", "info", "test", "stop", "rename", "removeAll",
                            "symlink", "relink", "dirEmpty", "removeRoot"}]
    BY <1>1 DEF TypeOK
  <2>3. QED
    BY <1>1, <2>1, <2>2 DEF OneWriter, Holding, Moves
<1>4. conf.procs \subseteq Instances
  BY <1>1, ConfFacts DEF Conf, TypeOK
<1>5. QED
  BY <1>2, <1>3, <1>4 DEF Next

\* An instance does not touch the state of another.
LEMMA Others ==
    ASSUME TypeOK, FileInv, SoundInv, UNCHANGED conf, NEW p \in Instances, Step(p),
           NEW q \in Instances, q # p
    PROVE  /\ pc'[q] = pc[q] /\ test'[q] = test[q] /\ stat'[q] = stat[q]
           /\ err'[q] = err[q] /\ cmd'[q] = cmd[q] /\ dir'[q] = dir[q]
<1>1. ASSUME NEW e, Return(p, e)
      PROVE  /\ pc'[q] = pc[q] /\ test'[q] = test[q] /\ stat'[q] = stat[q]
             /\ err'[q] = err[q] /\ cmd'[q] = cmd[q] /\ dir'[q] = dir[q]
  BY <1>1 DEF Return, Goto, TypeOK
<1>2. CASE Start(p)
  BY <1>2 DEF Start, Goto, TypeOK
<1>3. CASE Mkdir(p)
  BY <1>1, <1>3 DEF Mkdir, Continue, Goto, TypeOK, procVars
<1>4. CASE Info(p)
  BY <1>1, <1>4 DEF Info, Goto, TypeOK
<1>5. CASE \/ TestLinked(p) \/ TestSkipped(p) \/ TestUnset(p)
           \/ TestRun(p) \/ TestRunError(p) \/ TestSaveFails(p)
  <2>1. PICK w : TestStep(p, w)
    BY <1>5, TestSteps
  <2>2. QED
    BY <2>1 DEF TestStep, SetWork, TypeOK
<1>6. CASE TestsDone(p)
  BY <1>6 DEF TestsDone, Goto, procVars, TypeOK
<1>7. CASE Stop(p)
  BY <1>7 DEF Stop, Goto, SetWork, TypeOK
<1>8. CASE Rename(p)
  BY <1>8 DEF Rename, Goto, TypeOK
<1>9. CASE Symlink(p)
  BY <1>1, <1>9 DEF Symlink, Continue, Goto, TypeOK, procVars
<1>10. CASE Relink(p)
  BY <1>1, <1>10 DEF Relink
<1>11. CASE RemoveAll(p)
  BY <1>11 DEF RemoveAll, Continue, Goto, TypeOK, procVars
<1>12. CASE DirEmpty(p)
  BY <1>1, <1>12 DEF DirEmpty, Continue, Goto, TypeOK, procVars
<1>13. CASE RemoveRoot(p)
  BY <1>1, <1>13 DEF RemoveRoot
<1>14. CASE Crash(p)
  BY <1>1, <1>14 DEF Crash
<1>15. QED
  BY <1>2, <1>3, <1>4, <1>5, <1>6, <1>7, <1>8, <1>9, <1>10, <1>11, <1>12, <1>13, <1>14 DEF Step

\* What a step does to the directories, with what the invariant has to say of
\* them: nothing, a change of the work directory that leaves the results alone,
\* the rename of the work directory, or its removal.
Unmoved == UNCHANGED <<files, results, disk>>
Worked(p) ==
    \E w : WorkOK(w) /\ SetWork(p, w) /\ UNCHANGED <<results, work>>
Renamed ==
    /\ \E t \in Times : /\ (~conf.sameSecond => t > now) /\ results[t] = Empty
                        /\ now' = t /\ results' = [results EXCEPT ![t] = files]
    /\ files' = Empty /\ ~work' /\ UNCHANGED disk
Removed == files' = Empty /\ disk' = Collect(disk, Empty) /\ UNCHANGED results /\ ~work'

\* Each step of an instance does one of these, in these states.
LEMMA FileSteps ==
    ASSUME TypeOK, FileInv, SoundInv, UNCHANGED conf, NEW p \in Instances, Step(p)
    PROVE  \/ Unmoved /\ (work' = work \/ pc[p] = "mkdir")
           \/ pc[p] \in {"test", "stop"} /\ pc'[p] \in {"test", "stop", "rename", "removeAll"} /\ Worked(p)
           \/ pc[p] = "rename" /\ pc'[p] = "symlink" /\ Renamed
           \/ pc[p] = "removeAll" /\ pc'[p] = "dirEmpty" /\ Removed
<1>1. pc \in [Instances -> {"start", "mkdir", "info", "test", "stop", "rename", "removeAll",
                            "symlink", "relink", "dirEmpty", "removeRoot"}]
  BY DEF TypeOK
<1>2. CASE Start(p) \/ Mkdir(p) \/ Info(p)
  BY <1>2 DEF Start, Mkdir, Info, fsVars, Unmoved
<1>3. CASE \/ TestLinked(p) \/ TestSkipped(p) \/ TestUnset(p)
           \/ TestRun(p) \/ TestRunError(p) \/ TestSaveFails(p)
  <2>1. PICK w : TestStep(p, w)
    BY <1>3, TestSteps
  <2>2. Worked(p)
    BY <2>1 DEF TestStep, Worked, dirVars
  <2>3. QED
    BY <1>1, <2>1, <2>2 DEF TestStep, Testing
<1>4. CASE Stop(p)
  <2>1. PICK w : WorkOK(w) /\ SetWork(p, w)
    BY <1>4, StopFacts
  <2>2. Worked(p)
    BY <1>4, <2>1 DEF Stop, Worked, dirVars
  <2>3. QED
    BY <1>1, <1>4, <2>2 DEF Stop, Goto
<1>5. CASE Rename(p)
  <2>1. PICK t \in Times :
           /\ IF conf.sameSecond THEN t >= now ELSE t > now
           /\ now' = t
           /\ IF results[t] # Empty THEN UNCHANGED <<work, files, results>>
              ELSE /\ results' = [results EXCEPT ![t] = files]
                   /\ work' = FALSE /\ files' = Empty
    BY <1>5 DEF Rename
  <2>2. pc[p] = "rename" /\ pc'[p] = "symlink" /\ UNCHANGED disk
    BY <1>1, <1>5 DEF Rename, Goto
  <2>3. CASE results[t] # Empty
    BY <2>1, <2>2, <2>3 DEF Unmoved
  <2>4. CASE results[t] = Empty
    BY <2>1, <2>2, <2>4 DEF Renamed
  <2>5. QED
    BY <2>3, <2>4
<1>6. CASE RemoveAll(p)
  BY <1>1, <1>6 DEF RemoveAll, Continue, Goto, Removed
<1>7. CASE TestsDone(p) \/ Symlink(p) \/ Relink(p) \/ DirEmpty(p) \/ RemoveRoot(p) \/ Crash(p)
  BY <1>7 DEF TestsDone, Symlink, Relink, DirEmpty, RemoveRoot, Crash, fsVars, Unmoved
<1>8. QED
  BY <1>2, <1>3, <1>4, <1>5, <1>6, <1>7 DEF Step

\* A step of the system, for one instance or for the user.
LEMMA NextFacts ==
    ASSUME ResultsInv, Next
    PROVE  /\ UNCHANGED conf
           /\ MoveAway \/ \E p \in Instances : p \in conf.procs /\ Step(p)
<1>1. conf.procs \subseteq Instances
  BY ConfFacts DEF ResultsInv, TypeOK, Conf
<1>2. QED
  BY <1>1 DEF Next

\* A result is as it was, or it is what the work directory was.
Kept(t) ==
    /\ results'[t] = results[t]
    /\ View(results'[t], disk') = View(results[t], disk)
Made(t) ==
    /\ Renamed /\ results[t] = Empty /\ now' = t
    /\ results'[t] = files /\ View(results'[t], disk') = View(files, disk)

\* Every step keeps a result as it is, or makes one where there was none.
LEMMA ResultSteps ==
    ASSUME ResultsInv, Next
    PROVE  /\ \A t \in Times : OfItsKind(results'[t], disk') /\ (Kept(t) \/ Made(t))
           /\ OfItsKind(files', disk')
           /\ \A t \in Times, n \in Names : results[t][n] # NoFile =>
                 disk'[results[t][n]] = disk[results[t][n]]
<1>1. TypeOK /\ OneWriter /\ FileInv /\ SoundInv
  BY DEF ResultsInv
<1>2. conf \in Confs /\ results \in [Times -> Dirs] /\ disk \in Disks /\ UNCHANGED conf
  BY <1>1, NextFacts DEF TypeOK, Disks
<1>3. OfItsKind(files, disk) /\ \A t \in Times : OfItsKind(results[t], disk)
  BY <1>1 DEF FileInv
<1>4. ASSUME UNCHANGED results,
             \A t \in Times, n \in Names : results[t][n] # NoFile =>
                disk'[results[t][n]] = disk[results[t][n]]
      PROVE  \A t \in Times : OfItsKind(results'[t], disk') /\ Kept(t)
  <2> TAKE t \in Times
  <2>1. \A n \in Names : results[t][n] # NoFile => disk'[results[t][n]] = disk[results[t][n]]
    BY <1>4
  <2>2. View(results[t], disk') = View(results[t], disk) /\ OfItsKind(results[t], disk')
    BY <1>3, <2>1, KeptResults
  <2>3. QED
    BY <1>4, <2>2 DEF Kept
<1>5. CASE Removed
  <2>1. Empty \in Dirs
    BY <1>2, EmptyDir
  <2>2. ASSUME NEW t \in Times, NEW n \in Names, results[t][n] # NoFile
        PROVE  disk'[results[t][n]] = disk[results[t][n]]
    <3>1. results[t][n] \in Inodes
      BY <1>2, <2>2 DEF Dirs
    <3>2. QED
      BY <1>2, <1>5, <2>1, <3>1, Collecting DEF Removed
  <2>3. OfItsKind(files', disk')
    BY <1>2, <1>5, EmptyDir DEF Removed
  <2>4. QED
    BY <1>4, <1>5, <2>2, <2>3 DEF Removed
<1>6. CASE Unmoved
  <2>1. OfItsKind(files', disk')
    BY <1>3, <1>6 DEF Unmoved
  <2>2. QED
    BY <1>4, <1>6, <2>1 DEF Unmoved
<1>7. ASSUME NEW p \in Instances, Worked(p)
      PROVE  /\ \A t \in Times : OfItsKind(results'[t], disk') /\ (Kept(t) \/ Made(t))
             /\ OfItsKind(files', disk')
             /\ \A t \in Times, n \in Names : results[t][n] # NoFile =>
                   disk'[results[t][n]] = disk[results[t][n]]
  <2>1. PICK w : WorkOK(w) /\ SetWork(p, w) /\ UNCHANGED <<results, work>>
    BY <1>7 DEF Worked
  <2>2. /\ OfItsKind(files', disk')
        /\ \A t \in Times, n \in Names : results[t][n] # NoFile =>
              disk'[results[t][n]] = disk[results[t][n]]
    BY <2>1 DEF WorkOK, SetWork
  <2>3. QED
    BY <1>4, <2>1, <2>2
<1>8. CASE Renamed
  <2>1. PICK t \in Times : /\ results[t] = Empty
                           /\ now' = t /\ results' = [results EXCEPT ![t] = files]
    BY <1>8 DEF Renamed
  <2>2. UNCHANGED disk /\ files' = Empty
    BY <1>8 DEF Renamed
  <2>3. results'[t] = files /\ \A x \in Times : x # t => results'[x] = results[x]
    BY <1>2, <2>1
  <2>4. Made(t) /\ OfItsKind(results'[t], disk')
    BY <1>3, <1>8, <2>1, <2>2, <2>3 DEF Made
  <2>5. \A x \in Times : x # t => Kept(x) /\ OfItsKind(results'[x], disk')
    BY <1>3, <2>2, <2>3 DEF Kept
  <2>6. OfItsKind(files', disk')
    BY <1>2, <2>2, EmptyDir
  <2>7. QED
    BY <2>2, <2>4, <2>5, <2>6
<1>9. CASE MoveAway
  BY <1>5, <1>9 DEF MoveAway, Removed
<1>10. ASSUME NEW p \in Instances, Step(p)
       PROVE  Unmoved \/ Worked(p) \/ Renamed \/ Removed
  BY <1>1, <1>2, <1>10, FileSteps
<1>11. QED
  BY <1>5, <1>6, <1>7, <1>8, <1>9, <1>10, NextFacts

\* What FileInv says of one instance.
Account(p) ==
    /\ Holding(p) => Paths(stat[p]) = {n \in Names : files[n] # NoFile}
    /\ pc[p] \in {"start", "mkdir", "info"} => test[p] = 1 /\ stat[p] = NoStat
    /\ pc[p] = "info" => files = Empty
    /\ pc[p] = "test" => \A n \in Names : n = Index \/ n[1] >= test[p] => files[n] = NoFile
    /\ pc[p] = "rename" => files[Index] # NoFile

\* The instance that takes the step has its account right.
LEMMA AccountStep ==
    ASSUME ResultsInv, UNCHANGED conf, NEW p \in Instances, Step(p)
    PROVE  Account(p)'
<1>1. TypeOK /\ OneWriter /\ FileInv /\ SoundInv
  BY DEF ResultsInv
<1>2. conf \in Confs /\ Names' = Names /\ Empty' = Empty
  BY <1>1, SameConf DEF TypeOK
<1>3. /\ Empty \in Dirs /\ \A n \in Names : Empty[n] = NoFile
      /\ Index \in Names
  BY <1>2, EmptyDir
<1>4. Account(p) /\ (~work => files = Empty)
  BY <1>1 DEF FileInv, Account
<1>5. pc \in [Instances -> {"start", "mkdir", "info", "test", "stop", "rename", "removeAll",
                            "symlink", "relink", "dirEmpty", "removeRoot"}]
      /\ stat \in [Instances -> Stats] /\ test \in [Instances -> 1..(conf.tests + 1)]
  BY <1>1 DEF TypeOK, Stats
<1>6. ASSUME NEW e, Return(p, e) PROVE Account(p)'
  <2>1. pc'[p] = "start" /\ test'[p] = 1 /\ stat'[p] = NoStat
    BY <1>5, <1>6 DEF Return, Goto
  <2>2. NoStat' = NoStat
    BY DEF NoStat
  <2>3. QED
    BY <2>1, <2>2 DEF Account, Holding
<1>7. ASSUME pc'[p] \notin {"start", "mkdir", "info", "test", "stop", "rename", "removeAll"}
      PROVE  Account(p)'
  BY <1>7 DEF Account, Holding
<1>8. CASE Start(p)
  <2>1. pc[p] = "start" /\ pc'[p] = "mkdir" /\ UNCHANGED <<test, stat>>
    BY <1>5, <1>8 DEF Start, Goto
  <2>2. QED
    BY <1>4, <2>1 DEF Account, Holding, NoStat
<1>9. CASE Mkdir(p)
  <2>1. CASE Return(p, TRUE)
    BY <1>6, <2>1
  <2>2. CASE root /\ ~work
    <3>1. pc[p] = "mkdir" /\ pc'[p] = "info" /\ UNCHANGED <<test, stat, files>>
      BY <1>5, <1>9, <2>2 DEF Mkdir, Continue, Goto, procVars
    <3>2. files = Empty /\ stat[p] = NoStat /\ test[p] = 1
      BY <1>4, <2>2, <3>1 DEF Account
    <3>3. Paths(NoStat) = {n \in Names : Empty[n] # NoFile}
      BY <1>3 DEF Paths, NoStat
    <3>4. QED
      BY <1>2, <3>1, <3>2, <3>3 DEF Account, Holding, NoStat, Paths
  <2>3. QED
    BY <1>9, <2>1, <2>2 DEF Mkdir
<1>10. CASE Info(p)
  <2>1. CASE Return(p, TRUE)
    BY <1>6, <2>1
  <2>2. CASE Goto(p, "test") /\ UNCHANGED <<stat, test>>
    <3>1. pc[p] = "info" /\ pc'[p] = "test" /\ UNCHANGED files
      BY <1>5, <1>10, <2>2 DEF Info, Goto, fsVars
    <3>2. files = Empty /\ Paths(stat[p]) = {n \in Names : files[n] # NoFile}
      BY <1>4, <3>1 DEF Account, Holding
    <3>3. QED
      BY <1>2, <1>3, <2>2, <3>1, <3>2 DEF Account, Holding, Paths
  <2>3. QED
    BY <1>10, <2>1, <2>2 DEF Info
<1>11. ASSUME NEW w, WorkOK(w), SetWork(p, w)
       PROVE  /\ files' = w.f /\ disk' = w.d /\ stat'[p] = w.s
              /\ (Paths(stat[p]) = {n \in Names : files[n] # NoFile})'
              /\ \A n \in Names : View(w.f, w.d)[n] = Free <=> files'[n] = NoFile
  <2>1. files' = w.f /\ disk' = w.d /\ stat'[p] = w.s
    BY <1>5, <1>11 DEF SetWork
  <2>2. Paths(w.s) = {n \in Names : w.f[n] # NoFile}
    BY <1>11 DEF WorkOK
  <2>3. w.f \in Dirs /\ w.d \in Disks /\ OfItsKind(w.f, w.d)
    BY <1>11 DEF WorkOK
  <2>4. \A n \in Names : View(w.f, w.d)[n] = Free <=> w.f[n] = NoFile
    BY <1>2, <2>3, ViewFacts
  <2>5. QED
    BY <1>2, <2>1, <2>2, <2>4 DEF Paths
<1>12. CASE \/ TestLinked(p) \/ TestSkipped(p) \/ TestUnset(p)
            \/ TestRun(p) \/ TestRunError(p) \/ TestSaveFails(p)
  <2>1. PICK w : TestStep(p, w)
    BY <1>1, <1>12, TestSteps
  <2>2. WorkOK(w) /\ SetWork(p, w) /\ pc[p] = "test"
    BY <2>1 DEF TestStep, Testing
  <2>3. CASE pc'[p] = "stop"
    BY <1>11, <2>2, <2>3 DEF Account, Holding
  <2>4. CASE pc'[p] # "stop"
    <3>1. pc'[p] = "test" /\ test'[p] = test[p] + 1
      BY <1>5, <2>1, <2>2, <2>4 DEF TestStep
    <3>2. ASSUME NEW n \in Names, n = Index \/ n[1] >= test'[p] PROVE files'[n] = NoFile
      <4>1. test[p] \in Nat /\ test[p] >= 1 /\ n[1] \in Nat
        BY <1>2, <1>5, ConfFacts
      <4>2. n[1] # test[p] /\ (n = Index \/ n[1] >= test[p])
        BY <3>1, <3>2, <4>1 DEF Index
      <4>3. files[n] = NoFile
        BY <1>4, <2>2, <4>2 DEF Account
      <4>4. View(files, disk)[n] = Free
        BY <4>3 DEF View
      <4>5. View(w.f, w.d)[n] = Free
        BY <2>1, <4>2, <4>4 DEF TestStep
      <4>6. QED
        BY <1>11, <2>2, <4>5
    <3>3. QED
      BY <1>2, <1>11, <2>2, <3>1, <3>2 DEF Account, Holding, Index
  <2>5. QED
    BY <2>3, <2>4
<1>13. CASE TestsDone(p)
  <2>1. pc[p] = "test" /\ pc'[p] = "stop" /\ UNCHANGED <<files, stat>>
    BY <1>5, <1>13 DEF TestsDone, Goto, fsVars, procVars
  <2>2. QED
    BY <1>2, <1>4, <2>1 DEF Account, Holding, Paths
<1>14. CASE Stop(p)
  <2> DEFINE c == [paths |-> {n \in Paths(stat[p]) : n[1] \in seen[p]}]
  <2>1. PICK w : /\ WorkOK(w) /\ SetWork(p, w)
                 /\ View(w.f, w.d) = [View(files, disk) EXCEPT ![Index] = c]
    BY <1>1, <1>14, StopFacts
  <2>2. pc'[p] \in {"rename", "removeAll"}
    BY <1>5, <1>14 DEF Stop, Goto
  <2>3. View(w.f, w.d)[Index] = c
    BY <1>3, <2>1 DEF View
  <2>4. c # Free
    BY DEF Free
  <2> HIDE DEF c
  <2>5. files'[Index] # NoFile
    BY <1>3, <1>11, <2>1, <2>3, <2>4
  <2>6. QED
    BY <1>11, <2>1, <2>2, <2>5 DEF Account, Holding, Index
<1>15. CASE Rename(p)
  <2>1. pc'[p] = "symlink"
    BY <1>5, <1>15 DEF Rename, Goto
  <2>2. QED
    BY <1>7, <2>1
<1>16. CASE Symlink(p)
  <2>1. pc'[p] = "relink" \/ Return(p, TRUE)
    BY <1>5, <1>16 DEF Symlink, Continue, Goto
  <2>2. QED
    BY <1>6, <1>7, <2>1
<1>17. CASE RemoveAll(p)
  <2>1. pc'[p] = "dirEmpty"
    BY <1>5, <1>17 DEF RemoveAll, Continue, Goto
  <2>2. QED
    BY <1>7, <2>1
<1>18. CASE DirEmpty(p)
  <2>1. pc'[p] = "removeRoot" \/ Return(p, FALSE)
    BY <1>5, <1>18 DEF DirEmpty, Continue, Goto
  <2>2. QED
    BY <1>6, <1>7, <2>1
<1>19. CASE Relink(p) \/ RemoveRoot(p) \/ Crash(p)
  BY <1>6, <1>19 DEF Relink, RemoveRoot, Crash
<1>20. QED
  BY <1>8, <1>9, <1>10, <1>12, <1>13, <1>14, <1>15, <1>16, <1>17, <1>18, <1>19 DEF Step

\* The files are of their kinds, and the holder of the work directory keeps its
\* account.
LEMMA FileStep ==
    ASSUME ResultsInv, Next
    PROVE  FileInv'
<1>1. TypeOK /\ OneWriter /\ FileInv /\ SoundInv
  BY DEF ResultsInv
<1>2. /\ UNCHANGED conf /\ conf \in Confs /\ Times' = Times /\ Empty' = Empty /\ Names' = Names
  BY <1>1, NextFacts, SameConf DEF TypeOK
<1>3. OfItsKind(files, disk)' /\ \A t \in Times : OfItsKind(results[t], disk)'
  BY <1>2, ResultSteps, Primed
<1>4. (~work => files = Empty) /\ \A q \in Instances : Account(q)
  BY <1>1 DEF FileInv, Account
<1>5. ASSUME NEW p \in Instances, Step(p)
      PROVE  (~work => files = Empty)' /\ \A q \in Instances : Account(q)'
  <2>1. (~work => files = Empty)'
    <3>1. CASE Unmoved /\ (work' = work \/ pc[p] = "mkdir")
      <4>1. work => work'
        <5>1. PICK l : Moves(p, l)
          BY <1>1, <1>2, <1>5, MoveFacts
        <5>2. QED
          BY <3>1, <5>1 DEF Moves
      <4>2. QED
        BY <1>2, <1>4, <3>1, <4>1 DEF Unmoved
    <3>2. CASE pc[p] \in {"test", "stop"} /\ Worked(p)
      <4>1. work /\ UNCHANGED work
        BY <1>1, <3>2 DEF OneWriter, Holding, Worked
      <4>2. QED
        BY <4>1
    <3>3. CASE Renamed \/ Removed
      BY <1>2, <3>3 DEF Renamed, Removed
    <3>4. QED
      BY <1>1, <1>2, <1>5, <3>1, <3>2, <3>3, FileSteps
  <2>2. ASSUME NEW q \in Instances, q # p PROVE Account(q)'
    <3>1. pc'[q] = pc[q] /\ test'[q] = test[q] /\ stat'[q] = stat[q]
      BY <1>1, <1>2, <1>5, <2>2, Others
    <3>2. CASE files' = files
      BY <1>2, <1>4, <3>1, <3>2 DEF Account, Holding, Paths, NoStat, Index
    <3>3. CASE files' # files
      <4>1. Holding(p)
        BY <1>1, <1>2, <1>5, <3>3, FileSteps DEF Unmoved, Holding
      <4>2. ~Holding(q)
        BY <1>1, <2>2, <4>1 DEF OneWriter
      <4>3. QED
        BY <1>4, <3>1, <4>2 DEF Account, Holding, NoStat
    <3>4. QED
      BY <3>2, <3>3
  <2>3. Account(p)'
    BY <1>2, <1>5, AccountStep
  <2>4. QED
    BY <2>1, <2>2, <2>3
<1>6. CASE MoveAway
  <2>1. (~work => files = Empty)'
    BY <1>2, <1>6 DEF MoveAway
  <2>2. \A q \in Instances : Account(q)'
    BY <1>4, <1>6 DEF Account, Holding, MoveAway, NoStat, procVars
  <2>3. QED
    BY <1>2, <1>3, <2>1, <2>2 DEF FileInv, Account
<1>7. ASSUME NEW p \in Instances, Step(p) PROVE FileInv'
  BY <1>2, <1>3, <1>5, <1>7 DEF FileInv, Account
<1>8. QED
  BY <1>6, <1>7, NextFacts

\* The view of the work directory changes only for its holder.
LEMMA SameView ==
    ASSUME ResultsInv, UNCHANGED conf, NEW p \in Instances, Step(p),
           NEW q \in Instances, q # p, Holding(q)
    PROVE  Unmoved
<1>1. TypeOK /\ OneWriter /\ FileInv /\ SoundInv
  BY DEF ResultsInv
<1>2. ~Holding(p)
  BY <1>1 DEF OneWriter
<1>3. QED
  BY <1>1, <1>2, FileSteps DEF Holding

\* What RunInv says of one instance.
Runs(p) ==
    /\ pc[p] \in {"stop", "rename"} /\ ~err[p] => test[p] > conf.tests
    /\ Holding(p) /\ cmd[p] = "run" /\ ~err[p] =>
          \A t \in Tests \ Unsaved : t < test[p] => GoodData(View(files, disk), t)

\* The instance that takes the step keeps the good data of its run.
LEMMA RunsStep ==
    ASSUME ResultsInv, UNCHANGED conf, NEW p \in Instances, Step(p)
    PROVE  Runs(p)'
<1>1. TypeOK /\ OneWriter /\ FileInv /\ SoundInv
  BY DEF ResultsInv
<1>2. conf \in Confs /\ Names' = Names /\ Tests' = Tests /\ Unsaved' = Unsaved
  BY <1>1, SameConf DEF TypeOK
<1>3. Account(p) /\ Runs(p)
  BY <1>1 DEF FileInv, Account, ResultsInv, RunInv, Runs
<1>4. /\ pc \in [Instances -> {"start", "mkdir", "info", "test", "stop", "rename", "removeAll",
                            "symlink", "relink", "dirEmpty", "removeRoot"}]
      /\ test \in [Instances -> 1..(conf.tests + 1)] /\ err \in [Instances -> BOOLEAN]
      /\ conf.tests \in Nat /\ Tests = 1 .. conf.tests
  BY <1>1, <1>2, ConfFacts DEF TypeOK, Tests
<1>5. ASSUME pc'[p] \notin {"info", "test", "stop", "rename", "removeAll"}
      PROVE  Runs(p)'
  BY <1>5 DEF Runs, Holding
<1>6. ASSUME NEW e, Return(p, e) PROVE Runs(p)'
  BY <1>4, <1>5, <1>6 DEF Return, Goto
<1>7. ASSUME pc[p] \in {"mkdir", "info"}, pc'[p] \in {"info", "test"}, UNCHANGED test
      PROVE  Runs(p)'
  <2>1. test'[p] = 1
    BY <1>3, <1>7 DEF Account
  <2>2. \A t \in Tests : ~(t < test'[p])
    BY <1>4, <2>1
  <2>3. QED
    BY <1>2, <1>7, <2>2 DEF Runs, Holding
<1>8. CASE Start(p)
  BY <1>4, <1>5, <1>8 DEF Start, Goto
<1>9. CASE Mkdir(p)
  <2>1. Return(p, TRUE) \/ (pc[p] = "mkdir" /\ pc'[p] = "info" /\ UNCHANGED test)
    BY <1>4, <1>9 DEF Mkdir, Continue, Goto, procVars
  <2>2. QED
    BY <1>6, <1>7, <2>1
<1>10. CASE Info(p)
  <2>1. Return(p, TRUE) \/ (pc[p] = "info" /\ pc'[p] = "test" /\ UNCHANGED test)
    BY <1>4, <1>10 DEF Info, Goto
  <2>2. QED
    BY <1>6, <1>7, <2>1
<1>11. CASE \/ TestLinked(p) \/ TestSkipped(p) \/ TestUnset(p)
            \/ TestRun(p) \/ TestRunError(p) \/ TestSaveFails(p)
  <2>1. PICK w : TestStep(p, w)
    BY <1>1, <1>11, TestSteps
  <2>2. pc[p] = "test" /\ UNCHANGED cmd /\ files' = w.f /\ disk' = w.d /\ test[p] \in Tests
    BY <1>4, <2>1 DEF TestStep, Testing, SetWork
  <2>3. CASE err'[p]
    BY <2>3 DEF Runs
  <2>4. CASE ~err'[p]
    <3>1. /\ pc'[p] = "test" /\ test'[p] = test[p] + 1 /\ ~err[p]
          /\ cmd[p] = "run" /\ test[p] \notin Unsaved => GoodData(View(w.f, w.d), test[p])
      BY <1>4, <2>1, <2>2, <2>4 DEF TestStep
    <3>2. ASSUME cmd[p] = "run", NEW t \in Tests \ Unsaved, t < test'[p]
          PROVE  GoodData(View(w.f, w.d), t)
      <4>1. CASE t = test[p]
        BY <3>1, <3>2, <4>1
      <4>2. CASE t # test[p]
        <5>1. t < test[p]
          BY <1>4, <2>2, <3>1, <3>2, <4>2
        <5>2. GoodData(View(files, disk), t)
          BY <1>3, <2>2, <3>1, <3>2, <5>1 DEF Runs, Holding
        <5>3. <<t, "data">> \in Names /\ <<t, "data">>[1] # test[p]
          BY <1>2, <4>2, NameFacts
        <5>4. View(w.f, w.d)[<<t, "data">>] = View(files, disk)[<<t, "data">>]
          BY <2>1, <5>3 DEF TestStep
        <5>5. QED
          BY <5>2, <5>4 DEF GoodData
      <4>3. QED
        BY <4>1, <4>2
    <3>3. ASSUME cmd[p] = "run", NEW t \in Tests \ Unsaved, t < test'[p]
          PROVE  GoodData(View(files, disk), t)'
      BY <2>2, <3>2, <3>3, Primed
    <3>4. QED
      BY <1>2, <2>2, <3>1, <3>3 DEF Runs
  <2>5. QED
    BY <2>3, <2>4
<1>12. CASE TestsDone(p)
  <2>1. /\ pc[p] = "test" /\ test[p] > conf.tests /\ pc'[p] = "stop"
        /\ UNCHANGED <<files, disk, test, err, cmd>>
    BY <1>4, <1>12 DEF TestsDone, Goto, fsVars, procVars
  <2>2. QED
    BY <1>2, <1>3, <2>1, Primed DEF Runs, Holding
<1>13. CASE Stop(p)
  <2> DEFINE c == [paths |-> {n \in Paths(stat[p]) : n[1] \in seen[p]}]
  <2>1. PICK w : /\ WorkOK(w) /\ SetWork(p, w)
                 /\ View(w.f, w.d) = [View(files, disk) EXCEPT ![Index] = c]
    BY <1>1, <1>13, StopFacts
  <2> HIDE DEF c
  <2>2. pc[p] = "stop" /\ pc'[p] \in {"rename", "removeAll"} /\ UNCHANGED <<test, err, cmd>>
    BY <1>4, <1>13 DEF Stop, Goto
  <2>3. ASSUME NEW t \in Tests, GoodData(View(files, disk), t)
        PROVE  GoodData(View(files, disk), t)'
    <3>1. <<t, "data">> # Index /\ <<t, "data">> \in Names
      BY <1>2, NameFacts DEF Index
    <3>2. View(w.f, w.d)[<<t, "data">>] = View(files, disk)[<<t, "data">>]
      BY <2>1, <3>1 DEF View
    <3>3. GoodData(View(files', disk'), t)
      BY <2>1, <2>3, <3>2 DEF GoodData, SetWork
    <3>4. QED
      BY <3>3, Primed
  <2>4. QED
    BY <1>2, <1>3, <2>2, <2>3 DEF Runs, Holding
<1>14. CASE Rename(p) \/ RemoveAll(p)
  BY <1>4, <1>5, <1>14 DEF Rename, RemoveAll, Continue, Goto
<1>15. CASE Symlink(p)
  BY <1>4, <1>5, <1>6, <1>15 DEF Symlink, Continue, Goto
<1>16. CASE DirEmpty(p)
  BY <1>4, <1>5, <1>6, <1>16 DEF DirEmpty, Continue, Goto
<1>17. CASE Relink(p) \/ RemoveRoot(p) \/ Crash(p)
  BY <1>6, <1>17 DEF Relink, RemoveRoot, Crash
<1>18. QED
  BY <1>8, <1>9, <1>10, <1>11, <1>12, <1>13, <1>14, <1>15, <1>16, <1>17 DEF Step

\* A run without an error so far keeps the good data that it has.
LEMMA RunStep ==
    ASSUME ResultsInv, Next
    PROVE  RunInv'
<1>1. TypeOK /\ OneWriter /\ FileInv /\ SoundInv
  BY DEF ResultsInv
<1>2. UNCHANGED conf /\ Tests' = Tests /\ Unsaved' = Unsaved
  BY NextFacts, SameConf
<1>3. \A q \in Instances : Runs(q)
  BY DEF ResultsInv, RunInv, Runs
<1>4. CASE MoveAway
  BY <1>2, <1>3, <1>4 DEF MoveAway, RunInv, Runs, Holding, procVars
<1>5. ASSUME NEW p \in Instances, Step(p), NEW q \in Instances PROVE Runs(q)'
  <2>1. CASE q = p
    BY <1>2, <1>5, <2>1, RunsStep
  <2>2. CASE q # p
    <3>1. pc'[q] = pc[q] /\ test'[q] = test[q] /\ err'[q] = err[q] /\ cmd'[q] = cmd[q]
      BY <1>1, <1>2, <1>5, <2>2, Others
    <3>2. CASE Holding(q)
      <4>1. files' = files /\ disk' = disk
        BY <1>2, <1>5, <2>2, <3>2, SameView DEF Unmoved
      <4>2. \A t : GoodData(View(files, disk), t)' <=> GoodData(View(files, disk), t)
        BY <1>2, <4>1, Primed
      <4>3. QED
        BY <1>2, <1>3, <3>1, <4>2 DEF Runs, Holding
    <3>3. CASE ~Holding(q)
      BY <3>1, <3>3 DEF Runs, Holding
    <3>4. QED
      BY <3>2, <3>3
  <2>3. QED
    BY <2>1, <2>2
<1>6. QED
  BY <1>4, <1>5, NextFacts DEF RunInv, Runs

\* A result is sound when it is made, because the work directory is sound after
\* every Test.
LEMMA SoundStep ==
    ASSUME ResultsInv, Next
    PROVE  SoundInv'
<1>1. TypeOK /\ OneWriter /\ FileInv /\ SoundInv
  BY DEF ResultsInv
<1>2. /\ UNCHANGED conf /\ conf \in Confs /\ Times' = Times /\ Names' = Names
      /\ Checked' = Checked
  BY <1>1, NextFacts, SameConf DEF TypeOK
<1> SUFFICES ASSUME Checked
             PROVE  /\ Sound(View(files', disk'))
                    /\ \A t \in Times : Sound(View(results'[t], disk'))
  <2>1. \/ ~Checked'
        \/ /\ Sound(View(files, disk))'
           /\ \A t \in Times' : Sound(View(results[t], disk))'
    BY <1>2, Primed
  <2>2. QED
    BY <2>1 DEF SoundInv, Checked
<1>3. Sound(View(files, disk)) /\ \A t \in Times : Sound(View(results[t], disk))
  BY <1>1 DEF SoundInv, Checked
<1>4. \A t \in Times : Sound(View(results'[t], disk'))
  BY <1>3, ResultSteps DEF Kept, Made
<1>5. ASSUME files' = Empty PROVE Sound(View(files', disk'))
  <2>1. ASSUME NEW t \in Tests \ Unsaved PROVE SoundAt(View(files', disk'), t)
    <3>1. \A k \in {"data", "file", "gz", "out"} : <<t, k>> \in Names
      BY <1>2, NameFacts
    <3>2. \A k \in {"data", "file", "gz", "out"} : View(files', disk')[<<t, k>>] = Free
      BY <1>2, <1>5, <3>1, EmptyDir
    <3>3. QED
      BY <3>2 DEF SoundAt
  <2>2. QED
    BY <2>1, SoundAll
<1>6. ASSUME NEW V, NEW x, \A n \in Names : n[1] # x => V[n] = View(files, disk)[n],
             x \in Tests \ Unsaved => SoundAt(V, x)
      PROVE  Sound(V)
  <2>1. ASSUME NEW t \in Tests \ Unsaved PROVE SoundAt(V, t)
    <3>1. CASE t = x
      BY <1>6, <3>1
    <3>2. CASE t # x
      <4>1. \A k \in {"data", "file", "gz", "out"} : <<t, k>> \in Names /\ <<t, k>>[1] # x
        BY <1>2, <3>2, NameFacts
      <4>2. \A k \in {"data", "file", "gz", "out"} : V[<<t, k>>] = View(files, disk)[<<t, k>>]
        BY <1>6, <4>1
      <4>3. SoundAt(View(files, disk), t)
        BY <1>3, SoundAll
      <4>4. QED
        BY <4>2, <4>3, SoundLocal
    <3>3. QED
      BY <3>1, <3>2
  <2>2. QED
    BY <2>1, SoundAll
<1>7. CASE MoveAway
  BY <1>4, <1>5, <1>7 DEF MoveAway
<1>8. ASSUME NEW p \in Instances, Step(p) PROVE Sound(View(files', disk'))
  <2>1. CASE \/ TestLinked(p) \/ TestSkipped(p) \/ TestUnset(p)
             \/ TestRun(p) \/ TestRunError(p) \/ TestSaveFails(p)
    <3>1. PICK w : TestStep(p, w)
      BY <1>1, <1>2, <2>1, TestSteps
    <3>2. files' = w.f /\ disk' = w.d
      BY <3>1 DEF TestStep, SetWork
    <3>3. Sound(View(w.f, w.d))
      BY <1>6, <3>1 DEF TestStep
    <3>4. QED
      BY <3>2, <3>3
  <2>2. CASE Stop(p)
    <3> DEFINE c == [paths |-> {n \in Paths(stat[p]) : n[1] \in seen[p]}]
    <3>1. PICK w : /\ WorkOK(w) /\ SetWork(p, w)
                   /\ View(w.f, w.d) = [View(files, disk) EXCEPT ![Index] = c]
      BY <1>1, <1>2, <2>2, StopFacts
    <3> HIDE DEF c
    <3>2. \A n \in Names : n[1] # 0 => n # Index
      BY DEF Index
    <3>3. \A n \in Names : n[1] # 0 => View(w.f, w.d)[n] = View(files, disk)[n]
      BY <3>1, <3>2 DEF View
    <3>4. 0 \notin Tests
      BY DEF Tests
    <3>5. Sound(View(w.f, w.d))
      BY <1>6, <3>3, <3>4
    <3>6. QED
      BY <3>1, <3>5 DEF SetWork
  <2>3. CASE \/ Start(p) \/ Mkdir(p) \/ Info(p) \/ TestsDone(p) \/ Symlink(p) \/ Relink(p)
             \/ DirEmpty(p) \/ RemoveRoot(p) \/ Crash(p)
    <3>1. UNCHANGED <<files, disk>>
      BY <2>3 DEF Start, Mkdir, Info, TestsDone, Symlink, Relink, DirEmpty, RemoveRoot,
                  Crash, fsVars
    <3>2. QED
      BY <1>3, <3>1
  <2>4. CASE Rename(p) \/ RemoveAll(p)
    <3>1. files' = Empty \/ UNCHANGED <<files, disk>>
      BY <2>4 DEF Rename, RemoveAll
    <3>2. QED
      BY <1>3, <1>5, <3>1
  <2>5. QED
    BY <1>8, <2>1, <2>2, <2>3, <2>4 DEF Step
<1>9. QED
  BY <1>4, <1>7, <1>8, NextFacts

\* The index that Stop writes is complete, and so is that of each result.
LEMMA IndexStep ==
    ASSUME ResultsInv, Next
    PROVE  IndexInv'
<1>1. TypeOK /\ OneWriter /\ FileInv /\ SoundInv /\ IndexInv
  BY DEF ResultsInv
<1>2. UNCHANGED conf /\ conf \in Confs /\ Times' = Times /\ Names' = Names
  BY <1>1, NextFacts, SameConf DEF TypeOK
<1>3. pc \in [Instances -> {"start", "mkdir", "info", "test", "stop", "rename", "removeAll",
                            "symlink", "relink", "dirEmpty", "removeRoot"}]
  BY <1>1 DEF TypeOK
<1>4. ASSUME NEW t \in Times PROVE IndexComplete(View(results'[t], disk'))
  <2>1. CASE UNCHANGED results
    <3>1. View(results[t], disk') = View(results[t], disk)
      BY ResultSteps, KeptResults
    <3>2. QED
      BY <1>1, <2>1, <3>1 DEF IndexInv
  <2>2. CASE results' # results
    <3>1. PICK p \in Instances : Step(p)
      BY <2>2, NextFacts DEF MoveAway
    <3>2. pc[p] = "rename"
      BY <1>1, <1>2, <2>2, <3>1, FileSteps DEF Unmoved, Worked, Removed
    <3>3. QED
      BY <1>1, <3>2, ResultSteps DEF IndexInv, Kept, Made
  <2>3. QED
    BY <2>1, <2>2
<1>5. ASSUME NEW p \in Instances, Stop(p) PROVE IndexComplete(View(files', disk'))
  <2> DEFINE ps == {n \in Paths(stat[p]) : n[1] \in seen[p]}
             V == View(files, disk)
             W == View(files', disk')
  <2>1. PICK w : /\ WorkOK(w) /\ SetWork(p, w)
                 /\ View(w.f, w.d) = [V EXCEPT ![Index] = [paths |-> ps]]
    BY <1>1, <1>2, <1>5, StopFacts
  <2>2. W = [V EXCEPT ![Index] = [paths |-> ps]]
    BY <2>1 DEF SetWork
  <2>3. Index \in Names
    BY <1>2, ConfFacts
  <2>4. W[Index] = [paths |-> ps] /\ \A n \in Names : n # Index => W[n] = V[n]
    BY <2>2, <2>3 DEF View
  <2>5. \A n \in Names : V[n] = Free <=> files[n] = NoFile
    <3>1. files \in Dirs /\ disk \in Disks /\ OfItsKind(files, disk)
      BY <1>1 DEF TypeOK, FileInv, Disks
    <3>2. QED
      BY <1>2, <3>1, ViewFacts
  <2>6. Paths(stat[p]) = {n \in Names : files[n] # NoFile}
    BY <1>1, <1>5 DEF FileInv, Holding, Stop
  <2>7. 0 \notin seen[p]
    BY <1>1 DEF TypeOK, Tests
  <2> HIDE DEF V, W
  <2>8. \A n \in ps : n \in Names /\ files[n] # NoFile /\ n[1] \in seen[p]
    BY <2>6
  <2>9. \A n \in Names : n[1] \in seen[p] => n # Index
    BY <2>7 DEF Index
  <2>10. \A n \in ps : W[n] # Free
    BY <2>4, <2>5, <2>8, <2>9
  <2>11. ASSUME NEW n \in ps, NEW m \in Names, m[1] = n[1], W[m] # Free PROVE m \in ps
    <3>1. m[1] \in seen[p] /\ m # Index
      BY <2>8, <2>9, <2>11
    <3>2. files[m] # NoFile
      BY <2>4, <2>5, <2>11, <3>1
    <3>3. QED
      BY <2>6, <3>1, <3>2
  <2> HIDE DEF ps
  <2>12. W[Index].paths = ps
    BY <2>4
  <2>13. IndexComplete(W)
    BY <2>10, <2>11, <2>12 DEF IndexComplete
  <2>14. QED
    BY <2>13 DEF W
<1>6. ASSUME NEW q \in Instances, pc'[q] = "rename" PROVE IndexComplete(View(files', disk'))
  <2>1. CASE MoveAway
    BY <1>6, <2>1 DEF MoveAway, Holding
  <2>2. ASSUME NEW p \in Instances, Step(p) PROVE IndexComplete(View(files', disk'))
    <3>1. CASE q = p
      <4>1. ASSUME NEW e, Return(p, e) PROVE FALSE
        BY <1>3, <1>6, <3>1, <4>1 DEF Return, Goto
      <4>2. CASE Start(p) \/ TestsDone(p) \/ Rename(p) \/ RemoveAll(p)
        BY <1>3, <1>6, <3>1, <4>2 DEF Start, TestsDone, Rename, RemoveAll, Continue, Goto
      <4>3. CASE Mkdir(p) \/ Info(p)
        BY <1>3, <1>6, <3>1, <4>1, <4>3 DEF Mkdir, Info, Continue, Goto
      <4>4. CASE Symlink(p) \/ DirEmpty(p)
        BY <1>3, <1>6, <3>1, <4>1, <4>4 DEF Symlink, DirEmpty, Continue, Goto
      <4>5. CASE Relink(p) \/ RemoveRoot(p) \/ Crash(p)
        BY <4>1, <4>5 DEF Relink, RemoveRoot, Crash
      <4>6. CASE \/ TestLinked(p) \/ TestSkipped(p) \/ TestUnset(p)
                 \/ TestRun(p) \/ TestRunError(p) \/ TestSaveFails(p)
        <5>1. PICK w : TestStep(p, w)
          BY <1>1, <1>2, <4>6, TestSteps
        <5>2. QED
          BY <1>3, <1>6, <3>1, <5>1 DEF TestStep, Testing
      <4>7. CASE Stop(p)
        BY <1>5, <4>7
      <4>8. QED
        BY <2>2, <4>2, <4>3, <4>4, <4>5, <4>6, <4>7 DEF Step
    <3>2. CASE q # p
      <4>1. pc[q] = "rename"
        BY <1>1, <1>2, <1>6, <2>2, <3>2, Others
      <4>2. Unmoved
        BY <1>2, <2>2, <3>2, <4>1, SameView DEF Holding
      <4>3. QED
        BY <1>1, <4>1, <4>2 DEF IndexInv, Unmoved
    <3>3. QED
      BY <3>1, <3>2
  <2>3. QED
    BY <2>1, <2>2, NextFacts
<1>7. QED
  <2>1. \A t \in Times : IndexComplete(View(results[t], disk))'
    BY <1>2, <1>4, Primed
  <2>2. \A q \in Instances : pc'[q] = "rename" => IndexComplete(View(files, disk))'
    BY <1>2, <1>6, Primed
  <2>3. QED
    BY <1>2, <2>1, <2>2 DEF IndexInv

\* Some instance holds the work directory, is about to be told that it exists, or
\* has been told.
Told(p) == Holding(p) \/ err[p] \/ pc[p] = "mkdir"

\* A step that leaves a work directory behind keeps somebody told of it.
LEMMA ToldStep ==
    ASSUME ResultsInv, UNCHANGED conf, ~conf.sameSecond, NEW p \in Instances, Step(p), work'
    PROVE  Told(p)' \/ (work /\ (Told(p) => Told(p)'))
<1>1. TypeOK /\ OneWriter /\ FileInv /\ SoundInv /\ EndInv
  BY DEF ResultsInv
<1>2. /\ pc \in [Instances -> {"start", "mkdir", "info", "test", "stop", "rename", "removeAll",
                            "symlink", "relink", "dirEmpty", "removeRoot"}]
      /\ err \in [Instances -> BOOLEAN]
  BY <1>1 DEF TypeOK
<1>3. ASSUME Return(p, TRUE) PROVE Told(p)'
  BY <1>2, <1>3 DEF Return, Told
<1>4. ASSUME Return(p, FALSE), pc[p] \in {"symlink", "relink", "dirEmpty", "removeRoot"}, UNCHANGED work
      PROVE  work /\ (Told(p) => Told(p)')
  BY <1>2, <1>4 DEF Return, Told, Holding
<1>5. CASE Start(p)
  BY <1>2, <1>5 DEF Start, Goto, Told
<1>6. CASE Mkdir(p)
  BY <1>2, <1>3, <1>6 DEF Mkdir, Continue, Goto, Told, Holding
<1>7. CASE Info(p)
  BY <1>2, <1>3, <1>7 DEF Info, Goto, Told, Holding
<1>8. CASE \/ TestLinked(p) \/ TestSkipped(p) \/ TestUnset(p)
           \/ TestRun(p) \/ TestRunError(p) \/ TestSaveFails(p)
  <2>1. PICK w : TestStep(p, w)
    BY <1>1, <1>8, TestSteps
  <2>2. pc'[p] \in {"test", "stop"}
    BY <1>2, <2>1 DEF TestStep, Testing
  <2>3. QED
    BY <2>2 DEF Told, Holding
<1>9. CASE TestsDone(p)
  BY <1>2, <1>9 DEF TestsDone, Goto, Told, Holding
<1>10. CASE Stop(p)
  <2>1. pc'[p] \in {"rename", "removeAll"}
    BY <1>2, <1>10 DEF Stop, Goto
  <2>2. QED
    BY <2>1 DEF Told, Holding
<1>11. CASE Rename(p)
  <2>1. PICK t \in Times : t > now /\ (results[t] = Empty => ~work')
    BY <1>11 DEF Rename
  <2>2. results[t] = Empty
    BY <1>1, <2>1 DEF EndInv
  <2>3. QED
    BY <2>1, <2>2
<1>12. CASE Symlink(p)
  <2>1. UNCHANGED work
    BY <1>12 DEF Symlink
  <2>2. CASE Continue(p, "relink")
    BY <1>2, <1>12, <2>1, <2>2 DEF Symlink, Continue, Goto, Told, Holding
  <2>3. QED
    BY <1>3, <1>12, <2>2 DEF Symlink
<1>13. CASE Relink(p)
  BY <1>4, <1>13 DEF Relink
<1>14. CASE RemoveAll(p)
  BY <1>14 DEF RemoveAll
<1>15. CASE DirEmpty(p)
  <2>1. UNCHANGED work
    BY <1>15 DEF DirEmpty, fsVars
  <2>2. CASE Continue(p, "removeRoot")
    BY <1>2, <1>15, <2>1, <2>2 DEF DirEmpty, Continue, Goto, Told, Holding
  <2>3. QED
    BY <1>4, <1>15, <2>1, <2>2 DEF DirEmpty
<1>16. CASE RemoveRoot(p)
  <2>1. Return(p, TRUE) \/ Return(p, FALSE)
    BY <1>16 DEF RemoveRoot
  <2>2. QED
    BY <1>3, <1>4, <1>16, <2>1 DEF RemoveRoot
<1>17. CASE Crash(p)
  BY <1>3, <1>17 DEF Crash
<1>18. QED
  BY <1>5, <1>6, <1>7, <1>8, <1>9, <1>10, <1>11, <1>12, <1>13, <1>14, <1>15, <1>16, <1>17
     DEF Step

\* The clock moves with the renames only.
LEMMA ClockStep ==
    ASSUME ResultsInv, UNCHANGED conf, NEW p \in Instances, Step(p)
    PROVE  UNCHANGED now \/ Rename(p)
<1>1. TypeOK /\ FileInv /\ SoundInv
  BY DEF ResultsInv
<1>2. CASE \/ TestLinked(p) \/ TestSkipped(p) \/ TestUnset(p)
           \/ TestRun(p) \/ TestRunError(p) \/ TestSaveFails(p)
  <2>1. PICK w : TestStep(p, w)
    BY <1>1, <1>2, TestSteps
  <2>2. QED
    BY <2>1 DEF TestStep
<1>3. QED
  BY <1>2 DEF Step, Start, Mkdir, Info, TestsDone, Stop, Symlink, Relink, RemoveAll, DirEmpty,
              RemoveRoot, Crash

\* Directories have different names, and no WorkDir is left without an error.
LEMMA EndStep ==
    ASSUME ResultsInv, Next
    PROVE  EndInv'
<1>1. TypeOK /\ OneWriter /\ FileInv /\ SoundInv /\ EndInv
  BY DEF ResultsInv
<1>2. UNCHANGED conf /\ conf \in Confs /\ Times' = Times /\ Empty' = Empty
  BY <1>1, NextFacts, SameConf DEF TypeOK
<1> SUFFICES ASSUME ~conf.sameSecond
             PROVE  /\ \A t \in Times : t > now' => results'[t] = Empty
                    /\ work' => \E p \in Instances : Told(p)'
  BY <1>2 DEF EndInv, Told
<1>3. /\ \A t \in Times : t > now => results[t] = Empty
      /\ work => \E p \in Instances : Told(p)
  BY <1>1 DEF EndInv, Told
<1>4. now \in Int /\ Times \subseteq Int
  BY <1>1 DEF TypeOK, Times
<1>5. CASE MoveAway
  BY <1>3, <1>5 DEF MoveAway
<1>6. ASSUME NEW p \in Instances, Step(p)
      PROVE  /\ \A t \in Times : t > now' => results'[t] = Empty
             /\ work' => \E q \in Instances : Told(q)'
  <2>1. ASSUME NEW t \in Times, t > now' PROVE results'[t] = Empty
    <3>1. t > now /\ now' >= now
      <4>1. CASE UNCHANGED now
        BY <1>4, <2>1, <4>1
      <4>2. CASE Rename(p)
        <5>1. now' \in Times /\ now' > now
          BY <4>2 DEF Rename
        <5>2. QED
          BY <1>4, <2>1, <5>1
      <4>3. QED
        BY <1>2, <1>6, <4>1, <4>2, ClockStep
    <3>2. results[t] = Empty
      BY <1>3, <3>1
    <3>3. now' # t
      BY <1>4, <2>1
    <3>4. QED
      BY <3>2, <3>3, ResultSteps DEF Kept, Made
  <2>2. ASSUME work' PROVE \E q \in Instances : Told(q)'
    <3>1. CASE Told(p)'
      BY <3>1
    <3>2. CASE ~Told(p)'
      <4>1. work /\ (Told(p) => Told(p)')
        BY <1>2, <1>6, <2>2, <3>2, ToldStep
      <4>2. PICK q \in Instances : Told(q)
        BY <1>3, <4>1
      <4>3. q # p
        BY <3>2, <4>1, <4>2
      <4>4. pc'[q] = pc[q] /\ err'[q] = err[q]
        BY <1>1, <1>2, <1>6, <4>3, Others
      <4>5. Told(q)'
        BY <4>2, <4>4 DEF Told, Holding
      <4>6. QED
        BY <4>5
    <3>3. QED
      BY <3>1, <3>2
  <2>3. QED
    BY <2>1, <2>2
<1>7. QED
  BY <1>5, <1>6, NextFacts

\* What LatestInv says of the instance that runs.
Linked(p) ==
    /\ latestTmp = IF pc[p] = "relink" THEN dir[p] ELSE 0
    /\ IF pc[p] \in {"symlink", "relink"}
       THEN dir[p] \in Existing /\ \A t \in Existing : t <= dir[p]
       ELSE latest = IF Existing = {} THEN 0 ELSE Max(Existing)

\* The instance that runs keeps the symlinks as they should be.
LEMMA LinkedStep ==
    ASSUME ResultsInv, UNCHANGED conf, ~conf.faults, ~conf.sameSecond,
           NEW p \in Instances, Step(p), Linked(p)
    PROVE  Linked(p)'
<1>1. TypeOK /\ OneWriter /\ FileInv /\ SoundInv /\ EndInv
  BY DEF ResultsInv
<1>2. /\ conf \in Confs /\ Times' = Times /\ Empty' = Empty
      /\ results \in [Times -> Dirs]
  BY <1>1, SameConf DEF TypeOK
<1>3. /\ pc \in [Instances -> {"start", "mkdir", "info", "test", "stop", "rename", "removeAll",
                            "symlink", "relink", "dirEmpty", "removeRoot"}]
      /\ dir \in [Instances -> Times \cup {0}]
  BY <1>1 DEF TypeOK
<1>4. conf.until \in Nat /\ Existing \in SUBSET (1 .. conf.until) /\ Times \subseteq Int
  BY <1>2, ConfFacts DEF Existing, Times
<1>5. ASSUME pc[p] \notin {"symlink", "relink"}, pc'[p] \notin {"symlink", "relink"},
             UNCHANGED <<results, latest, latestTmp>>
      PROVE  Linked(p)'
  <2>1. Existing' = Existing
    BY <1>2, <1>5 DEF Existing
  <2>2. QED
    BY <1>5, <2>1 DEF Linked
<1>6. CASE Start(p) \/ TestsDone(p)
  BY <1>3, <1>5, <1>6 DEF Start, TestsDone, Goto, fsVars
<1>7. CASE Mkdir(p)
  BY <1>3, <1>5, <1>7 DEF Mkdir, Continue, Return, Goto
<1>8. CASE Info(p)
  BY <1>3, <1>5, <1>8 DEF Info, Return, Goto, fsVars
<1>9. CASE \/ TestLinked(p) \/ TestSkipped(p) \/ TestUnset(p)
           \/ TestRun(p) \/ TestRunError(p) \/ TestSaveFails(p)
  <2>1. PICK w : TestStep(p, w)
    BY <1>1, <1>9, TestSteps
  <2>2. pc[p] = "test" /\ pc'[p] \in {"test", "stop"} /\ UNCHANGED dirVars
    BY <1>3, <2>1 DEF TestStep, Testing
  <2>3. QED
    BY <1>5, <2>2 DEF dirVars
<1>10. CASE Stop(p)
  <2>1. pc[p] = "stop" /\ pc'[p] \in {"rename", "removeAll"} /\ UNCHANGED dirVars
    BY <1>3, <1>10 DEF Stop, Goto
  <2>2. QED
    BY <1>5, <2>1 DEF dirVars
<1>11. CASE Rename(p)
  <2>1. PICK t \in Times : /\ t > now /\ dir' = [dir EXCEPT ![p] = t]
                           /\ results[t] = Empty => results' = [results EXCEPT ![t] = files]
    BY <1>11 DEF Rename
  <2>2. \A x \in Times : x > now => results[x] = Empty
    BY <1>1 DEF EndInv
  <2>3. results'[t] = files /\ \A x \in Times : x # t => results'[x] = results[x]
    BY <1>2, <2>1, <2>2
  <2>4. files # Empty
    <3>1. files[Index] # NoFile
      BY <1>1, <1>11 DEF FileInv, Rename
    <3>2. QED
      BY <1>2, <3>1, EmptyDir
  <2>5. Existing' = Existing \cup {t}
    BY <1>2, <2>1, <2>3, <2>4 DEF Existing
  <2>6. \A x \in Existing' : x <= t
    <3>1. now \in Int
      BY <1>1 DEF TypeOK, Times
    <3>2. \A x \in Existing : ~(x > now) /\ x \in Int
      BY <1>4, <2>2 DEF Existing
    <3>3. t \in Int
      BY <1>4, <2>1
    <3>4. QED
      BY <2>1, <2>5, <3>1, <3>2, <3>3
  <2>7. dir'[p] = t /\ pc'[p] = "symlink" /\ pc[p] = "rename" /\ UNCHANGED latestTmp
    BY <1>3, <1>11, <2>1 DEF Rename, Goto
  <2>8. QED
    BY <2>5, <2>6, <2>7 DEF Linked
<1>12. CASE Symlink(p)
  <2>1. pc[p] = "symlink" /\ latestTmp = 0
    BY <1>12 DEF Symlink, Linked
  <2>2. /\ pc'[p] = "relink" /\ latestTmp' = dir[p] /\ UNCHANGED <<dir, results>>
    BY <1>3, <1>12, <2>1 DEF Symlink, Continue, Goto, procVars
  <2>3. Existing' = Existing
    BY <1>2, <2>2 DEF Existing
  <2>4. QED
    BY <2>1, <2>2, <2>3 DEF Linked
<1>13. CASE Relink(p)
  <2>1. /\ pc[p] = "relink" /\ pc'[p] = "start" /\ latest' = latestTmp /\ latestTmp' = 0
        /\ UNCHANGED results
    BY <1>3, <1>13 DEF Relink, Return, Goto
  <2>2. latestTmp = dir[p] /\ dir[p] \in Existing /\ \A t \in Existing : t <= dir[p]
    BY <2>1 DEF Linked
  <2>3. Max(Existing) \in Existing /\ \A y \in Existing : Max(Existing) >= y
    BY <1>4, <2>2, MaxElement
  <2>4. \A t \in Existing : t \in Int
    BY <1>4
  <2>5. dir[p] = Max(Existing)
    BY <2>2, <2>3, <2>4
  <2>6. Existing' = Existing
    BY <1>2, <2>1 DEF Existing
  <2>7. Linked(p)' <=> latest' = IF Existing' = {} THEN 0 ELSE Max(Existing')
    BY <2>1 DEF Linked
  <2>8. QED
    BY <2>1, <2>2, <2>5, <2>6, <2>7
<1>14. CASE RemoveAll(p)
  BY <1>3, <1>5, <1>14 DEF RemoveAll, Continue, Goto
<1>15. CASE DirEmpty(p)
  BY <1>3, <1>5, <1>15 DEF DirEmpty, Continue, Return, Goto, fsVars
<1>16. CASE RemoveRoot(p)
  BY <1>3, <1>5, <1>16 DEF RemoveRoot, Return, Goto
<1>17. CASE Crash(p)
  BY <1>17 DEF Crash
<1>18. QED
  BY <1>6, <1>7, <1>8, <1>9, <1>10, <1>11, <1>12, <1>13, <1>14, <1>15, <1>16, <1>17 DEF Step

\* The latest symlink follows the results of an instance that is alone.
LEMMA LatestStep ==
    ASSUME ResultsInv, Next
    PROVE  LatestInv'
<1>1. TypeOK /\ OneWriter /\ FileInv /\ SoundInv /\ LatestInv
  BY DEF ResultsInv
<1>2. UNCHANGED conf /\ Times' = Times /\ Empty' = Empty /\ Alone' = Alone
  BY NextFacts, SameConf
<1> SUFFICES ASSUME Alone, ~conf.sameSecond
             PROVE  \A q \in Instances : /\ q \notin conf.procs => pc'[q] = "start"
                                         /\ q \in conf.procs => Linked(q)'
  BY <1>2 DEF LatestInv, Linked
<1>3. \A q \in Instances : /\ q \notin conf.procs => pc[q] = "start"
                           /\ q \in conf.procs => Linked(q)
  BY <1>1 DEF LatestInv, Linked
<1>4. CASE MoveAway
  <2>1. UNCHANGED <<results, latest, latestTmp, pc, dir>>
    BY <1>4 DEF MoveAway, procVars
  <2>2. Existing' = Existing
    BY <1>2, <2>1 DEF Existing
  <2>3. QED
    BY <1>3, <2>1, <2>2 DEF Linked
<1>5. ASSUME NEW p \in Instances, p \in conf.procs, Step(p), NEW q \in Instances
      PROVE  /\ q \notin conf.procs => pc'[q] = "start"
             /\ q \in conf.procs => Linked(q)'
  <2>1. ASSUME q \notin conf.procs PROVE pc'[q] = "start"
    BY <1>1, <1>2, <1>3, <1>5, <2>1, Others
  <2>2. ASSUME q \in conf.procs PROVE Linked(q)'
    <3>1. q = p /\ ~conf.faults
      BY <1>5, <2>2 DEF Alone
    <3>2. QED
      BY <1>2, <1>3, <1>5, <3>1, LinkedStep
  <2>3. QED
    BY <2>1, <2>2
<1>6. QED
  BY <1>4, <1>5, NextFacts

-----------------------------------------------------------------------------
(* The theorems.                                                           *)

\* The invariant holds of an empty file system.
LEMMA InitInv ==
    ASSUME Init
    PROVE  ResultsInv
<1>1. /\ conf \in Confs /\ conf.tests \in Nat /\ conf.tests >= 1
      /\ results = [t \in Times |-> Empty] /\ files = Empty
      /\ \A p \in Instances : pc[p] = "start"
  BY ConfFacts DEF Init
<1>2. /\ Empty \in Dirs /\ OfItsKind(Empty, disk) /\ Index \in Names
      /\ \A n \in Names : View(Empty, disk)[n] = Free
  BY <1>1, EmptyDir
<1>3. TypeOK
  <2>1. 1 \in 1 .. (conf.tests + 1)
    BY <1>1
  <2>2. NoStat \in [new : SUBSET Names, linked : SUBSET Names, removed : SUBSET Names]
    BY DEF NoStat
  <2>3. files \in Dirs /\ results \in [Times -> Dirs]
    BY <1>1, <1>2
  <2>4. disk \in [Inodes -> Contents \cup {Free}]
    BY DEF Init
  <2>5. QED
    BY <2>1, <2>2, <2>3, <2>4 DEF Init, TypeOK
<1>4. OneWriter /\ RunInv
  BY <1>1 DEF OneWriter, RunInv, Holding
<1>5. FileInv
  <2>1. \A p \in Instances : test[p] = 1 /\ stat[p] = NoStat
    BY DEF Init
  <2>2. QED
    BY <1>1, <1>2, <2>1 DEF FileInv, Holding
<1>6. Sound(View(Empty, disk))
  <2>1. ASSUME NEW t \in Tests \ Unsaved PROVE SoundAt(View(Empty, disk), t)
    <3>1. \A k \in {"data", "file", "gz", "out"} : <<t, k>> \in Names
      BY <1>1, NameFacts
    <3>2. \A k \in {"data", "file", "gz", "out"} : View(Empty, disk)[<<t, k>>] = Free
      BY <1>2, <3>1
    <3>3. QED
      BY <3>2 DEF SoundAt
  <2>2. QED
    BY <2>1, SoundAll
<1>7. SoundInv
  BY <1>1, <1>6 DEF SoundInv
<1>8. IndexInv
  BY <1>1, <1>2 DEF IndexInv, IndexComplete
<1>9. EndInv
  BY <1>1 DEF EndInv, Init
<1>10. LatestInv
  <2>1. Existing = {}
    BY <1>1 DEF Existing
  <2>2. latest = 0 /\ latestTmp = 0
    BY DEF Init
  <2>3. QED
    BY <1>1, <2>1, <2>2 DEF LatestInv
<1>11. QED
  BY <1>3, <1>4, <1>5, <1>7, <1>8, <1>9, <1>10 DEF ResultsInv

\* A step that changes nothing keeps the invariant.
LEMMA StutterInv ==
    ASSUME ResultsInv, UNCHANGED vars
    PROVE  ResultsInv'
<1>1. /\ UNCHANGED <<conf, root, work, files, results, disk, latest, latestTmp, now, pc, cmd,
                     info, stat, test, dir, seen, ran, err>>
  BY DEF vars, fsVars, procVars
<1>2. /\ Times' = Times /\ Tests' = Tests /\ Unsaved' = Unsaved /\ Names' = Names
      /\ Inodes' = Inodes /\ Empty' = Empty /\ Dirs' = Dirs /\ Contents' = Contents
      /\ Checked' = Checked /\ Alone' = Alone /\ Existing' = Existing
  BY <1>1, SameConf DEF Existing
<1>3. TypeOK'
  BY <1>1, <1>2 DEF ResultsInv, TypeOK
<1>4. OneWriter'
  BY <1>1 DEF ResultsInv, OneWriter, Holding
<1>5. FileInv'
  <2>1. OfItsKind(files, disk)' /\ \A t \in Times : OfItsKind(results[t], disk)'
    BY <1>1, Primed DEF ResultsInv, FileInv
  <2>2. QED
    BY <1>1, <1>2, <2>1 DEF ResultsInv, FileInv, Holding, Paths, NoStat, Index
<1>6. RunInv'
  <2>1. \A t : GoodData(View(files, disk), t)' <=> GoodData(View(files, disk), t)
    BY <1>1, Primed
  <2>2. QED
    BY <1>1, <1>2, <2>1 DEF ResultsInv, RunInv, Holding
<1>7. SoundInv'
  <2>1. /\ Sound(View(files, disk))' <=> Sound(View(files, disk))
        /\ \A t : Sound(View(results[t], disk))' <=> Sound(View(results[t], disk))
    BY <1>1, Primed
  <2>2. (Checked => Sound(View(files, disk)) /\ \A t \in Times : Sound(View(results[t], disk)))'
    BY <1>2, <2>1 DEF ResultsInv, SoundInv, Checked
  <2>3. QED
    BY <2>2 DEF SoundInv, Checked
<1>8. IndexInv'
  <2>1. /\ IndexComplete(View(files, disk))' <=> IndexComplete(View(files, disk))
        /\ \A t : IndexComplete(View(results[t], disk))' <=> IndexComplete(View(results[t], disk))
    BY <1>1, Primed
  <2>2. QED
    BY <1>1, <1>2, <2>1 DEF ResultsInv, IndexInv
<1>9. EndInv'
  BY <1>1, <1>2 DEF ResultsInv, EndInv, Holding
<1>10. LatestInv'
  BY <1>1, <1>2 DEF ResultsInv, LatestInv
<1>11. QED
  BY <1>3, <1>4, <1>5, <1>6, <1>7, <1>8, <1>9, <1>10 DEF ResultsInv

\* The inductive invariant, of any number of antler processes that run, fail and
\* are killed over one root directory.
THEOREM ResultsCorrect == Spec => []ResultsInv
<1>1. Init => ResultsInv
  BY InitInv
<1>2. ResultsInv /\ [Next]_vars => ResultsInv'
  <2>1. ASSUME ResultsInv, Next PROVE ResultsInv'
    BY <2>1, TypeStep, OneWriterStep, FileStep, RunStep, SoundStep, IndexStep, EndStep, LatestStep
       DEF ResultsInv
  <2>2. QED
    BY <2>1, StutterInv
<1>3. QED
  BY <1>1, <1>2, PTL DEF Spec

\* WorkDir is a lock: Mkdir lets one process in at a time, whoever else starts,
\* fails or is killed meanwhile.
THEOREM OneWriterAlways == Spec => []OneWriter
<1>1. ResultsInv => OneWriter
  BY DEF ResultsInv
<1>2. QED
  BY <1>1, ResultsCorrect, PTL

\* A run without Filter that is about to rename its work directory, and has had no
\* error, has data without errors of every Test that saves data.
THEOREM ErrorsReRunAlways == Spec => []ErrorsReRun
<1>1. ResultsInv => ErrorsReRun
  <2> SUFFICES ASSUME ResultsInv, NEW p \in Instances, pc[p] = "rename", cmd[p] = "run", ~err[p],
                      NEW t \in Tests \ Unsaved
               PROVE  files[<<t, "data">>] # NoFile /\ ~DataHasError(Work(p), t)
    BY DEF ErrorsReRun
  <2>1. TypeOK /\ FileInv /\ RunInv /\ conf \in Confs
    BY DEF ResultsInv, TypeOK
  <2>2. test[p] > conf.tests
    BY <2>1 DEF RunInv
  <2>3. t < test[p]
    <3>1. conf.tests \in Nat /\ test[p] \in Nat /\ t \in Nat /\ t <= conf.tests
      BY <2>1, ConfFacts DEF Tests, TypeOK
    <3>2. QED
      BY <2>2, <3>1
  <2>4. GoodData(View(files, disk), t)
    BY <2>1, <2>3 DEF RunInv, Holding
  <2>5. <<t, "data">> \in Names
    BY <2>1, NameFacts
  <2>6. files[<<t, "data">>] # NoFile /\ ~disk[files[<<t, "data">>]].err
    BY <2>4, <2>5 DEF GoodData, View
  <2>7. QED
    BY <2>6 DEF DataHasError, Work
<1>2. QED
  BY <1>1, ResultsCorrect, PTL

\* Every result directory is coherent and completely indexed.
THEOREM ResultsCoherentAlways == Spec => []ResultsCoherent
<1>1. ResultsInv => ResultsCoherent
  BY DEF ResultsInv, SoundInv, Sound, IndexInv, ResultsCoherent, Existing
<1>2. QED
  BY <1>1, ResultsCorrect, PTL

\* No command that ends well leaves the lock behind, and the latest symlink links
\* to the latest result.
THEOREM EndsCleanAlways == Spec => []EndsClean
<1>1. ResultsInv => EndsClean
  <2> SUFFICES ASSUME ResultsInv, ~conf.sameSecond
               PROVE  /\ (\A p \in Instances : pc[p] = "start" /\ ~err[p]) => ~work
                      /\ Alone /\ (\A p \in Instances : pc[p] \notin {"symlink", "relink"}) =>
                            latest = IF Existing = {} THEN 0 ELSE Max(Existing)
    BY DEF EndsClean
  <2>1. (\A p \in Instances : pc[p] = "start" /\ ~err[p]) => ~work
    BY DEF ResultsInv, EndInv, Holding
  <2>2. ASSUME Alone, \A p \in Instances : pc[p] \notin {"symlink", "relink"}
        PROVE  latest = IF Existing = {} THEN 0 ELSE Max(Existing)
    <3>1. PICK p \in Instances : conf.procs = {p}
      BY <2>2 DEF Alone
    <3>2. QED
      BY <2>2, <3>1 DEF ResultsInv, LatestInv
  <2>3. QED
    BY <2>1, <2>2
<1>2. QED
  BY <1>1, ResultsCorrect, PTL

\* No step of any process changes a result directory that is there, or what the
\* inodes hold that it links to and later results share.
THEOREM NonDestructiveAlways == Spec => NonDestructive
<1> DEFINE Keep == \A t \in Existing :
                      /\ results'[t] = results[t]
                      /\ \A n \in Names : results[t][n] # NoFile =>
                            disk'[results[t][n]] = disk[results[t][n]]
<1>1. ResultsInv /\ [Next]_vars => [Keep]_vars
  <2> SUFFICES ASSUME ResultsInv, Next PROVE Keep
    OBVIOUS
  <2>1. \A t \in Times, n \in Names : results[t][n] # NoFile =>
           disk'[results[t][n]] = disk[results[t][n]]
    BY ResultSteps
  <2>2. \A t \in Existing : t \in Times /\ results'[t] = results[t]
    BY ResultSteps DEF Existing, Kept, Made
  <2>3. QED
    BY <2>1, <2>2
<1>2. Spec => [][Keep]_vars
  BY <1>1, ResultsCorrect, PTL DEF Spec
<1>3. QED
  BY <1>2 DEF NonDestructive
=============================================================================
