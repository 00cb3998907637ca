---------------------------- MODULE LaunchProofs -----------------------------
(***************************************************************************)
(* Proofs of the safety properties of Launch, for any nodes and platforms, *)
(* and any tests: whoever extracts which platform, and whatever crashes.   *)
(***************************************************************************)
EXTENDS Launch, FiniteSetTheorems, SequenceTheorems, TLAPS

Labels == {"none", "netns", "start", "up", "down", "abort", "close", "failed", "ended"}

\* What a test says of a node.
LEMMA PlanFacts ==
    ASSUME plan \in Plans
    PROVE  /\ DOMAIN plan \subseteq Nodes /\ Antler \notin Nodes /\ IsFiniteSet(Nodes)
           /\ \A m \in DOMAIN plan :
                 /\ plan[m].by \in DOMAIN plan \cup {Antler} /\ plan[m].by \in Procs
                 /\ plan[m].by # m /\ plan[m].platform \in Platforms /\ plan[m].netns \in BOOLEAN
BY LaunchAssumption DEF Procs

\* The nodes that n launches, and the nodes below those, are below n.
LEMMA BelowFacts ==
    ASSUME NEW n, NEW k \in By(n)
    PROVE  /\ k \in Below(n) /\ Below(k) \subseteq Below(n)
           /\ {plan[k].platform} \cup PlatformsBelow(k) \subseteq PlatformsBelow(n)
<1>1. k \in DOMAIN plan
  BY DEF By
<1>2. k \in Below(n)
  BY <1>1 DEF Below
<1>3. ASSUME NEW i \in Below(k) PROVE i \in Below(n)
  <2>1. i \in DOMAIN plan
    BY <1>3 DEF Below
  <2>2. ASSUME NEW S \in SUBSET DOMAIN plan, By(n) \subseteq S, \A j \in S : By(j) \subseteq S
        PROVE  i \in S
    <3>1. By(k) \subseteq S
      BY <2>2
    <3>2. QED
      BY <1>3, <2>2, <3>1 DEF Below
  <2>3. QED
    BY <2>1, <2>2 DEF Below
<1>4. {plan[k].platform} \cup PlatformsBelow(k) \subseteq PlatformsBelow(n)
  BY <1>2, <1>3 DEF PlatformsBelow
<1>5. QED
  BY <1>2, <1>3, <1>4

\* What k launches is below n if k is.
LEMMA BelowTrans ==
    ASSUME NEW n, NEW k \in Below(n)
    PROVE  By(k) \subseteq Below(n)
<1>1. ASSUME NEW i \in By(k) PROVE i \in Below(n)
  <2>1. i \in DOMAIN plan
    BY <1>1 DEF By
  <2>2. ASSUME NEW S \in SUBSET DOMAIN plan, By(n) \subseteq S, \A j \in S : By(j) \subseteq S
        PROVE  i \in S
    <3>1. k \in S
      BY <2>2 DEF Below
    <3>2. QED
      BY <1>1, <2>2, <3>1
  <2>3. QED
    BY <2>1, <2>2 DEF Below
<1>2. QED
  BY <1>1

\* The launcher of a node that has no crashed node above it has none either,
\* and has not crashed itself.
LEMMA RootedUp ==
    ASSUME NEW m \in DOMAIN plan, Rooted(m)
    PROVE  plan[m].by \notin crashed /\ Rooted(plan[m].by)
<1>1. m \in By(plan[m].by)
  BY DEF By
<1>2. plan[m].by \notin crashed
  BY <1>1, BelowFacts DEF Rooted
<1>3. ASSUME NEW c \in crashed PROVE plan[m].by \notin Below(c)
  BY <1>1, <1>3, BelowTrans DEF Rooted
<1>4. QED
  BY <1>2, <1>3 DEF Rooted

\* The processes that run.
LEMMA AliveFacts ==
    ASSUME Antler \notin Nodes
    PROVE  /\ Antler \in Alive /\ Alive \subseteq Procs
           /\ \A m \in Nodes : m \in Alive <=> pc[m] = "up"
BY DEF Alive, Procs

\* The launches that use an executable are finitely many.
LEMMA UsersFinite ==
    ASSUME plan \in Plans, NEW p, NEW x
    PROVE  IsFiniteSet(Users(p, x)) /\ Cardinality(Users(p, x)) \in Nat
<1>1. Users(p, x) \subseteq Nodes
  BY DEF Users, Holders
<1>2. IsFiniteSet(Nodes)
  BY LaunchAssumption
<1>3. QED
  BY <1>1, <1>2, FS_Subset, FS_CardinalityType

\* A platform that is not shared has one extractor.
LEMMA OneExtractor ==
    ASSUME Shared(plan) \subseteq shared, NEW x \in Platforms, x \notin shared,
           NEW p \in Extractors(plan, x), NEW q \in Extractors(plan, x)
    PROVE  p = q
<1>1. x \notin Shared(plan)
  OBVIOUS
<1> HIDE DEF Extractors
<1>2. QED
  BY <1>1 DEF Shared

\* A process that has an executable for others has launches that use it, and is
\* an extractor of it.
LEMMA KeyHasUser ==
    ASSUME plan \in Plans, RefInv, NEW p \in Procs, NEW x \in Platforms,
           x \in key[p], x \notin shared, Foreign(plan, p, x)
    PROVE  \E k \in By(p) \cap Holders : plan[k].platform = x /\ p \in Extractors(plan, x)
<1>1. Own(p, x) = 0
  <2>1. Antler \notin Nodes
    BY LaunchAssumption
  <2>2. QED
    BY <2>1 DEF Own, Foreign
<1>2. ref[p][x] > 0 /\ ref[p][x] = Cardinality(Users(p, x)) + Own(p, x)
  BY DEF RefInv
<1>3. Users(p, x) # {}
  <2>1. ASSUME Users(p, x) = {} PROVE FALSE
    <3>1. Cardinality(Users(p, x)) = 0
      BY <2>1, FS_EmptySet
    <3>2. QED
      BY <1>1, <1>2, <3>1
  <2>2. QED
    BY <2>1
<1>4. PICK k \in By(p) \cap Holders : plan[k].platform = x
  BY <1>3 DEF Users
<1>5. k \in DOMAIN plan /\ plan[k].by = p
  BY <1>4 DEF By
<1>6. p \in Extractors(plan, x)
  BY <1>4, <1>5 DEF Extractors
<1>7. QED
  BY <1>4, <1>6

-----------------------------------------------------------------------------
(* Steps that keep the launches and processes as they are.                 *)

\* They keep what depends on those only.
LEMMA SameLaunches ==
    ASSUME TreeInv, RefInv, SrcInv,
           UNCHANGED <<plan, key, ref, src, crashed, shared>>,
           Holders' = Holders, Alive' = Alive, setup' \subseteq setup,
           \A j \in crashed : pc'[j] \notin {"none", "netns", "start", "up"}
    PROVE  TreeInv' /\ RefInv' /\ SrcInv'
<1>1. TreeInv'
  BY DEF TreeInv
<1>2. ASSUME NEW p, NEW x PROVE Users(p, x)' = Users(p, x) /\ Own(p, x)' = Own(p, x)
  BY DEF Users, Own, By
<1>3. RefInv'
  BY <1>2 DEF RefInv
<1>4. ASSUME NEW m \in Nodes PROVE PlatformsBelow(m)' = PlatformsBelow(m)
  BY DEF PlatformsBelow, Below, By
<1>5. SrcInv'
  BY <1>4 DEF SrcInv
<1>6. QED
  BY <1>1, <1>3, <1>5

\* The files are left alone too.
LEMMA SameFiles ==
    ASSUME LaunchInv, UNCHANGED <<plan, key, ref, src, tmpDir, disk, exec, left, crashed, shared, untidy>>,
           Holders' = Holders, Alive' = Alive, setup' \subseteq setup, TypeOK', StackInv',
           \A j \in crashed : pc'[j] \notin {"none", "netns", "start", "up"}
    PROVE  LaunchInv'
<1>1. TypeOK /\ TreeInv /\ RefInv /\ DirInv /\ SrcInv
  BY DEF LaunchInv
<1>2. TreeInv' /\ RefInv' /\ SrcInv'
  BY <1>1, SameLaunches
<1>3. Antler \notin Nodes
  BY LaunchAssumption
<1>4. \A j \in Nodes : pc'[j] = "up" <=> pc[j] = "up"
  BY <1>3 DEF Alive
<1>5. exec \subseteq Nodes /\ Holders \subseteq Nodes
  BY <1>1 DEF TypeOK, Holders
<1>6. ASSUME NEW j PROVE Rooted(j)' <=> Rooted(j)
  BY DEF Rooted, Below, By
<1>7. DirInv'
  BY <1>1, <1>4, <1>5, <1>6 DEF DirInv
<1>8. QED
  BY <1>2, <1>7 DEF LaunchInv

\* A launch goes from l to k, neither of which is "up".
LEMMA SameAlive ==
    ASSUME pc \in [Nodes -> Labels], NEW m \in Nodes, NEW k \in Labels,
           pc' = [pc EXCEPT ![m] = k], pc[m] # "up", k # "up"
    PROVE  /\ pc' \in [Nodes -> Labels] /\ pc'[m] = k
           /\ \A j \in Nodes : j # m => pc'[j] = pc[j]
           /\ Alive' = Alive
<1>1. /\ pc' \in [Nodes -> Labels] /\ pc'[m] = k
      /\ \A j \in Nodes : j # m => pc'[j] = pc[j]
  OBVIOUS
<1>2. \A j \in Nodes : pc'[j] = "up" <=> pc[j] = "up"
  BY <1>1
<1>3. Alive' = Alive
  BY <1>2 DEF Alive
<1>4. QED
  BY <1>1, <1>3

\* Nodes that crashed take no further part.
LEMMA CrashedStay ==
    ASSUME TypeOK, TreeInv, NEW m \in Nodes,
           \A j \in Nodes : j # m => pc'[j] = pc[j],
           m \notin crashed \/ pc'[m] \notin {"none", "netns", "start", "up"}
    PROVE  \A j \in crashed : pc'[j] \notin {"none", "netns", "start", "up"}
BY DEF TreeInv, TypeOK

\* An extraction fails.
LEMMA LaunchFailsStep ==
    ASSUME LaunchInv, NEW m \in Nodes, LaunchFails(m)
    PROVE  LaunchInv'
<1> DEFINE P == plan[m].by
           X == plan[m].platform
<1>1. TypeOK /\ StackInv /\ TreeInv /\ RefInv /\ DirInv /\ SrcInv
  BY DEF LaunchInv
<1>2. pc \in [Nodes -> Labels] /\ pc[m] = "none" /\ pc' = [pc EXCEPT ![m] = "failed"]
      /\ plan \in Plans /\ m \in DOMAIN plan /\ P \in setup /\ P \in Alive
  BY <1>1 DEF TypeOK, Labels, LaunchFails, Launches, DirInv
<1>3. /\ pc' \in [Nodes -> Labels] /\ pc'[m] = "failed"
      /\ \A j \in Nodes : j # m => pc'[j] = pc[j]
      /\ Alive' = Alive
  BY <1>2, SameAlive DEF Labels
<1>4. /\ UNCHANGED <<plan, stack, key, ref, src, exec, netns, crashed, stale, shared>>
      /\ untidy' = TRUE /\ setup' = setup \ {P}
  BY DEF LaunchFails, SetupFails
<1>5. X \in Platforms /\ Antler \notin Nodes /\ Alive \subseteq Procs /\ P \in Procs
      /\ Antler \in Alive
  BY <1>2, PlanFacts, AliveFacts
<1>6. /\ tmpDir \subseteq tmpDir' /\ tmpDir' \subseteq Alive
      /\ disk \subseteq disk' /\ disk' \subseteq disk \cup {X}
      /\ left \subseteq left' /\ left' \subseteq left \cup {X}
      /\ \A x \in disk' \ disk : x \in left'
      /\ tmpDir' # {} \/ disk' # {} => Antler \in tmpDir'
  <2>1. CASE tmpDir' \in {tmpDir, MadeDir(P)} /\ UNCHANGED <<disk, left>>
    BY <1>1, <1>2, <1>5, <2>1 DEF MadeDir, DirInv
  <2>2. CASE /\ CanWrite(P, X) /\ tmpDir' = MadeDir(P)
             /\ disk' = disk \cup {X} /\ left' = left \cup {X}
    BY <1>1, <1>2, <1>5, <2>2 DEF CanWrite, MadeDir, DirInv
  <2>3. QED
    BY <2>1, <2>2 DEF LaunchFails
<1>7. TypeOK'
  BY <1>1, <1>3, <1>4, <1>5, <1>6 DEF TypeOK, Labels
<1>8. StackInv'
  BY <1>1, <1>2, <1>3, <1>4 DEF StackInv, Resting
<1>9. Holders' = Holders
  BY <1>4 DEF Holders
<1>10. \A j \in Nodes : pc'[j] = "up" <=> pc[j] = "up"
  BY <1>2, <1>3
<1>11. ASSUME NEW j PROVE Rooted(j)' <=> Rooted(j)
  BY <1>4 DEF Rooted, Below, By
<1>12. exec \subseteq Nodes /\ Holders \subseteq Nodes
  BY <1>1 DEF TypeOK, Holders
<1>13. DirInv'
  <2>1. ASSUME NEW x \in Platforms \ shared
        PROVE  /\ \A p \in Procs : x \in key[p] /\ Foreign(plan, p, x) => x \in disk' /\ p \in tmpDir'
               /\ x \in disk' => x \in left' \/ \E p \in Procs : x \in key[p] /\ Foreign(plan, p, x)
    BY <1>1, <1>6 DEF DirInv
  <2>2. \A j \in exec : pc'[j] = "up" /\ plan[j].platform \in disk' /\ j \in tmpDir'
    BY <1>1, <1>6, <1>10, <1>12 DEF DirInv
  <2>3. \A j \in Holders : Rooted(j) /\ plan[j].platform \notin shared =>
          /\ plan[j].platform \in disk' /\ plan[j].by \in tmpDir'
          /\ pc'[j] = "up" => j \in exec
    BY <1>1, <1>6, <1>10, <1>12 DEF DirInv
  <2>4. Shared(plan) \subseteq shared /\ setup' \subseteq Alive
    BY <1>1, <1>4 DEF DirInv
  <2>5. QED
    BY <1>3, <1>4, <1>6, <1>9, <1>11, <2>1, <2>2, <2>3, <2>4 DEF DirInv
<1>14. \A j \in crashed : pc'[j] \notin {"none", "netns", "start", "up"}
  BY <1>1, <1>3, CrashedStay
<1>15. TreeInv' /\ RefInv' /\ SrcInv'
  BY <1>1, <1>3, <1>4, <1>9, <1>14, SameLaunches
<1>16. QED
  BY <1>7, <1>8, <1>13, <1>15 DEF LaunchInv

-----------------------------------------------------------------------------
(* The closer stack.                                                       *)

\* The stack with the closer of a namespace pushed,
LEMMA PushNetns == Append(<<"exe">>, "netns") = <<"exe", "netns">>
<1> DEFINE a == <<"exe">>
           b == <<"exe", "netns">>
           S == {"exe", "netns"}
           c == Append(a, "netns")
<1>1. a \in Seq(S) /\ b \in Seq(S) /\ Len(a) = 1 /\ Len(b) = 2 /\ a[1] = "exe" /\ b[1] = "exe" /\ b[2] = "netns"
  OBVIOUS
<1> HIDE DEF a, b
<1>2. c \in Seq(S) /\ Len(c) = 2 /\ c[1] = "exe" /\ c[2] = "netns"
  <2>1. "netns" \in S /\ Len(a) + 1 = 2
    BY <1>1
  <2>2. c \in Seq(S) /\ Len(c) = Len(a) + 1 /\ (\A i \in 1 .. Len(a) : c[i] = a[i]) /\ c[Len(a) + 1] = "netns"
    BY <1>1, <2>1, AppendProperties, ZenonT(40)
  <2>3. QED
    BY <1>1, <2>1, <2>2
<1> HIDE DEF c
<1>3. \A i \in 1 .. Len(c) : c[i] = b[i]
  BY <1>1, <1>2
<1>4. c = b
  BY <1>1, <1>2, <1>3, SeqEqual
<1>5. QED
  BY <1>4 DEF a, b, c

\* and popped.
LEMMA PopNetns == SubSeq(<<"exe", "netns">>, 1, Len(<<"exe", "netns">>) - 1) = <<"exe">>
<1> DEFINE a == <<"exe">>
           b == <<"exe", "netns">>
           S == {"exe", "netns"}
           c == SubSeq(b, 1, Len(b) - 1)
<1>1. a \in Seq(S) /\ b \in Seq(S) /\ Len(a) = 1 /\ Len(b) = 2 /\ a[1] = "exe" /\ b[1] = "exe" /\ b[2] = "netns"
  OBVIOUS
<1> HIDE DEF a, b
<1>2. c \in Seq(S) /\ Len(c) = 1 /\ c[1] = "exe"
  BY <1>1
<1> HIDE DEF c
<1>3. \A i \in 1 .. Len(c) : c[i] = a[i]
  BY <1>1, <1>2
<1>4. c = a
  BY <1>1, <1>2, <1>3, SeqEqual
<1>5. QED
  BY <1>4 DEF a, b, c

\* The stacks that there are.
LEMMA StackFacts ==
    /\ <<"exe", "netns">> # <<>> /\ <<"exe">> # <<>> /\ <<"exe", "netns">> # <<"exe">>
    /\ {<<>>, <<"exe">>, <<"exe", "netns">>} \subseteq Seq({"exe", "netns"})
    /\ <<"exe", "netns">>[Len(<<"exe", "netns">>)] = "netns" /\ <<"exe">>[Len(<<"exe">>)] = "exe"
    /\ SubSeq(<<"exe">>, 1, Len(<<"exe">>) - 1) = <<>>
<1>1. Len(<<"exe", "netns">>) = 2 /\ Len(<<"exe">>) = 1
  OBVIOUS
<1>2. <<"exe", "netns">> # <<>> /\ <<"exe">> # <<>>
  OBVIOUS
<1>3. <<"exe", "netns">> # <<"exe">>
  BY <1>1
<1>4. {<<>>, <<"exe">>, <<"exe", "netns">>} \subseteq Seq({"exe", "netns"})
  OBVIOUS
<1>5. <<"exe", "netns">>[Len(<<"exe", "netns">>)] = "netns" /\ <<"exe">>[Len(<<"exe">>)] = "exe"
  OBVIOUS
<1>6. SubSeq(<<"exe">>, 1, Len(<<"exe">>) - 1) = <<>>
  OBVIOUS
<1>7. QED
  BY <1>2, <1>3, <1>4, <1>5, <1>6

\* StackInv for one node: its stack s, its pc l, whether it has a namespace to
\* create, is in the test, has a namespace and a stale one, and a crashed launcher.
Stacked(s, l, ns, planned, has, old, orphan) ==
    /\ s \in {<<>>, <<"exe">>, <<"exe", "netns">>}
    /\ l # "none" => planned
    /\ l \in Resting => s = <<>>
    /\ l = "netns" => s = <<"exe">>
    /\ l \in {"start", "up", "down"} =>
          \/ s = IF ns THEN <<"exe", "netns">> ELSE <<"exe">>
          \/ l = "up" /\ orphan /\ s = <<>>
    /\ s = <<"exe", "netns">> => has
    /\ l = "up" /\ ns => has
    /\ has => s = <<"exe", "netns">> \/ old
StackedAt(m) ==
    Stacked(stack[m], pc[m], plan[m].netns, m \in DOMAIN plan, m \in netns, m \in stale,
            plan[m].by \in crashed)

\* A step of one node keeps StackInv if it does so for that one.
LEMMA StackStep ==
    ASSUME StackInv, NEW m \in Nodes, UNCHANGED plan, StackedAt(m)', crashed \subseteq crashed',
           \A j \in Nodes : j # m => /\ stack'[j] = stack[j] /\ pc'[j] = pc[j]
                                     /\ j \in netns' <=> j \in netns
                                     /\ j \in stale' <=> j \in stale
    PROVE  StackInv'
<1>1. ASSUME NEW j \in Nodes, j # m PROVE StackedAt(j)'
  BY <1>1 DEF StackInv, StackedAt, Stacked
<1>2. ASSUME NEW j \in Nodes PROVE StackedAt(j)'
  BY <1>1
<1>3. QED
  BY <1>2 DEF StackInv, StackedAt, Stacked

\* A namespace is added, or not.
LEMMA AddNetnsStep ==
    ASSUME LaunchInv, NEW m \in Nodes, AddNetns(m)
    PROVE  LaunchInv'
<1>1. TypeOK /\ StackInv /\ TreeInv
  BY DEF LaunchInv
<1>2. /\ UNCHANGED <<plan, src, key, ref, tmpDir, disk, exec, left, crashed, stale, shared, untidy>>
      /\ pc[m] = "netns" /\ stack[m] = <<"exe">> /\ m \in DOMAIN plan
      /\ (m \in netns => m \in stale) /\ m \notin crashed
  BY <1>1, StackFacts DEF AddNetns, repoVars, StackInv, TreeInv
<1>3. PICK k \in {"start", "abort"} :
         /\ pc' = [pc EXCEPT ![m] = k] /\ setup' \subseteq setup
         /\ \/ UNCHANGED <<stack, netns>> /\ (k = "start" => ~plan[m].netns)
            \/ /\ plan[m].netns /\ netns' = netns \cup {m} /\ k = "start"
               /\ stack' = [stack EXCEPT ![m] = Append(@, "netns")]
  BY DEF AddNetns, SetupFails
<1>4. /\ pc' \in [Nodes -> Labels] /\ pc'[m] = k
      /\ \A j \in Nodes : j # m => pc'[j] = pc[j]
      /\ Alive' = Alive
  BY <1>1, <1>2, <1>3, SameAlive DEF TypeOK, Labels
<1>5. k \notin Resting /\ k # "none" /\ k # "netns" /\ k \notin {"up", "down"}
  BY <1>3 DEF Resting
<1>6. \A j \in crashed : pc'[j] \notin {"none", "netns", "start", "up"}
  BY <1>1, <1>2, <1>4, CrashedStay
<1>7. setup' \in SUBSET Procs
  BY <1>1, <1>3 DEF TypeOK
<1>8. CASE UNCHANGED <<stack, netns>> /\ (k = "start" => ~plan[m].netns)
  <2>1. TypeOK'
    BY <1>1, <1>2, <1>4, <1>7, <1>8 DEF TypeOK, Labels
  <2>2. Stacked(stack[m], k, plan[m].netns, m \in DOMAIN plan, m \in netns, m \in stale,
                plan[m].by \in crashed)
    BY <1>2, <1>5, <1>8, StackFacts DEF Stacked
  <2>3. StackInv'
    BY <1>1, <1>2, <1>4, <1>8, <2>2, StackStep DEF StackedAt
  <2>4. Holders' = Holders
    BY <1>8 DEF Holders
  <2>5. QED
    BY <1>2, <1>3, <1>4, <1>6, <2>1, <2>3, <2>4, SameFiles
<1>9. CASE /\ plan[m].netns /\ netns' = netns \cup {m} /\ k = "start"
           /\ stack' = [stack EXCEPT ![m] = Append(@, "netns")]
  <2>1. stack' = [stack EXCEPT ![m] = <<"exe", "netns">>]
    BY <1>2, <1>9, PushNetns
  <2>2. /\ stack' \in [Nodes -> Seq({"exe", "netns"})] /\ stack'[m] = <<"exe", "netns">>
        /\ \A j \in Nodes : j # m => stack'[j] = stack[j]
    BY <1>1, <2>1, StackFacts DEF TypeOK
  <2>3. TypeOK'
    BY <1>1, <1>2, <1>4, <1>7, <1>9, <2>2 DEF TypeOK, Labels
  <2>4. Stacked(<<"exe", "netns">>, k, plan[m].netns, m \in DOMAIN plan, m \in netns', m \in stale,
                plan[m].by \in crashed)
    BY <1>2, <1>5, <1>9, StackFacts DEF Stacked
  <2>5. StackInv'
    BY <1>1, <1>2, <1>4, <1>9, <2>2, <2>4, StackStep DEF StackedAt
  <2>6. Holders' = Holders
    BY <1>2, <2>2, StackFacts DEF Holders
  <2>7. QED
    BY <1>2, <1>3, <1>4, <1>6, <2>3, <2>5, <2>6, SameFiles
<1>10. QED
  BY <1>3, <1>8, <1>9

\* The process is waited for; the closers are done.
LEMMA WaitStep ==
    ASSUME LaunchInv, NEW m \in Nodes, Wait(m) \/ ClosersDone(m)
    PROVE  LaunchInv'
<1>1. TypeOK /\ StackInv /\ TreeInv /\ StackedAt(m)
  BY DEF LaunchInv, StackInv, StackedAt, Stacked
<1>2. /\ UNCHANGED <<plan, stack, setup, src, key, ref, tmpDir, disk, exec, left, netns, crashed,
                    stale, shared, untidy>>
      /\ pc[m] # "up" /\ pc[m] # "none"
  BY DEF Wait, ClosersDone, repoVars
<1>3. PICK k \in {"close", "failed", "ended"} :
         pc' = [pc EXCEPT ![m] = k] /\ (k # "close" => stack[m] = <<>>)
  BY DEF Wait, ClosersDone
<1>4. /\ pc' \in [Nodes -> Labels] /\ pc'[m] = k
      /\ \A j \in Nodes : j # m => pc'[j] = pc[j]
      /\ Alive' = Alive
  BY <1>1, <1>2, <1>3, SameAlive DEF TypeOK, Labels
<1>5. TypeOK'
  BY <1>1, <1>2, <1>4 DEF TypeOK, Labels
<1>6. Stacked(stack[m], k, plan[m].netns, m \in DOMAIN plan, m \in netns, m \in stale,
              plan[m].by \in crashed)
  BY <1>1, <1>2, <1>3 DEF Stacked, StackedAt, Resting
<1>7. StackInv'
  BY <1>1, <1>2, <1>4, <1>6, StackStep DEF StackedAt
<1>8. Holders' = Holders
  BY <1>2 DEF Holders
<1>9. \A j \in crashed : pc'[j] \notin {"none", "netns", "start", "up"}
  BY <1>1, <1>4, CrashedStay
<1>10. QED
  BY <1>2, <1>4, <1>5, <1>7, <1>8, <1>9, SameFiles

\* The closer of a namespace runs.
LEMMA CloserNetnsStep ==
    ASSUME LaunchInv, NEW m \in Nodes, CloserNetns(m)
    PROVE  LaunchInv'
<1>1. TypeOK /\ StackInv /\ TreeInv /\ StackedAt(m)
  BY DEF LaunchInv, StackInv, StackedAt, Stacked
<1>2. /\ UNCHANGED <<plan, pc, setup, src, key, ref, tmpDir, disk, exec, left, crashed, shared, untidy>>
      /\ pc[m] \in {"abort", "close"} /\ stack[m] # <<>>
      /\ stack[m][Len(stack[m])] = "netns"
      /\ stack' = [stack EXCEPT ![m] = SubSeq(stack[m], 1, Len(stack[m]) - 1)]
      /\ \/ netns' = netns \ {m} /\ UNCHANGED stale
         \/ stale' = stale \cup {m} /\ UNCHANGED netns
  BY DEF CloserNetns, repoVars
<1>3. stack[m] = <<"exe", "netns">>
  BY <1>1, <1>2, StackFacts DEF StackedAt, Stacked
<1>4. stack' = [stack EXCEPT ![m] = <<"exe">>]
  BY <1>2, <1>3, PopNetns
<1>5. /\ stack' \in [Nodes -> Seq({"exe", "netns"})] /\ stack'[m] = <<"exe">>
      /\ \A j \in Nodes : j # m => stack'[j] = stack[j]
  BY <1>1, <1>4, StackFacts DEF TypeOK
<1>6. TypeOK'
  BY <1>1, <1>2, <1>5 DEF TypeOK
<1>7. Stacked(<<"exe">>, pc[m], plan[m].netns, m \in DOMAIN plan, m \in netns', m \in stale',
              plan[m].by \in crashed)
  BY <1>1, <1>2, StackFacts DEF Stacked, StackedAt, Resting
<1>8. StackInv'
  BY <1>1, <1>2, <1>5, <1>7, StackStep DEF StackedAt
<1>9. Holders' = Holders
  BY <1>2, <1>5, StackFacts DEF Holders
<1>10. Alive' = Alive
  BY <1>2 DEF Alive
<1>11. \A j \in crashed : pc'[j] \notin {"none", "netns", "start", "up"}
  BY <1>1, <1>2 DEF TreeInv
<1>12. QED
  BY <1>2, <1>6, <1>8, <1>9, <1>10, <1>11, SameFiles

-----------------------------------------------------------------------------
(* Processes that start and end.                                           *)

\* A process that does not run has no launches.
LEMMA NoUsers ==
    ASSUME TreeInv, NEW p, p \notin Alive, NEW x
    PROVE  Users(p, x) = {} /\ Cardinality(Users(p, x)) = 0
<1>1. Users(p, x) = {}
  BY DEF Users, By, TreeInv
<1>2. QED
  BY <1>1, FS_EmptySet

\* A node that does not run has keys of shared platforms only.
LEMMA NoKeys ==
    ASSUME TreeInv, RefInv, NEW m \in Nodes, m \notin Alive, NEW x \in Platforms, x \notin shared
    PROVE  x \notin key[m]
<1>1. Cardinality(Users(m, x)) = 0 /\ Own(m, x) = 0 /\ m \in Procs
  BY NoUsers DEF Own, Procs
<1>2. ref[m][x] = 0
  BY <1>1 DEF RefInv
<1>3. QED
  BY <1>1, <1>2 DEF RefInv

\* The process of m starts, or not.
LEMMA StartCmdStep ==
    ASSUME LaunchInv, NEW m \in Nodes, StartCmd(m)
    PROVE  LaunchInv'
<1> DEFINE P == plan[m].platform
<1>1. TypeOK /\ StackInv /\ TreeInv /\ RefInv /\ DirInv /\ SrcInv /\ StackedAt(m)
  BY DEF LaunchInv, StackInv, StackedAt, Stacked
<1>2. /\ UNCHANGED <<plan, stack, disk, left, netns, crashed, stale, shared, untidy>>
      /\ pc[m] = "start" /\ plan \in Plans /\ pc \in [Nodes -> Labels]
  BY <1>1 DEF StartCmd, TypeOK, Labels
<1>3. Holders' = Holders /\ stack[m] # <<>> /\ m \in Holders /\ m \in DOMAIN plan /\ m \notin crashed
  BY <1>1, <1>2, StackFacts DEF Holders, StackedAt, Stacked, TreeInv
<1>4. /\ plan[m].by \in DOMAIN plan \cup {Antler} /\ plan[m].by # m
      /\ P \in Platforms /\ Antler \notin Nodes /\ DOMAIN plan \subseteq Nodes
      /\ Antler \in Alive /\ Alive \subseteq Procs /\ m \in Procs /\ m # Antler
      /\ \A j \in Nodes : j \in Alive <=> pc[j] = "up"
  BY <1>2, <1>3, PlanFacts, AliveFacts DEF Procs
<1>5. ASSUME NEW k \in {"down", "abort"}, pc' = [pc EXCEPT ![m] = k],
             UNCHANGED <<key, ref, tmpDir, src, exec>>, setup' \subseteq setup
      PROVE  LaunchInv'
  <2>1. /\ pc' \in [Nodes -> Labels] /\ pc'[m] = k
        /\ \A j \in Nodes : j # m => pc'[j] = pc[j]
        /\ Alive' = Alive
    BY <1>2, <1>5, SameAlive DEF Labels
  <2>2. setup' \in SUBSET Procs
    BY <1>1, <1>5 DEF TypeOK
  <2>3. TypeOK'
    BY <1>1, <1>2, <1>5, <2>1, <2>2 DEF TypeOK, Labels
  <2>4. Stacked(stack[m], k, plan[m].netns, m \in DOMAIN plan, m \in netns, m \in stale,
                plan[m].by \in crashed)
    BY <1>1, <1>2, <1>5 DEF Stacked, StackedAt, Resting
  <2>5. StackInv'
    BY <1>1, <1>2, <2>1, <2>4, StackStep DEF StackedAt
  <2>6. \A j \in crashed : pc'[j] \notin {"none", "netns", "start", "up"}
    BY <1>1, <1>3, <2>1, CrashedStay
  <2>7. QED
    BY <1>2, <1>3, <1>5, <2>1, <2>3, <2>5, <2>6, SameFiles
<1>6. CASE /\ P \in disk /\ plan[m].by \in tmpDir
           /\ pc' = [pc EXCEPT ![m] = "up"] /\ init(m) /\ exec' = exec \cup {m}
           /\ \/ /\ src' = [src EXCEPT ![m] = {P} \cup PlatformsBelow(m)]
                 /\ setup' = setup \cup {m}
              \/ src' = src /\ setup' \subseteq setup
  <2>1. /\ pc' \in [Nodes -> Labels] /\ pc'[m] = "up"
        /\ \A j \in Nodes : j # m => pc'[j] = pc[j]
    BY <1>2, <1>6 DEF Labels
  <2>2. Alive' = Alive \cup {m} /\ m \notin Alive
    BY <1>2, <1>4, <2>1 DEF Alive
  <2>3. /\ key' = [key EXCEPT ![m] = {P}]
        /\ ref' = [ref EXCEPT ![m] = [x \in Platforms |-> IF x = P THEN 1 ELSE 0]]
        /\ tmpDir' = tmpDir \cup {m}
    BY <1>6 DEF init
  <2>4. /\ key' \in [Procs -> SUBSET Platforms] /\ key'[m] = {P}
        /\ \A p \in Procs : p # m => key'[p] = key[p]
    BY <1>1, <1>4, <2>3 DEF TypeOK
  <2>5. /\ ref' \in [Procs -> [Platforms -> Nat]]
        /\ \A x \in Platforms : ref'[m][x] = IF x = P THEN 1 ELSE 0
        /\ \A p \in Procs : p # m => ref'[p] = ref[p]
    <3>1. [x \in Platforms |-> IF x = P THEN 1 ELSE 0] \in [Platforms -> Nat]
      OBVIOUS
    <3>2. ref \in [Procs -> [Platforms -> Nat]]
      BY <1>1 DEF TypeOK
    <3>3. QED
      BY <1>4, <2>3, <3>1, <3>2
  <2>6. /\ src' \in [Procs -> SUBSET Platforms]
        /\ m \in setup' => src'[m] = {P} \cup PlatformsBelow(m)
        /\ \A p \in Procs : p # m => src'[p] = src[p]
        /\ setup' \subseteq setup \cup {m}
    <3>1. src \in [Procs -> SUBSET Platforms]
      BY <1>1 DEF TypeOK
    <3>2. PlatformsBelow(m) \subseteq Platforms
      BY <1>2, PlanFacts DEF PlatformsBelow, Below
    <3>3. {P} \cup PlatformsBelow(m) \in SUBSET Platforms
      BY <1>4, <3>2
    <3>4. m \notin setup
      BY <1>1, <2>2 DEF DirInv
    <3>5. CASE /\ src' = [src EXCEPT ![m] = {P} \cup PlatformsBelow(m)]
               /\ setup' = setup \cup {m}
      BY <1>4, <3>1, <3>3, <3>5
    <3>6. CASE src' = src /\ setup' \subseteq setup
      BY <3>1, <3>4, <3>6
    <3>7. QED
      BY <1>6, <3>5, <3>6
  <2>7. TypeOK'
    <3>1. tmpDir' \subseteq Procs /\ setup' \subseteq Procs /\ exec' \subseteq Nodes
      BY <1>1, <1>4, <1>6, <2>3, <2>6 DEF TypeOK
    <3>2. QED
      BY <1>1, <1>2, <2>1, <2>4, <2>5, <2>6, <3>1 DEF TypeOK, Labels
  <2>8. StackInv'
    <3>1. Stacked(stack[m], "up", plan[m].netns, m \in DOMAIN plan, m \in netns, m \in stale,
                  plan[m].by \in crashed)
      BY <1>1, <1>2, StackFacts DEF Stacked, StackedAt, Resting
    <3>2. QED
      BY <1>1, <1>2, <2>1, <3>1, StackStep DEF StackedAt
  <2>9. TreeInv'
    <3>1. \A j \in crashed : j \in DOMAIN plan /\ pc'[j] \notin {"none", "netns", "start", "up"}
      <4>1. crashed \subseteq Nodes
        BY <1>1 DEF TypeOK
      <4>2. QED
        BY <1>1, <1>3, <2>1, <4>1 DEF TreeInv
    <3>2. \A j \in Holders : plan[j].by \in Alive'
      BY <1>1, <2>2 DEF TreeInv
    <3>3. QED
      BY <1>1, <1>2, <1>3, <3>1, <3>2 DEF TreeInv
  <2>10. RefInv'
    <3>1. ASSUME NEW p \in Procs, NEW x \in Platforms
          PROVE  /\ ref'[p][x] = Cardinality(Users(p, x)') + Own(p, x)'
                 /\ ref'[p][x] > 0 => x \in key'[p]
                 /\ x \in key'[p] => ref'[p][x] > 0 \/ x \in shared
      <4>1. Users(p, x)' = Users(p, x)
        BY <1>2, <1>3 DEF Users, By
      <4>2. CASE p = m
        <5>1. Cardinality(Users(p, x)) = 0
          BY <1>1, <2>2, <4>2, NoUsers
        <5>2. Own(p, x)' = IF x = P THEN 1 ELSE 0
          BY <1>2, <2>2, <4>2 DEF Own
        <5>3. QED
          BY <2>4, <2>5, <4>1, <4>2, <5>1, <5>2
      <4>3. CASE p # m
        <5>1. Own(p, x)' = Own(p, x)
          BY <1>2, <2>2, <4>3 DEF Own
        <5>2. QED
          BY <1>1, <2>4, <2>5, <4>1, <4>3, <5>1 DEF RefInv
      <4>4. QED
        BY <4>2, <4>3
    <3>2. QED
      BY <1>2, <3>1 DEF RefInv
  <2>11. DirInv'
    <3>1. tmpDir' \subseteq Alive' /\ setup' \subseteq Alive'
      BY <1>1, <2>2, <2>3, <2>6 DEF DirInv
    <3>2. Antler \in tmpDir'
      BY <1>1, <1>6, <2>3 DEF DirInv
    <3>3. \A j \in exec' : pc'[j] = "up" /\ plan[j].platform \in disk /\ j \in tmpDir'
      <4>1. exec \subseteq Nodes
        BY <1>1 DEF TypeOK
      <4>2. QED
        BY <1>1, <1>6, <2>1, <2>3, <4>1 DEF DirInv
    <3>4. ASSUME NEW x \in Platforms \ shared
          PROVE  /\ \A p \in Procs : x \in key'[p] /\ Foreign(plan, p, x) => x \in disk /\ p \in tmpDir'
                 /\ x \in disk => x \in left \/ \E p \in Procs : x \in key'[p] /\ Foreign(plan, p, x)
      <4>1. ASSUME NEW p \in Procs, x \in key'[p], Foreign(plan, p, x)
            PROVE  x \in disk /\ p \in tmpDir'
        <5>1. p # m
          BY <1>4, <2>4, <4>1 DEF Foreign
        <5>2. QED
          BY <1>1, <2>3, <2>4, <4>1, <5>1 DEF DirInv
      <4>2. ASSUME x \in disk, x \notin left
            PROVE  \E p \in Procs : x \in key'[p] /\ Foreign(plan, p, x)
        <5>1. PICK p \in Procs : x \in key[p] /\ Foreign(plan, p, x)
          BY <1>1, <4>2 DEF DirInv
        <5>2. p # m
          BY <1>1, <2>2, <5>1, NoKeys
        <5>3. QED
          BY <2>4, <5>1, <5>2
      <4>3. QED
        BY <4>1, <4>2
    <3>5. \A j \in Holders : Rooted(j) /\ plan[j].platform \notin shared =>
            /\ plan[j].platform \in disk /\ plan[j].by \in tmpDir'
            /\ pc'[j] = "up" => j \in exec'
      <4>1. ASSUME NEW j \in Holders, Rooted(j), plan[j].platform \notin shared
            PROVE  /\ plan[j].platform \in disk /\ plan[j].by \in tmpDir'
                   /\ pc'[j] = "up" => j \in exec'
        <5>1. plan[j].platform \in disk /\ plan[j].by \in tmpDir /\ (pc[j] = "up" => j \in exec)
          BY <1>1, <4>1 DEF DirInv
        <5>2. j \in Nodes
          BY DEF Holders
        <5>3. QED
          BY <1>6, <2>1, <2>3, <5>1, <5>2
      <4>2. QED
        BY <4>1
    <3>6. ASSUME NEW j PROVE Rooted(j)' <=> Rooted(j)
      BY <1>2 DEF Rooted, Below, By
    <3>7. Shared(plan) \subseteq shared
          /\ (~untidy => /\ crashed = {} /\ left = {}
                         /\ shared = {} /\ tmpDir' # {} => Holders # {})
      BY <1>1, <1>3 DEF DirInv
    <3>8. QED
      BY <1>2, <1>3, <3>1, <3>2, <3>3, <3>4, <3>5, <3>6, <3>7 DEF DirInv
  <2>12. SrcInv'
    <3>1. ASSUME NEW j \in Nodes PROVE PlatformsBelow(j)' = PlatformsBelow(j)
      BY <1>2 DEF PlatformsBelow, Below, By
    <3>2. ASSUME NEW j \in Nodes \cap setup'
          PROVE  {plan[j].platform} \cup PlatformsBelow(j) \subseteq src'[j]
      <4>1. CASE j = m
        BY <2>6, <3>2, <4>1
      <4>2. CASE j # m
        BY <1>1, <2>6, <3>2, <4>2 DEF SrcInv, Procs
      <4>3. QED
        BY <4>1, <4>2
    <3>3. src'[Antler] = Platforms
      BY <1>1, <1>4, <2>6 DEF SrcInv, Procs
    <3>4. QED
      BY <1>2, <3>1, <3>2, <3>3 DEF SrcInv
  <2>13. QED
    BY <2>7, <2>8, <2>9, <2>10, <2>11, <2>12 DEF LaunchInv
<1>7. QED
  <2>1. \/ /\ P \in disk /\ plan[m].by \in tmpDir
           /\ pc' = [pc EXCEPT ![m] = "up"] /\ init(m) /\ exec' = exec \cup {m}
           /\ \/ /\ src' = [src EXCEPT ![m] = {P} \cup PlatformsBelow(m)]
                 /\ setup' = setup \cup {m}
              \/ NoSetup(m)
        \/ /\ pc' = [pc EXCEPT ![m] = "down"]
           /\ NoSetup(m) /\ UNCHANGED <<key, ref, tmpDir, exec>>
        \/ /\ pc' = [pc EXCEPT ![m] = "abort"]
           /\ SetupFails(m) /\ UNCHANGED <<key, ref, tmpDir, src, exec>>
    BY DEF StartCmd
  <2>2. NoSetup(m) => src' = src /\ setup' \subseteq setup
    BY DEF NoSetup, SetupFails
  <2>3. SetupFails(m) => setup' \subseteq setup
    BY DEF SetupFails
  <2> HIDE DEF P
  <2>4. QED
    BY <1>5, <1>6, <2>1, <2>2, <2>3

\* What becomes of the repo of a process that ends.
LEMMA EndedFacts ==
    ASSUME TypeOK, DirInv, NEW m \in Nodes, Ended(m)
    PROVE  /\ key' \in [Procs -> SUBSET Platforms] /\ key'[m] = {}
           /\ \A p \in Procs : p # m => key'[p] = key[p]
           /\ ref' \in [Procs -> [Platforms -> Nat]]
           /\ \A x \in Platforms : ref'[m][x] = 0
           /\ \A p \in Procs : p # m => ref'[p] = ref[p]
           /\ src' \in [Procs -> SUBSET Platforms]
           /\ \A p \in Procs : p # m => src'[p] = src[p]
           /\ tmpDir' = tmpDir \ {m} /\ exec' = exec \ {m} /\ setup' = setup \ {m}
           /\ m # Antler /\ Antler \notin Nodes /\ m \in Procs /\ Antler \in Procs
<1>1. m # Antler /\ Antler \notin Nodes /\ m \in Procs /\ Antler \in Procs
  BY LaunchAssumption DEF Procs
<1>2. /\ key' \in [Procs -> SUBSET Platforms] /\ key'[m] = {}
      /\ \A p \in Procs : p # m => key'[p] = key[p]
  BY <1>1 DEF TypeOK, Ended
<1>3. /\ ref' \in [Procs -> [Platforms -> Nat]]
      /\ \A x \in Platforms : ref'[m][x] = 0
      /\ \A p \in Procs : p # m => ref'[p] = ref[p]
  <2>1. [x \in Platforms |-> 0] \in [Platforms -> Nat]
    OBVIOUS
  <2>2. ref \in [Procs -> [Platforms -> Nat]] /\ ref' = [ref EXCEPT ![m] = [x \in Platforms |-> 0]]
    BY DEF TypeOK, Ended
  <2>3. QED
    BY <1>1, <2>1, <2>2
<1>4. /\ src' \in [Procs -> SUBSET Platforms]
      /\ \A p \in Procs : p # m => src'[p] = src[p]
  BY <1>1 DEF TypeOK, Ended
<1>5. QED
  BY <1>1, <1>2, <1>3, <1>4 DEF Ended

\* The process of m ends, and with it all its launches, if it had any: what the
\* rest of the tree is left with.
LEMMA EndedStep ==
    ASSUME LaunchInv, NEW m \in Nodes, pc[m] = "up", Ended(m), TypeOK', StackInv',
           UNCHANGED <<plan, disk, shared>>, Alive' = Alive \ {m},
           Holders' = Holders \ By(m), left \subseteq left', crashed \subseteq crashed',
           crashed' \subseteq crashed \cup {m},
           \A j \in crashed' : j \in DOMAIN plan /\ pc'[j] \notin {"none", "netns", "start", "up"},
           \A x \in Platforms \ shared : x \in key[m] /\ Foreign(plan, m, x) => x \in left',
           ~untidy' => /\ UNCHANGED <<untidy, crashed, left>> /\ Holders' = Holders
    PROVE  LaunchInv'
<1>1. TypeOK /\ TreeInv /\ RefInv /\ DirInv /\ SrcInv
  BY DEF LaunchInv
<1>2. /\ key' \in [Procs -> SUBSET Platforms] /\ key'[m] = {}
      /\ \A p \in Procs : p # m => key'[p] = key[p]
      /\ ref' \in [Procs -> [Platforms -> Nat]]
      /\ \A x \in Platforms : ref'[m][x] = 0
      /\ \A p \in Procs : p # m => ref'[p] = ref[p]
      /\ src' \in [Procs -> SUBSET Platforms]
      /\ \A p \in Procs : p # m => src'[p] = src[p]
      /\ tmpDir' = tmpDir \ {m} /\ exec' = exec \ {m} /\ setup' = setup \ {m}
      /\ m # Antler /\ Antler \notin Nodes /\ m \in Procs /\ Antler \in Procs
  BY <1>1, EndedFacts
<1>3. Holders \subseteq Nodes /\ Holders \subseteq DOMAIN plan /\ exec \subseteq Nodes /\ plan \in Plans
  BY DEF LaunchInv, TypeOK, StackInv, Holders, Resting
<1>4. /\ \A j \in Nodes : j \in Alive <=> pc[j] = "up"
      /\ \A j \in Nodes : pc'[j] = "up" <=> pc[j] = "up" /\ j # m
  BY <1>2 DEF Alive
<1>5. \A j \in Holders' : j \in Holders /\ plan[j].by # m
  BY <1>3 DEF By
<1>6. TreeInv'
  <2>1. \A j \in Holders' : plan[j].by \in Alive'
    BY <1>1, <1>5 DEF TreeInv
  <2>2. Holders' \subseteq Holders
    BY <1>5
  <2>3. \A S \in SUBSET Holders' : S # {} => \E j \in S : plan[j].by \notin S
    BY <1>1, <2>2 DEF TreeInv
  <2>4. QED
    BY <2>1, <2>3 DEF TreeInv
<1>7. RefInv'
  <2>1. ASSUME NEW p \in Procs, NEW x \in Platforms
        PROVE  /\ ref'[p][x] = Cardinality(Users(p, x)') + Own(p, x)'
               /\ ref'[p][x] > 0 => x \in key'[p]
               /\ x \in key'[p] => ref'[p][x] > 0 \/ x \in shared
    <3>1. CASE p = m
      <4>1. Users(p, x)' = {}
        BY <3>1 DEF Users, By
      <4>2. Own(p, x)' = 0
        BY <3>1 DEF Own
      <4>3. Cardinality(Users(p, x)') = 0
        BY <4>1, FS_EmptySet
      <4>4. QED
        BY <1>2, <3>1, <4>2, <4>3
    <3>2. CASE p # m
      <4>1. Own(p, x)' = Own(p, x)
        BY <3>2 DEF Own
      <4>2. Users(p, x)' = Users(p, x)
        BY <3>2 DEF Users, By
      <4>3. QED
        BY <1>1, <1>2, <3>2, <4>1, <4>2 DEF RefInv
    <3>3. QED
      BY <3>1, <3>2
  <2>2. QED
    BY <2>1 DEF RefInv
<1>8. DirInv'
  <2>1. tmpDir' \subseteq Alive' /\ setup' \subseteq Alive'
    BY <1>1, <1>2 DEF DirInv
  <2>2. tmpDir' # {} \/ disk # {} => Antler \in tmpDir'
    BY <1>1, <1>2 DEF DirInv
  <2>3. \A j \in exec' : pc'[j] = "up" /\ plan[j].platform \in disk /\ j \in tmpDir'
    BY <1>1, <1>2, <1>3, <1>4 DEF DirInv
  <2>4. ASSUME NEW x \in Platforms \ shared
        PROVE  /\ \A p \in Procs : x \in key'[p] /\ Foreign(plan, p, x) => x \in disk /\ p \in tmpDir'
               /\ x \in disk => x \in left' \/ \E p \in Procs : x \in key'[p] /\ Foreign(plan, p, x)
    <3>1. ASSUME NEW p \in Procs, x \in key'[p], Foreign(plan, p, x)
          PROVE  x \in disk /\ p \in tmpDir'
      <4>1. p # m
        BY <1>2, <3>1
      <4>2. QED
        BY <1>1, <1>2, <3>1, <4>1 DEF DirInv
    <3>2. ASSUME x \in disk, x \notin left'
          PROVE  \E p \in Procs : x \in key'[p] /\ Foreign(plan, p, x)
      <4>1. PICK p \in Procs : x \in key[p] /\ Foreign(plan, p, x)
        BY <1>1, <3>2 DEF DirInv
      <4>2. p # m
        BY <3>2, <4>1
      <4>3. QED
        BY <1>2, <4>1, <4>2
    <3>3. QED
      BY <3>1, <3>2
  <2>5. ASSUME NEW j PROVE Rooted(j)' => Rooted(j)
    <3>1. Rooted(j)' <=> \A c \in crashed' : j \notin Below(c)
      BY DEF Rooted, Below, By
    <3>2. QED
      BY <3>1 DEF Rooted
  <2>6. ASSUME NEW j \in Holders', Rooted(j)', plan[j].platform \notin shared
        PROVE  /\ plan[j].platform \in disk /\ plan[j].by \in tmpDir'
               /\ pc'[j] = "up" => j \in exec'
    <3>1. j \in Holders /\ plan[j].by # m /\ Rooted(j)
      BY <1>5, <2>5, <2>6
    <3>2. plan[j].platform \in disk /\ plan[j].by \in tmpDir /\ (pc[j] = "up" => j \in exec)
      BY <1>1, <2>6, <3>1 DEF DirInv
    <3>3. QED
      BY <1>2, <1>3, <1>4, <3>1, <3>2
  <2>7. ~untidy' => /\ crashed' = {} /\ left' = {}
                    /\ shared = {} /\ tmpDir' # {} => Holders' # {}
    BY <1>1, <1>2 DEF DirInv
  <2>8. Shared(plan) \subseteq shared
    BY <1>1 DEF DirInv
  <2>9. QED
    BY <2>1, <2>2, <2>3, <2>4, <2>6, <2>7, <2>8 DEF DirInv
<1>9. SrcInv'
  <2>1. ASSUME NEW j \in Nodes PROVE PlatformsBelow(j)' = PlatformsBelow(j)
    BY DEF PlatformsBelow, Below, By
  <2>2. ASSUME NEW j \in Nodes \cap setup' PROVE j \in setup /\ src'[j] = src[j]
    BY <1>2, <2>2 DEF Procs
  <2>3. src'[Antler] = Platforms
    BY <1>1, <1>2 DEF SrcInv
  <2>4. QED
    BY <1>1, <2>1, <2>2, <2>3 DEF SrcInv
<1>10. QED
  BY <1>6, <1>7, <1>8, <1>9 DEF LaunchInv

\* A launcher that crashed has no launches; a node that ends after it is not
\* waited for.
LEMMA EndOfFacts ==
    ASSUME LaunchInv, NEW m \in Nodes, pc[m] = "up"
    PROVE  /\ EndOf(m) \in {"ended", "down"} /\ m \notin crashed /\ m \in DOMAIN plan
           /\ EndOf(m) = "ended" => stack[m] = <<>> /\ plan[m].by \in crashed
           /\ EndOf(m) = "down" => stack[m] = IF plan[m].netns THEN <<"exe", "netns">> ELSE <<"exe">>
<1>1. TypeOK /\ StackInv /\ TreeInv
  BY DEF LaunchInv
<1>2. m \notin crashed /\ m \in DOMAIN plan
  BY <1>1 DEF TreeInv, StackInv
<1>3. ASSUME plan[m].by \in crashed PROVE stack[m] = <<>>
  <2>1. plan[m].by \notin Alive
    <3>1. plan[m].by \in Nodes /\ pc[plan[m].by] # "up" /\ Antler \notin Nodes
      BY <1>1, <1>3, LaunchAssumption DEF TypeOK, TreeInv
    <3>2. QED
      BY <3>1 DEF Alive
  <2>2. QED
    BY <1>1, <2>1 DEF TreeInv, Holders
<1>4. QED
  BY <1>1, <1>2, <1>3 DEF EndOf, StackInv

\* The process of m exits.
LEMMA ExitStep ==
    ASSUME LaunchInv, NEW m \in Nodes, Exit(m)
    PROVE  LaunchInv'
<1>1. TypeOK /\ StackInv /\ TreeInv /\ RefInv /\ DirInv /\ SrcInv /\ StackedAt(m)
  BY DEF LaunchInv, StackInv, StackedAt, Stacked
<1>2. /\ UNCHANGED <<plan, stack, disk, left, netns, crashed, stale, shared, untidy>> /\ pc[m] = "up"
      /\ \A k \in By(m) : pc[k] \in Resting
      /\ plan \in Plans /\ pc \in [Nodes -> Labels]
      /\ pc' = [pc EXCEPT ![m] = EndOf(m)] /\ Ended(m)
  BY <1>1 DEF Exit, TypeOK, Labels
<1>3. /\ EndOf(m) \in {"ended", "down"} /\ m \notin crashed /\ m \in DOMAIN plan
      /\ EndOf(m) = "ended" => stack[m] = <<>>
      /\ EndOf(m) = "down" => stack[m] = IF plan[m].netns THEN <<"exe", "netns">> ELSE <<"exe">>
  BY <1>2, EndOfFacts
<1>4. /\ pc' \in [Nodes -> Labels] /\ pc'[m] = EndOf(m)
      /\ \A j \in Nodes : j # m => pc'[j] = pc[j]
  BY <1>2, <1>3 DEF Labels
<1>5. Alive' = Alive \ {m}
  <2>1. m # Antler
    BY LaunchAssumption
  <2>2. QED
    BY <1>3, <1>4, <2>1 DEF Alive
<1>6. By(m) \cap Holders = {}
  <2>1. By(m) \subseteq Nodes
    BY <1>2, PlanFacts DEF By
  <2>2. QED
    BY <1>1, <1>2, <2>1 DEF StackInv, Holders
<1>7. Holders' = Holders /\ Holders' = Holders \ By(m)
  BY <1>2, <1>6 DEF Holders
<1>8. /\ key' \in [Procs -> SUBSET Platforms] /\ ref' \in [Procs -> [Platforms -> Nat]]
      /\ src' \in [Procs -> SUBSET Platforms]
      /\ tmpDir' = tmpDir \ {m} /\ exec' = exec \ {m} /\ setup' = setup \ {m}
  BY <1>1, <1>2, EndedFacts
<1>9. TypeOK'
  BY <1>1, <1>2, <1>4, <1>8 DEF TypeOK, Labels
<1>10. StackInv'
  <2>1. Stacked(stack[m], EndOf(m), plan[m].netns, m \in DOMAIN plan, m \in netns, m \in stale,
                plan[m].by \in crashed)
    BY <1>1, <1>2, <1>3 DEF Stacked, StackedAt, Resting
  <2>2. QED
    BY <1>1, <1>2, <1>4, <2>1, StackStep DEF StackedAt
<1>11. \A j \in crashed : j \in DOMAIN plan /\ pc'[j] \notin {"none", "netns", "start", "up"}
  BY <1>1, <1>3, <1>4, CrashedStay DEF TreeInv
<1>12. ASSUME NEW x \in Platforms \ shared, x \in key[m], Foreign(plan, m, x) PROVE FALSE
  <2>1. m \in Procs
    BY DEF Procs
  <2>2. PICK k \in By(m) \cap Holders : plan[k].platform = x
    BY <1>1, <1>2, <1>12, <2>1, KeyHasUser
  <2>3. QED
    BY <1>6
<1>13. QED
  BY <1>2, <1>5, <1>7, <1>9, <1>10, <1>11, <1>12, EndedStep

\* The process of m crashes.
LEMMA CrashStep ==
    ASSUME LaunchInv, NEW m \in Nodes, Crash(m)
    PROVE  LaunchInv'
<1>1. TypeOK /\ StackInv /\ TreeInv /\ RefInv /\ DirInv /\ SrcInv
  BY DEF LaunchInv
<1>2. /\ UNCHANGED <<plan, disk, netns, shared>> /\ pc[m] = "up"
      /\ pc' = [k \in Nodes |->
                   IF k = m THEN EndOf(m)
                   ELSE IF k \in By(m) /\ pc[k] \notin Resting \cup {"up"} THEN "ended"
                   ELSE pc[k]]
      /\ stack' = [k \in Nodes |-> IF k \in By(m) THEN <<>> ELSE stack[k]]
      /\ stale' = stale \cup (By(m) \cap netns)
      /\ left' = left \cup (key[m] \ {plan[m].platform})
      /\ crashed' = crashed \cup {m} /\ untidy' = TRUE /\ Ended(m)
      /\ plan \in Plans /\ pc \in [Nodes -> Labels]
  BY <1>1 DEF Crash, TypeOK, Labels
<1>3. /\ EndOf(m) \in {"ended", "down"} /\ m \notin crashed /\ m \in DOMAIN plan
      /\ EndOf(m) = "ended" => stack[m] = <<>>
      /\ EndOf(m) = "down" => stack[m] = IF plan[m].netns THEN <<"exe", "netns">> ELSE <<"exe">>
  BY <1>2, EndOfFacts
<1>4. m # Antler /\ By(m) \subseteq DOMAIN plan /\ By(m) \subseteq Nodes /\ m \notin By(m)
  BY <1>2, <1>3, LaunchAssumption, PlanFacts DEF By
<1>5. /\ pc' \in [Nodes -> Labels] /\ pc'[m] = EndOf(m)
      /\ \A j \in Nodes : j # m /\ pc'[j] # pc[j] =>
            j \in By(m) /\ pc'[j] = "ended" /\ pc[j] \notin Resting /\ pc[j] # "up"
      /\ \A j \in By(m) : pc'[j] \in Resting \cup {"up"}
  <2>1. /\ pc' \in [Nodes -> Labels] /\ pc'[m] = EndOf(m)
        /\ \A j \in Nodes : j # m => pc'[j] = IF j \in By(m) /\ pc[j] \notin Resting \cup {"up"}
                                             THEN "ended" ELSE pc[j]
    BY <1>2, <1>3 DEF Labels
  <2>2. QED
    BY <1>4, <2>1 DEF Resting
<1>6. /\ stack' \in [Nodes -> Seq({"exe", "netns"})]
      /\ \A j \in Nodes : stack'[j] = IF j \in By(m) THEN <<>> ELSE stack[j]
  BY <1>1, <1>2, StackFacts DEF TypeOK
<1>7. Alive' = Alive \ {m}
  <2>1. \A j \in Nodes : pc'[j] = "up" <=> pc[j] = "up" /\ j # m
    BY <1>3, <1>5
  <2>2. QED
    BY <1>4, <2>1 DEF Alive
<1>8. Holders' = Holders \ By(m)
  BY <1>4, <1>6 DEF Holders
<1>9. /\ key' \in [Procs -> SUBSET Platforms] /\ ref' \in [Procs -> [Platforms -> Nat]]
      /\ src' \in [Procs -> SUBSET Platforms]
      /\ tmpDir' = tmpDir \ {m} /\ exec' = exec \ {m} /\ setup' = setup \ {m} /\ m \in Procs
  BY <1>1, <1>2, EndedFacts
<1>10. key[m] \subseteq Platforms
  BY <1>1, <1>9 DEF TypeOK
<1>11. TypeOK'
  <2>1. stale' \subseteq Nodes /\ left' \subseteq Platforms /\ crashed' \subseteq Nodes
    BY <1>1, <1>2, <1>4, <1>10 DEF TypeOK
  <2>2. QED
    BY <1>1, <1>2, <1>5, <1>6, <1>9, <2>1 DEF TypeOK, Labels
<1>12. StackInv'
  <2>1. ASSUME NEW j \in Nodes PROVE StackedAt(j)'
    <3>1. StackedAt(j) /\ (j \in By(m) <=> j \in DOMAIN plan /\ plan[j].by = m)
      BY <1>1 DEF StackInv, StackedAt, Stacked, By
    <3>2. CASE j = m
      <4>1. stack'[j] = stack[j] /\ (j \in stale' <=> j \in stale)
        BY <1>2, <1>4, <1>6, <3>2
      <4>2. Stacked(stack[m], EndOf(m), plan[m].netns, m \in DOMAIN plan, m \in netns, m \in stale,
                    plan[m].by \in crashed')
        BY <1>2, <1>3, <3>1, <3>2 DEF StackedAt, Stacked, Resting
      <4>3. QED
        BY <1>2, <1>5, <3>2, <4>1, <4>2 DEF StackedAt
    <3>3. CASE j \in By(m)
      <4>1. /\ stack'[j] = <<>> /\ pc'[j] \in Resting \cup {"up"} /\ (j \in netns => j \in stale')
            /\ plan[j].by \in crashed' /\ j \in DOMAIN plan
            /\ pc'[j] = "up" => pc[j] = "up"
        BY <1>2, <1>4, <1>5, <1>6, <3>1, <3>3
      <4>2. Stacked(<<>>, pc'[j], plan[j].netns, j \in DOMAIN plan, j \in netns, j \in stale',
                    plan[j].by \in crashed')
        BY <3>1, <4>1, StackFacts DEF StackedAt, Stacked, Resting
      <4>3. QED
        BY <1>2, <4>1, <4>2 DEF StackedAt
    <3>4. CASE j # m /\ j \notin By(m)
      <4>1. stack'[j] = stack[j] /\ pc'[j] = pc[j] /\ (j \in stale' <=> j \in stale)
        BY <1>2, <1>5, <1>6, <3>4
      <4>2. Stacked(stack[j], pc[j], plan[j].netns, j \in DOMAIN plan, j \in netns, j \in stale,
                    plan[j].by \in crashed')
        BY <1>2, <3>1 DEF StackedAt, Stacked
      <4>3. QED
        BY <1>2, <4>1, <4>2 DEF StackedAt
    <3>5. QED
      BY <3>2, <3>3, <3>4
  <2>2. QED
    BY <2>1 DEF StackInv, StackedAt, Stacked
<1>13. ASSUME NEW j \in crashed' PROVE j \in DOMAIN plan /\ pc'[j] \notin {"none", "netns", "start", "up"}
  <2>1. CASE j = m
    BY <1>3, <1>5, <2>1
  <2>2. CASE j \in crashed /\ j # m
    <3>1. j \in Nodes /\ j \in DOMAIN plan /\ pc[j] \notin {"none", "netns", "start", "up"}
      BY <1>1, <2>2 DEF TreeInv, TypeOK
    <3>2. QED
      BY <1>5, <2>2, <3>1
  <2>3. QED
    BY <1>2, <2>1, <2>2
<1>14. ASSUME NEW x \in Platforms \ shared, x \in key[m], Foreign(plan, m, x) PROVE x \in left'
  <2>1. x # plan[m].platform
    BY <1>4, <1>14 DEF Foreign
  <2>2. QED
    BY <1>2, <1>14, <2>1
<1>15. left \subseteq left' /\ crashed \subseteq crashed' /\ crashed' \subseteq crashed \cup {m} /\ untidy'
  BY <1>2
<1>16. QED
  BY <1>2, <1>7, <1>8, <1>11, <1>12, <1>13, <1>14, <1>15, EndedStep

-----------------------------------------------------------------------------
(* Launches that take and give back an executable.                         *)

\* Only the count of p for x changes, to n, and p's keys to K.
LEMMA CountFacts ==
    ASSUME ref \in [Procs -> [Platforms -> Nat]], NEW p \in Procs, NEW x \in Platforms,
           NEW n \in Nat, ref' = [ref EXCEPT ![p][x] = n],
           key \in [Procs -> SUBSET Platforms], NEW K \in SUBSET Platforms,
           key' = [key EXCEPT ![p] = K]
    PROVE  /\ ref' \in [Procs -> [Platforms -> Nat]] /\ ref'[p][x] = n
           /\ \A q \in Procs, y \in Platforms : q # p \/ y # x => ref'[q][y] = ref[q][y]
           /\ key' \in [Procs -> SUBSET Platforms] /\ key'[p] = K
           /\ \A q \in Procs : q # p => key'[q] = key[q]
OBVIOUS

\* The executable that a process has a key of, and a node that it launches is to
\* run, is there: also if it is the one that the process itself runs from.
LEMMA HasFile ==
    ASSUME LaunchInv, NEW m \in DOMAIN plan, plan[m].by \in Alive, Rooted(m),
           plan[m].platform \notin shared, plan[m].platform \in key[plan[m].by]
    PROVE  plan[m].platform \in disk /\ plan[m].by \in tmpDir
<1> DEFINE P == plan[m].by
           X == plan[m].platform
<1>1. TypeOK /\ StackInv /\ DirInv /\ plan \in Plans
  BY DEF LaunchInv, TypeOK
<1>2. P \in Procs /\ X \in Platforms /\ Antler \notin Nodes /\ DOMAIN plan \subseteq Nodes
      /\ P \in DOMAIN plan \cup {Antler}
  BY <1>1, PlanFacts
<1>3. CASE Foreign(plan, P, X)
  BY <1>1, <1>2, <1>3 DEF DirInv
<1>4. CASE ~Foreign(plan, P, X)
  <2>1. P \in Nodes /\ P \in DOMAIN plan /\ plan[P].platform = X /\ pc[P] = "up"
    BY <1>2, <1>4 DEF Foreign, Alive
  <2>2. Rooted(P)
    BY RootedUp
  <2>3. plan[P].by \notin crashed
    BY <2>1, <2>2, RootedUp
  <2>4. P \in Holders
    BY <1>1, <2>1, <2>3, StackFacts DEF StackInv, Holders
  <2>5. X \in disk /\ P \in exec
    BY <1>1, <2>1, <2>2, <2>4 DEF DirInv
  <2>6. P \in tmpDir
    BY <1>1, <2>5 DEF DirInv
  <2>7. QED
    BY <2>5, <2>6
<1>5. QED
  BY <1>3, <1>4

\* A launch gets its executable.
LEMMA LaunchNodeStep ==
    ASSUME LaunchInv, NEW m \in Nodes, LaunchNode(m)
    PROVE  LaunchInv'
<1> DEFINE P == plan[m].by
           X == plan[m].platform
<1>1. TypeOK /\ StackInv /\ TreeInv /\ RefInv /\ DirInv /\ SrcInv /\ StackedAt(m)
  BY DEF LaunchInv, StackInv, StackedAt, Stacked
<1>2. /\ UNCHANGED <<plan, setup, src, exec, netns, crashed, stale, shared, untidy>>
      /\ m \in DOMAIN plan /\ pc[m] = "none" /\ P \in setup /\ P \in Alive
      /\ stack' = [stack EXCEPT ![m] = <<"exe">>] /\ pc' = [pc EXCEPT ![m] = "netns"]
      /\ plan \in Plans /\ pc \in [Nodes -> Labels]
  BY <1>1 DEF LaunchNode, Launches, TypeOK, Labels, DirInv
<1>3. /\ tmpDir' = MadeDir(P)
      /\ ref' = [ref EXCEPT ![P][X] = IF X \in key[P] THEN ref[P][X] + 1 ELSE 1]
      /\ \/ X \in key[P] /\ UNCHANGED <<key, disk, left>>
         \/ /\ X \notin key[P] /\ CanWrite(P, X)
            /\ key' = [key EXCEPT ![P] = key[P] \cup {X}]
            /\ disk' = disk \cup {X} /\ left' = left \ {X}
  BY DEF LaunchNode, File
<1>4. /\ P \in Procs /\ P # m /\ X \in Platforms /\ Antler \notin Nodes /\ Alive \subseteq Procs
      /\ \A j \in Nodes : j \in Alive <=> pc[j] = "up"
      /\ P \in DOMAIN plan \cup {Antler} /\ DOMAIN plan \subseteq Nodes /\ Antler \in Alive
  BY <1>2, PlanFacts, AliveFacts
<1>5. /\ pc' \in [Nodes -> Labels] /\ pc'[m] = "netns"
      /\ \A j \in Nodes : j # m => pc'[j] = pc[j]
      /\ Alive' = Alive
  BY <1>2, SameAlive DEF Labels
<1>6. stack[m] = <<>> /\ m \notin Alive /\ m \notin Holders /\ m \notin crashed
  BY <1>1, <1>2, <1>4 DEF StackedAt, Stacked, Resting, Holders, TreeInv
<1>7. /\ stack' \in [Nodes -> Seq({"exe", "netns"})] /\ stack'[m] = <<"exe">>
      /\ \A j \in Nodes : j # m => stack'[j] = stack[j]
  BY <1>1, <1>2, StackFacts DEF TypeOK
<1>8. Holders' = Holders \cup {m}
  BY <1>7, StackFacts DEF Holders
\* The count.
<1> DEFINE n == IF X \in key[P] THEN ref[P][X] + 1 ELSE 1
<1>9. n = ref[P][X] + 1 /\ n \in Nat /\ ref[P][X] \in Nat
  <2>1. ref[P][X] \in Nat
    BY <1>1, <1>4 DEF TypeOK
  <2>2. ref[P][X] > 0 => X \in key[P]
    BY <1>1, <1>4 DEF RefInv
  <2>3. QED
    BY <2>1, <2>2
<1>10. ref' = [ref EXCEPT ![P][X] = n]
  BY <1>3
<1> HIDE DEF n
<1>11. /\ ref' \in [Procs -> [Platforms -> Nat]] /\ ref'[P][X] = n
       /\ \A q \in Procs, y \in Platforms : q # P \/ y # X => ref'[q][y] = ref[q][y]
       /\ key' \in [Procs -> SUBSET Platforms] /\ key'[P] = key[P] \cup {X}
       /\ \A q \in Procs : q # P => key'[q] = key[q]
  <2>1. ref \in [Procs -> [Platforms -> Nat]] /\ key \in [Procs -> SUBSET Platforms]
    BY <1>1 DEF TypeOK
  <2>2. key[P] \cup {X} \in SUBSET Platforms
    BY <1>4, <2>1
  <2>3. key' = [key EXCEPT ![P] = key[P] \cup {X}]
    <3>1. CASE X \in key[P] /\ key' = key
      <4>1. key[P] \cup {X} = key[P]
        BY <3>1
      <4>2. QED
        BY <1>4, <2>1, <3>1, <4>1
    <3>2. QED
      BY <1>3, <3>1
  <2> HIDE DEF P, X
  <2>4. QED
    BY <1>4, <1>9, <1>10, <2>1, <2>2, <2>3, CountFacts
<1>12. RefInv'
  <2>1. ASSUME NEW q \in Procs, NEW y \in Platforms
        PROVE  /\ ref'[q][y] = Cardinality(Users(q, y)') + Own(q, y)'
               /\ ref'[q][y] > 0 => y \in key'[q]
               /\ y \in key'[q] => ref'[q][y] > 0 \/ y \in shared
    <3>1. Own(q, y)' = Own(q, y) /\ Own(q, y) \in Nat
      BY <1>2, <1>5 DEF Own
    <3>2. /\ ref[q][y] = Cardinality(Users(q, y)) + Own(q, y)
          /\ ref[q][y] > 0 => y \in key[q]
          /\ y \in key[q] => ref[q][y] > 0 \/ y \in shared
      BY <1>1 DEF RefInv
    <3>3. CASE q = P /\ y = X
      <4>1. Users(q, y)' = Users(q, y) \cup {m} /\ m \notin Users(q, y)
        BY <1>2, <1>6, <1>8, <3>3 DEF Users, By
      <4>2. IsFiniteSet(Users(q, y)) /\ Cardinality(Users(q, y)) \in Nat
        BY <1>2, UsersFinite
      <4>3. Cardinality(Users(q, y)') = Cardinality(Users(q, y)) + 1
        BY <4>1, <4>2, FS_AddElement
      <4>4. ref'[q][y] = ref[q][y] + 1
        BY <1>9, <1>11, <3>3
      <4>5. ref'[q][y] = Cardinality(Users(q, y)') + Own(q, y)'
        BY <3>1, <3>2, <4>2, <4>3, <4>4
      <4>6. ref'[q][y] > 0
        BY <1>9, <3>3, <4>4
      <4>7. y \in key'[q]
        BY <1>11, <3>3
      <4>8. QED
        BY <4>5, <4>6, <4>7
    <3>4. CASE q # P \/ y # X
      <4>1. Users(q, y)' = Users(q, y)
        BY <1>2, <1>8, <3>4 DEF Users, By
      <4>2. ref'[q][y] = ref[q][y] /\ (y \in key'[q] <=> y \in key[q])
        BY <1>11, <3>4
      <4>3. QED
        BY <3>1, <3>2, <4>1, <4>2
    <3>5. QED
      BY <3>3, <3>4
  <2>2. QED
    BY <1>2, <2>1 DEF RefInv
\* The files.
<1>13. /\ disk \subseteq disk' /\ disk' \subseteq disk \cup {X}
       /\ left' \subseteq left /\ left \subseteq left' \cup {X}
       /\ tmpDir \subseteq tmpDir' /\ tmpDir' \subseteq tmpDir \cup {Antler}
       /\ X \notin key[P] => X \in disk' /\ P \in tmpDir'
       /\ X \in key[P] => disk' = disk /\ left' = left
       /\ tmpDir' # {} \/ disk' # {} => Antler \in tmpDir'
  <2>1. tmpDir \subseteq tmpDir' /\ tmpDir' \subseteq tmpDir \cup {Antler}
    BY <1>3 DEF MadeDir
  <2>2. tmpDir' # {} => Antler \in tmpDir'
    BY <1>1, <1>3 DEF MadeDir, DirInv
  <2>3. CASE X \in key[P] /\ UNCHANGED <<key, disk, left>>
    BY <1>1, <2>1, <2>2, <2>3 DEF DirInv
  <2>4. CASE X \notin key[P] /\ P \in tmpDir' /\ disk' = disk \cup {X} /\ left' = left \ {X}
    BY <2>1, <2>2, <2>4
  <2>5. QED
    BY <1>3, <2>3, <2>4 DEF CanWrite
<1>14. ASSUME NEW j PROVE Rooted(j)' <=> Rooted(j)
  BY <1>2 DEF Rooted, Below, By
<1>15. Rooted(m) /\ X \notin shared => X \in disk' /\ P \in tmpDir'
  <2>1. CASE X \notin key[P]
    BY <1>13, <2>1
  <2>2. CASE X \in key[P]
    BY <1>2, <1>13, <2>2, HasFile
  <2>3. QED
    BY <2>1, <2>2
<1>16. X \notin key[P] => Foreign(plan, P, X)
  <2>1. ASSUME X \notin key[P], ~Foreign(plan, P, X) PROVE FALSE
    <3>1. P \in Nodes /\ plan[P].platform = X
      BY <1>4, <2>1 DEF Foreign
    <3>2. Own(P, X) = 1
      BY <1>2, <3>1 DEF Own
    <3>3. ref[P][X] > 0
      <4>1. ref[P][X] = Cardinality(Users(P, X)) + Own(P, X)
        BY <1>1, <1>4 DEF RefInv
      <4>2. Cardinality(Users(P, X)) \in Nat
        BY <1>2, UsersFinite
      <4>3. QED
        BY <3>2, <4>1, <4>2
    <3>4. QED
      BY <1>1, <1>4, <2>1, <3>3 DEF RefInv
  <2>2. QED
    BY <2>1
<1>17. TypeOK'
  <2>1. disk' \subseteq Platforms /\ left' \subseteq Platforms /\ tmpDir' \subseteq Procs
    BY <1>1, <1>4, <1>13 DEF TypeOK
  <2>2. QED
    BY <1>1, <1>2, <1>5, <1>7, <1>11, <2>1 DEF TypeOK, Labels
<1>18. StackInv'
  <2>1. Stacked(<<"exe">>, "netns", plan[m].netns, m \in DOMAIN plan, m \in netns, m \in stale,
                plan[m].by \in crashed)
    BY <1>1, <1>2, <1>6, StackFacts DEF Stacked, StackedAt, Resting
  <2>2. QED
    BY <1>1, <1>2, <1>5, <1>7, <2>1, StackStep DEF StackedAt
<1>19. TreeInv'
  <2>1. \A j \in Holders' : plan'[j].by \in Alive'
    BY <1>1, <1>2, <1>5, <1>8 DEF TreeInv
  <2>2. ASSUME NEW S \in SUBSET Holders', S # {} PROVE \E j \in S : plan'[j].by \notin S
    <3>1. CASE S \ {m} = {}
      <4>1. m \in S /\ P \notin S
        BY <1>4, <2>2, <3>1
      <4>2. QED
        BY <1>2, <4>1
    <3>2. CASE S \ {m} # {}
      <4>1. S \ {m} \in SUBSET Holders
        BY <1>8, <2>2
      <4>2. PICK j \in S \ {m} : plan[j].by \notin S \ {m}
        BY <1>1, <3>2, <4>1 DEF TreeInv
      <4>3. plan[j].by # m
        BY <1>1, <1>6, <4>1, <4>2 DEF TreeInv
      <4>4. QED
        BY <1>2, <4>2, <4>3
    <3>3. QED
      BY <3>1, <3>2
  <2>3. \A j \in crashed' : j \in DOMAIN plan' /\ pc'[j] \notin {"none", "netns", "start", "up"}
    BY <1>1, <1>2, <1>5, <1>6, CrashedStay DEF TreeInv
  <2>4. QED
    BY <2>1, <2>2, <2>3 DEF TreeInv
<1>20. DirInv'
  <2>1. tmpDir' \subseteq Alive' /\ setup' \subseteq Alive'
    BY <1>1, <1>2, <1>4, <1>5, <1>13 DEF DirInv
  <2>2. \A j \in exec' : pc'[j] = "up" /\ plan[j].platform \in disk' /\ j \in tmpDir'
    <3>1. \A j \in exec : j \in Nodes /\ j # m
      BY <1>1, <1>2 DEF TypeOK, DirInv
    <3>2. QED
      BY <1>1, <1>2, <1>5, <1>13, <3>1 DEF DirInv
  <2>3. ASSUME NEW x \in Platforms \ shared
        PROVE  /\ \A p \in Procs : x \in key'[p] /\ Foreign(plan, p, x) => x \in disk' /\ p \in tmpDir'
               /\ x \in disk' => x \in left' \/ \E p \in Procs : x \in key'[p] /\ Foreign(plan, p, x)
    <3>1. ASSUME NEW p \in Procs, x \in key'[p], Foreign(plan, p, x) PROVE x \in disk' /\ p \in tmpDir'
      <4>1. CASE x \in key[p]
        BY <1>1, <1>13, <3>1, <4>1 DEF DirInv
      <4>2. CASE x \notin key[p]
        <5>1. p = P /\ x = X
          BY <1>11, <3>1, <4>2
        <5>2. QED
          BY <1>13, <4>2, <5>1
      <4>3. QED
        BY <4>1, <4>2
    <3>2. ASSUME x \in disk', x \notin left' PROVE \E p \in Procs : x \in key'[p] /\ Foreign(plan, p, x)
      <4>1. CASE x = X /\ X \notin key[P]
        BY <1>4, <1>11, <1>16, <4>1
      <4>2. CASE ~(x = X /\ X \notin key[P])
        <5>1. x \in disk /\ x \notin left
          BY <1>13, <3>2, <4>2
        <5>2. PICK p \in Procs : x \in key[p] /\ Foreign(plan, p, x)
          BY <1>1, <5>1 DEF DirInv
        <5>3. x \in key'[p]
          BY <1>11, <5>2
        <5>4. QED
          BY <5>2, <5>3
      <4>3. QED
        BY <4>1, <4>2
    <3>3. QED
      BY <3>1, <3>2
  <2>4. ASSUME NEW j \in Holders', Rooted(j), plan[j].platform \notin shared
        PROVE  /\ plan[j].platform \in disk' /\ plan[j].by \in tmpDir'
               /\ pc'[j] = "up" => j \in exec'
    <3>1. CASE j = m
      BY <1>5, <1>15, <2>4, <3>1
    <3>2. CASE j # m
      <4>1. j \in Holders /\ j \in Nodes
        BY <1>8, <3>2 DEF Holders
      <4>2. plan[j].platform \in disk /\ plan[j].by \in tmpDir /\ (pc[j] = "up" => j \in exec)
        BY <1>1, <2>4, <4>1 DEF DirInv
      <4>3. QED
        BY <1>2, <1>5, <1>13, <3>2, <4>1, <4>2
    <3>3. QED
      BY <3>1, <3>2
  <2>5. /\ Shared(plan) \subseteq shared
        /\ ~untidy => /\ crashed = {} /\ left' = {}
                      /\ shared = {} /\ tmpDir' # {} => Holders' # {}
    BY <1>1, <1>8, <1>13 DEF DirInv
  <2>6. QED
    BY <1>2, <1>13, <1>14, <2>1, <2>2, <2>3, <2>4, <2>5 DEF DirInv
<1>21. SrcInv'
  <2>1. ASSUME NEW j \in Nodes PROVE PlatformsBelow(j)' = PlatformsBelow(j)
    BY <1>2 DEF PlatformsBelow, Below, By
  <2>2. QED
    BY <1>1, <1>2, <2>1 DEF SrcInv
<1>22. QED
  BY <1>12, <1>17, <1>18, <1>19, <1>20, <1>21 DEF LaunchInv

\* When the last launch of P that uses X gives it up, and P is the only extractor
\* of X, no other launch uses X that has no crashed node above it: one would be,
\* or be below, a launch of P.
LEMMA LastUser ==
    ASSUME LaunchInv, NEW m \in Holders, pc[m] # "up", plan[m].platform \notin shared,
           NEW k \in Holders \ {m}, plan[k].platform = plan[m].platform, Rooted(k),
           Users(plan[m].by, plan[m].platform) = {m}, Own(plan[m].by, plan[m].platform) = 0
    PROVE  FALSE
<1> DEFINE P == plan[m].by
           X == plan[m].platform
           S == {j \in Holders \ {m} : plan[j].platform = X /\ Rooted(j)}
<1>1. TypeOK /\ StackInv /\ TreeInv /\ Shared(plan) \subseteq shared
  BY DEF LaunchInv, DirInv
<1>2. plan \in Plans /\ Holders \subseteq DOMAIN plan
  BY <1>1 DEF TypeOK, StackInv, Holders, Resting
<1>3. /\ DOMAIN plan \subseteq Nodes /\ Antler \notin Nodes /\ X \in Platforms
      /\ \A j \in Nodes : j \in Alive <=> pc[j] = "up"
  BY <1>2, PlanFacts, AliveFacts
<1>4. ASSUME NEW j \in DOMAIN plan, plan[j].platform = X,
             plan[j].by = Antler \/ plan[plan[j].by].platform # X
      PROVE  plan[j].by \in Extractors(plan, X)
  BY <1>4 DEF Extractors, Foreign
<1>5. P \in Alive /\ (P = Antler \/ P \in Nodes)
  BY <1>1, <1>2, <1>3, PlanFacts DEF TreeInv, Procs
<1>6. P = Antler \/ plan[P].platform # X
  BY <1>5 DEF Own
<1>7. P \in Extractors(plan, X)
  BY <1>2, <1>4, <1>6
<1>8. k \in S
  OBVIOUS
<1>9. PICK j \in S : plan[j].by \notin S
  <2>1. S \in SUBSET Holders /\ S # {}
    BY <1>8
  <2> HIDE DEF S
  <2>2. QED
    BY <1>1, <2>1 DEF TreeInv
<1>10. j \in Holders /\ j # m /\ plan[j].platform = X /\ plan[j].by \in Alive /\ Rooted(j)
  BY <1>1, <1>9 DEF TreeInv
<1>11. CASE plan[j].by = Antler \/ plan[plan[j].by].platform # X
  <2>1. plan[j].by \in Extractors(plan, X)
    BY <1>2, <1>4, <1>10, <1>11
  <2>2. plan[j].by = P
    BY <1>1, <1>3, <1>7, <2>1, OneExtractor
  <2>3. j \in Users(P, X)
    BY <1>2, <1>10, <2>2 DEF Users, By
  <2>4. QED
    BY <1>10, <2>3
<1>12. CASE plan[j].by # Antler /\ plan[plan[j].by].platform = X
  <2>1. plan[j].by \in Nodes /\ pc[plan[j].by] = "up" /\ plan[j].by \in DOMAIN plan
    BY <1>2, <1>3, <1>10, <1>12, PlanFacts DEF Procs
  <2>2. Rooted(plan[j].by)
    BY <1>2, <1>10, RootedUp
  <2>3. plan[plan[j].by].by \notin crashed
    BY <2>1, <2>2, RootedUp
  <2>4. plan[j].by \in Holders
    BY <1>1, <2>1, <2>3, StackFacts DEF StackInv, Holders
  <2>5. QED
    BY <1>9, <1>12, <2>1, <2>2, <2>4
<1>13. QED
  BY <1>11, <1>12

\* A launch gives its executable back.
LEMMA CloserExeStep ==
    ASSUME LaunchInv, NEW m \in Nodes, CloserExe(m)
    PROVE  LaunchInv'
<1> DEFINE P == plan[m].by
           X == plan[m].platform
           n == ref[P][X] - 1
           removed == n = 0 /\ X \in disk /\ P \in tmpDir
           rest == IF removed THEN key[P] \ {X} ELSE key[P]
<1>1. TypeOK /\ StackInv /\ TreeInv /\ RefInv /\ DirInv /\ SrcInv /\ StackedAt(m)
  BY DEF LaunchInv, StackInv, StackedAt, Stacked
<1>2. /\ UNCHANGED <<plan, pc, setup, src, left, netns, crashed, stale, shared, untidy>>
      /\ pc[m] \in {"abort", "close"} /\ stack[m] # <<>>
      /\ stack[m][Len(stack[m])] = "exe"
      /\ stack' = [stack EXCEPT ![m] = SubSeq(stack[m], 1, Len(stack[m]) - 1)]
      /\ plan \in Plans
  BY <1>1 DEF CloserExe, Close, TypeOK
<1>3. stack[m] = <<"exe">>
  BY <1>1, <1>2, StackFacts DEF StackedAt, Stacked
<1>4. stack' = [stack EXCEPT ![m] = <<>>]
  BY <1>2, <1>3, StackFacts
<1>5. /\ stack' \in [Nodes -> Seq({"exe", "netns"})] /\ stack'[m] = <<>>
      /\ \A j \in Nodes : j # m => stack'[j] = stack[j]
  BY <1>1, <1>4, StackFacts DEF TypeOK
<1>6. m \in Holders /\ Holders' = Holders \ {m} /\ m \in DOMAIN plan /\ P \in Alive
      /\ Alive' = Alive
  <2>1. m \in Holders /\ Holders' = Holders \ {m}
    BY <1>2, <1>5 DEF Holders
  <2>2. m \in DOMAIN plan /\ Alive' = Alive
    BY <1>1, <1>2 DEF StackInv, Alive
  <2>3. QED
    BY <1>1, <2>1, <2>2 DEF TreeInv
<1>7. /\ P \in Procs /\ P # m /\ X \in Platforms /\ Antler \notin Nodes /\ Alive \subseteq Procs
      /\ \A j \in Nodes : j \in Alive <=> pc[j] = "up"
      /\ P \in DOMAIN plan \cup {Antler} /\ DOMAIN plan \subseteq Nodes
  BY <1>2, <1>6, PlanFacts, AliveFacts
<1>8. m \in Users(P, X)
  BY <1>6 DEF Users, By
<1>9. IsFiniteSet(Users(P, X)) /\ Cardinality(Users(P, X)) \in Nat
  BY <1>2, UsersFinite
<1>10. /\ Cardinality(Users(P, X) \ {m}) = Cardinality(Users(P, X)) - 1
       /\ IsFiniteSet(Users(P, X) \ {m}) /\ Cardinality(Users(P, X) \ {m}) \in Nat
  BY <1>8, <1>9, FS_RemoveElement, FS_CardinalityType
<1>11. Own(P, X) \in Nat /\ ref[P][X] = Cardinality(Users(P, X)) + Own(P, X)
  BY <1>1, <1>7 DEF Own, RefInv
<1>12. n \in Nat /\ n = Cardinality(Users(P, X) \ {m}) + Own(P, X)
  BY <1>9, <1>10, <1>11
<1>13. /\ ref' = [ref EXCEPT ![P][X] = n] /\ key' = [key EXCEPT ![P] = rest]
       /\ disk' = IF removed THEN disk \ {X} ELSE disk
       /\ exec' = {k \in exec : plan[k].platform \in disk'}
       /\ tmpDir' = IF rest = {} /\ disk' = {} THEN {} ELSE tmpDir
  BY DEF CloserExe, Close
<1>14. X \in key[P] /\ (n > 0 => X \in rest) /\ rest \in SUBSET Platforms
       /\ \A y \in Platforms : y # X => (y \in rest <=> y \in key[P])
  <2>1. key[P] \in SUBSET Platforms
    BY <1>1, <1>7 DEF TypeOK
  <2>2. ref[P][X] > 0
    <3> DEFINE r == ref[P][X]
               c == Cardinality(Users(P, X) \ {m})
               o == Own(P, X)
    <3>1. r - 1 \in Nat /\ r - 1 = c + o /\ c \in Nat /\ o \in Nat /\ r \in Nat
      <4>1. r \in Nat
        BY <1>1, <1>7 DEF TypeOK
      <4>2. QED
        BY <1>10, <1>11, <1>12, <4>1
    <3> HIDE DEF r, c, o
    <3>2. r > 0
      BY <3>1
    <3>3. QED
      BY <3>2 DEF r
  <2>3. X \in key[P]
    BY <1>1, <1>7, <2>2 DEF RefInv
  <2>4. n > 0 => ~removed
    <3> HIDE DEF n
    <3>1. QED
      BY <1>12
  <2>5. (removed => rest = key[P] \ {X}) /\ (~removed => rest = key[P])
    OBVIOUS
  <2> HIDE DEF n, removed, rest
  <2>6. CASE removed
    <3>1. rest = key[P] \ {X} /\ ~(n > 0)
      BY <2>4, <2>5, <2>6
    <3> HIDE DEF P, X
    <3>2. QED
      BY <2>1, <2>3, <3>1
  <2>7. CASE ~removed
    BY <2>1, <2>3, <2>5, <2>7
  <2>8. QED
    BY <2>6, <2>7
\* With the last user, the file is removed, unless there are several extractors.
<1>15. n = 0 => Users(P, X) = {m} /\ Own(P, X) = 0
  <2>1. SUFFICES ASSUME n = 0 PROVE Users(P, X) = {m} /\ Own(P, X) = 0
    OBVIOUS
  <2>2. Cardinality(Users(P, X) \ {m}) = 0 /\ Own(P, X) = 0
    <3> DEFINE c == Cardinality(Users(P, X) \ {m})
               o == Own(P, X)
    <3>1. c \in Nat /\ o \in Nat /\ c + o = 0
      BY <1>10, <1>11, <1>12, <2>1
    <3> HIDE DEF c, o
    <3>2. c = 0 /\ o = 0
      BY <3>1
    <3>3. QED
      BY <3>2 DEF c, o
  <2>3. Users(P, X) \ {m} = {}
    BY <1>10, <2>2, FS_EmptySet
  <2>4. QED
    BY <1>8, <2>2, <2>3
<1>16. n = 0 => Foreign(plan, P, X)
  <2>1. P # Antler => P \in Nodes
    BY <1>7
  <2>2. QED
    BY <1>6, <1>15, <2>1 DEF Own, Foreign
<1>17. n = 0 /\ X \notin shared => removed
  BY <1>1, <1>7, <1>14, <1>16 DEF DirInv
<1> HIDE DEF n
<1>18. removed => n = 0 /\ X \notin rest /\ disk' = disk \ {X}
  BY <1>13
<1>19. ~removed => rest = key[P] /\ disk' = disk
  BY <1>13
<1> HIDE DEF removed, rest
<1>20. /\ ref' \in [Procs -> [Platforms -> Nat]] /\ ref'[P][X] = n
       /\ \A q \in Procs, y \in Platforms : q # P \/ y # X => ref'[q][y] = ref[q][y]
       /\ key' \in [Procs -> SUBSET Platforms] /\ key'[P] = rest
       /\ \A q \in Procs : q # P => key'[q] = key[q]
  <2>1. ref \in [Procs -> [Platforms -> Nat]] /\ key \in [Procs -> SUBSET Platforms]
    BY <1>1 DEF TypeOK
  <2> HIDE DEF P, X
  <2>2. QED
    BY <1>7, <1>12, <1>13, <1>14, <2>1, CountFacts
<1>21. \A q \in Procs, y \in Platforms : q # P \/ y # X => (y \in key'[q] <=> y \in key[q])
  BY <1>14, <1>20
<1>22. RefInv'
  <2>1. ASSUME NEW q \in Procs, NEW y \in Platforms
        PROVE  /\ ref'[q][y] = Cardinality(Users(q, y)') + Own(q, y)'
               /\ ref'[q][y] > 0 => y \in key'[q]
               /\ y \in key'[q] => ref'[q][y] > 0 \/ y \in shared
    <3>1. Own(q, y)' = Own(q, y)
      BY <1>2, <1>6 DEF Own
    <3>2. CASE q = P /\ y = X
      <4>1. Users(q, y)' = Users(q, y) \ {m}
        BY <1>2, <1>6, <3>2 DEF Users, By
      <4>2. ref'[q][y] = Cardinality(Users(q, y)') + Own(q, y)'
        BY <1>12, <1>20, <3>1, <3>2, <4>1
      <4>3. ref'[q][y] > 0 => y \in key'[q]
        BY <1>14, <1>20, <3>2
      <4>4. y \in key'[q] => ref'[q][y] > 0 \/ y \in shared
        BY <1>12, <1>17, <1>18, <1>20, <3>2
      <4>5. QED
        BY <4>2, <4>3, <4>4
    <3>3. CASE q # P \/ y # X
      <4>1. Users(q, y)' = Users(q, y)
        BY <1>2, <1>6, <3>3 DEF Users, By
      <4>2. ref'[q][y] = ref[q][y] /\ (y \in key'[q] <=> y \in key[q])
        BY <1>20, <1>21, <3>3
      <4>3. QED
        BY <1>1, <3>1, <4>1, <4>2 DEF RefInv
    <3>4. QED
      BY <3>2, <3>3
  <2>2. QED
    BY <1>2, <2>1 DEF RefInv
\* The files of the other launches and processes are still there.
<1>23. disk' \subseteq disk /\ disk \subseteq disk' \cup {X} /\ tmpDir' \subseteq tmpDir
       /\ (disk' # {} => tmpDir' = tmpDir) /\ (tmpDir' # {} => tmpDir' = tmpDir)
       /\ exec' \subseteq exec
  BY <1>13, <1>18, <1>19
<1>24. ASSUME NEW k \in Holders \ {m}, Rooted(k), plan[k].platform \notin shared
       PROVE  /\ plan[k].platform \in disk' /\ plan[k].by \in tmpDir'
              /\ pc[k] = "up" => k \in exec'
  <2>1. plan[k].platform \in disk /\ plan[k].by \in tmpDir /\ (pc[k] = "up" => k \in exec)
    BY <1>1, <1>24 DEF DirInv
  <2>2. plan[k].platform \in disk'
    <3>1. CASE removed
      <4>1. plan[k].platform # X
        BY <1>2, <1>6, <1>15, <1>18, <1>24, <3>1, LastUser
      <4>2. QED
        BY <1>18, <2>1, <3>1, <4>1
    <3>2. CASE ~removed
      BY <1>19, <2>1, <3>2
    <3>3. QED
      BY <3>1, <3>2
  <2>3. QED
    BY <1>13, <1>23, <2>1, <2>2
<1>25. ASSUME NEW x \in Platforms \ shared, NEW p \in Procs, x \in key'[p], Foreign(plan, p, x)
       PROVE  x \in disk' /\ p \in tmpDir'
  <2>1. x \in key[p]
    BY <1>14, <1>20, <1>21, <1>25
  <2>2. x \in disk /\ p \in tmpDir
    BY <1>1, <1>25, <2>1 DEF DirInv
  <2>3. x \in disk'
    <3>1. CASE removed /\ x = X
      <4>1. p # P
        BY <1>18, <1>20, <1>25, <3>1
      <4>2. p \in Extractors(plan, X)
        BY <1>1, <1>2, <1>25, <2>1, <3>1, KeyHasUser
      <4>3. P \in Extractors(plan, X)
        BY <1>6, <1>16, <1>18, <3>1 DEF Extractors
      <4>4. Shared(plan) \subseteq shared
        BY <1>1 DEF DirInv
      <4>5. p = P
        BY <1>25, <3>1, <4>2, <4>3, <4>4, OneExtractor
      <4>6. QED
        BY <4>1, <4>5
    <3>2. CASE ~(removed /\ x = X)
      BY <1>18, <1>19, <2>2, <3>2
    <3>3. QED
      BY <3>1, <3>2
  <2>4. QED
    BY <1>23, <2>2, <2>3
<1>26. ASSUME NEW x \in Platforms \ shared, x \in disk', x \notin left
       PROVE  \E p \in Procs : x \in key'[p] /\ Foreign(plan, p, x)
  <2>1. PICK p \in Procs : x \in key[p] /\ Foreign(plan, p, x)
    BY <1>1, <1>23, <1>26 DEF DirInv
  <2>2. x \in key'[p]
    <3>1. CASE p = P /\ x = X
      <4>1. ~removed
        BY <1>18, <1>26, <3>1
      <4>2. QED
        BY <1>19, <1>20, <2>1, <3>1, <4>1
    <3>2. CASE p # P \/ x # X
      BY <1>21, <2>1, <3>2
    <3>3. QED
      BY <3>1, <3>2
  <2>3. QED
    BY <2>1, <2>2
\* The last launch of all removes the directory.
<1>27. ASSUME ~untidy, shared = {}, Holders' = {} PROVE tmpDir' = {}
  <2>1. crashed = {} /\ left = {}
    BY <1>1, <1>27 DEF DirInv
  <2>2. P = Antler
    <3>1. ASSUME P \in Nodes PROVE FALSE
      <4>1. P \in Holders
        BY <1>1, <1>6, <1>7, <2>1, <3>1, StackFacts DEF StackInv, Holders
      <4>2. QED
        BY <1>6, <1>7, <1>27, <4>1
    <3>2. QED
      BY <1>7, <3>1
  <2>3. ASSUME NEW y \in Platforms, NEW p \in Procs, y \in key'[p], Foreign(plan, p, y) PROVE FALSE
    <3>1. Own(p, y)' = 0
      BY <1>2, <1>6, <1>7, <2>3 DEF Own, Foreign
    <3>2. Users(p, y)' = {}
      BY <1>27 DEF Users
    <3>3. Cardinality(Users(p, y)') = 0
      BY <3>2, FS_EmptySet
    <3>4. ref'[p][y] = 0
      BY <1>22, <3>1, <3>3 DEF RefInv
    <3>5. QED
      BY <1>2, <1>22, <1>27, <2>3, <3>4 DEF RefInv
  <2>4. disk' = {}
    <3>1. disk' \subseteq Platforms
      BY <1>1, <1>23 DEF TypeOK
    <3>2. ASSUME NEW y \in disk' PROVE FALSE
      BY <1>26, <1>27, <2>1, <2>3, <3>1, <3>2
    <3>3. QED
      BY <3>2
  <2>5. rest = {}
    <3>1. ASSUME NEW y \in rest PROVE FALSE
      <4>1. y \in Platforms /\ y \in key'[P] /\ Foreign(plan, P, y)
        BY <1>14, <1>20, <2>2, <3>1 DEF Foreign
      <4>2. QED
        BY <1>7, <2>3, <4>1
    <3>2. QED
      BY <3>1
  <2>6. QED
    BY <1>13, <2>4, <2>5
<1>28. DirInv'
  <2>1. tmpDir' \subseteq Alive' /\ setup' \subseteq Alive'
    BY <1>1, <1>2, <1>6, <1>23 DEF DirInv
  <2>2. tmpDir' # {} \/ disk' # {} => Antler \in tmpDir'
    BY <1>1, <1>23 DEF DirInv
  <2>3. \A j \in exec' : pc'[j] = "up" /\ plan[j].platform \in disk' /\ j \in tmpDir'
    <3>1. ASSUME NEW j \in exec' PROVE pc'[j] = "up" /\ plan[j].platform \in disk' /\ j \in tmpDir'
      <4>1. plan[j].platform \in disk' /\ j \in exec
        BY <1>13
      <4>2. pc[j] = "up" /\ j \in tmpDir
        BY <1>1, <4>1 DEF DirInv
      <4>3. QED
        BY <1>2, <1>23, <4>1, <4>2
    <3>2. QED
      BY <3>1
  <2>4. ASSUME NEW j PROVE Rooted(j)' <=> Rooted(j)
    BY <1>2 DEF Rooted, Below, By
  <2>5. \A j \in Holders' : Rooted(j)' /\ plan[j].platform \notin shared =>
            /\ plan[j].platform \in disk' /\ plan[j].by \in tmpDir'
            /\ pc'[j] = "up" => j \in exec'
    BY <1>2, <1>6, <1>24, <2>4
  <2>6. ~untidy => /\ crashed = {} /\ left = {}
                   /\ shared = {} /\ tmpDir' # {} => Holders' # {}
    BY <1>1, <1>27 DEF DirInv
  <2>7. Shared(plan) \subseteq shared
    BY <1>1 DEF DirInv
  <2>8. QED
    BY <1>2, <1>25, <1>26, <2>1, <2>2, <2>3, <2>5, <2>6, <2>7 DEF DirInv
<1>29. TypeOK'
  <2>1. disk' \subseteq Platforms /\ tmpDir' \subseteq Procs /\ exec' \subseteq Nodes
    BY <1>1, <1>23 DEF TypeOK
  <2>2. QED
    BY <1>1, <1>2, <1>5, <1>20, <2>1 DEF TypeOK
<1>30. StackInv'
  <2>1. Stacked(<<>>, pc[m], plan[m].netns, m \in DOMAIN plan, m \in netns, m \in stale,
                plan[m].by \in crashed)
    BY <1>1, <1>2, <1>3, StackFacts DEF Stacked, StackedAt, Resting
  <2>2. QED
    BY <1>1, <1>2, <1>5, <2>1, StackStep DEF StackedAt
<1>31. TreeInv'
  BY <1>1, <1>2, <1>6 DEF TreeInv
<1>32. SrcInv'
  <2>1. ASSUME NEW j \in Nodes PROVE PlatformsBelow(j)' = PlatformsBelow(j)
    BY <1>2 DEF PlatformsBelow, Below, By
  <2>2. QED
    BY <1>1, <1>2, <2>1 DEF SrcInv
<1>33. QED
  BY <1>22, <1>28, <1>29, <1>30, <1>31, <1>32 DEF LaunchInv

-----------------------------------------------------------------------------
(* All steps.                                                              *)

\* When all launches are at rest, no executable is used and only antler runs.
LEMMA AllResting ==
    ASSUME LaunchInv, \A m \in Nodes : pc[m] \in Resting
    PROVE  /\ Holders = {} /\ Alive = {Antler} /\ exec = {}
           /\ \A p \in Procs, x \in Platforms : ref[p][x] = 0 /\ (x \in key[p] => x \in shared)
           /\ disk \subseteq left \cup shared
           /\ ~untidy => left = {} /\ (shared = {} => tmpDir = {})
           /\ \A m \in netns : m \in stale
<1>1. TypeOK /\ StackInv /\ RefInv /\ DirInv
  BY DEF LaunchInv
<1>2. Holders = {}
  BY <1>1 DEF StackInv, Holders
<1>3. Alive = {Antler} /\ exec = {}
  <2>1. \A m \in Nodes : pc[m] # "up"
    BY DEF Resting
  <2>2. QED
    BY <1>1, <2>1 DEF Alive, DirInv, TypeOK
<1>4. ASSUME NEW p \in Procs, NEW x \in Platforms PROVE ref[p][x] = 0 /\ (x \in key[p] => x \in shared)
  <2>1. /\ ref[p][x] = Cardinality(Users(p, x)) + Own(p, x)
        /\ x \in key[p] => ref[p][x] > 0 \/ x \in shared
    BY <1>1 DEF RefInv
  <2>2. Users(p, x) = {} /\ Own(p, x) = 0
    BY <1>2, <1>3, LaunchAssumption DEF Users, Own
  <2>3. Cardinality(Users(p, x)) = 0
    BY <2>2, FS_EmptySet
  <2>4. QED
    BY <2>1, <2>2, <2>3
<1>5. disk \subseteq left \cup shared
  BY <1>1, <1>4 DEF DirInv, TypeOK
<1>6. ~untidy => left = {} /\ (shared = {} => tmpDir = {})
  BY <1>1, <1>2 DEF DirInv
<1>7. ASSUME NEW m \in netns PROVE m \in stale
  <2>1. m \in Nodes /\ stack[m] = <<>>
    BY <1>1 DEF TypeOK, StackInv
  <2>2. QED
    BY <1>1, <2>1, StackFacts DEF StackInv
<1>8. QED
  BY <1>2, <1>3, <1>4, <1>5, <1>6, <1>7

\* A state in which no launch of the test has begun.
FreshState ==
    /\ TypeOK
    /\ \A m \in Nodes : pc[m] = "none" /\ stack[m] = <<>>
    /\ \A m \in netns : m \in stale
    /\ \A p \in Procs, x \in Platforms : ref[p][x] = 0 /\ (x \in key[p] => x \in shared)
    /\ src[Antler] = Platforms /\ setup = {Antler} /\ crashed = {} /\ exec = {}
    /\ tmpDir \subseteq {Antler} /\ (tmpDir # {} \/ disk # {} => Antler \in tmpDir)
    /\ disk \subseteq left \cup shared /\ Shared(plan) \subseteq shared
    /\ ~untidy => left = {} /\ (shared = {} => tmpDir = {})

\* The invariant holds there.
LEMMA Fresh == FreshState => LaunchInv
<1> SUFFICES ASSUME FreshState PROVE LaunchInv
  OBVIOUS
<1>0. /\ TypeOK
      /\ \A m \in Nodes : pc[m] = "none" /\ stack[m] = <<>>
      /\ \A m \in netns : m \in stale
      /\ \A p \in Procs, x \in Platforms : ref[p][x] = 0 /\ (x \in key[p] => x \in shared)
      /\ src[Antler] = Platforms /\ setup = {Antler} /\ crashed = {} /\ exec = {}
      /\ tmpDir \subseteq {Antler} /\ (tmpDir # {} \/ disk # {} => Antler \in tmpDir)
      /\ disk \subseteq left \cup shared /\ Shared(plan) \subseteq shared
      /\ ~untidy => left = {} /\ (shared = {} => tmpDir = {})
  BY DEF FreshState
<1>1. Holders = {} /\ Alive = {Antler} /\ Antler \notin Nodes
  BY <1>0, LaunchAssumption DEF Holders, Alive
<1>2. StackInv
  BY <1>0, StackFacts DEF StackInv, Resting
<1>3. TreeInv
  BY <1>0, <1>1 DEF TreeInv
<1>4. RefInv
  <2>1. ASSUME NEW p \in Procs, NEW x \in Platforms
        PROVE  /\ ref[p][x] = Cardinality(Users(p, x)) + Own(p, x)
               /\ ref[p][x] > 0 => x \in key[p]
               /\ x \in key[p] => ref[p][x] > 0 \/ x \in shared
    <3>1. Users(p, x) = {} /\ Own(p, x) = 0
      BY <1>1 DEF Users, Own
    <3>2. Cardinality(Users(p, x)) = 0
      BY <3>1, FS_EmptySet
    <3>3. QED
      BY <1>0, <3>1, <3>2
  <2>2. QED
    BY <2>1 DEF RefInv
<1>5. DirInv
  <2>1. \A x \in Platforms \ shared :
          /\ \A p \in Procs : x \notin key[p]
          /\ x \in disk => x \in left
    BY <1>0
  <2>2. QED
    BY <1>0, <1>1, <2>1 DEF DirInv
<1>6. SrcInv
  BY <1>0, <1>1 DEF SrcInv
<1>7. QED
  BY <1>0, <1>2, <1>3, <1>4, <1>5, <1>6 DEF LaunchInv

\* The next test begins.
LEMMA NextTestStep ==
    ASSUME LaunchInv, NextTest
    PROVE  LaunchInv'
<1>1. /\ \A m \in Nodes : pc[m] \in Resting
      /\ plan' \in Plans /\ pc' = [m \in Nodes |-> "none"]
      /\ setup' = {Antler} /\ crashed' = {} /\ shared' = shared \cup Shared(plan')
      /\ UNCHANGED <<stack, src, key, ref, tmpDir, disk, exec, left, netns, stale, untidy>>
  BY DEF NextTest, repoVars
<1>2. /\ Holders = {} /\ Alive = {Antler} /\ exec = {}
      /\ \A p \in Procs, x \in Platforms : ref[p][x] = 0 /\ (x \in key[p] => x \in shared)
      /\ disk \subseteq left \cup shared
      /\ ~untidy => left = {} /\ (shared = {} => tmpDir = {})
      /\ \A m \in netns : m \in stale
  BY <1>1, AllResting
<1>3. TypeOK'
  <2>1. shared' \subseteq Platforms /\ setup' \subseteq Procs /\ crashed' \subseteq Nodes
    BY <1>1 DEF LaunchInv, TypeOK, Shared, Procs
  <2>2. QED
    BY <1>1, <2>1 DEF LaunchInv, TypeOK
<1>4. \A m \in Nodes : pc'[m] = "none" /\ stack'[m] = <<>>
  BY <1>1, <1>2 DEF Holders
<1>5. /\ src'[Antler] = Platforms /\ tmpDir' \subseteq {Antler}
      /\ tmpDir' # {} \/ disk' # {} => Antler \in tmpDir'
  BY <1>1, <1>2 DEF LaunchInv, SrcInv, DirInv
<1>6. /\ \A m \in netns' : m \in stale'
      /\ \A p \in Procs, x \in Platforms : ref'[p][x] = 0 /\ (x \in key'[p] => x \in shared')
      /\ disk' \subseteq left' \cup shared' /\ Shared(plan)' \subseteq shared' /\ exec' = {}
      /\ ~untidy' => left' = {} /\ (shared' = {} => tmpDir' = {})
  BY <1>1, <1>2
<1>7. FreshState'
  BY <1>1, <1>3, <1>4, <1>5, <1>6 DEF FreshState
<1>8. QED
  BY <1>7, Fresh, PTL

\* At the start.
LEMMA InitInv ==
    ASSUME Init
    PROVE  LaunchInv
<1>1. Antler \in Procs /\ 0 \in Nat
  BY DEF Procs
<1>2. ref \in [Procs -> [Platforms -> Nat]]
  BY <1>1 DEF Init
<1>3. stack \in [Nodes -> Seq({"exe", "netns"})]
  BY StackFacts DEF Init
<1>4. src \in [Procs -> SUBSET Platforms] /\ src[Antler] = Platforms
  BY <1>1 DEF Init
<1>5. shared \subseteq Platforms /\ setup \subseteq Procs
  BY <1>1 DEF Init, Shared
<1>6. TypeOK
  BY <1>2, <1>3, <1>4, <1>5 DEF Init, TypeOK
<1>7. QED
  BY <1>4, <1>6, Fresh DEF Init, FreshState

\* Every step keeps the invariant.
LEMMA StepInv ==
    ASSUME LaunchInv, [Next]_vars
    PROVE  LaunchInv'
<1>1. ASSUME UNCHANGED vars PROVE LaunchInv'
  <2>1. UNCHANGED <<plan, pc, stack, setup, key, ref, src, tmpDir, disk, exec, left, netns, crashed,
                   stale, shared, untidy>>
    BY <1>1 DEF vars, repoVars
  <2>2. Holders' = Holders /\ Alive' = Alive
    BY <2>1 DEF Holders, Alive
  <2>3. TypeOK' /\ StackInv'
    BY <2>1 DEF LaunchInv, TypeOK, StackInv
  <2>4. \A j \in crashed : pc'[j] \notin {"none", "netns", "start", "up"}
    BY <2>1 DEF LaunchInv, TreeInv
  <2>5. QED
    BY <2>1, <2>2, <2>3, <2>4, SameFiles
<1>2. ASSUME NEW m \in Nodes,
             \/ LaunchNode(m) \/ LaunchFails(m) \/ AddNetns(m) \/ StartCmd(m)
             \/ Exit(m) \/ Crash(m) \/ Wait(m)
             \/ CloserNetns(m) \/ CloserExe(m) \/ ClosersDone(m)
      PROVE  LaunchInv'
  BY <1>2, LaunchNodeStep, LaunchFailsStep, AddNetnsStep, StartCmdStep, ExitStep, CrashStep,
     WaitStep, CloserNetnsStep, CloserExeStep
<1>3. QED
  BY <1>1, <1>2, NextTestStep DEF Next

\* fileRef of every process agrees with the launches that use the common
\* directory, the closer stacks with the namespaces, and the files on disk with
\* both, but for what several extractors of a platform and processes that crash
\* leave: LaunchInv holds in every state of exeRepo and Local.launch.
THEOREM LaunchCorrect == Spec => []LaunchInv
<1>1. Init => LaunchInv
  BY InitInv
<1>2. LaunchInv /\ [Next]_vars => LaunchInv'
  BY StepInv
<1>3. QED
  BY <1>1, <1>2, PTL DEF Spec

\* An executable is there, and the file its process was started from, for as long
\* as a launch or that process needs it, unless two processes extract it or one
\* above has crashed; a namespace is, and a setup has a source for all that it is
\* to launch.
THEOREM ExeThereAlways == Spec => []ExeThere
<1>1. ASSUME LaunchInv PROVE ExeThere
  <2>1. TypeOK /\ StackInv /\ DirInv /\ SrcInv /\ plan \in Plans
    BY <1>1 DEF LaunchInv, TypeOK
  <2>2. ASSUME NEW m \in Nodes, pc[m] \in {"netns", "start", "up"}, Rooted(m),
               plan[m].platform \notin shared
        PROVE  /\ plan[m].platform \in disk /\ plan[m].by \in tmpDir
               /\ pc[m] = "up" => m \in exec
    <3>1. m \in DOMAIN plan
      BY <2>1, <2>2 DEF StackInv
    <3>2. plan[m].by \notin crashed
      BY <2>2, <3>1, RootedUp
    <3>3. m \in Holders
      BY <2>1, <2>2, <3>2, StackFacts DEF StackInv, Holders
    <3>4. QED
      BY <2>1, <2>2, <3>3 DEF DirInv
  <2>3. ASSUME NEW m \in Nodes, pc[m] = "up", plan[m].netns PROVE m \in netns
    BY <2>1, <2>3 DEF StackInv
  <2>4. ASSUME NEW m \in Nodes, m \in DOMAIN plan, plan[m].by \in setup
        PROVE  {plan[m].platform} \cup PlatformsBelow(m) \subseteq src[plan[m].by]
    <3>1. CASE plan[m].by = Antler
      <4>1. PlatformsBelow(m) \subseteq Platforms /\ plan[m].platform \in Platforms
        BY <2>1, <2>4, PlanFacts DEF PlatformsBelow, Below
      <4>2. QED
        BY <2>1, <3>1, <4>1 DEF SrcInv
    <3>2. CASE plan[m].by # Antler
      <4>1. plan[m].by \in Nodes \cap setup
        BY <2>1, <2>4, <3>2, PlanFacts
      <4>2. m \in By(plan[m].by)
        BY <2>4 DEF By
      <4>3. {plan[m].platform} \cup PlatformsBelow(m) \subseteq PlatformsBelow(plan[m].by)
        BY <4>2, BelowFacts
      <4>4. QED
        BY <2>1, <4>1, <4>3 DEF SrcInv
    <3>3. QED
      BY <3>1, <3>2
  <2>5. QED
    BY <2>2, <2>3, <2>4 DEF ExeThere
<1>2. QED
  BY <1>1, LaunchCorrect, PTL

\* When all nodes of a test are gone, so are the executables, the directory and
\* the namespaces, whatever launches failed and in whatever order nodes ended,
\* save what failed extractions, crashed processes, closers that failed and
\* several extractors of a platform have left.
THEOREM CleanedUpAlways == Spec => []CleanedUp
<1>1. ASSUME LaunchInv PROVE CleanedUp
  BY <1>1, AllResting DEF CleanedUp
<1>2. QED
  BY <1>1, LaunchCorrect, PTL
=============================================================================
