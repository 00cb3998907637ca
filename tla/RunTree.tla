------------------------------ MODULE RunTree ------------------------------
(***************************************************************************)
(* A Run and the Runs below it, as one node executes them (node/run.go):   *)
(* the goroutines of Serial, Parallel, Schedule, ClosedLoopActor and       *)
(* Random, and the runners and Child Runs at the leaves.                   *)
(*                                                                         *)
(* A Run is a number, its position in the sequence tree; the root, which   *)
(* handleRuns calls, is 1.  A duration is a timer that may fire at any     *)
(* time.  Feedback is left out: merge, as it is written, ranges over the   *)
(* Feedback it merges into, so into the empty one that every list starts   *)
(* with it adds nothing, and it never reports a conflict.                  *)
(***************************************************************************)
EXTENDS Naturals, Sequences, FiniteSets

CONSTANT Trees   \* the trees of Runs to execute

Lists == {"Serial", "Parallel", "Schedule", "ClosedLoopActor", "Random"}
Leaves == {"Child", "Runner", "Empty"}

\* A Run has one kind: Validate refuses a Run with two of its fields set, and
\* allows one with none, here Empty.  No Run is in two lists.  Sequential is a
\* field of Schedule, Weights of Random.
Valid(t) ==
    /\ Len(t) \in Nat \ {0} /\ DOMAIN t = 1 .. Len(t)
    /\ \A n \in DOMAIN t :
          /\ t[n].kind \in Lists \cup Leaves
          /\ t[n].runs \in Seq(n + 1 .. Len(t))
          /\ t[n].kind \in {"Serial", "Parallel", "Random"} => t[n].runs # <<>>
          /\ t[n].kind \in {"ClosedLoopActor", "Child"} => Len(t[n].runs) = 1
          /\ t[n].kind \in {"Runner", "Empty"} => t[n].runs = <<>>
          /\ t[n].sequential \in BOOLEAN
          /\ t[n].sequential => t[n].kind = "Schedule"
          /\ t[n].weights \in Seq(Nat)
          /\ t[n].weights # <<>> => Len(t[n].weights) = Len(t[n].runs)
    /\ \A m, n \in DOMAIN t :
          \A i \in DOMAIN t[m].runs, j \in DOMAIN t[n].runs :
             t[m].runs[i] = t[n].runs[j] => m = n /\ i = j

ASSUME TreesAssumption == \A t \in Trees : Valid(t)

VARIABLES
    tree,   \* the Run to execute
    ctx,    \* "live", then "done" once the node's context is canceled
    err,    \* the node has taken an errorEvent
    pc,     \* "idle", "run", "error" while a runner's errorEvent is to be
            \* taken, "done" once run has returned, "joined" once the caller
            \* has the result
    ok,     \* the result so far
    at,     \* the number of Runs started, or the one that Random picked
    dc,     \* Schedule: dc is not nil
    w       \* the timer w is set, or has fired and was not received from

vars == <<tree, ctx, err, pc, ok, at, dc, w>>

Ids == DOMAIN tree
Is(n, kind) == tree[n].kind = kind
RunsOf(t, n) == {t[n].runs[i] : i \in DOMAIN t[n].runs}
Kids(n) == RunsOf(tree, n)
Count(n) == Len(tree[n].runs)

\* The Runs of n that were started and whose result was not received.
Outstanding(n) == {k \in Kids(n) : pc[k] \in {"run", "error", "done"}}

\* In a Schedule the timer is set only while there is a Run for it to start:
\* s.Run[i] is in range.
TypeOK ==
    /\ tree \in Trees
    /\ ctx \in {"live", "done"} /\ err \in BOOLEAN
    /\ pc \in [Ids -> {"idle", "run", "error", "done", "joined"}]
    /\ ok \in [Ids -> BOOLEAN]
    /\ at \in [Ids -> Nat] /\ \A n \in Ids : at[n] <= Count(n)
    /\ dc \in [Ids -> BOOLEAN] /\ w \in [Ids -> BOOLEAN]
    /\ \A n \in Ids :
          Is(n, "Schedule") /\ pc[n] = "run" /\ w[n] /\ Outstanding(n) # {} =>
             at[n] < Count(n)

\* handleRuns calls run on the root.
Init ==
    /\ tree \in Trees
    /\ ctx = "live" /\ err = FALSE
    /\ pc = [n \in Ids |-> IF n = 1 THEN "run" ELSE "idle"]
    /\ ok = [n \in Ids |-> TRUE]
    /\ at = [n \in Ids |-> 0]
    /\ dc = [n \in Ids |-> TRUE]
    /\ w = [n \in Ids |-> TRUE]

-----------------------------------------------------------------------------
(* The nodes that setup launches (node/tree.go).                           *)

\* Mutant: the Runs of a ClosedLoopActor and a Random are not visited.
buildTreeNoRandom(t) ==
    LET b[n \in DOMAIN t] ==
            LET below == UNION {b[k] : k \in RunsOf(t, n)} IN
            IF t[n].kind = "Child"
            THEN {<<t[n].node>>} \cup {<<t[n].node>> \o p : p \in below}
            ELSE IF t[n].kind \in {"ClosedLoopActor", "Random"} THEN {} ELSE below
    IN  b

\* buildTree, for each Run.  A tree of nodes is the set of the paths in it: a
\* node that is found again at its place is not added twice.
buildTree(t) ==
    LET b[n \in DOMAIN t] ==
            LET below == UNION {b[k] : k \in RunsOf(t, n)} IN
            IF t[n].kind = "Child"
            THEN {<<t[n].node>>} \cup {<<t[n].node>> \o p : p \in below}
            ELSE below
    IN  b

NewTree(t) == buildTree(t)[1]

-----------------------------------------------------------------------------
(* Starting Runs and receiving their results.                              *)

\* run is called for the Runs S of n, of which i have then been started, and
\* the timer of n is set again or not: each enters do of its kind.
Start(n, S, i, timer) ==
    /\ pc' = [m \in Ids |-> IF m \in S THEN "run"
                            ELSE IF \E k \in S : m \in Kids(k) THEN "idle"
                            ELSE pc[m]]
    /\ ok' = [m \in Ids |-> m \in S \/ ok[m]]
    /\ at' = [m \in Ids |-> IF m = n THEN i ELSE IF m \in S THEN 0 ELSE at[m]]
    /\ dc' = [m \in Ids |-> m \in S \/ dc[m]]
    /\ w' = [m \in Ids |-> IF m = n THEN timer ELSE m \in S \/ w[m]]
    /\ UNCHANGED <<tree, ctx, err>>

\* Mutant: the last result received decides, as in "ok = d.ok".
JoinOverwrites(n, k) ==
    /\ pc[n] = "run" /\ k \in Kids(n) /\ pc[k] = "done"
    /\ pc' = [pc EXCEPT ![k] = "joined"]
    /\ ok' = [ok EXCEPT ![n] = ok[k]]
    /\ w' = [w EXCEPT ![n] = @ \/ Is(n, "ClosedLoopActor")
                               \/ /\ Is(n, "Schedule") /\ tree[n].sequential
                                  /\ dc[n] /\ ok[k] /\ at[n] < Count(n)]
    /\ UNCHANGED <<tree, ctx, err, at, dc>>

\* The result of k is received, from the call or from the channel.  The timer
\* is set again by ClosedLoopActor, and by a sequential Schedule that goes on.
Join(n, k) ==
    /\ pc[n] = "run" /\ k \in Kids(n) /\ pc[k] = "done"
    /\ pc' = [pc EXCEPT ![k] = "joined"]
    /\ ok' = [ok EXCEPT ![n] = @ /\ ok[k]]
    /\ w' = [w EXCEPT ![n] = @ \/ Is(n, "ClosedLoopActor")
                               \/ /\ Is(n, "Schedule") /\ tree[n].sequential
                                  /\ dc[n] /\ ok[n] /\ ok[k]
                                  /\ at[n] < Count(n)]
    /\ UNCHANGED <<tree, ctx, err, at, dc>>

\* The Run n returns.
Finish(n, result) ==
    /\ pc' = [pc EXCEPT ![n] = "done"]
    /\ ok' = [ok EXCEPT ![n] = result]
    /\ UNCHANGED <<tree, ctx, err, at, dc, w>>

-----------------------------------------------------------------------------
(* Serial.do.                                                              *)

SerialNext(n) ==
    /\ pc[n] = "run" /\ Is(n, "Serial")
    /\ Outstanding(n) = {} /\ ok[n] /\ at[n] < Count(n)
    /\ Start(n, {tree[n].runs[at[n] + 1]}, at[n] + 1, FALSE)

SerialReturn(n) ==
    /\ pc[n] = "run" /\ Is(n, "Serial")
    /\ Outstanding(n) = {} /\ (~ok[n] \/ at[n] = Count(n))
    /\ Finish(n, ok[n])

-----------------------------------------------------------------------------
(* Parallel.do: a goroutine for each Run, and as many results received.    *)

ParallelStart(n) ==
    /\ pc[n] = "run" /\ Is(n, "Parallel") /\ at[n] = 0
    /\ Start(n, Kids(n), Count(n), FALSE)

ParallelReturn(n) ==
    /\ pc[n] = "run" /\ Is(n, "Parallel") /\ at[n] = Count(n)
    /\ Outstanding(n) = {}
    /\ Finish(n, ok[n])

-----------------------------------------------------------------------------
(* Schedule.do: a select over the timer, the results and the context.      *)

\* Mutant: do does not wait for the Runs that it started.
LoopsNoWait(n) == at[n] < Count(n) /\ dc[n] /\ ok[n]

\* The condition of the loop.
Loops(n) == \/ at[n] < Count(n) /\ dc[n] /\ ok[n]
            \/ Outstanding(n) # {}

\* Mutant: the timer of a sequential Schedule is set when a Run starts.
ScheduleTimerResets(n) ==
    /\ pc[n] = "run" /\ Is(n, "Schedule") /\ Loops(n) /\ w[n]
    /\ IF dc[n] /\ ok[n]
       THEN Start(n, {tree[n].runs[at[n] + 1]}, at[n] + 1, at[n] + 1 < Count(n))
       ELSE w' = [w EXCEPT ![n] = FALSE]
            /\ UNCHANGED <<tree, ctx, err, pc, ok, at, dc>>

\* Mutant: the timer is set again after the last Run.
ScheduleTimerPast(n) ==
    /\ pc[n] = "run" /\ Is(n, "Schedule") /\ Loops(n) /\ w[n]
    /\ IF dc[n] /\ ok[n]
       THEN Start(n, {tree[n].runs[at[n] + 1]}, at[n] + 1, ~tree[n].sequential)
       ELSE w' = [w EXCEPT ![n] = FALSE]
            /\ UNCHANGED <<tree, ctx, err, pc, ok, at, dc>>

\* The timer has fired: the next Run is started, unless one has failed or the
\* context is done.
ScheduleTimer(n) ==
    /\ pc[n] = "run" /\ Is(n, "Schedule") /\ Loops(n) /\ w[n]
    /\ IF dc[n] /\ ok[n]
       THEN Start(n, {tree[n].runs[at[n] + 1]}, at[n] + 1,
                  at[n] + 1 < Count(n) /\ ~tree[n].sequential)
       ELSE w' = [w EXCEPT ![n] = FALSE]
            /\ UNCHANGED <<tree, ctx, err, pc, ok, at, dc>>

ScheduleCanceled(n) ==
    /\ pc[n] = "run" /\ Is(n, "Schedule") /\ Loops(n) /\ dc[n] /\ ctx = "done"
    /\ dc' = [dc EXCEPT ![n] = FALSE]
    /\ UNCHANGED <<tree, ctx, err, pc, ok, at, w>>

ScheduleReturn(n) ==
    /\ pc[n] = "run" /\ Is(n, "Schedule") /\ ~Loops(n)
    /\ Finish(n, ok[n])

-----------------------------------------------------------------------------
(* ClosedLoopActor.do: the Run is called in the loop, again and again.     *)

ThinkingDone(n) ==
    /\ pc[n] = "run" /\ Is(n, "ClosedLoopActor")
    /\ Outstanding(n) = {} /\ ok[n] /\ w[n]
    /\ Start(n, Kids(n), 1, FALSE)

\* Mutant: cancel is not looked at.
ActorCanceledNever(n) == FALSE

ActorCanceled(n) ==
    /\ pc[n] = "run" /\ Is(n, "ClosedLoopActor")
    /\ Outstanding(n) = {} /\ ok[n] /\ ctx = "done"
    /\ Finish(n, ok[n])

\* The lifetime of the actor is over, or its Run has failed.
ActorReturn(n) ==
    /\ pc[n] = "run" /\ Is(n, "ClosedLoopActor")
    /\ Outstanding(n) = {}
    /\ Finish(n, ok[n])

-----------------------------------------------------------------------------
(* Random.do: sampleRun, then run of the Run that it picked.               *)

\* cumulativeWeights.
Cumulative(weights) ==
    LET c[i \in DOMAIN weights] ==
            weights[i] + (IF i = 1 THEN 0 ELSE c[i - 1])
    IN  c

\* Mutant: the search stops at a weight that equals the random value.
SearchEqual(cumulative, v) ==
    LET s[r \in (DOMAIN cumulative) \X (DOMAIN cumulative)] ==
            LET low == r[1]
                high == r[2]
                mid == (low + high) \div 2
            IN
            IF low >= high THEN low
            ELSE IF cumulative[mid] < v THEN s[<<mid + 1, high>>] ELSE s[<<low, mid>>]
    IN  s[<<1, Len(cumulative)>>]

\* The binary search for the first weight greater than the random value v.
Search(cumulative, v) ==
    LET s[r \in (DOMAIN cumulative) \X (DOMAIN cumulative)] ==
            LET low == r[1]
                high == r[2]
                mid == (low + high) \div 2
            IN
            IF low >= high THEN low
            ELSE IF cumulative[mid] <= v THEN s[<<mid + 1, high>>] ELSE s[<<low, mid>>]
    IN  s[<<1, Len(cumulative)>>]

\* The positions that sampleRun may return: one random value is drawn, below
\* the sum of the weights; it is 0 if the sum is.
Samples(n) ==
    IF tree[n].weights = <<>>
    THEN DOMAIN tree[n].runs
    ELSE LET c == Cumulative(tree[n].weights)
             sum == c[Count(n)]
         IN  {Search(c, v) : v \in IF sum = 0 THEN {0} ELSE 0 .. sum - 1}

RandomStart(n) ==
    /\ pc[n] = "run" /\ Is(n, "Random") /\ at[n] = 0
    /\ \E i \in Samples(n) : Start(n, {tree[n].runs[i]}, i, FALSE)

RandomReturn(n) ==
    /\ pc[n] = "run" /\ Is(n, "Random") /\ at[n] # 0
    /\ Outstanding(n) = {}
    /\ Finish(n, ok[n])

-----------------------------------------------------------------------------
(* Runners.do and Child.do.                                                *)

\* No runner is set.
EmptyReturn(n) ==
    /\ pc[n] = "run" /\ Is(n, "Empty")
    /\ Finish(n, TRUE)

RunnerReturn(n) ==
    /\ pc[n] = "run" /\ Is(n, "Runner")
    /\ Finish(n, TRUE)

\* The runner returns an error, which goes to the event channel first.
RunnerFail(n) ==
    /\ pc[n] = "run" /\ Is(n, "Runner")
    /\ pc' = [pc EXCEPT ![n] = "error"]
    /\ UNCHANGED <<tree, ctx, err, ok, at, dc, w>>

ErrorTaken(n) ==
    /\ pc[n] = "error"
    /\ err' = TRUE
    /\ pc' = [pc EXCEPT ![n] = "done"]
    /\ ok' = [ok EXCEPT ![n] = FALSE]
    /\ UNCHANGED <<tree, ctx, at, dc, w>>

\* The reply of the child node, which a conn gives in every case (Conn).
ChildReply(n) ==
    /\ pc[n] = "run" /\ Is(n, "Child")
    /\ \E result \in BOOLEAN : Finish(n, result)

\* The node cancels its context: on an error, on cancel from the parent, or
\* on an interrupt.
Cancel ==
    /\ ctx = "live"
    /\ ctx' = "done"
    /\ UNCHANGED <<tree, err, pc, ok, at, dc, w>>

-----------------------------------------------------------------------------
Step(n) ==
    \/ \E k \in Kids(n) : Join(n, k)
    \/ SerialNext(n) \/ SerialReturn(n)
    \/ ParallelStart(n) \/ ParallelReturn(n)
    \/ ScheduleTimer(n) \/ ScheduleCanceled(n) \/ ScheduleReturn(n)
    \/ ThinkingDone(n) \/ ActorCanceled(n) \/ ActorReturn(n)
    \/ RandomStart(n) \/ RandomReturn(n)
    \/ EmptyReturn(n) \/ RunnerReturn(n) \/ RunnerFail(n) \/ ErrorTaken(n)
    \/ ChildReply(n)

Next ==
    \/ \E n \in Ids : Step(n)
    \/ Cancel
    \/ pc[1] = "done" /\ UNCHANGED vars

Spec == Init /\ [][Next]_vars

\* Where a tree may have a ClosedLoopActor.
Actors == UNION {{i \in DOMAIN t : t[i].kind = "ClosedLoopActor"} : t \in Trees}

\* The event loop takes each errorEvent and the node cancels the context (see
\* Node); once it is done runners and children return (the contract of the runner
\* interface, and Conn); and a select takes each of its ready cases in the end,
\* so that an actor that thinks again and again sees that the context is done.
Fairness ==
    /\ WF_vars(\E n \in Ids : ErrorTaken(n)) /\ WF_vars(err /\ Cancel)
    /\ WF_vars(ctx = "done" /\ \E n \in Ids : Step(n))
    /\ \A i \in Actors : SF_vars(i \in Ids /\ ActorCanceled(i))

FairSpec == Spec /\ Fairness

-----------------------------------------------------------------------------
(* Properties.                                                             *)

\* No Run returns while a goroutine of it is left: once run has returned, the
\* Runs below it have returned too, and their results were received (else a
\* goroutine waits to send on a channel that nobody receives from, or sends
\* events after runsDone).  And one that returns OK has no Run below it that
\* returned a failure, in whatever order the results came, and has executed all
\* that it lists, unless the context was canceled meanwhile: then Schedule
\* returns OK early.
ReturnMeansDone ==
    \A n \in Ids : pc[n] \in {"done", "joined"} =>
       /\ Outstanding(n) = {}
       /\ ok[n] =>
             /\ \A k \in Kids(n) : pc[k] = "joined" => ok[k]
             /\ tree[n].kind \in {"Serial", "Parallel", "Schedule"} /\ ctx = "live" =>
                   \A k \in Kids(n) : pc[k] = "joined"

\* Run i of list n is started in turn: no result that was received is a failure;
\* in a Serial and a sequential Schedule the results of all before it, and of no
\* later one, were received; and Random does not pick one of weight 0.
InTurn(n, i) ==
    /\ \A k \in Kids(n) : pc[k] = "joined" => ok[k]
    /\ Is(n, "Serial") \/ tree[n].sequential =>
          \A j \in DOMAIN tree[n].runs :
             pc[tree[n].runs[j]] = IF j < i THEN "joined" ELSE "idle"
    /\ Is(n, "Random") /\ (\E j \in DOMAIN tree[n].weights : tree[n].weights[j] > 0) =>
          tree[n].weights[i] > 0

\* Once the result of a failed Run was received, the Serial, Schedule or
\* ClosedLoopActor that lists it starts no other, whatever timer is set; Serial
\* and a sequential Schedule start a Run when the results of all before it, and
\* of no later one, were received; and Random with weights never starts a Run of
\* weight 0 (one that a user has switched off), whichever value is drawn.
StartsInTurn ==
    [][\A n \in Ids : ~Is(n, "Parallel") =>
          \A i \in DOMAIN tree[n].runs :
             pc[tree[n].runs[i]] \in {"idle", "joined"} /\ pc'[tree[n].runs[i]] = "run" =>
                InTurn(n, i)]_vars

\* Child.do finds the conn of its node: setup has launched it.  The Run given
\* to the child is a tree of its own, whose nodes are those launched below it.
NodeLaunched ==
    \A n \in Ids : pc[n] = "run" /\ Is(n, "Child") =>
       LET node == tree[n].node
           Root(k) == [tree EXCEPT ![1] = tree[k]]
       IN  /\ <<node>> \in NewTree(tree)
           /\ \A k \in Kids(n) : \A p \in NewTree(Root(k)) :
                 <<node>> \o p \in NewTree(tree)

\* Once the context is canceled the Run returns, whatever lists, timers and
\* loops it is made of.
TreeEnds == ctx = "done" ~> pc[1] = "done"

-----------------------------------------------------------------------------
(* The inductive invariant; RunTreeProofs proves it.                       *)

\* What list n has started: those up to at[n], or the one that Random picked.
Started(n, i) == IF Is(n, "Random") THEN i = at[n] ELSE i <= at[n]

ListInv ==
    \A n \in Ids :
       /\ pc[n] # "run" => Outstanding(n) = {}
       /\ \A i \in DOMAIN tree[n].runs : pc[tree[n].runs[i]] # "idle" <=> Started(n, i)
       /\ tree[n].kind \in Leaves => at[n] = 0
       /\ ok[n] => \A k \in Kids(n) : pc[k] = "joined" => ok[k]
       /\ ctx = "live" => dc[n]
       /\ /\ pc[n] \in {"done", "joined"} /\ ok[n] /\ ctx = "live"
          /\ tree[n].kind \in {"Serial", "Parallel", "Schedule"}
          => at[n] = Count(n)

\* A sequential Schedule has one Run at a time, and no timer set meanwhile.
SequentialInv ==
    \A n \in Ids : tree[n].sequential =>
       /\ w[n] => Outstanding(n) = {}
       /\ \A i \in DOMAIN tree[n].runs : tree[n].runs[i] \in Outstanding(n) => i = at[n]

\* The nodes of a Run that is executed are those that setup has launched.
PathInv ==
    \A n \in Ids : pc[n] # "idle" => buildTree(tree)[n] \subseteq NewTree(tree)

\* All of this holds always: what do of each list has started, received and
\* counted agrees with the goroutines that there are.
RunInv == TypeOK /\ ListInv /\ SequentialInv /\ PathInv
============================================================================
