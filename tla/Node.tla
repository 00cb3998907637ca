-------------------------------- MODULE Node --------------------------------
(***************************************************************************)
(* A node: the event loop of node/node.go with its four states, and the    *)
(* goroutines that feed it through the unbuffered event channel: the       *)
(* receive and send goroutines of the parent conn, waitContext, the Runs   *)
(* and the canceler stack of handleRuns, the conns to the child nodes,     *)
(* and the TCP info sampler.                                               *)
(*                                                                         *)
(* A conn is what ConnProofs and the runs of Conn show it to be: a Send    *)
(* returns; a Run is answered at most once, and at once when the conn is   *)
(* canceled; a canceled conn whose peer has ended too reports connDone.    *)
(* The steps a Run takes are those the node can tell apart: it launches,   *)
(* calls a child, samples a socket, leaves a canceler, fails and returns.  *)
(* A server, and the watcher of a StreamClient, has goroutines that go on  *)
(* after the Run has returned, and even after its canceler has.            *)
(***************************************************************************)
EXTENDS Naturals, Sequences, FiniteSets

CONSTANTS
    Setup,       \* the first Run, which launches the children
    Runs,        \* the Runs the parent sends after it
    Children,    \* the child nodes
    Samplers,    \* the Runs that sample TCP sockets, at the same interval
    Nested,      \* whether Runs use goroutines of their own (Parallel,
                 \* Schedule), in which a panic is not recovered
    Confs        \* a set of choices: children, those that setup launches;
                 \* faulty, those to which a transport may fail; background,
                 \* the Runs whose goroutines may outlive them

AllRuns == Runs \cup {Setup}

ASSUME NodeAssumption ==
    /\ Setup \notin Runs
    /\ Samplers \subseteq Runs
    /\ Nested \in BOOLEAN
    /\ IsFiniteSet(Children)
    /\ \A x \in Confs :
          x \in [children : SUBSET Children, faulty : SUBSET (Children \cup {"parent"}),
                 background : SUBSET Runs]
    /\ AllRuns \cap {"loop", "ended", "cancel", "error", "free"} = {}

VARIABLES
    conf,
    \* the node's fields, and the event loop's place in run and advance
    state, cancel, contextDone, runsDone, parentDone, err,
    loop,
    cause,       \* "none" while ctx is not done, then "canceled" or "error"
    \* the parent conn
    pconn,       \* "open", then "canceled" once Canceled was called
    precv,       \* its receive goroutine: "loop", a Run, "cancel" or "error"
                 \* to be put on the event channel, or "ended"
    psend,       \* its send goroutine: "ok", "error" on its way, "ended"
    \* handleRuns, the Runs and the cancelers
    hr,          \* handleRuns and its canceler goroutine
    run,         \* where each Run is
    ok,          \* that the Run has not failed so far
    on,          \* the child a Run waits for
    stack,       \* the canceler stack
    \* the child conns
    conn,        \* "none", "open", "canceled", or "gone" from the cache
    cev,         \* the event the conn has to send, or "none"
    peer,        \* "up" while the child may still send something
    srep,        \* the reply to the setup Run sent to the child
    got,         \* setup replies received so far
    \* sockdiag and its one sampler
    dmtx,        \* who holds sockdiag.mtx
    smp,         \* the sampler goroutine
    smpCxl,      \* the sampler's cxl channel was closed
    users,       \* Runs with an address in the sampler
    sam,         \* where each Run is with its call of Add and then of Remove
    \* history
    lost         \* what was sent to the parent when its conn was canceled

loopVars == <<state, cancel, contextDone, runsDone, parentDone, err, loop>>
parentVars == <<pconn, precv, psend>>
runVars == <<hr, run, ok, on, stack>>
childVars == <<conn, cev, peer, srep, got>>
smpVars == <<dmtx, smp, smpCxl, users, sam>>
vars == <<conf, loopVars, cause, parentVars, runVars, childVars, smpVars, lost>>

States == {"run", "cancel", "canceled", "done", "crashed"}
RunPC == {"none", "body", "launch", "wait", "rpc", "error", "reply", "done",
          "dropped"}
NoChild == "none"

TypeOK ==
    /\ conf \in Confs /\ state \in States
    /\ cancel \in BOOLEAN /\ contextDone \in BOOLEAN /\ runsDone \in BOOLEAN
    /\ parentDone \in BOOLEAN /\ err \in BOOLEAN
    /\ loop \in {"select", "delete", "advance", "stop", "stopping",
                 "cancelChildren", "exit", "blocked"}
    /\ cause \in {"none", "canceled", "error"}
    /\ pconn \in {"open", "canceled"}
    /\ precv \in AllRuns \cup {"loop", "cancel", "error", "ended"}
    /\ psend \in {"ok", "error", "ended"}
    /\ hr \in {"range", "cancelers", "error", "runsDone", "done"}
    /\ run \in [AllRuns -> RunPC]
    /\ ok \in [AllRuns -> BOOLEAN]
    /\ on \in [AllRuns -> Children \cup {NoChild}]
    /\ stack \in Seq(AllRuns)
    /\ conn \in [Children -> {"none", "open", "canceled", "gone"}]
    /\ cev \in [Children -> {"none", "data", "Error", "io",
                               "closeErr", "done", "taken"}]
    /\ peer \in [Children -> {"up", "ended"}]
    /\ srep \in [Children -> {"none", "ask", "wait", "ok", "fail", "read"}]
    /\ got \in Nat
    /\ dmtx \in Samplers \cup {"free", "loop"}
    /\ smp \in {"off", "idle", "sampling", "failed", "exit"}
    /\ smpCxl \in BOOLEAN
    /\ users \subseteq Samplers
    /\ sam \in [Samplers -> {"out", "add", "in", "remove", "stopping"}]
    /\ lost \subseteq {"ran", "data", "error", "log", "sample", "late"}

\* newNode, then run up to its loop.
Init ==
    /\ conf \in Confs
    /\ state = "run" /\ cancel = FALSE /\ contextDone = FALSE
    /\ runsDone = FALSE /\ parentDone = FALSE /\ err = FALSE
    /\ loop = "select" /\ cause = "none"
    /\ pconn = "open" /\ precv = "loop" /\ psend = "ok"
    /\ hr = "range"
    /\ run = [r \in AllRuns |-> "none"] /\ ok = [r \in AllRuns |-> TRUE]
    /\ on = [r \in AllRuns |-> NoChild] /\ stack = <<>>
    /\ conn = [c \in Children |-> "none"] /\ cev = [c \in Children |-> "none"]
    /\ peer = [c \in Children |-> "up"] /\ srep = [c \in Children |-> "none"]
    /\ got = 0
    /\ dmtx = "free" /\ smp = "off" /\ smpCxl = FALSE
    /\ users = {} /\ sam = [r \in Samplers |-> "out"]
    /\ lost = {}

ctxDone == cause # "none"
Active(r) == run[r] \notin {"none", "done", "dropped"}
InCache(c) == conn[c] \in {"open", "canceled"}
Count == Cardinality({c \in Children : InCache(c)})

\* Launch holds child.mtx while it launches; the other methods of child, and
\* so the event loop, wait for it.
Launching == run[Setup] = "launch"

\* The event that a failing transport leads to, to the parent or to a child.
Failure(x, e) == IF x \in conf.faulty THEN {e} ELSE {}

\* parent.Send: a message is dropped if the parent conn was canceled.
ToParent(kind) == lost' = IF pconn = "canceled" THEN lost \cup {kind} ELSE lost

\* Both goroutines of the canceled parent conn have ended: ioDone holds its mtx,
\* and waits for the loop to take an event.
ParentClosing ==
    pconn = "canceled" /\ precv = "ended" /\ psend # "error" /\ ~parentDone

-----------------------------------------------------------------------------
(* The event loop: an event is received and handled, then advance runs.    *)

\* The loop receives an event, whose handler sets err if fails holds.
Take(fails) ==
    /\ loop = "select"
    /\ loop' = "advance"
    /\ err' = (err \/ fails)

\* Mutant: run.handle does not look at the state, so runs start after cancel.
HandleRunAlways(r) ==
    /\ precv = r
    /\ Take(FALSE)
    /\ precv' = "loop"
    /\ run' = [run EXCEPT ![r] = "body"]
    /\ UNCHANGED <<conf, state, cancel, contextDone, runsDone, parentDone, cause,
                   pconn, psend, hr, ok, on, stack, childVars, smpVars, lost>>

\* run.handle: handleRuns is at its range statement as long as runc is open.  A
\* Run that comes later is dropped, and that is logged to the parent.
HandleRun(r) ==
    /\ precv = r
    /\ Take(FALSE)
    /\ precv' = "loop"
    /\ run' = [run EXCEPT ![r] = IF state = "run" THEN "body" ELSE "dropped"]
    /\ IF state = "run" THEN UNCHANGED lost ELSE ToParent("log")
    /\ UNCHANGED <<conf, state, cancel, contextDone, runsDone, parentDone, cause,
                   pconn, psend, hr, ok, on, stack, childVars, smpVars>>

\* cancel.handle.
HandleCancel ==
    /\ precv = "cancel"
    /\ Take(FALSE)
    /\ precv' = "ended"
    /\ cancel' = (cancel \/ state = "run")
    /\ UNCHANGED <<conf, state, contextDone, runsDone, parentDone, cause, pconn,
                   psend, runVars, childVars, smpVars, lost>>

\* errorEvent.handle, for an I/O error of the parent conn.
HandleParentError ==
    /\ \/ precv = "error" /\ precv' = "ended" /\ UNCHANGED psend
       \/ psend = "error" /\ psend' = "ended" /\ UNCHANGED precv
    /\ Take(TRUE)
    /\ UNCHANGED <<conf, state, cancel, contextDone, runsDone, parentDone, cause,
                   pconn, runVars, childVars, smpVars, lost>>

\* contextDone.handle, after waitContext has seen ctx done; a cause other than
\* a plain cancel is logged to the parent.
HandleContextDone ==
    /\ ctxDone /\ ~contextDone
    /\ Take(cause = "error")
    /\ contextDone' = TRUE
    /\ IF cause = "error" THEN ToParent("data") ELSE UNCHANGED lost
    /\ UNCHANGED <<conf, state, cancel, runsDone, parentDone, cause, parentVars,
                   runVars, childVars, smpVars>>

\* runsDone.handle.
HandleRunsDone ==
    /\ hr = "runsDone"
    /\ Take(FALSE)
    /\ hr' = "done"
    /\ runsDone' = TRUE
    /\ UNCHANGED <<conf, state, cancel, contextDone, parentDone, cause, parentVars,
                   run, ok, on, stack, childVars, smpVars, lost>>

\* connDone.handle for the parent conn, whose two goroutines have ended.
HandleParentDone ==
    /\ ParentClosing
    /\ Take(FALSE)
    /\ parentDone' = TRUE
    /\ UNCHANGED <<conf, state, cancel, contextDone, runsDone, cause, parentVars,
                   runVars, childVars, smpVars, lost>>

\* The handler of an event calls parent.Send while ioDone holds the mtx, and so
\* waits for ever: ioDone waits for the loop to take its connDone.
Blocks(fails) ==
    /\ ParentClosing
    /\ loop = "select"
    /\ loop' = "blocked"
    /\ err' = (err \/ fails)
    /\ UNCHANGED <<conf, state, cancel, contextDone, runsDone, parentDone, cause,
                   parentVars, runVars, childVars, lost>>

\* errorEvent.handle, for the error that ioDone had when it closed the transport.
HandleParentCloseError ==
    /\ "parent" \in conf.faulty
    /\ Blocks(TRUE)
    /\ UNCHANGED smpVars

\* errorEvent.handle, for the error of a runner or of a panic: it goes on to
\* the parent, and the Run's goroutine continues.
HandleRunError(r) ==
    /\ run[r] = "error"
    /\ Take(TRUE)
    /\ run' = [run EXCEPT ![r] = IF r = Setup THEN "reply" ELSE "body"]
    /\ ToParent("error")
    /\ UNCHANGED <<conf, state, cancel, contextDone, runsDone, parentDone, cause,
                   parentVars, hr, ok, on, stack, childVars, smpVars>>

\* The same, for the error of a canceler.
HandleCancelerError ==
    /\ hr = "error"
    /\ Take(TRUE)
    /\ hr' = "cancelers"
    /\ ToParent("error")
    /\ UNCHANGED <<conf, state, cancel, contextDone, runsDone, parentDone, cause,
                   parentVars, run, ok, on, stack, childVars, smpVars>>

\* An event of a child conn.  Results and Errors go on to the parent, as does
\* the error of closing the transport, which connDone follows.
HandleChild(c) ==
    /\ cev[c] \in {"data", "Error", "io", "closeErr"}
    /\ Take(cev[c] # "data")
    /\ cev' = [cev EXCEPT ![c] = IF @ = "closeErr" THEN "done" ELSE "none"]
    /\ IF cev[c] = "io" THEN UNCHANGED lost
       ELSE ToParent(IF cev[c] = "data" THEN "data" ELSE "error")
    /\ UNCHANGED <<conf, state, cancel, contextDone, runsDone, parentDone, cause,
                   parentVars, runVars, conn, peer, srep, got, smpVars>>

\* connDone.handle for a child conn: Delete waits for child.mtx.
HandleChildDone(c) ==
    /\ cev[c] = "done" /\ loop = "select"
    /\ cev' = [cev EXCEPT ![c] = "taken"]
    /\ loop' = "delete"
    /\ UNCHANGED <<conf, state, cancel, contextDone, runsDone, parentDone, err, cause,
                   parentVars, runVars, conn, peer, srep, got, smpVars, lost>>

Delete(c) ==
    /\ loop = "delete" /\ cev[c] = "taken" /\ ~Launching
    /\ conn' = [conn EXCEPT ![c] = "gone"]
    /\ cev' = [cev EXCEPT ![c] = "none"]
    /\ loop' = "advance"
    /\ UNCHANGED <<conf, state, cancel, contextDone, runsDone, parentDone, err, cause,
                   parentVars, runVars, peer, srep, got, smpVars, lost>>

\* TCPInfo.handle, or errorEvent.handle when the sampler has failed.
HandleSample ==
    /\ smp \in {"sampling", "failed"}
    /\ smp' = IF smp = "failed" THEN "exit" ELSE "idle"
    /\ UNCHANGED <<dmtx, smpCxl, users, sam>>
    /\ \/ /\ Take(smp = "failed")
          /\ ToParent("sample")
          /\ UNCHANGED <<conf, state, cancel, contextDone, runsDone, parentDone, cause,
                         parentVars, runVars, childVars>>
       \/ Blocks(smp = "failed")

-----------------------------------------------------------------------------
(* advance.                                                                *)

\* Mutants: stateCancel does not wait for the children, or for the Runs.
StateDoneNoCount ==
    \/ state = "run" /\ (err \/ cancel \/ contextDone)
    \/ state = "cancel" /\ runsDone /\ contextDone
    \/ state = "canceled" /\ parentDone

StateDoneNoRuns ==
    \/ state = "run" /\ (err \/ cancel \/ contextDone)
    \/ state = "cancel" /\ Count = 0 /\ contextDone
    \/ state = "canceled" /\ parentDone

\* The condition under which the current state is done.
StateDone ==
    \/ state = "run" /\ (err \/ cancel \/ contextDone)
    \/ state = "cancel" /\ runsDone /\ Count = 0 /\ contextDone
    \/ state = "canceled" /\ parentDone

NotDone ==
    /\ loop = "advance" /\ ~StateDone
    /\ loop' = "select"
    /\ UNCHANGED <<conf, state, cancel, contextDone, runsDone, parentDone, err, cause,
                   parentVars, runVars, childVars, smpVars, lost>>

\* Mutant: the context of the Runs is not canceled.
EnterCancelNoCtx ==
    /\ loop = "advance" /\ state = "run" /\ StateDone
    /\ state' = "cancel"
    /\ loop' = "stop"
    /\ UNCHANGED <<conf, cancel, contextDone, runsDone, parentDone, err, cause,
                   parentVars, runVars, childVars, smpVars, lost>>

\* Entry to stateCancel cancels ctx and closes runc, then calls Stop of
\* sockdiag and Cancel of child.
EnterCancel ==
    /\ loop = "advance" /\ state = "run" /\ StateDone
    /\ state' = "cancel"
    /\ cause' = IF ctxDone THEN cause ELSE IF err THEN "error" ELSE "canceled"
    /\ loop' = "stop"
    /\ UNCHANGED <<conf, cancel, contextDone, runsDone, parentDone, err, parentVars,
                   runVars, childVars, smpVars, lost>>

\* sockdiag.Stop: with a sampler running, it waits for it with mtx held.
StopSamplers ==
    /\ loop = "stop" /\ dmtx = "free"
    /\ IF smp = "off"
       THEN loop' = "cancelChildren" /\ UNCHANGED <<dmtx, smpCxl>>
       ELSE loop' = "stopping" /\ dmtx' = "loop" /\ smpCxl' = TRUE
    /\ UNCHANGED <<conf, state, cancel, contextDone, runsDone, parentDone, err, cause,
                   parentVars, runVars, childVars, smp, users, sam, lost>>

SamplersStopped ==
    /\ loop = "stopping" /\ smp = "exit"
    /\ loop' = "cancelChildren"
    /\ dmtx' = "free" /\ smp' = "off" /\ smpCxl' = FALSE /\ users' = {}
    /\ UNCHANGED <<conf, state, cancel, contextDone, runsDone, parentDone, err, cause,
                   parentVars, runVars, childVars, sam, lost>>

\* child.Cancel.
CancelChildren ==
    /\ loop = "cancelChildren" /\ ~Launching
    /\ conn' = [c \in Children |-> IF conn[c] = "open" THEN "canceled"
                                   ELSE conn[c]]
    /\ loop' = "advance"
    /\ UNCHANGED <<conf, state, cancel, contextDone, runsDone, parentDone, err, cause,
                   parentVars, runVars, cev, peer, srep, got, smpVars, lost>>

\* Entry to stateCanceled sends the final message to the parent.
EnterCanceled ==
    /\ loop = "advance" /\ state = "cancel" /\ StateDone
    /\ state' = "canceled"
    /\ pconn' = "canceled"
    /\ UNCHANGED <<conf, cancel, contextDone, runsDone, parentDone, err, loop, cause,
                   precv, psend, runVars, childVars, smpVars, lost>>

EnterDone ==
    /\ loop = "advance" /\ state = "canceled" /\ StateDone
    /\ state' = "done"
    /\ loop' = "exit"
    /\ UNCHANGED <<conf, cancel, contextDone, runsDone, parentDone, err, cause,
                   parentVars, runVars, childVars, smpVars, lost>>

-----------------------------------------------------------------------------
(* What the node is given: its context, and the parent's messages.         *)

\* The context passed to Serve is canceled, by a signal.
Interrupt ==
    /\ cause = "none"
    /\ cause' = "error"
    /\ UNCHANGED <<conf, loopVars, parentVars, runVars, childVars, smpVars, lost>>

\* The parent sends a Run, and none before it has the reply to setup.
ParentRun(r) ==
    /\ precv = "loop" /\ run[r] = "none"
    /\ r # Setup => run[Setup] = "done" /\ ok[Setup]
    /\ precv' = r
    /\ UNCHANGED <<conf, loopVars, cause, pconn, psend, runVars, childVars, smpVars,
                   lost>>

\* The parent sends cancel, or the connection fails.
ParentEnds ==
    /\ precv = "loop"
    /\ precv' \in {"cancel"} \cup Failure("parent", "error")
    /\ UNCHANGED <<conf, loopVars, cause, pconn, psend, runVars, childVars, smpVars,
                   lost>>

ParentSendFails ==
    /\ "parent" \in conf.faulty /\ psend = "ok" /\ ~parentDone
    /\ psend' = "error"
    /\ UNCHANGED <<conf, loopVars, cause, pconn, precv, runVars, childVars, smpVars,
                   lost>>

-----------------------------------------------------------------------------
(* handleRuns: once runc is closed and all Runs have returned, the         *)
(* cancelers run in reverse order.                                         *)

RunsReturned ==
    /\ hr = "range" /\ state # "run"
    /\ \A r \in AllRuns : ~Active(r)
    /\ hr' = "cancelers"
    /\ UNCHANGED <<conf, loopVars, cause, parentVars, run, ok, on, stack, childVars,
                   smpVars, lost>>

RunCanceler ==
    /\ hr = "cancelers" /\ stack # <<>>
    /\ stack' = SubSeq(stack, 1, Len(stack) - 1)
    /\ hr' \in {"cancelers", "error"}
    /\ UNCHANGED <<conf, loopVars, cause, parentVars, run, ok, on, childVars, smpVars,
                   lost>>

CancelersDone ==
    /\ hr = "cancelers" /\ stack = <<>>
    /\ hr' = "runsDone"
    /\ UNCHANGED <<conf, loopVars, cause, parentVars, run, ok, on, stack, childVars,
                   smpVars, lost>>

-----------------------------------------------------------------------------
(* The setup Run: setup.Run launches the children one by one, sends each   *)
(* its own setup Run, then waits for as many replies as there are          *)
(* children in the cache, or for ctx.                                      *)

Launch(c) ==
    /\ run[Setup] = "body" /\ c \in conf.children /\ srep[c] = "none"
    /\ \A d \in Children : srep[d] # "ask"
    /\ run' = [run EXCEPT ![Setup] = "launch"]
    /\ on' = [on EXCEPT ![Setup] = c]
    /\ UNCHANGED <<conf, loopVars, cause, parentVars, hr, ok, stack, childVars,
                   smpVars, lost>>

Launched ==
    /\ run[Setup] = "launch"
    /\ conn' = [conn EXCEPT ![on[Setup]] = "open"]
    /\ srep' = [srep EXCEPT ![on[Setup]] = "ask"]
    /\ run' = [run EXCEPT ![Setup] = "body"]
    /\ on' = [on EXCEPT ![Setup] = NoChild]
    /\ UNCHANGED <<conf, loopVars, cause, parentVars, hr, ok, stack, cev, peer, got,
                   smpVars, lost>>

\* A launch fails, or the exes cannot be added or read.
SetupFails ==
    /\ run[Setup] \in {"body", "launch"}
    /\ run' = [run EXCEPT ![Setup] = "error"]
    /\ ok' = [ok EXCEPT ![Setup] = FALSE]
    /\ on' = [on EXCEPT ![Setup] = NoChild]
    /\ UNCHANGED <<conf, loopVars, cause, parentVars, hr, stack, childVars, smpVars,
                   lost>>

\* conn.Run of the child's own setup Run.
SetupChild(c) ==
    /\ run[Setup] = "body" /\ srep[c] = "ask"
    /\ srep' = [srep EXCEPT ![c] = IF conn[c] = "open" THEN "wait" ELSE "fail"]
    /\ UNCHANGED <<conf, loopVars, cause, parentVars, runVars, conn, cev, peer, got,
                   smpVars, lost>>

SetupWaits ==
    /\ run[Setup] = "body"
    /\ \A c \in conf.children : srep[c] \notin {"none", "ask"}
    /\ run' = [run EXCEPT ![Setup] = "wait"]
    /\ UNCHANGED <<conf, loopVars, cause, parentVars, hr, ok, on, stack, childVars,
                   smpVars, lost>>

\* Mutants: setup counts down, or waits for one reply too few.
SetupReplyDown(c) ==
    /\ run[Setup] = "wait" /\ got < Count /\ srep[c] \in {"ok", "fail"}
    /\ got' = got - 1
    /\ srep' = [srep EXCEPT ![c] = "read"]
    /\ UNCHANGED <<conf, loopVars, cause, parentVars, runVars, conn, cev, peer,
                   smpVars, lost>>

SetupDoneEarly ==
    /\ run[Setup] = "wait" /\ got + 1 >= Count
    /\ run' = [run EXCEPT ![Setup] = "reply"]
    /\ UNCHANGED <<conf, loopVars, cause, parentVars, hr, ok, on, stack, childVars,
                   smpVars, lost>>

\* The select in setup's loop, or its end.
SetupReply(c) ==
    /\ run[Setup] = "wait" /\ got < Count /\ srep[c] \in {"ok", "fail"}
    /\ got' = got + 1
    /\ srep' = [srep EXCEPT ![c] = "read"]
    /\ IF srep[c] = "ok"
       THEN UNCHANGED <<run, ok>>
       ELSE /\ run' = [run EXCEPT ![Setup] = "error"]
            /\ ok' = [ok EXCEPT ![Setup] = FALSE]
    /\ UNCHANGED <<conf, loopVars, cause, parentVars, hr, on, stack, conn, cev, peer,
                   smpVars, lost>>

SetupCanceled ==
    /\ run[Setup] = "wait" /\ got < Count /\ ctxDone
    /\ run' = [run EXCEPT ![Setup] = "error"]
    /\ ok' = [ok EXCEPT ![Setup] = FALSE]
    /\ UNCHANGED <<conf, loopVars, cause, parentVars, hr, on, stack, childVars,
                   smpVars, lost>>

SetupDone ==
    /\ run[Setup] = "wait" /\ got >= Count
    /\ run' = [run EXCEPT ![Setup] = "reply"]
    /\ UNCHANGED <<conf, loopVars, cause, parentVars, hr, ok, on, stack, childVars,
                   smpVars, lost>>

-----------------------------------------------------------------------------
(* The other Runs.  Failing does not end a Run: the others of a Parallel   *)
(* or a Schedule continue.                                                 *)

\* Child.do with a conn that is open, or canceled: then it fails at once.
CallChild(r, c) ==
    /\ run[r] = "body" /\ InCache(c)
    /\ IF conn[c] = "open"
       THEN /\ run' = [run EXCEPT ![r] = "rpc"]
            /\ on' = [on EXCEPT ![r] = c]
            /\ UNCHANGED ok
       ELSE ok' = [ok EXCEPT ![r] = FALSE] /\ UNCHANGED <<run, on>>
    /\ UNCHANGED <<conf, loopVars, cause, parentVars, hr, stack, childVars, smpVars,
                   lost>>

\* Child.do with a node that has left the cache: Get returns nil, and conn.Run
\* panics.  handleRuns recovers in its own goroutine for the Run; elsewhere
\* the process ends.
CallPanics(r, c) ==
    /\ run[r] = "body" /\ ~InCache(c)
    /\ \/ /\ run' = [run EXCEPT ![r] = "error"]
          /\ ok' = [ok EXCEPT ![r] = FALSE]
          /\ UNCHANGED state
       \/ Nested /\ state' = "crashed" /\ UNCHANGED <<run, ok>>
    /\ UNCHANGED <<conf, cancel, contextDone, runsDone, parentDone, err, loop, cause,
                   parentVars, hr, on, stack, childVars, smpVars, lost>>

\* A runner starts a background command, and leaves its canceler.
LeaveCanceler(r) ==
    /\ run[r] = "body" /\ \A i \in 1 .. Len(stack) : stack[i] # r
    /\ stack' = Append(stack, r)
    /\ UNCHANGED <<conf, loopVars, cause, parentVars, hr, run, ok, on, childVars,
                   smpVars, lost>>

\* A runner sends results to the parent.
SendData(r) ==
    /\ run[r] = "body"
    /\ ToParent("data")
    /\ UNCHANGED <<conf, loopVars, cause, parentVars, runVars, childVars, smpVars>>

\* A goroutine that the Run has left behind sends: results, errors or logs.  Once
\* the loop is blocked for the mtx of the parent conn, so is this one.
Background(r) == r \in conf.background /\ run[r] \notin {"none", "dropped"}

SendLate(r) ==
    /\ Background(r) /\ loop # "blocked"
    /\ ToParent("late")
    /\ UNCHANGED <<conf, loopVars, cause, parentVars, runVars, childVars, smpVars>>

\* A Run waits for its goroutines that sample, unless they are in the background.
SamplingDone(r) == r \in Samplers \ conf.background => sam[r] = "out"

\* A runner returns an error.
Fail(r) ==
    /\ run[r] = "body" /\ SamplingDone(r)
    /\ run' = [run EXCEPT ![r] = "error"]
    /\ ok' = [ok EXCEPT ![r] = FALSE]
    /\ UNCHANGED <<conf, loopVars, cause, parentVars, hr, on, stack, childVars,
                   smpVars, lost>>

Return(r) ==
    /\ run[r] = "body" /\ SamplingDone(r)
    /\ run' = [run EXCEPT ![r] = "reply"]
    /\ UNCHANGED <<conf, loopVars, cause, parentVars, hr, ok, on, stack, childVars,
                   smpVars, lost>>

\* The deferred send of ran in handleRuns.
SendRan(r) ==
    /\ run[r] = "reply"
    /\ run' = [run EXCEPT ![r] = "done"]
    /\ ToParent("ran")
    /\ UNCHANGED <<conf, loopVars, cause, parentVars, hr, ok, on, stack, childVars,
                   smpVars>>

-----------------------------------------------------------------------------
(* The child conns.                                                        *)

\* A result, an Error, or an I/O error of the send goroutine.
ChildEvent(c) ==
    /\ InCache(c) /\ peer[c] = "up" /\ cev[c] = "none"
    /\ \E e \in {"data", "Error"} \cup Failure(c, "io") :
          cev' = [cev EXCEPT ![c] = e]
    /\ UNCHANGED <<conf, loopVars, cause, parentVars, runVars, conn, peer, srep, got,
                   smpVars, lost>>

\* The replies to Runs are failures from now on: failRPC.
FailRPC(c) ==
    LET W == {r \in Runs : run[r] = "rpc" /\ on[r] = c} IN
    /\ run' = [r \in AllRuns |-> IF r \in W THEN "body" ELSE run[r]]
    /\ ok' = [r \in AllRuns |-> ok[r] /\ r \notin W]
    /\ on' = [r \in AllRuns |-> IF r \in W THEN NoChild ELSE on[r]]
    /\ srep' = [srep EXCEPT ![c] = IF @ = "wait" THEN "fail" ELSE @]

ChildRan(r, c) ==
    /\ InCache(c) /\ peer[c] = "up" /\ cev[c] = "none"
    /\ \/ /\ r = Setup /\ srep[c] = "wait"
          /\ \E a \in {"ok", "fail"} : srep' = [srep EXCEPT ![c] = a]
          /\ UNCHANGED <<run, ok, on>>
       \/ /\ run[r] = "rpc" /\ on[r] = c
          /\ run' = [run EXCEPT ![r] = "body"]
          /\ \E a \in BOOLEAN : ok' = [ok EXCEPT ![r] = @ /\ a]
          /\ on' = [on EXCEPT ![r] = NoChild]
          /\ UNCHANGED srep
    /\ UNCHANGED <<conf, loopVars, cause, parentVars, hr, stack, conn, cev, peer, got,
                   smpVars, lost>>

\* canceled is received, which fails the Runs that wait, or a receive error.
ChildEnds(c) ==
    /\ InCache(c) /\ peer[c] = "up" /\ cev[c] = "none"
    /\ peer' = [peer EXCEPT ![c] = "ended"]
    /\ \/ FailRPC(c) /\ UNCHANGED cev
       \/ /\ c \in conf.faulty
          /\ cev' = [cev EXCEPT ![c] = "io"]
          /\ UNCHANGED <<run, ok, on, srep>>
    /\ UNCHANGED <<conf, loopVars, cause, parentVars, hr, stack, conn, got, smpVars,
                   lost>>

\* ioDone: both directions have ended, so the conn is canceled on this side.
ChildDone(c) ==
    /\ conn[c] = "canceled" /\ peer[c] = "ended" /\ cev[c] = "none"
    /\ FailRPC(c)
    /\ \E e \in {"done"} \cup Failure(c, "closeErr") :
          cev' = [cev EXCEPT ![c] = e]
    /\ UNCHANGED <<conf, loopVars, cause, parentVars, hr, stack, conn, peer, got,
                   smpVars, lost>>

-----------------------------------------------------------------------------
(* sockdiag.  Its methods hold its mtx while they wait for the sampler's,  *)
(* which the sampler holds while it sends the samples as events.  Add and  *)
(* Remove are called by Transfer.send: in a Run of a StreamClient, or in a *)
(* goroutine that serves a connection, which may come after Stop.          *)

Add(r) ==
    /\ run[r] = "body" \/ Background(r)
    /\ sam[r] = "out" /\ dmtx = "free"
    /\ dmtx' = r
    /\ sam' = [sam EXCEPT ![r] = "add"]
    /\ UNCHANGED <<conf, loopVars, cause, parentVars, runVars, childVars, smp, smpCxl,
                   users, lost>>

Added(r) ==
    /\ sam[r] = "add" /\ smp # "sampling"
    /\ smp' = IF smp = "off" THEN "idle" ELSE smp
    /\ users' = users \cup {r}
    /\ dmtx' = "free"
    /\ sam' = [sam EXCEPT ![r] = "in"]
    /\ UNCHANGED <<conf, loopVars, cause, parentVars, runVars, childVars, smpCxl, lost>>

Remove(r) ==
    /\ sam[r] = "in" /\ dmtx = "free"
    /\ dmtx' = r
    /\ sam' = [sam EXCEPT ![r] = "remove"]
    /\ UNCHANGED <<conf, loopVars, cause, parentVars, runVars, childVars, smp, smpCxl,
                   users, lost>>

\* The last address is removed: the sampler is stopped.
Removed(r) ==
    /\ sam[r] = "remove" /\ smp # "sampling"
    /\ users' = users \ {r}
    /\ IF smp # "off" /\ users \subseteq {r}
       THEN /\ smpCxl' = TRUE
            /\ sam' = [sam EXCEPT ![r] = "stopping"]
            /\ UNCHANGED dmtx
       ELSE /\ dmtx' = "free"
            /\ sam' = [sam EXCEPT ![r] = "out"]
            /\ UNCHANGED smpCxl
    /\ UNCHANGED <<conf, loopVars, cause, parentVars, runVars, childVars, smp, lost>>

Stopped(r) ==
    /\ sam[r] = "stopping" /\ smp = "exit"
    /\ smp' = "off" /\ smpCxl' = FALSE /\ dmtx' = "free"
    /\ sam' = [sam EXCEPT ![r] = "out"]
    /\ UNCHANGED <<conf, loopVars, cause, parentVars, runVars, childVars, users, lost>>

\* sampler.run: a tick samples the registered sockets, or fails; cxl ends it.
Sample ==
    /\ smp = "idle"
    /\ \/ users # {} /\ smp' = "sampling"
       \/ smp' = "failed"
       \/ smpCxl /\ smp' = "exit"
    /\ UNCHANGED <<conf, loopVars, cause, parentVars, runVars, childVars, dmtx,
                   smpCxl, users, sam, lost>>

-----------------------------------------------------------------------------
HandleOther ==
    \/ \E r \in AllRuns : HandleRun(r) \/ HandleRunError(r)
    \/ HandleCancel \/ HandleParentError \/ HandleContextDone \/ HandleRunsDone
    \/ HandleParentDone \/ HandleParentCloseError \/ HandleCancelerError
    \/ \E c \in Children : HandleChildDone(c)

Handle == HandleOther \/ HandleSample \/ \E c \in Children : HandleChild(c)

Advance ==
    \/ NotDone \/ EnterCancel \/ StopSamplers \/ SamplersStopped
    \/ CancelChildren \/ EnterCanceled \/ EnterDone
    \/ \E c \in Children : Delete(c)

Environment ==
    \/ Interrupt \/ ParentEnds \/ ParentSendFails
    \/ \E r \in AllRuns : ParentRun(r)
    \/ \E c \in Children :
          \/ ChildEvent(c) \/ ChildEnds(c) \/ ChildDone(c)
          \/ \E r \in AllRuns : ChildRan(r, c)

HandleRuns == RunsReturned \/ RunCanceler \/ CancelersDone

SetupSteps ==
    \/ Launched \/ SetupFails \/ SetupWaits \/ SetupCanceled \/ SetupDone
    \/ \E c \in Children : Launch(c) \/ SetupChild(c) \/ SetupReply(c)

RunSteps ==
    \/ \E r \in Runs :
          \/ LeaveCanceler(r) \/ SendData(r) \/ SendLate(r) \/ Fail(r) \/ Return(r)
          \/ \E c \in Children : CallChild(r, c) \/ CallPanics(r, c)
    \/ \E r \in Samplers : Add(r) \/ Added(r) \/ Remove(r) \/ Removed(r) \/ Stopped(r)
    \/ \E r \in AllRuns : SendRan(r)
    \/ Sample

Next ==
    \/ /\ state # "crashed"
       /\ Handle \/ Advance \/ Environment \/ HandleRuns \/ SetupSteps \/ RunSteps
    \/ state = "done" /\ UNCHANGED vars

Spec == Init /\ [][Next]_vars

\* Every goroutine runs, and one that waits on the event channel is served in
\* turn; it is enough to say so of the sources that may send without end, and
\* of the others together.  A runner returns once ctx is done (the contract of
\* the runner interface); a child ends once it got cancel, and the parent once
\* it got canceled.
Fairness ==
    /\ SF_vars(Advance) /\ SF_vars(HandleOther) /\ SF_vars(HandleSample)
    /\ WF_vars(HandleRuns) /\ WF_vars(SetupSteps)
    /\ WF_vars(\E r \in AllRuns : SendRan(r))
    /\ SF_vars(Sample /\ smp' = "exit")
    /\ \A r \in Runs :
          SF_vars(ctxDone /\ Return(r))
    /\ \A r \in Samplers :
          SF_vars(ctxDone /\ Remove(r)) /\ WF_vars(Added(r) \/ Removed(r) \/ Stopped(r))
    /\ \A c \in Children :
          /\ SF_vars(HandleChild(c)) /\ WF_vars(ChildDone(c))
          /\ SF_vars(conn[c] = "canceled" /\ ChildEnds(c))
    /\ WF_vars(pconn = "canceled" /\ ParentEnds)

FairSpec == Spec /\ Fairness

-----------------------------------------------------------------------------
(* Properties.                                                             *)

\* What the parent can tell of the node, and of each Run.
Phase == IF state = "done" THEN "done"
         ELSE IF pconn = "canceled" THEN "final" ELSE "serving"

Fate(r) == IF run[r] = "none" THEN "none"
           ELSE IF run[r] = "dropped" THEN "refused"
           ELSE IF run[r] = "done" THEN "answered" ELSE "open"

Service == INSTANCE NodeService WITH
    Runs <- AllRuns, phase <- Phase, asked <- [r \in AllRuns |-> Fate(r)]

\* The node keeps its promise to the parent (NodeService).
KeepsPromise == Service!Spec

\* When canceled is sent to the parent, the Runs have replied, the cancelers have
\* run, the children are gone, and of the samplers only those are left that a
\* goroutine in the background has made anew.  So no reply, and no result or error
\* of a Run, a canceler or a child, is dropped for coming after the final message:
\* only the log of a Run that came too late is, and what goroutines in the
\* background send or sample.  And the event loop waits for the mutex of the
\* parent conn, while that waits for the loop to take its connDone, in two cases
\* only: a sample of theirs, and a transport to the parent that fails to close.
Quiescent ==
    /\ lost \subseteq {"log", "sample", "late"}
    /\ conf.background = {} => lost \subseteq {"log"}
    /\ loop = "blocked" => "parent" \in conf.faulty \/ Samplers \cap conf.background # {}
    /\ pconn = "canceled" =>
       /\ \A r \in AllRuns : ~Active(r)
       /\ hr = "done" /\ stack = <<>>
       /\ \A c \in Children : ~InCache(c) /\ cev[c] = "none"
       /\ \A r \in Samplers : sam[r] # "out" => r \in conf.background
       /\ (\A r \in Samplers : sam[r] = "out") => smp = "off" /\ dmtx = "free"
       /\ contextDone

\* The reply to setup says OK only if every child was launched and has replied
\* OK to its own setup, unless the context was done meanwhile: children that
\* leave the cache shorten setup's wait (Count in its loop condition).
SetupMeansReady ==
    run[Setup] \in {"reply", "done"} /\ ok[Setup] /\ ~ctxDone =>
       \A c \in conf.children : conn[c] = "open" /\ srep[c] = "read"

-----------------------------------------------------------------------------
(* The inductive invariant behind Quiescent, SetupMeansReady and the       *)
(* refinement, in parts.                                                   *)

\* The state of the event loop, and what is over in which state.  runc is open
\* in stateRun, so handleRuns is at its range statement.
Lifecycle ==
    /\ state \in {"run", "crashed"} => hr = "range"
    /\ state \in {"cancel", "canceled", "done"} \/ contextDone => ctxDone
    /\ pconn = "canceled" <=> state \in {"canceled", "done"}
    /\ pconn = "canceled" => contextDone /\ runsDone
    /\ state = "done" => loop = "exit"
    /\ loop \in {"stop", "stopping", "cancelChildren"} => state \in {"cancel", "crashed"}
    /\ runsDone <=> hr = "done"
    /\ hr \in {"runsDone", "done"} => stack = <<>>

\* Where the Runs may be: none is active once handleRuns has left its range
\* statement, and the one in the hands of the receive goroutine is new.
RunPlaces ==
    /\ hr # "range" => \A r \in AllRuns : ~Active(r)
    /\ precv \in AllRuns => run[precv] = "none"
    /\ run[Setup] # "rpc"
    /\ \A r \in Runs : run[r] \notin {"launch", "wait"}

\* The cache: it holds the children that setup has launched, only they have
\* events to send, and none is canceled before ctx is.
Cache ==
    \A c \in Children :
       /\ conn[c] = "none" <=> srep[c] = "none"
       /\ srep[c] # "none" => c \in conf.children
       /\ cev[c] # "none" => InCache(c)
       /\ cev[c] \in {"closeErr", "done", "taken"} => conn[c] = "canceled"
       /\ pconn = "canceled" => ~InCache(c)
       /\ ~ctxDone => conn[c] \in {"none", "open"}

\* The setup Run: got counts the replies read, and a failure is remembered
\* until the reply is sent.
SetupPlaces ==
    /\ run[Setup] = "launch" => on[Setup] \in conf.children /\ srep[on[Setup]] = "none"
    /\ run[Setup] = "wait" => \A c \in conf.children : srep[c] \notin {"none", "ask"}
    /\ run[Setup] = "error" => ~ok[Setup]
    /\ got = Cardinality({c \in Children : srep[c] = "read"})
    /\ SetupMeansReady

\* sockdiag: who holds its mtx, and for whom the sampler runs.
Sampler ==
    /\ \A r \in Samplers : dmtx = r <=> sam[r] \in {"add", "remove", "stopping"}
    /\ dmtx = "loop" <=> loop = "stopping"
    /\ \A r \in users : sam[r] \in {"in", "remove"}
    /\ \A r \in Samplers \ conf.background :
          sam[r] # "out" => run[r] \in {"body", "rpc", "error"}
    /\ smp = "off" \/ users # {} \/ loop = "stopping"
          \/ \E r \in Samplers : sam[r] = "stopping"

\* What is lost, and where the loop blocks.
Losses ==
    /\ lost \subseteq {"log", "sample", "late"}
    /\ conf.background = {} => lost \subseteq {"log"}
    /\ loop = "blocked" => /\ pconn = "canceled"
                           /\ "parent" \in conf.faulty \/ Samplers \cap conf.background # {}

\* The parts together: what holds of the node's goroutines in every state, as
\* strong as it must be to be kept by each of their steps.
NodeInv ==
    /\ TypeOK /\ Lifecycle /\ RunPlaces /\ Cache /\ SetupPlaces /\ Sampler /\ Losses

-----------------------------------------------------------------------------
\* A child that Launch put into the cache after child.Cancel had gone over it.
Stranded == \E c \in Children :
               conn[c] = "open" /\ state # "run" /\ loop \in {"select", "delete"}

\* A node that leaves stateRun is done in the end, unless it has a stranded
\* child, or is blocked by a transport to the parent that fails to close, however
\* its events, Runs, cancelers and children interleave.
Ends == state = "cancel" ~> state = "done" \/ Stranded \/ loop = "blocked"

\* The doc comment of node, node.go:30: on cancel, any child connections are
\* canceled, then closed.
ChildrenCanceled == ~Stranded

\* The doc comment of sockdiag.Stop (sockdiag.go:76) and of the node: Stop
\* waits for the samplers to complete, and the node goes on to its end.
StopReturns == loop \in {"stop", "stopping"} ~> loop \notin {"stop", "stopping"}
============================================================================
