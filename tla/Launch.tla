------------------------------- MODULE Launch -------------------------------
(***************************************************************************)
(* Launching nodes as local processes (node/launch.go, launch_local.go):   *)
(* the exeRepo that extracts node executables and counts their users, the  *)
(* closer stack that undoes a launch, and the command that runs the node.  *)
(*                                                                         *)
(* A node may launch further nodes.  It runs from the temporary directory  *)
(* its launcher made, and its own exeRepo uses that directory too: files   *)
(* in it have users in several processes, of which each counts its own.    *)
(* The methods of exeRepo hold its mtx, and are one step each.             *)
(***************************************************************************)
EXTENDS Integers, Sequences, FiniteSets

CONSTANTS
    Nodes,        \* the nodes that may be launched
    Platforms,    \* their platforms
    Plans         \* the tests: who launches which nodes, and how

Antler == "antler"               \* the process that runs the tests
Procs == Nodes \cup {Antler}

\* The processes that extract the executable of platform x in plan t: one that
\* is a node of that platform itself uses its own file.
Foreign(t, p, x) == p = Antler \/ t[p].platform # x
Extractors(t, x) ==
    {p \in {t[m].by : m \in {k \in DOMAIN t : t[k].platform = x}} : Foreign(t, p, x)}

\* Those that more than one of them extracts to the one directory.
Shared(t) == {x \in Platforms : \E p, q \in Extractors(t, x) : p # q}

ASSUME LaunchAssumption ==
    /\ Antler \notin Nodes /\ IsFiniteSet(Nodes)
    /\ \A t \in Plans :
          /\ DOMAIN t \subseteq Nodes
          /\ \A m \in DOMAIN t : /\ t[m].by \in (DOMAIN t \cup {Antler}) \ {m}
                                 /\ t[m].platform \in Platforms
                                 /\ t[m].netns \in BOOLEAN

VARIABLES
    plan,     \* the test that is run
    pc,       \* where the launch of each node is
    stack,    \* the closer stack of each launch
    setup,    \* the processes whose setup may still launch nodes
    key,      \* the keys of fileRef of each process
    ref,      \* and their values
    src,      \* the platforms each process has an executable of
    tmpDir,   \* the processes whose tmpDir is a directory that exists
    \* the system
    disk,     \* the executables in the directory
    exec,     \* the nodes that run from one of them, still in its place
    netns,    \* the network namespaces
    \* history
    crashed,  \* the nodes that crashed in this test
    stale,    \* namespaces that could not be deleted, or that nobody deletes
    left,     \* executables that nobody counts as a user of any more
    shared,   \* platforms with more than one extractor, in this test or before
    untidy    \* an extraction has failed, or a node has crashed

repoVars == <<key, ref, tmpDir, disk, exec, left>>
vars == <<plan, pc, stack, setup, src, repoVars, netns, crashed, stale, shared, untidy>>

TypeOK ==
    /\ plan \in Plans
    /\ pc \in [Nodes -> {"none", "netns", "start", "up", "down", "abort",
                          "close", "failed", "ended"}]
    /\ stack \in [Nodes -> Seq({"exe", "netns"})]
    /\ setup \subseteq Procs
    /\ key \in [Procs -> SUBSET Platforms]
    /\ ref \in [Procs -> [Platforms -> Nat]]
    /\ src \in [Procs -> SUBSET Platforms]
    /\ tmpDir \subseteq Procs
    /\ disk \subseteq Platforms /\ exec \subseteq Nodes
    /\ netns \subseteq Nodes /\ stale \subseteq Nodes
    /\ crashed \subseteq Nodes
    /\ left \subseteq Platforms /\ shared \subseteq Platforms
    /\ untidy \in BOOLEAN

Init ==
    /\ plan \in Plans
    /\ pc = [m \in Nodes |-> "none"]
    /\ stack = [m \in Nodes |-> <<>>]
    /\ setup = {Antler}
    /\ key = [p \in Procs |-> {}]
    /\ ref = [p \in Procs |-> [x \in Platforms |-> 0]]
    /\ src = [p \in Procs |-> IF p = Antler THEN Platforms ELSE {}]
    /\ tmpDir = {} /\ disk = {} /\ exec = {} /\ netns = {}
    /\ crashed = {} /\ stale = {} /\ left = {}
    /\ shared = Shared(plan) /\ untidy = FALSE

By(p) == {m \in DOMAIN plan : plan[m].by = p}
Alive == {Antler} \cup {m \in Nodes : pc[m] = "up"}
Resting == {"none", "failed", "ended"}

\* Mutant: the platforms of the nodes one level below, without Walk.
PlatformsFlat(n) == {plan[k].platform : k \in By(n)}

\* Tree.Platforms: those of all nodes below n, which are the least set that has
\* the nodes n launches and all nodes that those in it launch.
Below(n) ==
    {k \in DOMAIN plan :
       \A S \in SUBSET DOMAIN plan : By(n) \subseteq S /\ (\A i \in S : By(i) \subseteq S) => k \in S}
PlatformsBelow(n) == {plan[k].platform : k \in Below(n)}

-----------------------------------------------------------------------------
(* exeRepo.                                                                *)

\* init, in the process of m: the file that it runs from has one user, and its
\* directory is the temporary directory.  (The repo is not used before that.)
init(m) ==
    /\ key' = [key EXCEPT ![m] = {plan[m].platform}]
    /\ ref' = [ref EXCEPT ![m] = [x \in Platforms |->
                  IF x = plan[m].platform THEN 1 ELSE 0]]
    /\ tmpDir' = tmpDir \cup {m}

\* MkdirTemp: only antler starts without a tmpDir.  A node whose directory was
\* removed keeps the name of it.
MadeDir(p) == IF p = Antler THEN tmpDir \cup {p} ELSE tmpDir

\* OpenFile to write an executable: its directory is there, and no process runs
\* from the file (ETXTBSY).
CanWrite(p, x) == p \in MadeDir(p) /\ \A k \in exec : plan[k].platform # x

\* Mutant: the reference count of a file is set whenever it is used.
FileNotCounted(m) ==
    LET p == plan[m].by
        x == plan[m].platform
    IN  /\ tmpDir' = MadeDir(p)
        /\ ref' = [ref EXCEPT ![p][x] = 1]
        /\ \/ x \in key[p] /\ UNCHANGED <<key, disk, left>>
           \/ /\ x \notin key[p] /\ x \in src[p] /\ CanWrite(p, x)
              /\ key' = [key EXCEPT ![p] = @ \cup {x}]
              /\ disk' = disk \cup {x}
              /\ left' = left \ {x}

\* File: the executable is extracted, if it has no user yet in this process.
File(m) ==
    LET p == plan[m].by
        x == plan[m].platform
    IN  /\ tmpDir' = MadeDir(p)
        /\ ref' = [ref EXCEPT ![p][x] = IF x \in key[p] THEN @ + 1 ELSE 1]
        /\ \/ x \in key[p] /\ UNCHANGED <<key, disk, left>>
           \/ /\ x \notin key[p] /\ x \in src[p] /\ CanWrite(p, x)
              /\ key' = [key EXCEPT ![p] = @ \cup {x}]
              /\ disk' = disk \cup {x}
              /\ left' = left \ {x}

\* Mutant: Close keeps the key of a file that has no user any more.
CloseKeepsKey(m) ==
    LET p == plan[m].by
        x == plan[m].platform
        n == ref[p][x] - 1
        removed == n = 0 /\ x \in disk /\ p \in tmpDir
    IN  /\ ref' = [ref EXCEPT ![p][x] = n]
        /\ disk' = IF removed THEN disk \ {x} ELSE disk
        /\ exec' = {k \in exec : plan[k].platform \in disk'}
        /\ UNCHANGED <<key, tmpDir, left>>

\* Close: the last user removes the file, and the last file the directory.
\* Removing a file that is not there fails, and its key stays; removing a
\* directory that is not empty fails too.
Close(m) ==
    LET p == plan[m].by
        x == plan[m].platform
        n == ref[p][x] - 1
        removed == n = 0 /\ x \in disk /\ p \in tmpDir
        rest == IF removed THEN key[p] \ {x} ELSE key[p]
    IN  /\ ref' = [ref EXCEPT ![p][x] = n]
        /\ disk' = IF removed THEN disk \ {x} ELSE disk
        /\ exec' = {k \in exec : plan[k].platform \in disk'}
        /\ key' = [key EXCEPT ![p] = rest]
        /\ tmpDir' = IF rest = {} /\ disk' = {} THEN {} ELSE tmpDir
        /\ UNCHANGED left

-----------------------------------------------------------------------------
(* Local.launch, with child.mtx of the launching process held.             *)

\* setup launches its nodes one by one.
Launches(m) ==
    /\ m \in DOMAIN plan /\ pc[m] = "none" /\ plan[m].by \in setup
    /\ \A k \in By(plan[m].by) : pc[k] \notin {"netns", "start", "abort"}

\* It launches no more after a failure.
SetupFails(m) == setup' = setup \ {plan[m].by}

\* The executable is the first thing to push on the closer stack.
LaunchNode(m) ==
    /\ Launches(m)
    /\ File(m)
    /\ stack' = [stack EXCEPT ![m] = <<"exe">>]
    /\ pc' = [pc EXCEPT ![m] = "netns"]
    /\ UNCHANGED <<plan, setup, src, exec, netns, crashed, stale, shared, untidy>>

\* File fails to extract the executable: before it made the directory, before
\* it made the file, or while it writes to it.  Nothing was pushed so far.
LaunchFails(m) ==
    LET p == plan[m].by
        x == plan[m].platform
    IN  /\ Launches(m) /\ x \notin key[p] /\ x \in src[p]
        /\ \/ tmpDir' \in {tmpDir, MadeDir(p)} /\ UNCHANGED <<disk, left>>
           \/ /\ CanWrite(p, x) /\ tmpDir' = MadeDir(p)
              /\ disk' = disk \cup {x} /\ left' = left \cup {x}
        /\ SetupFails(m)
        /\ pc' = [pc EXCEPT ![m] = "failed"]
        /\ untidy' = TRUE
        /\ UNCHANGED <<plan, stack, key, ref, src, exec, netns, crashed, stale, shared>>

\* addNetns, if the node has a namespace to create: it fails if that exists.
AddNetns(m) ==
    /\ pc[m] = "netns"
    /\ \/ ~plan[m].netns /\ pc' = [pc EXCEPT ![m] = "start"]
          /\ UNCHANGED <<stack, setup, netns>>
       \/ plan[m].netns /\ m \notin netns /\ pc' = [pc EXCEPT ![m] = "start"]
          /\ netns' = netns \cup {m}
          /\ stack' = [stack EXCEPT ![m] = Append(@, "netns")]
          /\ UNCHANGED setup
       \/ plan[m].netns /\ pc' = [pc EXCEPT ![m] = "abort"]
          /\ SetupFails(m) /\ UNCHANGED <<stack, netns>>
    /\ UNCHANGED <<plan, src, repoVars, crashed, stale, shared, untidy>>

\* newExes reads the executables for all nodes below m, so that setup can send
\* them along, without m's own: a node reads that of its own platform from the
\* file that it runs from.
CanRead(m) ==
    LET p == plan[m].by
    IN  PlatformsBelow(m) \subseteq {x \in src[p] : Foreign(plan, p, x) \/ p \in exec}

\* Its setup is not run by m: it cannot be sent, or is lost.
NoSetup(m) ==
    /\ IF CanRead(m) THEN UNCHANGED setup ELSE SetupFails(m)
    /\ UNCHANGED src

\* newNodeCmd and Start, then setup of the new process, which has an exeRepo of
\* its own.  The command may fail to start, and so may the process that sudo or
\* ip is to start.
StartCmd(m) ==
    /\ pc[m] = "start"
    /\ \/ /\ plan[m].platform \in disk /\ plan[m].by \in tmpDir
          /\ pc' = [pc EXCEPT ![m] = "up"]
          /\ init(m)
          /\ exec' = exec \cup {m}
          /\ \/ /\ CanRead(m)
                /\ src' = [src EXCEPT ![m] = {plan[m].platform} \cup PlatformsBelow(m)]
                /\ setup' = setup \cup {m}
             \/ NoSetup(m)
       \/ /\ pc' = [pc EXCEPT ![m] = "down"]
          /\ NoSetup(m) /\ UNCHANGED <<key, ref, tmpDir, exec>>
       \/ /\ pc' = [pc EXCEPT ![m] = "abort"]
          /\ SetupFails(m) /\ UNCHANGED <<key, ref, tmpDir, src, exec>>
    /\ UNCHANGED <<plan, stack, disk, left, netns, crashed, stale, shared, untidy>>

-----------------------------------------------------------------------------
(* The end of a node.                                                      *)

\* The process of m ends, and what it has in memory is gone.  nodeCmd.Close waits
\* for it, if its launcher lives.
Ended(m) ==
    /\ key' = [key EXCEPT ![m] = {}]
    /\ ref' = [ref EXCEPT ![m] = [x \in Platforms |-> 0]]
    /\ src' = [src EXCEPT ![m] = {}]
    /\ tmpDir' = tmpDir \ {m}
    /\ exec' = exec \ {m}
    /\ setup' = setup \ {m}
EndOf(m) == IF plan[m].by \in crashed THEN "ended" ELSE "down"

\* It exits, by itself or when its stdin is closed; a node ends when its children
\* are gone (Quiescent in Node).
Exit(m) ==
    /\ pc[m] = "up" /\ \A k \in By(m) : pc[k] \in Resting
    /\ pc' = [pc EXCEPT ![m] = EndOf(m)]
    /\ Ended(m)
    /\ UNCHANGED <<plan, stack, disk, left, netns, crashed, stale, shared, untidy>>

\* A panic that is not recovered, or a signal, ends it at any time: the launches
\* in it are given up without their closers, its children run on for a while.
Crash(m) ==
    /\ pc[m] = "up"
    /\ pc' = [k \in Nodes |->
                 IF k = m THEN EndOf(m)
                 ELSE IF k \in By(m) /\ pc[k] \notin Resting \cup {"up"} THEN "ended"
                 ELSE pc[k]]
    /\ stack' = [k \in Nodes |-> IF k \in By(m) THEN <<>> ELSE stack[k]]
    /\ stale' = stale \cup (By(m) \cap netns)
    /\ left' = left \cup (key[m] \ {plan[m].platform})
    /\ crashed' = crashed \cup {m}
    /\ untidy' = TRUE
    /\ Ended(m)
    /\ UNCHANGED <<plan, disk, netns, shared>>

\* nodeCmd.Close, called by the conn, has waited for the process.
Wait(m) ==
    /\ pc[m] = "down"
    /\ pc' = [pc EXCEPT ![m] = "close"]
    /\ UNCHANGED <<plan, stack, setup, src, repoVars, netns, crashed, stale, shared,
                   untidy>>

\* closerStack.run: the closers run in reverse order; the error of one does
\* not keep the next from running.
CloserNetns(m) ==
    /\ pc[m] \in {"abort", "close"} /\ stack[m] # <<>>
    /\ stack[m][Len(stack[m])] = "netns"
    /\ stack' = [stack EXCEPT ![m] = SubSeq(@, 1, Len(@) - 1)]
    /\ \/ netns' = netns \ {m} /\ UNCHANGED stale
       \/ stale' = stale \cup {m} /\ UNCHANGED netns
    /\ UNCHANGED <<plan, pc, setup, src, repoVars, crashed, shared, untidy>>

\* Mutant: Close of the stack is called again after a failed launch.
CloserExeTwice(m) ==
    /\ pc[m] \in {"abort", "close"} /\ stack[m] # <<>>
    /\ stack[m][Len(stack[m])] = "exe"
    /\ stack' = [stack EXCEPT ![m] = IF pc[m] = "abort" THEN @ ELSE <<>>]
    /\ Close(m)
    /\ UNCHANGED <<plan, pc, setup, src, netns, crashed, stale, shared, untidy>>

CloserExe(m) ==
    /\ pc[m] \in {"abort", "close"} /\ stack[m] # <<>>
    /\ stack[m][Len(stack[m])] = "exe"
    /\ stack' = [stack EXCEPT ![m] = SubSeq(@, 1, Len(@) - 1)]
    /\ Close(m)
    /\ UNCHANGED <<plan, pc, setup, src, netns, crashed, stale, shared, untidy>>

ClosersDone(m) ==
    /\ pc[m] \in {"abort", "close"} /\ stack[m] = <<>>
    /\ pc' = [pc EXCEPT ![m] = IF @ = "abort" THEN "failed" ELSE "ended"]
    /\ UNCHANGED <<plan, stack, setup, src, repoVars, netns, crashed, stale, shared,
                   untidy>>

\* A test is over when its nodes are gone; antler goes on with the next.
NextTest ==
    /\ \A m \in Nodes : pc[m] \in Resting
    /\ plan' \in Plans
    /\ pc' = [m \in Nodes |-> "none"]
    /\ setup' = {Antler}
    /\ crashed' = {}
    /\ shared' = shared \cup Shared(plan')
    /\ UNCHANGED <<stack, src, repoVars, netns, stale, untidy>>

-----------------------------------------------------------------------------
Next ==
    \/ \E m \in Nodes :
          \/ LaunchNode(m) \/ LaunchFails(m) \/ AddNetns(m) \/ StartCmd(m)
          \/ Exit(m) \/ Crash(m) \/ Wait(m)
          \/ CloserNetns(m) \/ CloserExe(m) \/ ClosersDone(m)
    \/ NextTest

Spec == Init /\ [][Next]_vars

-----------------------------------------------------------------------------
(* Properties.                                                             *)

\* No node above m has crashed.
Rooted(m) == \A c \in crashed : m \notin Below(c)

\* An executable is in its place from the time a launch has it until its
\* process has exited, and is then still the file that the process was started
\* from, whatever other processes that use the same directory launch, close and
\* remove meanwhile, and whichever of them crash: unless a node above it is one
\* of those, or two processes extract its platform, of which each then removes
\* the file when it has no user left in that process.  A namespace is there for
\* as long as a process runs in it.  And setup has a source for every node that
\* it is to launch, and for all that those are to be given: else newExes or File
\* would not return, as source calls Platforms, which locks mtx again.
ExeThere ==
    \A m \in Nodes :
       /\ pc[m] \in {"netns", "start", "up"} /\ Rooted(m) /\ plan[m].platform \notin shared =>
             /\ plan[m].platform \in disk /\ plan[m].by \in tmpDir
             /\ pc[m] = "up" => m \in exec
       /\ pc[m] = "up" /\ plan[m].netns => m \in netns
       /\ m \in DOMAIN plan /\ plan[m].by \in setup =>
             {plan[m].platform} \cup PlatformsBelow(m) \subseteq src[plan[m].by]

\* When all nodes of a test are gone, whether their launch failed or not, so
\* are the executables, but for those that an extraction which failed or a
\* process that crashed has left, and those with several extractors; so is the
\* directory, if there was none of these; and so are the namespaces, save those
\* that could not be deleted, or whose launcher crashed.
CleanedUp ==
    (\A m \in Nodes : pc[m] \in Resting) =>
       /\ disk \subseteq left \cup shared
       /\ ~untidy /\ shared = {} => tmpDir = {} /\ left = {}
       /\ netns \subseteq stale

-----------------------------------------------------------------------------
(* The inductive invariant; LaunchProofs proves it.                        *)

\* What launch and the closers leave on the stack, and what becomes of the
\* launches of a process that crashes.
StackInv ==
    \A m \in Nodes :
       /\ stack[m] \in {<<>>, <<"exe">>, <<"exe", "netns">>}
       /\ pc[m] # "none" => m \in DOMAIN plan
       /\ pc[m] \in Resting => stack[m] = <<>>
       /\ pc[m] = "netns" => stack[m] = <<"exe">>
       /\ pc[m] \in {"start", "up", "down"} =>
             \/ stack[m] = IF plan[m].netns THEN <<"exe", "netns">> ELSE <<"exe">>
             \/ pc[m] = "up" /\ plan[m].by \in crashed /\ stack[m] = <<>>
       /\ stack[m] = <<"exe", "netns">> => m \in netns
       /\ pc[m] = "up" /\ plan[m].netns => m \in netns
       /\ m \in netns => stack[m] = <<"exe", "netns">> \/ m \in stale

\* The launches that have their executable.
Holders == {m \in Nodes : stack[m] # <<>>}

\* They were launched by processes that still run, and in the end by antler, or
\* by a node whose launcher crashed.
TreeInv ==
    /\ \A m \in Holders : plan[m].by \in Alive
    /\ \A S \in SUBSET Holders : S # {} => \E m \in S : plan[m].by \notin S
    /\ \A m \in crashed : m \in DOMAIN plan /\ pc[m] \notin {"none", "netns", "start", "up"}

\* fileRef counts the launches of a process, and the process itself; it has the
\* keys that it counts, and perhaps more if several processes extract them.
Users(p, x) == {m \in By(p) \cap Holders : plan[m].platform = x}
Own(p, x) == IF p \in Nodes /\ p \in Alive /\ plan[p].platform = x THEN 1 ELSE 0
RefInv ==
    \A p \in Procs, x \in Platforms :
       /\ ref[p][x] = Cardinality(Users(p, x)) + Own(p, x)
       /\ ref[p][x] > 0 => x \in key[p]
       /\ x \in key[p] => ref[p][x] > 0 \/ x \in shared

\* The files are there for as long as a process counts itself as their user, and
\* no longer unless they were left; and so is the directory.
DirInv ==
    /\ tmpDir \subseteq Alive /\ setup \subseteq Alive
    /\ tmpDir # {} \/ disk # {} => Antler \in tmpDir
    /\ \A m \in exec : pc[m] = "up" /\ plan[m].platform \in disk /\ m \in tmpDir
    /\ Shared(plan) \subseteq shared
    /\ \A x \in Platforms \ shared :
          /\ \A p \in Procs : x \in key[p] /\ Foreign(plan, p, x) => x \in disk /\ p \in tmpDir
          /\ x \in disk => x \in left \/ \E p \in Procs : x \in key[p] /\ Foreign(plan, p, x)
    /\ \A m \in Holders : Rooted(m) /\ plan[m].platform \notin shared =>
          /\ plan[m].platform \in disk /\ plan[m].by \in tmpDir
          /\ pc[m] = "up" => m \in exec
    /\ ~untidy => /\ crashed = {} /\ left = {}
                  /\ shared = {} /\ tmpDir # {} => Holders # {}

\* A process that launches has the executables for all nodes below it.
SrcInv ==
    /\ src[Antler] = Platforms
    /\ \A m \in Nodes \cap setup : {plan[m].platform} \cup PlatformsBelow(m) \subseteq src[m]

\* All of this holds always: fileRef in each of the processes agrees with the
\* launches that use the common directory, in whatever order they come and go.
LaunchInv == TypeOK /\ StackInv /\ TreeInv /\ RefInv /\ DirInv /\ SrcInv
============================================================================
