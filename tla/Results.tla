------------------------------ MODULE Results ------------------------------
(* The result directories of antler, and the run and report commands that  *)
(* write them (results.go, antler.go, test.go).  Several antler instances  *)
(* share one file system: a root directory, a work directory whose         *)
(* existence is the lock of resultRW, dated result directories and the     *)
(* latest symlink.  A file is a link to an inode, so that a write into a   *)
(* file that was hard linked from a prior result would be seen there.      *)
(* The operations on the work directory, private to the instance that      *)
(* holds the lock, are one step each; every system call on a shared path   *)
(* is a step of its own, before and after which another instance may run   *)
(* or the process may die.                                                 *)
EXTENDS Naturals, FiniteSets, FiniteSetsExt

CONSTANTS
    Instances,   \* antler processes
    MaxTests,    \* a configuration has up to MaxTests Tests
    Values,      \* what a Test may measure
    MaxTime,     \* bounds the clock, in the units of ResultDirFormat (seconds)
    Confs        \* a set of choices of the following

Conf == [procs : SUBSET Instances,                \* the instances that run
         tests : 1..MaxTests,                     \* the Tests are 1..tests
         unsaved : SUBSET (1..MaxTests),          \* those with an empty DataFile
         values : SUBSET Values,                  \* what they may measure
         \* what Encode does for each Test, from command to command
         encoding : [1..MaxTests -> SUBSET {"none", "keep", "destructive"}],
         commands : SUBSET {"run", "filter", "report"}, \* run, run -f, report
         faults : BOOLEAN,       \* processes may be killed, reading RootDir or
                                 \* saving a file may fail
         sameSecond : BOOLEAN,   \* two commands may end within one second
         until : 1..MaxTime]     \* the clock stops there, as do commands

ASSUME ResultsAssumption ==
    /\ MaxTests \in Nat \ {0} /\ MaxTime \in Nat \ {0}
    /\ \A x \in Confs : x \in Conf

\* A result file: the data file of a Test, a file that SaveFiles saved and its
\* encoded form, what the After reports emit, and the index of the Tests.
Index == <<0, "index">>
NamesOf[k \in 1..MaxTests] == ((1..k) \X {"data", "file", "gz", "out"}) \cup {Index}

Encodings(n) == IF n[2] = "file" THEN {n, <<n[1], "gz">>} ELSE {n}

NoFile == 0
Free == [free |-> TRUE]
InodesOf[k \in 1..MaxTests] == 1..(Cardinality(NamesOf[k]) * (MaxTime + 1) + 1)
EmptyOf[k \in 1..MaxTests] == [n \in NamesOf[k] |-> NoFile]

VARIABLES
    conf,
    root,      \* RootDir exists
    work,      \* WorkDir exists
    files,     \* the files of WorkDir
    results,   \* result directories by time
    disk,      \* the contents of the inodes
    latest,    \* what LatestSymlink links to, 0 if there is none
    latestTmp, \* the same for the temporary symlink, LatestSymlink~
    now,       \* the clock
    pc,        \* what each instance does next
    cmd,       \* its command
    info,      \* the prior results that it found in open
    stat,      \* its resultStat
    test,      \* the Test that it works on
    dir,       \* the result directory that it made
    seen,      \* the Tests that reached the Index multiReporter
    ran,       \* RunInfo.Ran or ReportInfo.Reported is not 0
    err        \* the error that the command returns is not nil

fsVars == <<root, work, files, results, disk, latest, latestTmp>>
dirVars == <<root, work, results, latest, latestTmp>>
procVars == <<cmd, info, stat, test, dir, seen, ran>>
vars == <<conf, fsVars, now, pc, procVars, err>>

Times == 1..conf.until
Tests == 1..conf.tests
Unsaved == conf.unsaved
Names == NamesOf[conf.tests]
Inodes == InodesOf[conf.tests]
Empty == EmptyOf[conf.tests]
Dirs == [Names -> Inodes \cup {NoFile}]

Contents ==
    [v : Values, err : BOOLEAN, ref : BOOLEAN]   \* data: an Error, a FileRef
        \cup [v : Values]                        \* file, gz, out
        \cup [paths : SUBSET Names]              \* index

Existing == {t \in Times : results[t] # Empty}
NoStat == [new |-> {}, linked |-> {}, removed |-> {}]

Holding(p) == pc[p] \in {"info", "test", "stop", "rename", "removeAll"}

TypeOK ==
    /\ conf \in Confs
    /\ root \in BOOLEAN /\ work \in BOOLEAN
    /\ files \in Dirs /\ results \in [Times -> Dirs]
    /\ disk \in [Inodes -> Contents \cup {Free}]
    /\ latest \in Times \cup {0} /\ latestTmp \in Times \cup {0}
    /\ now \in Times \cup {0}
    /\ dir \in [Instances -> Times \cup {0}]
    /\ pc \in [Instances -> {"start", "mkdir", "info", "test", "stop", "rename",
                             "removeAll", "symlink", "relink", "dirEmpty",
                             "removeRoot"}]
    /\ cmd \in [Instances -> conf.commands \cup {"none"}]
    /\ info \in [Instances -> SUBSET Times]
    /\ stat \in [Instances -> [new : SUBSET Names, linked : SUBSET Names,
                               removed : SUBSET Names]]
    /\ test \in [Instances -> 1..(conf.tests + 1)]
    /\ seen \in [Instances -> SUBSET Tests]
    /\ ran \in [Instances -> BOOLEAN] /\ err \in [Instances -> BOOLEAN]

Init ==
    /\ conf \in Confs
    /\ root = FALSE /\ work = FALSE
    /\ files = Empty /\ results = [t \in Times |-> Empty]
    /\ disk = [i \in Inodes |-> Free]
    /\ latest = 0 /\ latestTmp = 0 /\ now = 0
    /\ pc = [p \in Instances |-> "start"]
    /\ cmd = [p \in Instances |-> "none"]
    /\ info = [p \in Instances |-> {}]
    /\ stat = [p \in Instances |-> NoStat]
    /\ test = [p \in Instances |-> 1]
    /\ dir = [p \in Instances |-> 0]
    /\ seen = [p \in Instances |-> {}]
    /\ ran = [p \in Instances |-> FALSE]
    /\ err = [p \in Instances |-> FALSE]

-----------------------------------------------------------------------------
(* resultRW and atomicWriter, on a work directory w: its files f, the      *)
(* inodes d, and the resultStat s of the instance that holds it.           *)

Work(p) == [f |-> files, d |-> disk, s |-> stat[p]]

\* Directory f with an entry for n.
Set(f, n, i) == [m \in Names |-> IF m = n THEN i ELSE f[m]]

\* The inodes that some directory entry links to; the others are free.
Used(f) == {f[n] : n \in Names} \cup {results[t][n] : t \in Times, n \in Names}
Collect(d, f) == [i \in Inodes |-> IF i \in Used(f) THEN d[i] ELSE Free]

addNew(s, n) == [new |-> s.new \cup {n}, linked |-> s.linked \ {n},
                 removed |-> s.removed \ {n}]
addLinked(s, N) == [new |-> s.new \ N, linked |-> s.linked \cup N,
                    removed |-> s.removed \ N]
addRemoved(s, n) == [new |-> s.new \ {n}, linked |-> s.linked \ {n},
                     removed |-> s.removed \cup {n}]

Changed(s) == s.new # {} \/ s.removed # {}
Paths(s) == s.new \cup s.linked

\* The same file in the last result, NoFile if there is none.
findPrior(w, inf, n, c) ==
    LET i == IF inf = {} THEN NoFile ELSE results[Max(inf)][n]
    IN IF i # NoFile /\ w.d[i] = c THEN i ELSE NoFile

\* Mutant: the writer truncates the file that is there.
WriteInPlace(w, inf, n, c) ==
    LET i == IF w.f[n] # NoFile THEN w.f[n]
             ELSE CHOOSE j \in Inodes : j \notin Used(w.f)
        f == Set(w.f, n, i)
    IN [f |-> f, d |-> Collect([w.d EXCEPT ![i] = c], f), s |-> addNew(w.s, n)]

\* A whole Write and Close of an atomicWriter: name~ is written, then either
\* linked from the prior version or renamed over what is there.
Write(w, inf, n, c) ==
    LET p == findPrior(w, inf, n, c)
        i == IF p # NoFile THEN p ELSE CHOOSE j \in Inodes : j \notin Used(w.f)
        f == Set(w.f, n, i)
    IN [f |-> f, d |-> Collect([w.d EXCEPT ![i] = c], f),
        s |-> IF p # NoFile THEN addLinked(w.s, {n}) ELSE addNew(w.s, n)]

Remove(w, n) ==
    LET f == Set(w.f, n, NoFile)
    IN [f |-> f, d |-> Collect(w.d, f), s |-> addRemoved(w.s, n)]

\* Link: all encodings, from the last result that has one.  It fails if there
\* is none, or if the name is taken.
Prior(inf, n) == {t \in inf : \E x \in Encodings(n) : results[t][x] # NoFile}
LinkSet(inf, n) ==
    {x \in Encodings(n) : results[Max(Prior(inf, n))][x] # NoFile}
CanLink(w, inf, n) ==
    Prior(inf, n) # {} /\ \A x \in LinkSet(inf, n) : w.f[x] = NoFile
Link(w, inf, n) ==
    LET X == LinkSet(inf, n)
    IN [w EXCEPT !.f = [x \in Names |->
                          IF x \in X THEN results[Max(Prior(inf, n))][x]
                          ELSE w.f[x]],
                 !.s = addLinked(w.s, X)]

\* Mutant: the FileRefs in the data are not linked.
LinkDataOnly(w, inf, t) ==
    LET d == <<t, "data">>
    IN IF ~CanLink(w, inf, d) THEN [ok |-> FALSE, w |-> w]
       ELSE [ok |-> TRUE, w |-> Link(w, inf, d)]

\* LinkPriorData: the data file, then the file that it has a FileRef of.  If
\* the second fails, the first stays linked.
LinkPriorData(w, inf, t) ==
    LET d == <<t, "data">>
        f == <<t, "file">>
        w1 == Link(w, inf, d)
    IN IF ~CanLink(w, inf, d) THEN [ok |-> FALSE, w |-> w]
       ELSE IF ~w1.d[w1.f[d]].ref THEN [ok |-> TRUE, w |-> w1]
       ELSE IF CanLink(w1, inf, f) THEN [ok |-> TRUE, w |-> Link(w1, inf, f)]
       ELSE [ok |-> FALSE, w |-> w1]

SetWork(p, w) ==
    /\ files' = w.f /\ disk' = w.d
    /\ stat' = [stat EXCEPT ![p] = w.s]

-----------------------------------------------------------------------------
(* Results.open: MkdirAll of RootDir, Mkdir of WorkDir, and info.          *)

Goto(p, l) == pc' = [pc EXCEPT ![p] = l]

\* The command returns, with an error if e, and what it knew is gone.
Return(p, e) ==
    /\ Goto(p, "start")
    /\ cmd' = [cmd EXCEPT ![p] = "none"]
    /\ info' = [info EXCEPT ![p] = {}]
    /\ stat' = [stat EXCEPT ![p] = NoStat]
    /\ test' = [test EXCEPT ![p] = 1]
    /\ dir' = [dir EXCEPT ![p] = 0]
    /\ seen' = [seen EXCEPT ![p] = {}]
    /\ ran' = [ran EXCEPT ![p] = FALSE]
    /\ err' = [err EXCEPT ![p] = @ \/ e]

Continue(p, l) == Goto(p, l) /\ UNCHANGED <<procVars, err>>

Start(p) ==
    /\ pc[p] = "start" /\ now < conf.until
    /\ root' = TRUE
    /\ \E c \in conf.commands : cmd' = [cmd EXCEPT ![p] = c]
    /\ Goto(p, "mkdir")
    /\ err' = [err EXCEPT ![p] = FALSE]
    /\ UNCHANGED <<work, files, results, disk, latest, latestTmp, now, info, stat,
                   test, dir, seen, ran>>

\* Mutant: the lock is not one: MkdirAll in place of Mkdir.
MkdirShared(p) ==
    /\ pc[p] = "mkdir"
    /\ IF root THEN Continue(p, "info") /\ work' = TRUE
       ELSE Return(p, TRUE) /\ UNCHANGED work
    /\ UNCHANGED <<root, files, results, disk, latest, latestTmp, now>>

\* It fails if WorkDir exists, or if RootDir was removed meanwhile.
Mkdir(p) ==
    /\ pc[p] = "mkdir"
    /\ IF root /\ ~work THEN Continue(p, "info") /\ work' = TRUE
       ELSE Return(p, TRUE) /\ UNCHANGED work
    /\ UNCHANGED <<root, files, results, disk, latest, latestTmp, now>>

\* If RootDir cannot be read, open returns and WorkDir stays.
Info(p) ==
    /\ pc[p] = "info"
    /\ \/ /\ info' = [info EXCEPT ![p] = Existing]
          /\ Goto(p, "test")
          /\ UNCHANGED <<cmd, stat, test, dir, seen, ran, err>>
       \/ conf.faults /\ Return(p, TRUE)
    /\ UNCHANGED <<fsVars, now>>

-----------------------------------------------------------------------------
(* doRun.Test and doReport.Test.  The pipelines themselves are in the      *)
(* module Pipeline; here they count by the files that they leave.          *)

Current(p) == test[p]
Linking(p) == LinkPriorData(Work(p), info[p], Current(p))
DataHasError(w, t) == w.d[w.f[<<t, "data">>]].err

\* The During pipeline of Test t measures v, reports an error if e, and saves a
\* file if s.
SaveFile(w, inf, t, v) == Write(w, inf, <<t, "file">>, [v |-> v])

WriteData(w, inf, t, v, e, s) ==
    IF t \in Unsaved THEN w
    ELSE Write(w, inf, <<t, "data">>, [v |-> v, err |-> e, ref |-> s])

During(w, inf, t, v, e, s) ==
    WriteData(IF s THEN SaveFile(w, inf, t, v) ELSE w, inf, t, v, e, s)

\* Encode.encode, for a FileRef: a file that is there in encoded form only has
\* the codec already, and is left alone.
EncodeFile(w, inf, t, e) ==
    LET f == <<t, "file">>
        w1 == Write(w, inf, <<t, "gz">>, w.d[w.f[f]])
    IN IF e = "none" \/ w.f[f] = NoFile THEN w
       ELSE IF e = "keep" THEN w1 ELSE Remove(w1, f)

\* The After reports encode the file, and write one that tells what was
\* measured.
After(w, inf, t, v, s, e) ==
    Write(IF s THEN EncodeFile(w, inf, t, e) ELSE w, inf, <<t, "out">>, [v |-> v])

\* The Test is done with, and the command goes on to the next one.
NextTest(p, w) ==
    /\ SetWork(p, w)
    /\ test' = [test EXCEPT ![p] = @ + 1]
    /\ UNCHANGED <<dirVars, now, pc, cmd, info, dir, err>>

\* The Test returns an error, so the command returns.
Fail(p, w) ==
    /\ SetWork(p, w)
    /\ Goto(p, "stop")
    /\ err' = [err EXCEPT ![p] = TRUE]
    /\ UNCHANGED <<dirVars, now, cmd, info, test, dir>>

\* The After pipeline, with the multiReporters, of data that measures v and has
\* a FileRef if s.
RunAfter(p, w, v, s) ==
    /\ seen' = [seen EXCEPT ![p] = @ \cup {Current(p)}]
    /\ \/ \E e \in conf.encoding[Current(p)] :
             NextTest(p, After(w, info[p], Current(p), v, s, e))
       \/ conf.faults /\ Fail(p, w)

\* Mutant: the errors in prior data are not looked for.
LinkUsableAlways(p) ==
    LET t == Current(p)
    IN t \notin Unsaved /\ Linking(p).ok

\* The prior data is used, without a Filter only if it has no error.
LinkUsable(p) ==
    LET t == Current(p)
    IN /\ t \notin Unsaved /\ Linking(p).ok
       /\ cmd[p] = "run" => ~DataHasError(Linking(p).w, t)

Testing(p) == pc[p] = "test" /\ test[p] <= conf.tests

\* Tests that the Filter does not accept, or that have run before, are linked.
TestLinked(p) ==
    /\ Testing(p) /\ LinkUsable(p)
    /\ LET w == Linking(p).w
           d == w.d[w.f[<<Current(p), "data">>]]
       IN RunAfter(p, w, d.v, d.ref)
    /\ ran' = [ran EXCEPT ![p] = @ \/ cmd[p] = "report"]

\* There is no data to link, or not all of it.
TestSkipped(p) ==
    /\ Testing(p) /\ cmd[p] \in {"filter", "report"}
    /\ IF Current(p) \in Unsaved
       THEN cmd[p] = "report" /\ NextTest(p, Work(p))
       ELSE ~Linking(p).ok /\ NextTest(p, Linking(p).w)
    /\ UNCHANGED <<seen, ran>>

\* A Test without DataFile that the Filter does not accept: link returns
\* DataFileUnsetError, and so does the command.
TestUnset(p) ==
    /\ Testing(p) /\ cmd[p] = "filter" /\ Current(p) \in Unsaved
    /\ Fail(p, Work(p))
    /\ UNCHANGED <<seen, ran>>

\* The work directory in which the Test runs: what LinkPriorData linked of
\* prior data that has an error, or that is not complete, is still there.
RunDir(p) ==
    IF cmd[p] = "filter" \/ Current(p) \in Unsaved THEN Work(p)
    ELSE Linking(p).w

Runnable(p) ==
    /\ Testing(p)
    /\ cmd[p] = "filter" \/ (cmd[p] = "run" /\ ~LinkUsable(p))

TestRun(p) ==
    /\ Runnable(p)
    /\ \E v \in conf.values, s \in BOOLEAN :
          RunAfter(p, During(RunDir(p), info[p], Current(p), v, FALSE, s), v, s)
    /\ ran' = [ran EXCEPT ![p] = TRUE]

\* The data has an error, which writeData returns when it is all saved.
TestRunError(p) ==
    /\ Runnable(p)
    /\ \E v \in conf.values, s \in BOOLEAN :
          Fail(p, During(RunDir(p), info[p], Current(p), v, TRUE, s))
    /\ ran' = [ran EXCEPT ![p] = TRUE]
    /\ UNCHANGED seen

\* SaveFiles fails to close its file, after Do is done: the FileRef was sent
\* before.  Or the data file cannot be written.
TestSaveFails(p) ==
    /\ Runnable(p) /\ conf.faults
    /\ \E v \in conf.values :
          \/ Fail(p, WriteData(RunDir(p), info[p], Current(p), v, FALSE, TRUE))
          \/ Fail(p, SaveFile(RunDir(p), info[p], Current(p), v))
    /\ ran' = [ran EXCEPT ![p] = TRUE]
    /\ UNCHANGED seen

TestsDone(p) ==
    /\ pc[p] = "test" /\ test[p] > conf.tests
    /\ Goto(p, "stop")
    /\ UNCHANGED <<fsVars, now, procVars, err>>

\* Mutant: a command that changed nothing returns and does not call Abort.
StopNoAbort(p) ==
    /\ pc[p] = "stop"
    /\ SetWork(p, Write(Work(p), info[p], Index, [paths |-> {}]))
    /\ Goto(p, IF ran[p] /\ Changed(stat'[p]) THEN "rename"
               ELSE IF ran[p] THEN "dirEmpty" ELSE "removeAll")
    /\ UNCHANGED <<dirVars, now, cmd, info, test, dir, seen, ran, err>>

\* multiRunner.stop: the Index lists the files of the Tests that it has seen.
Stop(p) ==
    /\ pc[p] = "stop"
    /\ LET ps == {n \in Paths(stat[p]) : n[1] \in seen[p]}
       IN SetWork(p, Write(Work(p), info[p], Index, [paths |-> ps]))
    /\ Goto(p, IF ran[p] /\ Changed(stat'[p]) THEN "rename" ELSE "removeAll")
    /\ UNCHANGED <<dirVars, now, cmd, info, test, dir, seen, ran, err>>

-----------------------------------------------------------------------------
(* Close and Abort.                                                        *)

\* WorkDir is renamed to the directory for the current time.  If the name is
\* taken the rename fails, WorkDir stays, and Close goes on to the symlink: the
\* error is overwritten there.
Rename(p) ==
    /\ pc[p] = "rename"
    /\ \E t \in Times :
          /\ IF conf.sameSecond THEN t >= now ELSE t > now
          /\ now' = t
          /\ dir' = [dir EXCEPT ![p] = t]
          /\ IF results[t] # Empty THEN UNCHANGED <<work, files, results>>
             ELSE /\ results' = [results EXCEPT ![t] = files]
                  /\ work' = FALSE /\ files' = Empty
    /\ Goto(p, "symlink")
    /\ UNCHANGED <<root, disk, latest, latestTmp, cmd, info, stat, test, seen, ran,
                   err>>

\* Mutant: a latest symlink that exists is left alone.
SymlinkOnce(p) ==
    /\ pc[p] = "symlink"
    /\ IF latestTmp # 0 \/ latest # 0 THEN Return(p, TRUE) /\ UNCHANGED latestTmp
       ELSE latestTmp' = dir[p] /\ Continue(p, "relink")
    /\ UNCHANGED <<root, work, files, results, disk, latest, now>>

\* The latest symlink is made under a temporary name, then moved.
Symlink(p) ==
    /\ pc[p] = "symlink"
    /\ IF latestTmp # 0 THEN Return(p, TRUE) /\ UNCHANGED latestTmp
       ELSE latestTmp' = dir[p] /\ Continue(p, "relink")
    /\ UNCHANGED <<root, work, files, results, disk, latest, now>>

Relink(p) ==
    /\ pc[p] = "relink"
    /\ Return(p, FALSE)
    /\ latest' = latestTmp /\ latestTmp' = 0
    /\ UNCHANGED <<root, work, files, results, disk, now>>

RemoveAll(p) ==
    /\ pc[p] = "removeAll"
    /\ work' = FALSE /\ files' = Empty
    /\ disk' = Collect(disk, Empty)
    /\ Continue(p, "dirEmpty")
    /\ UNCHANGED <<root, results, latest, latestTmp, now>>

RootEmpty == ~work /\ Existing = {} /\ latest = 0 /\ latestTmp = 0

\* RootDir is removed if it is empty, which it may not be when it is removed.
DirEmpty(p) ==
    /\ pc[p] = "dirEmpty"
    /\ IF root /\ RootEmpty THEN Continue(p, "removeRoot")
       ELSE Return(p, FALSE)
    /\ UNCHANGED <<fsVars, now>>

RemoveRoot(p) ==
    /\ pc[p] = "removeRoot"
    /\ root' = (root /\ ~RootEmpty)
    /\ Return(p, ~root \/ ~RootEmpty)
    /\ UNCHANGED <<work, files, results, disk, latest, latestTmp, now>>

-----------------------------------------------------------------------------
(* Processes that die, and the user who does what open asks for: a WorkDir *)
(* that is not in use is moved away.                                       *)

Crash(p) ==
    /\ conf.faults /\ pc[p] # "start"
    /\ Return(p, TRUE)
    /\ UNCHANGED <<fsVars, now>>

MoveAway ==
    /\ work /\ \A p \in Instances : ~Holding(p)
    /\ work' = FALSE /\ files' = Empty
    /\ disk' = Collect(disk, Empty)
    /\ UNCHANGED <<root, results, latest, latestTmp, now, pc, procVars, err>>

Step(p) ==
    \/ Start(p) \/ Mkdir(p) \/ Info(p)
    \/ TestLinked(p) \/ TestSkipped(p) \/ TestUnset(p)
    \/ TestRun(p) \/ TestRunError(p) \/ TestSaveFails(p)
    \/ TestsDone(p) \/ Stop(p)
    \/ Rename(p) \/ Symlink(p) \/ Relink(p)
    \/ RemoveAll(p) \/ DirEmpty(p) \/ RemoveRoot(p)
    \/ Crash(p)

Next ==
    /\ MoveAway \/ \E p \in conf.procs : Step(p)
    /\ UNCHANGED conf

Spec == Init /\ [][Next]_vars

-----------------------------------------------------------------------------
(* Properties.                                                             *)

\* What each file of directory f holds, Free if it is not there.
View(f, d) == [n \in Names |-> IF f[n] = NoFile THEN Free ELSE d[f[n]]]

\* WorkDir is a lock: one instance at most has it open, and it is there until
\* that instance renames or removes it.
OneWriter ==
    \A p \in Instances :
       Holding(p) => work /\ \A q \in Instances : Holding(q) => q = p

\* config.cue:33: "no result data is ever overwritten".  A result directory,
\* once made, stays as it is: same files, same contents, although the files
\* of later results are links to the same inodes.
NonDestructive ==
    [][\A t \in Existing :
          /\ results'[t] = results[t]
          /\ \A n \in Names : results[t][n] # NoFile =>
                disk'[results[t][n]] = disk[results[t][n]]]_vars

\* What newResultReader reads for the saved file of t: the plain one if there is
\* one.
Opened(V, t) ==
    IF V[<<t, "file">>] # Free THEN V[<<t, "file">>] ELSE V[<<t, "gz">>]

\* What a result has of a Test is from the run that its data is from: the file
\* that the data refers to, as it is read, and the reports.
Coherent(V) ==
    \A t \in Tests \ Unsaved :
       LET d == V[<<t, "data">>]
           Same(c) == c # Free /\ d # Free /\ c.v = d.v
       IN /\ V[<<t, "out">>] # Free => Same(V[<<t, "out">>])
          /\ d # Free /\ d.ref => Same(Opened(V, t))
          /\ d # Free /\ d.ref /\ ~d.err /\ V[<<t, "gz">>] # Free
                => Same(V[<<t, "gz">>])

\* The index links to files that are in the result, and to all of those of a
\* Test that it lists.
IndexComplete(V) ==
    V[Index] # Free =>
       /\ \A n \in V[Index].paths : V[n] # Free
       /\ \A n \in V[Index].paths, m \in Names :
             m[1] = n[1] /\ V[m] # Free => m \in V[Index].paths

\* Every command encodes the file of a Test, or none does.
UniformEncoding ==
    \A t \in 1..MaxTests : conf.encoding[t] = {"none"} \/ "none" \notin conf.encoding[t]

\* Every result is coherent, and has a complete index, whichever sequence of
\* run, run -f and report commands, with and without errors, it comes from.  This
\* unless Encode was taken out of the configuration, which leaves the encoded form
\* of a file linked next to the one that a new run saved.
ResultsCoherent ==
    ~conf.faults /\ UniformEncoding =>
       \A t \in Existing :
          LET V == View(results[t], disk) IN Coherent(V) /\ IndexComplete(V)

\* antler.go:165-166: without a Filter, Tests which were not run before or had
\* errors are run.  So a run that ends well leaves no error in its result.
ErrorsReRun ==
    \A p \in Instances :
       pc[p] = "rename" /\ cmd[p] = "run" /\ ~err[p] =>
          \A t \in Tests \ Unsaved :
             files[<<t, "data">>] # NoFile /\ ~DataHasError(Work(p), t)

\* One instance runs, and is not killed.
Alone == ~conf.faults /\ \E p \in Instances : conf.procs = {p}

\* A command that ends well does not leave the lock behind: Close or Abort has
\* renamed or removed WorkDir, and one that open, SaveFiles or a Test leaves when
\* it fails comes with an error.  And the latest symlink links to the latest
\* result (config.cue:59).  This if directories have different names, and the
\* second for an instance that is alone.
EndsClean ==
    ~conf.sameSecond =>
       /\ (\A p \in Instances : pc[p] = "start" /\ ~err[p]) => ~work
       /\ Alone /\ (\A p \in Instances : pc[p] \notin {"symlink", "relink"}) =>
             latest = IF Existing = {} THEN 0 ELSE Max(Existing)

-----------------------------------------------------------------------------
(* The inductive invariant; ResultsProofs proves it.                       *)

\* What file n holds, where it is there.
ContentOf(n) ==
    IF n = Index THEN [paths : SUBSET Names]
    ELSE IF n[2] = "data" THEN [v : Values, err : BOOLEAN, ref : BOOLEAN]
    ELSE [v : Values]

OfItsKind(f, d) == \A n \in Names : f[n] # NoFile => d[f[n]] \in ContentOf(n)

\* Files are of their kind.  The work directory is empty unless it is there; its
\* holder has an exact account of it, and its files are those of the Tests so far.
FileInv ==
    /\ OfItsKind(files, disk)
    /\ \A t \in Times : OfItsKind(results[t], disk)
    /\ ~work => files = Empty
    /\ \A p \in Instances :
          /\ Holding(p) => Paths(stat[p]) = {n \in Names : files[n] # NoFile}
          /\ pc[p] \in {"start", "mkdir", "info"} => test[p] = 1 /\ stat[p] = NoStat
          /\ pc[p] = "info" => files = Empty
          /\ pc[p] = "test" => \A n \in Names :
                n = Index \/ n[1] >= test[p] => files[n] = NoFile
          /\ pc[p] = "rename" => files[Index] # NoFile

\* Test t has data without error.
GoodData(V, t) == V[<<t, "data">>] # Free /\ ~V[<<t, "data">>].err

\* A run that has had no error so far has good data of each Test.
RunInv ==
    \A p \in Instances :
       /\ pc[p] \in {"stop", "rename"} /\ ~err[p] => test[p] > conf.tests
       /\ Holding(p) /\ cmd[p] = "run" /\ ~err[p] =>
             \A t \in Tests \ Unsaved : t < test[p] => GoodData(View(files, disk), t)

\* Coherent, and files are there only with the data that they came with.
Sound(V) ==
    /\ Coherent(V)
    /\ \A t \in Tests \ Unsaved :
          /\ V[<<t, "file">>] # Free \/ V[<<t, "gz">>] # Free => V[<<t, "data">>] # Free
          /\ conf.encoding[t] = {"none"} => V[<<t, "gz">>] = Free

SoundInv ==
    ~conf.faults /\ UniformEncoding =>
       Sound(View(files, disk)) /\ \A t \in Times : Sound(View(results[t], disk))

IndexInv ==
    /\ \A p \in Instances : pc[p] = "rename" => IndexComplete(View(files, disk))
    /\ \A t \in Times : IndexComplete(View(results[t], disk))

\* A work directory is somebody's, or somebody has been told of it.
EndInv ==
    ~conf.sameSecond =>
       /\ \A t \in Times : t > now => results[t] = Empty
       /\ work => \E p \in Instances : Holding(p) \/ err[p] \/ pc[p] = "mkdir"

\* The symlinks, for an instance that is alone.
LatestInv ==
    Alone /\ ~conf.sameSecond =>
       \A p \in Instances :
          /\ p \notin conf.procs => pc[p] = "start"
          /\ p \in conf.procs =>
                /\ latestTmp = IF pc[p] = "relink" THEN dir[p] ELSE 0
                /\ IF pc[p] \in {"symlink", "relink"}
                   THEN dir[p] \in Existing /\ \A t \in Existing : t <= dir[p]
                   ELSE latest = IF Existing = {} THEN 0 ELSE Max(Existing)

\* All of this holds always, through every command, failure and kill: it is what
\* keeps the result directories, the index and the latest link in step.
ResultsInv ==
    /\ TypeOK /\ OneWriter /\ FileInv /\ RunInv /\ SoundInv /\ IndexInv
    /\ EndInv /\ LatestInv
============================================================================
