------------------------------ MODULE Command ------------------------------
(***************************************************************************)
(* The code that runs system commands through os/exec: the System runner   *)
(* (node/system.go), which records what a command writes, and the filters  *)
(* of the result codecs (results.go), cmdWriter, through which a result is *)
(* written, and cmdReader, through which it is read.                       *)
(*                                                                         *)
(* The process, its pipes and exec.Cmd are modelled from how they are used *)
(* here.  A pipe holds PipeLen chunks; Wait closes the pipes, so that what *)
(* is still in them is lost.                                               *)
(***************************************************************************)
EXTENDS Integers, Sequences, FiniteSets

CONSTANTS
    Confs,     \* what is run: a set of choices
    PipeLen    \* the chunks that a pipe holds

Streams == {"stdout", "stderr"}

(* A conf has the fields                                                   *)
(*   kind     "System", "cmdWriter" or "cmdReader"                         *)
(*   prog     System: the chunks that the command writes, each with its    *)
(*            stream and whether it is longer than a Scanner takes         *)
(*   chunks   else: the chunks to be filtered                              *)
(*   treat    System: Stdout and Stderr, with "file" for the name of a file*)
(*   Background  (what IgnoreErrors discards in the end is left out)       *)
(*   limit    cmdWriter: the chunks after which a write to the file fails; *)
(*            cmdReader: the chunks after which it is closed               *)
ASSUME CommandAssumption ==
    /\ PipeLen \in Nat \ {0}
    /\ Confs \subseteq
          [kind : {"System", "cmdWriter", "cmdReader"},
           prog : Seq([s : Streams, long : BOOLEAN]),
           chunks : Nat, limit : Nat, Background : BOOLEAN,
           treat : [Streams -> {"gather", "stream", "file", "quiet"}]]
    /\ \A c \in Confs : c.kind # "System" => \A s \in Streams : c.treat[s] = "quiet"

VARIABLES
    conf,
    ctx,       \* the context is done
    \* the process
    proc,      \* "new", "run", "ok" or "failed" once it has exited
    step,      \* how far it is in prog, or the chunks that it has filtered
    \* pipes
    in,        \* stdin
    inOpen,    \* stdin is not closed by the writer
    out,       \* for each stream, stdout and stderr
    pipes,     \* the pipes of this process are open
    wrote,     \* all that the process has written to each stream
    \* the goroutine that runs the command
    pc,
    res,       \* "ok" or "error" in the end; "error" when there is one before
    n,         \* the chunks that it has written or read so far
    \* the other goroutines
    rd,        \* for each stream, the one that reads it: "off", "read", "done"
    gather,    \* the one of gatherLog: "off", "range", "done"
    gatherN,   \* the gather goroutines that it waits for
    gathered,  \* the lines that it has, by stream
    data,      \* what has been recorded of each stream; or written to the file,
               \* or read by the caller of cmdReader
    cp,        \* cmdReader's copy to stdin: "off", "read", "write", "done"
    copied,    \* the chunks that it has read
    truncated, \* of truncateReader
    errc       \* there is an error in errc

procVars == <<proc, step, wrote>>
pipeVars == <<in, inOpen, out, pipes>>
mainVars == <<pc, res, n>>
ioVars == <<rd, gather, gatherN, gathered, data, cp, copied, truncated, errc>>
vars == <<conf, ctx, procVars, pipeVars, mainVars, ioVars>>

System == conf.kind = "System"
Treated(a) == {s \in Streams : conf.treat[s] \in a}
Gathered == Treated({"gather"})
Scanned == Treated({"gather", "stream"})
Piped == Treated({"gather", "stream", "file"})
Exited == proc \in {"ok", "failed"}
Total == IF System THEN Len(conf.prog) ELSE conf.chunks

TypeOK ==
    /\ conf \in Confs /\ ctx \in BOOLEAN
    /\ proc \in {"new", "run", "ok", "failed"} /\ step \in 0..Total
    /\ wrote \in [Streams -> Seq(1..Total)] /\ out \in [Streams -> Seq(1..Total)]
    /\ gathered \in [Streams -> Seq(1..Total)] /\ data \in [Streams -> Seq(1..Total)]
    /\ in \in Seq(1..Total) /\ inOpen \in BOOLEAN /\ pipes \in BOOLEAN
    /\ Len(in) <= PipeLen /\ \A s \in Streams : Len(out[s]) <= PipeLen
    /\ pc \in {"start", "cxl", "io", "run", "drain", "errc", "wait", "done"}
    /\ res \in {"none", "ok", "error"} /\ n \in 0..Total
    /\ rd \in [Streams -> {"off", "read", "done"}]
    /\ gather \in {"off", "range", "done"} /\ gatherN \in 0..2
    /\ cp \in {"off", "read", "write", "done"} /\ copied \in 0..Total
    /\ truncated \in BOOLEAN /\ errc \in BOOLEAN

Init ==
    /\ conf \in Confs /\ ctx = FALSE
    /\ proc = "new" /\ step = 0
    /\ in = <<>> /\ inOpen = TRUE /\ pipes = TRUE
    /\ out = [s \in Streams |-> <<>>] /\ wrote = out /\ gathered = out /\ data = out
    /\ pc = "start" /\ res = "none" /\ n = 0
    /\ rd = [s \in Streams |-> "off"]
    /\ gather = "off" /\ gatherN = 0
    /\ cp = "off" /\ copied = 0 /\ truncated = FALSE /\ errc = FALSE

-----------------------------------------------------------------------------
(* The process.                                                            *)

\* It writes chunk k to stream s: it waits while the pipe is full, and ends if
\* there is no one to read from it.
Emit(s, k) ==
    /\ wrote' = [wrote EXCEPT ![s] = Append(@, k)]
    /\ IF pipes THEN /\ Len(out[s]) < PipeLen
                     /\ out' = [out EXCEPT ![s] = Append(@, k)]
                     /\ UNCHANGED proc
       ELSE proc' = "failed" /\ UNCHANGED out

\* A command of System goes on; its output may be discarded ("quiet").
ProcStep ==
    /\ System /\ proc = "run" /\ step < Total
    /\ step' = step + 1
    /\ IF conf.prog[step + 1].s \in Piped THEN Emit(conf.prog[step + 1].s, step + 1)
       ELSE UNCHANGED <<proc, out, wrote>>
    /\ UNCHANGED <<conf, ctx, in, inOpen, pipes, mainVars, ioVars>>

\* A filter takes a chunk from stdin to stdout.
ProcFilter ==
    /\ ~System /\ proc = "run" /\ in # <<>>
    /\ step' = step + 1 /\ in' = Tail(in)
    /\ Emit("stdout", Head(in))
    /\ UNCHANGED <<conf, ctx, inOpen, pipes, mainVars, ioVars>>

\* It exits at its end; a decoder whose input was cut short fails.
ProcExits ==
    /\ proc = "run"
    /\ IF System THEN step = Total ELSE in = <<>> /\ ~inOpen
    /\ proc' = IF conf.kind = "cmdReader" /\ step < Total THEN "failed" ELSE "ok"
    /\ UNCHANGED <<conf, ctx, step, wrote, pipeVars, mainVars, ioVars>>

\* It fails.
ProcFails ==
    /\ proc = "run"
    /\ proc' = "failed"
    /\ UNCHANGED <<conf, ctx, step, wrote, pipeVars, mainVars, ioVars>>

\* The context is done: exec.Cmd sends an interrupt, and kills the process if it
\* still runs after WaitDelay, or kills it at once (Kill).
Signaled ==
    /\ System /\ proc = "run" /\ ctx
    /\ proc' = "failed"
    /\ UNCHANGED <<conf, ctx, step, wrote, pipeVars, mainVars, ioVars>>

-----------------------------------------------------------------------------
(* System.                                                                 *)

\* Run makes the pipes, starts the goroutines that read from them, and then the
\* command.  If that fails, exec.Cmd closes the pipes, and Run returns.
Start ==
    /\ System /\ pc = "start"
    /\ rd' = [s \in Streams |-> IF s \in Piped THEN "read" ELSE "off"]
    /\ gather' = IF Gathered = {} THEN "off" ELSE "range"
    /\ gatherN' = Cardinality(Gathered)
    /\ \/ /\ proc' = "run"
          /\ pc' = IF conf.Background THEN "cxl" ELSE "io"
          /\ UNCHANGED <<res, pipes>>
       \/ /\ pipes' = FALSE
          /\ pc' = "done" /\ res' = "error"
          /\ UNCHANGED proc
    /\ UNCHANGED <<conf, ctx, step, in, inOpen, out, wrote, n, gathered, data, cp, copied,
                   truncated, errc>>

\* In the background: the node runs the canceler after the context is done.
RunCanceler ==
    /\ pc = "cxl" /\ ctx
    /\ pc' = "io"
    /\ UNCHANGED <<conf, ctx, procVars, pipeVars, res, n, ioVars>>

\* Mutant: Run does not wait for the goroutines that read.
IOWaitNot ==
    /\ pc = "io"
    /\ pc' = "wait"
    /\ UNCHANGED <<conf, ctx, procVars, pipeVars, res, n, ioVars>>

\* io.Wait: the goroutines of gatherLog, stream and file are done.
IOWait ==
    /\ pc = "io"
    /\ gather \in {"off", "done"}
    /\ \A s \in Piped \ Gathered : rd[s] = "done"
    /\ pc' = "wait"
    /\ UNCHANGED <<conf, ctx, procVars, pipeVars, res, n, ioVars>>

\* exec.Cmd.Wait: the process has exited, and the pipes are closed.  In the
\* background an error is only logged.
Wait ==
    /\ System /\ pc = "wait" /\ Exited
    /\ pipes' = FALSE
    /\ pc' = "done" /\ res' = IF proc = "ok" \/ conf.Background THEN "ok" ELSE "error"
    /\ UNCHANGED <<conf, ctx, procVars, in, inOpen, out, n, ioVars>>

\* The goroutine of stream s gets a chunk.  A gather goroutine hands it over to
\* the one of gatherLog.  A Scanner ends at a line that is too long.
ReadChunk(s) ==
    /\ System /\ rd[s] = "read" /\ pipes /\ out[s] # <<>>
    /\ out' = [out EXCEPT ![s] = Tail(@)]
    /\ IF s \in Scanned /\ conf.prog[Head(out[s])].long
       THEN /\ rd' = [rd EXCEPT ![s] = "done"]
            /\ gatherN' = IF s \in Gathered THEN gatherN - 1 ELSE gatherN
            /\ UNCHANGED <<gathered, data>>
       ELSE /\ IF s \in Gathered
               THEN gathered' = [gathered EXCEPT ![s] = Append(@, Head(out[s]))] /\ UNCHANGED data
               ELSE data' = [data EXCEPT ![s] = Append(@, Head(out[s]))] /\ UNCHANGED gathered
            /\ UNCHANGED <<rd, gatherN>>
    /\ UNCHANGED <<conf, ctx, procVars, in, inOpen, pipes, mainVars, gather, cp, copied,
                   truncated, errc>>

\* Mutant: every goroutine sends gatherDone.
ReadEndsGathered(s) ==
    /\ System /\ rd[s] = "read" /\ (pipes => Exited /\ out[s] = <<>>)
    /\ rd' = [rd EXCEPT ![s] = "done"]
    /\ gatherN' = gatherN - 1
    /\ UNCHANGED <<conf, ctx, procVars, pipeVars, mainVars, gather, gathered, data, cp, copied,
                   truncated, errc>>

\* It gets to the end, or the pipe is closed under it.
ReadEnds(s) ==
    /\ System /\ rd[s] = "read" /\ (pipes => Exited /\ out[s] = <<>>)
    /\ rd' = [rd EXCEPT ![s] = "done"]
    /\ gatherN' = IF s \in Gathered THEN gatherN - 1 ELSE gatherN
    /\ UNCHANGED <<conf, ctx, procVars, pipeVars, mainVars, gather, gathered, data, cp, copied,
                   truncated, errc>>

\* gatherLog has the last gatherDone: all lines are logged at once.
GatherLog ==
    /\ gather = "range" /\ gatherN = 0
    /\ gather' = "done"
    /\ data' = [s \in Streams |-> IF s \in Gathered THEN gathered[s] ELSE data[s]]
    /\ UNCHANGED <<conf, ctx, procVars, pipeVars, mainVars, rd, gatherN, gathered, cp, copied,
                   truncated, errc>>

-----------------------------------------------------------------------------
(* cmdWriter, and the goroutine that copies stdout to the file.            *)

\* The first Write starts the command; without one, Close only closes the file.
WriterStart ==
    /\ conf.kind = "cmdWriter" /\ pc = "start"
    /\ \/ /\ Total = 0 /\ pc' = "done" /\ res' = "ok"
          /\ UNCHANGED <<proc, pipes, rd>>
       \/ /\ Total > 0 /\ proc' = "run" /\ pc' = "run"
          /\ rd' = [rd EXCEPT !["stdout"] = "read"]
          /\ UNCHANGED <<res, pipes>>
       \/ /\ Total > 0 /\ pipes' = FALSE /\ pc' = "done" /\ res' = "error"
          /\ rd' = [rd EXCEPT !["stdout"] = "read"]
          /\ UNCHANGED proc
    /\ UNCHANGED <<conf, ctx, step, in, inOpen, out, wrote, n, gather, gatherN, gathered, data,
                   cp, copied, truncated, errc>>

\* Write waits for room in the pipe; when all is written, Close closes stdin.
\* If the process has exited, Write fails, and then Close is called.
Write ==
    /\ conf.kind = "cmdWriter" /\ pc = "run"
    /\ \/ /\ n < Total /\ ~Exited /\ Len(in) < PipeLen
          /\ in' = Append(in, n + 1) /\ n' = n + 1
          /\ UNCHANGED <<inOpen, pc, res>>
       \/ /\ n < Total /\ Exited
          /\ inOpen' = FALSE /\ pc' = "errc" /\ res' = "error"
          /\ UNCHANGED <<in, n>>
       \/ /\ n = Total
          /\ inOpen' = FALSE /\ pc' = "errc"
          /\ UNCHANGED <<in, n, res>>
    /\ UNCHANGED <<conf, ctx, procVars, out, pipes, ioVars>>

\* io.Copy ends with an error when the file takes no more.
CopyOut ==
    /\ conf.kind = "cmdWriter" /\ rd["stdout"] = "read"
    /\ \/ /\ pipes /\ out["stdout"] # <<>>
          /\ out' = [out EXCEPT !["stdout"] = Tail(@)]
          /\ IF Len(data["stdout"]) = conf.limit
             THEN /\ rd' = [rd EXCEPT !["stdout"] = "done"] /\ errc' = TRUE
                  /\ UNCHANGED data
             ELSE /\ data' = [data EXCEPT !["stdout"] = Append(@, Head(out["stdout"]))]
                  /\ UNCHANGED <<rd, errc>>
       \/ /\ pipes => Exited /\ out["stdout"] = <<>>
          /\ rd' = [rd EXCEPT !["stdout"] = "done"] /\ errc' = ~pipes
          /\ UNCHANGED <<out, data>>
    /\ UNCHANGED <<conf, ctx, procVars, in, inOpen, pipes, mainVars, gather, gatherN, gathered,
                   cp, copied, truncated>>

-----------------------------------------------------------------------------
(* cmdReader, and the goroutine that copies the file to stdin.             *)

ReaderStart ==
    /\ conf.kind = "cmdReader" /\ pc = "start"
    /\ cp' = "read"
    /\ \/ proc' = "run" /\ pc' = "run" /\ UNCHANGED <<res, pipes>>
       \/ pipes' = FALSE /\ pc' = "done" /\ res' = "error" /\ UNCHANGED proc
    /\ UNCHANGED <<conf, ctx, step, in, inOpen, out, wrote, n, rd, gather, gatherN, gathered,
                   data, copied, truncated, errc>>

\* Read returns what there is; at the end, or when the caller has enough, it
\* calls Close, which truncates the input.
Read ==
    /\ conf.kind = "cmdReader" /\ pc = "run"
    /\ \/ /\ n < conf.limit /\ out["stdout"] # <<>>
          /\ out' = [out EXCEPT !["stdout"] = Tail(@)]
          /\ data' = [data EXCEPT !["stdout"] = Append(@, Head(out["stdout"]))]
          /\ n' = n + 1
          /\ UNCHANGED <<pc, truncated>>
       \/ /\ IF n < conf.limit THEN out["stdout"] = <<>> /\ Exited ELSE TRUE
          /\ truncated' = TRUE /\ pc' = "drain"
          /\ UNCHANGED <<out, data, n>>
    /\ UNCHANGED <<conf, ctx, procVars, in, inOpen, pipes, res, rd, gather, gatherN, gathered,
                   cp, copied, errc>>

\* Mutant: Close does not read the rest of stdout.
DrainNot ==
    /\ pc = "drain"
    /\ pc' = "errc"
    /\ UNCHANGED <<conf, ctx, procVars, pipeVars, res, n, ioVars>>

\* Close reads the rest of stdout.
Drain ==
    /\ pc = "drain"
    /\ \/ /\ out["stdout"] # <<>>
          /\ out' = [out EXCEPT !["stdout"] = Tail(@)]
          /\ UNCHANGED pc
       \/ /\ out["stdout"] = <<>> /\ Exited
          /\ pc' = "errc"
          /\ UNCHANGED out
    /\ UNCHANGED <<conf, ctx, procVars, in, inOpen, pipes, res, n, ioVars>>

\* io.Copy reads the next chunk, or finds the end of the file, or the input
\* truncated, and stdin is closed.
CopyIn ==
    /\ cp = "read"
    /\ IF truncated \/ copied = Total
       THEN cp' = "done" /\ inOpen' = FALSE /\ UNCHANGED copied
       ELSE cp' = "write" /\ copied' = copied + 1 /\ UNCHANGED inOpen
    /\ UNCHANGED <<conf, ctx, procVars, in, out, pipes, mainVars, rd, gather, gatherN, gathered,
                   data, truncated, errc>>

CopyInWrite ==
    /\ cp = "write"
    /\ IF Exited \/ ~pipes
       THEN cp' = "done" /\ inOpen' = FALSE /\ errc' = TRUE /\ UNCHANGED in
       ELSE /\ Len(in) < PipeLen /\ proc = "run"
            /\ cp' = "read" /\ in' = Append(in, copied) /\ UNCHANGED <<inOpen, errc>>
    /\ UNCHANGED <<conf, ctx, procVars, out, pipes, mainVars, rd, gather, gatherN, gathered,
                   data, copied, truncated>>

-----------------------------------------------------------------------------
(* Close, of both.                                                         *)

\* Close has the result of the copy, and then waits for the process.
ErrC ==
    /\ pc = "errc"
    /\ IF conf.kind = "cmdWriter" THEN rd["stdout"] = "done" ELSE cp = "done"
    /\ pc' = "wait" /\ res' = IF errc THEN "error" ELSE res
    /\ UNCHANGED <<conf, ctx, procVars, pipeVars, n, ioVars>>

CloseWaits ==
    /\ ~System /\ pc = "wait" /\ Exited
    /\ pipes' = FALSE
    /\ pc' = "done" /\ res' = IF res = "none" /\ proc = "ok" THEN "ok" ELSE "error"
    /\ UNCHANGED <<conf, ctx, procVars, in, inOpen, out, n, ioVars>>

-----------------------------------------------------------------------------

Cancel ==
    /\ ~ctx /\ System /\ pc # "done"
    /\ ctx' = TRUE
    /\ UNCHANGED <<conf, procVars, pipeVars, mainVars, ioVars>>

Process == ProcStep \/ ProcFilter \/ ProcExits \/ Signaled
Main ==
    \/ Start \/ RunCanceler \/ IOWait \/ Wait
    \/ WriterStart \/ Write \/ ReaderStart \/ Read \/ Drain \/ ErrC \/ CloseWaits
Reader(s) == ReadChunk(s) \/ ReadEnds(s)
Copy == CopyOut \/ CopyIn \/ CopyInWrite

Next ==
    \/ Process \/ ProcFails \/ Main \/ Copy \/ GatherLog \/ Cancel
    \/ \E s \in Streams : Reader(s)
    \/ pc = "done" /\ UNCHANGED vars

Spec == Init /\ [][Next]_vars

\* A command goes on while it can and exits at its end; a signal ends it; the
\* goroutines run.
Fairness ==
    /\ WF_vars(Process) /\ WF_vars(Signaled) /\ WF_vars(Main) /\ WF_vars(Copy)
    /\ WF_vars(GatherLog) /\ \A s \in Streams : WF_vars(Reader(s))

FairSpec == Spec /\ Fairness

-----------------------------------------------------------------------------
(* Properties.                                                             *)

\* A line of stream s that ends its Scanner.
TooLong(s, k) == s \in Scanned /\ conf.prog[k].long

\* What is expected of stream s: all that was written to it; but a Scanner ends
\* for good at a line that is too long for it.
Expected(s) ==
    LET long == {i \in DOMAIN wrote[s] : TooLong(s, wrote[s][i])}
    IN  IF long = {} THEN wrote[s]
        ELSE SubSeq(wrote[s], 1, (CHOOSE i \in long : \A j \in long : i <= j) - 1)

\* When a command that was started is waited for: the process and the goroutines
\* of its pipes have ended; System has recorded what the command wrote on both
\* streams, though it be canceled; and a result that was written or read as a
\* whole without an error is complete.
CommandComplete ==
    pc = "done" /\ proc # "new" =>
       /\ Exited /\ (\A s \in Streams : rd[s] # "read") /\ gather # "range"
       /\ cp \in {"off", "done"}
       /\ IF System THEN \A s \in Piped : data[s] = Expected(s)
          ELSE (res = "ok" /\ (conf.kind = "cmdReader" => conf.limit > Total)) =>
                  data["stdout"] = [i \in 1..Total |-> i]

\* The process waits for room in a pipe that no goroutine reads any more: the
\* file took no more, or a line was too long for the Scanner.
Blocked ==
    /\ proc = "run"
    /\ \E s \in Streams : Len(out[s]) = PipeLen /\ rd[s] = "done"

\* Run or Close returns, but for a process that is blocked so, and a background
\* command returns once the context is done; with System that ends the blocked
\* process too.
CommandEnds ==
    /\ <>(pc \in {"done", "cxl"} \/ Blocked)
    /\ (System /\ ctx) ~> pc = "done"

-----------------------------------------------------------------------------
(* The inductive invariant; CommandProofs proves it.                       *)

\* The pipes are open as long as the process runs and is not waited for.
PhaseInv ==
    /\ proc = "run" => pipes
    /\ ~pipes => pc = "done"
    /\ proc = "new" => pc \in {"start", "done"}
    /\ pc = "start" => proc = "new" /\ res = "none"
    /\ pc = "done" => proc # "run"
    /\ res = "ok" => pc = "done"

\* What the goroutines that read stream s have of it,
Got(s) == IF s \in Gathered THEN gathered[s] ELSE data[s]

\* and whether they still read it: Read of cmdReader does, for its caller.
Reading(s) == IF conf.kind = "cmdReader" THEN pc \in {"start", "run"} ELSE rd[s] # "done"

\* What was written to stream s was had or is in the pipe; once it is not read any
\* more, all was had, or all before a line that is too long.
Flow(s) ==
    /\ proc = "new" => Len(wrote[s]) = 0
    /\ Len(Got(s)) <= Len(wrote[s])
    /\ \A i \in 1..Len(Got(s)) : Got(s)[i] = wrote[s][i] /\ ~TooLong(s, wrote[s][i])
    /\ Reading(s) =>
          /\ Len(wrote[s]) = Len(Got(s)) + Len(out[s])
          /\ \A i \in 1..Len(out[s]) : out[s][i] = wrote[s][Len(Got(s)) + i]
    /\ System /\ rd[s] = "done" =>
          \/ proc # "run" /\ Len(Got(s)) = Len(wrote[s])
          \/ Len(Got(s)) < Len(wrote[s]) /\ TooLong(s, wrote[s][Len(Got(s)) + 1])

FlowInv == \A s \in Streams : Flow(s)

\* gatherLog ranges until the gather goroutines have ended; io.Wait has waited
\* for all of them.
SystemInv ==
    System =>
       /\ pc \in {"start", "cxl", "io", "wait", "done"} /\ cp = "off"
       /\ pc = "start" => gather = "off" /\ \A s \in Streams : rd[s] = "off"
       /\ pc # "start" => (gather = "off" <=> Gathered = {})
                          /\ \A s \in Streams : rd[s] = "off" <=> s \notin Piped
       /\ gatherN = Cardinality({s \in Gathered : rd[s] = "read"})
       /\ gather = "done" => \A s \in Gathered : rd[s] = "done" /\ data[s] = gathered[s]
       /\ pc \in {"wait", "done"} /\ proc # "new" =>
             gather # "range" /\ \A s \in Piped \ Gathered : rd[s] = "done"

\* A filter writes the chunks in the order in which they came.
FilterInv ==
    ~System =>
       /\ gather = "off" /\ rd["stderr"] = "off"
       /\ Len(wrote["stdout"]) = step
       /\ \A i \in 1..step : wrote["stdout"][i] = i
       /\ \A i \in 1..Len(in) : in[i] = step + i

\* The chunks of a result that is written are filtered or in the pipe.
WriterInv ==
    conf.kind = "cmdWriter" =>
       /\ pc \in {"start", "run", "errc", "wait", "done"} /\ cp = "off"
       /\ pc = "start" => rd["stdout"] = "off"
       /\ n = step + Len(in)
       /\ inOpen \/ n = Total \/ res = "error"
       /\ proc = "ok" => step = n /\ ~inOpen
       /\ rd["stdout"] = "done" /\ ~errc => Exited /\ Len(data["stdout"]) = step
       /\ pc \in {"wait", "done"} /\ proc # "new" =>
             rd["stdout"] = "done" /\ (errc => res = "error")
       /\ pc = "done" /\ proc # "new" /\ res = "ok" => proc = "ok"

\* The chunks of a result that is read are filtered, in the pipe or in the copy.
ReaderInv ==
    conf.kind = "cmdReader" =>
       /\ pc \in {"start", "run", "drain", "errc", "wait", "done"} /\ rd["stdout"] = "off"
       /\ pc = "start" => cp = "off" /\ copied = 0
       /\ n = Len(data["stdout"])
       /\ step + Len(in) <= copied
       /\ cp = "read" => copied = step + Len(in)
       /\ cp = "write" => copied = step + Len(in) + 1
       /\ proc = "ok" => step = Total
       /\ pc \in {"drain", "errc", "wait", "done"} /\ proc # "new" /\ conf.limit > Total =>
             Exited /\ n = step
       /\ pc \in {"wait", "done"} /\ proc # "new" => cp = "done"
       /\ pc = "done" /\ proc # "new" /\ res = "ok" => proc = "ok"

\* All of this holds always: what the process has written is what was had of it
\* and what is in the pipes, at every step of every goroutine.
CommandInv ==
    TypeOK /\ PhaseInv /\ FlowInv /\ SystemInv /\ FilterInv /\ WriterInv /\ ReaderInv
============================================================================
