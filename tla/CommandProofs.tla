---------------------------- MODULE CommandProofs -----------------------------
(***************************************************************************)
(* Proofs of the safety properties of Command, for any commands, lengths   *)
(* of results and of pipes.                                                *)
(***************************************************************************)
EXTENDS Command, FiniteSetTheorems, TLAPS

-----------------------------------------------------------------------------
(* What is run.                                                            *)

\* An element of a sequence.
LEMMA Element ==
    ASSUME NEW T, NEW q \in Seq(T)
    PROVE  \A k \in 1..Len(q) : q[k] \in T
OBVIOUS

\* The streams by their treatment, and the lines of a command.
LEMMA ConfFacts ==
    ASSUME conf \in Confs
    PROVE  /\ conf.kind \in {"System", "cmdWriter", "cmdReader"}
           /\ Total \in Nat /\ conf.limit \in Nat /\ conf.Background \in BOOLEAN
           /\ Gathered \subseteq Scanned /\ Scanned \subseteq Piped /\ Piped \subseteq Streams
           /\ ~System => Piped = {}
           /\ System => \A k \in 1..Total : conf.prog[k].s \in Streams
<1>1. /\ conf.kind \in {"System", "cmdWriter", "cmdReader"}
      /\ conf.prog \in Seq([s : Streams, long : BOOLEAN])
      /\ conf.chunks \in Nat /\ conf.limit \in Nat /\ conf.Background \in BOOLEAN
      /\ conf.treat \in [Streams -> {"gather", "stream", "file", "quiet"}]
  BY CommandAssumption
<1>2. ~System => \A s \in Streams : conf.treat[s] = "quiet"
  BY CommandAssumption DEF System
<1>3. Total \in Nat
  BY <1>1 DEF Total
<1>4. ~System => Piped = {}
  BY <1>2 DEF Piped, Treated
<1>5. System => \A k \in 1..Total : conf.prog[k].s \in Streams
  <2> DEFINE p == conf.prog
  <2>1. p \in Seq([s : Streams, long : BOOLEAN])
    BY <1>1
  <2> HIDE DEF p
  <2>2. \A k \in 1..Len(p) : p[k] \in [s : Streams, long : BOOLEAN]
    BY <2>1, Element
  <2>3. \A k \in 1..Len(p) : p[k].s \in Streams
    BY <2>2
  <2>4. QED
    BY <2>3 DEF Total, p
<1>6. QED
  BY <1>1, <1>3, <1>4, <1>5 DEF Gathered, Scanned, Piped, Treated

\* It does not change.
LEMMA SameConf ==
    ASSUME UNCHANGED conf
    PROVE  /\ System' = System /\ Total' = Total
           /\ Gathered' = Gathered /\ Scanned' = Scanned /\ Piped' = Piped
           /\ \A s, k : TooLong(s, k)' <=> TooLong(s, k)
BY DEF System, Total, Gathered, Scanned, Piped, Treated, TooLong

-----------------------------------------------------------------------------
(* What a step does to a stream.                                           *)

\* Streams are sequences of chunks.
StreamTypes(s) ==
    /\ Total \in Nat
    /\ wrote[s] \in Seq(1..Total) /\ out[s] \in Seq(1..Total) /\ Got(s) \in Seq(1..Total)

\* They are, in every state.
LEMMA TypesOfStream ==
    ASSUME TypeOK, NEW s \in Streams
    PROVE  StreamTypes(s)
BY ConfFacts DEF StreamTypes, TypeOK, Got

\* What Flow says of a stream of which got was had, o is in the pipe, and all was
\* written: it is read, or done, by a process in state p.
Shape(s, reading, done, p, got, o, all) ==
    /\ p = "new" => Len(all) = 0
    /\ Len(got) <= Len(all)
    /\ \A i \in 1..Len(got) : got[i] = all[i] /\ ~TooLong(s, all[i])
    /\ reading =>
          /\ Len(all) = Len(got) + Len(o)
          /\ \A i \in 1..Len(o) : o[i] = all[Len(got) + i]
    /\ done =>
          \/ p # "run" /\ Len(got) = Len(all)
          \/ Len(got) < Len(all) /\ TooLong(s, all[Len(got) + 1])

\* Before a step and after it.
LEMMA FlowShape ==
    ASSUME NEW s \in Streams
    PROVE  /\ Flow(s) <=> Shape(s, Reading(s), System /\ rd[s] = "done", proc, Got(s), out[s],
                                wrote[s])
           /\ UNCHANGED conf =>
                 (Flow(s)' <=> Shape(s, Reading(s)', System /\ rd'[s] = "done", proc', Got(s)',
                                     out'[s], wrote'[s]))
<1>1. Flow(s) <=> Shape(s, Reading(s), System /\ rd[s] = "done", proc, Got(s), out[s], wrote[s])
  BY DEF Flow, Shape
<1>2. ASSUME UNCHANGED conf
      PROVE  Flow(s)' <=> Shape(s, Reading(s)', System /\ rd'[s] = "done", proc', Got(s)',
                                out'[s], wrote'[s])
  BY <1>2, SameConf DEF Flow, Shape
<1>3. QED
  BY <1>1, <1>2

\* Nothing, but that it may be closed by the one who reads it.
LEMMA FlowSame ==
    ASSUME NEW s \in Streams, UNCHANGED conf, Flow(s),
           Got(s)' = Got(s), wrote'[s] = wrote[s],
           Reading(s)' => Reading(s) /\ out'[s] = out[s],
           proc' = "new" => proc = "new",
           System /\ rd'[s] = "done" => rd[s] = "done" /\ (proc' = "run" => proc = "run")
    PROVE  Flow(s)'
<1>1. Shape(s, Reading(s), System /\ rd[s] = "done", proc, Got(s), out[s], wrote[s])
  BY FlowShape
<1>2. Shape(s, Reading(s)', System /\ rd'[s] = "done", proc', Got(s)', out'[s], wrote'[s])
  BY <1>1 DEF Shape
<1>3. QED
  BY <1>2, FlowShape

\* The process writes a chunk to it.
LEMMA FlowEmit ==
    ASSUME NEW s \in Streams, UNCHANGED conf, Flow(s), StreamTypes(s), NEW k \in 1..Total,
           Got(s)' = Got(s), wrote'[s] = Append(wrote[s], k), out'[s] = Append(out[s], k),
           Reading(s)' => Reading(s), proc = "run", proc' = "run", rd'[s] = rd[s]
    PROVE  Flow(s)'
<1> DEFINE D == System /\ rd[s] = "done"
<1>1. ASSUME NEW got \in Seq(1..Total), NEW o \in Seq(1..Total), NEW all \in Seq(1..Total),
             NEW r, NEW d, Shape(s, r, d, "run", got, o, all), NEW r1, r1 => r
      PROVE  Shape(s, r1, d, "run", got, Append(o, k), Append(all, k))
  <2>1. /\ Len(Append(o, k)) = Len(o) + 1 /\ Len(Append(all, k)) = Len(all) + 1
        /\ \A i \in 1..Len(o) : Append(o, k)[i] = o[i]
        /\ Append(o, k)[Len(o) + 1] = k
        /\ \A i \in 1..Len(all) : Append(all, k)[i] = all[i]
        /\ Append(all, k)[Len(all) + 1] = k
        /\ Len(o) \in Nat /\ Len(all) \in Nat /\ Len(got) \in Nat
    BY DEF StreamTypes
  <2> DEFINE o1 == Append(o, k)
             all1 == Append(all, k)
  <2> HIDE DEF o1, all1
  <2>2. Len(got) <= Len(all1) /\ \A i \in 1..Len(got) : got[i] = all1[i] /\ ~TooLong(s, all1[i])
    BY <1>1, <2>1 DEF Shape, o1, all1
  <2>3. ASSUME r1
        PROVE  /\ Len(all1) = Len(got) + Len(o1)
               /\ \A i \in 1..Len(o1) : o1[i] = all1[Len(got) + i]
    <3>1. /\ Len(all) = Len(got) + Len(o)
          /\ \A i \in 1..Len(o) : o[i] = all[Len(got) + i]
      BY <1>1, <2>3 DEF Shape
    <3>2. Len(all1) = Len(all) + 1 /\ Len(o1) = Len(o) + 1
      BY <2>1 DEF o1, all1
    <3>3. ASSUME NEW i \in 1..Len(o1) PROVE o1[i] = all1[Len(got) + i]
      <4>1. CASE i \in 1..Len(o)
        <5>1. Len(got) + i \in 1..Len(all)
          BY <2>1, <3>1, <4>1
        <5>2. QED
          BY <2>1, <3>1, <4>1, <5>1 DEF o1, all1
      <4>2. CASE i = Len(o) + 1
        <5>1. Len(got) + i = Len(all) + 1
          BY <2>1, <3>1, <4>2
        <5>2. QED
          BY <2>1, <4>2, <5>1 DEF o1, all1
      <4>3. QED
        BY <2>1, <3>2, <4>1, <4>2
    <3>4. QED
      BY <2>1, <3>1, <3>2, <3>3
  <2>4. ASSUME d
        PROVE  Len(got) < Len(all1) /\ TooLong(s, all1[Len(got) + 1])
    BY <1>1, <2>1, <2>4 DEF Shape, all1
  <2>5. QED
    BY <2>2, <2>3, <2>4 DEF Shape, o1, all1
<1>2. Shape(s, Reading(s), D, "run", Got(s), out[s], wrote[s])
  BY FlowShape
<1>3. Shape(s, Reading(s)', D, "run", Got(s), Append(out[s], k), Append(wrote[s], k))
  <2> HIDE DEF D
  <2>1. QED
    BY <1>1, <1>2 DEF StreamTypes
<1>4. QED
  BY <1>3, FlowShape

\* The pipe is not empty: facts about its first chunk.
LEMMA FirstChunk ==
    ASSUME NEW T, NEW o \in Seq(T), o # <<>>
    PROVE  /\ Len(o) \in Nat /\ Len(o) > 0 /\ Head(o) \in T /\ Head(o) = o[1]
           /\ Tail(o) \in Seq(T) /\ Len(Tail(o)) = Len(o) - 1
           /\ \A i \in 1..Len(o) - 1 : Tail(o)[i] = o[i + 1]
OBVIOUS

\* A chunk is read from it.
LEMMA FlowHad ==
    ASSUME NEW s \in Streams, UNCHANGED conf, Flow(s), StreamTypes(s), out[s] # <<>>,
           Reading(s), ~TooLong(s, Head(out[s])), wrote'[s] = wrote[s],
           Got(s)' = Append(Got(s), Head(out[s])), out'[s] = Tail(out[s]),
           proc' = proc, ~(System /\ rd'[s] = "done")
    PROVE  Flow(s)'
<1> DEFINE D == System /\ rd[s] = "done"
<1>1. ASSUME NEW got \in Seq(1..Total), NEW o \in Seq(1..Total), NEW all \in Seq(1..Total),
             o # <<>>, ~TooLong(s, Head(o)), NEW d, NEW r, Shape(s, TRUE, d, proc, got, o, all)
      PROVE  Shape(s, r, FALSE, proc, Append(got, Head(o)), Tail(o), all)
  <2>1. /\ Len(o) \in Nat /\ Len(o) > 0 /\ Head(o) \in 1..Total /\ Head(o) = o[1]
        /\ Len(Tail(o)) = Len(o) - 1
        /\ \A i \in 1..Len(o) - 1 : Tail(o)[i] = o[i + 1]
    BY <1>1, FirstChunk
  <2> DEFINE k == Head(o)
             got1 == Append(got, k)
             o1 == Tail(o)
  <2>2. /\ Len(got1) = Len(got) + 1 /\ Len(got) \in Nat /\ Len(all) \in Nat
        /\ \A i \in 1..Len(got) : got1[i] = got[i]
        /\ got1[Len(got) + 1] = k
    BY <2>1
  <2> HIDE DEF k, got1, o1
  <2>3. Len(all) = Len(got) + Len(o) /\ all[Len(got) + 1] = k
    BY <1>1, <2>1, <2>2 DEF Shape, k
  <2>4. Len(got1) <= Len(all) /\ \A i \in 1..Len(got1) : got1[i] = all[i] /\ ~TooLong(s, all[i])
    BY <1>1, <2>1, <2>2, <2>3 DEF Shape, k
  <2>5. Len(all) = Len(got1) + Len(o1)
    <3>1. Len(o1) = Len(o) - 1 /\ Len(got1) = Len(got) + 1 /\ Len(all) = Len(got) + Len(o)
      BY <2>1, <2>2, <2>3 DEF o1
    <3>2. Len(o) \in Nat /\ Len(got) \in Nat
      BY <2>1, <2>2
    <3>3. QED
      BY <3>1, <3>2
  <2>6. ASSUME NEW i \in 1..Len(o1) PROVE o1[i] = all[Len(got1) + i]
    <3>1. i + 1 \in 1..Len(o) /\ i \in 1..Len(o) - 1 /\ Len(got1) + i = Len(got) + (i + 1)
      BY <2>1, <2>2 DEF o1
    <3>2. QED
      BY <1>1, <2>1, <3>1 DEF Shape, o1
  <2>7. proc = "new" => Len(all) = 0
    BY <1>1 DEF Shape
  <2>8. QED
    BY <2>4, <2>5, <2>6, <2>7 DEF Shape, got1, o1, k
<1>2. Shape(s, TRUE, D, proc, Got(s), out[s], wrote[s])
  BY FlowShape
<1>3. Shape(s, Reading(s)', FALSE, proc, Append(Got(s), Head(out[s])), Tail(out[s]), wrote[s])
  <2> HIDE DEF D
  <2>1. QED
    BY <1>1, <1>2 DEF StreamTypes
<1>4. QED
  BY <1>3, FlowShape

\* A Scanner gets a line that is too long for it.
LEMMA FlowLong ==
    ASSUME NEW s \in Streams, UNCHANGED conf, Flow(s), StreamTypes(s), out[s] # <<>>,
           Reading(s), TooLong(s, Head(out[s])), wrote'[s] = wrote[s], Got(s)' = Got(s),
           ~Reading(s)', proc' = proc
    PROVE  Flow(s)'
<1> DEFINE D == System /\ rd[s] = "done"
<1>1. ASSUME NEW got \in Seq(1..Total), NEW o \in Seq(1..Total), NEW all \in Seq(1..Total),
             o # <<>>, TooLong(s, Head(o)), NEW d, Shape(s, TRUE, d, proc, got, o, all),
             NEW r1, ~r1, NEW d1, NEW o1
      PROVE  Shape(s, r1, d1, proc, got, o1, all)
  <2>1. Len(o) \in Nat /\ Len(o) > 0 /\ Head(o) = o[1] /\ Len(got) \in Nat
    BY <1>1, FirstChunk
  <2>2. Len(all) = Len(got) + Len(o) /\ all[Len(got) + 1] = Head(o)
    BY <1>1, <2>1 DEF Shape
  <2>3. Len(got) < Len(all) /\ TooLong(s, all[Len(got) + 1])
    BY <1>1, <2>1, <2>2
  <2>4. QED
    BY <1>1, <2>3 DEF Shape
<1>2. Shape(s, TRUE, D, proc, Got(s), out[s], wrote[s])
  BY FlowShape
<1>3. Shape(s, Reading(s)', System /\ rd'[s] = "done", proc, Got(s), out'[s], wrote[s])
  <2> HIDE DEF D
  <2>1. QED
    BY <1>1, <1>2 DEF StreamTypes
<1>4. QED
  BY <1>3, FlowShape

\* The process does not run and nothing is left in it.
LEMMA FlowEnd ==
    ASSUME NEW s \in Streams, UNCHANGED conf, Flow(s), StreamTypes(s), proc # "run",
           Reading(s), Len(Got(s)) = Len(wrote[s]), wrote'[s] = wrote[s], Got(s)' = Got(s),
           ~Reading(s)', proc' = proc
    PROVE  Flow(s)'
<1>1. Shape(s, TRUE, System /\ rd[s] = "done", proc, Got(s), out[s], wrote[s])
  BY FlowShape
<1>2. Shape(s, Reading(s)', System /\ rd'[s] = "done", proc', Got(s)', out'[s], wrote'[s])
  BY <1>1 DEF Shape
<1>3. QED
  BY <1>2, FlowShape

-----------------------------------------------------------------------------
(* The steps.                                                              *)

\* Steps of System, of cmdWriter, of cmdReader, of both, and of any process.
SystemStep ==
    \/ ProcStep \/ Signaled \/ Start \/ RunCanceler \/ IOWait \/ Wait \/ Cancel \/ GatherLog
    \/ \E s \in Streams : Reader(s)
WriterStep == WriterStart \/ Write \/ CopyOut
ReaderStep == ReaderStart \/ Read \/ Drain \/ CopyIn \/ CopyInWrite
FilterStep == ProcFilter \/ ErrC \/ CloseWaits
ExitStep == ProcExits \/ ProcFails

\* Which steps each kind of command takes.
LEMMA Kinds ==
    ASSUME CommandInv, Next
    PROVE  /\ UNCHANGED conf
           /\ \/ System /\ SystemStep
              \/ conf.kind = "cmdWriter" /\ WriterStep
              \/ conf.kind = "cmdReader" /\ ReaderStep
              \/ ~System /\ FilterStep
              \/ ExitStep
              \/ UNCHANGED vars
<1>1. conf \in Confs
  BY DEF CommandInv, TypeOK
<1>2. conf.kind \in {"System", "cmdWriter", "cmdReader"}
  BY <1>1, ConfFacts
<1>3. /\ System => pc \in {"start", "cxl", "io", "wait", "done"} /\ cp = "off"
      /\ ~System => gather = "off"
      /\ conf.kind = "cmdWriter" => pc \in {"start", "run", "errc", "wait", "done"} /\ cp = "off"
      /\ conf.kind = "cmdReader" => pc \in {"start", "run", "drain", "errc", "wait", "done"}
  BY DEF CommandInv, SystemInv, FilterInv, WriterInv, ReaderInv
<1>4. CASE Process \/ ProcFails
  BY <1>4 DEF Process, ProcStep, ProcFilter, ProcExits, Signaled, ProcFails, SystemStep,
              FilterStep, ExitStep
<1>5. CASE Main
  <2>1. CASE Start \/ Wait
    BY <2>1 DEF Start, Wait, SystemStep
  <2>2. CASE RunCanceler \/ IOWait
    <3>1. pc \in {"cxl", "io"} /\ UNCHANGED conf
      BY <2>2 DEF RunCanceler, IOWait
    <3>2. System
      BY <1>2, <1>3, <3>1 DEF System
    <3>3. QED
      BY <2>2, <3>1, <3>2 DEF SystemStep
  <2>3. CASE WriterStart \/ Write
    BY <2>3 DEF WriterStart, Write, WriterStep
  <2>4. CASE ReaderStart \/ Read
    BY <2>4 DEF ReaderStart, Read, ReaderStep
  <2>5. CASE Drain
    BY <1>2, <1>3, <2>5 DEF Drain, ReaderStep, System
  <2>6. CASE ErrC
    BY <1>2, <1>3, <2>6 DEF ErrC, FilterStep
  <2>7. CASE CloseWaits
    BY <2>7 DEF CloseWaits, FilterStep
  <2>8. QED
    BY <1>5, <2>1, <2>2, <2>3, <2>4, <2>5, <2>6, <2>7 DEF Main
<1>6. CASE Copy
  <2>1. CASE CopyOut
    BY <2>1 DEF CopyOut, WriterStep
  <2>2. CASE CopyIn \/ CopyInWrite
    <3>1. cp # "off" /\ UNCHANGED conf
      BY <2>2 DEF CopyIn, CopyInWrite
    <3>2. conf.kind = "cmdReader"
      BY <1>2, <1>3, <3>1 DEF System
    <3>3. QED
      BY <2>2, <3>1, <3>2 DEF ReaderStep
  <2>3. QED
    BY <1>6, <2>1, <2>2 DEF Copy
<1>7. CASE GatherLog
  BY <1>3, <1>7 DEF GatherLog, SystemStep
<1>8. CASE Cancel
  BY <1>8 DEF Cancel, SystemStep
<1>9. CASE \E s \in Streams : Reader(s)
  BY <1>9 DEF Reader, ReadChunk, ReadEnds, SystemStep
<1>10. CASE UNCHANGED vars
  BY <1>10 DEF vars
<1>11. QED
  BY <1>4, <1>5, <1>6, <1>7, <1>8, <1>9, <1>10 DEF Next

\* A chunk that the process writes goes to the pipe.
LEMMA EmitFacts ==
    ASSUME CommandInv, NEW s \in Streams, NEW k, Emit(s, k), proc = "run"
    PROVE  /\ pipes /\ UNCHANGED proc /\ Len(out[s]) < PipeLen
           /\ out' = [out EXCEPT ![s] = Append(@, k)]
           /\ wrote' = [wrote EXCEPT ![s] = Append(@, k)]
BY DEF CommandInv, PhaseInv, Emit

-----------------------------------------------------------------------------
(* The phases.                                                             *)

\* Each step keeps the pipes open while the process runs.
LEMMA PhaseStep ==
    ASSUME CommandInv, Next
    PROVE  PhaseInv'
<1>1. PhaseInv /\ proc \in {"new", "run", "ok", "failed"} /\ conf \in Confs
  BY DEF CommandInv, TypeOK
<1>2. CASE ProcStep
  <2>1. proc = "run" /\ UNCHANGED <<proc, pipes, pc, res>>
    <3>1. CASE conf.prog[step + 1].s \in Piped
      BY <1>1, <1>2, <3>1, EmitFacts, ConfFacts DEF ProcStep, mainVars
    <3>2. CASE conf.prog[step + 1].s \notin Piped
      BY <1>2, <3>2 DEF ProcStep, mainVars
    <3>3. QED
      BY <3>1, <3>2
  <2>2. QED
    BY <1>1, <2>1 DEF PhaseInv
<1>3. CASE ProcFilter
  <2>1. proc = "run" /\ UNCHANGED <<proc, pipes, pc, res>>
    <3>1. Emit("stdout", Head(in)) /\ "stdout" \in Streams /\ proc = "run"
      BY <1>3 DEF ProcFilter, Streams
    <3>2. UNCHANGED <<pipes, mainVars>>
      BY <1>3 DEF ProcFilter
    <3>3. UNCHANGED proc
      BY <3>1, EmitFacts
    <3>4. QED
      BY <3>1, <3>2, <3>3 DEF mainVars
  <2>2. QED
    BY <1>1, <2>1 DEF PhaseInv
<1>4. CASE ProcExits \/ ProcFails \/ Signaled
  BY <1>1, <1>4 DEF PhaseInv, ProcExits, ProcFails, Signaled, pipeVars, mainVars
<1>5. CASE Start
  BY <1>1, <1>5 DEF PhaseInv, Start
<1>6. CASE RunCanceler \/ IOWait \/ Cancel
  BY <1>1, <1>6 DEF PhaseInv, RunCanceler, IOWait, Cancel, procVars, pipeVars, mainVars
<1>7. CASE Wait \/ CloseWaits
  BY <1>1, <1>7 DEF PhaseInv, Wait, CloseWaits, procVars, Exited
<1>8. CASE WriterStart
  BY <1>1, <1>8 DEF PhaseInv, WriterStart
<1>9. CASE Write
  BY <1>1, <1>9 DEF PhaseInv, Write, procVars
<1>10. CASE ReaderStart
  BY <1>1, <1>10 DEF PhaseInv, ReaderStart
<1>11. CASE Read \/ Drain \/ ErrC
  BY <1>1, <1>11 DEF PhaseInv, Read, Drain, ErrC, procVars, pipeVars
<1>12. CASE Copy \/ GatherLog \/ \E s \in Streams : Reader(s)
  <2>1. UNCHANGED <<proc, pipes, pc, res>>
    BY <1>12 DEF Copy, CopyOut, CopyIn, CopyInWrite, GatherLog, Reader, ReadChunk, ReadEnds,
                 procVars, pipeVars, mainVars
  <2>2. QED
    BY <1>1, <2>1 DEF PhaseInv
<1>13. CASE UNCHANGED vars
  BY <1>1, <1>13 DEF PhaseInv, vars, procVars, pipeVars, mainVars
<1>14. QED
  BY <1>2, <1>3, <1>4, <1>5, <1>6, <1>7, <1>8, <1>9, <1>10, <1>11, <1>12, <1>13
  DEF Next, Process, Main

-----------------------------------------------------------------------------
(* The streams.                                                            *)

\* A step that touches no stream, process or reader.
LEMMA FlowQuiet ==
    ASSUME FlowInv, UNCHANGED <<conf, wrote, gathered, data>>,
           \A s \in Streams : Reading(s)' => Reading(s) /\ out'[s] = out[s],
           proc' = "new" => proc = "new",
           \A s \in Streams : System /\ rd'[s] = "done" =>
              rd[s] = "done" /\ (proc' = "run" => proc = "run")
    PROVE  FlowInv'
<1>1. ASSUME NEW s \in Streams PROVE Flow(s)'
  <2>1. Got(s)' = Got(s) /\ Flow(s)
    BY SameConf DEF Got, FlowInv
  <2>2. QED
    BY <2>1, FlowSame
<1>2. QED
  BY <1>1 DEF FlowInv

\* Each step keeps what is written, had and in the pipes in accord.
LEMMA FlowStep ==
    ASSUME CommandInv, Next
    PROVE  FlowInv'
<1>1. TypeOK /\ PhaseInv /\ FlowInv /\ conf \in Confs
  BY DEF CommandInv, TypeOK
<1>2. ASSUME NEW s \in Streams, NEW k \in 1..Total, Emit(s, k), proc = "run",
             UNCHANGED <<conf, gathered, data, pc, rd>>
      PROVE  FlowInv'
  <2>1. /\ UNCHANGED proc
        /\ out' = [out EXCEPT ![s] = Append(@, k)] /\ wrote' = [wrote EXCEPT ![s] = Append(@, k)]
    BY <1>2, EmitFacts
  <2>2. out \in [Streams -> Seq(1..Total)] /\ wrote \in [Streams -> Seq(1..Total)]
    BY <1>1 DEF TypeOK
  <2>3. ASSUME NEW t \in Streams PROVE Flow(t)'
    <3>1. Got(t)' = Got(t) /\ Reading(t)' = Reading(t) /\ Flow(t) /\ rd'[t] = rd[t]
      BY <1>1, <1>2, SameConf DEF Got, Reading, FlowInv
    <3>2. CASE t = s
      <4>1. out'[t] = Append(out[t], k) /\ wrote'[t] = Append(wrote[t], k)
        BY <2>1, <2>2, <3>2
      <4>2. StreamTypes(t)
        BY <1>1, TypesOfStream
      <4>3. QED
        BY <1>2, <2>1, <3>1, <4>1, <4>2, FlowEmit
    <3>3. CASE t # s
      <4>1. out'[t] = out[t] /\ wrote'[t] = wrote[t]
        BY <2>1, <2>2, <3>3
      <4>2. QED
        BY <1>2, <2>1, <3>1, <4>1, FlowSame
    <3>4. QED
      BY <3>2, <3>3
  <2>4. QED
    BY <2>3 DEF FlowInv
<1>3. CASE ProcStep
  <2>1. System /\ step + 1 \in 1..Total /\ proc = "run" /\ UNCHANGED <<conf, gathered, data, pc, rd>>
    BY <1>1, <1>3, ConfFacts DEF ProcStep, TypeOK, mainVars, ioVars
  <2>2. conf.prog[step + 1].s \in Streams
    BY <1>1, <2>1, ConfFacts
  <2>3. CASE Emit(conf.prog[step + 1].s, step + 1)
    BY <1>2, <2>1, <2>2, <2>3
  <2>4. CASE UNCHANGED <<proc, out, wrote>>
    BY <1>1, <2>1, <2>4, FlowQuiet, SameConf DEF Reading
  <2>5. QED
    BY <1>3, <2>3, <2>4 DEF ProcStep
<1>4. CASE ProcFilter
  <2>1. proc = "run" /\ in # <<>> /\ Emit("stdout", Head(in)) /\ UNCHANGED <<conf, gathered, data, pc, rd>>
    BY <1>4 DEF ProcFilter, mainVars, ioVars
  <2>2. Head(in) \in 1..Total /\ "stdout" \in Streams
    <3>1. in \in Seq(1..Total)
      BY <1>1 DEF TypeOK
    <3>2. Head(in) \in 1..Total
      BY <2>1, <3>1, FirstChunk
    <3>3. QED
      BY <3>2 DEF Streams
  <2>3. QED
    BY <1>2, <2>1, <2>2
<1>5. CASE ProcExits \/ ProcFails \/ Signaled
  <2>1. proc = "run" /\ proc' # "new" /\ UNCHANGED <<conf, wrote, out, gathered, data, pc, rd>>
    BY <1>5 DEF ProcExits, ProcFails, Signaled, pipeVars, mainVars, ioVars
  <2>2. QED
    BY <1>1, <2>1, FlowQuiet DEF Reading
<1>6. CASE Start
  <2>1. /\ UNCHANGED <<conf, wrote, out, gathered, data>>
        /\ \A s \in Streams : rd'[s] # "done"
        /\ System /\ pc = "start" /\ proc = "new"
    BY <1>1, <1>6 DEF Start, PhaseInv
  <2>2. \A s \in Streams : Reading(s)
    <3>1. \A s \in Streams : rd[s] = "off" 
      BY <2>1 DEF CommandInv, SystemInv
    <3>2. QED
      BY <2>1, <3>1 DEF Reading, System
  <2>3. QED
    BY <1>1, <2>1, <2>2, FlowQuiet
<1>7. CASE RunCanceler \/ IOWait \/ Cancel \/ Write \/ ErrC
  <2>1. /\ UNCHANGED <<conf, wrote, out, gathered, data, rd, proc>>
        /\ pc' \in {"start", "run"} => pc \in {"start", "run"}
    BY <1>7 DEF RunCanceler, IOWait, Cancel, Write, ErrC, procVars, pipeVars, mainVars, ioVars
  <2>2. QED
    BY <1>1, <2>1, FlowQuiet DEF Reading
<1>8. CASE Wait \/ CloseWaits
  <2>1. UNCHANGED <<conf, wrote, out, gathered, data, rd, proc>> /\ pc' = "done"
    BY <1>8 DEF Wait, CloseWaits, procVars, ioVars
  <2>2. QED
    BY <1>1, <2>1, FlowQuiet DEF Reading
<1>9. CASE WriterStart
  <2>1. /\ UNCHANGED <<conf, wrote, out, gathered, data>>
        /\ conf.kind = "cmdWriter" /\ proc = "new" /\ pc = "start"
    BY <1>1, <1>9 DEF WriterStart, PhaseInv
  <2>2. rd["stdout"] # "done" /\ rd["stderr"] # "done"
    BY <2>1 DEF CommandInv, FilterInv, WriterInv, System
  <2>3. ~System
    BY <2>1 DEF System
  <2>4. QED
    BY <1>1, <2>1, <2>2, <2>3, FlowQuiet DEF Reading, Streams
<1>10. CASE ReaderStart
  <2>1. /\ UNCHANGED <<conf, wrote, out, gathered, data>>
        /\ conf.kind = "cmdReader" /\ proc = "new" /\ pc = "start" /\ ~System
    BY <1>1, <1>10 DEF ReaderStart, PhaseInv, System
  <2>2. QED
    BY <1>1, <2>1, FlowQuiet DEF Reading
<1>11. CASE CopyIn \/ CopyInWrite
  <2>1. UNCHANGED <<conf, wrote, out, gathered, data, rd, proc, pc>>
    BY <1>11 DEF CopyIn, CopyInWrite, procVars, mainVars
  <2>2. QED
    BY <1>1, <2>1, FlowQuiet DEF Reading
<1>12. CASE GatherLog
  <2>1. UNCHANGED <<conf, wrote, out, gathered, rd, proc, pc>>
    BY <1>12 DEF GatherLog, procVars, mainVars, pipeVars
  <2>2. data' = [s \in Streams |-> IF s \in Gathered THEN gathered[s] ELSE data[s]]
    BY <1>12 DEF GatherLog
  <2>3. ASSUME NEW s \in Streams PROVE Flow(s)'
    <3>1. Got(s)' = Got(s) /\ Reading(s)' = Reading(s) /\ Flow(s)
      BY <1>1, <2>1, <2>2, SameConf DEF Got, Reading, FlowInv
    <3>2. QED
      BY <2>1, <3>1, FlowSame
  <2>4. QED
    BY <2>3 DEF FlowInv
<1>13. CASE Drain
  <2>1. pc = "drain" /\ pc' \in {"drain", "errc"} /\ UNCHANGED <<conf, wrote, gathered, data, rd, proc>>
    BY <1>13 DEF Drain, procVars, ioVars
  <2>2. conf.kind = "cmdReader"
    BY <1>1, <2>1, ConfFacts DEF CommandInv, SystemInv, WriterInv, System
  <2>3. QED
    BY <1>1, <2>1, <2>2, FlowQuiet DEF Reading
<1>14. CASE Read
  <2>1. /\ conf.kind = "cmdReader" /\ pc = "run" /\ UNCHANGED <<conf, wrote, gathered, rd, proc>>
        /\ ~System
    BY <1>14 DEF Read, procVars, System
  <2>2. CASE UNCHANGED <<out, data>>
    BY <1>1, <2>1, <2>2, FlowQuiet DEF Reading
  <2>3. CASE /\ out["stdout"] # <<>>
             /\ out' = [out EXCEPT !["stdout"] = Tail(@)]
             /\ data' = [data EXCEPT !["stdout"] = Append(@, Head(out["stdout"]))]
    <3>1. ASSUME NEW s \in Streams PROVE Flow(s)'
      <4>1. Gathered = {} /\ Gathered' = {} /\ Scanned = {} /\ Flow(s) /\ StreamTypes(s)
        BY <1>1, <2>1, ConfFacts, SameConf, TypesOfStream DEF FlowInv
      <4>2. data \in [Streams -> Seq(1..Total)] /\ out \in [Streams -> Seq(1..Total)]
        BY <1>1 DEF TypeOK
      <4>3. Got(s) = data[s] /\ Got(s)' = data'[s] /\ Reading(s) /\ ~TooLong(s, Head(out[s]))
        BY <2>1, <4>1 DEF Got, Reading, TooLong
      <4>4. CASE s = "stdout"
        <5>1. out'[s] = Tail(out[s]) /\ data'[s] = Append(data[s], Head(out[s])) /\ out[s] # <<>>
          BY <2>3, <4>2, <4>4
        <5>2. QED
          BY <2>1, <4>1, <4>3, <5>1, FlowHad
      <4>5. CASE s # "stdout"
        <5>1. out'[s] = out[s] /\ data'[s] = data[s]
          BY <2>3, <4>2, <4>5
        <5>2. QED
          BY <2>1, <4>1, <4>3, <5>1, FlowSame
      <4>6. QED
        BY <4>4, <4>5
    <3>2. QED
      BY <3>1 DEF FlowInv
  <2>4. QED
    BY <1>14, <2>2, <2>3 DEF Read
<1>15. CASE CopyOut
  <2>1. /\ conf.kind = "cmdWriter" /\ rd["stdout"] = "read" /\ ~System
        /\ UNCHANGED <<conf, wrote, gathered, proc, pc>>
    BY <1>15 DEF CopyOut, procVars, mainVars, System
  <2>2. rd \in [Streams -> {"off", "read", "done"}]
    BY <1>1 DEF TypeOK
  <2>3. CASE UNCHANGED data /\ rd' = [rd EXCEPT !["stdout"] = "done"]
             /\ (UNCHANGED out \/ out' = [out EXCEPT !["stdout"] = Tail(@)])
    <3>1. ASSUME NEW s \in Streams PROVE Reading(s)' => Reading(s) /\ out'[s] = out[s]
      <4>1. CASE s = "stdout"
        BY <2>1, <2>2, <2>3, <4>1 DEF Reading
      <4>2. CASE s # "stdout"
        <5>1. rd'[s] = rd[s] /\ out'[s] = out[s]
          BY <1>1, <2>2, <2>3, <4>2 DEF TypeOK
        <5>2. QED
          BY <2>1, <5>1 DEF Reading
      <4>3. QED
        BY <4>1, <4>2
    <3>2. QED
      BY <1>1, <2>1, <2>3, <3>1, FlowQuiet
  <2>4. CASE /\ out["stdout"] # <<>> /\ UNCHANGED rd
             /\ out' = [out EXCEPT !["stdout"] = Tail(@)]
             /\ data' = [data EXCEPT !["stdout"] = Append(@, Head(out["stdout"]))]
    <3>1. ASSUME NEW s \in Streams PROVE Flow(s)'
      <4>1. Gathered = {} /\ Gathered' = {} /\ Scanned = {} /\ Flow(s) /\ StreamTypes(s)
        BY <1>1, <2>1, ConfFacts, SameConf, TypesOfStream DEF FlowInv
      <4>2. data \in [Streams -> Seq(1..Total)] /\ out \in [Streams -> Seq(1..Total)]
        BY <1>1 DEF TypeOK
      <4>3. Got(s) = data[s] /\ Got(s)' = data'[s] /\ ~TooLong(s, Head(out[s]))
            /\ Reading(s)' = Reading(s)
        BY <2>1, <2>4, <4>1 DEF Got, Reading, TooLong
      <4>4. CASE s = "stdout"
        <5>1. out'[s] = Tail(out[s]) /\ data'[s] = Append(data[s], Head(out[s])) /\ out[s] # <<>>
          BY <2>4, <4>2, <4>4
        <5>2. Reading(s)
          BY <2>1, <4>4 DEF Reading
        <5>3. QED
          BY <2>1, <4>1, <4>3, <5>1, <5>2, FlowHad
      <4>5. CASE s # "stdout"
        <5>1. out'[s] = out[s] /\ data'[s] = data[s]
          BY <2>4, <4>2, <4>5
        <5>2. QED
          BY <2>1, <4>1, <4>3, <5>1, FlowSame
      <4>6. QED
        BY <4>4, <4>5
    <3>2. QED
      BY <3>1 DEF FlowInv
  <2>5. QED
    BY <1>15, <2>3, <2>4 DEF CopyOut
<1>16. ASSUME NEW s \in Streams, ReadChunk(s) PROVE FlowInv'
  <2>1. /\ System /\ rd[s] = "read" /\ out[s] # <<>> /\ out' = [out EXCEPT ![s] = Tail(@)]
        /\ UNCHANGED <<conf, wrote, proc, pc>>
    BY <1>16 DEF ReadChunk, procVars, mainVars
  <2>2. /\ rd \in [Streams -> {"off", "read", "done"}] /\ out \in [Streams -> Seq(1..Total)]
        /\ data \in [Streams -> Seq(1..Total)] /\ gathered \in [Streams -> Seq(1..Total)]
    BY <1>1 DEF TypeOK
  <2>3. IF TooLong(s, Head(out[s]))
        THEN rd' = [rd EXCEPT ![s] = "done"] /\ UNCHANGED <<gathered, data>>
        ELSE /\ IF s \in Gathered
                THEN gathered' = [gathered EXCEPT ![s] = Append(@, Head(out[s]))] /\ UNCHANGED data
                ELSE data' = [data EXCEPT ![s] = Append(@, Head(out[s]))] /\ UNCHANGED gathered
             /\ UNCHANGED rd
    BY <1>16 DEF ReadChunk, TooLong
  <2>4. ASSUME NEW t \in Streams PROVE Flow(t)'
    <3>1. Flow(t) /\ StreamTypes(t) /\ Gathered' = Gathered /\ conf.kind # "cmdReader"
      BY <1>1, <2>1, SameConf, TypesOfStream DEF FlowInv, System
    <3>2. CASE t # s
      <4>1. Got(t)' = Got(t) /\ rd'[t] = rd[t] /\ out'[t] = out[t]
        BY <2>1, <2>2, <2>3, <3>1, <3>2 DEF Got
      <4>2. Reading(t)' = Reading(t)
        BY <2>1, <4>1 DEF Reading
      <4>3. QED
        BY <2>1, <3>1, <4>1, <4>2, FlowSame
    <3>3. CASE t = s /\ TooLong(s, Head(out[s]))
      <4>1. Got(t)' = Got(t) /\ rd'[t] = "done"
        BY <2>1, <2>2, <2>3, <3>1, <3>3 DEF Got
      <4>2. Reading(t) /\ ~Reading(t)'
        BY <2>1, <3>1, <3>3, <4>1 DEF Reading
      <4>3. QED
        BY <2>1, <3>1, <3>3, <4>1, <4>2, FlowLong
    <3>4. CASE t = s /\ ~TooLong(s, Head(out[s]))
      <4>1. Got(t)' = Append(Got(t), Head(out[t])) /\ rd'[t] = "read" /\ out'[t] = Tail(out[t])
        BY <2>1, <2>2, <2>3, <3>1, <3>4 DEF Got
      <4>2. Reading(t)
        BY <2>1, <3>1, <3>4 DEF Reading
      <4>3. QED
        BY <2>1, <3>1, <3>4, <4>1, <4>2, FlowHad
    <3>5. QED
      BY <3>2, <3>3, <3>4
  <2>5. QED
    BY <2>4 DEF FlowInv
<1>17. ASSUME NEW s \in Streams, ReadEnds(s) PROVE FlowInv'
  <2>1. /\ System /\ rd[s] = "read" /\ (pipes => Exited /\ out[s] = <<>>)
        /\ rd' = [rd EXCEPT ![s] = "done"]
        /\ UNCHANGED <<conf, wrote, out, proc, pc, gathered, data>>
    BY <1>17 DEF ReadEnds, procVars, mainVars, pipeVars
  <2>2. rd \in [Streams -> {"off", "read", "done"}] /\ proc \in {"new", "run", "ok", "failed"}
    BY <1>1 DEF TypeOK
  <2>3. Flow(s) /\ StreamTypes(s) /\ conf.kind # "cmdReader" /\ Reading(s)
    BY <1>1, <2>1, TypesOfStream DEF FlowInv, Reading, System
  <2>4. proc # "run" /\ Len(Got(s)) = Len(wrote[s])
    <3>1. Len(wrote[s]) = Len(Got(s)) + Len(out[s]) /\ Len(wrote[s]) \in Nat /\ Len(Got(s)) \in Nat
          /\ Len(out[s]) \in Nat
      BY <2>3 DEF Flow, StreamTypes
    <3>2. CASE pipes
      <4>1. Len(out[s]) = 0 /\ proc # "run"
        BY <2>1, <3>2 DEF Exited
      <4>2. QED
        BY <3>1, <4>1
    <3>3. CASE ~pipes
      <4>1. pc = "done" /\ proc # "run"
        BY <1>1, <3>3 DEF PhaseInv
      <4>2. proc = "new"
        <5>1. SUFFICES ASSUME proc # "new" PROVE FALSE
          OBVIOUS
        <5>2. gather # "range" /\ \A t \in Piped \ Gathered : rd[t] = "done"
          BY <2>1, <4>1, <5>1 DEF CommandInv, SystemInv
        <5>3. s \in Piped /\ (gather = "off" <=> Gathered = {})
              /\ (gather = "done" => \A t \in Gathered : rd[t] = "done")
          BY <2>1, <4>1 DEF CommandInv, SystemInv
        <5>4. gather \in {"off", "range", "done"}
          BY <1>1 DEF TypeOK
        <5>5. QED
          BY <2>1, <5>2, <5>3, <5>4
      <4>3. Len(wrote[s]) = 0
        BY <2>3, <4>2 DEF Flow
      <4>4. QED
        BY <3>1, <4>1, <4>3
    <3>4. QED
      BY <3>2, <3>3
  <2>5. ASSUME NEW t \in Streams PROVE Flow(t)'
    <3>1. Got(t)' = Got(t) /\ Flow(t) /\ conf'.kind # "cmdReader"
      BY <1>1, <2>1, <2>3, SameConf DEF Got, FlowInv
    <3>2. CASE t = s
      <4>1. ~Reading(t)'
        BY <2>1, <2>2, <3>1, <3>2 DEF Reading
      <4>2. QED
        BY <2>1, <2>3, <2>4, <3>1, <3>2, <4>1, FlowEnd
    <3>3. CASE t # s
      <4>1. rd'[t] = rd[t]
        BY <2>1, <2>2, <3>3
      <4>2. Reading(t)' = Reading(t)
        BY <2>1, <4>1 DEF Reading
      <4>3. QED
        BY <2>1, <3>1, <4>1, <4>2, FlowSame
    <3>4. QED
      BY <3>2, <3>3
  <2>6. QED
    BY <2>5 DEF FlowInv
<1>18. CASE UNCHANGED vars
  <2>1. UNCHANGED <<conf, wrote, out, proc, pc, rd, gathered, data>>
    BY <1>18 DEF vars, procVars, pipeVars, mainVars, ioVars
  <2>2. QED
    BY <1>1, <2>1, FlowQuiet DEF Reading
<1>19. QED
  BY <1>3, <1>4, <1>5, <1>6, <1>7, <1>8, <1>9, <1>10, <1>11, <1>12, <1>13, <1>14, <1>15, <1>16,
     <1>17, <1>18
  DEF Next, Process, Main, Copy, Reader

-----------------------------------------------------------------------------
(* Types.                                                                  *)

\* There are two streams.
LEMMA StreamCount ==
    ASSUME NEW T \in SUBSET Streams
    PROVE  IsFiniteSet(T) /\ Cardinality(T) \in 0..2
<1>1. IsFiniteSet({"stderr"}) /\ Cardinality({"stderr"}) = 1
  BY FS_Singleton
<1>2. Streams = {"stderr"} \cup {"stdout"} /\ "stdout" \notin {"stderr"}
  BY DEF Streams
<1>3. IsFiniteSet(Streams) /\ Cardinality(Streams) = 2
  BY <1>1, <1>2, FS_AddElement
<1>4. IsFiniteSet(T) /\ Cardinality(T) <= 2 /\ Cardinality(T) \in Nat
  BY <1>3, FS_Subset, FS_CardinalityType
<1>5. QED
  BY <1>4

\* A gather goroutine ends: gatherDone.
LEMMA GatherDone ==
    ASSUME Gathered \subseteq Streams, rd \in [Streams -> {"off", "read", "done"}],
           NEW s \in Streams, rd[s] = "read", rd' = [rd EXCEPT ![s] = "done"],
           gatherN = Cardinality({t \in Gathered : rd[t] = "read"}),
           gatherN' = IF s \in Gathered THEN gatherN - 1 ELSE gatherN
    PROVE  gatherN' = Cardinality({t \in Gathered : rd'[t] = "read"}) /\ gatherN' \in 0..2
<1> DEFINE T == {t \in Gathered : rd[t] = "read"}
           U == {t \in Gathered : rd'[t] = "read"}
<1>1. IsFiniteSet(T) /\ Cardinality(T) \in 0..2 /\ Cardinality(U) \in 0..2
  BY StreamCount
<1>2. CASE s \in Gathered
  <2>1. U = T \ {s} /\ s \in T
    BY <1>2
  <2>2. Cardinality(U) = Cardinality(T) - 1
    BY <1>1, <2>1, FS_RemoveElement
  <2>3. QED
    BY <1>1, <1>2, <2>2
<1>3. CASE s \notin Gathered
  <2>1. U = T
    BY <1>3
  <2>2. QED
    BY <1>1, <1>3, <2>1
<1>4. QED
  BY <1>2, <1>3

\* What is in the pipe to a filter is part of the result.
LEMMA StepRoom ==
    ASSUME CommandInv, ~System
    PROVE  step \in Nat /\ Len(in) \in Nat /\ step + Len(in) <= Total
<1>1. conf.kind \in {"cmdWriter", "cmdReader"} /\ Total \in Nat
  BY ConfFacts DEF CommandInv, TypeOK, System
<1>2. step \in 0..Total /\ n \in 0..Total /\ copied \in 0..Total /\ in \in Seq(1..Total)
  BY DEF CommandInv, TypeOK
<1>3. step \in Nat /\ Len(in) \in Nat /\ n <= Total /\ copied <= Total /\ n \in Nat /\ copied \in Nat
  BY <1>1, <1>2
<1>4. CASE conf.kind = "cmdWriter"
  <2>1. n = step + Len(in)
    BY <1>4 DEF CommandInv, WriterInv
  <2>2. QED
    BY <1>3, <2>1
<1>5. CASE conf.kind = "cmdReader"
  <2>1. step + Len(in) <= copied
    BY <1>5 DEF CommandInv, ReaderInv
  <2>2. QED
    BY <1>1, <1>3, <2>1
<1>6. QED
  BY <1>1, <1>4, <1>5

\* A filter has written as many chunks as it has taken, and what the caller of
\* cmdReader has not read of them is in the pipe.
LEMMA FilterFlow ==
    ASSUME CommandInv, ~System
    PROVE  /\ Len(wrote["stdout"]) = step /\ Got("stdout") = data["stdout"]
           /\ StreamTypes("stdout") /\ Flow("stdout")
           /\ Reading("stdout") => step = Len(data["stdout"]) + Len(out["stdout"])
<1>1. "stdout" \in Streams /\ TypeOK /\ FlowInv
  BY DEF CommandInv, Streams
<1>2. Gathered = {}
  BY <1>1, ConfFacts DEF TypeOK
<1>3. Len(wrote["stdout"]) = step
  BY DEF CommandInv, FilterInv
<1>4. Got("stdout") = data["stdout"] /\ Flow("stdout") /\ StreamTypes("stdout")
  BY <1>1, <1>2, TypesOfStream DEF Got, FlowInv
<1>5. Reading("stdout") => step = Len(data["stdout"]) + Len(out["stdout"])
  BY <1>3, <1>4 DEF Flow
<1>6. QED
  BY <1>3, <1>4, <1>5

\* Each step keeps the variables in their types, and the pipes within their length.
LEMMA TypeStep ==
    ASSUME CommandInv, Next
    PROVE  TypeOK'
<1> DEFINE Q == Seq(1..Total)
<1>1. /\ conf \in Confs /\ ctx \in BOOLEAN
      /\ proc \in {"new", "run", "ok", "failed"} /\ step \in 0..Total
      /\ wrote \in [Streams -> Q] /\ out \in [Streams -> Q]
      /\ gathered \in [Streams -> Q] /\ data \in [Streams -> Q]
      /\ in \in Q /\ inOpen \in BOOLEAN /\ pipes \in BOOLEAN
      /\ Len(in) <= PipeLen /\ \A s \in Streams : Len(out[s]) <= PipeLen
      /\ pc \in {"start", "cxl", "io", "run", "drain", "errc", "wait", "done"}
      /\ res \in {"none", "ok", "error"} /\ n \in 0..Total
      /\ rd \in [Streams -> {"off", "read", "done"}]
      /\ gather \in {"off", "range", "done"} /\ gatherN \in 0..2
      /\ cp \in {"off", "read", "write", "done"} /\ copied \in 0..Total
      /\ truncated \in BOOLEAN /\ errc \in BOOLEAN
  BY DEF CommandInv, TypeOK
<1>2. UNCHANGED conf /\ Total' = Total /\ Total \in Nat /\ PipeLen \in Nat \ {0}
  BY <1>1, Kinds, SameConf, ConfFacts, CommandAssumption
<1>3. "stdout" \in Streams
  BY DEF Streams
<1>4. ASSUME NEW q \in Q, NEW k \in 1..Total
      PROVE  Append(q, k) \in Q /\ Len(Append(q, k)) = Len(q) + 1 /\ Len(q) \in Nat
  OBVIOUS
<1>5. ASSUME NEW q \in Q, q # <<>>, Len(q) <= PipeLen
      PROVE  Tail(q) \in Q /\ Len(Tail(q)) <= PipeLen /\ Head(q) \in 1..Total
  <2>1. Tail(q) \in Q /\ Len(Tail(q)) = Len(q) - 1 /\ Len(q) \in Nat /\ Head(q) \in 1..Total
    BY <1>5, FirstChunk
  <2>2. QED
    BY <1>2, <1>5, <2>1
<1> HIDE DEF Q
<1>6. ASSUME NEW s \in Streams, NEW k \in 1..Total, Emit(s, k), proc = "run"
      PROVE  /\ proc' = "run"
             /\ out' \in [Streams -> Q] /\ wrote' \in [Streams -> Q]
             /\ \A t \in Streams : Len(out'[t]) <= PipeLen
  <2>1. /\ UNCHANGED proc /\ Len(out[s]) < PipeLen
        /\ out' = [out EXCEPT ![s] = Append(@, k)] /\ wrote' = [wrote EXCEPT ![s] = Append(@, k)]
    BY <1>6, EmitFacts
  <2>2. /\ Append(out[s], k) \in Q /\ Append(wrote[s], k) \in Q
        /\ Len(Append(out[s], k)) = Len(out[s]) + 1 /\ Len(out[s]) \in Nat
    BY <1>1, <1>4
  <2>3. Len(Append(out[s], k)) <= PipeLen
    BY <1>2, <2>1, <2>2
  <2>4. QED
    BY <1>1, <1>6, <2>1, <2>2, <2>3
<1>7. ASSUME NEW s \in Streams, out[s] # <<>>, out' = [out EXCEPT ![s] = Tail(@)]
      PROVE  /\ out' \in [Streams -> Q] /\ \A t \in Streams : Len(out'[t]) <= PipeLen
             /\ Head(out[s]) \in 1..Total
  <2>1. Tail(out[s]) \in Q /\ Len(Tail(out[s])) <= PipeLen /\ Head(out[s]) \in 1..Total
    BY <1>1, <1>5, <1>7
  <2>2. QED
    BY <1>1, <1>7, <2>1
<1>8. CASE ProcStep
  <2>1. step' = step + 1 /\ step < Total /\ proc = "run" /\ System
        /\ UNCHANGED <<conf, ctx, in, inOpen, pipes, mainVars, ioVars>>
    BY <1>8 DEF ProcStep
  <2>2. step + 1 \in 1..Total /\ step' \in 0..Total
    BY <1>1, <1>2, <2>1
  <2>3. CASE Emit(conf.prog[step + 1].s, step + 1)
    <3>1. conf.prog[step + 1].s \in Streams
      BY <1>1, <2>1, <2>2, ConfFacts
    <3>2. QED
      BY <1>1, <1>2, <1>6, <2>1, <2>2, <2>3, <3>1 DEF TypeOK, mainVars, ioVars, Q
  <2>4. CASE UNCHANGED <<proc, out, wrote>>
    BY <1>1, <1>2, <2>1, <2>2, <2>4 DEF TypeOK, mainVars, ioVars, Q
  <2>5. QED
    BY <1>8, <2>3, <2>4 DEF ProcStep
<1>9. CASE ProcFilter
  <2>1. /\ step' = step + 1 /\ in' = Tail(in) /\ in # <<>> /\ proc = "run" /\ ~System
        /\ Emit("stdout", Head(in))
        /\ UNCHANGED <<conf, ctx, inOpen, pipes, mainVars, ioVars>>
    BY <1>9 DEF ProcFilter
  <2>2. Head(in) \in 1..Total /\ in' \in Q /\ Len(in') <= PipeLen
    BY <1>1, <1>5, <2>1
  <2>3. step' \in 0..Total
    <3>1. Len(in) > 0
      BY <1>1, <2>1, FirstChunk DEF Q
    <3>2. QED
      BY <1>2, <2>1, <3>1, StepRoom
  <2>4. QED
    BY <1>1, <1>2, <1>3, <1>6, <2>1, <2>2, <2>3 DEF TypeOK, mainVars, ioVars, Q
<1>10. CASE ProcExits \/ ProcFails \/ Signaled
  BY <1>1, <1>2, <1>10 DEF TypeOK, ProcExits, ProcFails, Signaled, pipeVars, mainVars, ioVars, Q
<1>11. CASE Start
  <2>1. Cardinality(Gathered) \in 0..2
    BY <1>1, ConfFacts, StreamCount
  <2>2. QED
    BY <1>1, <1>2, <1>11, <2>1 DEF TypeOK, Start, Q
<1>12. CASE RunCanceler \/ IOWait \/ Cancel
  <2>1. /\ UNCHANGED <<conf, procVars, pipeVars, res, n, ioVars>>
        /\ (ctx' = TRUE \/ UNCHANGED ctx) /\ (pc' \in {"io", "wait"} \/ UNCHANGED pc)
    <3>1. CASE RunCanceler
      BY <3>1 DEF RunCanceler
    <3>2. CASE IOWait
      BY <3>2 DEF IOWait
    <3>3. CASE Cancel
      BY <3>3 DEF Cancel, mainVars
    <3>4. QED
      BY <1>12, <3>1, <3>2, <3>3
  <2>2. UNCHANGED <<proc, step, wrote, in, inOpen, out, pipes, res, n, rd, gather, gatherN, gathered,
                    data, cp, copied, truncated, errc>>
    BY <2>1 DEF procVars, pipeVars, ioVars
  <2>3. ctx' \in BOOLEAN
        /\ pc' \in {"start", "cxl", "io", "run", "drain", "errc", "wait", "done"}
    BY <1>1, <2>1
  <2>4. QED
    BY <1>1, <1>2, <2>2, <2>3 DEF TypeOK, Q
<1>13. CASE Wait \/ CloseWaits
  <2>1. /\ UNCHANGED <<conf, ctx, procVars, in, inOpen, out, n, ioVars>>
        /\ pipes' = FALSE /\ pc' = "done" /\ res' \in {"ok", "error"}
    BY <1>13 DEF Wait, CloseWaits
  <2>2. QED
    BY <1>1, <1>2, <2>1, ZenonT(40) DEF TypeOK, procVars, ioVars, Q
<1>14. CASE WriterStart
  <2>1. /\ UNCHANGED <<conf, ctx, step, in, inOpen, out, wrote, n, gather, gatherN, gathered,
                       data, cp, copied, truncated, errc>>
        /\ proc' \in {"new", "run", "ok", "failed"} /\ pipes' \in BOOLEAN
        /\ pc' \in {"run", "done"} /\ res' \in {"none", "ok", "error"}
        /\ rd' \in [Streams -> {"off", "read", "done"}]
    BY <1>1, <1>14 DEF WriterStart
  <2>2. QED
    BY <1>1, <1>2, <2>1 DEF TypeOK, Q
<1>15. CASE Write
  <2>1. UNCHANGED <<conf, ctx, procVars, out, pipes, ioVars>>
    BY <1>15 DEF Write
  <2>2. /\ in' \in Q /\ Len(in') <= PipeLen /\ n' \in 0..Total /\ inOpen' \in BOOLEAN
        /\ pc' \in {"run", "errc"} /\ res' \in {"none", "ok", "error"}
    <3>1. CASE UNCHANGED <<in, n>>
      BY <1>1, <1>2, <1>15, <3>1 DEF Write
    <3>2. CASE n < Total /\ Len(in) < PipeLen /\ in' = Append(in, n + 1) /\ n' = n + 1
               /\ UNCHANGED <<inOpen, pc, res>>
      <4>1. n + 1 \in 1..Total
        BY <1>1, <1>2, <3>2
      <4>2. Append(in, n + 1) \in Q /\ Len(Append(in, n + 1)) = Len(in) + 1 /\ Len(in) \in Nat
        BY <1>1, <1>4, <4>1
      <4>3. QED
        BY <1>1, <1>2, <1>15, <3>2, <4>1, <4>2 DEF Write
    <3>3. QED
      BY <1>15, <3>1, <3>2 DEF Write
  <2>3. QED
    BY <1>1, <1>2, <2>1, <2>2 DEF TypeOK, procVars, ioVars, Q
<1>16. CASE CopyOut
  <2>1. UNCHANGED <<conf, ctx, procVars, in, inOpen, pipes, mainVars, gather, gatherN, gathered,
                    cp, copied, truncated>>
    BY <1>16 DEF CopyOut
  <2>2. /\ out' \in [Streams -> Q] /\ \A t \in Streams : Len(out'[t]) <= PipeLen
        /\ data' \in [Streams -> Q]
        /\ rd' \in [Streams -> {"off", "read", "done"}] /\ errc' \in BOOLEAN
    <3>1. CASE UNCHANGED <<out, data>>
      BY <1>1, <1>3, <1>16, <3>1 DEF CopyOut
    <3>2. CASE out["stdout"] # <<>> /\ out' = [out EXCEPT !["stdout"] = Tail(@)]
      <4>1. /\ out' \in [Streams -> Q] /\ \A t \in Streams : Len(out'[t]) <= PipeLen
            /\ Head(out["stdout"]) \in 1..Total
        BY <1>3, <1>7, <3>2
      <4>2. Append(data["stdout"], Head(out["stdout"])) \in Q
        BY <1>1, <1>3, <1>4, <4>1
      <4>3. QED
        BY <1>1, <1>3, <1>16, <4>1, <4>2 DEF CopyOut
    <3>3. QED
      BY <1>16, <3>1, <3>2 DEF CopyOut
  <2>3. QED
    BY <1>1, <1>2, <2>1, <2>2 DEF TypeOK, procVars, mainVars, Q
<1>17. CASE ReaderStart
  BY <1>1, <1>2, <1>17 DEF TypeOK, ReaderStart, Q
<1>18. CASE Read
  <2>1. /\ UNCHANGED <<conf, ctx, procVars, in, inOpen, pipes, res, rd, gather, gatherN, gathered,
                       cp, copied, errc>>
        /\ conf.kind = "cmdReader" /\ pc = "run" /\ ~System
    BY <1>18 DEF Read, System
  <2>2. /\ out' \in [Streams -> Q] /\ \A t \in Streams : Len(out'[t]) <= PipeLen
        /\ data' \in [Streams -> Q] /\ n' \in 0..Total
        /\ pc' \in {"run", "drain"} /\ truncated' \in BOOLEAN
    <3>1. CASE UNCHANGED <<out, data, n>> /\ truncated' = TRUE /\ pc' = "drain"
      BY <1>1, <3>1
    <3>2. CASE /\ out["stdout"] # <<>> /\ out' = [out EXCEPT !["stdout"] = Tail(@)]
               /\ data' = [data EXCEPT !["stdout"] = Append(@, Head(out["stdout"]))]
               /\ n' = n + 1 /\ UNCHANGED <<pc, truncated>>
      <4>1. /\ out' \in [Streams -> Q] /\ \A t \in Streams : Len(out'[t]) <= PipeLen
            /\ Head(out["stdout"]) \in 1..Total
        BY <1>3, <1>7, <3>2
      <4>2. Append(data["stdout"], Head(out["stdout"])) \in Q
        BY <1>1, <1>3, <1>4, <4>1
      <4>3. n + 1 \in 0..Total
        <5>1. step = Len(data["stdout"]) + Len(out["stdout"])
          BY <2>1, FilterFlow DEF Reading
        <5>2. n = Len(data["stdout"])
          BY <2>1 DEF CommandInv, ReaderInv
        <5>3. Len(out["stdout"]) \in Nat /\ Len(out["stdout"]) > 0
          BY <1>1, <1>3, <3>2, FirstChunk DEF Q
        <5>4. QED
          BY <1>1, <1>2, <5>1, <5>2, <5>3
      <4>4. QED
        BY <1>1, <1>3, <2>1, <3>2, <4>1, <4>2, <4>3
    <3>3. QED
      BY <1>18, <3>1, <3>2 DEF Read
  <2>3. QED
    BY <1>1, <1>2, <2>1, <2>2 DEF TypeOK, procVars, Q
<1>19. CASE Drain
  <2>1. UNCHANGED <<conf, ctx, procVars, in, inOpen, pipes, res, n, ioVars>>
        /\ pc' \in {"drain", "errc"}
    BY <1>19 DEF Drain
  <2>2. out' \in [Streams -> Q] /\ \A t \in Streams : Len(out'[t]) <= PipeLen
    BY <1>1, <1>3, <1>7, <1>19 DEF Drain
  <2>3. QED
    BY <1>1, <1>2, <2>1, <2>2 DEF TypeOK, procVars, ioVars, Q
<1>20. CASE CopyIn
  <2>1. /\ UNCHANGED <<conf, ctx, procVars, in, out, pipes, mainVars, rd, gather, gatherN, gathered,
                       data, truncated, errc>>
        /\ \/ cp' = "done" /\ inOpen' = FALSE /\ UNCHANGED copied
           \/ copied # Total /\ cp' = "write" /\ copied' = copied + 1 /\ UNCHANGED inOpen
    BY <1>20 DEF CopyIn
  <2>2. copied' \in 0..Total /\ inOpen' \in BOOLEAN /\ cp' \in {"done", "write"}
    <3>1. copied \in 0..Total /\ inOpen \in BOOLEAN /\ FALSE \in BOOLEAN /\ Total \in Nat
      BY <1>1, <1>2
    <3>2. CASE cp' = "done" /\ inOpen' = FALSE /\ UNCHANGED copied
      BY <3>1, <3>2
    <3>3. CASE copied # Total /\ cp' = "write" /\ copied' = copied + 1 /\ UNCHANGED inOpen
      BY <3>1, <3>3
    <3>4. QED
      BY <2>1, <3>2, <3>3
  <2>3. UNCHANGED <<proc, step, wrote, pc, res, n>>
    BY <2>1 DEF procVars, mainVars
  <2>4. QED
    BY <1>1, <1>2, <2>1, <2>2, <2>3 DEF TypeOK, Q
<1>21. CASE CopyInWrite
  <2>1. cp = "write" /\ UNCHANGED <<conf, ctx, procVars, out, pipes, mainVars, rd, gather, gatherN,
                                    gathered, data, copied, truncated>>
    BY <1>21 DEF CopyInWrite
  <2>2. CASE cp' = "done" /\ inOpen' = FALSE /\ errc' = TRUE /\ UNCHANGED in
    BY <1>1, <1>2, <2>1, <2>2, ZenonT(40) DEF TypeOK, procVars, mainVars, Q
  <2>3. CASE Len(in) < PipeLen /\ cp' = "read" /\ in' = Append(in, copied)
             /\ UNCHANGED <<inOpen, errc>>
    <3>1. copied \in 1..Total
      <4>1. conf.kind = "cmdReader"
        BY <1>1, <2>1, ConfFacts DEF CommandInv, SystemInv, WriterInv, System
      <4>2. copied = step + Len(in) + 1 /\ Len(in) \in Nat
        BY <1>1, <2>1, <4>1 DEF CommandInv, ReaderInv, Q
      <4>3. QED
        BY <1>1, <1>2, <4>2
    <3>2. Append(in, copied) \in Q /\ Len(Append(in, copied)) = Len(in) + 1 /\ Len(in) \in Nat
      BY <1>1, <1>4, <3>1
    <3>3. Len(in') <= PipeLen
      BY <1>2, <2>3, <3>2
    <3>4. QED
      BY <1>1, <1>2, <2>1, <2>3, <3>2, <3>3 DEF TypeOK, procVars, mainVars, Q
  <2>4. QED
    BY <1>21, <2>2, <2>3 DEF CopyInWrite
<1>22. CASE ErrC
  BY <1>1, <1>2, <1>22 DEF TypeOK, ErrC, procVars, pipeVars, ioVars, Q
<1>23. CASE GatherLog
  <2>1. data' \in [Streams -> Q]
    BY <1>1, <1>23 DEF GatherLog
  <2>2. QED
    BY <1>1, <1>2, <1>23, <2>1 DEF TypeOK, GatherLog, procVars, pipeVars, mainVars, Q
<1>24. ASSUME NEW s \in Streams, ReadChunk(s) PROVE TypeOK'
  <2>1. /\ UNCHANGED <<conf, ctx, procVars, in, inOpen, pipes, mainVars, gather, cp, copied,
                       truncated, errc>>
        /\ System /\ rd[s] = "read" /\ out[s] # <<>> /\ out' = [out EXCEPT ![s] = Tail(@)]
    BY <1>24 DEF ReadChunk
  <2>2. /\ out' \in [Streams -> Q] /\ \A t \in Streams : Len(out'[t]) <= PipeLen
        /\ Head(out[s]) \in 1..Total
    BY <1>7, <2>1
  <2>3. /\ gathered' \in [Streams -> Q] /\ data' \in [Streams -> Q]
        /\ rd' \in [Streams -> {"off", "read", "done"}] /\ gatherN' \in 0..2
    <3>1. CASE /\ rd' = [rd EXCEPT ![s] = "done"]
               /\ gatherN' = IF s \in Gathered THEN gatherN - 1 ELSE gatherN
               /\ UNCHANGED <<gathered, data>>
      <4>1. gatherN = Cardinality({t \in Gathered : rd[t] = "read"}) /\ Gathered \subseteq Streams
        BY <1>1, <2>1, ConfFacts DEF CommandInv, SystemInv
      <4>2. gatherN' \in 0..2
        BY <1>1, <2>1, <3>1, <4>1, GatherDone
      <4>3. QED
        BY <1>1, <3>1, <4>2
    <3>2. CASE UNCHANGED <<rd, gatherN>>
      <4>1. Append(gathered[s], Head(out[s])) \in Q /\ Append(data[s], Head(out[s])) \in Q
        BY <1>1, <1>4, <2>2
      <4>2. \/ gathered' = [gathered EXCEPT ![s] = Append(@, Head(out[s]))] /\ UNCHANGED data
            \/ data' = [data EXCEPT ![s] = Append(@, Head(out[s]))] /\ UNCHANGED gathered
            \/ UNCHANGED <<gathered, data>>
        BY <1>24 DEF ReadChunk
      <4>3. QED
        BY <1>1, <3>2, <4>1, <4>2
    <3>3. QED
      BY <1>24, <3>1, <3>2 DEF ReadChunk
  <2>4. UNCHANGED <<conf, ctx, proc, step, wrote, in, inOpen, pipes, pc, res, n, gather, cp, copied,
                    truncated, errc>>
    BY <2>1 DEF procVars, mainVars
  <2>5. QED
    BY <1>1, <1>2, <2>2, <2>3, <2>4 DEF TypeOK, Q
<1>25. ASSUME NEW s \in Streams, ReadEnds(s) PROVE TypeOK'
  <2>1. /\ UNCHANGED <<conf, ctx, procVars, pipeVars, mainVars, gather, gathered, data, cp, copied,
                       truncated, errc>>
        /\ System /\ rd[s] = "read" /\ rd' = [rd EXCEPT ![s] = "done"]
        /\ gatherN' = IF s \in Gathered THEN gatherN - 1 ELSE gatherN
    BY <1>25 DEF ReadEnds
  <2>2. gatherN = Cardinality({t \in Gathered : rd[t] = "read"}) /\ Gathered \subseteq Streams
    BY <1>1, <2>1, ConfFacts DEF CommandInv, SystemInv
  <2>3. gatherN' \in 0..2
    BY <1>1, <2>1, <2>2, GatherDone
  <2>4. QED
    BY <1>1, <1>2, <2>1, <2>3 DEF TypeOK, procVars, pipeVars, mainVars, Q
<1>26. CASE UNCHANGED vars
  BY <1>1, <1>2, <1>26 DEF TypeOK, vars, procVars, pipeVars, mainVars, ioVars, Q
<1>27. QED
  BY <1>8, <1>9, <1>10, <1>11, <1>12, <1>13, <1>14, <1>15, <1>16, <1>17, <1>18, <1>19, <1>20,
     <1>21, <1>22, <1>23, <1>24, <1>25, <1>26
  DEF Next, Process, Main, Copy, Reader

-----------------------------------------------------------------------------
(* System.                                                                 *)

\* Each step keeps the goroutines of System, and gatherN, in accord.
LEMMA SystemInvStep ==
    ASSUME CommandInv, Next
    PROVE  SystemInv'
<1>1. UNCHANGED conf /\ System' = System /\ Gathered' = Gathered /\ Piped' = Piped
  BY Kinds, SameConf
<1>2. SUFFICES ASSUME System PROVE SystemInv'
  BY <1>1 DEF SystemInv
<1>3. /\ pc \in {"start", "cxl", "io", "wait", "done"} /\ cp = "off"
      /\ pc = "start" => gather = "off" /\ \A s \in Streams : rd[s] = "off"
      /\ pc # "start" => (gather = "off" <=> Gathered = {})
                         /\ \A s \in Streams : rd[s] = "off" <=> s \notin Piped
      /\ gatherN = Cardinality({s \in Gathered : rd[s] = "read"})
      /\ gather = "done" => \A s \in Gathered : rd[s] = "done" /\ data[s] = gathered[s]
      /\ pc \in {"wait", "done"} /\ proc # "new" =>
            gather # "range" /\ \A s \in Piped \ Gathered : rd[s] = "done"
  BY <1>2 DEF CommandInv, SystemInv
<1>4. /\ PhaseInv /\ conf \in Confs
      /\ rd \in [Streams -> {"off", "read", "done"}] /\ gather \in {"off", "range", "done"}
      /\ data \in [Streams -> Seq(1..Total)] /\ gathered \in [Streams -> Seq(1..Total)]
  BY DEF CommandInv, TypeOK
<1>5. Gathered \subseteq Piped /\ Piped \subseteq Streams
  BY <1>4, ConfFacts
<1>6. CASE ProcStep \/ Signaled \/ ExitStep \/ Cancel \/ UNCHANGED vars
  <2>1. UNCHANGED <<pc, cp, rd, gather, gatherN, gathered, data>>
    BY <1>6 DEF ProcStep, Signaled, ExitStep, ProcExits, ProcFails, Cancel, vars, mainVars, ioVars
  <2>2. proc = "new" => proc' = "new"
    BY <1>6 DEF ProcStep, Signaled, ExitStep, ProcExits, ProcFails, Cancel, vars, procVars
  <2>3. QED
    BY <1>1, <1>3, <2>1, <2>2 DEF SystemInv
<1>7. CASE Start
  <2>1. /\ pc = "start" /\ proc = "new" /\ gather = "off"
        /\ rd' = [s \in Streams |-> IF s \in Piped THEN "read" ELSE "off"]
        /\ gather' = (IF Gathered = {} THEN "off" ELSE "range")
        /\ gatherN' = Cardinality(Gathered) /\ UNCHANGED cp
        /\ pc' \in {"cxl", "io", "done"} /\ (pc' = "done" => proc' = "new")
    BY <1>3, <1>4, <1>7 DEF Start, PhaseInv
  <2>2. {s \in Gathered : rd'[s] = "read"} = Gathered
    BY <1>5, <2>1
  <2>3. QED
    BY <1>1, <1>3, <1>5, <2>1, <2>2 DEF SystemInv
<1>8. CASE RunCanceler
  <2>1. UNCHANGED <<cp, rd, gather, gatherN, gathered, data>> /\ pc = "cxl" /\ pc' = "io"
    BY <1>8 DEF RunCanceler, ioVars
  <2>2. QED
    BY <1>1, <1>3, <2>1 DEF SystemInv
<1>9. CASE IOWait
  <2>1. /\ UNCHANGED <<cp, rd, gather, gatherN, gathered, data>> /\ pc = "io" /\ pc' = "wait"
        /\ gather \in {"off", "done"} /\ \A s \in Piped \ Gathered : rd[s] = "done"
    BY <1>9 DEF IOWait, ioVars
  <2>2. QED
    BY <1>1, <1>3, <2>1 DEF SystemInv
<1>10. CASE Wait
  <2>1. UNCHANGED <<cp, rd, gather, gatherN, gathered, data, proc>> /\ pc = "wait" /\ pc' = "done"
    BY <1>10 DEF Wait, ioVars, procVars
  <2>2. QED
    BY <1>1, <1>3, <2>1 DEF SystemInv
<1>11. CASE GatherLog
  <2>1. /\ gather = "range" /\ gatherN = 0 /\ gather' = "done"
        /\ data' = [s \in Streams |-> IF s \in Gathered THEN gathered[s] ELSE data[s]]
        /\ UNCHANGED <<cp, rd, gatherN, gathered, proc, pc>>
    BY <1>11 DEF GatherLog, procVars, mainVars
  <2>2. {s \in Gathered : rd[s] = "read"} = {}
    <3>1. {s \in Gathered : rd[s] = "read"} \in SUBSET Streams
      BY <1>5
    <3>2. QED
      BY <1>3, <2>1, <3>1, StreamCount, FS_EmptySet
  <2>3. \A s \in Gathered : rd[s] = "done" /\ data'[s] = gathered[s]
    <3>1. pc # "start"
      BY <1>3, <2>1
    <3>2. ASSUME NEW s \in Gathered PROVE rd[s] = "done" /\ data'[s] = gathered[s]
      <4>1. s \in Streams /\ s \in Piped
        BY <1>5
      <4>2. rd[s] # "off" /\ rd[s] # "read"
        BY <1>3, <2>2, <3>1, <4>1
      <4>3. QED
        BY <1>4, <2>1, <4>1, <4>2
    <3>3. QED
      BY <3>2
  <2>4. QED
    BY <1>1, <1>3, <2>1, <2>3 DEF SystemInv
<1>12. ASSUME NEW s \in Streams, rd[s] = "read", rd' = [rd EXCEPT ![s] = "done"],
              gatherN' = IF s \in Gathered THEN gatherN - 1 ELSE gatherN,
              UNCHANGED <<cp, gather, gathered, data, proc, pc>>
       PROVE  SystemInv'
  <2>1. gatherN' = Cardinality({t \in Gathered : rd'[t] = "read"})
    BY <1>3, <1>4, <1>5, <1>12, GatherDone
  <2>2. \A t \in Streams : rd'[t] = IF t = s THEN "done" ELSE rd[t]
    BY <1>4, <1>12
  <2>3. pc # "start"
    BY <1>3, <1>12
  <2>4. \A t \in Streams : rd'[t] = "off" <=> t \notin Piped
    BY <1>3, <1>12, <2>2, <2>3
  <2>5. gather = "done" => \A t \in Gathered : rd'[t] = "done" /\ data[t] = gathered[t]
    BY <1>3, <1>5, <2>2
  <2>6. pc \in {"wait", "done"} /\ proc # "new" => \A t \in Piped \ Gathered : rd'[t] = "done"
    BY <1>3, <1>5, <2>2
  <2>7. QED
    BY <1>1, <1>3, <1>12, <2>1, <2>3, <2>4, <2>5, <2>6 DEF SystemInv
<1>13. ASSUME NEW s \in Streams, ReadEnds(s) PROVE SystemInv'
  BY <1>12, <1>13 DEF ReadEnds, procVars, mainVars
<1>14. ASSUME NEW s \in Streams, ReadChunk(s) PROVE SystemInv'
  <2>1. rd[s] = "read" /\ UNCHANGED <<cp, gather, proc, pc>>
    BY <1>14 DEF ReadChunk, procVars, mainVars
  <2>2. CASE /\ rd' = [rd EXCEPT ![s] = "done"] /\ UNCHANGED <<gathered, data>>
             /\ gatherN' = IF s \in Gathered THEN gatherN - 1 ELSE gatherN
    BY <1>12, <2>1, <2>2
  <2>3. CASE /\ UNCHANGED <<rd, gatherN>>
             /\ IF s \in Gathered
                THEN gathered' = [gathered EXCEPT ![s] = Append(@, Head(out[s]))] /\ UNCHANGED data
                ELSE data' = [data EXCEPT ![s] = Append(@, Head(out[s]))] /\ UNCHANGED gathered
    <3>1. gather = "done" => \A t \in Gathered : rd[t] = "done" /\ data'[t] = gathered'[t]
      BY <1>3, <1>4, <1>5, <2>1, <2>3
    <3>2. QED
      BY <1>1, <1>3, <2>1, <2>3, <3>1 DEF SystemInv
  <2>4. QED
    BY <1>14, <2>2, <2>3 DEF ReadChunk
<1>15. QED
  BY <1>2, <1>6, <1>7, <1>8, <1>9, <1>10, <1>11, <1>13, <1>14, Kinds
  DEF SystemStep, Reader, System

-----------------------------------------------------------------------------
(* The filters.                                                            *)

\* Each step of a filter keeps the chunks in their order.
LEMMA FilterInvStep ==
    ASSUME CommandInv, Next
    PROVE  FilterInv'
<1>1. UNCHANGED conf /\ System' = System
  BY Kinds, SameConf
<1>2. SUFFICES ASSUME ~System PROVE FilterInv'
  BY <1>1 DEF FilterInv
<1>3. /\ gather = "off" /\ rd["stderr"] = "off"
      /\ Len(wrote["stdout"]) = step
      /\ \A i \in 1..step : wrote["stdout"][i] = i
      /\ \A i \in 1..Len(in) : in[i] = step + i
  BY <1>2 DEF CommandInv, FilterInv
<1>4. /\ conf \in Confs /\ in \in Seq(1..Total) /\ wrote \in [Streams -> Seq(1..Total)]
      /\ rd \in [Streams -> {"off", "read", "done"}] /\ "stdout" \in Streams /\ "stderr" \in Streams
      /\ copied \in 0..Total
  BY DEF CommandInv, TypeOK, Streams
<1>5. /\ step \in Nat /\ Len(in) \in Nat /\ Total \in Nat
  BY <1>2, <1>4, StepRoom, ConfFacts
<1>6. conf.kind \in {"cmdWriter", "cmdReader"}
  BY <1>2, <1>4, ConfFacts DEF System
<1>7. CASE ProcFilter
  <2>1. /\ step' = step + 1 /\ in' = Tail(in) /\ in # <<>> /\ proc = "run"
        /\ Emit("stdout", Head(in)) /\ UNCHANGED <<gather, rd>>
    BY <1>7 DEF ProcFilter, ioVars
  <2>2. /\ Len(in) > 0 /\ Head(in) = in[1] /\ Head(in) \in 1..Total
        /\ Len(Tail(in)) = Len(in) - 1
        /\ \A i \in 1..Len(in) - 1 : Tail(in)[i] = in[i + 1]
    BY <1>4, <2>1, FirstChunk
  <2>3. Head(in) = step + 1
    BY <1>3, <1>5, <2>2
  <2>4. wrote'["stdout"] = Append(wrote["stdout"], step + 1)
    <3>1. wrote' = [wrote EXCEPT !["stdout"] = Append(@, Head(in))]
      BY <1>4, <2>1, EmitFacts
    <3>2. QED
      BY <1>4, <2>3, <3>1
  <2> DEFINE all == wrote["stdout"]
  <2>5. all \in Seq(1..Total) /\ step + 1 \in 1..Total
    BY <1>4, <2>2, <2>3
  <2> HIDE DEF all
  <2>6. /\ Len(Append(all, step + 1)) = Len(all) + 1
        /\ \A i \in 1..Len(all) : Append(all, step + 1)[i] = all[i]
        /\ Append(all, step + 1)[Len(all) + 1] = step + 1
    BY <2>5
  <2>7. Len(all) = step /\ \A i \in 1..step : all[i] = i
    BY <1>3 DEF all
  <2>8. Len(wrote'["stdout"]) = step' /\ \A i \in 1..step' : wrote'["stdout"][i] = i
    <3>1. wrote'["stdout"] = Append(all, step + 1)
      BY <2>4 DEF all
    <3>2. Len(Append(all, step + 1)) = step + 1
      BY <2>6, <2>7
    <3>3. ASSUME NEW i \in 1..step + 1 PROVE Append(all, step + 1)[i] = i
      <4>1. CASE i \in 1..step
        <5>1. Append(all, step + 1)[i] = all[i]
          BY <2>6, <2>7, <4>1
        <5>2. all[i] = i
          BY <2>7, <4>1
        <5>3. QED
          BY <5>1, <5>2
      <4>2. CASE i = step + 1
        BY <2>6, <2>7, <4>2
      <4>3. i \in 1..step \/ i = step + 1
        BY <1>5
      <4>4. QED
        BY <4>1, <4>2, <4>3
    <3>4. QED
      BY <2>1, <3>1, <3>2, <3>3
  <2>9. ASSUME NEW i \in 1..Len(in') PROVE in'[i] = step' + i
    <3>1. i \in 1..Len(in) - 1 /\ i + 1 \in 1..Len(in)
      BY <1>5, <2>1, <2>2
    <3>2. in'[i] = step + (i + 1)
      BY <1>3, <2>1, <2>2, <3>1
    <3>3. QED
      BY <1>5, <2>1, <3>1, <3>2
  <2>10. QED
    BY <1>3, <2>1, <2>8, <2>9 DEF FilterInv
<1>8. ASSUME NEW k, k = step + Len(in) + 1, k \in 1..Total, in' = Append(in, k),
             UNCHANGED <<step, wrote, gather, rd>>
      PROVE  FilterInv'
  <2>1. /\ Len(in') = Len(in) + 1 /\ in'[Len(in) + 1] = k
        /\ \A i \in 1..Len(in) : in'[i] = in[i]
    BY <1>4, <1>8
  <2>2. ASSUME NEW i \in 1..Len(in') PROVE in'[i] = step + i
    <3>1. CASE i \in 1..Len(in)
      BY <1>3, <2>1, <3>1
    <3>2. CASE i = Len(in) + 1
      BY <1>5, <1>8, <2>1, <3>2
    <3>3. QED
      BY <1>5, <2>1, <3>1, <3>2
  <2>3. QED
    BY <1>3, <1>8, <2>2 DEF FilterInv
<1>9. CASE Write
  <2>1. conf.kind = "cmdWriter" /\ UNCHANGED <<step, wrote, gather, rd>>
    BY <1>9 DEF Write, procVars, ioVars
  <2>2. CASE UNCHANGED in
    BY <1>3, <2>1, <2>2 DEF FilterInv
  <2>3. CASE n < Total /\ in' = Append(in, n + 1)
    <3>1. n = step + Len(in)
      BY <2>1 DEF CommandInv, WriterInv
    <3>2. n + 1 = step + Len(in) + 1 /\ n + 1 \in 1..Total
      BY <1>5, <2>3, <3>1
    <3>3. QED
      BY <1>8, <2>1, <2>3, <3>2
  <2>4. QED
    BY <1>9, <2>2, <2>3 DEF Write
<1>10. CASE CopyInWrite
  <2>1. cp = "write" /\ UNCHANGED <<step, wrote, gather, rd>>
    BY <1>10 DEF CopyInWrite, procVars
  <2>2. CASE UNCHANGED in
    BY <1>3, <2>1, <2>2 DEF FilterInv
  <2>3. CASE in' = Append(in, copied)
    <3>1. copied = step + Len(in) + 1
      BY <1>6, <2>1 DEF CommandInv, WriterInv, ReaderInv
    <3>2. copied \in 1..Total
      BY <1>4, <1>5, <3>1
    <3>3. QED
      BY <1>8, <2>1, <2>3, <3>1, <3>2
  <2>4. QED
    BY <1>10, <2>2, <2>3 DEF CopyInWrite
<1>11. CASE WriterStart \/ CopyOut
  <2>1. UNCHANGED <<step, wrote, gather, in>>
    BY <1>11 DEF WriterStart, CopyOut, procVars
  <2>2. UNCHANGED rd \/ \E v : rd' = [rd EXCEPT !["stdout"] = v]
    BY <1>11 DEF WriterStart, CopyOut
  <2>3. rd'["stderr"] = "off"
    BY <1>3, <1>4, <2>2
  <2>4. QED
    BY <1>3, <2>1, <2>3 DEF FilterInv
<1>12. CASE ReaderStart \/ Read \/ Drain \/ CopyIn \/ ErrC \/ CloseWaits \/ ExitStep \/ UNCHANGED vars
  <2>1. UNCHANGED <<step, wrote, gather, in, rd>>
    BY <1>12 DEF ReaderStart, Read, Drain, CopyIn, ErrC, CloseWaits, ExitStep, ProcExits, ProcFails,
                 vars, procVars, pipeVars, ioVars
  <2>2. QED
    BY <1>3, <2>1 DEF FilterInv
<1>13. QED
  BY <1>2, <1>7, <1>9, <1>10, <1>11, <1>12, Kinds DEF WriterStep, ReaderStep, FilterStep

-----------------------------------------------------------------------------
(* cmdWriter.                                                              *)

\* Each step keeps the chunks of cmdWriter accounted for.
LEMMA WriterInvStep ==
    ASSUME CommandInv, Next
    PROVE  WriterInv'
<1>1. UNCHANGED conf /\ Total' = Total
  BY Kinds, SameConf
<1>2. SUFFICES ASSUME conf.kind = "cmdWriter" PROVE WriterInv'
  BY <1>1 DEF WriterInv
<1>3. /\ pc \in {"start", "run", "errc", "wait", "done"} /\ cp = "off"
      /\ pc = "start" => rd["stdout"] = "off"
      /\ n = step + Len(in)
      /\ inOpen \/ n = Total \/ res = "error"
      /\ proc = "ok" => step = n /\ ~inOpen
      /\ rd["stdout"] = "done" /\ ~errc => Exited /\ Len(data["stdout"]) = step
      /\ pc \in {"wait", "done"} /\ proc # "new" =>
            rd["stdout"] = "done" /\ (errc => res = "error")
      /\ pc = "done" /\ proc # "new" /\ res = "ok" => proc = "ok"
  BY <1>2 DEF CommandInv, WriterInv
<1>4. /\ conf \in Confs /\ proc \in {"new", "run", "ok", "failed"}
      /\ inOpen \in BOOLEAN /\ errc \in BOOLEAN /\ in \in Seq(1..Total)
      /\ rd \in [Streams -> {"off", "read", "done"}] /\ "stdout" \in Streams
      /\ data \in [Streams -> Seq(1..Total)] /\ out \in [Streams -> Seq(1..Total)]
      /\ PhaseInv
  BY DEF CommandInv, TypeOK, Streams
<1>5. step \in Nat /\ Len(in) \in Nat /\ Total \in Nat /\ ~System
  BY <1>2, <1>4, StepRoom, ConfFacts DEF System
<1>6. CASE ProcFilter
  <2>1. /\ step' = step + 1 /\ in' = Tail(in) /\ in # <<>> /\ proc = "run" /\ Emit("stdout", Head(in))
        /\ UNCHANGED <<pc, cp, rd, n, inOpen, res, errc, data>>
    BY <1>6 DEF ProcFilter, mainVars, ioVars
  <2>2. proc' = "run"
    BY <1>4, <2>1, EmitFacts
  <2>3. Len(in') = Len(in) - 1 /\ Len(in) > 0
    BY <1>4, <2>1, FirstChunk
  <2>4. n' = step' + Len(in')
    BY <1>3, <1>5, <2>1, <2>3
  <2>5. ~(rd["stdout"] = "done" /\ ~errc)
    BY <1>3, <2>1 DEF Exited
  <2>6. QED
    BY <1>1, <1>3, <2>1, <2>2, <2>4, <2>5 DEF WriterInv
<1>7. CASE ProcExits \/ ProcFails
  <2>1. /\ proc = "run" /\ proc' \in {"ok", "failed"}
        /\ proc' = "ok" => in = <<>> /\ ~inOpen
        /\ UNCHANGED <<pc, cp, rd, n, step, in, inOpen, res, errc, data>>
    BY <1>5, <1>7 DEF ProcExits, ProcFails, pipeVars, mainVars, ioVars
  <2>2. proc' = "ok" => step = n
    BY <1>3, <1>5, <2>1
  <2>3. pc # "done"
    BY <1>4, <2>1 DEF PhaseInv
  <2>4. QED
    BY <1>1, <1>3, <2>1, <2>2, <2>3 DEF WriterInv, Exited
<1>8. CASE WriterStart
  <2>1. /\ pc = "start" /\ proc = "new" /\ UNCHANGED <<cp, n, step, in, inOpen, errc, data>>
        /\ rd' = rd \/ rd' = [rd EXCEPT !["stdout"] = "read"]
        /\ \/ pc' = "done" /\ UNCHANGED proc /\ res' \in {"ok", "error"}
           \/ pc' = "run" /\ proc' = "run" /\ UNCHANGED res
        /\ res = "none"
    BY <1>4, <1>8 DEF WriterStart, PhaseInv
  <2>2. rd'["stdout"] # "done"
    BY <1>3, <1>4, <2>1
  <2>3. inOpen' \/ n' = Total' \/ res' = "error"
    BY <1>1, <1>3, <2>1
  <2>4. QED
    BY <1>1, <1>3, <2>1, <2>2, <2>3 DEF WriterInv
<1>9. CASE Write
  <2>1. /\ pc = "run" /\ UNCHANGED <<cp, step, errc, data, rd, proc>>
        /\ \/ n < Total /\ ~Exited /\ in' = Append(in, n + 1) /\ n' = n + 1 /\ UNCHANGED <<inOpen, pc, res>>
           \/ inOpen' = FALSE /\ pc' = "errc" /\ res' = "error" /\ UNCHANGED <<in, n>>
           \/ n = Total /\ inOpen' = FALSE /\ pc' = "errc" /\ UNCHANGED <<in, n, res>>
    BY <1>9 DEF Write, procVars, ioVars
  <2>2. CASE n < Total /\ ~Exited /\ in' = Append(in, n + 1) /\ n' = n + 1 /\ UNCHANGED <<inOpen, pc, res>>
    <3>1. n + 1 \in 1..Total
      BY <1>3, <1>5, <2>2
    <3>2. Len(in') = Len(in) + 1
      BY <1>4, <2>2, <3>1
    <3>3. n' = step' + Len(in')
      BY <1>3, <1>5, <2>1, <2>2, <3>2
    <3>4. proc # "ok" /\ (inOpen \/ res = "error")
      BY <1>3, <1>5, <2>2 DEF Exited
    <3>5. QED
      BY <1>1, <1>3, <2>1, <2>2, <3>3, <3>4 DEF WriterInv, Exited
  <2>3. CASE /\ inOpen' = FALSE /\ pc' = "errc" /\ UNCHANGED <<in, n>>
             /\ res' = "error" \/ (n = Total /\ UNCHANGED res)
    BY <1>1, <1>3, <2>1, <2>3 DEF WriterInv, Exited
  <2>4. QED
    BY <2>1, <2>2, <2>3
<1>10. CASE CopyOut
  <2>1. /\ rd["stdout"] = "read" /\ UNCHANGED <<pc, cp, n, step, in, inOpen, res, proc>>
        /\ \/ errc' = TRUE
           \/ UNCHANGED <<rd, errc>>
           \/ pipes /\ Exited /\ out["stdout"] = <<>> /\ UNCHANGED data
    BY <1>10 DEF CopyOut, procVars, mainVars
  <2>2. ~(pc \in {"wait", "done"} /\ proc # "new") /\ pc # "start"
    BY <1>3, <2>1
  <2>3. rd'["stdout"] = "done" /\ ~errc' => Exited /\ Len(data'["stdout"]) = step
    <3>1. SUFFICES ASSUME rd'["stdout"] = "done", ~errc'
                   PROVE  Exited /\ Len(data'["stdout"]) = step
      OBVIOUS
    <3>2. Exited /\ out["stdout"] = <<>> /\ UNCHANGED data
      BY <2>1, <3>1
    <3>3. step = Len(data["stdout"]) + Len(out["stdout"])
      BY <1>2, <1>5, <2>1, FilterFlow DEF Reading
    <3>4. Len(data["stdout"]) \in Nat /\ Len(out["stdout"]) = 0
      BY <1>4, <3>2
    <3>5. QED
      BY <3>2, <3>3, <3>4
  <2>4. QED
    BY <1>1, <1>3, <2>1, <2>2, <2>3 DEF WriterInv, Exited
<1>11. CASE ErrC
  <2>1. /\ pc = "errc" /\ rd["stdout"] = "done" /\ pc' = "wait"
        /\ res' = IF errc THEN "error" ELSE res
        /\ UNCHANGED <<cp, n, step, in, inOpen, errc, data, rd, proc>>
    BY <1>2, <1>11 DEF ErrC, procVars, pipeVars, ioVars
  <2>2. QED
    BY <1>1, <1>3, <2>1 DEF WriterInv, Exited
<1>12. CASE CloseWaits
  <2>1. /\ pc = "wait" /\ pc' = "done" /\ Exited
        /\ res' = (IF res = "none" /\ proc = "ok" THEN "ok" ELSE "error")
        /\ UNCHANGED <<cp, n, step, in, inOpen, errc, data, rd, proc>>
    BY <1>12 DEF CloseWaits, procVars, ioVars
  <2>2. QED
    BY <1>1, <1>3, <2>1 DEF WriterInv, Exited
<1>13. CASE UNCHANGED vars
  <2>1. UNCHANGED <<pc, cp, n, step, in, inOpen, res, errc, data, rd, proc>>
    BY <1>13 DEF vars, procVars, pipeVars, mainVars, ioVars
  <2>2. QED
    BY <1>1, <1>3, <2>1 DEF WriterInv, Exited
<1>14. QED
  BY <1>2, <1>5, <1>6, <1>7, <1>8, <1>9, <1>10, <1>11, <1>12, <1>13, Kinds
  DEF WriterStep, FilterStep, ExitStep

-----------------------------------------------------------------------------
(* cmdReader.                                                              *)

\* Each step keeps the chunks of cmdReader accounted for.
LEMMA ReaderInvStep ==
    ASSUME CommandInv, Next
    PROVE  ReaderInv'
<1>1. UNCHANGED conf /\ Total' = Total
  BY Kinds, SameConf
<1>2. SUFFICES ASSUME conf.kind = "cmdReader" PROVE ReaderInv'
  BY <1>1 DEF ReaderInv
<1>3. /\ pc \in {"start", "run", "drain", "errc", "wait", "done"} /\ rd["stdout"] = "off"
      /\ pc = "start" => cp = "off" /\ copied = 0
      /\ n = Len(data["stdout"])
      /\ step + Len(in) <= copied
      /\ cp = "read" => copied = step + Len(in)
      /\ cp = "write" => copied = step + Len(in) + 1
      /\ proc = "ok" => step = Total
      /\ pc \in {"drain", "errc", "wait", "done"} /\ proc # "new" /\ conf.limit > Total =>
            Exited /\ n = step
      /\ pc \in {"wait", "done"} /\ proc # "new" => cp = "done"
      /\ pc = "done" /\ proc # "new" /\ res = "ok" => proc = "ok"
  BY <1>2 DEF CommandInv, ReaderInv
<1>4. /\ conf \in Confs /\ proc \in {"new", "run", "ok", "failed"}
      /\ in \in Seq(1..Total) /\ "stdout" \in Streams
      /\ data \in [Streams -> Seq(1..Total)] /\ out \in [Streams -> Seq(1..Total)]
      /\ copied \in 0..Total /\ n \in 0..Total /\ step \in 0..Total /\ PhaseInv
  BY DEF CommandInv, TypeOK, Streams
<1>5. /\ step \in Nat /\ Len(in) \in Nat /\ Total \in Nat /\ ~System /\ conf.limit \in Nat
      /\ copied \in Nat /\ n \in Nat
  BY <1>2, <1>4, StepRoom, ConfFacts DEF System
<1>6. CASE ProcFilter
  <2>1. /\ step' = step + 1 /\ in' = Tail(in) /\ in # <<>> /\ proc = "run" /\ Emit("stdout", Head(in))
        /\ UNCHANGED <<pc, cp, rd, n, res, copied, data>>
    BY <1>6 DEF ProcFilter, mainVars, ioVars
  <2>2. proc' = "run"
    BY <1>4, <2>1, EmitFacts
  <2>3. Len(in') = Len(in) - 1 /\ Len(in) > 0
    BY <1>4, <2>1, FirstChunk
  <2>4. step' + Len(in') = step + Len(in)
    BY <1>5, <2>1, <2>3
  <2>5. ~(pc \in {"drain", "errc", "wait", "done"} /\ conf.limit > Total)
    BY <1>3, <2>1 DEF Exited
  <2>6. QED
    BY <1>1, <1>3, <2>1, <2>2, <2>4, <2>5 DEF ReaderInv
<1>7. CASE ProcExits \/ ProcFails
  <2>1. /\ proc = "run" /\ proc' \in {"ok", "failed"}
        /\ proc' = "ok" => ~(step < Total)
        /\ UNCHANGED <<pc, cp, rd, n, step, in, res, copied, data>>
    BY <1>2, <1>7 DEF ProcExits, ProcFails, pipeVars, mainVars, ioVars
  <2>2. proc' = "ok" => step = Total
    BY <1>4, <1>5, <2>1
  <2>3. pc # "done"
    BY <1>4, <2>1 DEF PhaseInv
  <2>4. QED
    BY <1>1, <1>3, <2>1, <2>2, <2>3 DEF ReaderInv, Exited
<1>8. CASE ReaderStart
  <2>1. /\ pc = "start" /\ proc = "new" /\ cp' = "read" /\ copied = 0
        /\ UNCHANGED <<n, step, in, rd, copied, data>>
        /\ \/ pc' = "run" /\ proc' = "run"
           \/ pc' = "done" /\ proc' = "new"
    BY <1>3, <1>4, <1>8 DEF ReaderStart, PhaseInv
  <2>2. copied = step + Len(in)
    BY <1>3, <1>5, <2>1
  <2>3. QED
    BY <1>1, <1>3, <2>1, <2>2 DEF ReaderInv
<1>9. CASE Read
  <2>1. /\ pc = "run" /\ UNCHANGED <<cp, step, in, rd, copied, proc>>
        /\ \/ /\ data' = [data EXCEPT !["stdout"] = Append(@, Head(out["stdout"]))]
              /\ out["stdout"] # <<>> /\ n' = n + 1 /\ UNCHANGED pc
           \/ /\ n < conf.limit => out["stdout"] = <<>> /\ Exited
              /\ pc' = "drain" /\ UNCHANGED <<data, n>>
    BY <1>9 DEF Read, procVars
  <2>2. proc # "new"
    BY <1>4, <2>1 DEF PhaseInv
  <2>3. CASE /\ data' = [data EXCEPT !["stdout"] = Append(@, Head(out["stdout"]))]
             /\ out["stdout"] # <<>> /\ n' = n + 1 /\ UNCHANGED pc
    <3>1. Head(out["stdout"]) \in 1..Total
      BY <1>4, <2>3, FirstChunk
    <3>2. data'["stdout"] = Append(data["stdout"], Head(out["stdout"]))
      BY <1>4, <2>3
    <3>3. Len(data'["stdout"]) = Len(data["stdout"]) + 1
      BY <1>4, <3>1, <3>2
    <3>4. n' = Len(data'["stdout"])
      BY <1>3, <2>3, <3>3
    <3>5. QED
      BY <1>1, <1>3, <2>1, <2>3, <3>4 DEF ReaderInv
  <2>4. CASE /\ n < conf.limit => out["stdout"] = <<>> /\ Exited
             /\ pc' = "drain" /\ UNCHANGED <<data, n>>
    <3>1. ASSUME conf.limit > Total PROVE Exited /\ n = step
      <4>1. n < conf.limit
        BY <1>4, <1>5, <3>1
      <4>2. Len(out["stdout"]) = 0 /\ Exited
        BY <2>4, <4>1
      <4>3. step = Len(data["stdout"]) + Len(out["stdout"])
        BY <1>2, <1>5, <2>1, FilterFlow DEF Reading
      <4>4. QED
        BY <1>3, <1>5, <4>2, <4>3
    <3>2. QED
      BY <1>1, <1>3, <2>1, <2>4, <3>1 DEF ReaderInv, Exited
  <2>5. QED
    BY <2>1, <2>3, <2>4
<1>10. CASE Drain
  <2>1. pc = "drain" /\ pc' \in {"drain", "errc"} /\ UNCHANGED <<cp, n, step, in, rd, copied, data, proc>>
    BY <1>10 DEF Drain, procVars, ioVars
  <2>2. QED
    BY <1>1, <1>3, <2>1 DEF ReaderInv, Exited
<1>11. CASE CopyIn
  <2>1. /\ cp = "read" /\ UNCHANGED <<pc, res, n, step, in, rd, data, proc>>
        /\ \/ cp' = "done" /\ UNCHANGED copied
           \/ cp' = "write" /\ copied' = copied + 1
    BY <1>11 DEF CopyIn, procVars, mainVars
  <2>2. pc # "start" /\ ~(pc \in {"wait", "done"} /\ proc # "new")
    BY <1>3, <2>1
  <2>3. copied = step + Len(in)
    BY <1>3, <2>1
  <2>4. CASE cp' = "done" /\ UNCHANGED copied
    BY <1>1, <1>3, <2>1, <2>2, <2>4 DEF ReaderInv, Exited
  <2>5. CASE cp' = "write" /\ copied' = copied + 1
    <3>1. copied' = step + Len(in) + 1 /\ step + Len(in) <= copied'
      BY <1>5, <2>3, <2>5
    <3>2. QED
      BY <1>1, <1>3, <2>1, <2>2, <2>5, <3>1 DEF ReaderInv, Exited
  <2>6. QED
    BY <2>1, <2>4, <2>5
<1>12. CASE CopyInWrite
  <2>1. /\ cp = "write" /\ UNCHANGED <<pc, res, n, step, rd, data, copied, proc>>
        /\ \/ cp' = "done" /\ UNCHANGED in
           \/ cp' = "read" /\ in' = Append(in, copied)
    BY <1>12 DEF CopyInWrite, procVars, mainVars
  <2>2. pc # "start" /\ ~(pc \in {"wait", "done"} /\ proc # "new")
    BY <1>3, <2>1
  <2>3. copied = step + Len(in) + 1
    BY <1>3, <2>1
  <2>4. CASE cp' = "done" /\ UNCHANGED in
    BY <1>1, <1>3, <2>1, <2>2, <2>4 DEF ReaderInv, Exited
  <2>5. CASE cp' = "read" /\ in' = Append(in, copied)
    <3>1. copied \in 1..Total
      BY <1>4, <1>5, <2>3
    <3>2. Len(in') = Len(in) + 1
      BY <1>4, <2>5, <3>1
    <3>3. copied = step + Len(in') /\ step + Len(in') <= copied
      BY <1>5, <2>3, <3>2
    <3>4. QED
      BY <1>1, <1>3, <2>1, <2>2, <2>5, <3>3 DEF ReaderInv, Exited
  <2>6. QED
    BY <2>1, <2>4, <2>5
<1>13. CASE ErrC
  <2>1. /\ pc = "errc" /\ cp = "done" /\ pc' = "wait"
        /\ UNCHANGED <<cp, n, step, in, rd, copied, data, proc>>
    BY <1>2, <1>13 DEF ErrC, procVars, pipeVars, ioVars
  <2>2. QED
    BY <1>1, <1>3, <2>1 DEF ReaderInv, Exited
<1>14. CASE CloseWaits
  <2>1. /\ pc = "wait" /\ pc' = "done"
        /\ res' = (IF res = "none" /\ proc = "ok" THEN "ok" ELSE "error")
        /\ UNCHANGED <<cp, n, step, in, rd, copied, data, proc>>
    BY <1>14 DEF CloseWaits, procVars, ioVars
  <2>2. QED
    BY <1>1, <1>3, <2>1 DEF ReaderInv, Exited
<1>15. CASE UNCHANGED vars
  <2>1. UNCHANGED <<pc, cp, n, step, in, res, copied, data, rd, proc>>
    BY <1>15 DEF vars, procVars, pipeVars, mainVars, ioVars
  <2>2. QED
    BY <1>1, <1>3, <2>1 DEF ReaderInv, Exited
<1>16. QED
  BY <1>2, <1>5, <1>6, <1>7, <1>8, <1>9, <1>10, <1>11, <1>12, <1>13, <1>14, <1>15, Kinds
  DEF ReaderStep, FilterStep, ExitStep

-----------------------------------------------------------------------------
(* The theorems.                                                           *)

\* It holds at first.
LEMMA InitInv == Init => CommandInv
<1>1. SUFFICES ASSUME Init PROVE CommandInv
  OBVIOUS
<1>2. /\ conf \in Confs /\ ctx = FALSE /\ proc = "new" /\ step = 0
      /\ in = <<>> /\ inOpen = TRUE /\ pipes = TRUE
      /\ out = [s \in Streams |-> <<>>] /\ wrote = out /\ gathered = out /\ data = out
      /\ pc = "start" /\ res = "none" /\ n = 0 /\ rd = [s \in Streams |-> "off"]
      /\ gather = "off" /\ gatherN = 0
      /\ cp = "off" /\ copied = 0 /\ truncated = FALSE /\ errc = FALSE
  BY <1>1 DEF Init
<1>3. Total \in Nat /\ PipeLen \in Nat \ {0} /\ "stdout" \in Streams /\ "stderr" \in Streams
  BY <1>2, ConfFacts, CommandAssumption DEF Streams
<1>4. /\ <<>> \in Seq(1..Total) /\ Len(<<>>) = 0 /\ 0 \in 0..Total /\ 0 \in 0..2
      /\ TRUE \in BOOLEAN /\ FALSE \in BOOLEAN
  BY <1>3
<1>5. \A s \in Streams : out[s] = <<>> /\ wrote[s] = <<>> /\ gathered[s] = <<>> /\ data[s] = <<>>
  BY <1>2
<1>6. TypeOK
  <2>1. out \in [Streams -> Seq(1..Total)]
    BY <1>2, <1>4
  <2>2. \A s \in Streams : Len(out[s]) <= PipeLen
    BY <1>3, <1>4, <1>5
  <2>3. Len(in) <= PipeLen
    BY <1>2, <1>3, <1>4
  <2>4. rd \in [Streams -> {"off", "read", "done"}]
    BY <1>2
  <2>5. QED
    BY <1>2, <1>4, <2>1, <2>2, <2>3, <2>4 DEF TypeOK
<1>7. PhaseInv
  BY <1>2 DEF PhaseInv
<1>8. FlowInv
  <2>1. ASSUME NEW s \in Streams PROVE Flow(s)
    <3>1. Got(s) = <<>> /\ rd[s] = "off"
      BY <1>2, <1>5 DEF Got
    <3>2. QED
      BY <1>4, <1>5, <3>1 DEF Flow
  <2>2. QED
    BY <2>1 DEF FlowInv
<1>9. SystemInv
  <2>1. {s \in Gathered : rd[s] = "read"} = {}
    BY <1>2, ConfFacts
  <2>2. Cardinality({}) = 0
    BY FS_EmptySet
  <2>3. QED
    BY <1>2, <2>1, <2>2 DEF SystemInv
<1>10. FilterInv
  BY <1>2, <1>3, <1>4, <1>5 DEF FilterInv
<1>11. WriterInv
  BY <1>2, <1>3, <1>4 DEF WriterInv
<1>12. ReaderInv
  BY <1>2, <1>3, <1>4, <1>5 DEF ReaderInv
<1>13. QED
  BY <1>6, <1>7, <1>8, <1>9, <1>10, <1>11, <1>12 DEF CommandInv

\* Each step preserves it.
LEMMA StepInv == CommandInv /\ [Next]_vars => CommandInv'
<1>1. SUFFICES ASSUME CommandInv, [Next]_vars PROVE CommandInv'
  OBVIOUS
<1>2. CASE Next
  BY <1>1, <1>2, TypeStep, PhaseStep, FlowStep, SystemInvStep, FilterInvStep, WriterInvStep,
     ReaderInvStep
  DEF CommandInv
<1>3. CASE UNCHANGED vars
  <2>1. /\ UNCHANGED <<conf, ctx, proc, step, wrote, in, inOpen, out, pipes, pc, res, n>>
        /\ UNCHANGED <<rd, gather, gatherN, gathered, data, cp, copied, truncated, errc>>
    BY <1>3 DEF vars, procVars, pipeVars, mainVars, ioVars
  <2>2. /\ System' = System /\ Total' = Total /\ Gathered' = Gathered /\ Piped' = Piped
        /\ Scanned' = Scanned /\ Exited' = Exited
    BY <2>1, SameConf DEF Exited
  <2>3. TypeOK' /\ PhaseInv'
    BY <1>1, <2>1, <2>2 DEF CommandInv, TypeOK, PhaseInv
  <2>4. FlowInv'
    <3>1. FlowInv /\ \A s \in Streams : Reading(s)' = Reading(s)
      BY <1>1, <2>1 DEF CommandInv, Reading
    <3>2. QED
      BY <2>1, <3>1, FlowQuiet
  <2>5. SystemInv'
    BY <1>1, <2>1, <2>2 DEF CommandInv, SystemInv
  <2>6. FilterInv'
    BY <1>1, <2>1, <2>2 DEF CommandInv, FilterInv
  <2>7. WriterInv' /\ ReaderInv'
    BY <1>1, <2>1, <2>2 DEF CommandInv, WriterInv, ReaderInv
  <2>8. QED
    BY <2>3, <2>4, <2>5, <2>6, <2>7 DEF CommandInv
<1>4. QED
  BY <1>1, <1>2, <1>3

\* What the process has written is what was had of it and what is in the pipes, at
\* every step of every goroutine of System, cmdWriter and cmdReader: CommandInv
\* holds in every state.
THEOREM CommandCorrect == Spec => []CommandInv
<1>1. CommandInv /\ [Next]_vars => CommandInv'
  BY StepInv
<1>2. QED
  BY <1>1, InitInv, PTL DEF Spec

\* The first m elements of a sequence.
LEMMA FirstOnes ==
    ASSUME NEW T, NEW q \in Seq(T), NEW m \in Nat, m <= Len(q)
    PROVE  /\ SubSeq(q, 1, m) \in Seq(T) /\ Len(SubSeq(q, 1, m)) = m
           /\ \A i \in 1..m : SubSeq(q, 1, m)[i] = q[i]
<1>1. Len(q) \in Nat /\ \A i \in 1..Len(q) : q[i] \in T
  OBVIOUS
<1>2. \A i \in 1..m : q[i] \in T
  BY <1>1
<1>3. SubSeq(q, 1, m) = [i \in 1..m |-> q[i]]
  BY <1>1
<1>4. QED
  BY <1>2, <1>3

\* The lines before the first one that is too long are expected, or all of them.
LEMMA ExpectedFacts ==
    ASSUME NEW s \in Streams, StreamTypes(s), Flow(s), System, rd[s] = "done", proc # "run"
    PROVE  Got(s) = Expected(s)
<1> DEFINE all == wrote[s]
           got == Got(s)
           long == {i \in DOMAIN all : TooLong(s, all[i])}
           First(i) == \A j \in long : i <= j
<1>1. Expected(s) = IF long = {} THEN all
                    ELSE SubSeq(all, 1, (CHOOSE i \in long : First(i)) - 1)
  BY DEF Expected
<1>2. all \in Seq(1..Total) /\ got \in Seq(1..Total)
  BY DEF StreamTypes
<1>3. /\ Len(got) <= Len(all)
      /\ \A i \in 1..Len(got) : got[i] = all[i] /\ ~TooLong(s, all[i])
      /\ \/ Len(got) = Len(all)
         \/ Len(got) < Len(all) /\ TooLong(s, all[Len(got) + 1])
  BY DEF Flow
<1> HIDE DEF all, got
<1>4. Len(got) \in Nat /\ Len(all) \in Nat /\ DOMAIN all = 1..Len(all)
  BY <1>2
<1>5. CASE Len(got) = Len(all)
  <2>1. long = {}
    BY <1>3, <1>4, <1>5
  <2>2. got = all
    BY <1>2, <1>3, <1>5
  <2>3. QED
    BY <1>1, <2>1, <2>2 DEF got
<1>6. CASE Len(got) < Len(all) /\ TooLong(s, all[Len(got) + 1])
  <2>1. Len(got) + 1 \in long
    BY <1>4, <1>6
  <2>2. \A j \in long : Len(got) + 1 <= j /\ j \in Nat
    BY <1>3, <1>4
  <2>3. First(Len(got) + 1)
    BY <2>2
  <2>4. \A i \in long : First(i) => i = Len(got) + 1
    <3>1. ASSUME NEW i \in long, First(i) PROVE i = Len(got) + 1
      <4>1. i <= Len(got) + 1
        BY <2>1, <3>1
      <4>2. QED
        BY <1>4, <2>2, <4>1
    <3>2. QED
      BY <3>1
  <2> DEFINE k == CHOOSE i \in long : First(i)
  <2> HIDE DEF long, First
  <2>5. k \in long /\ First(k)
    BY <2>1, <2>3 DEF k
  <2>6. k = Len(got) + 1 /\ long # {}
    BY <2>1, <2>4, <2>5
  <2>7. Expected(s) = SubSeq(all, 1, k - 1)
    BY <1>1, <2>6 DEF k
  <2> HIDE DEF k
  <2>8. k - 1 = Len(got)
    BY <1>4, <2>6
  <2>9. SubSeq(all, 1, Len(got)) = got
    <3>1. /\ SubSeq(all, 1, Len(got)) \in Seq(1..Total) /\ Len(SubSeq(all, 1, Len(got))) = Len(got)
          /\ \A i \in 1..Len(got) : SubSeq(all, 1, Len(got))[i] = all[i]
      <4>1. ASSUME NEW m \in Nat, m <= Len(all)
            PROVE  /\ SubSeq(all, 1, m) \in Seq(1..Total) /\ Len(SubSeq(all, 1, m)) = m
                   /\ \A i \in 1..m : SubSeq(all, 1, m)[i] = all[i]
        BY <1>2, <4>1, FirstOnes
      <4>2. Len(got) \in Nat /\ Len(got) <= Len(all)
        BY <1>3, <1>4
      <4>3. QED
        BY <4>1, <4>2
    <3>2. \A i \in 1..Len(got) : got[i] = all[i]
      BY <1>3
    <3>3. QED
      BY <1>2, <3>1, <3>2
  <2>10. QED
    BY <2>7, <2>8, <2>9 DEF got
<1>7. QED
  BY <1>3, <1>5, <1>6

\* CommandInv has CommandComplete in it.
LEMMA InvComplete == CommandInv => CommandComplete
<1>1. SUFFICES ASSUME CommandInv, pc = "done", proc # "new" PROVE CommandComplete
  BY DEF CommandComplete
<1>2. TypeOK /\ PhaseInv /\ FlowInv /\ conf \in Confs
  BY <1>1 DEF CommandInv, TypeOK
<1>3. conf.kind \in {"System", "cmdWriter", "cmdReader"} /\ Total \in Nat
      /\ Gathered \subseteq Piped /\ Piped \subseteq Streams
  BY <1>2, ConfFacts
<1>4. Exited
  BY <1>1, <1>2 DEF TypeOK, PhaseInv, Exited
<1>5. CASE System
  <2>1. /\ cp = "off" /\ gather # "range" /\ \A s \in Piped \ Gathered : rd[s] = "done"
        /\ (gather = "off" <=> Gathered = {})
        /\ \A s \in Streams : rd[s] = "off" <=> s \notin Piped
        /\ gather = "done" => \A s \in Gathered : rd[s] = "done" /\ data[s] = gathered[s]
    BY <1>1, <1>5 DEF CommandInv, SystemInv
  <2>2. gather \in {"off", "range", "done"}
    BY <1>2 DEF TypeOK
  <2>3. ASSUME NEW s \in Piped PROVE rd[s] = "done" /\ data[s] = Got(s)
    <3>1. CASE s \in Gathered
      BY <2>1, <2>2, <3>1 DEF Got
    <3>2. CASE s \notin Gathered
      BY <2>1, <3>2 DEF Got
    <3>3. QED
      BY <3>1, <3>2
  <2>4. ASSUME NEW s \in Streams PROVE rd[s] # "read"
    BY <2>1, <2>3
  <2>5. ASSUME NEW s \in Piped PROVE data[s] = Expected(s)
    <3>1. s \in Streams /\ StreamTypes(s) /\ Flow(s) /\ proc # "run"
      BY <1>2, <1>3, <1>4, TypesOfStream DEF FlowInv, Exited
    <3>2. QED
      BY <1>5, <2>3, <3>1, ExpectedFacts
  <2>6. QED
    BY <1>4, <1>5, <2>1, <2>4, <2>5 DEF CommandComplete
<1>6. CASE ~System
  <2>1. /\ gather = "off" /\ rd["stderr"] = "off"
        /\ Len(wrote["stdout"]) = step /\ \A i \in 1..step : wrote["stdout"][i] = i
    BY <1>1, <1>6 DEF CommandInv, FilterInv
  <2>2. /\ Got("stdout") = data["stdout"] /\ StreamTypes("stdout") /\ Flow("stdout")
    BY <1>1, <1>6, FilterFlow
  <2>3. rd["stdout"] # "read" /\ cp \in {"off", "done"}
    BY <1>1, <1>3, <1>6 DEF CommandInv, WriterInv, ReaderInv, System
  <2>4. ASSUME res = "ok", conf.kind = "cmdReader" => conf.limit > Total
        PROVE  Len(data["stdout"]) = Total /\ step = Total
    <3>1. CASE conf.kind = "cmdWriter"
      <4>1. /\ proc = "ok" /\ step = n /\ ~inOpen /\ rd["stdout"] = "done" /\ ~errc
            /\ inOpen \/ n = Total \/ res = "error"
            /\ rd["stdout"] = "done" /\ ~errc => Len(data["stdout"]) = step
        BY <1>1, <2>4, <3>1 DEF CommandInv, WriterInv
      <4>2. QED
        BY <2>4, <4>1
    <3>2. CASE conf.kind = "cmdReader"
      BY <1>1, <2>4, <3>2 DEF CommandInv, ReaderInv
    <3>3. QED
      BY <1>3, <1>6, <3>1, <3>2 DEF System
  <2>5. ASSUME res = "ok", conf.kind = "cmdReader" => conf.limit > Total
        PROVE  data["stdout"] = [i \in 1..Total |-> i]
    <3> DEFINE d == data["stdout"]
    <3>1. d \in Seq(1..Total) /\ Len(d) = Total /\ step = Total
      BY <2>2, <2>4, <2>5 DEF StreamTypes
    <3>2. \A i \in 1..Len(d) : d[i] = wrote["stdout"][i]
      BY <2>2 DEF Flow
    <3>3. \A i \in 1..Total : d[i] = i
      BY <2>1, <3>1, <3>2
    <3> HIDE DEF d
    <3>4. d = [i \in 1..Total |-> d[i]]
      BY <3>1
    <3>5. d = [i \in 1..Total |-> i]
      BY <3>3, <3>4
    <3>6. QED
      BY <3>5 DEF d
  <2>6. \A s \in Streams : rd[s] # "read"
    BY <2>1, <2>3 DEF Streams
  <2>7. QED
    BY <1>4, <1>6, <2>1, <2>3, <2>5, <2>6 DEF CommandComplete
<1>7. QED
  BY <1>5, <1>6

\* Run of System, and Close of cmdWriter and cmdReader, return when the process and
\* the goroutines of its pipes have ended and nothing of the output is missing; a
\* result written or read without an error is complete, for every command, every
\* length of result and of pipe, and wherever a step fails.
THEOREM CommandCompleteAlways == Spec => []CommandComplete
BY CommandCorrect, InvComplete, PTL
====
