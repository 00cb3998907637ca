------------------------------ MODULE Pipeline ------------------------------
(* The report pipeline of antler (report.go, error.go): one goroutine per  *)
(* reporter, joined by buffered channels, with what feeds it and what      *)
(* takes its output.  It is run twice for a Test: while the Test runs,     *)
(* fed by node.Do and with an output that is drained (doRun.run), and      *)
(* after it, fed by readData and with an output that a tee sends to the    *)
(* multiReporters (doRun.Test, doReport.Test).                             *)
(* A data item is known by its kind and, if it is of a file, by its name;  *)
(* id tells items apart.                                                   *)
(* No name of it is a name of Node, so that one module can extend both.    *)
EXTENDS Naturals, Sequences, FiniteSets, Functions

SeqExt == INSTANCE SequencesExt   \* whose Remove is also an action of Node

CONSTANTS
    Pipelines,   \* the pipelines to run, see below
    Cap          \* dataChanBufLen

Kinds == {"SaveFiles", "EmitLog", "Encode", "EmitStreamStats", "Analyze",
          "writeData", "readData"}

\* Of a pipeline: the reporters; the data items that Do sends, or that the data
\* file has; the number of multiReporters that want the Test; the names that
\* the patterns of Encode match; whether reporters may fail, and panic.
IsPipeline(p) ==
    /\ p.report \in Seq(Kinds) /\ Len(p.report) > 0
    /\ \A i \in DOMAIN p.report : p.report[i] = "readData" => i = 1
    /\ p.data \in Seq([kind : STRING \ {"none"}, name : STRING, id : Nat])
    /\ p.multi \in Nat
    /\ {p.fails, p.panics} \subseteq BOOLEAN

ASSUME PipelineAssumption ==
    /\ Cap \in Nat \ {0}
    /\ \A p \in Pipelines : IsPipeline(p)

VARIABLE pipe    \* the pipeline that runs

Report == pipe.report
Data == pipe.data
Multi == pipe.multi
Matched == pipe.matched
Fails == pipe.fails
Panics == pipe.panics

N == Len(Report)
Stages == 1..N
Reporters == 1..Multi
IsAfter == Report[1] = "readData"

FileRef(name) == [kind |-> "FileRef", name |-> name, id |-> 0]
FileData(name) == [kind |-> "FileData", name |-> name, id |-> 0]
Analysis == [kind |-> "analysis", name |-> "-", id |-> 0]
Error == [kind |-> "Error", name |-> "-", id |-> 0]

VARIABLES
    ch,       \* ch[i-1] is the in channel of stage i, ch[i] its out channel
    closed,   \* the channels that are closed
    pc,       \* what the goroutine of each stage does next
    hold,     \* the items that it is about to send
    mem,      \* what its reporter keeps
    src,      \* what Do has to send yet
    sent,     \* what Do has sent
    saved,    \* what writeData has written
    canceled, \* the Context is done
    merge,    \* the stages whose error a goroutine of mergeErr holds
    reported, \* the stages whose error the caller has got
    failed,   \* the stages that failed, by an error or a panic
    caller,   \* "range" over the error channel, then "done"
    tee,      \* the item that the tee holds, and the multiReporter it is for
    dc,       \* the channels of the multiReporters
    dcClosed, \* they are closed
    mpc,      \* what each multiReporter does next
    out,      \* what came out of the pipeline
    read,     \* what each multiReporter has read
    whole     \* the multiReporters that read until their channel was closed

stageVars == <<ch, closed, pc, hold, mem, saved>>
errVars == <<merge, reported, failed, caller, canceled>>
teeVars == <<tee, dc, dcClosed, mpc, out, read, whole>>
pipeVars == <<pipe, stageVars, src, sent, errVars, teeVars>>

NoItem == [kind |-> "none", name |-> "-", id |-> 0]
NoMem == [names |-> {}, err |-> FALSE, rest |-> <<>>]
Sources == Stages \cup {N + j : j \in Reporters}

Items == Range(Data) \cup {FileRef(d.name) : d \in Range(Data)}
            \cup {Analysis, Error, FileData("stats"), FileRef("stats")}

Mem == [names : SUBSET {d.name : d \in Items}, err : BOOLEAN, rest : Seq(Items)]

StagesOK ==
    /\ ch \in [0..N -> Seq(Items)] /\ \A i \in 0..N : Len(ch[i]) <= Cap
    /\ closed \subseteq 0..N
    /\ pc \in [Stages -> {"report", "error", "drain", "panicking", "close",
                          "closePanic", "recover", "done"}]
    /\ hold \in [Stages -> Seq(Items)] /\ mem \in [Stages -> Mem]
    /\ saved \in Seq(Items)

ErrorsOK ==
    /\ merge \subseteq Sources /\ reported \subseteq Sources /\ failed \subseteq Sources
    /\ caller \in {"range", "done"} /\ canceled \in BOOLEAN

TeesOK ==
    /\ tee \in [item : Items \cup {NoItem}, to : 0..Multi]
    /\ dc \in [Reporters -> Seq(Items)] /\ \A j \in Reporters : Len(dc[j]) <= Cap
    /\ dcClosed \in BOOLEAN /\ whole \subseteq Reporters
    /\ mpc \in [Reporters -> {"report", "error", "drain", "done"}]
    /\ out \in Seq(Items) /\ read \in [Reporters -> Seq(Items)]

PipeTypeOK ==
    /\ pipe \in Pipelines
    /\ StagesOK /\ ErrorsOK /\ TeesOK
    /\ src \in Seq(Items) /\ sent \in Seq(Items)

PipeInit ==
    /\ pipe \in Pipelines
    /\ ch = [i \in 0..N |-> <<>>]
    /\ closed = IF IsAfter THEN {0} ELSE {}
    /\ pc = [i \in Stages |-> "report"]
    /\ hold = [i \in Stages |-> <<>>]
    /\ mem = [i \in Stages |->
                IF Report[i] = "readData" THEN [NoMem EXCEPT !.rest = Data]
                ELSE NoMem]
    /\ src = IF IsAfter THEN <<>> ELSE Data
    /\ sent = <<>> /\ saved = <<>> /\ canceled = FALSE
    /\ merge = {} /\ reported = {} /\ failed = {} /\ caller = "range"
    /\ tee = [item |-> NoItem, to |-> 0]
    /\ dc = [j \in Reporters |-> <<>>] /\ dcClosed = FALSE
    /\ mpc = [j \in Reporters |-> "report"]
    /\ out = <<>> /\ read = [j \in Reporters |-> <<>>] /\ whole = {}

-----------------------------------------------------------------------------
(* The reporters.  A reporter takes an item d and has some items to send,  *)
(* then goes on, or returns an error or nil.  An outcome is [out, mem,     *)
(* next], where next is "report", "error" or "drain".                      *)

Outcome(o, m, n) == [out |-> o, mem |-> m, next |-> n]
OrFail(S, o, m) == S \cup (IF Fails THEN {Outcome(o, m, "error")} ELSE {})

\* SaveFiles with Consume: a FileRef goes before the first FileData of a file.
SaveFiles(m, d) ==
    IF d.kind # "FileData" THEN {Outcome(<<d>>, m, "report")}
    ELSE LET m1 == [m EXCEPT !.names = @ \cup {d.name}]
             o == IF d.name \in m.names THEN <<>> ELSE <<FileRef(d.name)>>
         IN OrFail({Outcome(o, m1, "report")}, o, m1)

\* EmitLog, and EmitSysInfo likewise, forward the item before they write it.
EmitLog(m, d) ==
    LET o == {Outcome(<<d>>, m, "report")}
    IN IF d.kind = "LogEntry" THEN OrFail(o, <<d>>, m) ELSE o

\* A FileRef that Encode does not match, or fails to encode, is not forwarded.
Encode(m, d) ==
    IF d.kind # "FileRef" THEN {Outcome(<<d>>, m, "report")}
    ELSE LET o == IF d.name \in Matched THEN <<d>> ELSE <<>>
         IN OrFail({Outcome(o, m, "report")}, <<>>, m)

\* EmitStreamStats returns once it has seen the analysis.
EmitStreamStats(m, d) ==
    IF d.kind # "analysis" THEN {Outcome(<<d>>, m, "report")}
    ELSE OrFail({Outcome(<<d, FileData("stats")>>, m, "drain")}, <<d>>, m)

Analyze(m, d) == {Outcome(<<d>>, m, "report")}

\* Mutant: errors in the data are not looked for.
writeDataIgnores(m, d) ==
    OrFail({Outcome(<<>>, m, "report")}, <<>>, m)

\* The first error in the data is kept until all of it is saved.
writeData(m, d) ==
    OrFail({Outcome(<<>>, [m EXCEPT !.err = @ \/ d.kind = "Error"], "report")},
           <<>>, m)

React(k, m, d) ==
    CASE k = "SaveFiles" -> SaveFiles(m, d)
      [] k = "EmitLog" -> EmitLog(m, d)
      [] k = "Encode" -> Encode(m, d)
      [] k = "EmitStreamStats" -> EmitStreamStats(m, d)
      [] k = "Analyze" -> Analyze(m, d)
      [] k = "writeData" -> writeData(m, d)

\* What a reporter does when its in channel is closed: the deferred Close of
\* the writers may fail.
AtEnd(k, m) ==
    CASE k = "Analyze" -> {Outcome(<<Analysis>>, m, "drain")}
      [] k = "EmitStreamStats" ->
            OrFail({Outcome(<<FileData("stats")>>, m, "drain")}, <<>>, m)
      [] k = "writeData" ->
            IF m.err THEN {Outcome(<<>>, m, "error")}
            ELSE OrFail({Outcome(<<>>, m, "drain")}, <<>>, m)
      [] k = "Encode" -> {Outcome(<<>>, m, "drain")}
      [] OTHER -> OrFail({Outcome(<<>>, m, "drain")}, <<>>, m)

-----------------------------------------------------------------------------
(* The goroutine of a stage: report, then what is left of in is forwarded, *)
(* then out is closed, and a panic is recovered.                           *)

Idle(i) == hold[i] = <<>>
In(i) == ch[i - 1]
EndOfIn(i) == In(i) = <<>> /\ i - 1 \in closed
Takes(i) == Report[i] # "readData"

Do(i, o) ==
    /\ hold' = [hold EXCEPT ![i] = o.out]
    /\ mem' = [mem EXCEPT ![i] = o.mem]
    /\ pc' = [pc EXCEPT ![i] = o.next]
    /\ failed' = IF o.next = "error" THEN failed \cup {i} ELSE failed

Receive(i) ==
    /\ pc[i] = "report" /\ Idle(i) /\ Takes(i) /\ In(i) # <<>>
    /\ ch' = [ch EXCEPT ![i - 1] = Tail(@)]
    /\ \E o \in React(Report[i], mem[i], Head(In(i))) :
          /\ Do(i, o)
          /\ saved' = IF Report[i] = "writeData" /\ o.next = "report"
                      THEN Append(saved, Head(In(i))) ELSE saved
    /\ UNCHANGED <<closed, src, sent, merge, reported, caller, canceled, teeVars>>

\* A panic in the reporter loses the item.
Panic(i) ==
    /\ Panics /\ pc[i] = "report" /\ Idle(i) /\ Takes(i) /\ In(i) # <<>>
    /\ ch' = [ch EXCEPT ![i - 1] = Tail(@)]
    /\ pc' = [pc EXCEPT ![i] = "panicking"]
    /\ failed' = failed \cup {i}
    /\ UNCHANGED <<closed, hold, mem, saved, src, sent, merge, reported, caller,
                   canceled, teeVars>>

End(i) ==
    /\ pc[i] = "report" /\ Idle(i) /\ Takes(i) /\ EndOfIn(i)
    /\ \E o \in AtEnd(Report[i], mem[i]) : Do(i, o)
    /\ UNCHANGED <<ch, closed, saved, src, sent, merge, reported, caller, canceled,
                   teeVars>>

\* readData, or rangeData: after each item it looks at the Context.
ReadData(i) ==
    /\ pc[i] = "report" /\ Idle(i) /\ Report[i] = "readData"
    /\ LET m == mem[i]
       IN \E o \in IF canceled /\ m.rest # Data
                   THEN {Outcome(<<>>, m, "error")}
                   ELSE IF m.rest = <<>> THEN {Outcome(<<>>, m, "drain")}
                   ELSE OrFail({Outcome(<<Head(m.rest)>>,
                                        [m EXCEPT !.rest = Tail(@)], "report")},
                               <<>>, m) : Do(i, o)
    /\ UNCHANGED <<ch, closed, saved, src, sent, merge, reported, caller, canceled,
                   teeVars>>

Send(i) ==
    /\ ~Idle(i) /\ Len(ch[i]) < Cap
    /\ ch' = [ch EXCEPT ![i] = Append(@, Head(hold[i]))]
    /\ hold' = [hold EXCEPT ![i] = Tail(@)]
    /\ UNCHANGED <<closed, pc, mem, saved, src, sent, errVars, teeVars>>

\* The error goes to the goroutine of mergeErr for this stage.
SendError(i) ==
    /\ pc[i] \in {"error", "recover"} /\ Idle(i)
    /\ merge' = merge \cup {i}
    /\ pc' = [pc EXCEPT ![i] = IF @ = "error" THEN "drain" ELSE "done"]
    /\ UNCHANGED <<ch, closed, hold, mem, saved, src, sent, reported, failed, caller,
                   canceled, teeVars>>

\* Mutant: a stage that returned leaves its in channel alone.
DrainNot(i) ==
    /\ pc[i] \in {"drain", "panicking"} /\ Idle(i)
    /\ pc' = [pc EXCEPT ![i] = IF @ = "drain" THEN "close" ELSE "closePanic"]
    /\ UNCHANGED <<ch, closed, hold, mem, saved, src, sent, errVars, teeVars>>

\* Mutant: it discards what is in there.
DrainDiscard(i) ==
    /\ pc[i] \in {"drain", "panicking"} /\ Idle(i)
    /\ \/ /\ In(i) # <<>>
          /\ ch' = [ch EXCEPT ![i - 1] = Tail(@)]
          /\ UNCHANGED pc
       \/ /\ EndOfIn(i)
          /\ pc' = [pc EXCEPT ![i] = IF @ = "drain" THEN "close"
                                     ELSE "closePanic"]
          /\ UNCHANGED ch
    /\ UNCHANGED <<closed, hold, mem, saved, src, sent, errVars, teeVars>>

Drain(i) ==
    /\ pc[i] \in {"drain", "panicking"} /\ Idle(i)
    /\ \/ /\ In(i) # <<>>
          /\ ch' = [ch EXCEPT ![i - 1] = Tail(@)]
          /\ hold' = [hold EXCEPT ![i] = <<Head(In(i))>>]
          /\ UNCHANGED pc
       \/ /\ EndOfIn(i)
          /\ pc' = [pc EXCEPT ![i] = IF @ = "drain" THEN "close"
                                     ELSE "closePanic"]
          /\ UNCHANGED <<ch, hold>>
    /\ UNCHANGED <<closed, mem, saved, src, sent, errVars, teeVars>>

CloseOut(i) ==
    /\ pc[i] \in {"close", "closePanic"}
    /\ closed' = closed \cup {i}
    /\ pc' = [pc EXCEPT ![i] = IF @ = "close" THEN "done" ELSE "recover"]
    /\ UNCHANGED <<ch, hold, mem, saved, src, sent, errVars, teeVars>>

-----------------------------------------------------------------------------
(* What feeds the pipeline: node.Do sends the data and closes its channel. *)
(* When the Context is canceled it sends no more than a part of the rest,  *)
(* and an Error if a runner returns one or the node does: contextDone is   *)
(* only logged, Sleep and Schedule then return no error, and Do does not   *)
(* look at the OK of the main Run.                                         *)

DoSend ==
    /\ src # <<>> /\ Len(ch[0]) < Cap
    /\ ch' = [ch EXCEPT ![0] = Append(@, Head(src))]
    /\ sent' = Append(sent, Head(src))
    /\ src' = Tail(src)
    /\ UNCHANGED <<closed, pc, hold, mem, saved, errVars, teeVars>>

DoCanceled ==
    /\ canceled /\ 0 \notin closed /\ Error \notin Range(src \o sent)
    /\ \E n \in 0..Len(src), e \in {<<>>, <<Error>>} : src' = SubSeq(src, 1, n) \o e
    /\ UNCHANGED <<stageVars, sent, errVars, teeVars>>

DoClose ==
    /\ src = <<>> /\ 0 \notin closed
    /\ closed' = closed \cup {0}
    /\ UNCHANGED <<ch, pc, hold, mem, saved, src, sent, errVars, teeVars>>

\* A signal, or the Timeout of the Test.
PipeInterrupt ==
    /\ ~canceled /\ caller = "range"
    /\ canceled' = TRUE
    /\ UNCHANGED <<stageVars, src, sent, merge, reported, failed, caller, teeVars>>

-----------------------------------------------------------------------------
(* What takes the output: a goroutine that drains it, or the tee goroutine *)
(* of multiRunner, which sends each item to each multiReporter in turn.    *)

EndOfOut == ch[N] = <<>> /\ N \in closed

OutTake ==
    /\ ch[N] # <<>> /\ tee.item = NoItem
    /\ ch' = [ch EXCEPT ![N] = Tail(@)]
    /\ out' = Append(out, Head(ch[N]))
    /\ tee' = IF Multi = 0 THEN tee ELSE [item |-> Head(ch[N]), to |-> 1]
    /\ UNCHANGED <<closed, pc, hold, mem, saved, src, sent, errVars, dc, dcClosed,
                   mpc, read, whole>>

TeeSend ==
    /\ tee.item # NoItem /\ Len(dc[tee.to]) < Cap
    /\ dc' = [dc EXCEPT ![tee.to] = Append(@, tee.item)]
    /\ tee' = IF tee.to < Multi THEN [tee EXCEPT !.to = @ + 1]
              ELSE [item |-> NoItem, to |-> 0]
    /\ UNCHANGED <<stageVars, src, sent, errVars, dcClosed, mpc, out, read, whole>>

TeeClose ==
    /\ EndOfOut /\ tee.item = NoItem /\ Multi > 0 /\ ~dcClosed
    /\ dcClosed' = TRUE
    /\ UNCHANGED <<stageVars, src, sent, errVars, tee, dc, mpc, out, read, whole>>

\* A multiReporter reads some of its items, or all, and returns; what it has
\* not read is drained.
MultiRead(j) ==
    /\ mpc[j] = "report" /\ dc[j] # <<>>
    /\ read' = [read EXCEPT ![j] = Append(@, Head(dc[j]))]
    /\ dc' = [dc EXCEPT ![j] = Tail(@)]
    /\ UNCHANGED <<stageVars, src, sent, errVars, tee, dcClosed, mpc, out, whole>>

MultiReturn(j) ==
    /\ mpc[j] = "report"
    /\ whole' = IF dc[j] = <<>> /\ dcClosed THEN whole \cup {j} ELSE whole
    /\ \/ mpc' = [mpc EXCEPT ![j] = "drain"] /\ UNCHANGED failed
       \/ /\ Fails
          /\ mpc' = [mpc EXCEPT ![j] = "error"]
          /\ failed' = failed \cup {N + j}
    /\ UNCHANGED <<stageVars, src, sent, merge, reported, caller, canceled, tee, dc,
                   dcClosed, out, read>>

\* Mutant: the error of a multiReporter is dropped.
MultiErrorNot(j) ==
    /\ mpc[j] = "error"
    /\ mpc' = [mpc EXCEPT ![j] = "drain"]
    /\ UNCHANGED <<stageVars, src, sent, errVars, tee, dc, dcClosed, out, read,
                   whole>>

MultiError(j) ==
    /\ mpc[j] = "error"
    /\ merge' = merge \cup {N + j}
    /\ mpc' = [mpc EXCEPT ![j] = "drain"]
    /\ UNCHANGED <<stageVars, src, sent, reported, failed, caller, canceled, tee, dc,
                   dcClosed, out, read, whole>>

MultiDrain(j) ==
    /\ mpc[j] = "drain"
    /\ \/ dc[j] # <<>> /\ dc' = [dc EXCEPT ![j] = Tail(@)] /\ UNCHANGED mpc
       \/ /\ dc[j] = <<>> /\ dcClosed
          /\ mpc' = [mpc EXCEPT ![j] = "done"]
          /\ UNCHANGED dc
    /\ UNCHANGED <<stageVars, src, sent, errVars, tee, dcClosed, out, read, whole>>

-----------------------------------------------------------------------------
(* mergeErr and the caller, which ranges over the merged channel.  The     *)
(* nested calls of mergeErr pass an error on; they are one step here.      *)

\* Mutant: the merged channel is closed by the first stage that is done.
AllDoneFirst ==
    /\ \E i \in Stages : pc[i] = "done"
    /\ merge = {}

\* All error channels are closed.
AllDone ==
    /\ \A i \in Stages : pc[i] = "done"
    /\ IF Multi = 0 THEN EndOfOut ELSE \A j \in Reporters : mpc[j] = "done"
    /\ merge = {}

\* doRun.run cancels the Context of Do with the error.
CallerGets(i) ==
    /\ caller = "range" /\ i \in merge
    /\ merge' = merge \ {i}
    /\ reported' = reported \cup {i}
    /\ canceled' = (canceled \/ ~IsAfter)
    /\ UNCHANGED <<stageVars, src, sent, failed, caller, teeVars>>

CallerDone ==
    /\ caller = "range" /\ AllDone
    /\ caller' = "done"
    /\ UNCHANGED <<stageVars, src, sent, merge, reported, failed, canceled, teeVars>>

Stage(i) ==
    \/ Receive(i) \/ Panic(i) \/ End(i) \/ ReadData(i)
    \/ Send(i) \/ SendError(i) \/ Drain(i) \/ CloseOut(i)

Step ==
    \/ \E i \in Stages : Stage(i)
    \/ DoSend \/ DoCanceled \/ DoClose \/ PipeInterrupt
    \/ OutTake \/ TeeSend \/ TeeClose
    \/ \E j \in Reporters :
          MultiRead(j) \/ MultiReturn(j) \/ MultiError(j) \/ MultiDrain(j)
    \/ \E i \in Sources : CallerGets(i)
    \/ CallerDone

PipeNext == (Step /\ UNCHANGED pipe) \/ (caller = "done" /\ UNCHANGED pipeVars)

PipeSpec == PipeInit /\ [][PipeNext]_pipeVars

\* The Go scheduler runs a goroutine that can run; a multiReporter returns when
\* its channel is closed.
PipeFairSpec == PipeSpec /\ WF_pipeVars(PipeNext)

-----------------------------------------------------------------------------
(* The reference: what goes in at a stage if every stage before it had the *)
(* data as a whole and no failure.                                         *)

Saving(s) ==
    SeqExt!FlattenSeq([i \in DOMAIN s |->
        IF s[i].kind # "FileData" THEN <<s[i]>>
        ELSE IF \E j \in 1..(i - 1) :
                   s[j].kind = "FileData" /\ s[j].name = s[i].name THEN <<>>
        ELSE <<FileRef(s[i].name)>>])

Emitting(s) ==
    LET I == {i \in DOMAIN s : s[i] = Analysis}
        n == IF I = {} THEN Len(s) ELSE CHOOSE i \in I : \A j \in I : i <= j
    IN SubSeq(s, 1, n) \o <<FileData("stats")>> \o SubSeq(s, n + 1, Len(s))

Through(k, s) ==
    CASE k = "SaveFiles" -> Saving(s)
      [] k = "Encode" ->
            SelectSeq(s, LAMBDA d : d.kind = "FileRef" => d.name \in Matched)
      [] k = "EmitStreamStats" -> Emitting(s)
      [] k = "Analyze" -> Append(s, Analysis)
      [] k = "writeData" -> <<>>
      [] OTHER -> s

InOf[i \in 1..(N + 1)] ==
    IF i > 1 THEN Through(Report[i - 1], InOf[i - 1])
    ELSE IF IsAfter THEN Data ELSE sent

-----------------------------------------------------------------------------
(* Properties.                                                             *)

Logs(s) == SelectSeq(s, LAMBDA d : d.kind = "LogEntry")

\* If the caller gets no error, then all data that Do sent, or the file has, has
\* gone through every reporter, in order: it is saved as a whole and has no Error
\* in it, and the multiReporters that read until the end have read the whole
\* output.  A reporter that returns early, full channels, and cancellation once
\* the data is sent, lose nothing silently; what Do does not send at all, after
\* cancel, may be missed without an error.  And a reporter that returns with an
\* error takes nothing from the ones after it: every log entry that Do sent is
\* saved, in order, unless writeData itself failed or a stage panicked.
CompleteOrError ==
    caller = "done" =>
       /\ reported = {} =>
             /\ Report[N] = "writeData" => saved = InOf[N] /\ Error \notin Range(sent)
             /\ out = InOf[N + 1]
             /\ \A j \in whole : read[j] = out
       /\ ~IsAfter /\ ~canceled => sent = Data
       /\ ~Panics /\ ~IsAfter =>
             \/ Logs(saved) = Logs(sent)
             \/ \E i \in failed : Report[i] = "writeData" /\ ~mem[i].err

\* When the pipeline is done nothing is left to run: the channels are closed
\* and empty, so no goroutine of it waits forever and Do is free to end.  And an
\* error or a panic of any stage or multiReporter has reached the caller before
\* the error channel was closed.
NothingLeft ==
    caller = "done" =>
       /\ reported = failed
       /\ closed = 0..N /\ \A i \in 0..N : ch[i] = <<>>
       /\ src = <<>>
       /\ tee.item = NoItem /\ \A j \in Reporters : dc[j] = <<>>

-----------------------------------------------------------------------------
(* The inductive invariant behind NothingLeft, in parts.                   *)

\* A stage closes its out channel when its in channel is closed and empty, and
\* it has nothing to send; then that stays so, for Do too.
Channels ==
    /\ 0 \in closed => src = <<>>
    /\ \A i \in Stages : i \in closed <=> pc[i] \in {"recover", "done"}
    /\ \A i \in Stages : pc[i] \in {"close", "closePanic", "recover", "done"} =>
                          Idle(i) /\ EndOfIn(i)

\* A failure is on its way to the caller, or has got there.
Failing(i) == pc[i] \in {"error", "panicking", "closePanic", "recover"}

Errors ==
    /\ merge \cup reported \subseteq failed
    /\ \A i \in Stages : Failing(i) => i \in failed
    /\ \A i \in Stages : i \in failed => i \in merge \cup reported \/ Failing(i)
    /\ \A j \in Reporters : mpc[j] = "error" => N + j \in failed
    /\ \A j \in Reporters : N + j \in failed => N + j \in merge \cup reported \/ mpc[j] = "error"

\* The item that the tee still has to send to multiReporter j.
ToSend(j) == IF tee.item # NoItem /\ tee.to <= j THEN <<tee.item>> ELSE <<>>

\* The tee closes its channels when the output is at its end, and a multiReporter
\* that is still reading has read what came out, but for what is on its way.
Tees ==
    /\ tee.item # NoItem => tee.to \in Reporters
    /\ dcClosed => EndOfOut /\ tee.item = NoItem
    /\ \A j \in Reporters : mpc[j] = "done" => dc[j] = <<>> /\ dcClosed
    /\ \A j \in Reporters : mpc[j] = "report" => read[j] \o dc[j] \o ToSend(j) = out
    /\ \A j \in whole : dcClosed /\ mpc[j] # "report" /\ read[j] = out

\* The parts together: what holds of the goroutines of a pipeline in every state,
\* and once the caller is done, that all of them are.
PipelineInv ==
    /\ PipeTypeOK /\ Channels /\ Errors /\ Tees
    /\ caller = "done" => AllDone

-----------------------------------------------------------------------------
\* The pipeline is done in the end, whatever its reporters do.
PipelineEnds == <>(caller = "done")
============================================================================
