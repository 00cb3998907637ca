# TLA+ models of antler

Antler runs network tests.  A configuration (CUE) lists *Tests*; each Test is a
tree of *Runs*, executed on *nodes*: processes that antler launches locally, in
network namespaces or over SSH, and that launch further nodes.  Nodes talk to
their parent over a transport; results stream back to the antler process, pass
through a pipeline of reporters, and end up in dated result directories.

These modules model the parts of antler in which goroutines, processes and
failures interleave, and in which a test can hardly provoke the order that goes
wrong.  TLC checks them on small instances.  TLAPS proves their safety, and that a node
keeps its promise to its parent, for every value of the constants: any number of
instances, clients, nodes, reporters or Runs, and data of any length.

## 1. The system

| Part | Source | State | Operations | Where it is hard |
|---|---|---|---|---|
| conn | `node/conn.go`, `proto.go`, `transport.go`, `result.go` | mutex, `rpc` table, `tq`, buffer, `tx`, count of I/O goroutines | `Run`, `Send`, `Stream`, `Cancel`, `Canceled`; goroutines `send`, `receive`, `buffer`; `ioDone` | four goroutines and one mutex; closing channels that others send on; a peer that ends or fails first; results held back and released |
| node | `node/node.go`, `proto.go` | `state`, the flags of `advance`, canceler stack | event handlers, `advance`, `handleRuns`, `waitContext`, `setup.Run` | one event loop on an unbuffered channel; order of cancelation; late Runs, late launches, panics |
| child cache | `node/conn.go` | map of conns under its mutex | `Launch`, `Get`, `Delete`, `Count`, `Cancel` | launch racing cancel |
| socket samplers | `node/sockdiag.go` | samplers by interval, addresses in use | `Add`, `Remove`, `Stop`, `sample` | the event loop waits for a goroutine that sends it events |
| run tree | `node/run.go`, `tree.go`, `sleep.go` | started Runs, timers, results | `Serial`, `Parallel`, `Schedule`, `ClosedLoopActor`, `Random`, `Child` | results and timers that fire together; failures in the middle of a list; cancel |
| executables and launchers | `node/launch*.go` | `fileRef`, sources, temporary directory, closer stack | `File`, `Close`, `AddSource`, `newExes`, `addNetns`, `launch` | processes that share a directory; failure after each step of several |
| pipeline | `report.go`, `error.go`, `antler.go` | channels, drains, error merge, tee | reporters, `pipeline.report`, `mergeErr`, `multiRunner.tee` | a stage that returns early, fails or panics while others block on full channels |
| results | `results.go`, `antler.go`, `test.go`, `index.go` | work directory (a lock), results, links, `resultStat` | `open`, `Reader`/`Writer`, `Link`, `Remove`, `Close`, `Abort`; `RunCommand`, `ReportCommand` | two instances; kill at any point; hard links that share contents; names by the second |
| commands and codecs | `node/system.go`, `results.go` | pipes, the goroutines that read and fill them | `System.Run`; `cmdReader`, `cmdWriter` | a process between two full pipes; `Wait` that closes them; early `Close`; a full disk |
| streams | `node/stream.go` | connections, bytes sent and received, count of goroutines | `StreamServer.Run`, `serve`, `StreamClient.Run`, `Transfer.send`, `receive` | reads cut anywhere; cancel on either side; a dead network |
| packets | `node/packet.go` | timer queue, senders, flows, duplicates | `PacketClient.Run`, `read`, `Unresponsive.send`, `PacketServer.start` | loss, duplication, reordering; late timers |
| process monitor | `node/procmonitor.go` | samples of `/proc` files | `Run`, `monitorLoop` | to `Node`, a Run that leaves a canceler |
| pure logic | `test.go`, `filter.go`, `analysis.go`, `node/metric` | none | matching, validation, statistics | no state |

They interact as follows.  `RunCommand` and `ReportCommand` open the results
(`Results`), and for each Test run a pipeline (`Pipeline`) that is fed by
`node.Do` or by a data file.  `Do` starts a node in the antler process: its event
loop (`Node`) gets events from its conns (`Conn`), whose final messages end a
session.  `setup` launches child nodes (`Launch`).  A Run that the node accepts
is executed as a tree of goroutines (`RunTree`), which call children over their
conns.  Every module takes its neighbours as an environment that does what the
neighbour's module shows of it:

* `Node` uses of a conn only what `Conn` establishes: a `Send` returns, a Run is
  answered once, a canceled conn whose peer has ended comes to `connDone`.
* `Conn` uses of the event channel that it is served: `TakeEvent` (while the
  owner is not itself in a call of that conn).
* `RunTree` uses of `Node` that an `errorEvent` is taken and leads to cancel, and of
  a runner that it returns once the context is done: `StreamEnds`, `ClientsEnd` and
  `CommandEnds` show this of the runners that wait for something.
* `Results` takes a codec to leave the whole file or an error: `CommandComplete`.
* `Pipeline` uses of `Do` that it sends data until it is done or canceled;
  `Results` uses of `Pipeline` that an error of a reporter is returned.

What makes each part correct is stated in section 3, and `PROJECT.json` lists,
under "hazards", the lines where it might go wrong.

## 2. The modules

Every action carries the name of the code it stands for where that is possible,
and `PROJECT.json` maps each definition to its lines.  Payloads are reduced to
what the properties tell apart.  Operators with names such as `SendEndsEarly`
or `LinkDataOnly`, next to a definition, are faulty variants of it: each shows
that some property would notice such a bug, and no specification uses them.

### Conn, ConnProofs
One endpoint of a connection.  A caller takes the mutex and passes a message
to the buffer goroutine in two steps (`Lock`, `BufferRecv`), so that others may
come between; `Drop` is the early return on a canceled conn.  `buffer` is
`BufferRecv`, `BufferTx`, `BufferExit`, and `Refilter` for what a new
`ResultStream` releases; `send` is `SendMessage`, `SendError`, `Drain`,
`SendEnds`; `receive` is `ReceiveMessage`, `ReceiveFinal`, `ReceiveError` with the
handlers `HandleRan` and `HandleCanceled`.  Both goroutines end in
`IoDone`, where the last one fails the open RPCs, closes `tq` and the transport,
and reports `connDone`.  The transport may take, deliver or fail at every step.

### Node, NodeService, NodeProofs
One node: the event loop (`Handle...`, then `Advance` with `EnterCancel`,
`StopSamplers`, `CancelChildren`, `EnterCanceled`, `EnterDone`) and everything
that sends it events.  An event handed over on the unbuffered channel is
one step of both sides.  A Run goes through
launching, calls of children, sampling, leaving cancelers, failing, and
returning; a panic is recovered, or not if it is in a goroutine of its own
(`Nested`), in which case the process is gone (`state = "crashed"`).
A server, and the watcher of a client, leaves goroutines behind that send when the Run
has returned, and even after its canceler has (`Background`, `SendLate`; they sample too).
`lost` records by kind what `parent.Send` drops since the conn is canceled, and
`loop = "blocked"` is an event loop that waits for the mutex of the parent conn while
that conn waits for the loop (see 6).
A `conf`, chosen in `Init`, says which children setup launches, to which nodes the
transports may fail, and which Runs leave goroutines in the background.
`NodeService` is the abstract promise to the parent: a Run is accepted and
answered, or refused; the final message comes when nothing is open; then the node
is done.  `KeepsPromise` is the refinement, with the mapping `Phase` and `Fate`.

### RunTree, RunTreeProofs
A tree of Runs on one node.  The goroutine of each Run is in
`idle`, `run`, `error` (a runner's error event on its way), `done` (returned)
or `joined` (its result was received).  There is one action for each case of each
select: a started Run, a timer, a result, the context.  Durations are timers
that may fire at any time, which allows every order that real durations can
produce, and some that they cannot.  `Search` and `Cumulative` are `Random`'s
weighted choice, for every value that may be drawn.  `buildTree` gives, for each
Run, the paths of nodes that the tree below it needs, as a function on the indices
of the Runs (a Run comes before those it lists); `NewTree` is that of the root, the
nodes that `setup` launches.

### Launch, LaunchProofs
Processes that launch nodes from one temporary directory.  `File`,
`AddNetns`, `StartCmd` are the steps of `Local.launch`, each of which may fail,
and `CloserNetns`, `CloserExe` unwind the closer stack in reverse.  The
reference counts are per process, the files are shared, and any process may extract any
platform that it has a source for: those with several extractors are in `shared`.  A node
ends when its children are gone (`Exit`), or crashes at any time (`Crash`): then
its closers do not run, and its children go on for a while.  `left` and `stale` have the
files and namespaces that failures and crashes leave, `untidy` says that there was one.
An executable that is being run cannot be written to.  One Test follows another, when the
nodes of the last one are gone, orphans included.

### Pipeline (proofs in NodeProofs)
One goroutine per reporter, joined by channels of capacity `Cap`.  `Receive` runs a
reporter on one item (`React`); `End`, `SendError`, `Drain` and `CloseOut` are
the end of its goroutine in `pipeline.report`, in that order; `Panic` may happen in
any stage.  `mergeErr` is the set `merge`; `tee` and the `Multi...` actions are
`multiRunner`.  `InOf` is the reference: what should reach each stage if the
data was passed through the stages as a whole, one after the other.

### Results, ResultsProofs
Antler processes on one file system.  A file is a link to an inode, so that
a write into a linked file would be seen in the older result too.
Operations in the work directory, which belongs to the one holder of the lock, are
one step; every system call on a shared path (`Mkdir`, `Rename`, `Symlink`,
`Relink`, `RemoveAll`, `RemoveRoot`) is a step of its own, before and after
which another process may run, or this one may be killed (`Crash`).  `TestRun`,
`TestLinked`, `TestSkipped`, `TestRunError` and the others are the outcomes of
`doRun.Test` and `doReport.Test`.

A `conf`, chosen in `Init`, says which instances there are, what the Tests are
like, and which faults may happen.

### Command, CommandProofs
One system command and the goroutines around it: `System`, or one of the codec
filters.  A pipe holds `PipeLen` chunks, a process that writes to a full one waits.
`Start`, `IOWait`, `Wait` are `System.Run` and its canceler, `ReadChunk`,
`ReadEnds`, `GatherLog` the goroutines of `handleOutput`; `WriterStart`, `Write`,
`CopyOut` are `cmdWriter`; `ReaderStart`, `Read`, `Drain`, `CopyIn`, `CopyInWrite` are
`cmdReader` with its `truncateReader`; `ErrC` and `CloseWaits` end both.  `exec.Cmd`
and the process are external, modelled from how they are used.

### Stream, StreamProofs
A `StreamServer` (the accept goroutine, the main goroutine with its count `g`, a
`serve` goroutine per connection), and `StreamClient`s with the goroutine that
closes the connection one second after cancel.  `Send`, `SendAck`, `Receive`,
`ReceiveAck` are the two halves of a `Transfer`; a connection is two queues of
bytes from which a read takes any part.  `Break` takes the network down: then only
the closing of one's own end is still noticed.  `dones` counts the deferred
functions of the accept goroutine, which run when `Accept` fails: that may be at any
time, and must be once the listener is closed.

### Packet, PacketProofs
`PacketClient`s with their timer queue (`Arm`, `Fire`, `LastWait`), their
`Unresponsive` senders (`Schedule`), and their read goroutine; the one
`PacketServer` they share (`Serve`, `Echoes`, `MainExits`); and a network
that loses a packet by never delivering it, reorders, and duplicates up to
`MaxDup`.  The server records a packet, and its Seq, before it writes the reply, and may fail
at the write (`Echo`).  `Times` is the reference for a sender's schedule: the sums `At` of its `Wait`s.

### MC modules
`MCConn`, `MCNode`, `MCResults`, `MCPipeline`, `MCRunTree`, `MCLaunch`, `MCCommand`,
`MCStream`, `MCPacket` give the
constants the values of the runs, and symmetry sets where the constants are
interchangeable and no liveness property is checked.

## 3. The runs

Sizes are distinct states.

| Run | Instance | Shows |
|---|---|---|
| `conn` | conn to a child; two callers, three calls, two data kinds, `tx` of capacity 1; 237 000 | `NoSendOnClosed`: nobody is sending on `tq` when it is closed.  `RunsAccounted`: each Run is waiting or answered, and answered once.  `FinalFlushes`, `KindsInOrder`: what was buffered goes out ahead of the final message, in order within a kind.  `ConnInv`: the inductive invariant of the proof.  `EndsAfterCancel`: the conn comes to its `connDone` |
| `node_safety` | setup, two children, a Run that samples and calls the children, whose transports may fail; the same with one child and the transport to the parent failing too; a Run that leaves goroutines in the background; 1 127 000 | `Quiescent`: when `canceled` is sent, no Run, canceler or child is left, and none of their replies, results and errors is dropped; only the log of a Run that comes too late is, and what background goroutines send; and where the event loop may block.  `SetupMeansReady`, while the context is not done, and `KeepsPromise`, the refinement.  `NodeInv`: the inductive invariant of the proof |
| `node_ends` | setup, one child, a Run, and a transport to the parent that may fail; 67 000 | `Ends`: a node that leaves `stateRun` gets to `stateDone`, but for a stranded child, or a transport to the parent that fails to close (both in 6) |
| `node_late_launch` | setup, one child | violated: `ChildrenCanceled`, see 6 |
| `node_stop` | a Run that samples | violated: `StopReturns`, see 6 |
| `results` | one instance and all commands, with four results of a Test with encoded files, and two of that and another Test, with or without a data file; kills and failing I/O, with three results of one instance and two, within a second, of two instances; 180 000 | `ResultsCoherent`: data, saved files, reports and index of a result belong together, whichever commands it comes from.  `ErrorsReRun`: a Test with an error is run again.  `EndsClean`: the lock is released and `latest` is the latest.  `OneWriter`: the work directory is a lock.  `NonDestructive`: a finished result never changes.  `ResultsInv`: the inductive invariant of the proof |
| `pipeline` | four pipelines: the default During pipeline, the same with panics, an After pipeline with a tee to two multiReporters, and one with Encode; channels of capacity 1; 680 000 | `CompleteOrError`: no data that `Do` sent, or the file has, is lost silently, nor by an error elsewhere.  `NothingLeft`: no goroutine, item or error is left.  `PipelineEnds`.  `PipelineInv`: the inductive invariant of the proof |
| `run_tree` | every list kind in every list kind, two timed lists in every list, `Random` of three with all weights 0..2, `Schedule` of three; 145 000 | `ReturnMeansDone`: nothing that was started still runs, and no failure is hidden.  `StartsInTurn`, with the weights of `Random`; `NodeLaunched`, `TreeEnds`.  `RunInv`: the inductive invariant of the proof |
| `launch` | three nodes of two platforms in any combination, up to three launches deep, with two extractors of a platform in some, any number of Tests, crashes of nodes; 587 000 | `ExeThere`: no executable in use is removed, but by a second process that extracts its platform, or below a node that crashed; no namespace is, and every node has the sources it must pass on.  `CleanedUp`: what is left when all nodes are gone is accounted for.  `LaunchInv`: the inductive invariant of the proof |
| `command` | every treatment of both streams, six chunks through pipes that hold one, lines that are too long, foreground and background; filters of three chunks, with a disk that is full at each point, closed at each point; 7 900 | `CommandComplete`: all output is recorded, and a file written or read without an error is whole.  `CommandEnds`.  `CommandInv`: the inductive invariant of the proof |
| `stream` | one client with Uploads and Downloads of three bytes (`BufLen` 2), by Duration, and by both; two clients with one byte each; both sides canceled at any time; the network may go down, and `Accept` fail; 389 000 | `TransferComplete`: a transfer that ends well on either side has arrived, and both sides recorded the same count.  `ServesWhileAccepting`: the server's count is right, and it serves, until `Accept` fails.  `StreamEnds`.  `StreamInv`: the inductive invariant of the proof |
| `packet` | one client with two senders whose packets interleave, or one that cycles through its waits; one for which reads, writes and the server fail; two with echoes, of one Flow and of two; losses and duplicates; cancel; 202 000 | `ScheduleKept`: no drift, no packet early, none left out.  `EchoedOnce`.  `ClientsEnd`.  `PacketInv`: the inductive invariant of the proof |

**Why the bounds are enough.**  For safety the proofs of section 5 remove the bounds, and the
runs show that the invariants are not vacuous: each action fires, and a fault in the code
breaks them.  For liveness, and for `CompleteOrError` of `Pipeline`, the bounds matter.
*Conn*: the races are between a caller, the canceler
and the two I/O goroutines; a third call allows a Run on either side of a
`Stream` or of a cancel, and a channel of capacity 1 is full and empty within a run.
*Node*: two children
are the least with which one leaves the cache while setup waits for the other.
Two Runs that share a sampler are covered by the proof only.  *Results*: three result
directories are a prior result, one linked from it, and one linked from that, and a fourth
may start from any of it; two
instances are enough for a lock.  *Pipeline*: three stages have a first, a
middle and a last one, and with capacity 1 three items fill every channel.
*RunTree*: a list's goroutines interact only with those of the Runs it lists
and of its parent, so two levels have all neighbours; three members are needed
for a timer to be set again while an earlier Run is still running.
*Launch*: with three levels a node passes on an executable that it neither runs
nor launches itself; antler and a node below it may extract one platform, and a node that
crashes may have a child, and that another.  *Command*: a command writes more than its pipes hold, to
both streams in turns, and three chunks fill both pipes of a filter and its copy
buffer.  *Stream*: a Length that is not a multiple of the buffer gives whole, partial and last
chunks; two connections are needed for one `serve` to end while another runs.
*Packet*: two senders with waits that coincide at some times and not at others,
and two clients that use the same sequence numbers.

`CHECK_DEADLOCK FALSE` is used where the system may rightly stop: a node that
is done, crashed, or (6) stuck, and an antler whose clock has reached
its bound.  The other runs check deadlock, with an explicit step that stutters in
a finished state where they have one.

## 4. Fairness

* **Conn**: weak fairness of each goroutine's own steps (Go's scheduler runs all
  runnable goroutines).  Strong fairness of `PeerEnds`: a peer that has been sent
  the final message, or to which nothing is sent any more, ends its side or the
  transport fails.  There is none for a peer that has no reason to end.
* **Node**: the event loop is fair to each source of events (senders on an
  unbuffered channel are queued in order, hence strong fairness of the
  handlers).  Runs return once the context is done (the contract of
  the `runner` interface), a canceled child ends, and the parent ends after
  it has been sent `canceled`.  `Sample` is strongly fair only towards its
  cancel channel: Go's `select` chooses among ready cases at random.
* **Pipeline**: weak fairness of `PipeNext` as a whole: no fairness among goroutines
  is needed for the pipeline to end.
* **RunTree**: errors are taken, an error leads to cancel, and once the context is
  done Runs step on.  `ActorCanceled` is strongly fair, since a ClosedLoopActor
  may choose its ready think timer instead each time it selects, though not
  forever.
* **Command**: a process goes on while it can, exits at its end, and ends when it is
  signaled; goroutines are weakly fair.  Nothing is assumed of a process that
  may fail.
* **Stream**: weak fairness of the goroutines of each connection and of the timer,
  strong fairness of the server's steps (its channels are unbuffered, and a select
  chooses among them), and both nodes are canceled in the end.  None for the network.
* **Packet**: time passes, the goroutines of a client run, and a read of a closed
  connection fails.  None for deliveries, nor for the server.
* **Results**, **Launch**: safety only.

## 5. What is proved

Eight modules of proofs, one for each of `Conn`, `Results`, `Stream`, `Launch`, `RunTree`,
`Command` and `Packet`, and `NodeProofs` for `Node` and `Pipeline`, show safety for all values
of the constants.  Each has the same shape.
An inductive invariant (`ConnInv`, `ResultsInv`...), stated part by part at the end of the
component's module and checked by its run, holds initially and is kept by each action;
every property follows from it.

| Theorem | Property | |
|---|---|---|
| `ConnCorrect` | `ConnInv` | for all callers, Runs, messages, kinds, ResultStreams and channel capacities |
| `ConnTypeCorrect` | `TypeOK` | `io` never drops below zero |
| `ConnNoSendOnClosed`, `ConnRunsAccounted`, `ConnFinalFlushes`, `ConnKindsInOrder` | the same without `Conn` | |
| `ResultsCorrect` | `ResultsInv` | for all instances, Tests, commands, kills and failures |
| `OneWriterAlways`, `ErrorsReRunAlways`, `ResultsCoherentAlways`, `EndsCleanAlways` | the same without `Always` | |
| `NonDestructiveAlways` | `NonDestructive` | an action property: no step changes a finished result |
| `StreamCorrect` | `StreamInv` | for all clients, Transfers and buffer sizes |
| `TransferCompleteAlways`, `ServesWhileAcceptingAlways` | the same without `Always` | wherever `Accept`, reads and writes fail |
| `LaunchCorrect` | `LaunchInv` | for all plans of any finite set of nodes, whoever extracts what and whichever nodes crash |
| `ExeThereAlways`, `CleanedUpAlways` | the same without `Always` | |
| `RunCorrect` | `RunInv` | for every tree that `Validate` accepts |
| `ReturnMeansDoneAlways`, `NodeLaunchedAlways` | the same without `Always` | |
| `StartsInTurnAlways` | `StartsInTurn` | an action property: what a list may start, and when |
| `SearchCorrect` | | the binary search of `Random`, for weights of any length |
| `CommandCorrect` | `CommandInv` | for all commands, treatments, results and lengths of pipes |
| `CommandCompleteAlways` | `CommandComplete` | |
| `PacketCorrect` | `PacketInv` | for all clients, Senders and networks |
| `ScheduleKeptAlways`, `EchoedOnceAlways` | the same without `Always` | |
| `NodeCorrect` | `NodeInv` | for all Runs, any finite set of children, and whatever transports fail |
| `QuiescentAlways`, `SetupMeansReadyAlways` | the same without `Always` | |
| `ImplementsService` | `KeepsPromise` | `Node` implements `NodeService` |
| `PipelineCorrect` | `PipelineInv` | for all pipelines, data, multiReporters and lengths of channels |
| `NothingLeftAlways` | `NothingLeft` | |

**Assumptions.**  `ConnAssumption`: the names of goroutines and kinds are distinct, the
capacity of `tx` is positive, and `Filters` are ResultStreams.  `ResultsAssumption`: what a
`conf` is.  `StreamAssumption`: a Transfer has a Length or a Duration, and a connection holds
one buffer at least.  `LaunchAssumption`: finitely many nodes, each launched by another or
by antler.
`TreesAssumption`: what `Validate` accepts, and no empty `Random`.  `CommandAssumption`: what
a `conf` is, and a pipe holds something.  `PacketAssumption`: a Sender has a `Wait`, and none
is zero (see 6); its Duration is bounded by the clock's bound.  `NodeAssumption`: the names of
Runs and goroutines are distinct, and there are finitely many children.
`PipelineAssumption`: channels hold something, and each pipeline is one (`IsPipeline`): it has
a reporter, and `readData` is the first one if it is there.  TLC evaluates each of them on the
runs' constants.

**The arguments.**  None of the properties is inductive by itself.

*Conn*, `ConnInv`:

* `LockInv`: who holds the mutex is where the code has it, and nobody else is.
  The type invariant needs it, as `io` is decremented under the mutex.
* `CloseInv`: the order of the shutdown, as a chain.  If `tq` is closed then `send`
  has ended; so `tx` was closed; so the buffer has stopped receiving; so it has got
  the final message; so the conn is canceled and nobody is at `tq <-` any more, nor
  can get there.  `NoSendOnClosed` is the end of this chain.
* `ReplyInv`: the account of the Runs.  An ID in `rpc` has no reply, one that is
  not has exactly one, and an ID in use is never given out again.
* `OrderInv`: taken as one line, `wire`, `tx`, what is ready and what is held
  back never have two messages of one kind out of order, because nothing is held
  back that the current ResultStream accepts.  The hard step is `Refilter`, which
  moves messages from the middle of the line.
* `FlushInv`: as long as no send has failed, every message the buffer ever
  received is in one of these places, and nothing comes after the final message.

One lemma for each part (`TypeNext`, `LockNext`, `CloseNext`, `ReplyNext`, `OrderNext`,
`FlushNext`), with one step per action, and lemmas on the queues (`AppendAt`, `TailAt`,
`CatAt`, `OrderCat`...) that replace an induction over them.

*Results*, `ResultsInv`:

* `OneWriter`: the work directory is a lock, so that all that follows is about one writer.
* `FileInv`: each name is linked to an inode with contents of its kind, and `resultStat`
  lists exactly the files of the work directory.  A write needs a free inode; that there is
  one is a counting argument (`FreeInode`): there are more inodes than links to them.
* `RunInv`: a run without an error so far has good data of each Test that it is past.
  `ErrorsReRun` is this at the end of the run.
* `SoundInv`: each result and the work directory are coherent, and files are there only with
  their data.  The hard step is `LinkPriorSound`: `Link` searches the prior results for each
  file anew, and still the data and the files that it finds are of one result.
* `IndexInv`, `EndInv`, `LatestInv`: the index lists what is there; a work directory that is
  left belongs to someone, or to a command that returned an error; and of an instance that is
  alone, where the symlinks are at each step of `Close`.

What is in a directory is compared through `View`, names to contents, so that links
to new inodes leave it as it is (`ViewFacts`, `SameView`).

*Stream*, `StreamInv`:

* `ServesWhileAccepting`, `ServerInv`: until `Accept` fails, the count of the main goroutine is
  the number of connections that are served, and one; a connection is with one goroutine at a time.
* `HeaderInv`: the server reads the header first, and once.
* `FlowInv`: what was sent is what was received and what is on its way; the final byte comes
  last, with all of the Length; an ACK means that all has arrived.

Each step concerns one connection (`QuietOrBusy`).  What it does to the counts and queues of
that connection is given as a relation of old and new values (`SumsSend`, `SumsReceive`,
`SumsRest`, `HeadsFacts`), apart from the goroutines that take the step, and `FlowStep` and
`HeaderStep` use only the relation.

*Launch*, `LaunchInv`:

* `StackInv`: the closer stack is what the launch has got so far.
* `TreeInv`: a launch that has an executable was launched by a process that still runs,
  and each set of such launches has one from outside it, so that in the end all come
  from antler, or from an orphan.
* `RefInv`: in each process `fileRef` is the number of launches that use a file, and
  one for the process itself; a key with a count of zero belongs to a platform with several
  extractors.
* `DirInv`: a file that is not `shared` is there for as long as the process that extracts it
  has a key for it, and no longer, unless it was left; a launch has its file, in a directory
  that is there, unless its platform is shared or a node above it has crashed (`Rooted`); and
  a node in `exec` runs from a file that is still in its place.
* `SrcInv`: a process has the executables for all nodes below it.

The hard step is `CloserExe`, which removes the file when the count is zero, and the
directory with the last file.  Suppose another launch uses the file and nothing above it has
crashed.  It is a launch of the one process that extracts the platform, which counts it; or
it was launched by a node that passes on its own file, and so was below a user of the file,
along a chain that `TreeInv` ends.  `Crash` takes away a process with all it counts: what that
had extracted becomes `left`, and what is below it is not `Rooted` any more.

*RunTree*, `RunInv`:

* `ListInv`: the Runs that a list counts as started are those with a goroutine or a
  result; a list that does not run has none outstanding; it is OK only if what it
  received was; and, while the context is live, one that returns OK has started all.
* `SequentialInv`: a sequential Schedule has one Run outstanding, the last one, and no
  timer meanwhile.
* `PathInv`: the nodes of a Run that is executed are among those launched.

The parts are stated Run by Run (`InvAt`), and each action is a start, a join, a return, or
changes neither the goroutines nor the lists of others (`StartStep`, `JoinStep`, `ReturnStep`,
`QuietStep`).  `Cumulative`, `Search` and `buildTree` are recursive functions.  What they
compute is proved by least counterexample (`Smallest`, `Induction`): of the indices for
which the claim fails, the least one contradicts the recursive equation.

*Command*, `CommandInv`:

* `PhaseInv`: the pipes are open while the process runs and is not waited for.
* `FlowInv`: what was written to a stream was had or is in the pipe; once it is not read
  any more, all was had, or all before a line that is too long.
* `SystemInv`: `gatherN` is the number of gathering goroutines, and after `io.Wait` none
  of them is left.
* `FilterInv`, `WriterInv`, `ReaderInv`: a filter writes the chunks in their order; those
  of a file are filtered, in the pipe, or in the copy buffer; a codec that exits
  well has had them all.

`CommandComplete` follows with `ExpectedFacts`: in the end, what was had of a stream is
exactly what was written before the first line that is too long.

*Packet*, `PacketInv`:

* `SenderInv`: for each Sender there is a number k of calls so far.  Its wait index, its
  timer (for time k, if that is before Duration, and no other) and what it has sent
  (one packet for each of the times before k, but the first with `WaitFirst`) all agree
  with that k.
* `QueueInv`: what was sent is not after any timer, and the timer that is waited
  for is the earliest and has left the queue.
* `RunInv`: all Senders are called before the first timer is armed, and `Run` ends by itself
  only without a timer.
* `ServerInv`: `d` has the Seqs of the replies, each once, and `f` the client of each Flow
  that was recorded.

A call of a Sender is a step from k to k + 1 (`CallSchedules`, `SendNext`), and leaves other
Senders as they are (`SendOther`).  That times grow, that there are no more than Duration of
them, and that the wait index cycles (`AtFacts`, `Cycle`) is proved by induction, as in
*RunTree*.  With a reply that could not be written, `d` has one Seq more than the replies,
and the server reads no more.

*Node*, `NodeInv`:

* `Lifecycle`: what is over in each state of the event loop: in `stateRun` `runc` is open, and
  `handleRuns` at its range statement; once `canceled` is sent the context is done and
  `handleRuns` has ended, with an empty canceler stack.
* `RunPlaces`: no Run is active once `handleRuns` has left its range statement, and the Run in
  the hands of the receive goroutine is a new one.
* `Cache`: the children in the cache are those that setup launched, only they have events to
  send, and none is canceled before the context is.
* `SetupPlaces`: the replies that setup has read are counted, and a failure is remembered until
  it replies.  With all replies read and no failure, the count is the number of children, so
  each of them is ready: `SetupMeansReady`, a counting argument over the children.
* `Sampler`: who holds the mutex of sockdiag, and for which Runs the sampler works.  When no
  Run is active, it works for background goroutines only.
* `Losses`: what may be dropped after `canceled`, and where the event loop may block.

`Quiescent` is what these say of the state in which `canceled` is sent.  Each part has a
lemma on what it depends on (`LifecycleFrame`, `CacheFrame`...), so that an action is followed
only through the parts it can disturb.

The refinement `ImplementsService` maps the states of the event loop to the phases of
`NodeService` (`Phase`), and the place of each Run to its fate (`Fate`).  Nearly all steps are
`Unseen`: they move Runs from active to active, which the parent cannot tell apart, and are
stuttering steps of `NodeService`.  The others are its five actions.  `NodeInv` is needed for
its guards: that no Run is open at the final message is `Quiescent`.

*Pipeline*, `PipelineInv`:

* `Channels`: a stage closes its out channel only when it has nothing to send, and its in
  channel is closed and empty; and this stays so, as the stage before it has nothing more to
  send either.
* `Errors`: a stage or multiReporter that failed is about to send its error, or the error is
  in a goroutine of `mergeErr`, or with the caller.
* `Tees`: for each multiReporter that still reads, what it read, its channel and
  the item that the tee has for it make up what came out of the pipeline; so one that reads until
  its channel is closed has read all of it.
* When the caller is done, all goroutines are.

`NothingLeft` follows by `DoneFacts`: from the first stage to the last and on to the tee, each
has closed its channel, so the one before it had.  `AllDoneStays` shows that nothing but a
signal can happen then.  The proof is the second part of `NodeProofs`, which extends both `Node`
and `Pipeline`: no name of one is a name of the other, and so the specification of `Pipeline`
is `PipeSpec`, its initial states `PipeInit`, its steps `PipeNext` and its types `PipeTypeOK`.

**Model-checked only**: liveness (`EndsAfterCancel`, `Ends`, `PipelineEnds`, `TreeEnds`,
`CommandEnds`, `StreamEnds`, `ClientsEnd`), since the prover does not handle fairness; and
`CompleteOrError` of `Pipeline`, but for the part on multiReporters that `Tees` has: it
compares what the stages did, item by item, with `InOf`, the data passed through them as a
whole, and needs an induction over the data for each reporter.

## 6. Where code and documentation disagree

Two runs show it, each a finding in `PROJECT.json`:

* `node_late_launch`: `setup.Run` launches the next child without a look at the
  context, so a child may enter the cache after `child.Cancel`.  It is never canceled,
  and the node waits for it forever (`node.go:30`: "Any child connections are
  canceled, then closed").
* `node_stop`: the event loop waits in `sockdiag.Stop` for a sampler that waits
  for the event loop to take a sample (`sockdiag.go:76`, `node.go:319-321`).

Seen while modelling, and not the subject of a run of their own:

* Two results within one second get the same name.  `os.Rename` fails, and its error is
  overwritten by that of `os.Symlink`: the second result stays in the work directory, the
  command returns no error, and the next one is refused (`results.go:437` against
  `404-405` and `config.cue:55-57`).  `EndsClean` is for results of different seconds.
* The accept goroutine of `StreamServer` defers its function in the loop, so that it sends
  an `errDone` for each connection that it accepted, besides the one that `serve` sends
  (`stream.go:88-95` against `error.go:85-86`).  They are sent when `Accept` returns an error:
  the listener was closed on cancel, or before that, as with EMFILE (`stream.go:96-99`).  From
  then on the main goroutine's count is too low: without a cancel it may stop serving, and leave
  the listener open; `Cancel` may return while connections are still served, whose
  goroutines then wait on `ec` for ever.  The surplus also hides that a `serve` on a connection
  under which the network is down does not return.  `ServesWhileAccepting` is for the time
  before `Accept` fails.
* The data of a Test that a timeout or a signal cuts short may have no Error item: the loop
  only logs that the context is done (`node.go:332-337`), `Sleep` and `Schedule` then return no
  error (`sleep.go:28-31`, `run.go:289-330`), and `Do` does not look at the OK of the main Run
  (`node.go:145-146`).  `CompleteOrError` says what is true of all data that was sent.
* A Run that arrives after `canceled` was sent is dropped, as it should be, and so is the log
  entry that says so (`proto.go:51-55`).  The goroutines of `StreamServer` and
  `PacketServer` may send when the Run and its canceler have returned (`stream.go:84-140`,
  `packet.go:255-301`): after `canceled`, that is dropped too.  If such a goroutine samples
  a socket, a sample may block the event loop for ever, like the error of a conn to the
  parent that fails to close (below).
* `StreamServer.Run` writes to the nil map `ofb` when `ListenAddrKey` is set
  (`stream.go:59-60`), which panics.
* The main goroutine of `PacketServer` runs `for d` with `d` false, and ends at once
  (`packet.go:235-236`): `Cancel` returns immediately, the connection is not closed on
  cancel, and an error of the packet goroutine is never received.
* `PacketServer` has one map of Seqs for all Flows (`packet.go:270`): an echo request is
  not answered if a client of another Flow used its Seq before.  `EchoedOnce` says what holds.
* `Unresponsive` without a `Wait` schedules itself for the same time for ever
  (`packet.go:656`); `PacketAssumption` excludes it, and waits of zero.
* `cmdWriter.Close` does not return if the file takes no more while the codec has more than
  a pipe of output: nothing reads its stdout, and nothing closes it (`results.go:765`,
  `780`).  `cmdReader.Close` before the end of the file may return the decoder's error, whose
  input was cut short.
* A line of more than 64 KB ends the Scanner of `gather` and `stream` without a message
  (`system.go:161`, `201`); the rest of the output is lost, and a command that writes on
  blocks until it is canceled.
* If `exec.Cmd.Start` fails, the goroutine of a `cmdReader` or `cmdWriter` goes on
  unobserved; it ends, since the pipes are closed.
* `SysProcMonitor` skips a file that could not be read but keeps the time
  (`procmonitor.go:66-73`), so that its samples no longer line up with the times.

* A conn to the parent whose transport fails to close does not end: `ioDone`
  sends the error event with the mutex held, and `errorEvent.handle` calls `Send`
  on that conn (`conn.go:277` against `conn.go:18-20`).  `Conn` with `IsParent` and
  `CloseFails` both `TRUE` has this deadlock; in `Node` it is `HandleParentCloseError`,
  which `Ends` excepts as `loop = "blocked"`.
* The latest symlink: of two instances, the earlier result's may be set last
  (`results.go:437-446`, `config.cue:59-60`), and a `latest~` left by a killed process
  makes each later `os.Symlink` fail (`results.go:443`).  `EndsClean` checks
  it with one instance that is not killed.
* `SaveFiles` passes on a `FileRef` before the file is closed (`report.go:286`
  against `297-299`), and `Encode` drops the ones it does not match (`report.go:329`
  against `24-25`).
* `resultStat.Changed` counts removed files, so that a destructive Encode makes
  a new result each time (`results.go:303` against `407-408`).
* An encoded file of a prior result is linked with the data although the Test has no
  Encode any more (`results.go:357-380`); if the data has an error, it stays
  next to the file that the new run saves (`antler.go:284-296`).
  `ResultsCoherent` is for Tests that keep an Encode, or never had one.
* `doRun.link` returns `DataFileUnsetError` for a Test without a data file
  (`antler.go:380` against `375-377`).
* `ResultStream.Exclude` has no effect: both paths of `accept` return what `Include`
  said (`result.go:44` against `16`).
* `child.Get` returns nil for a child that was launched and is gone (`conn.go:334`
  against `329-330`).
* `Feedback.merge` ranges over its receiver instead of its argument
  (`run.go:693` against `690-691`): the feedback of Runs in a list is
  lost, and a conflict is never reported.
* `Random` with an empty list is not refused by `Validate` and has no Run to
  pick (`run.go:459`); `RunTree!Valid` excludes it.
* `exeRepo.source` calls `Platforms` with its mutex held (`launch.go:403-414`);
  `ExeThere` shows that this is not reached.
* Two processes that extract the same platform share the file, and each counts its own users:
  whichever is first to have none left removes the file under those of the other ("deleted
  after it's no longer in use", `launch.go:342-344`, `416-417`).  The `os.Remove` of the other
  then fails: its `fileRef` keeps the path with a count of zero, so that its next launch takes
  the file to be there, and the directory stays (`launch.go:359-362`, `421-434`).  Or the
  second extraction fails, since the file is being run.  This takes two launchers of
  nodes of a platform, antler and a node, say, that is not of that platform itself; nothing
  in the configuration excludes it.  `ExeThere` and `CleanedUp` except these platforms (`shared`).
* `File` leaves the directory and a partial file after an extraction that failed, and a node
  process that crashes leaves the executables and namespaces that it made: nobody else removes
  them.  `CleanedUp` says which.
* `setKey` omits `ClosedLoopActor` and `Random` (`test.go:139-158`).
* `sampler.Remove` increments the count of an address (`sockdiag.go:151-155`), and
  `dirEmpty` returns false for a missing directory (`results.go:451`).

## 7. What is not modelled

* Bytes: gob encoding, file formats, the HTML of index, charts and system information,
  log formatting, metrics.  They keep no state and decide nothing that the models use.
* Of streams and packets: HMAC and nonces, socket options, addresses and `Feedback`, packet
  lengths, and the smoothed RTT (the last wait of a client may take any time).  A
  `StreamIO` is recorded as with `IOSampleInterval` positive; with zero, the sender records none.
  A `Write` to a connection is taken as a whole.
* A crash of the antler process itself: its directory and namespaces stay.
* Of commands: `IgnoreErrors`, and descendants of a process that keep its pipes open.
* The process monitor, a goroutine that reads `/proc` files on a timer; `Node` has it as a
  Run that leaves a canceler.
* Pure functions: `TestID.Match`, `setKey`, filters, the validators, the stream statistics.
* A session of two nodes as one model.  A node of `Node` has more than a million states with its conns
  reduced to what `Conn` shows of them; a product of two, with both conns in detail, is
  out of TLC's reach.
* The configuration, evaluated by the CUE library, and the command line, which calls
  the commands (its signal handler is `Interrupt` in `Node` and `PipeInterrupt` in `Pipeline`).
* The netlink C code: an interface to the kernel.
* The web server: one goroutine around `net/http`.
* The command that the SSH launcher builds.

## 8. Plan

Done: all modules of section 2 with the proofs of section 5.  Still to come, in this order:

1. *Pipeline*: `CompleteOrError` as an invariant on prefixes: what each stage has
   sent is `Through` of what it has received, for each kind of reporter.
2. *Session*: `NodeService` at both ends of one transport, in place of the environment
   of `Node`.
3. *Pure logic*: matching and stream statistics against reference definitions.
