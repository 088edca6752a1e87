# Terminlogy: durable jobs, verified

Terminlogy is a terminal application: a server (Go, `pkg/`, `cmd/server`), helpers that it
starts on remote machines (`cmd/wsh`), and a desktop client (TypeScript, `frontend`,
`emain`).  Its most delicate part is the **durable job**: a shell or a command that runs on
a remote machine under a small job manager process and survives its connection.  The job
manager reads the PTY, keeps the output in a ring, and streams it with ACK-based flow
control to a server that comes and goes; what the user types goes the other way through a
queue that reorders it; the server keeps the records of jobs in a database and their output
in a file store with a write-back cache.  This directory holds TLA+ modules of that core, TLC
runs on small instances, and theorems for all sizes that TLAPS checks.

## Contents

1. [The system](#the-system): inventory of the components
2. [The modules](#the-modules) and how they correspond to the code
3. [The runs](#the-runs), their bounds, what they show, and the fairness
4. [The proofs](#the-proofs)
5. [Findings](#findings)
6. [What is abstracted or not modelled](#what-is-abstracted-or-not-modelled)
7. [Plan](#plan)

## The system

Modelled, in whole or in part:

| component | state it keeps | operations | hard behaviours | what makes it correct |
|---|---|---|---|---|
| byte ring, `pkg/jobmanager/cirbuf.go` | buffer, read and write position, count, total, sync mode, window, one waiting writer | write what fits, resize, consume, peek | index arithmetic under wrap, shrink and overwrite; a writer blocked on a channel | the ring is exactly the window of the stream; a blocked writer is always woken; the panic on a second blocked writer is unreachable |
| stream manager, `streammanager.go` | stream id, connected, receive window, bytes in flight, last ACK, terminal event | `readLoop`, `senderLoop` (goroutines); connect, disconnect, ACK, resize, close (called) | three goroutines, two locks, one condition; stale ACKs; EOF racing data; reconnection with resend | nothing a client was not sent is dropped; EOF is last; no lost wake-up |
| job manager, `jobmanager.go`, `mainserverconn.go` | attached client, client of the stream, pending stream, per-connection table of writers | accept, authenticate (kick out), start job, prepare, start stream, close, dispatch ACK | requests of dead connections, takeovers, failed calls, deferred disconnect, lock order | job manager and stream manager agree; a corked stream stays corked; calls return |
| stream reader and writer, `pkg/streamclient` | sequence numbers, windows, buffers, out-of-order packets | `Write`, `Read`, `RecvData`, `RecvAck`, `Close` | reordering and repetition of packets and ACKs, waits on conditions | bytes come out once and in order; memory bounded by the window; a closed stream ends |
| stream broker, `streambroker.go` | readers and writers by stream id, work queues | attach, detach, dispatch | ACKs for streams not registered yet or any more | (inside the modules of the job manager and of the whole stream) |
| job controller, stream side, `pkg/jobcontroller` | current stream id, output file with its `totalgap`, stream-done flag | output loop, reconnect, `restartStreaming` | requests refused or unanswered, superseded loops, crashes that lose what was not flushed | the file is the output in order, and size + `totalgap` accounts for what is missing |
| job controller, records | job records in the database, the block a job is attached to, calls under way, the pruner's candidates | start, terminate, reconnect, detach, prune | a call is a step between the read of a record and its update; failed and unanswered calls; blocks closed while the host is away; restarts of the server | a job that is done has no process left; block and job name each other; what runs detached is marked for termination |
| reorder queue, `pkg/utilds/quickreorderqueue.go`, and a job's input | buffer, next number, session order, one timer, output channel; the controller's counter, requests under way | queue an item, flush on a time-out, receive; number, send, lose and handle an input | callbacks that were stopped too late, a new session amid an old one, a send under the lock | no send blocks; no item waits longer than the timeout; what is in time comes out in order |
| file store, `pkg/filestore` | cache entries with pins, parts of files, flush flag, tables of files and parts | make, delete, write, append, write at, metadata, compact; flush | pins and removal of entries by several goroutines; transactions that fail or time out; wrap of circular files; crashes | all who work on a file hold the same entry; files change by whole operations |

They interact as follows.  The PTY's bytes go `readLoop` -> ring -> `senderLoop` -> the
connection's RPC -> router -> the server's broker -> `Reader` -> the job controller's output
loop -> a circular file.  ACKs go back `Reader` -> broker -> RPC -> the job manager's broker
of the connection they arrive on -> `StreamManager.RecvAck`, run synchronously, while every
request (`StartJob`, `PrepareConnect`, `StartStream`, `JobInput`) runs in a goroutine of its
own.  Input goes from the block's controller, which numbers it, through such a request into the
reorder queue and to the PTY.  The job controller calls the remote host to start, reach and
terminate a job manager, and writes what came of it into the job's record.

Not modelled yet or not at all:

| component | state and operations | what would make it correct |
|---|---|---|
| job controller, the rest | `jobConnStates`, the worker that reconciles connections, route events | the state of a connection is the last one there was |
| remote bridge, `pkg/wshrpc/wshremote`, the rest | job manager connections by job id | a cleanup removes its own entry only |
| `WorkQueue`, `pkg/utilds` | queued work by id | each item once, in order (steps of the connection in JobStream) |
| RPC and router, `pkg/wshutil` | pending requests, routes, links | a response reaches its request or the request times out; a route goes down with its link |
| publish/subscribe, `pkg/wps` | subscriptions, persisted events | events reach exactly their subscribers |
| connection controllers, `pkg/remote/conncontroller`, `pkg/wslconn` | connection state, monitors, reconnects | one attempt at a time; the status tells the truth |
| block controllers, `pkg/blockcontroller`, `pkg/buildercontroller` | shell of a block: start, stop, resync | one shell per block |
| objects and workspaces, `pkg/wstore`, `pkg/wcore`, `pkg/service`, `db` | tree of workspaces, tabs, blocks in SQLite transactions | sequential edits; left to unit tests |
| AI chat, `pkg/aiusechat`, `pkg/waveai`, `pkg/mcp` | translation between providers' wire formats | I/O and formats; not modelled |
| configuration, telemetry, secrets, web, shell, vdom, helpers, generators, entry points, `frontend`, `emain`, `tsunami` | I/O, UI, generated code | not modelled |

## The modules

```
   StreamWindow   <---implements---   CirBuf          StreamPipe <--implements-- StreamClient
        ^
        | EXTENDS
   StreamManager  <---implements---   JobManager (EXTENDS StreamManager)

   JobStream: job manager (coarse) + connections + Reader + job controller + output file

   ReorderQueue   <---implements---   JobInput (EXTENDS ReorderQueue)
   AtomicFiles    <---implements---   FileStore
   JobLifecycle: records + blocks + remote calls + job managers (coarse)
```

**StreamWindow** is what the stream manager may rely on: the interval `head .. total-1` of
stream positions still held, sync or async mode, an effective window and one waiting writer.
A byte *is* its position in the stream; what a byte contains matters to nothing here.

**CirBuf** is the ring that implements it.  `buf[s]` holds the position of the byte in slot
`s`, so "which byte sits where" is checked.  `SetEffectiveWindow`, `WriteAvailable`
(`WriteAccepts`, `WriteBlocks`), `Consume` and `PeekDataAt` carry the code's names; each
method holds the ring's lock from end to end and is one step.  The loop over single bytes in
`WriteAvailable` is closed into `Accepted` and `Overwritten`.

**StreamManager** EXTENDS StreamWindow by the goroutines and methods of
`streammanager.go`.  The grain is that of the locks: `sm.lock` serialises methods, but
`readLoop` writes the ring without it, so every method that uses the ring several times is
cut at each use and holds the lock (`LockFree` is false) in between:

| code | actions |
|---|---|
| `readLoop`, `handleReadData`, `handleEOF`, `handleError` | `ReadLoopChecksClosed`, `PtyRead`, `ReadDataWritten`, `ReadDataBlocked`, `ReadLoopResumes`, `ReadDataSignals`, `ReadLoopEnds` (`readPc`) |
| `senderLoop`, `prepareNextPacket`, `prepareTerminalPacket` | `SenderSizes`, then `SenderStops`, `SenderParks`, `SenderPreparesData` or `SenderPreparesTerminal`, then `SenderSends` outside the lock (`sendPc`) |
| `ClientConnected` | `ConnectBegins`, `ConnectConsumes`, `ConnectRereads`, `ConnectCommits` (`call`) |
| `RecvAck` | `RecvFinAck`; `RecvDataAck`, then `RecvAckResizes` (`call`) |
| `ClientDisconnected`, `SetRwndSize`, `AttachReader`, `Close` | one action each |

**JobManager** EXTENDS StreamManager by the connections of the main server and the job
manager's own lock (`jmCall`).  A request of a connection can run when its socket is closed
already (`connState[c] = "closing"`, until `Drained`).  `StartJob` and `PrepareConnect` share
`DetachesOldClient`, `ConnectsClient` and `ConnectReturns`, as the code shares
`connectToStreamHelper_withlock`.  `HandlerReturns` is the deferred
`disconnectFromStreamHelper`.

**StreamPipe** is what a stream of `pkg/streamclient` promises: a bounded first-in first-out
pipe, end of stream after the last byte.

**StreamClient** is a `Writer`, a `Reader` and a network that reorders and repeats messages.
The Reader's buffer is a sequence of positions, so order is observed and not assumed.
The loop over what came out of order is closed into one step (`ProcessOOO`: take all that
now fits); `MCStreamClient` states the loop itself, and TLC compares the two on every set of packets of a small stream.

**JobStream** is the durable stream from end to end.  It composes the job manager (one step
per request or ACK: how those interleave inside is the subject of StreamManager and
JobManager), connections that deliver in order and lose what is under way when they drop,
the broker and the `Reader`, and the job controller:

| code | actions |
|---|---|
| `runOutputLoop`: Read; compare the stream id; append; record the end | `LoopReads`, `LoopChecks`, `LoopAppends`, `LoopEnds` |
| `restartStreaming`: Stat; new reader and stream id; `JobPrepareConnect`; its answer, gap and `UpdateNextSeq`; `JobStartStream`; its answer, new output loop | `RestartStats`, `RestartCreatesReader`, `PrepareConnect`, `RestartPrepared`, `StartStream`, `RestartStarted`; `RestartFails` wherever a request is refused or unanswered |
| `doReconnectJob`, one at a time (`singleflight`) | `Reconnect` |
| `Reader`, `processRecvData`, `processSendAck` | `DataArrives`, `LoopReads`, `CloseReader` |
| file store flush, loss of the server | `Flush`, `Crash` |

The file is the sequence of all bytes appended (the circular file's `Size` counts those it
no longer has); `disk` is what the last flush wrote, data and metadata in one transaction.
The record of the job (`streamDone`) is in SQLite and survives a crash.

**ReorderQueue** is `QuickReorderQueue`, in which an item is its session and its number.  Every
method holds the lock from end to end and is one step.  The buffer is a set, since the code
sorts it before each use.  The timer is kept as ticks left, and besides it the callbacks `q.timer`
no longer refers to (`strays`): `Stop` comes too late for one that has started, and that one
then runs `onTimeout` and forgets the timer in use all the same.

| code | actions |
|---|---|
| `QueueItem`, `ensureSessionTs_withlock`, `processBuffer_withlock` | `StartsSession`, `PassesThrough`, `ArrivesInOrder`, `ArrivesEarly` |
| `onTimeout`, `flushBuffer_withlock` | `TimerFires`, `StrayFires` |
| the consumer of `outCh`; the clock | `Receive`; `Tick` |

**JobInput** puts that queue where the program uses it: `NewController`, `SendInput` (the
durable shell controller), `RequestLost`, `JobInputCommand` in any order (a request runs in its own
goroutine), `processInputQueue`.

**AtomicFiles** is what the file store promises: a file is the last bytes written to it, every
operation is one change, a save happens or not, and after `MaxFailures` failed saves what is not
saved is given up.

**FileStore** is the write-back cache that implements it.  An operation pins its entry, does its
work under the entry's lock, and unpins: three steps.  The body is one step because whoever works on
the file holds the same entry (`PinnedIsCached`).  Parts of files are kept as the code
does, in the cache over the database, so the arithmetic of circular files is in the model.

| code | actions |
|---|---|
| `withLock`: `getEntryAndPin`; `unpinEntryAndTryDelete` | `Enters`, `FlushPins`; `unpinEntryAndTryDelete` |
| `MakeFile`, `DeleteFile`, `WriteMeta`, `WriteFile`, `WriteAt`, `AppendData`, `compactIJson` | one disjunct of `Works` each; `PartsFailToLoad`, `ChangesNothing` where the database fails or nothing is changed |
| `FlushCache`, `runFlusher` | `FlushBegins`, `FlushPins`, `FlushEntry`, `FlushEnds` |
| `flushToDB`, `dbWriteCacheEntry` | `FlushSucceeds`, `FlushFails`, `FlushTimesOut` |
| the server stops | `Crash` |

**JobLifecycle** is the server's view of the jobs of one block.  A call to the remote host is a
step between the one that reads the record and the one that writes it; it may fail
although the host did what it was asked to, and a termination may succeed although no process was
signalled.  A block may be closed at any time: `DeleteBlock` waits for nobody.

| code | actions |
|---|---|
| `Start` of the block's controller; `StartJob`: insert, `AttachJobToBlock`, `RemoteStartJobCommand`, update | `Start`; `Insert`, `AttachJobToBlock`, `RemoteStartJob`, `StartReturns` |
| `doTerminateJobManager`, `remoteTerminateJobManager` (one at a time: `terminateJobManagerGroup`) | `CloseTerminates` or `tryTerminateJobManager`, then `RemoteTerminate`, `RecordTerminated` |
| `TerminateAndDetachJob`, `DetachJobFromBlock` | `CloseTerminates`, `DetachJobFromBlock` |
| `doReconnectJob`, `remoteReconnectToJobManager` (one at a time: `reconnectGroup`) | `ReconnectBegins`, then `RemoteReconnect`, `RecordGone`; or `RemoteTerminate`, `RecordTerminated` for a job that is marked |
| `DeleteBlock`, `handleBlockCloseEvent`; `Stop` of the controller | `CloseBlock`, `handleBlockCloseEvent`; `Stop` |
| `pruneUnusedJobs`, `DeleteJob` | `pruneUnusedJobs`, `DeleteJob` |

`MC*` modules only add symmetry sets and the values of constants; `*Proof` modules hold the theorems.  Operators that a
comment calls a *mutation* are used nowhere: each is a plausible slip in the definition that
follows it, and shows that the property listed beside it in `PROJECT.json` notices the slip.

## The runs

| run | bounds | states | what it shows |
|---|---|---|---|
| `cirbuf` | ring of 3, offers of 1-2, 7 bytes, windows 0..4 | 372 | the ring holds its window, wakes its writer, and implements StreamWindow |
| `stream_manager` | buffer 3, packets of 1-2, 4 bytes, congestion window 2, announced windows 0, 1, 3, two stream ids | 1.2 M | safety of the stream manager |
| `job_manager` | two connections, two streams, buffer 2, 1 byte, congestion window 1, announced windows 0 and 1 | 974 k, 70 s | safety of takeovers; use of the stream manager; calls go on |
| `job_detached` | one connection, one stream, 2 bytes | violation | see the finding |
| `stream` | window 2, chunks of 1-2, 3 bytes, one repeated delivery | 453 k, 62 s | order, memory bound, wake-ups, FIFO refinement; flow control is live, streams end |
| `job_input` | two controllers with three and two inputs, room for 3, timeout of 2 ticks | 170 k, 28 s | the queue never blocks, waits are bounded, input is in order and reaches the PTY |
| `file_store` | one name, circular (4 bytes in parts of 2) or ijson, two clients, one flusher, cleared at the second flush error, one crash or late transaction | 137 k, 71 s | entries and pins; files change atomically; what is dirty is flushed |
| `job_life` | two jobs, two faults (lost answer, failed signal, killed process, restart) | 2.0 M, 28 s | done means dead; block and job name each other; what runs detached is marked |
| `job_closed` | two jobs, no fault | violation | see the findings |
| `job_stream` | window 1, 2 bytes, three connections, one crash | 4.6 M, 67 s | the output file over restarts; see below |
| `job_stream_error` | window 2, 4 bytes, one restart, no crash | violation | see the findings |
| `job_stream_race` | window 2, 4 bytes, one restart, no crash | violation | see the findings |

`job_manager` checks that calls return as an invariant: as long as a call is in progress, one of
its own steps is enabled, or the sender, which holds the stream manager's lock for the moment, has
one (`CallsGoOn`).  Since a call has few steps and none is repeated, that is what a liveness
property would say; stated as an invariant it can be checked on two streams and two
connections, which need symmetry, and symmetry is not sound for liveness.

`file_store` checks the refinement of a whole file store by one name, since nothing but the
flusher's list relates one name to another; the pins are proved for any number.  Four of the
file's parts are enough for a circular file to wrap twice and for a write to begin in the
middle of a part that must be loaded first.

`job_life` has two jobs because a block that restarts its shell starts the second while the
first is being terminated.  Faults are what costs states, and two of them give the cases
that matter: an answer that is lost and then a restart, two lost answers, a process that is killed
while its termination is unanswered.  The type invariant is part of the inductive invariant
and proved, not run.  `DoneIsDead` and `DetachedIsMarked` except the jobs in `spared`: those whose
termination the host reported as a success although it signalled no process, because the signal
failed or because the record had no pid yet.  The code then writes done, or clears the mark, over a
process that lives; the two invariants say that nothing else brings that about: no lost answer,
restart, join of two terminations, or reconnect that races with them.  `job_closed`, with the same module
and no exception, shows what the second case comes to when a block is closed.

`job_stream` shows that the file is the output in order and without repetition
(`FileInOrderUntilLate`), that `size + totalgap` never falls behind what the file has
(`GapAccountsForLoss`) and is where the loop of the current stream goes on
(`SeqTracksStream`), that the job manager drops only what a Reader received
(`HeadWasReceived`), and that the EOF is reported only when nothing is left
(`EofIsComplete`).  The loops run at any pace (`LoopPace = "any"`).  An output loop that was
overtaken between its check and its append, while `restartStreaming` went from Stat to the new stream
id or later, still appends; the code does not prevent that, and `job_stream_race` shows what becomes of the
file.  The history variable `lateAppend` tells that it has happened.  `GapAccountsForLoss` holds
all the same; the other properties are about what happens before the first such append.
So what they show is that the late append is the only way to disorder the file, to
lose the position of the stream or to report the EOF over a file that lacks more than was counted.
`LoopPace = "drained"` (the loops have nothing left to do when a restart begins) makes the
counterexample of `job_stream_error` stronger: it does not need a slow loop.  Three connections are needed for
a gap on top of a gap and for a stream that was started but never read.

Why these bounds are enough to be of interest: every run lets the ring wrap or the stream
exceed the window, windows of 0 (corked), smaller than, equal to and larger than what is
held, ACKs of every position (those never sent included), every interleaving of the three
goroutines, and both terminal events.  In `job_manager` one byte suffices since everything
its properties talk about is decided by who connects when; the same formulas are proved for
all bounds.  `MaxBytes` bounds the bytes the PTY produces, `MaxRepeats` the repeated deliveries;
both are guards of the environment only.

Deadlock is not checked where the system may stop: a program ends, all connections of the
bounded set are used up, a stream is closed on both sides, all inputs are typed.

**Fairness.**  `FairJmSpec`: a goroutine that can run does run, and one that waits for a
mutex gets it in the end; Go's mutexes hand over to a waiter that starved for a
millisecond, so strong fairness is assumed for the steps that take a lock, weak fairness for
those that hold it.  Nothing is assumed of the PTY, of clients or of connections.
(It is used where a violation must not be due to a goroutine that stops, in `job_detached`.)
`FairSCSpec`: woken calls run, the reading program reads on, and each message of a finite set
is delivered in the end; nothing obliges anybody to write or to close.  `FairJISpec`:
`processInputQueue` and the callbacks of timers run, and time passes; nothing obliges anybody
to type, or a request to arrive.  `FairFSSpec`: a goroutine that has pinned an entry finishes
its operation (the code has no wait in it but transactions with a time limit), and the flusher
runs again and again, as its loop with a sleep does.

## The proofs

TLAPS checks, for every value of the constants (capacity, chunk, windows, number of bytes,
connections and streams), under `WindowAssumption`, `CirBufAssumption`,
`ManagerAssumption` and `JobManagerAssumption`:

* **CirBufProof**: `CirBufInv` is inductive.  `PositionsAgree` (the write position is `count`
  slots after the read position, modulo the size) and `AsyncBounded` are what
  `RingHoldsWindow` needs: a write may overwrite a slot only if the read position leaves it in
  the same step.  The modular arithmetic is in lemmas on `Advance`.
  `CirBufImplementsWindow` is the refinement: `head <- HeadPos`, `total <- totalSize`.
  `PeekReturnsStream` lets StreamManager speak of positions only.
* **StreamManagerProof**: `WindowCorrect` of StreamWindow alone, with lemmas on what each
  window operation preserves, which the rest cites.  `SMInv` is inductive.  The properties of the run need three
  strengthenings: `LockDiscipline` (what a call in progress may assume, since the lock has
  one holder), `AvailableLags` (the size the sender read is stale by a write whose signal
  waits for the sender's lock; in sync mode stale means too small, never too large) and
  `TerminalSentWhen`.  EOF order follows: the terminal packet is prepared when the stale size
  is 0, so either the ring is empty or the readLoop has yet to signal, and then there is no
  terminal event yet.
  `ClientToldWhereItStarts` is about a call in progress: `ClientConnected` reads the head
  (`streammanager.go:113`) before it switches the ring to sync mode (`:137`), and the readLoop may
  overwrite the oldest bytes in between.  The position it answers is then before the first byte it
  will send.  The theorem says that this happens only when the ring is full, and that the answer is never
  past the first byte (the comparison at `:141` that takes the larger of two positions never changes it).
  TLC, asked for `StartSeq = head` with the bounds of run `stream_manager` (not one of the runs), finds
  that the answer can really be too small.
* **JobManagerProof**: `ClientDuringCall` says where in a call the job manager's record and
  the stream manager's flag may differ; `CorkInv` that a prepared stream has window 0, no
  writer registered with any broker (so that no ACK can open it) and no packet under way.
  `JobManagerUsesStreamManager` is a refinement: each step of the job manager is a step of the
  stream manager or leaves it alone, so every theorem of the stream manager holds inside it
  (`StreamSafeInJob`, `SentBytesOnlyInJob`).  `LocksGoOn` is what `CallsGoOn` checks, with the
  guards written out in place of `ENABLED` (TLC, with the bounds of run `job_manager` but outside the runs,
  finds the two the same in every state): it rests on `StartHasNoPending` (only `StartJob`, while no reader
  is attached, comes to attaching one) and on both invariants above.

* **JobStreamProof** (under `JobStreamAssumption`) has two parts; neither assumes anything of the pace
  of the output loops.  In the first, `JSInv` holds until an append comes late (`~lateAppend => JSInv`), for every window,
  buffer and chunk, any number of bytes, connections and crashes: every step from a state of `JSInv` leads to
  one, or is such an append, and no step but a late append sets `lateAppend`.  It ties the parts together by one
  position: where the bytes a loop has in hand begin (`Place`: the Reader's next, less what it buffers,
  less the chunk) is size + totalgap, for the loop of the job's stream, always.  A restart
  takes that position at Stat, and it must stay exact until the new loop starts (`RestartOK`): an append from Stat on
  is a late one, by definition, and the stream it opens must send nothing with bytes while it
  is corked (`CorkOK`: no writer is registered, its window is 0, what is under way is empty), since the
  gap would move the Reader over bytes it had.  The position is at most `total`, so the job manager
  never refuses the restart.  A crash takes file and gap back together, to a pair that
  satisfies the same (`FileOK`).
  `FlowInv`, inductive beside it (`FlowCorrect`, until an append comes late as well), says how far the stream has gone, from the job
  manager over the latest connection to its Reader: what was sent fits the Reader's window (`FlowOK`),
  every ACK the job manager will still heed names bytes a Reader received and no more room than
  the Reader has (`AcksOK`), a Reader that was closed has told it so, or nothing follows
  (`ClosedOK`: else the broker's Cancel, which is read as an ACK of the packet it refuses, would
  let bytes go that nobody has), and between `PrepareConnect` and `StartStream` the job manager stands
  where the new Reader will be moved to (`OpeningOK`).  `HeadWasReceived` and the bounds of
  `JSTypeOK` (no Reader buffers more than its window) follow.
  The second part goes on after a late append.  Bytes may then be in the file twice, so no position
  is exact any more; what is left is one side of it, that nothing is past size + totalgap when its turn comes.  `GapInv` says so of
  every place where bytes may be: in the file (`GapFile`), in what an output loop has in hand and in
  its Reader (`StreamGap`, `GapStreams`), and in the Reader a restart is about to put to work
  (`GapRestart`).  It needs neither `JSInv` nor `FlowInv`, and of the job manager and the wire only types.
  `GapAlwaysAccounts` follows, and `StatAsksPastTheFile`: a restart asks
  for no byte the file has at Stat.  What `job_stream_race` shows is what the theorem leaves open, an
  append after Stat.  It does not say that nothing is skipped: bytes that were appended twice make the
  size too large, and a later restart then asks past what the file has.
* **StreamClientProof** (under `StreamAssumption`): `SCInv` is inductive, for every window, chunk,
  stream length and number of repetitions.  It
  says of every message under way, however old, what it may still claim (`SentPackets`, `SentAcks`):
  packets are pieces of what was sent that never overlap, and an ACK's position plus its window is
  never past what the reading program has taken plus a window.  The Writer's account (`Credit`) keeps
  to that, so `WithinWindow` holds though it sees ACKs late, twice and out of order.
  `BufferInOrder` is for every order of delivery: what waits out of order never contains what could be used.
  `StreamIsPipe` is the refinement of the bounded pipe, step by step.
  The model takes `processOOOPacketsLocked` as one step with a closed form (`ProcessOOO`);
  `ClosedFormIsTheLoop` shows that this is what the loop (`streamreader.go:109`) comes to: any sequence of its turns
  ends, after no more turns than packets wait, and in that state.  Induction is out of reach (its theorems have an
  operator parameter), so the proof takes the least turn at which the claim fails.
  `ReceivesAsTheLoop` applies it to every step: of what waits, no two packets have the same sequence number.
* **ReorderQueueProof** (under `QueueAssumption`, `InputAssumption`): `QueueInv` is inductive.
  `NeverBlocks` needs that an item leaves the buffer when it goes out, and that `Sorted` of a
  set has as many places as the set has items.  `BoundedWait` needs `TimerInTime`: while anything
  waits, `q.timer` is set and runs out no later than the time of the oldest item, which a
  callback that should have been stopped, and a change of session, must leave true.
  `InputUsesQueue` carries both over to JobInput.  `InputInOrder` (the PTY gets what is in time in
  order) adds `OrderInv`: what has gone out comes before the number waited for and what is buffered does not
  (`Frontier`), and a request whose number was given up, or behind which later inputs wait, has been
  overtaken for as long as they waited (`OvertakenCounts`).
* **FileStoreProof** (under `FileStoreAssumption`): `PinsAreExact`, for any number of names,
  clients and flushers.  The invariant adds where in its operation a goroutine may hold
  an entry, and that no entry is in the cache under two names.  `FilesAreAtomic` is the refinement of
  AtomicFiles, for every part size, window, data and number of files, and wherever transactions fail or the
  server stops, under `BeforeWindow = FALSE` (see "Not modelled").  It goes by bytes: `ByteAt` is
  the byte the cache over the database has at a place of the file, and the lemmas say of `writeAt`, of loading
  parts and of the merge in the database where those bytes stay and where they become what is written.  That needs that no two
  bytes of one window share a place (`OnePlaceEach`), and that a part which was not loaded is
  written over its whole length (`FilledIsWritten`), else zeros would hide what the
  database has.  `Acts` then says of one operation's entry and rows, before and after, that AtomicFiles
  allows it; there is one such lemma for each operation, and `ContentInv` (an entry without a file
  holds neither parts nor failures; rows and entries are of the right shape) is all that the steps share.
* **JobLifecycleProof** (under `JobLifecycleAssumption`, which only tells the constants apart): `JLInv` is
  inductive, for any number of jobs, faults and restarts.  Calls act on what they read before, so
  the invariant says what each call may still rely on: that "gone" or "terminated" is only ever
  said of a process that is dead, or of a job that is `spared`, and that a call which was told a pid comes after the
  start (`CallsAreExact`); that who terminates or detaches a job has
  marked it (`MarkedFirst`); that one job starts at a time and has no pid until then, and that nothing
  touches it while its block is open (`OneStarts`, `Unrecorded`, `Undisturbed`): once the block is closed, a termination may, and
  then spares it; and that what the pruner has chosen stays detached (`DoomedIsDetached`).  `BlockHasItsJob` is proved
  without exception.

Model-checked only: liveness (`WritesReturn`, `StreamEnds`, `QueuedReachesPty`, `EventuallyFlushed`),
and `CallsGoOn` in the form of the run, since fairness and `ENABLED` are beyond the prover.

## Findings

**A detached program stalls** (`job_detached`).

`docs/docs/durable-sessions.mdx` promises that the job manager "Buffers terminal output while
disconnected" (line 32) and that "Any commands you ran continue executing" (line 125).  The
code has the machinery: `disconnectFromStreamHelper` switches the ring to async mode, where
writes never block.  But it is deferred in `handleJobDomainSocketClient`
(`pkg/jobmanager/jobmanager.go:425`), which starts two goroutines and returns at once: it
runs before the connection has attached anything and never again.  When the connection
breaks, `MainServerConn.Close` does not disconnect the stream either.  The stream manager
stays "connected" in sync mode; after one window (64 KB) of output without ACKs the
readLoop blocks, the PTY fills and the program stalls until the next `PrepareConnect`.
Run `job_detached` shows it: attach, write until the window is full, drop the connection.

`docs/docs/durable-sessions.mdx` also promises "picking up right where you left off" (line 21)
and "Full scrollback buffer preserved across reconnections" (line 19).  Two runs show how
that fails; neither needs a crash of the server:

**An error overtakes data** (`job_stream_error`).  `Read` returns an error before the bytes
still buffered (`streamreader.go:161`), the EOF after them.  The PTY of a program that exits
reports an error and not EOF on Linux, so the last output is lost if the output loop has not
read it when the error packet comes.  `EofIsComplete` holds, `EndIsComplete` does not.

**Stat before the new stream id** (`job_stream_race`).  An output loop that has passed its
check (`jobcontroller.go:825`) may append after `restartStreaming` took the size (`:1239`):
the size is too small, and the new stream sends the same bytes again.

A third way is known and counted, so it is no violation of a property here: the Reader acknowledges on
receipt (`streamreader.go:79`), the job manager drops what is acknowledged, but the new output
loop starts only after the answer to `JobStartStream` (`jobcontroller.go:1332`).  If the connection drops in
between, what the stream has delivered is in a Reader that is closed unread, and the next restart
adds it to `totalgap`.  `GapAccountsForLoss` says that each such byte is counted, not that there is none.

**A block closed while its job starts** (`job_closed`).  The same document says that closing a block
"Closes the terminal and terminates the remote session" (line 167), and that of blocks closed
while disconnected Wave "will automatically clean up any orphaned sessions" (line 173).
`DeleteBlock` (`pkg/wcore/block.go:154`) takes no lock that `StartJob` holds.  If it comes while
`RemoteStartJobCommand` is under way, the termination that the close event asks for reads a record
without a pid, `RemoteTerminateJobManagerCommand` finds no process and answers success
(`wshremote_job.go:348`), and `remoteTerminateJobManager` writes done and clears `TerminateOnReconnect`
(`jobcontroller.go:1025`).  The job is detached, and then `StartJob` writes running and the pid
(`jobcontroller.go:742`): the job runs on, no block shows it, the next reconnect does not terminate it
and the pruner does not see it.  If `StartJob` writes between the read of the record and the
write of done, the record says done instead, over a process that is alive, and the pruner deletes it.
TLC finds `ClosedIsTerminated` violated in twelve steps, without a fault.  With one fault
(`MaxFaults = 1`, not one of the runs) it finds a second way that needs no start under way: a server that stops
between the deletion of the block and the handling of its event, which is not persisted, comes back
with a job that runs, is attached to a block that is gone, and is not marked.

## What is abstracted or not modelled

* Contents of bytes, base64, logging and error texts.
* `JobManager`: `StartJob` without a stream (no caller does that), failures of the process
  start, the terminal size, exit information, the job's input queue; authentication always
  succeeds.  `StreamManager.Close` is modelled but nothing in the job manager calls it.
  A failing `WriteAvailable` caller is not possible.  The ring's production size exceeds the
  congestion window, but the modules do not assume it.
* ACKs in JobManager are those a Reader can send (`Sensible`): of the stream in use, nothing
  beyond what was sent.  StreamManager alone is checked with arbitrary ACKs.
* Stream ids are uuids, so `FreshId` never lets one be used twice.
* `StreamClient`: a packet that does not decode; `UpdateNextSeq`, which only
  `restartStreaming` calls, is part of JobStream.
* `JobStream`: appends that fail (they are logged and dropped), the copy of the output in the
  attached block's file, the exit status and termination of the job; requests of a
  connection that is already gone, which JobManager examines; work queues are steps of the
  connection; each connection carries one stream; the Cancel that answers data without a
  reader, rate limited by a clock in the code, may come or not.  The job starts connected.
  `PrepareConnect` is one step there: that the readLoop may overwrite bytes in the middle of it (see
  `ClientToldWhereItStarts`) is in StreamManager and JobManager only.
* `ReorderQueue`: `Close` and `SetNextSeqNum`, which only tests call; a tick stands for a fraction of the
  timeout, and a callback runs before time passes on.  `JobInput`: signals and terminal sizes, which go by
  the same way; inputs without a session, which no caller sends.
* `FileStore`: `DeleteZone` and `ListFiles`, which are loops over what is modelled; merging in `WriteMeta`;
  what an ijson file says (compaction writes other bytes, no more than before).  `AppendIJson` is `AppendData`
  and then `CompactIJson`.  A write that begins before the window of a circular file is left out
  (`BeforeWindow = FALSE`): `WriteAt` takes the parts to load from the offset it was given, `writeAt`
  then moves the write to the window's start and keeps too little (`blockstore.go:254`), and with
  `TRUE` TLC finds `ImplementsAtomicFiles` violated.  No caller outside the tests does it.
* `JobLifecycle`: a reconnect may be tried at any time while the host is connected, so
  `jobConnStates`, route events, the worker that reconciles them, and the registry of the
  remote bridge are left out, as are messages to the terminal and the manual commands of
  `wshserver`.  A process that was sent SIGTERM is dead; that the
  signal could not be sent is one of the faults.
* The connection's RPC and router (`pkg/wshutil`) appear as messages that come in order, in any order or
  not at all, as the caller of each module needs it; connection controllers as a flag that changes at
  any time.  The other components in the table above are I/O, formats or user interface.
* Sequence numbers are 64-bit and count bytes of one terminal; they do not overflow.

## Plan

Done: 1. StreamWindow, CirBuf; 2. StreamManager; 3. JobManager; 4. StreamPipe, StreamClient;
5. JobStream, its safety, with proofs; 6. ReorderQueue, JobInput; 7. AtomicFiles, FileStore; 8. JobLifecycle.

Left, most important first:

* **JobStream**, continued: the job manager's part as an abstract
  module that JobManager implements; liveness (a stream that ended remotely ends locally),
  where the EOF received before `UpdateNextSeq` and the Fin sent before `StartStream`
  (`streamreader.go:189`, `streambroker.go:212`) are to be examined.
* **Connection states of jobs**: `jobConnStates`, route events and the reconcile worker
  (`jobcontroller.go:250`, `:349`), with the registry of the remote bridge (`wshremote_job.go`).
* **RPC and router**: one response per request, time-outs, route up/down order.
* **ConnController**, and the shell controllers of blocks.
