# Verification of pikawire

pikawire takes a snapshot of a Pika master, follows its binlog and delivers both
as one ordered stream of events to a sink (Kafka, Doris, SQL, a file), keeping a
checkpoint from which it resumes. This directory models the parts of it where
goroutines, failures, crashes and data meet, checks the models with TLC on small
instances, and proves the central invariants with TLAPS for every instance.

## The system and its parts

| Part | Code | Module |
|---|---|---|
| session | `internal/replica/runner.go`, `gate.go` | `Runner` |
| disk backlog | `internal/replica/diskbuffer.go` | `DiskBuffer`, against `BacklogQueue` |
| application, store | `internal/app/run.go`, `internal/store` | `Lifecycle` |
| dump transfer | `internal/dbsync/rsync.go` | `RsyncFetch` |
| dump reader | `drivers`, `internal/dbsync/cgoadapter`, `engine.go` | `DumpReader` |
| SQL sink | `internal/sqlsink` | `SqlMapping`, `SqlSink` |
| replaying consumer | `cmd/pikatool/verifykafka.go` | `VerifyKafka` |
| all four together | | `Snapshot` |
| Kafka sink | `internal/sink/kafka.go`, `ring.go` | `KafkaSink`, against `AsyncSink` |
| Doris sink | `internal/dorissink` | `DorisSink`, against `AsyncSink` |

The application fetches a dump, attaches a session at the dump's binlog position
(the anchor), injects the dump's events into the session and calls `Release`. A
session runs a receive loop, which drops entries at or below the anchor, appends
them to the disk backlog while the gate is closed and sends them to the emit
channel when it is open, and an emit loop, which takes events from the channel and
calls the sink. `Release` drains the backlog in order and opens the gate. A
synchronous sink's return, or an asynchronous sink's notifier, moves the delivered
position, and the store writes it to the checkpoint file. When the snapshot has
been committed there, a restarted process only resumes the tail.

`Runner` is one session in detail; `Lifecycle` is the process around sessions, each
coarser; `Snapshot` is the way of the data. Operators introduced as altered forms
are versions of a definition with a plausible mistake, used only to see that the
properties notice it.

## Modules

### Runner

| State | Code |
|---|---|
| `rpc`, `epc`, `apc` | where `Run`/`consume`, `emitLoop` and the application are |
| `recvd`, `lastPos`, `firstUnacked`, `ackedTo`, `aheadStreak` | receive progress, ack range, stall probe |
| `hSet`, `gateOpen` | `GateCtl` |
| `bufInflight`, `backlog`, `drainedC`, `flushed`, `bufOpen`, `bufBlocked` | the claim, and the disk buffer as a FIFO |
| `injected`, `sent`, `taken`, `emitted` | the emit channel as an append-only sequence with cursors |
| `acked`, `failAt`, `sinkErr` | what the sink made durable, and its failures |
| `delivered`, `stored` | `r.delivered` and the store's position |

A position is one number: entry `p` ends at `p` and starts at `p - 1`, because
file number and offset are only ever compared. An entry in `Bad` does not decode.
Each critical section of `r.mu`, each channel operation and each blocking call is
an action of its own, so that another goroutine can step in between: `Consume`
claims a backlog slot, `AppendEntry` writes and `Unclaim` returns it; `ReleaseCheck`
looks at the backlog and the claim, `ReleaseNext` reads a batch and `ReleasePush`
sends its records one by one. `Faults` says what may go wrong: `connect`, `conn`,
`stall`, `sink`, `fetch`, `disk`, `cancel`, `stuck`.

### DiskBuffer, BacklogQueue, DiskMC

`dir` is the directory of segment files, `segs` the handle's list of them, `ro` the
position in the first one. `append` is `AppendBegin`, `AppendWait` (watermark with
hysteresis, free-space reserve), `AppendRotate`, `AppendWrite` and, on a fault,
`AppendTorn`; `next` is `NextBegin`, `NextDrop`, `NextRead`, `NextEnd` under the
lock; `Adopt`, `TailRecord` and the actions around them are what the next process
does with the files. `BacklogQueue` is what the session relies on: records come out
once and in order, and a restart reads from the beginning or begins anew. Crashes
are those of the process, so that what was written is still there; a power failure,
which would lose unsynced records, is not modelled.

### Lifecycle

`pc` is where `RunVersion`/`runDbsync` is: `rescan`, `bgsave`, `fetch`, `transfer`,
`attach`, `mark`, `emit`, `release`, `commit`, then `live` (the session that made
the snapshot) or `inc` (the reconnect loop), `resume` for a durable resume, `hung`
for the second receive in `startSession`, `down` between processes. `st` and `disk`
are the store in memory and its file. The configuration (`durable`, `async`,
`force`) is chosen at the start. `pipe` is what is queued or in flight at the sink.
The faults are crashes, failing fetches, connects, sessions, stalls, sinks, flushes
of the checkpoint and unreadable dumps. `Run` returns only after the emit loop has
left (`sess` is `failing` or `stalling` until then), as the order of its deferred
calls has it. `injected`, `landed`, `got` and `stale` are history.

### RsyncFetch, DumpReader, SqlMapping, SqlSink, VerifyKafka, Snapshot, SnapshotMC

- `RsyncFetch`: file list, info file, then workers that take files under a mutex
  and fetch chunks, while the master may take another snapshot.
- `DumpReader`: the layout check and the opening of the engines; the dumper's walk
  (`load_keys`, `TakeKey`, one action per type, resume by `SkipStage` and `Engage`)
  into replies of `KBatch` records; the feeder; `Next`, `Emit` and `Close`. `Db` is
  the dump's content in scan order, external. A key whose time to live runs out
  disappears from what the storage returns (`ExpireKey`, `LeaveKey`).
- `SqlMapping`: rules, key patterns, `RowForEvent`, `Coalesce`, and what the
  statements do to a table. `SqlSink`: `Emit` waiting for its group or for the end of
  its context (`EmitReturns`, `EmitCancelled`), `commitLoop` and `Close` as two
  flushers. A cancelled `Emit` leaves its row in the queue or with a flusher, so
  `Close`, which the application calls without waiting for the emit loop, may commit
  a row nobody confirmed.
- `VerifyKafka`: the consumer's order of events and its replay of commands; scores
  are counted in units of 1e-7 and printed with six decimals or in the shortest form.
- `Snapshot`: the composition, followed by commands of the master's clients as
  incremental events. What pika does with a command (`Effect`, `Logged`) is
  external. Gate and emit loop are `Runner`'s subject; here emitted events wait in
  a buffer of `EmitCap`. `ctxDone` is the context of `runDbsync`: a signal
  (`Interrupt`) or its own return (`SessionEnds`) ends it, the reader and the emit
  loop notice, the sink is closed, and the process may be started again
  (`StartAgain`) as it may after a crash. A restart behind the dump resumes from a
  checkpoint that may be older than the last confirmed event: the sink applies those
  events again, and the consumer finds them on the topic twice (`again`).

### AsyncSink, KafkaSink, KafkaMC

`AsyncSink` is what the runner relies on: a reported position belongs to an event
that is durable together with all events accepted before it. `KafkaSink` models
`Emit` (claim an ordinal, then queue), the workers (`WorkerTake`, `FlushPartial`,
`WriteOk`/`WriteFail`, `Settle`, `WorkerStop`), the ring (`Prefix`, `Advance`),
`notifyLoop` (`Report`, `NotifyStop`) and `Close`. `notifyLoop`'s ticker makes its
steps always possible, so the poke channel is left out. The broker and kafka-go's
writer are external. The writer has no `Balancer`, so which partition a message goes
to does not depend on its key: `topic` is the order in which messages arrived over
all partitions, and `PartitionOrder` quantifies over every way to spread them. A
produce that fails may have left any part of the batch, in its order. The
application returns on a cancelled context, and thereby closes the sink, without
waiting for the session, so `Close` may overlap with `Emit`.

### DorisSink, DorisMC

`Emit` takes a slot of the room channel (`EmitRoom`), then queues the row under
the mutex or gives the slot back (`EmitQueue`, `EmitGiveBack`). `flush` is run by
two flushers, `commitLoop` and `Close`: `FlushTake` empties the queue, `FlushRoom`
frees its slots (in one step: freeing them one by one only gives a waiting `Emit`
its slot later), `LoadOk`/`LoadFail` load one table group, `FlushReport` calls the
notifier. The ticker makes a flush always possible, so the wake channel is left
out. The cluster is external: a load that fails may have been committed. Rows
have a number, a position and a group; coalescing and encoding are data.

## Runs

| Run | What it asks | Result |
|---|---|---|
| `runner_handoff` | handoff with an asynchronous sink and every fault at every point: order, gaps, stranded entries, checkpoint, ack ranges; delivery when undisturbed; cancel ends the session | holds |
| `runner_tail` | incremental mode from a checkpoint, synchronous sink that may fail | holds |
| `runner_stalled` | a session that ends returns to its caller | violated |
| `kafka` | failing produces, cancelled Emits, Close, one goroutine per queue: reports, a key's order on each partition, the contract, every event reported, Close returns | holds |
| `kafka_key_order` | a key's order on a partition with two goroutines per queue | violated |
| `doris` | failing loads, cancelled Emits, Close: slots exact, the contract, every row reported when undisturbed, Close returns | holds |
| `doris_failure` | nothing is reported past a failed batch | violated |
| `disk_buffer` | segments, crashes and torn writes: the queue's order, what stays replayable, the count `Release` decides on, a blocked append goes on | holds |
| `durable_resume` | a resumed process drains the backlog it adopted | violated |
| `lifecycle` | every configuration, three faults of any kind: entries covered, dump complete, commits final, convergence | holds |
| `crash_loss` | a crash after the commit loses nothing of the dump | violated |
| `snapshot` | transfer, reader, SQL sink and consumer together: one snapshot, the dump exactly, every event a safe place to resume, replay and table agree with pika through shutdowns, crashes and repeated delivery, nothing hangs | holds |

What the violated ones show:

- `runner_stalled`: `Run`'s defers wait for the emit loop before the context that
  stops it is cancelled, so `ErrStalled` never reaches the reconnect loop.
- `kafka_key_order`: `NewKafkaSink` starts `WorkersPerPart` goroutines on each of
  `parts * WorkersPerPart` queues; batches of one key overtake each other also when
  the writer puts them on one partition.
- `doris_failure`: `flush` does not look at the terminal error, so rows queued
  before a batch failed are loaded and reported over the lost ones, by the next
  tick or by `Close`; the checkpoint then skips them.
- `durable_resume`: the runner that probed the backlog is thrown away, and the one
  that runs the session does not count what it adopts (or opens no buffer at all);
  `Release` opens the gate and discards records that were never emitted.
- `crash_loss`: `PhaseDone` is written when the dump's events are queued; those
  still queued when the process dies are not emitted again.

Four more places where the code differs from what a comment or document says, met
while modelling; no run is about them:

- `kafka.go:81-86` gives the writer no `Balancer`, so events of one key are spread
  over the partitions, between which Kafka keeps no order. The repository's
  `README.md:109-110` says "one entity, one partition, one ordered sub-stream".
- `driver.cc:543` prints scores with six decimals. `verifykafka.go:215-216` says that
  this text and pika's "denote the same double", and the comparison at 596 is exact:
  for the instance's score of 13 units (0.0000013, printed 0.000001) verifykafka
  reports a mismatch until a later `ZADD` gives the member a new score.
- The repository's `README.md:115` has consumers deduplicate by `event_id`, but
  verifykafka (448-474) replays what it reads, so a list of which a restart delivered
  a push or a pop again comes out different from pika's.
- `driver.cc:643` creates an absent engine directory and goes on with an empty
  database; the comment at 674-676 wants a missing directory to be an error.

### What the properties except

Where the code is known to fall short, a property names the exception, so that it
still shows that nothing else goes wrong:

- `Converges` holds unless the process is `Stuck` again and again or for good: the
  second receive in `startSession` (a refused anchor hangs and never escalates to a
  forced bgsave), `Run` waiting for an emit loop nobody stops, a receive loop blocked
  on a queue nobody reads after a sink failure, or a checkpoint or resume position
  the master has purged.
- `EntriesCovered` and the second half of `Converges` are about the configuration
  without `durable`; what a durable resume loses is the subject of `durable_resume`.
- `DumpInjected` excepts a failed `Flush` that left the coordinates of an older dump
  in the file (`stale`): the result of that `Flush` is ignored.
- `DumpExact`, `ResumeSafe`, `ReplayAgrees` and `TableMatches` except a resume
  coordinate past what the sink had confirmed (`skipped`): it is persisted at
  injection. `ReplayAgrees` also excepts lists of which the consumer gets commands
  twice (`ListTwice`), since pushes and pops are not idempotent. It is exact: where
  the scores of the dump are not pika's, it says which ones the consumer has
  (`Told`). Of a key that expires while the dump is read `DumpExact` asks only that
  what came of it is a prefix of its image.
- `DumpExact` and `ReplayAgrees` measure the dump against what pika exported
  (`Exported`): a type that was never written is an empty directory. A layout without
  the directory is outside the instance, since the reader cannot tell what it lost.
- `PendingExact` is about a buffer that was not adopted; `AppendResumes` about one
  that deletes what was read: with retention, reading frees no space.
- `AllDelivered` and `AllReported` ask for delivery while nothing has failed, been
  cancelled or been closed. The Doris sink's `KeepsContract` holds until a batch fails
  or `Close` begins (`Spoiled`); what follows is the subject of `doris_failure`.
- `NothingHangs` asks for the end of the dump unless the sink refuses an event while
  the context lasts, after which nobody empties the buffer; that every `Emit` returns
  and that a process whose context has ended closes the sink it asks always.
- An `Emit` during the Kafka sink's `Close` can queue an event behind workers that
  have left; the checkpoint does not cover it, so a restart replays it, and
  `CloseFlushes` is stated for what was accepted before `Close`. The Doris sink's
  `Close` waits for an empty queue, not for the batch `commitLoop` is loading, and
  cancels that load (`LoadFail` when `cancelled`).

### Bounds

- Handoff: entries below, at and beyond the anchor, one that does not decode, more
  entries than backlog (`High`), batch and emit channel hold together, so that every
  block, refill and overtaking can occur; one heartbeat (`MaxPings`) and two snapshot
  events suffice because each is treated alike.
- Kafka: a queue of depth one, batches of at most two, two events with equal
  positions, one without, and a key that returns after another. Doris: five rows of
  two groups and a room of three, so that `Emit` blocks, batches hold one to three
  rows and both flushers can hold one.
- Backlog: six records of one to three bytes in segments of three, so that segments
  hold one to three records; the watermark (`High` 5) and the reserve (`Capacity` 4)
  both block; `MaxSegs` bounds the files over all restarts.
- Lifecycle: a dump of two events with a cursor persisted after each (`Every` 1), a
  queue of two, a master that writes up to three entries (`MaxTip`) and purges any of
  them, and three faults, so that a crash can follow a failure during the recovery
  from another.
- Snapshot: a key of every type, containers of two chunks (`BatchNum` 2), one key per
  scan, replies of three records, so that keys and chunks straddle replies; one
  prefetched batch, so that the feeder blocks; an empty, a damaged and a whole dump
  layout; two workers, three files and one more bgsave; two of twelve client
  commands; one fault (`MaxFaults`: a bgsave, a failure, an interrupt or a crash) and
  one restart (`MaxRestarts`) in a behaviour, since the composition has one recovery
  of each kind. `HDEL` is not among the commands: `mapping.go:253` writes an empty
  string into the columns of the deleted fields, where pika has no field;
  `docs/pipeline.md:46` lists that among the limits.

All passing runs may legitimately stop (a session ends, a sink is closed, a dump is
refused, the bound on the master's writes is reached) and disable the deadlock
check; that they do not stop early is what the liveness properties say.

### Fairness

Each goroutine keeps running: weak fairness on its steps. `RecvMsg` has strong
fairness: a master that has entries does send them, even though receive timeouts
keep occurring. In the backlog the appends and the reads of `Release` have strong
fairness, since they poll for a lock and for room that come and go, and a process
whose buffer has failed ends. In `Lifecycle`
a supervisor restarts a process that has ended, and keepalives reach a receive loop
that is not blocked. In the sinks, produces, loads and commits return, successfully
or not. In `Snapshot` the end of a context is noticed and `Close` follows it: a
`select` with a ready `ctx.Done` does not wait. These are the guarantees of the
scheduler, the network time-outs and the service manager. Failures, crashes,
cancellation, heartbeats, client writes, a second start and, in the Kafka and Doris
sinks, `Close` are never forced.

## Proofs

The proofs hold for all constants satisfying the named assumptions of the modules,
including all faults. Every proof module starts by naming the provers a leaf is tried
with (`USE`), since the default list has no second, longer attempt. Each rests on
an inductive invariant, because the property itself says nothing of where the actors
are. Every invariant of a passing run is proved, each `TypeOK` included, except
three about the content of the dump (below).

- Handoff (`RunnerProofs`). `BinlogOrder`, `NoGap`, `CheckpointHonest`
  and `NothingStranded` follow from `HandoffInv`: `ControlInv` (places, claim, gate
  and cursors), `BacklogInv` and `QueueInv` (the queue is behind the unflushed
  backlog, which is behind the entry in hand), `CoverageInv` (every entry beyond the
  anchor is queued, buffered or in hand) and `SnapshotInv`. Lemma `StepShape` sorts
  the steps by what they do to queue and backlog; each conjunct is proved per shape.
  `AckRangeExact` needs `AckInv`: what was received and not acknowledged is what lies
  between `firstUnacked` and `lastPos`, also when the last entries did not decode.
- Backlog (`DiskProofs`). `DiskInv` says where each file's records lie in the stream
  (`DirInv`, `KeepInv`), where the handle's cursor is in the listed files (`SegInv`)
  and where reader and writer are (`ControlInv`). It gives `PendingExact`,
  `Replayable` and, with `last <- nextRec - 1, cursor <- readPos`, that `DiskBuffer`
  implements `BacklogQueue` (`KeepsOrder`). `TypeOK` needs `RangeInv` besides: an
  append in progress has a record to write, and a closed handle lists no file.
- Lifecycle (`LifecycleProofs`). `BaseInv` relates `pc` to session,
  gate, phases and the dump cursor (`SessionInv`, `GateInv`, `PhaseInv`, `DumpInv`)
  and gives `DoneForGood` and `DumpInjected`. `CoverInv` adds that `pipe` holds each
  entry behind all undelivered ones before it (`PipeOrdered`), so that whatever the
  sink reports is covered, and gives `EntriesCovered`. `TypeOK` needs `BoundInv`: that
  a record drained from the backlog is an entry of the log rests on a retained backlog
  never ending before the anchor in the file, also when a failed `Flush` left the
  anchor of an older dump there (`LogInv`); the sink gets only injected events because
  a re-scan begins with an empty queue (`QueueInv`).
- Transfer and reader (`ReaderProofs`, `OrderProofs`, `SnapshotProofs`). `FetchInv`:
  chunks are of the wanted snapshot, and a file that was taken is complete or in a
  worker's hands unless a worker has failed. It gives `TransferExact` and, in the
  composition, `FetchExact`: `SnapInv` adds that the reader opens only a transfer that
  succeeded (`OpenedAfter`), the bounds of pipe and channel (`ReadTypes`), that at
  most one row is under way in the SQL sink, also when its `Emit` has given it up
  (`OneRow`), and that it confirms only what was emitted (`Confirmed`), and gives
  `TypeOK`. `CleanPath` follows records from the walk to the consumer and gives
  `NoSlotKey`, the first conjunct of `DumpExact`.
  `ResumeSafe` is its harder part: that no key is lost. It follows from `DumpInv`:
  dumper, feeder and emitting goroutine take turns, so that a batch is in one pair of
  hands (`Turns`), and, unless a coordinate was skipped, `OrderInv`: the records in
  the iterator, the reply, the pipe, the channel and the buffer continue, in the order
  of the walk, what was emitted (`RunOk`), the coordinate lies behind what the sink
  has confirmed (`Base`), and only a whole dump ends the reading without an error.
  `OrderProofs` shows it step by step of the reader, `SnapshotProofs` for the
  composition with the sink, shutdowns, crashes and restarts.
- Kafka (`KafkaProofs`). `SinkInv` adds to `ReportHonest` that done ring items and
  the consumed prefix are acknowledged (`RingInv`), and that each accepted event is
  acknowledged, failed, queued or in a batch, with nothing owed behind a worker that
  is leaving (`DrainInv`). It gives `ReportHonest`, `CloseFlushes`, `TypeOK` and, with
  `accepted <- next, durable <- written`, the refinement of `AsyncSink`. `PartitionOrder` is
  proved from `OrderInv` (what was produced, is in a batch and is queued follow each
  other in every queue, and any part of a batch a failed produce leaves is in the
  batch's order) for `WorkersPerPart = 1` and every way to spread the messages over
  the partitions; the run `kafka_key_order` shows that the hypothesis is needed.
- Doris (`DorisProofs`). `RoomExact` counts the slots; it needs `TypeOK` and `RowInv`
  (only queued rows are taken), and gives back the bound on the queue in `TypeOK`.
  `KeepsContract` follows from `CommitInv`: until a batch fails or `Close` begins, the
  settled rows, the batch of `commitLoop` and the queue follow each other without a
  gap, so the prefix below a reported row is committed.

Only model-checked:

- liveness (`AllDelivered`, `CancelStopsRun`, `AllReported`, `CloseReturns`,
  `AppendResumes`, `Converges`, `NothingHangs`), which is out of the prover's reach;
- the rest of `DumpExact`, `ReplayAgrees` and `TableMatches`: they compare what a walk,
  a replay or a sequence of statements computes with a reference definition, and need
  induction over the data.

## Not modelled

- The byte formats: binlog entries, RESP, protobuf framing, the dumper's pipe, INFO
  parsing, envelopes, statement texts of the dialects. Each is a stateless function
  of one buffer; the models distinguish what decodes from what does not.
- `value_json` rules of the SQL sink, the scan pattern, type mask and list-tail
  options of the drivers (the loader asks for everything), and streams, which the
  drivers do not emit.
- RocksDB, Kafka, Doris, the SQL server and pika itself: external, by what the code
  relies on. A storage error on a single key, which the drivers treat as a missing
  key, is therefore not told apart from one.
- Power failures (see `DiskBuffer`), configuration parsing, metrics, generated code,
  the command line, and the operator and experiment programs other than
  `verifykafka`.
