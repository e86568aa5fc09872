# Verification of cam-track

TLA+ models of cam-track, the runs of the model checker TLC over them, and
theorems about them that the TLA+ proof system TLAPS checks. Paths are relative
to the root of the repository; the Python code is under `src/`.

- [The system](#the-system): its parts, their state, what is hard about them
- [The modules](#the-modules): which module models what, and how
- [The runs](#the-runs): what TLC checks, within which bounds
- [The proofs](#the-proofs)
- [Where code and documentation disagree](#where-code-and-documentation-disagree)
- [What is not modelled](#what-is-not-modelled)
- [Plan](#plan)

To repeat everything, in this directory:

    tlc -config MCRedisStreams.cfg MCRedisStreams      # one line per .cfg
    tlapm RedisStreamsProofs.tla                       # one line per *Proofs.tla

## The system

    camera --> RtspFrameReader --> FramePublisher --(raw_frames)--> InferenceWorker
                                     |  FrameStore                     |  DynamicBatcher
                                     +---> images on disk ---------->  |  Detector, ByteTracker
                                                                       v
    dashboard <-- TimescaleDB <-- TimeSeriesWriter <--(track_events)---+
    (no caller yet)  CrossCameraMatcher

Processes share nothing but the two streams of the message broker, the directory
of images and the table `track_events`.

| Component | State it keeps | Operations | What is hard | What makes it correct |
|---|---|---|---|---|
| Redis broker, `src/streaming/redis_streams.py` | on the server: stream, group cursor, pending lists; in the client: `_known_groups` | `publish`, `consume`, `ack`, `ensure_group` | retries of a command that is not idempotent, late commands, crashes of consumers, a Redis without a volume, a stale cache | ordered, nothing skipped, one holder per entry, what is in hand is pending, every entry settled |
| Kafka broker, `src/streaming/kafka_backend.py` | brokers: partitions, assignment, committed offsets; client: outbox of the producer, position and group cache of a consumer | `publish`, `consume`, `ack`, `ensure_group` | requests sent again, a flush whose answer is ignored, `ack()` that commits a position instead of a message, rebalances while messages are in hand, a commit that raises in the one thread or the other | ordered, nothing committed that was not handed out, nothing skipped, the group catches up where a consumer can still acknowledge |
| `DynamicBatcher`, `src/inference/batcher.py` | queue, pending batch and its start, stop flag | `submit`, `start`, `stop`, the thread | two threads, polls against deadlines, `stop()` against a poll, exceptions of `on_batch` | items once and in order, deadline kept, no early flush, `stop()` ends |
| `InferenceWorker`, `src/inference/worker.py` | trackers per camera, the batcher | `run_forever`, `_process_batch` | several processes per group; failure between publishing, acknowledging and the rest of the batch | no frame acknowledged before its events are out; nothing dropped |
| `OnnxYoloDetector`, `src/inference/detector.py` | none between images; in `_nms()` the candidates left and kept | `detect_batch`, `_decode_yolo_output`, `_nms` | overlap is not transitive, scores tie, two thresholds for one score | what is kept is apart, what is dropped has a reason |
| `ByteTracker`, `src/inference/tracker.py` | tracks with state, hits, age, misses; id counter | `update` | three association stages, lifecycle over many frames, optimal assignment against thresholds | one-to-one association, lifecycle, fresh ids |
| Ingestion, `src/ingestion/` | capture, backoff, time of the last frame; images | `frames`, `close`, `save`, `run_forever` | cameras come and go, threads die alone, image and reference are two writes | rate cap, paced reconnects, frames again, image before reference |
| Storage, `src/storage/` | the messages in hand; the table | `main`, `write_batch` | crash between commit and acknowledgement, rollback, the same event twice | no event acknowledged before its row; one row per event |
| `CrossCameraMatcher`, `src/reid/` | galleries per zone, last id | `observe`, `resolve_identity_id` | likeness is not transitive, trimming and expiry, wall clock, rounding | identities stay in their zone and apart; galleries are the recent past |
| Dashboard, `src/dashboard/` | the page: selectors, chart, requests in flight; the service: the connection pool | `refresh`, `traffic`, `get_connection` | refreshes overlap, a pool made for one thread is used by many, the database goes away or stops answering | one connection per request, every request answered unless its connection stops answering, the chart ends with what is selected |
| Kalman filter, embedder, configuration | | | see [What is not modelled](#what-is-not-modelled) | |

How they interact: by messages only. Ingestion calls `publish()`, a worker's main
thread `consume()` and `submit()`, the batcher's thread `publish()` and `ack()`,
storage `consume()`, the database and `ack()`. Nothing supervises anything:
`docker-compose.yml` has no restart policy, an exception in a thread ends that
thread and leaves the process, an exception in a main loop ends the process. The
models therefore let threads and processes die at every call that may raise, and
the properties say what holds of those that are left.

`PROJECT.json` lists 40 hazards, each at its line with the properties that
would catch it; the properties were chosen from that list.

## The modules

Every component has a module with its state and one action per operation, a
`...Properties` module with what it must guarantee, an `MC...` module with the
instance TLC checks, and a `...Proofs` module with the theorems. `Vision` and
`VisionProofs` have the latter two for `Detector` and `ByteTracker` as well.
Operators marked "Mutant" are plausible bugs of the definition that follows them;
no specification uses them. Putting one in the place of its definition must break
the property it is listed with in `PROJECT.json`, which shows that the property
can fail.

### MessageBroker, RedisStreams

`MessageBroker` is what `src/streaming/base.py` promises: a log, the entries
handed to each consumer of a group and not settled, and the settled ones.
`Deliver` gives the oldest undelivered entries to one consumer, `Redeliver` is the
visibility timeout, `Ack` settles.

`RedisStreams` is `RedisStreamsBroker` with the server behind it. An entry is its
position in `log`; ids of Redis grow with it. `last` and `pel` are the group's
last-delivered id and pending lists, `known` is `_known_groups` per process,
`inhand` what `consume()` returned to a process that has not acknowledged it yet.

- `publish()` is `StartPublish` and one of `XAddOk`, `XAddConnectionError`,
  `XAddOtherError` per attempt. A connection error does not say whether the
  command was executed: it goes to `limbo`, and `LateXAdd` executes it at any
  later time or never.
- `consume()` is `EnsureGroup` (skipped when cached) and `Read`; an empty answer
  is no step. Both are commands of their own, so that anything may happen between
  them. `ReadNoGroup` is the uncaught NOGROUP error of a stale cache.
- `Crash` ends a process, and with it cache and messages in hand. Entries stay
  pending under its name. `Start` runs a process under that name: a worker names
  itself by host and pid (`src/inference/main.py:43`), so that a name that comes
  back is the worst case, not the rule.
- `ServerLoss` replaces the Redis container, which has no volume.

`ImplementsBroker` is the refinement: `pel` are the abstract pending sets, and
what the server lost counts as settled. All steps are steps of `MessageBroker`
or stutter; `Redeliver` is never taken. Durability is where Redis falls short of
the interface, so that `ServerLoss` is admitted by name.

### CommitLog, KafkaStreams

`CommitLog` is what the comment in `ack()` (`kafka_backend.py:82-84`) calls the
coarser guarantee: a log handed out record by record, a commit that settles all of
what was handed out, and `Rewind`, which hands out again what was not settled.

`KafkaStreams` is `KafkaBroker` with the client library and the brokers behind it.
A record is `<<partition, offset>>`. The first part of the module is the producer:

- `publish()` is `Produce` and `FlushReturns`. In between, and after a flush that
  gave up, the library sends (`Deliver`), sends again (`Resend`, which leaves a
  request that `LateDeliver` may execute at any later time) or gives up
  (`DeliveryFails`). `publish()` returns in all these cases; `doubtful` is the
  history of the calls that returned without their record being stored.
- `consume()` is one `Consume` per record, so that the acknowledgements of the
  batcher's thread may come between two records of one call. `Ack` moves the
  committed offset of every partition the consumer owns to its position.
- `commit()` raises when all of these offsets are committed already. `ack()` is
  called once per message (`worker.py:73-83`), and the first of them commits what
  the whole batch has moved the position by, so that the second raises, unless the
  main thread has consumed more in between: `AckRaises`. What that ends depends
  on the group (`threaded`). In a worker it is the batcher's thread
  (`batcher.py:119-123`): the process goes on polling, keeps its partitions and is
  `mute` from then on. In storage it is the main loop, and the process (`Dies`);
  there, consuming and acknowledging are one loop, so that between two
  acknowledgements of a batch (`acking`) nothing is consumed. `ThreadFails` is any
  other exception in that thread, `Crash` the end of a process.
- `Rebalance` shares the partitions out anew and starts each at the committed
  offset (`ResumeAt`); `Expel` is a rebalance without a change of members. Messages
  of a partition that was lost stay in hand and may still be acknowledged.

`EveryCommitted` says what liveness is left: once the processes stay alive, every
partition is caught up with unless its owner is `mute`. Storage's processes may go on
killing each other without any fault: one that comes back takes a partition from
another, whose next `ack()` then has nothing new to commit, raises and ends that
process in turn. The premise of `EveryCommitted` names this case.

`ImplementsCommitLog` maps every partition to a `CommitLog`: `position` is
`delivered`, `committed` is `settled`. An acknowledgement of a message of a lost
partition is a commit on the partitions that are left, and a stutter on its own.

### BatchHandoff, DynamicBatcher

`BatchHandoff` has no threads: items submitted, items handed over in order, in
batches of 1 to `MaxBatch`. `DynamicBatcher` has the queue, the pending batch,
the program counter of the thread (`check` is the head of the loop, `get` is
`Queue.get()`, `on_batch` and `last_batch` the calls of `on_batch`), the stop flag
and the thread that calls `stop()`. Time is discrete: `Tick` passes one unit while
the thread waits in `get` with nothing queued, or while `on_batch` runs. The
thread's own statements take no time; what the deadline claims is therefore
exact only up to them. `WaitBound` is about the code's clock, `batch_started_at`,
which starts when the thread takes the first item of a batch out of the queue. What an item
waited before, while `on_batch` ran for another batch, is not in it.

### Pipeline

The services together, over two instances of `MessageBroker` (`Raw` and `Events`),
whose `Redeliver` is never used, as the refinement of `RedisStreams` allows; what
a retried `publish()` adds is `LateFrame` and `LateEvent`: one more copy of
something given to `publish()`. The batcher of a worker is its abstract
specification (`TakeBatch` takes 1 to `MaxBatch` of the queued items), the
tracker is any answer (`UpdateTracker` allocates new ids and answers with any set
that has them). `_process_batch()` is cut at every call of the broker:
`UpdateTracker`, one `PublishEvent` per event (in any order), `AckFrame`. Failures:
`CameraDies`, `PublishEvent` that raises, `BatchFails`, `WorkerCrash`, `WriteBatch`
that rolls back, `StorageCrash`; `MaxFaults` bounds their number and that of the
duplicates together.
A frame is `<<camera, n>>` and a track id `<<camera, n>>` as well, exactly what
`_TrackIdAllocator` puts in; `by` names the tracker (worker and incarnation)
that gave the id and is a history the code does not have.

### ByteTracker

`update()` as one action. Boxes and Kalman filters are abstracted to a table of
overlaps, any values of `Ious` for any pair. That one table serves all three
stages is the code's doing: a filter is updated only when its track is matched,
and a matched track takes no part in later stages. `linear_sum_assignment` is
external: `IsAssignment` asks for a matching of the largest size that no exchange
of one or two pairs improves, which every optimal one satisfies, so that the model
allows at least what scipy may answer. `missed` is the history of the last frame: the
overlaps of the detections that began a track with the tracks that stage 1 had left.

### Detector, Vision

`Detector` is what follows the network: `Decode` is the filter by confidence,
`KeepNext` one turn of the loop of `_nms()`. Candidates have boxes at integer
coordinates and scores in percent; `IsBestLeft` allows any order among ties, as
`argsort()` does. `Suppresses` is exact (a cross-multiplication), `Iou` a
percentage rounded down.

`Vision` composes it with `ByteTracker` as `_process_batch()` does: `Detect` and
`Suppress` of an image, then `Track`, the whole of `update()` with the detections
above the high threshold, those between the thresholds, and overlaps that are those
of the boxes. Where a Kalman filter predicts its track's box is left open: any box of
`Predictions`. What `ByteTracker` leaves open (which overlaps occur together) is
thus the geometry here.

### CrossCameraMatcher

A gallery entry is the number of the sighting it came from, an identity the number
of the sighting that began it (a uuid in the code). The lists of the code are
only appended to and filtered, so that their order is the order of these numbers,
and all galleries together are one set. `Before` is the order in which the loops of
`observe()` meet the entries, which decides ties. `SeenElsewhere` is the test that
decides between a report and silence; rounding may make the report an exception, after the
galleries have changed (`raised`). The clock is any reading: it is
a wall clock.

### RtspReader

The loop of `frames()` against a camera that is up, down (cannot be opened) or
silent (opens and delivers nothing). A frame that comes too early is dropped: no
step. `reconnect_attempt` stops growing where the delay is the maximum, the four
history variables where the properties need no more.

### Dashboard

The page with its selectors and its timer, one thread per request, and the pool.
`at[r]` is how far a request has got: `sent`, `connecting`, `query`, `put` or
`putbroken` (after an error), `rollback`, `delete`, and the answers `200` and `503`.
`SimpleConnectionPool` is external, and it is cut where it waits for the
database: in `connect()` (`CheckLimit`, `Connect`) and in the rollback of `putconn()`
(`Put`, `Rollback`, `Delete`); another thread may run there. `keyOf` and `used` are
the pool's `_rused` and `_used`, which a step of another thread may have changed;
`lost` counts keys that no request will ever take out again. The increment and the
reading of the key counter in `_getkey()` are one step. `GoDown` breaks every
open connection; nobody is told until a query or a rollback fails. `QueryFails` is a
statement that the database refuses or cancels and that leaves the connection open.
`Stall` is a connection that stops answering (a lock, a server that hangs, a network
that lost it): its request waits until `StallEnds`, possibly for ever, because the pool is
made with a `connect_timeout` and without a `statement_timeout`
(`timeseries_writer.py:118-122` sets one), and `fetch()` in the page has no limit.
`Answered` is therefore a promise to the requests whose connection answers.

## The runs

Deadlock is checked in the runs of `RtspReader` and `Dashboard`, which never stop. The
other models may stop: their bounds on calls, frames and faults are used up, cameras and
threads are dead, or the batcher is stopped.

| Run | Bounds | States | Shows |
|---|---|---|---|
| `redis_streams` | 1 producer with 2 calls of 2 attempts, 2 consumers, count 2, 1 crash, 1 data loss | 97,118 | the Redis broker orders, skips nothing, bounds the copies of retries, implements `MessageBroker` and settles what no crash stranded |
| `kafka_streams` | 2 partitions, 2 calls with keys on one partition or on both, 2 consumers, the group of the workers and that of storage, 1 fault | 259,538 | the Kafka broker orders, commits only what was handed out, skips nothing, implements `CommitLog`, and the group catches up on every partition whose owner can acknowledge |
| `dynamic_batcher` | 2 values, batches of 3, wait 5, poll 2, join 3, 5 submits | 49,394 | items once, in order and in time; `stop()` ends the thread |
| `pipeline` | 1 camera with 2 frames, 2 workers, batches of 2, 1 track id per tracker, 2 faults of which 1 may be a duplicate | 456,890 | nothing is acknowledged before its result is safe; frames end as rows |
| `vision` | 3 candidates in a row, 4 places a track may be predicted at, scores 20, 25, 60 around the thresholds 25 and 60, 5 frames, 4 ids, 3 hits, 1 lost frame | 93,478 | suppression keeps apart and drops with a reason; what stage 1 misses is bounded; one track per object, with its lifecycle and fresh ids |
| `cross_camera_matcher` | 3 cameras in 2 zones, 3 looks in a chain and the null vector, 2 entries, age 1, 3 clock readings, 4 sightings | 951,425 | galleries are the recent past, identities stay apart, one new to a camera is reported |
| `rtsp_reader` | the delays of the code (2 s to 30 s), 3 frames | 3,462 | rate, backoff, frames again |
| `dashboard` | 2 requests at a time, 2 connections (minimum 1, maximum 2), 2 filters, 1 change, 1 fault | 299,202 | no connection shared, every request answered unless its connection stops answering, the chart ends with what is selected |
| `redis_redelivery`, `pipeline_track_ids`, `rtsp_spin`, `dashboard_pool` | as above, smaller where the counterexample is | | disagreements, see below |

Why the bounds are enough. *Redis*: two entries and two consumers are what order,
overlap and skipping need; two attempts give one late copy per call; one crash
and one loss happen in either order, around every step of the other consumer. The
safety properties are also proved without bounds. *Kafka*: two records on one
partition are what order and skipping need, on two partitions what the commit of
one message does to the other; one fault is a request sent again, an expelled member, a
process or a thread that ends with records in hand, around every step of the other
consumer. Exceptions of a `commit()` with nothing to commit are no faults and not bounded, so
that further deaths and rebalances occur. *Batcher*: five items fill a
batch of three and leave one that is cut short by its deadline or by `stop()`;
a wait of 5 needs three polls of 2, the last one cut. *Pipeline*: two frames form
one batch or two, on one worker or two; the second fault can hit what the first one
left. *Vision*: three boxes in a row, of which
neighbours overlap beyond the threshold of the suppression and the outer ones do not, make
overlap intransitive; two more places, between and before them, are predictions for which
the sum over two pairs is best when a pair of 56 % stays apart, so that the case
`MissesBelowTwice` is about, an overlap between 30 and 59 %, does happen; the scores
lie below the filter, between the thresholds and on the upper one; five frames reach
confirmation, loss, recovery and removal. *Matcher*: one identity outgrows its two
entries, likeness forms a chain, entries expire and the clock steps back. *Reader*:
all delays of the backoff occur, and the third frame follows a reconnect.
*Dashboard*: two requests are the one that works and the one that gets between
its steps; one outage already uses the pool up (both connections are lost in
their rollbacks), and one connection that stalls holds a request while the other goes on. The run
of three requests shows what the third one adds.

Symmetry is used for the workers (`pipeline_track_ids`) and for the cameras of one zone
(`cross_camera_matcher`), in runs that check no liveness.

Fairness, and what in the code justifies it:

- `RedisStreams!Fairness`: the poll loops of the consumers (`while True`) are
  scheduled, they acknowledge what they were handed, and a dead consumer is started
  again by an operator. Producers, late commands, crashes and losses promise nothing.
  A worker whose batcher thread has ended and that acknowledges nothing more is left
  to `Pipeline` (`FramesEndAsRows` names it).
- `DynamicBatcher!Fairness`: the threads are scheduled, time passes, `on_batch`
  returns or raises, `join()` ends. Nobody need submit or stop.
- `Pipeline!Fairness`: the loops of workers and storage run, and both are started
  again. Cameras promise nothing.
- `KafkaStreams!Fairness`: the loops run, processes that died are started again, and
  `ack()` is called for what was handled, whether it raises or not; the
  coordinator of the group notices who joins and leaves. A thread that has ended is not
  started again, which is why a `mute` worker stays so until its process dies. Producers,
  requests sent again and rebalances without a reason promise nothing.
- `Dashboard!Fairness`: the page's timer fires, the threads run, answers arrive, and a
  statement ends on a connection that answers, with an error when the connection is
  known to be gone. The database may stay down, and a connection that has stopped
  answering may never answer again: `Answered` and `FreshChart` name both.
- `RtspReader!FairSpec`: the camera's thread runs and time passes. The camera promises
  nothing; `FramesAgain` assumes in its statement that it stays up.

## The proofs

Theorems hold for every value of the constants that the named assumptions admit,
and without the bounds having to be small. Every invariant, every action property and
every refinement that a passing run checks is a theorem. The type invariants and the
inductive invariants below are not listed in the configurations; TLC finds no violation
of them when they are added to those.

**RedisStreamsProofs** (from `ConstantsAssumption`). `TypeCorrect` comes first and
is used everywhere. `OneHolder`, `NothingSkipped` and `InHandIsPending` are not
inductive by themselves: a `Read` may only be known not to hand out an entry twice
when everything handed out lies behind the cursor, and `EnsureGroup` may set the
cursor back to 0 only because a group that does not exist has nothing pending.
`HandedOut` says that, and their conjunction `DeliveryInv` is inductive.
`DeliveredInOrder` and the refinement `RefinesBroker` follow from it step by
step. `PublishOrder` needs `CallsBehind`: no entry and no command in flight is
ahead of the calls made, so that a late copy never lands before the first one of a
later call. `BoundedCopies` counts entries only and is not inductive: a command in
`limbo` becomes an entry at any time. `CountInv` counts both, copies and commands that
wait, and bounds them by the attempts the call has made so far.

**DynamicBatcherProofs** (from `BatcherAssumption`). `Conservation` is inductive
with the types; its core is the associativity of concatenation. `WaitBound`, counted
from the moment the first item is taken out of the queue, and
`JoinOutlastsPoll` need `Timers`: while the thread waits, what is left of the poll
fits into what is left of the batch's deadline and of the join. `FlushReason` and
`RefinesHandoff` are step properties proved from these.

**KafkaStreamsProofs** (from `KafkaAssumption`). `CommittedWasHandled` and
`NothingSkipped` are inductive only together (`GroupInv`): a commit goes as far as the
reader's position, and that what lies between the two is in the reader's hand is what
makes the commit cover nothing that was never handed out; a rebalance keeps it
true by going back to the commit. The end of a process gives its partitions back
(`GroupDies`), that of a thread changes nothing of it (`GroupThreadEnds`). `RefinesCommitLog` needs only the types.
`PublishOrder` needs `Placed`: every payload that nobody doubts is on its partition ahead of
all later ones, or the `flush()` of the newest call is still waiting for it; what
is sent again is appended behind (`StoredKeepsPlace`).

**PipelineProofs** (from `PipelineAssumption`) is the end-to-end argument, in the
order of the data. None of the properties is inductive; each needs what the code between
two calls of the broker relies on:

- `FramesOnDisk`, with the types: `ImageFirst`, the thread that is about to publish a
  reference has saved the image.
- `AckedFramesPublished`: `PublishedInv`, while a thread publishes the events of a
  frame, those that are not on its list any more are on the stream. An update that
  failed half way is no reason to acknowledge, and the frame's events of another
  worker do not count: the witness is one update with all its tracks.
- `NothingDropped`: `MemoryInv`. What a process has in memory is pending under its name,
  and without a fault the converse. `GroupInv` is what makes it inductive: the group
  was handed a prefix of the stream, each entry to one worker, so that what
  `consume()` returns is new to every memory.
- `TrackersInOrder`, an action property: `TrackerInv`. What is still ahead of a thread
  was tracked by nobody and lies behind all its tracker has seen, which needs of
  `MemoryInv` that batch and queue are in the order of the stream (`Sorted`), and that
  a process that starts again has new trackers (`gen`).
- `AckedEventsStored`: `StorageInv`. While storage acknowledges, the rows of
  the whole batch are committed. That the statement stores all of a batch in
  which one event occurs twice is `InsertStores`: of the copies the first (there is a
  least one, `LeastNatural`) is inserted, and the others conflict with it.
- `OneRowPerEvent` is inductive: the conflict of `Insert` is with rows of the
  table and of the batch alike.

The general part of the module is about sequences of entry numbers: what
`RangeOf` and `Sorted` make of `Head`, `Tail`, `SubSeq` and `\o`, all from one lemma
about two sequences in a row (`TwoParts`).

**VisionProofs** (from `DetectorAssumption`, `TrackerAssumption`,
`ThresholdAssumption` and `VisionAssumption`) has three parts.

*The detector.* The loop of `_nms()` compares what it keeps with what is left, never two
kept boxes with each other. That these are apart all the same needs `Ahead`: what is
left is apart from, and no better than, everything kept. With it `KeptApart` and
`SuppressedForReason` are one inductive invariant (`NmsInv`); that overlap is symmetric
(`SuppressesCommutes`) is used where the last kept box is compared with the earlier ones.
Of a box only that no side is negative is assumed.

*The tracker.* `Exchange`: in a matching that no exchange of one or two pairs improves, a
track and a detection the stage left over overlap by less than twice the threshold.
`MissesBelowTwice` is this for stage 1. Stage 3 asks for 0.7, more than twice the 0.3 of
stage 1, so that it never matches a track with the thresholds of
`src/config/constants.py`, whatever the tracks, the detections and their overlaps
are (`StageThreeNeverMatches`, a theorem about the operators of `update()` and not about its
executions). The comments say what the stage is for; the code that would do it has no effect.
`Lifecycle` and `IdsNotReused` follow from `TracksInv`: no
track is matched in two stages (`OneStage`), so that a frame marks it matched or
unmatched exactly once, and either makes of a living track one that is alive or that
does not survive (`MatchedLives`, `UnmatchedLives`).

*The two together.* The composition is an execution of each part: `VisionDetects` says so
of the detector, because an image is begun only when the last one is decided,
`VisionTracks` of the tracker, because the two thresholds part the detections and because
an overlap is a percentage (`IouIsPercent`). What is proved of the parts therefore holds
on the worker: `VisionKeepsApart` and the other theorems named `Vision...`.
`OneObjectOneTrack` needs both parts at once: the three stages and the tracks that
begin use every detection once (`AfterConclude`), and the detections are among the
boxes that `NmsInv` keeps apart.

**CrossCameraMatcherProofs** (from `MatcherAssumption`). `IdentitiesStayInZone` and
`LooksKeptApart` are inductive with the numbering of the sightings (`Numbered`).
`AddKeeps` says what a sighting must fulfil to join an identity; that the most similar
entry fulfils it is the last part of the assumption, that nothing is more like a look than
the look itself. `GalleryIsRecentPast` is inductive with `Numbered` alone; the step
is a count: an entry and those above it are as many as those above it and the new
one (`NewForOld`), so that what `_add_entry()` cuts off is exactly what has
`MaxEntries` newer ones. `NewToCameraReported` follows from `MatcherInv` step by step
(`ReportStep`): the entry that decides is of another camera, or else the camera knows
the identity.

**RtspReaderProofs** (from `ReaderAssumption`). `RateCap` says nothing of the time since
the last frame, which is what `frames()` looks at; `RateInv` adds it to the
intervals of the frames so far. `BackoffPaces` is about the sum of the delays slept,
which changes at the end of a sleep while time passes during it: `BackoffInv` pays for a
sleep with what is left of it, and says which failures `reconnect_attempt` counts. The sum
is a recursive function; that the recursion defines it is proved (`SumsExist`,
`SumsAgree`, `DelaySumDef`) by induction as the statement that a set of
numbers with 0 and all successors is `Nat` (`InductionOnNumbers`).

**DashboardProofs** (from `DashboardAssumption`). `NotShared` is inductive with the types
and with `Connected`, that a request at work has a connection (`PoolInv`). What saves the
pool without a lock is where it gives and takes back: a connection that a request gets was
idle and leaves the idle ones in the same step, or is new and none that is open
(`GivesApart`), and it becomes idle only with the step that ends the request's work
(`ReturnsApart`); what a thread does to the books of another in between does not matter.

Only model-checked: liveness (`EverySettled`, `EveryCommitted`, `AllHanded`,
`StopEnds`, `FramesEndAsRows`, `FramesAgain`, `Answered`, `FreshChart`), which needs
fairness and ENABLED, beyond TLAPS. Of the
type invariants all but two are theorems: that of the detector is part of `NmsInv`, and
that of `RtspReader` only TLC checks, because it says that what is left of a sleep is not
negative. This needs that powers of two are positive, and the provers know of `^` only
that its value is an integer; `RateInv` and `BackoffInv` have the domains of the other
numbers. `CommitLog`, `BatchHandoff` and `MessageBroker` have no theorems of their own:
they are what the components are proved to implement.

## Where code and documentation disagree

Each of these is a run that TLC ends with a counterexample.

1. `AtLeastOnce`: `src/streaming/base.py:57-60` promises that an unacknowledged
   message is redelivered to another consumer. `consume()` reads new entries only
   (`redis_streams.py:84-90`) and nothing claims pending ones; the hook that the
   comment there mentions does not exist in `worker.py`.
2. `TrackIdsGloballyUnique`: `src/inference/tracker.py:268` calls track ids globally
   unique and says they are compared within one process only. Two workers hand out
   the same ids for a camera, and `src/storage/schema.sql:58` counts distinct ids
   over all of them.
3. `NoSpin`: `src/ingestion/rtsp_reader.py:42-43` promises backoff for failing
   reads. Only failing connects are backed off.
4. `PoolBounded`: `src/dashboard/db.py:7` speaks of a bounded pool. The pool class
   is the one without a lock, and it tests its limit with `==` before the new connection is
   counted: three requests that overlap exceed a maximum of two, and beyond the
   maximum the test never holds again.

These came up while the models were written and have no run of their own:

- `docs/decisions/0003-message-queue-choice.md:40` has each frame processed by
  exactly one worker. A retried `publish()` of the reference leaves two entries
  (`BoundedCopies` says how many at most), and two workers may track the frame.
- `src/reid/cross_camera_matcher.py:75-76` reports a match only when the identity was last
  seen on another camera. The code asks the most similar entry (line 103), which need not
  be the newest: when a camera sees an object twice in a row after another camera has seen
  it, both sightings may be reported. `NewToCameraReported` says what does hold of a report.
- `src/inference/batcher.py:9-11` lets `max_wait_ms` pass since the first frame of the
  batch arrived, "which keeps p99 latency bounded", and `docs/decisions/0005-edge-vs-cloud.md:58-59`
  has it cap the added latency. The clock starts when the frame leaves the queue
  (`batcher.py:103`): a frame that is queued while `on_batch` runs waits for the rest of
  it and then for `max_wait_ms`. `WaitBound` is the narrower claim.
- `src/inference/tracker.py:218-220`, `src/config/constants.py:75-77` and
  `docs/diagrams/bytetrack-association.md:42-47` have stage 3 avoid duplicate identities. It
  never matches (`StageThreeNeverMatches`): a detection that stage 1 left unmatched although it
  overlaps a tentative track by up to 59 % begins a track of its own, and the tentative one is
  removed. The run `vision` reaches this, with an overlap of 56 %.
- With Kafka `base.py:57-60` fails in two ways. The commit of one `ack()` settles
  messages that were consumed and not processed, as the comment at
  `kafka_backend.py:82-84` concedes. `CommittedWasHandled` is what is left of the
  promise, and two messages that are in hand when their process dies are among what it
  calls handled. And the second `ack()` of a batch, without any fault, finds nothing new
  to commit and raises (librdkafka's `_NO_OFFSET`): the worker's batcher thread ends, the worker
  goes on polling and keeps its partitions, and what it consumes from then on is
  neither committed nor given to another. `EveryCommitted` names this case (`mute`).
- `src/dashboard/db.py:7-9` returns every connection afterwards. After an outage the
  rollback in `putconn()` raises and the key stays in the pool's books; `MaxConn`
  such keys make every later request fail (`FreshChart` names this case).
- `TRACK_LOW_CONF_THRESHOLD` is 0.1 and the detector filters at 0.25
  (`src/config/constants.py`): the second stage of the tracker never sees
  a detection below 0.25.
- `src/dashboard/api/routes.py:6` reads from the aggregate only; `list_cameras()` reads
  `track_events`.

## What is not modelled

- Kalman filter, embedder, the network and the resizing of the detector: floating-point
  code around external models. What they may answer is left open in the models that
  depend on them. The Ultralytics backend has its suppression inside the library.
- Configuration, logging, the validation of schemas: run once or change no state.
- Dashboard: `list_cameras()` and the page's `populateCameraOptions()`, one request
  that is made once and not repeated; what the rows of the chart add up to.
- Pipeline over Kafka: `Pipeline` uses `MessageBroker`, which Kafka does not
  implement (see above).
- In the models: contents of messages and images, lengths of backoffs of
  `publish()` and of block timeouts, storage's statement timeout (a `WriteBatch` that
  rolls back), the retention policy and the aggregates of the database, loss of the database or of the images.

## Plan

1. (done) `MessageBroker`, `RedisStreams`: on everything else's path; proofs.
2. (done) `BatchHandoff`, `DynamicBatcher`; proofs.
3. (done) `Pipeline`, composing the two abstract specifications.
4. (done) `ByteTracker`, with the bound on what stage 1 misses and the idle stage 3
   proved; `CrossCameraMatcher`; `RtspReader`.
5. (done) `CommitLog`, `KafkaStreams`; `Detector` and its composition `Vision` with the
   tracker, with proofs; `Dashboard`.
6. (done) Proofs of `KafkaStreams`, of the lifecycle in `ByteTracker`, of
   `CrossCameraMatcher`.
7. (done) Proofs of `Pipeline`, `RtspReader`, `Dashboard`, of `BoundedCopies`,
   `OneObjectOneTrack` and `GalleryIsRecentPast`.
8. Prove that the parts of `Pipeline` are the abstract specifications it is composed of:
   each stream a `MessageBroker`, each worker's batches a `BatchHandoff`.
