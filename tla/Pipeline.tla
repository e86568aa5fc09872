------------------------------ MODULE Pipeline ------------------------------
(***************************************************************************)
(* The services around the broker: one ingestion thread per camera         *)
(* (src/ingestion/), inference workers sharing one consumer group          *)
(* (src/inference/worker.py) and the storage writer (src/storage/).        *)
(*                                                                         *)
(* The streams raw_frames and track_events are two instances of            *)
(* MessageBroker, whose Redeliver step never happens (RedisStreams shows   *)
(* that Redis implements the rest).  What a retried publish() adds to that *)
(* is here: LateFrame and LateEvent append once more what was already      *)
(* given to publish().  The DynamicBatcher of a worker is its BatchHandoff. *)
(*                                                                         *)
(* A frame is <<camera, n>>, a track id <<camera, n>>: both carry only     *)
(* what the code puts in.  `by' names the tracker behind a track: the      *)
(* worker and the number of times its process was started.                 *)
(***************************************************************************)
EXTENDS Naturals, Sequences, FiniteSets

CONSTANTS Cameras, Workers, Storage,
          MaxBatch,     \* max_batch_size
          MaxFrames,    \* bound: frames per camera
          MaxTracks,    \* bound: track ids per tracker
          MaxLate,      \* bound: duplicates made by retried publishes
          MaxFaults     \* bound: failures and crashes, duplicates included

ASSUME PipelineAssumption ==
    /\ MaxBatch \in Nat \ {0}
    /\ MaxFrames \in Nat /\ MaxTracks \in Nat
    /\ MaxLate \in Nat /\ MaxFaults \in Nat

VARIABLES
    captured, camera, saved,          \* ingestion: frames read, where the
                                      \* thread is, images in the frame store
    rawLog, rawPending, rawAcked,     \* the stream raw_frames
    up, gen,                          \* running workers, number of starts
    queue, batch, thread, todo,       \* the batcher's items, the items and
                                      \* the state of on_batch, its events
    ids,                              \* ids[w][k]: the track id counter
    tracked, made,                    \* history: tracker updates, and events
                                      \* given to publish()
    evLog, evPending, evAcked,        \* the stream track_events
    stage, held,                      \* the storage process, its messages
    rows,                             \* <<event, entry it was read from>>
    late, faults                      \* counters for the bounds

ingestVars == <<captured, camera, saved>>
rawVars == <<rawLog, rawPending, rawAcked>>
workerVars == <<up, gen, queue, batch, thread, todo, ids, tracked, made>>
eventVars == <<evLog, evPending, evAcked>>
storageVars == <<stage, held, rows>>
vars == <<ingestVars, rawVars, workerVars, eventVars, storageVars, late, faults>>

Frames == Cameras \X (Nat \ {0})
TrackEvents == [entry : Nat \ {0}, by : Workers \X Nat,
                track : Cameras \X (Nat \ {0})]

Raw == INSTANCE MessageBroker
         WITH Payloads <- Frames, Consumers <- Workers,
              log <- rawLog, pending <- rawPending, acked <- rawAcked
Events == INSTANCE MessageBroker
            WITH Payloads <- TrackEvents, Consumers <- {Storage},
                 log <- evLog, pending <- evPending, acked <- evAcked

RangeOf(s) == {s[j] : j \in DOMAIN s}

Init ==
    /\ captured = [k \in Cameras |-> 0]
    /\ camera = [k \in Cameras |-> "reading"]
    /\ saved = {}
    /\ Raw!Init
    /\ up = {}
    /\ gen = [w \in Workers |-> 0]
    /\ queue = [w \in Workers |-> << >>]
    /\ batch = [w \in Workers |-> << >>]
    /\ thread = [w \in Workers |-> "idle"]
    /\ todo = [w \in Workers |-> {}]
    /\ ids = [w \in Workers |-> [k \in Cameras |-> 0]]
    /\ tracked = {} /\ made = {}
    /\ Events!Init
    /\ stage = "down" /\ held = << >> /\ rows = {}
    /\ late = 0 /\ faults = 0

Fault == late + faults < MaxFaults /\ faults' = faults + 1

\* What was given to publish() before is appended once more.
Duplicate == late < MaxLate /\ late + faults < MaxFaults /\ late' = late + 1

-----------------------------------------------------------------------------
(* Ingestion: FramePublisher.run_forever(), one thread per camera.         *)

\* Mutant: the reference is published without the image.
SavesNothing(f) == saved
Save(f) == saved \cup {f}

\* The reader yields a frame and FrameStore.save() writes its image.
Capture(k) ==
    /\ camera[k] = "reading"
    /\ captured[k] < MaxFrames
    /\ captured' = [captured EXCEPT ![k] = @ + 1]
    /\ saved' = Save(<<k, captured[k] + 1>>)
    /\ camera' = [camera EXCEPT ![k] = "saved"]
    /\ UNCHANGED <<rawVars, workerVars, eventVars, storageVars, late, faults>>

PublishFrame(k) ==
    /\ camera[k] = "saved"
    /\ Raw!Publish(<<k, captured[k]>>)
    /\ camera' = [camera EXCEPT ![k] = "reading"]
    /\ UNCHANGED <<captured, saved, workerVars, eventVars, storageVars, late, faults>>

\* save() or publish() raises: the thread of this camera is gone, the process
\* and the other cameras stay.
CameraDies(k) ==
    /\ Fault
    /\ camera[k] # "dead"
    /\ camera' = [camera EXCEPT ![k] = "dead"]
    /\ UNCHANGED <<captured, saved, rawVars, workerVars, eventVars, storageVars, late>>

LateFrame(f) ==
    /\ Duplicate
    /\ Raw!Publish(f)
    /\ UNCHANGED <<ingestVars, workerVars, eventVars, storageVars, faults>>

-----------------------------------------------------------------------------
(* Inference: InferenceWorker.                                             *)

\* A new process: no trackers, an empty batcher.
WorkerStart(w) ==
    /\ w \notin up
    /\ up' = up \cup {w}
    /\ gen' = [gen EXCEPT ![w] = @ + 1]
    /\ ids' = [ids EXCEPT ![w] = [k \in Cameras |-> 0]]
    /\ UNCHANGED <<ingestVars, rawVars, queue, batch, thread, todo, tracked, made,
                   eventVars, storageVars, late, faults>>

\* Without redelivery a group has seen the entries up to its cursor.
RawCursor == Cardinality(Raw!Delivered)
EventCursor == Cardinality(Events!Delivered)

\* Mutant: the last message of an answer is not submitted.
SubmittedButLast(n) == [j \in 1..(n - 1) |-> RawCursor + j]
Submitted(n) == [j \in 1..n |-> RawCursor + j]

\* The main thread: consume(), and submit() every message to the batcher,
\* whether or not the batcher's thread is still there.
ConsumeFrames(w) ==
    /\ w \in up
    /\ \E n \in 1..(Len(rawLog) - RawCursor) :
          /\ Raw!Deliver(w, (RawCursor + 1)..(RawCursor + n))
          /\ queue' = [queue EXCEPT ![w] = @ \o Submitted(n)]
    /\ UNCHANGED <<ingestVars, up, gen, batch, thread, todo, ids, tracked, made,
                   eventVars, storageVars, late, faults>>

\* Mutants: a batch that stays queued; a batcher that waits for a full batch.
StayQueued(s, n) == s
FullOnly == {MaxBatch}

Unqueued(s, n) == SubSeq(s, n + 1, Len(s))
BatchSizes == 1..MaxBatch

\* The batcher's thread calls _process_batch(): it loads the images, which are
\* there (FramesOnDisk), and runs the detector.
TakeBatch(w) ==
    /\ w \in up
    /\ thread[w] = "idle"
    /\ \E n \in BatchSizes :
          /\ n <= Len(queue[w])
          /\ queue' = [queue EXCEPT ![w] = Unqueued(@, n)]
          /\ batch' = [batch EXCEPT ![w] = SubSeq(queue[w], 1, n)]
    /\ thread' = [thread EXCEPT ![w] = "frame"]
    /\ UNCHANGED <<ingestVars, rawVars, up, gen, todo, ids, tracked, made,
                   eventVars, storageVars, late, faults>>

\* The first frame of the batch goes to the tracker of its camera, which may
\* allocate ids and answers with some of the tracks it knows.
UpdateTracker(w) ==
    /\ thread[w] = "frame"
    /\ LET i == Head(batch[w])
           k == rawLog[i][1]
       IN  \E top \in ids[w][k]..MaxTracks :
             \E tracks \in SUBSET ({k} \X (1..top)) :
                /\ {k} \X ((ids[w][k] + 1)..top) \subseteq tracks
                /\ ids' = [ids EXCEPT ![w][k] = top]
                /\ todo' = [todo EXCEPT ![w] = tracks]
                /\ tracked' = tracked \cup
                     {[entry |-> i, by |-> <<w, gen[w]>>, tracks |-> tracks]}
    /\ thread' = [thread EXCEPT ![w] = "events"]
    /\ UNCHANGED <<ingestVars, rawVars, up, gen, queue, batch, made,
                   eventVars, storageVars, late, faults>>

EventOf(w, t) == [entry |-> Head(batch[w]), by |-> <<w, gen[w]>>, track |-> t]

\* Mutant: an event whose publish() raised is skipped, and the thread goes on.
GoesOn == "events"
AfterRaise == "dead"

\* publish() of one TrackEvent returns, or raises and ends the thread.
PublishEvent(w) ==
    /\ thread[w] = "events"
    /\ \E t \in todo[w] :
          /\ made' = made \cup {EventOf(w, t)}
          /\ todo' = [todo EXCEPT ![w] = @ \ {t}]
          /\ \/ Events!Publish(EventOf(w, t)) /\ UNCHANGED <<thread, faults>>
             \/ /\ Fault
                /\ thread' = [thread EXCEPT ![w] = AfterRaise]
                /\ UNCHANGED eventVars
    /\ UNCHANGED <<ingestVars, rawVars, up, gen, queue, batch, ids, tracked,
                   storageVars, late>>

\* All events of the frame are out: ack(), and on to the next frame.
AckFrame(w) ==
    /\ thread[w] = "events"
    /\ todo[w] = {}
    /\ Raw!Ack(w, Head(batch[w]))
    /\ batch' = [batch EXCEPT ![w] = Tail(@)]
    /\ thread' = [thread EXCEPT ![w] = IF Len(batch[w]) = 1 THEN "idle" ELSE "frame"]
    /\ UNCHANGED <<ingestVars, up, gen, queue, todo, ids, tracked, made,
                   eventVars, storageVars, late, faults>>

\* The detector, the tracker or ack() raises in _process_batch(): nothing
\* catches it.  The batcher's thread ends; the process goes on consuming.
BatchFails(w) ==
    /\ Fault
    /\ thread[w] \in {"frame", "events"}
    /\ thread' = [thread EXCEPT ![w] = "dead"]
    /\ UNCHANGED <<ingestVars, rawVars, up, gen, queue, batch, todo, ids, tracked,
                   made, eventVars, storageVars, late>>

\* The process dies, and with it the batcher's items and the trackers.
WorkerCrash(w) ==
    /\ Fault
    /\ w \in up
    /\ up' = up \ {w}
    /\ queue' = [queue EXCEPT ![w] = << >>]
    /\ batch' = [batch EXCEPT ![w] = << >>]
    /\ todo' = [todo EXCEPT ![w] = {}]
    /\ thread' = [thread EXCEPT ![w] = "idle"]
    /\ UNCHANGED <<ingestVars, rawVars, gen, ids, tracked, made,
                   eventVars, storageVars, late>>

LateEvent(e) ==
    /\ Duplicate
    /\ Events!Publish(e)
    /\ UNCHANGED <<ingestVars, rawVars, workerVars, storageVars, faults>>

-----------------------------------------------------------------------------
(* Storage: the loop of src/storage/main.py around TimeSeriesWriter.       *)

StorageStart ==
    /\ stage = "down"
    /\ stage' = "polling"
    /\ UNCHANGED <<held, rows, ingestVars, rawVars, workerVars, eventVars, late, faults>>

ConsumeEvents ==
    /\ stage = "polling"
    /\ \E n \in 1..(Len(evLog) - EventCursor) :
          /\ Events!Deliver(Storage, (EventCursor + 1)..(EventCursor + n))
          /\ held' = [j \in 1..n |-> EventCursor + j]
    /\ stage' = "writing"
    /\ UNCHANGED <<rows, ingestVars, rawVars, workerVars, late, faults>>

\* Mutant: the statement without its ON CONFLICT clause and the key.
InsertAll(new) == rows \cup new

\* INSERT ... ON CONFLICT (event_id) DO NOTHING.
Insert(new) ==
    rows \cup {r \in new :
                 /\ \A old \in rows : old[1] # r[1]
                 /\ \A o \in new : o[1] = r[1] => r[2] <= o[2]}

\* Mutant: a write that fails is only logged, and its messages acknowledged.
WriteSkipped == stage' = "acking" /\ UNCHANGED held
WriteFails == stage' = "down" /\ held' = << >>

\* write_batch() commits the whole batch, or rolls it back and raises, which
\* ends the process.
WriteBatch ==
    /\ stage = "writing"
    /\ \/ /\ rows' = Insert({<<evLog[i], i>> : i \in RangeOf(held)})
          /\ stage' = "acking"
          /\ UNCHANGED <<held, faults>>
       \/ Fault /\ WriteFails /\ UNCHANGED rows
    /\ UNCHANGED <<ingestVars, rawVars, workerVars, eventVars, late>>

AckEvent ==
    /\ stage = "acking"
    /\ Events!Ack(Storage, Head(held))
    /\ held' = Tail(held)
    /\ stage' = IF Len(held) = 1 THEN "polling" ELSE "acking"
    /\ UNCHANGED <<rows, ingestVars, rawVars, workerVars, late, faults>>

StorageCrash ==
    /\ Fault
    /\ stage # "down"
    /\ stage' = "down" /\ held' = << >>
    /\ UNCHANGED <<rows, ingestVars, rawVars, workerVars, eventVars, late>>

-----------------------------------------------------------------------------
Ingest(k) == Capture(k) \/ PublishFrame(k)
BatchStep(w) == TakeBatch(w) \/ UpdateTracker(w) \/ PublishEvent(w) \/ AckFrame(w)
StorageStep == StorageStart \/ ConsumeEvents \/ WriteBatch \/ AckEvent

Next ==
    \/ \E k \in Cameras : Ingest(k) \/ CameraDies(k)
    \/ \E f \in saved : LateFrame(f)
    \/ \E w \in Workers :
          \/ WorkerStart(w) \/ ConsumeFrames(w) \/ BatchStep(w)
          \/ BatchFails(w) \/ WorkerCrash(w)
    \/ \E e \in made : LateEvent(e)
    \/ StorageStep \/ StorageCrash

Spec == Init /\ [][Next]_vars

\* The threads of the services run, and an operator starts dead processes
\* again.  The cameras promise nothing.
Fairness ==
    /\ \A w \in Workers :
          /\ WF_vars(WorkerStart(w))
          /\ WF_vars(ConsumeFrames(w))
          /\ WF_vars(BatchStep(w))
    /\ WF_vars(StorageStep)

FairSpec == Spec /\ Fairness
=============================================================================
