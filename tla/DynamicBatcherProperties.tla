---------------------- MODULE DynamicBatcherProperties ----------------------
(***************************************************************************)
(* What DynamicBatcher must guarantee.                                     *)
(***************************************************************************)
EXTENDS DynamicBatcher

\* Every variable stays in its domain, and batch_started_at is set exactly
\* while a batch is being collected.
TypeOK ==
    /\ queue \in Seq(Items)
    /\ pending \in Seq(Items)
    /\ age \in Nat \cup {NoBatch}
    /\ age = NoBatch <=> pending = << >>
    /\ pc \in {"new", "check", "get", "on_batch", "last_batch", "done", "dead"}
    /\ left \in 0..MaxPoll
    /\ stopping \in BOOLEAN
    /\ owner \in {"running", "joining", "returned"}
    /\ joinLeft \in 0..JoinTimeout
    /\ submitted \in Seq(Items)
    /\ handed \in Seq(Items)

\* No item is lost, duplicated or overtaken on its way through the queue, the
\* pending batch and on_batch, and the pending batch stays below the maximum.
Conservation ==
    /\ handed \o pending \o queue = submitted
    /\ Len(pending) < MaxBatch

\* No batch is collected for longer than max_wait_ms after batch_started_at, the
\* moment its first item was taken out of the queue, although a poll may end
\* before that time or be cut off by it.  (The time that item was queued while
\* on_batch ran is not counted.  The docstring, src/inference/batcher.py:9-11, has
\* the wait begin when the item arrives.)
WaitBound == age <= MaxWait

\* A batch below the maximum is handed over only when its time is up or the
\* batcher is stopped, and a full one at once.
FlushReason ==
    [][handed' # handed =>
         \/ Len(handed') - Len(handed) = MaxBatch
         \/ age >= MaxWait
         \/ stopping]_vars

\* stop() is noticed within one poll interval: join() never runs into its
\* timeout while the thread waits for an item.
JoinOutlastsPoll == stopping /\ pc = "get" => left < joinLeft

\* The batcher hands items over as BatchHandoff promises.
Handoff == INSTANCE BatchHandoff
ImplementsHandoff == Handoff!Spec

\* Every submitted item reaches on_batch, unless the batcher is stopped or an
\* exception of on_batch has ended the thread.
AllHanded ==
    \A n \in 1..MaxSubmits :
        (Len(submitted) >= n) ~> (Len(handed) >= n \/ stopping \/ pc = "dead")

\* stop() ends the thread, and an item that was taken from the queue is not
\* dropped by it: the pending batch is handed over first.
StopEnds == stopping ~> (pc = "dead" \/ (pc = "done" /\ pending = << >>))
=============================================================================
