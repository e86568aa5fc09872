--------------------------- MODULE DynamicBatcher ---------------------------
(***************************************************************************)
(* DynamicBatcher (src/inference/batcher.py): callers of submit(), the     *)
(* background thread that collects items into batches, and the owner that  *)
(* calls stop().                                                           *)
(*                                                                         *)
(* Time is discrete and kept in timers.  The thread's own statements take  *)
(* no time: it passes only while the thread waits in Queue.get() or is in  *)
(* on_batch, which may take as long as it likes or raise.                  *)
(***************************************************************************)
EXTENDS Integers, Sequences

CONSTANTS Items,
          MaxBatch,     \* max_batch_size
          MaxWait,      \* max_wait_ms, in units of time
          MaxPoll,      \* _MAX_POLL_INTERVAL_S
          JoinTimeout,  \* the timeout_s of stop()
          MaxSubmits    \* bound: calls of submit()

\* The constructor's checks; 5 s and 0.1 s for the last two in the code.
ASSUME BatcherAssumption ==
    /\ MaxBatch \in Nat \ {0}
    /\ MaxWait \in Nat
    /\ MaxPoll \in Nat \ {0}
    /\ JoinTimeout \in Nat
    /\ MaxPoll < JoinTimeout
    /\ MaxSubmits \in Nat

VARIABLES
    queue,     \* submitted and not yet taken by the thread
    pending,   \* the batch being collected
    age,       \* time since batch_started_at, or NoBatch for None
    pc,        \* where the thread is
    left,      \* what is left of the timeout of Queue.get()
    stopping,  \* _stop_event
    owner,     \* the thread that calls stop()
    joinLeft,  \* what is left of the timeout of join()
    submitted, \* all items given to submit(), in order
    handed     \* all items given to on_batch, in order

threadVars == <<queue, pending, age, pc, left, handed>>
ownerVars == <<stopping, owner, joinLeft>>
vars == <<threadVars, ownerVars, submitted>>

NoBatch == -1

Init ==
    /\ queue = << >>
    /\ pending = << >>
    /\ age = NoBatch
    /\ pc = "new"
    /\ left = 0
    /\ stopping = FALSE
    /\ owner = "running"
    /\ joinLeft = 0
    /\ submitted = << >>
    /\ handed = << >>

-----------------------------------------------------------------------------
(* The owner.                                                              *)

Submit(x) ==
    /\ Len(submitted) < MaxSubmits
    /\ submitted' = Append(submitted, x)
    /\ queue' = Append(queue, x)
    /\ UNCHANGED <<pending, age, pc, left, handed, ownerVars>>

Start ==
    /\ pc = "new"
    /\ owner = "running"
    /\ pc' = "check"
    /\ UNCHANGED <<queue, pending, age, left, handed, ownerVars, submitted>>

\* stop() up to the join, which needs a started thread.
Stop ==
    /\ owner = "running"
    /\ pc # "new"
    /\ stopping' = TRUE
    /\ owner' = "joining"
    /\ joinLeft' = JoinTimeout
    /\ UNCHANGED <<threadVars, submitted>>

\* join() returns when the thread has ended, and silently on its timeout.
StopReturns ==
    /\ owner = "joining"
    /\ pc \in {"done", "dead"} \/ joinLeft = 0
    /\ owner' = "returned"
    /\ UNCHANGED <<threadVars, stopping, joinLeft, submitted>>

-----------------------------------------------------------------------------
(* The thread, _run().                                                     *)

TimeLeft == IF age < MaxWait THEN MaxWait - age ELSE 0

\* Mutant: a poll that overruns the deadline of the batch.
PollIgnoresDeadline == MaxPoll

PollTimeout ==
    IF age = NoBatch \/ TimeLeft > MaxPoll THEN MaxPoll ELSE TimeLeft

\* The head of the loop, up to the call of Queue.get().
Check ==
    /\ pc = "check"
    /\ ~stopping
    /\ pc' = "get"
    /\ left' = PollTimeout
    /\ UNCHANGED <<queue, pending, age, handed, ownerVars, submitted>>

\* Mutant: pending = [] forgotten after the flush.
FlushKeepsPending(batch, then) ==
    /\ handed' = handed \o batch
    /\ pending' = batch
    /\ age' = NoBatch
    /\ pc' = then

\* _flush() of a nonempty batch: on_batch is called with it.  The caller goes
\* on at `then' when on_batch returns.
Flush(batch, then) ==
    /\ handed' = handed \o batch
    /\ pending' = << >>
    /\ age' = NoBatch
    /\ pc' = then

\* Queue.get() returns an item.
GetItem ==
    /\ pc = "get"
    /\ queue # << >>
    /\ queue' = Tail(queue)
    /\ LET batch == Append(pending, Head(queue)) IN
       \/ /\ Len(batch) < MaxBatch
          /\ pending' = batch
          /\ age' = IF pending = << >> THEN 0 ELSE age
          /\ pc' = "check"
          /\ UNCHANGED handed
       \/ /\ Len(batch) >= MaxBatch
          /\ Flush(batch, "on_batch")
    /\ UNCHANGED <<left, ownerVars, submitted>>

\* Mutants: a timed-out poll that flushes whatever is there; one that never
\* flushes; a poll that blocks without a timeout while nothing is collected.
GetEmptyFlushes ==
    /\ pc = "get" /\ queue = << >> /\ left = 0
    /\ \/ pending # << >> /\ Flush(pending, "on_batch")
       \/ pending = << >> /\ pc' = "check" /\ UNCHANGED <<pending, age, handed>>
    /\ UNCHANGED <<queue, left, ownerVars, submitted>>

GetEmptyNeverFlushes ==
    /\ pc = "get" /\ queue = << >> /\ left = 0
    /\ pc' = "check"
    /\ UNCHANGED <<queue, pending, age, left, handed, ownerVars, submitted>>

GetEmptyBlocks ==
    /\ pc = "get" /\ queue = << >> /\ left = 0
    /\ pending # << >>
    /\ \/ TimeLeft = 0 /\ Flush(pending, "on_batch")
       \/ TimeLeft > 0 /\ pc' = "check" /\ UNCHANGED <<pending, age, handed>>
    /\ UNCHANGED <<queue, left, ownerVars, submitted>>

\* Queue.get() raises Empty: its timeout expired with nothing in the queue.
GetEmpty ==
    /\ pc = "get"
    /\ queue = << >>
    /\ left = 0
    /\ \/ /\ pending # << >> /\ TimeLeft = 0
          /\ Flush(pending, "on_batch")
       \/ /\ pending = << >> \/ TimeLeft > 0
          /\ pc' = "check"
          /\ UNCHANGED <<pending, age, handed>>
    /\ UNCHANGED <<queue, left, ownerVars, submitted>>

\* The loop ends: what was collected is flushed, what is queued stays queued.
Finish ==
    /\ pc = "check"
    /\ stopping
    /\ \/ /\ pending # << >>
          /\ Flush(pending, "last_batch")
       \/ /\ pending = << >>
          /\ pc' = "done"
          /\ UNCHANGED <<pending, age, handed>>
    /\ UNCHANGED <<queue, left, ownerVars, submitted>>

InOnBatch == pc \in {"on_batch", "last_batch"}

OnBatchReturns ==
    /\ InOnBatch
    /\ pc' = IF pc = "on_batch" THEN "check" ELSE "done"
    /\ UNCHANGED <<queue, pending, age, left, handed, ownerVars, submitted>>

\* Nothing catches an exception of on_batch: it ends the thread.
OnBatchRaises ==
    /\ InOnBatch
    /\ pc' = "dead"
    /\ UNCHANGED <<queue, pending, age, left, handed, ownerVars, submitted>>

-----------------------------------------------------------------------------
\* One unit of time.
Tick ==
    /\ \/ pc = "get" /\ queue = << >> /\ left > 0
       \/ InOnBatch /\ joinLeft > 0
    /\ left' = IF pc = "get" THEN left - 1 ELSE left
    /\ age' = IF age = NoBatch THEN NoBatch ELSE age + 1
    /\ joinLeft' = IF joinLeft > 0 THEN joinLeft - 1 ELSE 0
    /\ UNCHANGED <<queue, pending, pc, handed, stopping, owner, submitted>>

Thread == Check \/ GetItem \/ GetEmpty \/ Finish

Next ==
    \/ \E x \in Items : Submit(x)
    \/ Start \/ Stop \/ StopReturns
    \/ Thread \/ OnBatchReturns \/ OnBatchRaises
    \/ Tick

Spec == Init /\ [][Next]_vars

\* The thread is scheduled, on_batch comes back, join() notices its end or
\* its timeout, and time passes.  The owner starts the thread and need not
\* ever stop it.
Fairness ==
    /\ WF_vars(Start)
    /\ WF_vars(Thread)
    /\ WF_vars(OnBatchReturns \/ OnBatchRaises)
    /\ WF_vars(StopReturns)
    /\ WF_vars(Tick)

FairSpec == Spec /\ Fairness
=============================================================================
