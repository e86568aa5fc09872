------------------------ MODULE DynamicBatcherProofs ------------------------
(***************************************************************************)
(* Proofs, for any batch size, waits, timeouts and number of submissions,  *)
(* of the safety properties of DynamicBatcher.                             *)
(*                                                                         *)
(* Time comes in through one invariant, Timers: while the thread polls     *)
(* with a batch collected, the age of the batch and what is left of the    *)
(* poll add up to no more than MaxWait.                                    *)
(***************************************************************************)
EXTENDS DynamicBatcherProperties, SequenceTheorems, TLAPS

-----------------------------------------------------------------------------
(* Sequences.                                                              *)

LEMMA Associative ==
    ASSUME NEW s \in Seq(Items), NEW t \in Seq(Items), NEW u \in Seq(Items)
    PROVE  /\ (s \o t) \o u = s \o (t \o u)
           /\ s \o t \in Seq(Items)
           /\ s \o << >> = s
<1>1. (s \o t) \o u = s \o (t \o u)
  BY ConcatAssociative
<1>2. s \o t \in Seq(Items)
  BY ConcatProperties
<1>3. s \o << >> = s
  BY ConcatEmptySeq
<1> QED
  BY <1>1, <1>2, <1>3

\* Taking the head of t and appending it to s leaves s \o t as it was.
LEMMA MoveHead ==
    ASSUME NEW s \in Seq(Items), NEW t \in Seq(Items), t # << >>
    PROVE  /\ Append(s, Head(t)) \in Seq(Items)
           /\ Len(Append(s, Head(t))) = Len(s) + 1
           /\ Tail(t) \in Seq(Items)
           /\ Append(s, Head(t)) \o Tail(t) = s \o t
<1>1. Head(t) \in Items /\ Tail(t) \in Seq(Items)
  BY HeadTailProperties
<1>2. Append(s, Head(t)) = s \o <<Head(t)>>
  BY <1>1, AppendIsConcat
<1>3. <<Head(t)>> \in Seq(Items)
  BY <1>1
<1>4. t = <<Head(t)>> \o Tail(t)
  OBVIOUS
<1>5. (s \o <<Head(t)>>) \o Tail(t) = s \o (<<Head(t)>> \o Tail(t))
  BY <1>1, <1>3, ConcatAssociative
<1> QED
  BY <1>1, <1>2, <1>4, <1>5, AppendProperties

\* The first part of a concatenation is the prefix of its length.
LEMMA PrefixOfConcat ==
    ASSUME NEW s \in Seq(Items), NEW t \in Seq(Items)
    PROVE  SubSeq(s \o t, 1, Len(s)) = s
<1>1. CASE s = << >>
  BY <1>1, SubSeqEmpty, EmptySeq
<1>2. CASE s # << >>
  <2>1. Len(s) \in Nat \ {0}
    BY <1>2, EmptySeq
  <2>2. 1 \in 1..Len(s) /\ Len(s) \in 1..Len(s)
    BY <2>1
  <2> QED
    BY <2>2, SubSeqOfConcat1, SubSeqFull
<1> QED
  BY <1>1, <1>2

-----------------------------------------------------------------------------
(* Type correctness.                                                       *)

LEMMA PollInRange ==
    ASSUME age \in Nat \cup {NoBatch}
    PROVE  /\ PollTimeout \in 0..MaxPoll
           /\ age # NoBatch /\ age <= MaxWait => age + PollTimeout <= MaxWait
BY BatcherAssumption DEF PollTimeout, TimeLeft, NoBatch

LEMMA TypeInit == Init => TypeOK
<1> SUFFICES ASSUME Init PROVE TypeOK
  OBVIOUS
<1>1. stopping \in BOOLEAN
  BY DEF Init
<1>2. << >> \in Seq(Items)
  OBVIOUS
<1> QED
  BY <1>1, <1>2, BatcherAssumption DEF Init, TypeOK, NoBatch

\* What the three steps that may call on_batch do.
LEMMA FlushTypes ==
    ASSUME TypeOK, NEW batch \in Seq(Items), NEW then \in {"on_batch", "last_batch"},
           Flush(batch, then)
    PROVE  /\ handed' \in Seq(Items)
           /\ pending' = << >> /\ pending' \in Seq(Items)
           /\ age' = NoBatch
           /\ pc' \in {"on_batch", "last_batch"}
BY ConcatProperties DEF Flush, TypeOK

LEMMA TypeNext == TypeOK /\ [Next]_vars => TypeOK'
<1> SUFFICES ASSUME TypeOK, [Next]_vars PROVE TypeOK'
  OBVIOUS
<1> USE BatcherAssumption
<1>1. ASSUME NEW x \in Items, Submit(x) PROVE TypeOK'
  <2>1. Append(queue, x) \in Seq(Items) /\ Append(submitted, x) \in Seq(Items)
    BY AppendProperties DEF TypeOK
  <2> QED
    BY <1>1, <2>1 DEF Submit, TypeOK, ownerVars
<1>2. CASE Start
  BY <1>2 DEF Start, TypeOK, ownerVars
<1>3. CASE Stop
  <2>1. stopping' \in BOOLEAN
    BY <1>3 DEF Stop
  <2> QED
    BY <1>3, <2>1 DEF Stop, TypeOK, threadVars
<1>4. CASE StopReturns
  BY <1>4 DEF StopReturns, TypeOK, threadVars
<1>5. CASE Check
  BY <1>5, PollInRange DEF Check, TypeOK, ownerVars
<1>6. CASE GetItem
  <2> DEFINE batch == Append(pending, Head(queue))
  <2>1. batch \in Seq(Items) /\ batch # << >> /\ queue' \in Seq(Items)
    BY <1>6, HeadTailProperties, AppendProperties DEF GetItem, TypeOK
  <2>2. CASE Len(batch) < MaxBatch /\ pending' = batch /\ pc' = "check"
             /\ age' = (IF pending = << >> THEN 0 ELSE age) /\ handed' = handed
    <3>1. age' \in Nat /\ pending' # << >> /\ pc' = "check"
      BY <2>1, <2>2 DEF TypeOK
    <3>2. age' # NoBatch
      BY <3>1 DEF NoBatch
    <3> QED
      BY <1>6, <2>1, <2>2, <3>1, <3>2 DEF GetItem, TypeOK, ownerVars
  <2>3. CASE Flush(batch, "on_batch")
    BY <1>6, <2>1, <2>3, FlushTypes DEF GetItem, TypeOK, ownerVars
  <2> QED
    BY <1>6, <2>2, <2>3 DEF GetItem
<1>7. CASE GetEmpty
  <2>1. CASE Flush(pending, "on_batch")
    <3>1. pending \in Seq(Items)
      BY DEF TypeOK
    <3> QED
      BY <1>7, <2>1, <3>1, FlushTypes DEF GetEmpty, TypeOK, ownerVars
  <2>2. CASE pc' = "check" /\ UNCHANGED <<pending, age, handed>>
    BY <1>7, <2>2 DEF GetEmpty, TypeOK, ownerVars
  <2> QED
    BY <1>7, <2>1, <2>2 DEF GetEmpty
<1>8. CASE Finish
  <2>1. CASE Flush(pending, "last_batch")
    <3>1. pending \in Seq(Items)
      BY DEF TypeOK
    <3> QED
      BY <1>8, <2>1, <3>1, FlushTypes DEF Finish, TypeOK, ownerVars
  <2>2. CASE pc' = "done" /\ UNCHANGED <<pending, age, handed>>
    BY <1>8, <2>2 DEF Finish, TypeOK, ownerVars
  <2> QED
    BY <1>8, <2>1, <2>2 DEF Finish
<1>9. CASE OnBatchReturns \/ OnBatchRaises
  BY <1>9 DEF OnBatchReturns, OnBatchRaises, TypeOK, ownerVars
<1>10. CASE Tick
  <2>1. left' \in 0..MaxPoll
    BY <1>10 DEF Tick, TypeOK, InOnBatch
  <2>2. /\ age' \in Nat \cup {NoBatch}
        /\ age' = NoBatch <=> age = NoBatch
    BY <1>10 DEF Tick, TypeOK, NoBatch
  <2>3. joinLeft' \in 0..JoinTimeout
    BY <1>10 DEF Tick, TypeOK
  <2> QED
    BY <1>10, <2>1, <2>2, <2>3 DEF Tick, TypeOK
<1>11. CASE UNCHANGED vars
  BY <1>11 DEF vars, threadVars, ownerVars, TypeOK
<1> QED
  BY <1>1, <1>2, <1>3, <1>4, <1>5, <1>6, <1>7, <1>8, <1>9, <1>10, <1>11
     DEF Next, Thread

\* Every variable of the batcher stays in its domain, for all its settings.
THEOREM TypeCorrect == Spec => []TypeOK
BY TypeInit, TypeNext, PTL DEF Spec

-----------------------------------------------------------------------------
(* No item is lost, duplicated or overtaken.                               *)

\* The three steps that may call on_batch: from the front of the uncollected
\* items to the end of the collected ones, and on to on_batch or not.
LEMMA CollectOrHand ==
    ASSUME TypeOK, Conservation, Thread
    PROVE  \/ /\ UNCHANGED <<handed, submitted>>
              /\ pending' \o queue' = pending \o queue
              /\ pending' \in Seq(Items) /\ queue' \in Seq(Items)
              /\ Len(pending') < MaxBatch
           \/ /\ UNCHANGED submitted
              /\ pending' = << >>
              /\ \E batch \in Seq(Items) :
                    /\ handed' = handed \o batch
                    /\ batch \o queue' = pending \o queue
                    /\ queue' \in Seq(Items)
                    /\ Len(batch) \in 1..MaxBatch
                    /\ \/ Len(batch) = MaxBatch
                       \/ age >= MaxWait
                       \/ stopping
<1> USE BatcherAssumption DEF TypeOK, Conservation
<1>1. CASE Check
  BY <1>1 DEF Check, ownerVars
<1>2. CASE GetItem
  <2> DEFINE batch == Append(pending, Head(queue))
  <2>1. /\ batch \in Seq(Items)
        /\ Len(batch) = Len(pending) + 1
        /\ Len(pending) \in Nat
        /\ queue' \in Seq(Items)
        /\ batch \o queue' = pending \o queue
        /\ submitted' = submitted
    <3>1. queue # << >> /\ queue' = Tail(queue) /\ submitted' = submitted
      BY <1>2 DEF GetItem
    <3>2. pending \in Seq(Items) /\ queue \in Seq(Items) /\ Len(pending) \in Nat
      OBVIOUS
    <3> HIDE DEF TypeOK, Conservation
    <3> QED
      BY <3>1, <3>2, MoveHead
  <2>2. CASE Len(batch) < MaxBatch /\ pending' = batch /\ handed' = handed
    BY <2>1, <2>2
  <2>3. CASE Len(batch) >= MaxBatch /\ Flush(batch, "on_batch")
    <3>1. Len(batch) = MaxBatch
      BY <2>1, <2>3
    <3>2. /\ handed' = handed \o batch
          /\ pending' = << >>
          /\ Len(batch) \in 1..MaxBatch
      BY <2>3, <3>1 DEF Flush
    <3> HIDE DEF batch
    <3> QED
      BY <2>1, <3>1, <3>2
  <2> QED
    BY <1>2, <2>2, <2>3 DEF GetItem
<1>3. CASE GetEmpty
  <2>1. CASE pending # << >> /\ TimeLeft = 0 /\ Flush(pending, "on_batch")
    <3>1. age >= MaxWait
      BY <2>1 DEF TimeLeft, NoBatch
    <3>2. Len(pending) \in 1..MaxBatch
      BY <2>1, EmptySeq
    <3> QED
      BY <1>3, <2>1, <3>1, <3>2 DEF Flush, GetEmpty
  <2>2. CASE UNCHANGED <<pending, age, handed>>
    BY <1>3, <2>2 DEF GetEmpty
  <2> QED
    BY <1>3, <2>1, <2>2 DEF GetEmpty
<1>4. CASE Finish
  <2>1. CASE pending # << >> /\ Flush(pending, "last_batch")
    <3>1. Len(pending) \in 1..MaxBatch
      BY <2>1, EmptySeq
    <3> QED
      BY <1>4, <2>1, <3>1 DEF Flush, Finish
  <2>2. CASE UNCHANGED <<pending, age, handed>>
    BY <1>4, <2>2 DEF Finish
  <2> QED
    BY <1>4, <2>1, <2>2 DEF Finish
<1> QED
  BY <1>1, <1>2, <1>3, <1>4 DEF Thread

\* The steps of everybody else leave the collected items alone.
LEMMA OtherSteps ==
    ASSUME TypeOK, [Next]_vars
    PROVE  \/ Thread
           \/ \E x \in Items : Submit(x)
           \/ UNCHANGED <<handed, pending, queue, submitted>>
BY DEF Next, Start, Stop, StopReturns, OnBatchReturns, OnBatchRaises, Tick,
       vars, threadVars, ownerVars

LEMMA ConservationNext ==
    TypeOK /\ Conservation /\ [Next]_vars => Conservation'
<1> SUFFICES ASSUME TypeOK, Conservation, [Next]_vars PROVE Conservation'
  OBVIOUS
<1> USE BatcherAssumption
<1>0. /\ handed \in Seq(Items) /\ pending \in Seq(Items) /\ queue \in Seq(Items)
      /\ handed \o (pending \o queue) = submitted
  <2>1. handed \in Seq(Items) /\ pending \in Seq(Items) /\ queue \in Seq(Items)
    BY DEF TypeOK
  <2>2. (handed \o pending) \o queue = handed \o (pending \o queue)
    BY <2>1, Associative
  <2> QED
    BY <2>1, <2>2 DEF Conservation
<1>1. CASE Thread
  <2>1. CASE /\ UNCHANGED <<handed, submitted>>
             /\ pending' \o queue' = pending \o queue
             /\ pending' \in Seq(Items) /\ queue' \in Seq(Items)
             /\ Len(pending') < MaxBatch
    <3>1. handed \in Seq(Items) /\ pending' \in Seq(Items) /\ queue' \in Seq(Items)
      BY <1>0, <2>1
    <3>2. (handed \o pending') \o queue' = handed \o (pending' \o queue')
      <4>1. PICK p, q : p = pending' /\ q = queue'
        OBVIOUS
      <4>2. handed \in Seq(Items) /\ p \in Seq(Items) /\ q \in Seq(Items)
        BY <3>1, <4>1
      <4>3. (handed \o p) \o q = handed \o (p \o q)
        BY <4>2, ConcatAssociative
      <4> QED
        BY <4>1, <4>3
    <3> QED
      BY <1>0, <2>1, <3>2 DEF Conservation
  <2>2. CASE /\ UNCHANGED submitted
             /\ pending' = << >>
             /\ \E batch \in Seq(Items) :
                   /\ handed' = handed \o batch
                   /\ batch \o queue' = pending \o queue
                   /\ queue' \in Seq(Items)
    <3>1. PICK batch \in Seq(Items) :
             /\ handed' = handed \o batch
             /\ batch \o queue' = pending \o queue
             /\ queue' \in Seq(Items)
      BY <2>2
    <3>2. (handed \o batch) \o queue' = handed \o (batch \o queue')
      <4>1. handed \in Seq(Items) /\ batch \in Seq(Items) /\ queue' \in Seq(Items)
        BY <1>0, <3>1
      <4> QED
        BY <4>1, Associative
    <3>3. handed' \o queue' = submitted
      BY <1>0, <3>1, <3>2
    <3>4. handed' \o << >> = handed'
      BY <1>0, <3>1, Associative
    <3>5. (handed' \o pending') \o queue' = submitted'
      BY <2>2, <3>3, <3>4
    <3>6. Len(pending') < MaxBatch
      BY <2>2
    <3> QED
      BY <3>5, <3>6 DEF Conservation
  <2> QED
    BY <1>1, <2>1, <2>2, CollectOrHand
<1>2. ASSUME NEW x \in Items, Submit(x) PROVE Conservation'
  <2>1. /\ handed \o pending \in Seq(Items)
        /\ <<x>> \in Seq(Items)
        /\ queue \o <<x>> = Append(queue, x)
        /\ submitted \o <<x>> = Append(submitted, x)
    <3>1. handed \o pending \in Seq(Items)
      BY <1>0, ConcatProperties
    <3>2. queue \o <<x>> = Append(queue, x) /\ submitted \o <<x>> = Append(submitted, x)
      BY <1>0, AppendIsConcat DEF TypeOK
    <3> QED
      BY <3>1, <3>2
  <2>2. ((handed \o pending) \o queue) \o <<x>>
          = (handed \o pending) \o (queue \o <<x>>)
    <3>1. PICK before, new : before = handed \o pending /\ new = <<x>>
      OBVIOUS
    <3>2. before \in Seq(Items) /\ queue \in Seq(Items) /\ new \in Seq(Items)
      BY <1>0, <2>1, <3>1
    <3>3. (before \o queue) \o new = before \o (queue \o new)
      BY <3>2, ConcatAssociative
    <3> QED
      BY <3>1, <3>3
  <2> QED
    BY <1>2, <2>1, <2>2 DEF Submit, Conservation
<1>3. CASE UNCHANGED <<handed, pending, queue, submitted>>
  BY <1>3 DEF Conservation
<1> QED
  BY <1>1, <1>2, <1>3, OtherSteps

LEMMA ConservationInit == Init => Conservation
BY BatcherAssumption DEF Init, Conservation

\* What was submitted is what was handed over, then what is being collected,
\* then what is queued: nothing lost, duplicated or overtaken.
THEOREM ConservationAlways == Spec => []Conservation
BY TypeInit, TypeNext, ConservationInit, ConservationNext, PTL DEF Spec

-----------------------------------------------------------------------------
(* Deadlines.                                                              *)

\* A poll never outlasts the deadline of the batch, nothing is collected while
\* on_batch runs, and join() has more time left than the poll it waits for.
Timers ==
    /\ WaitBound
    /\ pc = "get" /\ age # NoBatch => age + left <= MaxWait
    /\ pc \notin {"check", "get"} => age = NoBatch
    /\ JoinOutlastsPoll

LEMMA TimersNext == TypeOK /\ Timers /\ [Next]_vars => Timers'
<1> SUFFICES ASSUME TypeOK, Timers, [Next]_vars PROVE Timers'
  OBVIOUS
<1> USE BatcherAssumption
<1>0. /\ age \in Nat \cup {NoBatch} /\ left \in 0..MaxPoll
      /\ joinLeft \in 0..JoinTimeout /\ MaxWait \in Nat /\ NoBatch = -1
      /\ age = NoBatch <=> pending = << >>
  BY DEF TypeOK, NoBatch
<1>1. ASSUME NEW x \in Items, Submit(x) PROVE Timers'
  BY <1>1 DEF Submit, Timers, WaitBound, JoinOutlastsPoll, ownerVars
<1>2. CASE Start
  BY <1>0, <1>2 DEF Start, Timers, WaitBound, JoinOutlastsPoll, ownerVars
<1>3. CASE Stop
  <2>1. left < joinLeft'
    BY <1>0, <1>3 DEF Stop
  <2> QED
    BY <1>3, <2>1 DEF Stop, Timers, WaitBound, JoinOutlastsPoll, threadVars
<1>4. CASE StopReturns
  BY <1>4 DEF StopReturns, Timers, WaitBound, JoinOutlastsPoll, threadVars
<1>5. CASE Check
  <2>1. ~stopping' /\ pc' = "get" /\ age' = age /\ left' = PollTimeout
    BY <1>5 DEF Check, ownerVars
  <2>2. age <= MaxWait
    BY DEF Timers, WaitBound
  <2>3. age # NoBatch => age + left' <= MaxWait
    BY <1>0, <2>1, <2>2, PollInRange
  <2> QED
    BY <2>1, <2>2, <2>3 DEF Timers, WaitBound, JoinOutlastsPoll
<1>6. CASE GetItem \/ GetEmpty \/ Finish
  <2>1. /\ pc' # "get"
        /\ \/ age' = NoBatch
           \/ pc' = "check" /\ (age' = age \/ age' = 0)
    <3>1. CASE GetItem
      BY <1>0, <3>1 DEF GetItem, Flush
    <3>2. CASE GetEmpty
      BY <1>0, <3>2 DEF GetEmpty, Flush
    <3>3. CASE Finish
      BY <1>0, <3>3 DEF Finish, Flush
    <3> QED
      BY <1>6, <3>1, <3>2, <3>3
  <2> QED
    BY <1>0, <2>1 DEF Timers, WaitBound, JoinOutlastsPoll
<1>7. CASE OnBatchReturns \/ OnBatchRaises
  BY <1>7 DEF OnBatchReturns, OnBatchRaises, InOnBatch, Timers, WaitBound,
              JoinOutlastsPoll
<1>8. CASE Tick
  <2>1. CASE pc = "get" /\ left > 0
    BY <1>0, <1>8, <2>1 DEF Tick, Timers, WaitBound, JoinOutlastsPoll
  <2>2. CASE InOnBatch
    <3>1. pc' = pc /\ pc \notin {"check", "get"} /\ age' = NoBatch
      BY <1>0, <1>8, <2>2 DEF Tick, InOnBatch, Timers
    <3> QED
      BY <1>0, <3>1 DEF Timers, WaitBound, JoinOutlastsPoll
  <2> QED
    BY <1>8, <2>1, <2>2 DEF Tick
<1>9. CASE UNCHANGED vars
  BY <1>9 DEF vars, threadVars, ownerVars, Timers, WaitBound, JoinOutlastsPoll
<1> QED
  BY <1>1, <1>2, <1>3, <1>4, <1>5, <1>6, <1>7, <1>8, <1>9 DEF Next, Thread

LEMMA TimersInit == Init => Timers
BY BatcherAssumption DEF Init, Timers, WaitBound, JoinOutlastsPoll, NoBatch

\* The timeout of the poll, however short _MAX_POLL_INTERVAL_S is, never makes
\* a batch wait longer than max_wait_ms.
THEOREM WaitBoundAlways == Spec => []WaitBound
<1>1. Timers => WaitBound
  BY DEF Timers
<1> QED
  BY <1>1, TypeInit, TypeNext, TimersInit, TimersNext, PTL DEF Spec

\* A stop() that waits longer than one poll never times out on an idle thread.
THEOREM JoinOutlastsPollAlways == Spec => []JoinOutlastsPoll
<1>1. Timers => JoinOutlastsPoll
  BY DEF Timers
<1> QED
  BY <1>1, TypeInit, TypeNext, TimersInit, TimersNext, PTL DEF Spec

-----------------------------------------------------------------------------
(* Batches.                                                                *)

LEMMA FlushReasonStep ==
    ASSUME TypeOK, Conservation, [Next]_vars, handed' # handed
    PROVE  \/ Len(handed') - Len(handed) = MaxBatch
           \/ age >= MaxWait
           \/ stopping
<1>1. Thread
  BY OtherSteps DEF Submit
<1>2. PICK batch \in Seq(Items) :
         /\ handed' = handed \o batch
         /\ Len(batch) = MaxBatch \/ age >= MaxWait \/ stopping
  BY <1>1, CollectOrHand
<1>3. Len(handed') = Len(handed) + Len(batch)
  BY <1>2, ConcatProperties DEF TypeOK
<1>4. Len(handed) \in Nat /\ Len(batch) \in Nat
  BY <1>2 DEF TypeOK
<1> QED
  BY <1>2, <1>3, <1>4

\* A batch is handed over only when it is full, due or the last one.
THEOREM FlushReasonAlways == Spec => FlushReason
<1>1. TypeOK /\ Conservation /\ [Next]_vars
        => [handed' # handed =>
              \/ Len(handed') - Len(handed) = MaxBatch
              \/ age >= MaxWait
              \/ stopping]_vars
  BY FlushReasonStep
<1> QED
  BY <1>1, TypeCorrect, ConservationAlways, PTL DEF Spec, FlushReason

LEMMA HandoffStep ==
    ASSUME TypeOK, Conservation, Conservation', [Next]_vars
    PROVE  [Handoff!Next]_(Handoff!vars)
<1> USE BatcherAssumption
<1>1. CASE Thread
  <2>1. CASE UNCHANGED <<handed, submitted>>
    BY <2>1 DEF Handoff!vars
  <2>2. CASE /\ UNCHANGED submitted
             /\ pending' = << >>
             /\ \E batch \in Seq(Items) :
                   /\ handed' = handed \o batch
                   /\ queue' \in Seq(Items)
                   /\ Len(batch) \in 1..MaxBatch
    <3>1. PICK batch \in Seq(Items) :
             /\ handed' = handed \o batch
             /\ queue' \in Seq(Items)
             /\ Len(batch) \in 1..MaxBatch
      BY <2>2
    <3>2. /\ handed' \in Seq(Items)
          /\ Len(handed') = Len(handed) + Len(batch)
          /\ Len(handed) \in Nat
      BY <3>1, ConcatProperties DEF TypeOK
    <3>3. handed' \o << >> = handed'
      BY <3>2, Associative
    <3>4. submitted = handed' \o queue'
      BY <2>2, <3>3 DEF Conservation
    <3>5. SubSeq(submitted, 1, Len(handed')) = handed'
      BY <3>1, <3>2, <3>4, PrefixOfConcat
    <3>6. Len(handed') <= Len(submitted)
      BY <3>1, <3>2, <3>4, ConcatProperties
    <3>7. Handoff!Hand(Len(batch))
      BY <2>2, <3>2, <3>5, <3>6 DEF Handoff!Hand
    <3> QED
      BY <3>1, <3>7 DEF Handoff!Next
  <2> QED
    BY <1>1, <2>1, <2>2, CollectOrHand
<1>2. ASSUME NEW x \in Items, Submit(x) PROVE [Handoff!Next]_(Handoff!vars)
  BY <1>2 DEF Submit, Handoff!Submit, Handoff!Next
<1>3. CASE UNCHANGED <<handed, pending, queue, submitted>>
  BY <1>3 DEF Handoff!vars
<1> QED
  BY <1>1, <1>2, <1>3, OtherSteps

\* The threads, polls and timers of the batcher implement the plain handoff.
THEOREM RefinesHandoff == Spec => ImplementsHandoff
<1>1. Init => Handoff!Init
  BY DEF Init, Handoff!Init
<1> QED
  BY <1>1, TypeInit, TypeNext, ConservationInit, ConservationNext, HandoffStep,
     PTL DEF Spec, ImplementsHandoff, Handoff!Spec
=============================================================================
