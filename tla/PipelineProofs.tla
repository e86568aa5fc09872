--------------------------- MODULE PipelineProofs ---------------------------
(***************************************************************************)
(* Proofs, for any number of cameras, workers, frames, tracks, duplicates  *)
(* and faults, of what the services guarantee together.                    *)
(***************************************************************************)
EXTENDS PipelineProperties, FiniteSetTheorems, SequenceTheorems,
        WellFoundedInduction, TLAPS

-----------------------------------------------------------------------------
(* Which steps touch which part of the state.                              *)

LEMMA IngestSteps ==
    ASSUME [Next]_vars
    PROVE  \/ \E k \in Cameras : Capture(k) \/ PublishFrame(k) \/ CameraDies(k)
           \/ UNCHANGED <<captured, camera, saved>>
<1>1. CASE UNCHANGED vars
  BY <1>1 DEF vars, ingestVars
<1>2. ASSUME NEW w \in Workers,
             \/ WorkerStart(w) \/ ConsumeFrames(w) \/ BatchStep(w)
             \/ BatchFails(w) \/ WorkerCrash(w)
      PROVE  UNCHANGED <<captured, camera, saved>>
  BY <1>2 DEF WorkerStart, ConsumeFrames, BatchStep, BatchFails, WorkerCrash,
              TakeBatch, UpdateTracker, PublishEvent, AckFrame, ingestVars
<1>3. ASSUME \/ \E f \in saved : LateFrame(f)
             \/ \E e \in made : LateEvent(e)
             \/ StorageStep \/ StorageCrash
      PROVE  UNCHANGED <<captured, camera, saved>>
  BY <1>3 DEF LateFrame, LateEvent, StorageStep, StorageStart, ConsumeEvents,
              WriteBatch, AckEvent, StorageCrash, ingestVars
<1> QED
  BY <1>1, <1>2, <1>3 DEF Next, Ingest

LEMMA RawSteps ==
    ASSUME [Next]_vars
    PROVE  \/ \E k \in Cameras : PublishFrame(k)
           \/ \E f \in saved : LateFrame(f)
           \/ \E w \in Workers : ConsumeFrames(w) \/ AckFrame(w)
           \/ UNCHANGED <<rawLog, rawPending, rawAcked>>
<1>1. CASE UNCHANGED vars
  BY <1>1 DEF vars, rawVars
<1>2. ASSUME NEW w \in Workers,
             \/ WorkerStart(w) \/ TakeBatch(w) \/ UpdateTracker(w)
             \/ PublishEvent(w) \/ BatchFails(w) \/ WorkerCrash(w)
      PROVE  UNCHANGED <<rawLog, rawPending, rawAcked>>
  BY <1>2 DEF WorkerStart, BatchFails, WorkerCrash,
              TakeBatch, UpdateTracker, PublishEvent, rawVars
<1>3. ASSUME \/ \E k \in Cameras : Capture(k) \/ CameraDies(k)
             \/ \E e \in made : LateEvent(e)
             \/ StorageStep \/ StorageCrash
      PROVE  UNCHANGED <<rawLog, rawPending, rawAcked>>
  BY <1>3 DEF Capture, CameraDies, LateEvent, StorageStep, StorageStart,
              ConsumeEvents, WriteBatch, AckEvent, StorageCrash, rawVars
<1> QED
  BY <1>1, <1>2, <1>3 DEF Next, Ingest, BatchStep

LEMMA WorkerSteps ==
    ASSUME [Next]_vars
    PROVE  \/ \E w \in Workers :
                 \/ WorkerStart(w) \/ ConsumeFrames(w) \/ TakeBatch(w)
                 \/ UpdateTracker(w) \/ PublishEvent(w) \/ AckFrame(w)
                 \/ BatchFails(w) \/ WorkerCrash(w)
           \/ UNCHANGED <<up, gen, queue, batch, thread, todo, ids, tracked, made>>
<1>1. CASE UNCHANGED vars
  BY <1>1 DEF vars, workerVars
<1>2. ASSUME \/ \E k \in Cameras : Ingest(k) \/ CameraDies(k)
             \/ \E f \in saved : LateFrame(f)
             \/ \E e \in made : LateEvent(e)
             \/ StorageStep \/ StorageCrash
      PROVE  UNCHANGED <<up, gen, queue, batch, thread, todo, ids, tracked, made>>
  BY <1>2 DEF Ingest, Capture, PublishFrame, CameraDies, LateFrame, LateEvent,
              StorageStep, StorageStart, ConsumeEvents, WriteBatch, AckEvent,
              StorageCrash, workerVars
<1> QED
  BY <1>1, <1>2 DEF Next, BatchStep

LEMMA EventSteps ==
    ASSUME [Next]_vars
    PROVE  \/ \E w \in Workers : PublishEvent(w)
           \/ \E e \in made : LateEvent(e)
           \/ ConsumeEvents \/ AckEvent
           \/ UNCHANGED <<evLog, evPending, evAcked>>
<1>1. CASE UNCHANGED vars
  BY <1>1 DEF vars, eventVars
<1>2. ASSUME NEW w \in Workers,
             \/ WorkerStart(w) \/ ConsumeFrames(w) \/ TakeBatch(w)
             \/ UpdateTracker(w) \/ AckFrame(w) \/ BatchFails(w) \/ WorkerCrash(w)
      PROVE  UNCHANGED <<evLog, evPending, evAcked>>
  BY <1>2 DEF WorkerStart, ConsumeFrames, BatchFails, WorkerCrash,
              TakeBatch, UpdateTracker, AckFrame, eventVars
<1>3. ASSUME \/ \E k \in Cameras : Ingest(k) \/ CameraDies(k)
             \/ \E f \in saved : LateFrame(f)
             \/ StorageStart \/ WriteBatch \/ StorageCrash
      PROVE  UNCHANGED <<evLog, evPending, evAcked>>
  BY <1>3 DEF Ingest, Capture, PublishFrame, CameraDies, LateFrame, StorageStart,
              WriteBatch, StorageCrash, eventVars
<1> QED
  BY <1>1, <1>2, <1>3 DEF Next, BatchStep, StorageStep

LEMMA StorageSteps ==
    ASSUME [Next]_vars
    PROVE  \/ StorageStart \/ ConsumeEvents \/ WriteBatch \/ AckEvent \/ StorageCrash
           \/ UNCHANGED <<stage, held, rows>>
<1>1. CASE UNCHANGED vars
  BY <1>1 DEF vars, storageVars
<1>2. ASSUME NEW w \in Workers,
             \/ WorkerStart(w) \/ ConsumeFrames(w) \/ BatchStep(w)
             \/ BatchFails(w) \/ WorkerCrash(w)
      PROVE  UNCHANGED <<stage, held, rows>>
  BY <1>2 DEF WorkerStart, ConsumeFrames, BatchStep, BatchFails, WorkerCrash,
              TakeBatch, UpdateTracker, PublishEvent, AckFrame, storageVars
<1>3. ASSUME \/ \E k \in Cameras : Ingest(k) \/ CameraDies(k)
             \/ \E f \in saved : LateFrame(f)
             \/ \E e \in made : LateEvent(e)
      PROVE  UNCHANGED <<stage, held, rows>>
  BY <1>3 DEF Ingest, Capture, PublishFrame, CameraDies, LateFrame, LateEvent,
              storageVars
<1> QED
  BY <1>1, <1>2, <1>3 DEF Next, StorageStep

-----------------------------------------------------------------------------
(* Sequences.                                                              *)

LEMMA SeqWidens ==
    ASSUME NEW S, NEW T, S \subseteq T
    PROVE  Seq(S) \subseteq Seq(T)
OBVIOUS

LEMMA RestOf ==
    ASSUME NEW S, NEW s \in Seq(S), s # << >>
    PROVE  /\ Len(s) \in Nat \ {0}
           /\ Head(s) = s[1] /\ Head(s) \in S
           /\ Tail(s) \in Seq(S) /\ Len(Tail(s)) = Len(s) - 1
           /\ \A j \in 1..(Len(s) - 1) : Tail(s)[j] = s[j + 1]
           /\ Len(s) = 1 <=> Tail(s) = << >>
<1>1. Len(s) \in Nat \ {0}
  BY EmptySeq
<1>2. /\ Head(s) \in S /\ Tail(s) \in Seq(S) /\ Len(Tail(s)) = Len(s) - 1
      /\ \A j \in 1..(Len(s) - 1) : Tail(s)[j] = s[j + 1]
  BY HeadTailProperties
<1>3. Len(Tail(s)) = 0 <=> Tail(s) = << >>
  BY <1>2, EmptySeq
<1>4. Head(s) = s[1]
  OBVIOUS
<1> QED
  BY <1>1, <1>2, <1>3, <1>4

\* What TakeBatch() takes of the queue and what it leaves there.
LEMMA SplitAt ==
    ASSUME NEW S, NEW s \in Seq(S), NEW n \in 1..Len(s)
    PROVE  /\ SubSeq(s, 1, n) \in Seq(S) /\ SubSeq(s, 1, n) # << >>
           /\ Len(SubSeq(s, 1, n)) = n
           /\ \A j \in 1..n : SubSeq(s, 1, n)[j] = s[j]
           /\ Unqueued(s, n) \in Seq(S) /\ Len(Unqueued(s, n)) = Len(s) - n
           /\ \A j \in 1..(Len(s) - n) : Unqueued(s, n)[j] = s[j + n]
<1>1. Len(s) \in Nat /\ n \in Nat \ {0} /\ \A j \in 1..Len(s) : s[j] \in S
  BY LenProperties, ElementOfSeq
<1>2. /\ SubSeq(s, 1, n) \in Seq(S) /\ Len(SubSeq(s, 1, n)) = n
      /\ \A j \in 1..n : SubSeq(s, 1, n)[j] = s[j]
  BY <1>1, SubSeqProperties
<1>3. SubSeq(s, 1, n) # << >>
  BY <1>1, <1>2, EmptySeq
<1>4. /\ SubSeq(s, n + 1, Len(s)) \in Seq(S)
      /\ Len(SubSeq(s, n + 1, Len(s))) = Len(s) - n
      /\ \A j \in 1..(Len(s) - n) : SubSeq(s, n + 1, Len(s))[j] = s[j + n]
  <2>1. /\ n + 1 \in Int /\ Len(s) \in Int
        /\ \A j \in (n + 1)..Len(s) : s[j] \in S
    BY <1>1
  <2>2. /\ SubSeq(s, n + 1, Len(s)) \in Seq(S)
        /\ Len(SubSeq(s, n + 1, Len(s))) = IF n + 1 <= Len(s) THEN Len(s) - (n + 1) + 1
                                                              ELSE 0
        /\ \A j \in 1..(Len(s) - (n + 1) + 1) :
              SubSeq(s, n + 1, Len(s))[j] = s[(n + 1) + j - 1]
    BY <2>1, SubSeqProperties
  <2> QED
    BY <1>1, <2>2
<1> QED
  BY <1>2, <1>3, <1>4 DEF Unqueued

LEMMA JoinOf ==
    ASSUME NEW S, NEW s \in Seq(S), NEW t \in Seq(S)
    PROVE  /\ s \o t \in Seq(S) /\ Len(s \o t) = Len(s) + Len(t)
           /\ \A j \in 1..Len(s) : (s \o t)[j] = s[j]
           /\ \A j \in (Len(s) + 1)..(Len(s) + Len(t)) : (s \o t)[j] = t[j - Len(s)]
<1>1. Len(s) \in Nat /\ Len(t) \in Nat
  BY LenProperties
<1> QED
  BY <1>1, ConcatProperties

Sorted(s) == \A a, b \in DOMAIN s : a < b => s[a] < s[b]

\* A sequence whose elements, shifted by n, are elements of s.
LEMMA Shifted ==
    ASSUME NEW s \in Seq(Nat), NEW t \in Seq(Nat), NEW n \in Nat,
           \A j \in DOMAIN t : j + n \in DOMAIN s /\ t[j] = s[j + n]
    PROVE  /\ RangeOf(t) \subseteq RangeOf(s)
           /\ Sorted(s) => Sorted(t)
<1>1. RangeOf(t) \subseteq RangeOf(s)
  BY DEF RangeOf
<1>2. ASSUME Sorted(s), NEW a \in DOMAIN t, NEW b \in DOMAIN t, a < b
      PROVE  t[a] < t[b]
  <2>1. a \in Nat /\ b \in Nat
    <3>1. DOMAIN t = 1..Len(t) /\ Len(t) \in Nat
      BY LenProperties, Zenon
    <3> QED
      BY <3>1
  <2>2. a + n \in DOMAIN s /\ b + n \in DOMAIN s /\ a + n < b + n
    BY <1>2, <2>1
  <2>3. s[a + n] < s[b + n]
    BY <1>2, <2>2 DEF Sorted
  <2>4. t[a] = s[a + n] /\ t[b] = s[b + n]
    OBVIOUS
  <2> QED
    BY <2>3, <2>4
<1> QED
  BY <1>1, <1>2 DEF Sorted

LEMMA InBothParts ==
    ASSUME NEW n \in Nat, NEW m \in Nat, NEW a \in 1..n, NEW b \in 1..m
    PROVE  a \in 1..(n + m) /\ b + n \in 1..(n + m) /\ a < b + n
OBVIOUS

\* A sequence in two parts.
LEMMA TwoParts ==
    ASSUME NEW s \in Seq(Nat), NEW f \in Seq(Nat), NEW r \in Seq(Nat),
           Len(s) = Len(f) + Len(r),
           \A j \in 1..Len(f) : f[j] = s[j],
           \A j \in 1..Len(r) : r[j] = s[j + Len(f)]
    PROVE  /\ RangeOf(s) = RangeOf(f) \cup RangeOf(r)
           /\ Sorted(s) <=> /\ Sorted(f) /\ Sorted(r)
                            /\ \A i \in RangeOf(f), j \in RangeOf(r) : i < j
<1> DEFINE n == Len(f)
<1>1. /\ n \in Nat /\ Len(r) \in Nat
      /\ DOMAIN f = 1..n /\ DOMAIN r = 1..Len(r) /\ DOMAIN s = 1..(n + Len(r))
  BY LenProperties
<1>2. \A j \in DOMAIN f : j + 0 \in DOMAIN s /\ f[j] = s[j + 0]
  <2> SUFFICES ASSUME NEW j \in DOMAIN f PROVE j + 0 \in DOMAIN s /\ f[j] = s[j + 0]
    OBVIOUS
  <2>1. j \in 1..n /\ j + 0 = j /\ j \in 1..(n + Len(r))
    BY <1>1
  <2> QED
    BY <1>1, <2>1
<1>3. \A j \in DOMAIN r : j + n \in DOMAIN s /\ r[j] = s[j + n]
  BY <1>1
<1>4. \A j \in DOMAIN s : \/ j \in DOMAIN f
                          \/ j > n /\ j - n \in DOMAIN r /\ s[j] = r[j - n]
  <2> SUFFICES ASSUME NEW j \in DOMAIN s, j \notin DOMAIN f
               PROVE  j > n /\ j - n \in DOMAIN r /\ s[j] = r[j - n]
    OBVIOUS
  <2>1. j \in Nat /\ j > n /\ j - n \in 1..Len(r) /\ (j - n) + n = j
    BY <1>1
  <2> QED
    BY <1>1, <2>1
<1>5. \A j \in DOMAIN f : f[j] = s[j]
  BY <1>1
<1>6. RangeOf(f) \subseteq RangeOf(s) /\ (Sorted(s) => Sorted(f))
  BY <1>2, Shifted
<1>7. RangeOf(r) \subseteq RangeOf(s) /\ (Sorted(s) => Sorted(r))
  BY <1>1, <1>3, Shifted
<1> HIDE DEF n
<1>8. RangeOf(s) \subseteq RangeOf(f) \cup RangeOf(r)
  BY <1>4, <1>5 DEF RangeOf
<1>9. ASSUME Sorted(s), NEW i \in RangeOf(f), NEW j \in RangeOf(r)
      PROVE  i < j
  <2>1. PICK a \in DOMAIN f, b \in DOMAIN r : i = f[a] /\ j = r[b]
    BY DEF RangeOf
  <2>2. a \in DOMAIN s /\ b + n \in DOMAIN s /\ a < b + n
    <3>1. a \in 1..n /\ b \in 1..Len(r)
      BY <1>1
    <3>2. n \in Nat /\ Len(r) \in Nat
      BY <1>1
    <3>3. a \in 1..(n + Len(r)) /\ b + n \in 1..(n + Len(r)) /\ a < b + n
      BY <3>1, <3>2, InBothParts
    <3> QED
      BY <1>1, <3>3
  <2>3. s[a] < s[b + n]
    BY <1>9, <2>2 DEF Sorted
  <2> QED
    BY <1>3, <1>5, <2>1, <2>3
<1>10. ASSUME Sorted(f), Sorted(r), \A i \in RangeOf(f), j \in RangeOf(r) : i < j,
              NEW a \in DOMAIN s, NEW b \in DOMAIN s, a < b
       PROVE  s[a] < s[b]
  <2>1. a \in Nat /\ b \in Nat
    BY <1>1
  <2>2. CASE b \in DOMAIN f
    <3>1. a \in DOMAIN f
      BY <1>1, <1>10, <2>1, <2>2
    <3> QED
      BY <1>5, <1>10, <2>2, <3>1 DEF Sorted
  <2>3. CASE b \notin DOMAIN f /\ a \in DOMAIN f
    <3>1. b - n \in DOMAIN r /\ s[b] = r[b - n] /\ s[a] = f[a]
      BY <1>4, <1>5, <2>3
    <3> QED
      BY <1>10, <2>3, <3>1 DEF RangeOf
  <2>4. CASE b \notin DOMAIN f /\ a \notin DOMAIN f
    <3>1. /\ b - n \in DOMAIN r /\ s[b] = r[b - n]
          /\ a - n \in DOMAIN r /\ s[a] = r[a - n]
      BY <1>4, <2>4
    <3>2. a - n < b - n
      BY <1>1, <1>10, <2>1
    <3> QED
      BY <1>10, <3>1, <3>2 DEF Sorted
  <2> QED
    BY <2>2, <2>3, <2>4
<1>11. Sorted(f) /\ Sorted(r) /\ (\A i \in RangeOf(f), j \in RangeOf(r) : i < j)
       => Sorted(s)
  BY <1>10 DEF Sorted
<1> QED
  BY <1>6, <1>7, <1>8, <1>9, <1>11

LEMMA RangeOfRest ==
    ASSUME NEW s \in Seq(Nat), s # << >>
    PROVE  /\ RangeOf(s) = {Head(s)} \cup RangeOf(Tail(s))
           /\ Sorted(s) => /\ Sorted(Tail(s))
                           /\ \A i \in RangeOf(Tail(s)) : Head(s) < i
<1> DEFINE f == <<Head(s)>>
           r == Tail(s)
<1>1. /\ Len(s) \in Nat \ {0} /\ Head(s) = s[1] /\ Head(s) \in Nat
      /\ r \in Seq(Nat) /\ Len(r) = Len(s) - 1
      /\ \A j \in 1..(Len(s) - 1) : r[j] = s[j + 1]
  BY RestOf
<1>2. f \in Seq(Nat) /\ Len(f) = 1 /\ f[1] = s[1] /\ RangeOf(f) = {Head(s)}
  BY <1>1 DEF RangeOf
<1> HIDE DEF f, r
<1>3. /\ Len(s) = Len(f) + Len(r)
      /\ \A j \in 1..Len(f) : f[j] = s[j]
      /\ \A j \in 1..Len(r) : r[j] = s[j + Len(f)]
  BY <1>1, <1>2
<1>4. s \in Seq(Nat) /\ f \in Seq(Nat) /\ r \in Seq(Nat)
  BY <1>1, <1>2
<1>5. /\ RangeOf(s) = RangeOf(f) \cup RangeOf(r)
      /\ Sorted(s) <=> /\ Sorted(f) /\ Sorted(r)
                       /\ \A i \in RangeOf(f), j \in RangeOf(r) : i < j
  BY <1>3, <1>4, TwoParts, Zenon
<1> QED
  BY <1>2, <1>5 DEF r

LEMMA RangeOfSplit ==
    ASSUME NEW s \in Seq(Nat), NEW n \in 1..Len(s)
    PROVE  /\ RangeOf(s) = RangeOf(SubSeq(s, 1, n)) \cup RangeOf(Unqueued(s, n))
           /\ Sorted(s) => /\ Sorted(SubSeq(s, 1, n)) /\ Sorted(Unqueued(s, n))
                           /\ \A i \in RangeOf(SubSeq(s, 1, n)),
                                 j \in RangeOf(Unqueued(s, n)) : i < j
<1> DEFINE f == SubSeq(s, 1, n)
           r == Unqueued(s, n)
<1>1. /\ f \in Seq(Nat) /\ Len(f) = n /\ \A j \in 1..n : f[j] = s[j]
      /\ r \in Seq(Nat) /\ Len(r) = Len(s) - n
      /\ \A j \in 1..(Len(s) - n) : r[j] = s[j + n]
  BY SplitAt
<1>2. Len(s) \in Nat /\ n \in Nat
  BY LenProperties
<1> HIDE DEF f, r
<1>3. Len(s) = Len(f) + Len(r)
  BY <1>1, <1>2
<1>4. /\ \A j \in 1..Len(f) : f[j] = s[j]
      /\ \A j \in 1..Len(r) : r[j] = s[j + Len(f)]
  BY <1>1
<1>5. s \in Seq(Nat) /\ f \in Seq(Nat) /\ r \in Seq(Nat)
  BY <1>1
<1>6. /\ RangeOf(s) = RangeOf(f) \cup RangeOf(r)
      /\ Sorted(s) <=> /\ Sorted(f) /\ Sorted(r)
                       /\ \A i \in RangeOf(f), j \in RangeOf(r) : i < j
  BY <1>3, <1>4, <1>5, TwoParts, Zenon
<1> QED
  BY <1>6 DEF f, r

LEMMA RangeOfJoin ==
    ASSUME NEW s \in Seq(Nat), NEW t \in Seq(Nat)
    PROVE  /\ RangeOf(s \o t) = RangeOf(s) \cup RangeOf(t)
           /\ /\ Sorted(s) /\ Sorted(t)
              /\ \A i \in RangeOf(s), j \in RangeOf(t) : i < j
              => Sorted(s \o t)
<1> DEFINE u == s \o t
<1>1. /\ u \in Seq(Nat) /\ Len(u) = Len(s) + Len(t)
      /\ \A j \in 1..Len(s) : s[j] = u[j]
      /\ \A j \in (Len(s) + 1)..(Len(s) + Len(t)) : u[j] = t[j - Len(s)]
  BY JoinOf
<1>2. Len(s) \in Nat /\ Len(t) \in Nat
  BY LenProperties
<1> HIDE DEF u
<1>3. ASSUME NEW j \in 1..Len(t) PROVE t[j] = u[j + Len(s)]
  <2>1. /\ j + Len(s) \in (Len(s) + 1)..(Len(s) + Len(t))
        /\ (j + Len(s)) - Len(s) = j
    BY <1>2
  <2> QED
    BY <1>1, <2>1
<1>4. u \in Seq(Nat) /\ s \in Seq(Nat) /\ t \in Seq(Nat)
  BY <1>1
<1>5. /\ Len(u) = Len(s) + Len(t)
      /\ \A j \in 1..Len(s) : s[j] = u[j]
      /\ \A j \in 1..Len(t) : t[j] = u[j + Len(s)]
  BY <1>1, <1>3
<1>6. /\ RangeOf(u) = RangeOf(s) \cup RangeOf(t)
      /\ Sorted(u) <=> /\ Sorted(s) /\ Sorted(t)
                       /\ \A i \in RangeOf(s), j \in RangeOf(t) : i < j
  BY <1>4, <1>5, TwoParts, Zenon
<1> QED
  BY <1>6 DEF u

-----------------------------------------------------------------------------
(* Types.                                                                  *)

LEMMA TypeInit == Init => TypeOK
<1> SUFFICES ASSUME Init PROVE TypeOK
  OBVIOUS
<1>1. IngestTypes
  BY PipelineAssumption DEF Init, IngestTypes
<1>2. RawTypes
  BY DEF Init, Raw!Init, RawTypes
<1>3. BatcherTypes
  BY DEF Init, BatcherTypes
<1>4. TrackerTypes
  BY PipelineAssumption DEF Init, TrackerTypes
<1>5. EventTypes
  BY DEF Init, Events!Init, EventTypes
<1>6. StorageTypes
  BY DEF Init, StorageTypes
<1>7. CounterTypes
  BY PipelineAssumption DEF Init, CounterTypes
<1> QED
  BY <1>1, <1>2, <1>3, <1>4, <1>5, <1>6, <1>7 DEF TypeOK

\* What is appended to a stream leaves its entries where they are.
LEMMA RawAppend ==
    ASSUME RawTypes, NEW f \in Frames, Raw!Publish(f)
    PROVE  /\ rawLog' \in Seq(Frames)
           /\ Raw!Entries \subseteq Raw!Entries'
           /\ Raw!Entries' = Raw!Entries \cup {Len(rawLog) + 1}
           /\ \A i \in Raw!Entries : rawLog'[i] = rawLog[i]
           /\ rawLog'[Len(rawLog) + 1] = f
           /\ UNCHANGED <<rawPending, rawAcked>>
BY DEF RawTypes, Raw!Publish, Raw!Entries

LEMMA EventAppend ==
    ASSUME EventTypes, NEW e \in TrackEvents, Events!Publish(e)
    PROVE  /\ evLog' \in Seq(TrackEvents)
           /\ Events!Entries \subseteq Events!Entries'
           /\ Events!Entries' = Events!Entries \cup {Len(evLog) + 1}
           /\ \A i \in Events!Entries : evLog'[i] = evLog[i]
           /\ evLog'[Len(evLog) + 1] = e
           /\ UNCHANGED <<evPending, evAcked>>
BY DEF EventTypes, Events!Publish, Events!Entries

LEMMA EntriesAreNumbers ==
    /\ RawTypes => Len(rawLog) \in Nat /\ Raw!Entries = 1..Len(rawLog)
    /\ EventTypes => Len(evLog) \in Nat /\ Events!Entries = 1..Len(evLog)
BY DEF RawTypes, Raw!Entries, EventTypes, Events!Entries

\* What a group has seen is part of the stream, and so is its size a number.
LEMMA RawCursorType ==
    ASSUME RawTypes
    PROVE  RawCursor \in Nat /\ Raw!Delivered \subseteq Raw!Entries
<1>1. Raw!Delivered \subseteq Raw!Entries
  BY DEF RawTypes, Raw!Delivered
<1>2. IsFiniteSet(Raw!Entries)
  BY EntriesAreNumbers, FS_Interval
<1> QED
  BY <1>1, <1>2, FS_Subset, FS_CardinalityType DEF RawCursor

LEMMA EventCursorType ==
    ASSUME EventTypes
    PROVE  EventCursor \in Nat /\ Events!Delivered \subseteq Events!Entries
<1>1. Events!Delivered \subseteq Events!Entries
  BY DEF EventTypes, Events!Delivered
<1>2. IsFiniteSet(Events!Entries)
  BY EntriesAreNumbers, FS_Interval
<1> QED
  BY <1>1, <1>2, FS_Subset, FS_CardinalityType DEF EventCursor

\* What _process_batch() has at hand.
LEMMA HeadOfBatch ==
    ASSUME RawTypes, BatcherTypes, NEW w \in Workers,
           thread[w] \in {"frame", "events"}
    PROVE  /\ batch[w] \in Seq(Raw!Entries) /\ batch[w] # << >>
           /\ Head(batch[w]) \in Raw!Entries
           /\ Head(batch[w]) \in Nat \ {0}
           /\ rawLog[Head(batch[w])][1] \in Cameras
<1>1. batch[w] \in Seq(Raw!Entries) /\ batch[w] # << >>
  BY DEF BatcherTypes
<1>2. Head(batch[w]) \in Raw!Entries
  BY <1>1
<1>3. rawLog[Head(batch[w])] \in Frames
  BY <1>2, EntriesAreNumbers DEF RawTypes, Raw!Entries
<1> QED
  BY <1>1, <1>2, <1>3, EntriesAreNumbers DEF Frames

LEMMA EventType ==
    ASSUME RawTypes, BatcherTypes, TrackerTypes, NEW w \in Workers,
           thread[w] = "events", NEW t \in todo[w]
    PROVE  EventOf(w, t) \in TrackEvents
<1>1. t \in Cameras \X (1..MaxTracks) /\ gen[w] \in Nat
  BY DEF TrackerTypes, BatcherTypes
<1>2. t \in Cameras \X (Nat \ {0})
  BY <1>1, PipelineAssumption
<1> QED
  BY <1>1, <1>2, HeadOfBatch DEF EventOf, TrackEvents

\* The ingestion thread publishes what it has saved.
ImageFirst == \A k \in Cameras : camera[k] = "saved" => <<k, captured[k]>> \in saved

LEMMA IngestTypesStep ==
    IngestTypes /\ ImageFirst /\ [Next]_vars => IngestTypes' /\ ImageFirst'
<1> SUFFICES ASSUME IngestTypes, ImageFirst, [Next]_vars
             PROVE  IngestTypes' /\ ImageFirst'
  OBVIOUS
<1>1. ASSUME NEW k \in Cameras, Capture(k)
      PROVE  IngestTypes' /\ ImageFirst'
  <2>1. captured[k] \in 0..(MaxFrames - 1)
    BY <1>1, PipelineAssumption DEF Capture, IngestTypes
  <2>2. <<k, captured[k] + 1>> \in Frames
    BY <2>1, PipelineAssumption DEF Frames
  <2>3. IngestTypes'
    BY <1>1, <2>1, <2>2, PipelineAssumption DEF Capture, Save, IngestTypes
  <2>4. ImageFirst'
    BY <1>1 DEF Capture, Save, ImageFirst, IngestTypes
  <2> QED
    BY <2>3, <2>4
<1>2. ASSUME NEW k \in Cameras, PublishFrame(k) \/ CameraDies(k)
      PROVE  IngestTypes' /\ ImageFirst'
  BY <1>2 DEF PublishFrame, CameraDies, ImageFirst, IngestTypes
<1>3. CASE UNCHANGED <<captured, camera, saved>>
  BY <1>3 DEF ImageFirst, IngestTypes
<1> QED
  BY <1>1, <1>2, <1>3, IngestSteps

LEMMA RawTypesStep ==
    /\ IngestTypes /\ ImageFirst /\ RawTypes /\ [Next]_vars
    => /\ RawTypes' /\ Raw!Entries \subseteq Raw!Entries'
       /\ \A i \in Raw!Entries : rawLog'[i] = rawLog[i]
<1> DEFINE Goal == /\ RawTypes' /\ Raw!Entries \subseteq Raw!Entries'
                   /\ \A i \in Raw!Entries : rawLog'[i] = rawLog[i]
<1> SUFFICES ASSUME IngestTypes, ImageFirst, RawTypes, [Next]_vars PROVE Goal
  OBVIOUS
<1>1. ASSUME NEW f \in Frames, Raw!Publish(f) PROVE Goal
  BY <1>1, RawAppend DEF RawTypes
<1>2. ASSUME NEW k \in Cameras, PublishFrame(k) PROVE Goal
  <2>1. <<k, captured[k]>> \in Frames
    BY <1>2 DEF PublishFrame, ImageFirst, IngestTypes
  <2> QED
    BY <1>1, <1>2, <2>1 DEF PublishFrame
<1>3. ASSUME NEW f \in saved, LateFrame(f) PROVE Goal
  BY <1>1, <1>3 DEF LateFrame, IngestTypes
<1>4. ASSUME NEW w \in Workers, ConsumeFrames(w) PROVE Goal
  BY <1>4 DEF ConsumeFrames, Raw!Deliver, Raw!IsOldest, Raw!Fresh, Raw!Entries, RawTypes
<1>5. ASSUME NEW w \in Workers, AckFrame(w) PROVE Goal
  BY <1>5 DEF AckFrame, Raw!Ack, Raw!Entries, RawTypes
<1>6. CASE UNCHANGED <<rawLog, rawPending, rawAcked>>
  BY <1>6 DEF Raw!Entries, RawTypes
<1> QED
  BY <1>2, <1>3, <1>4, <1>5, <1>6, RawSteps

LEMMA BatcherTypesStep ==
    ASSUME RawTypes, BatcherTypes, Raw!Entries \subseteq Raw!Entries', [Next]_vars
    PROVE  BatcherTypes'
<1> DEFINE E == Raw!Entries
           Goal == /\ up' \subseteq Workers /\ gen' \in [Workers -> Nat]
                   /\ queue' \in [Workers -> Seq(E)]
                   /\ batch' \in [Workers -> Seq(E)]
                   /\ thread' \in [Workers -> {"idle", "frame", "events", "dead"}]
                   /\ \A w \in Workers :
                         thread'[w] \in {"frame", "events"} => batch'[w] # << >>
<1>1. Seq(E) \subseteq Seq(Raw!Entries')
  BY SeqWidens
<1>2. SUFFICES Goal
  BY <1>1 DEF BatcherTypes
<1>3. E \subseteq Nat
  BY EntriesAreNumbers
<1> HIDE DEF E
<1>4. ASSUME NEW w \in Workers, WorkerStart(w) PROVE Goal
  BY <1>4 DEF WorkerStart, BatcherTypes, E
<1>5. ASSUME NEW w \in Workers, ConsumeFrames(w) PROVE Goal
  <2>1. PICK n \in 1..(Len(rawLog) - RawCursor) :
           /\ Raw!Deliver(w, (RawCursor + 1)..(RawCursor + n))
           /\ queue' = [queue EXCEPT ![w] = @ \o Submitted(n)]
    BY <1>5 DEF ConsumeFrames
  <2>2. Submitted(n) \in Seq(E)
    BY RawCursorType, EntriesAreNumbers, <2>1 DEF Submitted, E
  <2>3. queue[w] \o Submitted(n) \in Seq(E)
    BY <2>2 DEF BatcherTypes, E
  <2> QED
    BY <1>5, <2>1, <2>3 DEF ConsumeFrames, BatcherTypes, E
<1>6. ASSUME NEW w \in Workers, TakeBatch(w) PROVE Goal
  <2>1. PICK n \in BatchSizes :
           /\ n <= Len(queue[w])
           /\ queue' = [queue EXCEPT ![w] = Unqueued(@, n)]
           /\ batch' = [batch EXCEPT ![w] = SubSeq(queue[w], 1, n)]
    BY <1>6 DEF TakeBatch
  <2>2. n \in Nat \ {0} /\ queue[w] \in Seq(E)
    BY PipelineAssumption DEF BatchSizes, BatcherTypes, E
  <2>3. /\ Unqueued(queue[w], n) \in Seq(E)
        /\ SubSeq(queue[w], 1, n) \in Seq(E)
        /\ SubSeq(queue[w], 1, n) # << >>
    <3>1. n \in 1..Len(queue[w])
      BY <2>1, <2>2, LenProperties
    <3> QED
      BY <2>2, <3>1, SplitAt
  <2> QED
    BY <1>6, <2>1, <2>3 DEF TakeBatch, BatcherTypes, E
<1>7. ASSUME NEW w \in Workers, UpdateTracker(w) PROVE Goal
  BY <1>7 DEF UpdateTracker, BatcherTypes, E
<1>8. ASSUME NEW w \in Workers, PublishEvent(w) PROVE Goal
  BY <1>8 DEF PublishEvent, AfterRaise, BatcherTypes, E
<1>9. ASSUME NEW w \in Workers, AckFrame(w) PROVE Goal
  <2>1. batch[w] \in Seq(E) /\ batch[w] # << >>
    BY <1>9 DEF AckFrame, BatcherTypes, E
  <2>2. Tail(batch[w]) \in Seq(E) /\ (Len(batch[w]) # 1 => Tail(batch[w]) # << >>)
    BY <2>1, RestOf
  <2> QED
    BY <1>9, <2>2 DEF AckFrame, BatcherTypes, E
<1>10. ASSUME NEW w \in Workers, BatchFails(w) PROVE Goal
  BY <1>10 DEF BatchFails, BatcherTypes, E
<1>11. ASSUME NEW w \in Workers, WorkerCrash(w) PROVE Goal
  BY <1>11 DEF WorkerCrash, BatcherTypes, E
<1>12. CASE UNCHANGED <<up, gen, queue, batch, thread, todo, ids, tracked, made>>
  BY <1>12 DEF BatcherTypes, E
<1> QED
  BY <1>4, <1>5, <1>6, <1>7, <1>8, <1>9, <1>10, <1>11, <1>12, WorkerSteps

LEMMA TrackerTypesStep ==
    ASSUME RawTypes, BatcherTypes, TrackerTypes,
           Raw!Entries \subseteq Raw!Entries', [Next]_vars
    PROVE  TrackerTypes'
<1> DEFINE Tracks == Cameras \X (1..MaxTracks)
           Updates == [entry : Raw!Entries, by : Workers \X Nat, tracks : SUBSET Tracks]
           Goal == /\ todo' \in [Workers -> SUBSET Tracks]
                   /\ ids' \in [Workers -> [Cameras -> 0..MaxTracks]]
                   /\ tracked' \subseteq Updates
                   /\ made' \subseteq TrackEvents
<1>1. SUFFICES Goal
  BY DEF TrackerTypes
<1>2. ASSUME NEW w \in Workers, WorkerStart(w) PROVE Goal
  BY <1>2, PipelineAssumption DEF WorkerStart, TrackerTypes
<1>3. ASSUME NEW w \in Workers, UpdateTracker(w) PROVE Goal
  <2> DEFINE i == Head(batch[w])
             k == rawLog[i][1]
  <2>1. i \in Raw!Entries /\ k \in Cameras /\ gen[w] \in Nat
    BY <1>3, HeadOfBatch DEF UpdateTracker, BatcherTypes
  <2>2. ids[w][k] \in 0..MaxTracks
    BY <2>1 DEF TrackerTypes
  <2>3. PICK top \in ids[w][k]..MaxTracks : \E tracks \in SUBSET ({k} \X (1..top)) :
           /\ ids' = [ids EXCEPT ![w][k] = top]
           /\ todo' = [todo EXCEPT ![w] = tracks]
           /\ tracked' = tracked \cup
                {[entry |-> i, by |-> <<w, gen[w]>>, tracks |-> tracks]}
    BY <1>3 DEF UpdateTracker
  <2>4. PICK tracks \in SUBSET ({k} \X (1..top)) :
           /\ ids' = [ids EXCEPT ![w][k] = top]
           /\ todo' = [todo EXCEPT ![w] = tracks]
           /\ tracked' = tracked \cup
                {[entry |-> i, by |-> <<w, gen[w]>>, tracks |-> tracks]}
    BY <2>3
  <2> HIDE DEF i, k
  <2>5. top \in 0..MaxTracks /\ tracks \in SUBSET Tracks
    BY <2>1, <2>2, PipelineAssumption
  <2>6. [entry |-> i, by |-> <<w, gen[w]>>, tracks |-> tracks] \in Updates
    BY <2>1, <2>5
  <2>7. made' = made
    BY <1>3 DEF UpdateTracker
  <2> QED
    BY <2>1, <2>4, <2>5, <2>6, <2>7 DEF TrackerTypes
<1>4. ASSUME NEW w \in Workers, PublishEvent(w) PROVE Goal
  <2>1. PICK t \in todo[w] :
           /\ made' = made \cup {EventOf(w, t)}
           /\ todo' = [todo EXCEPT ![w] = @ \ {t}]
           /\ UNCHANGED <<ids, tracked>>
    BY <1>4 DEF PublishEvent
  <2>2. EventOf(w, t) \in TrackEvents
    BY <1>4, EventType DEF PublishEvent
  <2> QED
    BY <2>1, <2>2 DEF TrackerTypes
<1>5. ASSUME NEW w \in Workers, WorkerCrash(w) PROVE Goal
  BY <1>5 DEF WorkerCrash, TrackerTypes
<1>6. ASSUME NEW w \in Workers,
             ConsumeFrames(w) \/ TakeBatch(w) \/ AckFrame(w) \/ BatchFails(w)
      PROVE  Goal
  BY <1>6 DEF ConsumeFrames, TakeBatch, AckFrame, BatchFails, TrackerTypes
<1>7. CASE UNCHANGED <<up, gen, queue, batch, thread, todo, ids, tracked, made>>
  BY <1>7 DEF TrackerTypes
<1> QED
  BY <1>2, <1>3, <1>4, <1>5, <1>6, <1>7, WorkerSteps

LEMMA EventTypesStep ==
    ASSUME RawTypes, BatcherTypes, TrackerTypes, EventTypes, [Next]_vars
    PROVE  /\ EventTypes' /\ Events!Entries \subseteq Events!Entries'
           /\ \A j \in Events!Entries : evLog'[j] = evLog[j]
<1> DEFINE Goal == /\ EventTypes' /\ Events!Entries \subseteq Events!Entries'
                   /\ \A j \in Events!Entries : evLog'[j] = evLog[j]
<1> SUFFICES Goal
  OBVIOUS
<1>1. ASSUME NEW e \in TrackEvents, Events!Publish(e) PROVE Goal
  BY <1>1, EventAppend DEF EventTypes
<1>2. CASE UNCHANGED <<evLog, evPending, evAcked>>
  BY <1>2 DEF EventTypes, Events!Entries
<1>3. ASSUME NEW w \in Workers, PublishEvent(w) PROVE Goal
  <2>1. PICK t \in todo[w] : \/ Events!Publish(EventOf(w, t))
                             \/ UNCHANGED <<evLog, evPending, evAcked>>
    BY <1>3 DEF PublishEvent, eventVars
  <2>2. EventOf(w, t) \in TrackEvents
    BY <1>3, EventType DEF PublishEvent
  <2> QED
    BY <1>1, <1>2, <2>1, <2>2
<1>4. ASSUME NEW e \in made, LateEvent(e) PROVE Goal
  BY <1>1, <1>4 DEF LateEvent, TrackerTypes
<1>5. CASE ConsumeEvents
  BY <1>5 DEF ConsumeEvents, Events!Deliver, Events!IsOldest, Events!Fresh,
              Events!Entries, EventTypes
<1>6. CASE AckEvent
  BY <1>6 DEF AckEvent, Events!Ack, Events!Entries, EventTypes
<1> QED
  BY <1>2, <1>3, <1>4, <1>5, <1>6, EventSteps

LEMMA StorageTypesStep ==
    ASSUME EventTypes, StorageTypes, Events!Entries \subseteq Events!Entries',
           [Next]_vars
    PROVE  StorageTypes'
<1> DEFINE E == Events!Entries
           Goal == /\ stage' \in {"down", "polling", "writing", "acking"}
                   /\ held' \in Seq(E)
                   /\ stage' \in {"writing", "acking"} => held' # << >>
                   /\ rows' \subseteq TrackEvents \X E
<1>1. Seq(E) \subseteq Seq(Events!Entries')
  BY SeqWidens
<1>2. SUFFICES Goal
  BY <1>1 DEF StorageTypes
<1>3. CASE StorageStart
  BY <1>3 DEF StorageStart, StorageTypes
<1>4. CASE ConsumeEvents
  <2>1. PICK n \in 1..(Len(evLog) - EventCursor) :
           held' = [j \in 1..n |-> EventCursor + j]
    BY <1>4 DEF ConsumeEvents
  <2>2. held' \in Seq(E) /\ held' # << >>
    BY <2>1, EventCursorType, EntriesAreNumbers
  <2> QED
    BY <1>4, <2>2 DEF ConsumeEvents, StorageTypes
<1>5. CASE WriteBatch
  <2>1. \A i \in RangeOf(held) : evLog[i] \in TrackEvents /\ i \in E
    BY DEF EventTypes, StorageTypes, RangeOf, Events!Entries
  <2>2. {<<evLog[i], i>> : i \in RangeOf(held)} \subseteq TrackEvents \X E
    BY <2>1
  <2>3. rows' \subseteq TrackEvents \X E
    BY <1>5, <2>2 DEF WriteBatch, Insert, StorageTypes
  <2>4. \/ stage' = "acking" /\ held' = held /\ held # << >>
        \/ stage' = "down" /\ held' = << >>
    BY <1>5 DEF WriteBatch, WriteFails, StorageTypes
  <2>5. held' \in Seq(E)
    BY <2>4, EmptySeq DEF StorageTypes
  <2>6. /\ stage' \in {"down", "polling", "writing", "acking"}
        /\ stage' \in {"writing", "acking"} => held' # << >>
    BY <2>4
  <2> QED
    BY <2>3, <2>5, <2>6
<1>6. CASE AckEvent
  <2>1. held \in Seq(E) /\ held # << >>
    BY <1>6 DEF AckEvent, StorageTypes
  <2>2. Tail(held) \in Seq(E) /\ (Len(held) # 1 => Tail(held) # << >>)
    BY <2>1, RestOf
  <2> QED
    BY <1>6, <2>2 DEF AckEvent, StorageTypes
<1>7. CASE StorageCrash
  BY <1>7 DEF StorageCrash, StorageTypes
<1>8. CASE UNCHANGED <<stage, held, rows>>
  BY <1>8 DEF StorageTypes
<1> QED
  BY <1>3, <1>4, <1>5, <1>6, <1>7, <1>8, StorageSteps
LEMMA CounterSteps ==
    ASSUME [Next]_vars
    PROVE  \/ UNCHANGED <<late, faults>>
           \/ Fault /\ UNCHANGED late
           \/ Duplicate /\ UNCHANGED faults
<1>1. CASE UNCHANGED vars
  BY <1>1 DEF vars
<1>2. ASSUME NEW k \in Cameras, Ingest(k) \/ CameraDies(k)
      PROVE  UNCHANGED <<late, faults>> \/ (Fault /\ UNCHANGED late)
  BY <1>2 DEF Ingest, Capture, PublishFrame, CameraDies
<1>3. ASSUME NEW w \in Workers,
             \/ WorkerStart(w) \/ ConsumeFrames(w) \/ BatchStep(w)
             \/ BatchFails(w) \/ WorkerCrash(w)
      PROVE  UNCHANGED <<late, faults>> \/ (Fault /\ UNCHANGED late)
  BY <1>3 DEF WorkerStart, ConsumeFrames, BatchStep, BatchFails, WorkerCrash,
              TakeBatch, UpdateTracker, PublishEvent, AckFrame
<1>4. CASE StorageStep \/ StorageCrash
  BY <1>4 DEF StorageStep, StorageStart, ConsumeEvents, WriteBatch, AckEvent,
              StorageCrash
<1>5. ASSUME (\E f \in saved : LateFrame(f)) \/ (\E e \in made : LateEvent(e))
      PROVE  Duplicate /\ UNCHANGED faults
  BY <1>5 DEF LateFrame, LateEvent
<1> QED
  BY <1>1, <1>2, <1>3, <1>4, <1>5 DEF Next

LEMMA CounterTypesStep ==
    ASSUME CounterTypes, [Next]_vars
    PROVE  CounterTypes' /\ (faults' = 0 => faults = 0)
BY CounterSteps, PipelineAssumption DEF CounterTypes, Fault, Duplicate

TypeInv == TypeOK /\ ImageFirst

LEMMA TypeInvInit == Init => TypeInv
<1> SUFFICES ASSUME Init PROVE ImageFirst
  BY TypeInit DEF TypeInv
<1> QED
  BY DEF Init, ImageFirst

LEMMA TypeInvNext == TypeInv /\ [Next]_vars => TypeInv'
<1> SUFFICES ASSUME TypeInv, [Next]_vars PROVE TypeInv'
  OBVIOUS
<1>1. /\ IngestTypes /\ RawTypes /\ BatcherTypes /\ TrackerTypes
      /\ EventTypes /\ StorageTypes /\ CounterTypes /\ ImageFirst
  BY DEF TypeInv, TypeOK
<1>2. IngestTypes' /\ ImageFirst' /\ RawTypes' /\ Raw!Entries \subseteq Raw!Entries'
  BY <1>1, IngestTypesStep, RawTypesStep
<1>3. BatcherTypes' /\ TrackerTypes'
  BY <1>1, <1>2, BatcherTypesStep, TrackerTypesStep
<1>4. EventTypes' /\ StorageTypes'
  BY <1>1, EventTypesStep, StorageTypesStep
<1>5. CounterTypes'
  BY <1>1, CounterTypesStep
<1> QED
  BY <1>2, <1>3, <1>4, <1>5 DEF TypeInv, TypeOK

\* The type invariant of the pipeline: at no time does a thread work on a
\* frame, or the storage writer on a message, that it does not have.
THEOREM TypeCorrect == Spec => []TypeOK
<1>1. Spec => []TypeInv
  BY TypeInvInit, TypeInvNext, PTL DEF Spec
<1>2. TypeInv => TypeOK
  BY DEF TypeInv
<1> QED
  BY <1>1, <1>2, PTL

LEMMA TypeInvAlways == Spec => []TypeInv
BY TypeInvInit, TypeInvNext, PTL DEF Spec

\* The streams only grow.
LEMMA StreamsGrow ==
    ASSUME TypeInv, [Next]_vars
    PROVE  /\ Raw!Entries \subseteq Raw!Entries'
           /\ \A i \in Raw!Entries : rawLog'[i] = rawLog[i]
           /\ Events!Entries \subseteq Events!Entries'
           /\ \A j \in Events!Entries : evLog'[j] = evLog[j]
BY RawTypesStep, EventTypesStep DEF TypeInv, TypeOK

-----------------------------------------------------------------------------
(* Ingestion.                                                              *)

LEMMA FramesOnDiskStep ==
    ASSUME TypeInv, FramesOnDisk, [Next]_vars
    PROVE  FramesOnDisk'
<1> USE DEF FramesOnDisk
<1>1. saved \subseteq saved'
  BY IngestSteps DEF Capture, Save, PublishFrame, CameraDies
<1>2. ASSUME NEW f \in saved, Raw!Publish(f) PROVE FramesOnDisk'
  <2>1. f \in Frames /\ RawTypes
    BY DEF TypeInv, TypeOK, IngestTypes
  <2> QED
    BY <1>1, <1>2, <2>1, RawAppend
<1>3. ASSUME NEW k \in Cameras, PublishFrame(k) PROVE FramesOnDisk'
  BY <1>2, <1>3 DEF PublishFrame, TypeInv, ImageFirst
<1>4. ASSUME NEW f \in saved, LateFrame(f) PROVE FramesOnDisk'
  BY <1>2, <1>4 DEF LateFrame
<1>5. CASE UNCHANGED rawLog
  BY <1>1, <1>5 DEF Raw!Entries
<1> QED
  BY <1>3, <1>4, <1>5, RawSteps
     DEF ConsumeFrames, AckFrame, Raw!Deliver, Raw!Ack

\* Whoever reads a frame reference finds the image: FramePublisher saves before
\* it publishes, wherever its thread dies, and a retried publish() repeats only
\* what was saved.
THEOREM FramesOnDiskAlways == Spec => []FramesOnDisk
<1>1. Init => FramesOnDisk
  BY DEF Init, Raw!Init, FramesOnDisk, Raw!Entries
<1>2. TypeInv /\ FramesOnDisk /\ [Next]_vars => FramesOnDisk'
  BY FramesOnDiskStep
<1> QED
  BY <1>1, <1>2, TypeInvAlways, PTL DEF Spec

-----------------------------------------------------------------------------
(* Storage.                                                                *)

LEMMA OneRowStep ==
    ASSUME TypeInv, OneRowPerEvent, [Next]_vars
    PROVE  OneRowPerEvent'
<1>1. CASE WriteBatch /\ rows' # rows
  <2> DEFINE new == {<<evLog[i], i>> : i \in RangeOf(held)}
  <2>1. rows' = Insert(new)
    BY <1>1 DEF WriteBatch
  <2>2. \A r \in new : r[2] \in Nat /\ r = <<r[1], r[2]>>
    BY EntriesAreNumbers DEF TypeInv, TypeOK, StorageTypes, RangeOf
  <2> HIDE DEF new
  <2> QED
    BY <2>1, <2>2 DEF OneRowPerEvent, Insert
<1>2. CASE UNCHANGED rows
  BY <1>2 DEF OneRowPerEvent
<1> QED
  BY <1>1, <1>2, StorageSteps
     DEF StorageStart, ConsumeEvents, AckEvent, StorageCrash

\* ON CONFLICT DO NOTHING on the key event_id: one row per event, however often
\* the event stands on the stream and however batches are cut or repeated.
THEOREM OneRowPerEventAlways == Spec => []OneRowPerEvent
<1>1. Init => OneRowPerEvent
  BY DEF Init, OneRowPerEvent
<1>2. TypeInv /\ OneRowPerEvent /\ [Next]_vars => OneRowPerEvent'
  BY OneRowStep
<1> QED
  BY <1>1, <1>2, TypeInvAlways, PTL DEF Spec

LEMMA LeastNatural ==
    ASSUME NEW S \in SUBSET Nat, S # {}
    PROVE  \E n \in S : \A m \in S : n <= m
<1> DEFINE R == OpToRel(<, Nat)
<1>1. IsWellFoundedOn(R, Nat)
  BY NatLessThanWellFounded, Zenon
<1>2. \A n, m \in Nat : m < n => <<m, n>> \in R
  BY DEF OpToRel
<1> HIDE DEF R
<1>3. PICK n \in S : \A m \in S : ~ (<<m, n>> \in R)
  BY <1>1, WFMin
<1>4. \A m \in S : ~(m < n)
  BY <1>2, <1>3
<1> QED
  BY <1>4

\* After the statement every message of the batch has its row.
LEMMA InsertStores ==
    ASSUME TypeInv, NEW i \in RangeOf(held),
           rows' = Insert({<<evLog[k], k>> : k \in RangeOf(held)})
    PROVE  \E r \in rows' : r[1] = evLog[i]
<1> DEFINE new == {<<evLog[k], k>> : k \in RangeOf(held)}
           same == {k \in RangeOf(held) : evLog[k] = evLog[i]}
<1>1. CASE \E old \in rows : old[1] = evLog[i]
  BY <1>1 DEF Insert
<1>2. CASE \A old \in rows : old[1] # evLog[i]
  <2>1. same \in SUBSET Nat /\ same # {}
    <3>1. held \in Seq(Events!Entries)
      BY DEF TypeInv, TypeOK, StorageTypes
    <3>2. Events!Entries \subseteq Nat
      BY EntriesAreNumbers DEF TypeInv, TypeOK
    <3>3. \A j \in DOMAIN held : held[j] \in Events!Entries
      BY <3>1
    <3>4. RangeOf(held) \subseteq Nat
      BY <3>2, <3>3 DEF RangeOf
    <3> QED
      BY <3>4
  <2>2. PICK n \in same : \A m \in same : n <= m
    BY <2>1, LeastNatural
  <2>3. <<evLog[n], n>> \in new
    OBVIOUS
  <2>4. \A o \in new : o[1] = evLog[n] => n <= o[2]
    BY <2>2
  <2>5. <<evLog[n], n>> \in Insert(new)
    BY <1>2, <2>2, <2>3, <2>4 DEF Insert
  <2> QED
    BY <2>2, <2>5
<1> QED
  BY <1>1, <1>2

\* What is being acknowledged is committed.
StorageInv ==
    /\ AckedEventsStored
    /\ stage = "acking" => \A j \in RangeOf(held) : Stored(evLog[j])

LEMMA StorageInvStep ==
    ASSUME TypeInv, StorageInv, [Next]_vars
    PROVE  StorageInv'
<1> USE DEF StorageInv
<1>1. /\ Events!Entries \subseteq Events!Entries'
      /\ \A j \in Events!Entries : evLog'[j] = evLog[j]
  BY StreamsGrow
<1>2. /\ evAcked \subseteq Events!Entries /\ RangeOf(held) \subseteq Events!Entries
  BY DEF TypeInv, TypeOK, EventTypes, StorageTypes, RangeOf
<1>3. rows \subseteq rows'
  BY StorageSteps DEF StorageStart, ConsumeEvents, WriteBatch, Insert, AckEvent,
                      StorageCrash
<1>4. \A j \in Events!Entries : Stored(evLog[j]) => Stored(evLog[j])'
  BY <1>1, <1>3 DEF Stored
<1>5. CASE AckEvent
  <2>1. held \in Seq(Events!Entries) /\ held # << >>
    BY <1>5 DEF AckEvent, TypeInv, TypeOK, StorageTypes
  <2>2. Head(held) \in RangeOf(held) /\ RangeOf(Tail(held)) \subseteq RangeOf(held)
    BY <2>1, RestOf DEF RangeOf
  <2>3. evAcked' = evAcked \cup {Head(held)} /\ held' = Tail(held)
    BY <1>5 DEF AckEvent, Events!Ack
  <2>4. AckedEventsStored'
    BY <1>2, <1>4, <1>5, <2>2, <2>3 DEF AckEvent, AckedEventsStored
  <2>5. \A j \in RangeOf(held)' : Stored(evLog[j])'
    BY <1>2, <1>4, <1>5, <2>2, <2>3 DEF AckEvent, RangeOf
  <2> QED
    BY <2>4, <2>5
<1>6. evAcked' = evAcked => AckedEventsStored'
  BY <1>2, <1>4 DEF AckedEventsStored
<1>7. CASE WriteBatch
  <2>1. evAcked' = evAcked /\ evLog' = evLog
    BY <1>7 DEF WriteBatch, eventVars
  <2>2. CASE stage' = "acking"
    <3>1. held' = held /\ rows' = Insert({<<evLog[i], i>> : i \in RangeOf(held)})
      BY <1>7, <2>2 DEF WriteBatch, WriteFails
    <3>2. \A j \in RangeOf(held) : Stored(evLog[j])'
      BY <2>1, <3>1, InsertStores DEF Stored
    <3> QED
      BY <1>6, <2>1, <3>1, <3>2 DEF RangeOf
  <2>3. CASE stage' # "acking"
    BY <1>6, <2>1, <2>3
  <2> QED
    BY <2>2, <2>3
<1>8. CASE StorageStart \/ ConsumeEvents \/ StorageCrash
  <2>1. evAcked' = evAcked /\ stage' # "acking"
    BY <1>8 DEF StorageStart, ConsumeEvents, StorageCrash, eventVars, Events!Deliver
  <2> QED
    BY <1>6, <2>1
<1>9. CASE UNCHANGED <<stage, held, rows>> /\ evAcked' = evAcked
  BY <1>2, <1>4, <1>6, <1>9 DEF RangeOf
<1>10. \/ AckEvent \/ WriteBatch \/ StorageStart \/ ConsumeEvents \/ StorageCrash
       \/ UNCHANGED <<stage, held, rows>> /\ evAcked' = evAcked
  BY StorageSteps, EventSteps
     DEF PublishEvent, LateEvent, Events!Publish, eventVars
<1> QED
  BY <1>5, <1>7, <1>8, <1>9, <1>10

\* The storage process acknowledges an event only after the transaction with its
\* row, or with the row of an earlier copy, was committed.
THEOREM AckedEventsStoredAlways == Spec => []AckedEventsStored
<1>1. Init => StorageInv
  BY DEF Init, Events!Init, StorageInv, AckedEventsStored
<1>2. TypeInv /\ StorageInv /\ [Next]_vars => StorageInv'
  BY StorageInvStep
<1>3. StorageInv => AckedEventsStored
  BY DEF StorageInv
<1> QED
  BY <1>1, <1>2, <1>3, TypeInvAlways, PTL DEF Spec

-----------------------------------------------------------------------------
(* Consuming: the group, the batchers' memory and the trackers.            *)

\* The group was handed a prefix of the stream, every entry once.
GroupInv ==
    /\ Raw!Delivered = 1..RawCursor
    /\ \A v, w \in Workers : v # w => rawPending[v] \cap rawPending[w] = {}
    /\ \A w \in Workers : rawPending[w] \cap rawAcked = {}

LEMMA GroupInit == Init => GroupInv
<1> SUFFICES ASSUME Init PROVE GroupInv
  OBVIOUS
<1>1. rawAcked = {} /\ \A w \in Workers : rawPending[w] = {}
  BY DEF Init, Raw!Init
<1>2. Raw!Delivered = {}
  BY <1>1 DEF Raw!Delivered
<1>3. RawCursor = 0
  BY <1>2, FS_EmptySet DEF RawCursor
<1> QED
  BY <1>1, <1>2, <1>3 DEF GroupInv

\* What ConsumeFrames(w) hands out.
LEMMA Handed ==
    ASSUME TypeInv, GroupInv, NEW w \in Workers,
           NEW n \in 1..(Len(rawLog) - RawCursor),
           Raw!Deliver(w, (RawCursor + 1)..(RawCursor + n))
    PROVE  /\ RawCursor \in Nat /\ n \in Nat \ {0}
           /\ rawPending' = [rawPending EXCEPT
                                ![w] = @ \cup (RawCursor + 1)..(RawCursor + n)]
           /\ rawAcked' = rawAcked
           /\ \A v \in Workers : rawPending[v] \subseteq 1..RawCursor
           /\ rawAcked \subseteq 1..RawCursor
<1>1. RawTypes
  BY DEF TypeInv, TypeOK
<1>2. RawCursor \in Nat
  BY <1>1, RawCursorType
<1>3. n \in Nat \ {0}
  BY <1>1, <1>2, EntriesAreNumbers
<1> QED
  BY <1>2, <1>3 DEF Raw!Deliver, GroupInv, Raw!Delivered

LEMMA GroupStep ==
    ASSUME TypeInv, GroupInv, [Next]_vars
    PROVE  GroupInv'
<1>1. RawTypes
  BY DEF TypeInv, TypeOK
<1>2. CASE UNCHANGED <<rawPending, rawAcked>>
  <2>1. Raw!Delivered' = Raw!Delivered
    BY <1>2 DEF Raw!Delivered
  <2> QED
    BY <1>2, <2>1 DEF GroupInv, RawCursor
<1>3. ASSUME NEW w \in Workers, ConsumeFrames(w) PROVE GroupInv'
  <2>1. PICK n \in 1..(Len(rawLog) - RawCursor) :
           Raw!Deliver(w, (RawCursor + 1)..(RawCursor + n))
    BY <1>3 DEF ConsumeFrames
  <2> DEFINE new == (RawCursor + 1)..(RawCursor + n)
  <2>2. /\ RawCursor \in Nat /\ n \in Nat \ {0}
        /\ rawPending' = [rawPending EXCEPT ![w] = @ \cup new]
        /\ rawAcked' = rawAcked
        /\ \A v \in Workers : rawPending[v] \subseteq 1..RawCursor
        /\ rawAcked \subseteq 1..RawCursor
    BY <2>1, Handed
  <2>3. new \cap 1..RawCursor = {} /\ (1..RawCursor) \cup new = 1..(RawCursor + n)
    BY <2>2
  <2> HIDE DEF new
  <2>4. Raw!Delivered' = Raw!Delivered \cup new
    BY <1>1, <2>2 DEF Raw!Delivered, RawTypes
  <2>5. Raw!Delivered' = 1..(RawCursor + n)
    BY <2>3, <2>4 DEF GroupInv
  <2>6. RawCursor' = RawCursor + n
    BY <2>2, <2>5, FS_Interval DEF RawCursor
  <2>7. \A v \in Workers : rawPending'[v] =
           IF v = w THEN rawPending[v] \cup new ELSE rawPending[v]
    BY <1>1, <2>2 DEF RawTypes
  <2>8. \A u, v \in Workers : u # v => rawPending'[u] \cap rawPending'[v] = {}
    BY <2>2, <2>3, <2>7 DEF GroupInv
  <2>9. \A v \in Workers : rawPending'[v] \cap rawAcked' = {}
    BY <2>2, <2>3, <2>7 DEF GroupInv
  <2> QED
    BY <2>5, <2>6, <2>8, <2>9 DEF GroupInv
<1>4. ASSUME NEW w \in Workers, AckFrame(w) PROVE GroupInv'
  <2> DEFINE i == Head(batch[w])
  <2>1. /\ i \in rawPending[w]
        /\ rawPending' = [rawPending EXCEPT ![w] = @ \ {i}]
        /\ rawAcked' = rawAcked \cup {i}
    BY <1>4 DEF AckFrame, Raw!Ack
  <2> HIDE DEF i
  <2>2. \A v \in Workers : rawPending'[v] =
           IF v = w THEN rawPending[v] \ {i} ELSE rawPending[v]
    BY <1>1, <2>1 DEF RawTypes
  <2>3. Raw!Delivered' = Raw!Delivered
    BY <2>1, <2>2 DEF Raw!Delivered
  <2> QED
    BY <2>1, <2>2, <2>3 DEF GroupInv, RawCursor
<1> QED
  BY <1>2, <1>3, <1>4, RawSteps
     DEF PublishFrame, LateFrame, Raw!Publish

LEMMA GroupAlways == Spec => []GroupInv
<1>1. TypeInv /\ GroupInv /\ [Next]_vars => GroupInv'
  BY GroupStep
<1> QED
  BY <1>1, GroupInit, TypeInvAlways, PTL DEF Spec

-----------------------------------------------------------------------------
(* What a worker has in memory.                                            *)

\* A process that is not there has no memory, and a thread that waits for a
\* batch has none.  What was submitted and is not acknowledged is pending with
\* this worker, and while nothing has failed nothing else is; it is worked off
\* in the order of the stream.
Memory(w) ==
    /\ w \notin up => thread[w] = "idle" /\ queue[w] = << >>
    /\ thread[w] = "idle" => batch[w] = << >>
    /\ InMemory(w) \subseteq rawPending[w]
    /\ faults = 0 => rawPending[w] \subseteq InMemory(w)
    /\ Sorted(batch[w]) /\ Sorted(queue[w])
    /\ \A i \in RangeOf(batch[w]), j \in RangeOf(queue[w]) : i < j

MemoryInv == \A w \in Workers : Memory(w)

LEMMA RangeOfEmpty == RangeOf(<< >>) = {} /\ Sorted(<< >>)
BY DEF RangeOf, Sorted

LEMMA MemoryInit == Init => MemoryInv
<1> SUFFICES ASSUME Init, NEW w \in Workers PROVE Memory(w)
  BY DEF MemoryInv
<1>1. /\ queue[w] = << >> /\ batch[w] = << >> /\ thread[w] = "idle"
      /\ rawPending[w] = {}
  BY DEF Init, Raw!Init
<1> QED
  BY <1>1, RangeOfEmpty DEF Memory, InMemory

LEMMA MemoryTypes ==
    ASSUME TypeInv
    PROVE  /\ \A w \in Workers : queue[w] \in Seq(Nat) /\ batch[w] \in Seq(Nat)
           /\ queue \in [Workers -> Seq(Nat)] /\ batch \in [Workers -> Seq(Nat)]
           /\ thread \in [Workers -> {"idle", "frame", "events", "dead"}]
           /\ rawPending \in [Workers -> SUBSET Nat]
           /\ faults \in Nat
<1>1. RawTypes /\ BatcherTypes /\ CounterTypes
  BY DEF TypeInv, TypeOK
<1>2. Raw!Entries \subseteq Nat
  BY <1>1, EntriesAreNumbers
<1>3. Seq(Raw!Entries) \subseteq Seq(Nat)
  BY <1>2, SeqWidens
<1>4. faults \in Nat
  BY <1>1, PipelineAssumption DEF CounterTypes
<1> QED
  BY <1>1, <1>2, <1>3, <1>4 DEF RawTypes, BatcherTypes

\* Nothing happened to v, but perhaps elsewhere.
LEMMA MemoryElsewhere ==
    ASSUME NEW v \in Workers, Memory(v), faults' = 0 => faults = 0,
           v \in up' <=> v \in up, thread'[v] = thread[v],
           queue'[v] = queue[v], batch'[v] = batch[v],
           rawPending'[v] = rawPending[v]
    PROVE  Memory(v)'
BY DEF Memory, InMemory

LEMMA MemoryStep ==
    ASSUME TypeInv, GroupInv, MemoryInv, [Next]_vars
    PROVE  MemoryInv'
<1>1. CounterTypes /\ (faults' = 0 => faults = 0)
  BY CounterTypesStep DEF TypeInv, TypeOK
<1>2. \A v \in Workers : Memory(v)
  BY DEF MemoryInv
<1> USE MemoryTypes
<1>3. ASSUME NEW w \in Workers, WorkerStart(w) PROVE MemoryInv'
  <2>1. /\ up' = up \cup {w}
        /\ UNCHANGED <<queue, batch, thread, rawPending, faults>>
    BY <1>3 DEF WorkerStart, rawVars
  <2>2. Memory(w)'
    BY <1>2, <2>1 DEF Memory, InMemory
  <2>3. ASSUME NEW v \in Workers, v # w PROVE Memory(v)'
    BY <1>1, <1>2, <2>1, <2>3, MemoryElsewhere
  <2> QED
    BY <2>2, <2>3 DEF MemoryInv
<1>4. ASSUME NEW w \in Workers, ConsumeFrames(w) PROVE MemoryInv'
  <2>1. PICK n \in 1..(Len(rawLog) - RawCursor) :
           /\ Raw!Deliver(w, (RawCursor + 1)..(RawCursor + n))
           /\ queue' = [queue EXCEPT ![w] = @ \o Submitted(n)]
    BY <1>4 DEF ConsumeFrames
  <2>2. w \in up /\ UNCHANGED <<up, batch, thread, faults>>
    BY <1>4 DEF ConsumeFrames
  <2> DEFINE new == (RawCursor + 1)..(RawCursor + n)
             s == Submitted(n)
  <2>3. /\ RawCursor \in Nat /\ n \in Nat \ {0}
        /\ rawPending' = [rawPending EXCEPT ![w] = @ \cup new]
        /\ rawPending[w] \subseteq 1..RawCursor
    BY <2>1, Handed
  <2>4. s \in Seq(Nat) /\ RangeOf(s) = new /\ Sorted(s)
    <3>1. s = [j \in 1..n |-> RawCursor + j]
      BY DEF Submitted
    <3>2. s \in Seq(Nat) /\ DOMAIN s = 1..n
      BY <2>3, <3>1
    <3>3. Sorted(s)
      BY <2>3, <3>1, <3>2 DEF Sorted
    <3>4. \A i \in new : i - RawCursor \in 1..n /\ s[i - RawCursor] = i
      BY <2>3, <3>1
    <3>5. \A j \in 1..n : s[j] \in new
      BY <2>3, <3>1
    <3> QED
      BY <3>2, <3>3, <3>4, <3>5 DEF RangeOf
  <2>5. \A i \in rawPending[w], j \in new : i < j
    BY <2>3
  <2> HIDE DEF new, s
  <2>6. queue'[w] = queue[w] \o s /\ rawPending'[w] = rawPending[w] \cup new
    BY <2>1, <2>3 DEF s
  <2>7. /\ RangeOf(queue'[w]) = RangeOf(queue[w]) \cup new
        /\ Sorted(queue'[w])
    <3>1. \A i \in RangeOf(queue[w]), j \in RangeOf(s) : i < j
      BY <1>2, <2>4, <2>5 DEF Memory, InMemory
    <3>2. Sorted(queue[w])
      BY <1>2 DEF Memory
    <3> QED
      BY <2>4, <2>6, <3>1, <3>2, RangeOfJoin
  <2>8. \A i \in RangeOf(batch[w]), j \in RangeOf(queue'[w]) : i < j
    BY <1>2, <2>5, <2>7 DEF Memory, InMemory
  <2>9. Memory(w)'
    BY <1>2, <2>2, <2>6, <2>7, <2>8 DEF Memory, InMemory
  <2>10. ASSUME NEW v \in Workers, v # w PROVE Memory(v)'
    BY <1>1, <1>2, <2>1, <2>2, <2>3, <2>10, MemoryElsewhere
  <2> QED
    BY <2>9, <2>10 DEF MemoryInv
<1>5. ASSUME NEW w \in Workers, TakeBatch(w) PROVE MemoryInv'
  <2>1. PICK n \in BatchSizes :
           /\ n <= Len(queue[w])
           /\ queue' = [queue EXCEPT ![w] = Unqueued(@, n)]
           /\ batch' = [batch EXCEPT ![w] = SubSeq(queue[w], 1, n)]
    BY <1>5 DEF TakeBatch
  <2>2. /\ w \in up /\ thread[w] = "idle"
        /\ thread' = [thread EXCEPT ![w] = "frame"]
        /\ UNCHANGED <<up, rawPending, faults>>
    BY <1>5 DEF TakeBatch, rawVars
  <2>3. n \in 1..Len(queue[w])
    BY <2>1, PipelineAssumption, LenProperties DEF BatchSizes
  <2>4. /\ queue'[w] = Unqueued(queue[w], n)
        /\ batch'[w] = SubSeq(queue[w], 1, n)
        /\ thread'[w] = "frame" /\ batch[w] = << >>
    BY <1>2, <2>1, <2>2 DEF Memory
  <2>5. /\ RangeOf(queue[w]) = RangeOf(batch'[w]) \cup RangeOf(queue'[w])
        /\ Sorted(batch'[w]) /\ Sorted(queue'[w])
        /\ \A i \in RangeOf(batch'[w]), j \in RangeOf(queue'[w]) : i < j
    <3>1. Sorted(queue[w])
      BY <1>2 DEF Memory
    <3> QED
      BY <2>3, <2>4, <3>1, RangeOfSplit
  <2>6. Memory(w)'
    BY <1>2, <2>2, <2>4, <2>5, RangeOfEmpty DEF Memory, InMemory
  <2>7. ASSUME NEW v \in Workers, v # w PROVE Memory(v)'
    BY <1>1, <1>2, <2>1, <2>2, <2>7, MemoryElsewhere
  <2> QED
    BY <2>6, <2>7 DEF MemoryInv
<1>6. ASSUME NEW w \in Workers, UpdateTracker(w) \/ PublishEvent(w) \/ BatchFails(w)
      PROVE  MemoryInv'
  <2>1. /\ UNCHANGED <<up, queue, batch, rawPending>>
        /\ thread[w] # "idle" /\ thread'[w] # "idle"
        /\ \A v \in Workers : v # w => thread'[v] = thread[v]
    BY <1>6 DEF UpdateTracker, PublishEvent, BatchFails, AfterRaise, rawVars
  <2>2. Memory(w)'
    BY <1>1, <1>2, <2>1 DEF Memory, InMemory
  <2>3. ASSUME NEW v \in Workers, v # w PROVE Memory(v)'
    BY <1>1, <1>2, <2>1, <2>3, MemoryElsewhere
  <2> QED
    BY <2>2, <2>3 DEF MemoryInv
<1>7. ASSUME NEW w \in Workers, AckFrame(w) PROVE MemoryInv'
  <2> DEFINE i == Head(batch[w])
  <2>1. /\ rawPending' = [rawPending EXCEPT ![w] = @ \ {i}]
        /\ batch' = [batch EXCEPT ![w] = Tail(@)]
        /\ thread' = [thread EXCEPT ![w] = IF Len(batch[w]) = 1 THEN "idle" ELSE "frame"]
        /\ UNCHANGED <<up, queue, faults>>
        /\ thread[w] = "events"
    BY <1>7 DEF AckFrame, Raw!Ack
  <2>2. batch[w] # << >>
    BY <2>1 DEF TypeInv, TypeOK, BatcherTypes
  <2>3. /\ RangeOf(batch[w]) = {i} \cup RangeOf(Tail(batch[w]))
        /\ Sorted(Tail(batch[w]))
        /\ \A j \in RangeOf(Tail(batch[w])) : i < j
    BY <1>2, <2>2, RangeOfRest DEF Memory
  <2>4. /\ batch'[w] = Tail(batch[w]) /\ rawPending'[w] = rawPending[w] \ {i}
        /\ thread'[w] = "idle" => batch'[w] = << >>
    BY <2>1, <2>2, RestOf
  <2>5. i \in Nat
    BY <2>2, RestOf
  <2> HIDE DEF i
  <2>6. i \notin RangeOf(batch'[w]) /\ i \notin RangeOf(queue[w])
    BY <1>2, <2>3, <2>4, <2>5 DEF Memory
  <2>7. InMemory(w)' = InMemory(w) \ {i}
    BY <2>1, <2>3, <2>4, <2>6 DEF InMemory
  <2>8. Memory(w)'
    BY <1>2, <2>1, <2>3, <2>4, <2>7 DEF Memory
  <2>9. ASSUME NEW v \in Workers, v # w PROVE Memory(v)'
    BY <1>1, <1>2, <2>1, <2>9, MemoryElsewhere
  <2> QED
    BY <2>8, <2>9 DEF MemoryInv
<1>8. ASSUME NEW w \in Workers, WorkerCrash(w) PROVE MemoryInv'
  <2>1. /\ up' = up \ {w} /\ rawPending' = rawPending /\ faults' = faults + 1
        /\ queue' = [queue EXCEPT ![w] = << >>]
        /\ batch' = [batch EXCEPT ![w] = << >>]
        /\ thread' = [thread EXCEPT ![w] = "idle"]
    BY <1>8 DEF WorkerCrash, Fault, rawVars
  <2>2. Memory(w)'
    BY <2>1, RangeOfEmpty DEF Memory, InMemory
  <2>3. ASSUME NEW v \in Workers, v # w PROVE Memory(v)'
    BY <1>1, <1>2, <2>1, <2>3, MemoryElsewhere
  <2> QED
    BY <2>2, <2>3 DEF MemoryInv
<1>9. CASE UNCHANGED <<up, queue, batch, thread, rawPending>>
  BY <1>1, <1>2, <1>9, MemoryElsewhere DEF MemoryInv
<1> QED
  BY <1>3, <1>4, <1>5, <1>6, <1>7, <1>8, <1>9, WorkerSteps, RawSteps
     DEF PublishFrame, LateFrame, Raw!Publish

\* What a worker has in memory is pending under its name, so that its ack()
\* settles it, and a system without faults has everything that is pending in
\* memory: consume(), submit() and the batches neither drop a frame nor bring
\* one back.
THEOREM NothingDroppedAlways == Spec => []NothingDropped
<1>1. TypeInv /\ GroupInv /\ MemoryInv /\ [Next]_vars => MemoryInv'
  BY MemoryStep
<1>2. MemoryInv /\ TypeInv => NothingDropped
  BY DEF MemoryInv, Memory, NothingDropped, TypeInv, TypeOK, BatcherTypes
<1> QED
  BY <1>1, <1>2, MemoryInit, TypeInvAlways, GroupAlways, PTL DEF Spec

LEMMA MemoryAlways == Spec => []MemoryInv
<1>1. TypeInv /\ GroupInv /\ MemoryInv /\ [Next]_vars => MemoryInv'
  BY MemoryStep
<1> QED
  BY <1>1, MemoryInit, TypeInvAlways, GroupAlways, PTL DEF Spec

-----------------------------------------------------------------------------
(* The trackers.                                                           *)

\* What worker w may still give to a tracker.
Ahead(w) ==
    CASE thread[w] = "dead" -> {}
      [] thread[w] = "events" -> RangeOf(Tail(batch[w])) \cup RangeOf(queue[w])
      [] OTHER -> InMemory(w)

\* Nothing that is still to be tracked was tracked before, by whomever, nor lies
\* before what its tracker has seen; a process that is started again does not
\* go on with the trackers it had.
TrackerInv ==
    /\ \A u \in tracked : /\ u.entry \in Raw!Delivered
                          /\ u.by[2] <= gen[u.by[1]]
    /\ \A w \in Workers : \A i \in Ahead(w), u \in tracked :
          /\ u.entry # i
          /\ u.by = <<w, gen[w]>> => u.entry < i

LEMMA TrackerInit == Init => TrackerInv
BY DEF Init, TrackerInv

LEMMA DeliveredGrows ==
    ASSUME TypeInv, [Next]_vars
    PROVE  Raw!Delivered \subseteq Raw!Delivered'
<1>1. RawTypes
  BY DEF TypeInv, TypeOK
<1>2. ASSUME NEW w \in Workers, ConsumeFrames(w)
      PROVE  Raw!Delivered \subseteq Raw!Delivered'
  BY <1>1, <1>2 DEF ConsumeFrames, Raw!Deliver, Raw!Delivered, RawTypes
<1>3. ASSUME NEW w \in Workers, AckFrame(w)
      PROVE  Raw!Delivered \subseteq Raw!Delivered'
  BY <1>1, <1>3 DEF AckFrame, Raw!Ack, Raw!Delivered, RawTypes
<1>4. CASE UNCHANGED <<rawPending, rawAcked>>
  BY <1>4 DEF Raw!Delivered
<1> QED
  BY <1>2, <1>3, <1>4, RawSteps DEF PublishFrame, LateFrame, Raw!Publish

LEMMA UpdateTypes ==
    ASSUME TypeInv
    PROVE  /\ gen \in [Workers -> Nat]
           /\ \A u \in tracked : /\ u.entry \in Nat /\ u.by \in Workers \X Nat
                                 /\ u.by = <<u.by[1], u.by[2]>>
           /\ \A w \in Workers : thread[w] \in {"frame", "events"} => batch[w] # << >>
BY EntriesAreNumbers DEF TypeInv, TypeOK, BatcherTypes, TrackerTypes

\* Steps that give nothing to a tracker and start no process.
LEMMA TrackerElsewhere ==
    ASSUME TypeInv, TrackerInv, [Next]_vars, tracked' = tracked, gen' = gen,
           \A v \in Workers : Ahead(v)' \subseteq Ahead(v)
    PROVE  TrackerInv'
BY DeliveredGrows DEF TrackerInv

LEMMA AheadInMemory ==
    ASSUME TypeInv, MemoryInv, NEW w \in Workers
    PROVE  Ahead(w) \subseteq rawPending[w] /\ Ahead(w) \subseteq Nat
<1>1. InMemory(w) \subseteq rawPending[w] /\ rawPending[w] \subseteq Nat
  BY MemoryTypes DEF MemoryInv, Memory
<1>2. CASE thread[w] = "events"
  <2>1. batch[w] \in Seq(Nat) /\ batch[w] # << >>
    BY <1>2, MemoryTypes, UpdateTypes
  <2>2. RangeOf(Tail(batch[w])) \subseteq RangeOf(batch[w])
    BY <2>1, RangeOfRest
  <2> QED
    BY <1>1, <1>2, <2>2 DEF Ahead, InMemory
<1> QED
  BY <1>1, <1>2 DEF Ahead

\* The update of one frame.
LEMMA Updated ==
    ASSUME NEW w \in Workers, UpdateTracker(w)
    PROVE  /\ thread[w] = "frame" /\ thread' = [thread EXCEPT ![w] = "events"]
           /\ UNCHANGED <<rawPending, rawAcked, up, gen, queue, batch, evLog>>
           /\ \E tracks :
                 /\ tracked' = tracked \cup
                      {[entry |-> Head(batch[w]), by |-> <<w, gen[w]>>,
                        tracks |-> tracks]}
                 /\ todo' = [todo EXCEPT ![w] = tracks]
BY DEF UpdateTracker, rawVars, eventVars

LEMMA TrackerUpdated ==
    ASSUME TypeInv, GroupInv, MemoryInv, TrackerInv, NEW w \in Workers,
           UpdateTracker(w)
    PROVE  TrackerInv'
<1> DEFINE i == Head(batch[w])
<1>1. PICK tracks :
         tracked' = tracked \cup {[entry |-> i, by |-> <<w, gen[w]>>, tracks |-> tracks]}
  BY Updated
<1>2. /\ thread[w] = "frame" /\ thread' = [thread EXCEPT ![w] = "events"]
      /\ UNCHANGED <<rawPending, rawAcked, up, gen, queue, batch>>
  BY Updated
<1>3. batch[w] \in Seq(Nat) /\ batch[w] # << >>
  BY <1>2, MemoryTypes, UpdateTypes
<1>4. /\ RangeOf(batch[w]) = {i} \cup RangeOf(Tail(batch[w]))
      /\ \A j \in RangeOf(Tail(batch[w])) : i < j
      /\ \A j \in RangeOf(queue[w]) : i < j
  BY <1>3, RangeOfRest DEF MemoryInv, Memory
<1> HIDE DEF i
<1>5. thread'[w] = "events" /\ \A v \in Workers : v # w => thread'[v] = thread[v]
  BY <1>2, MemoryTypes
<1>6. /\ Ahead(w) = InMemory(w)
      /\ Ahead(w)' = RangeOf(Tail(batch[w])) \cup RangeOf(queue[w])
      /\ \A v \in Workers : v # w => Ahead(v)' = Ahead(v)
  BY <1>2, <1>5 DEF Ahead, InMemory, RangeOf
<1>7. i \in Ahead(w) /\ Ahead(w)' \subseteq Ahead(w)
  BY <1>4, <1>6 DEF InMemory
<1>8. i \in rawPending[w] /\ i \in Nat
  BY <1>7, AheadInMemory
<1>9. /\ i \in Raw!Delivered
      /\ \A v \in Workers : v # w => i \notin Ahead(v)
  BY <1>8, AheadInMemory DEF Raw!Delivered, GroupInv
<1>10. Raw!Delivered' = Raw!Delivered /\ gen' = gen
  BY <1>2 DEF Raw!Delivered
<1>11. \A j \in Ahead(w)' : i < j /\ i # j
  BY <1>4, <1>6, <1>7, <1>8, AheadInMemory
<1>12. \A u \in tracked' : u.entry \in Raw!Delivered' /\ u.by[2] <= gen'[u.by[1]]
  BY <1>1, <1>9, <1>10, UpdateTypes DEF TrackerInv
<1>13. ASSUME NEW v \in Workers, NEW j \in Ahead(v)', NEW u \in tracked'
       PROVE  u.entry # j /\ (u.by = <<v, gen'[v]>> => u.entry < j)
  <2>1. CASE u \in tracked
    BY <1>6, <1>7, <1>10, <2>1 DEF TrackerInv
  <2>2. CASE u \notin tracked
    <3>1. u.entry = i /\ u.by = <<w, gen[w]>>
      BY <1>1, <2>2
    <3>2. CASE v = w
      BY <1>11, <3>1, <3>2
    <3>3. CASE v # w
      BY <1>6, <1>9, <3>1, <3>3
    <3> QED
      BY <3>2, <3>3
  <2> QED
    BY <2>1, <2>2
<1> QED
  BY <1>12, <1>13 DEF TrackerInv

LEMMA TrackerStep ==
    ASSUME TypeInv, GroupInv, MemoryInv, TrackerInv, [Next]_vars
    PROVE  TrackerInv'
<1> USE MemoryTypes
<1>1. ASSUME NEW w \in Workers, WorkerStart(w) PROVE TrackerInv'
  <2>1. /\ w \notin up /\ gen' = [gen EXCEPT ![w] = @ + 1]
        /\ UNCHANGED <<rawPending, rawAcked, queue, batch, thread, tracked>>
    BY <1>1 DEF WorkerStart, rawVars
  <2>2. Ahead(w) = {}
    BY <2>1, RangeOfEmpty DEF MemoryInv, Memory, Ahead, InMemory
  <2>3. \A v \in Workers : Ahead(v)' = Ahead(v)
    BY <2>1 DEF Ahead, InMemory
  <2>4. /\ Raw!Delivered' = Raw!Delivered
        /\ \A v \in Workers : gen'[v] = IF v = w THEN gen[v] + 1 ELSE gen[v]
    BY <2>1, UpdateTypes DEF Raw!Delivered
  <2>5. \A u \in tracked : u.by[2] <= gen'[u.by[1]]
    <3> SUFFICES ASSUME NEW u \in tracked PROVE u.by[2] <= gen'[u.by[1]]
      OBVIOUS
    <3>1. u.by[1] \in Workers /\ u.by[2] \in Nat /\ gen[u.by[1]] \in Nat
      BY UpdateTypes
    <3>2. u.by[2] <= gen[u.by[1]]
      BY DEF TrackerInv
    <3>3. gen'[u.by[1]] = gen[u.by[1]] \/ gen'[u.by[1]] = gen[u.by[1]] + 1
      BY <2>4, <3>1
    <3> QED
      BY <3>1, <3>2, <3>3
  <2>6. \A v \in Workers : \A i \in Ahead(v)', u \in tracked' :
           u.entry # i /\ (u.by = <<v, gen'[v]>> => u.entry < i)
    BY <2>1, <2>2, <2>3, <2>4 DEF TrackerInv
  <2> QED
    BY <2>1, <2>4, <2>5, <2>6 DEF TrackerInv
<1>2. ASSUME NEW w \in Workers, ConsumeFrames(w) PROVE TrackerInv'
  <2>1. PICK n \in 1..(Len(rawLog) - RawCursor) :
           /\ Raw!Deliver(w, (RawCursor + 1)..(RawCursor + n))
           /\ queue' = [queue EXCEPT ![w] = @ \o Submitted(n)]
    BY <1>2 DEF ConsumeFrames
  <2>2. UNCHANGED <<gen, batch, thread, tracked>>
    BY <1>2 DEF ConsumeFrames
  <2> DEFINE new == (RawCursor + 1)..(RawCursor + n)
  <2>3. RawCursor \in Nat /\ n \in Nat \ {0}
    BY <2>1, Handed
  <2>4. \A i \in new, j \in Raw!Delivered : j < i
    BY <2>3 DEF GroupInv
  <2>5. Submitted(n) \in Seq(Nat) /\ RangeOf(Submitted(n)) \subseteq new
    BY <2>3 DEF Submitted, RangeOf
  <2>6. RangeOf(queue[w] \o Submitted(n)) \subseteq RangeOf(queue[w]) \cup new
    BY <2>5, RangeOfJoin
  <2> HIDE DEF new
  <2>7. /\ RangeOf(queue'[w]) \subseteq RangeOf(queue[w]) \cup new
        /\ \A v \in Workers : v # w => queue'[v] = queue[v]
    BY <2>1, <2>6
  <2>8. \A v \in Workers : Ahead(v)' \subseteq Ahead(v) \cup new
    BY <2>2, <2>7 DEF Ahead, InMemory
  <2>9. ASSUME NEW v \in Workers, NEW i \in Ahead(v)', NEW u \in tracked'
        PROVE  u.entry # i /\ (u.by = <<v, gen'[v]>> => u.entry < i)
    <3>1. CASE i \in Ahead(v)
      BY <2>2, <3>1 DEF TrackerInv
    <3>2. CASE i \in new
      <4>1. u.entry \in Raw!Delivered /\ u.entry \in Nat
        BY <2>2, UpdateTypes DEF TrackerInv
      <4>2. u.entry < i
        BY <2>4, <3>2, <4>1
      <4>3. i \in Nat
        BY <2>3, <3>2 DEF new
      <4> QED
        BY <4>1, <4>2, <4>3
    <3> QED
      BY <2>8, <3>1, <3>2
  <2>10. \A u \in tracked' : u.entry \in Raw!Delivered' /\ u.by[2] <= gen'[u.by[1]]
    BY <2>2, DeliveredGrows DEF TrackerInv
  <2> QED
    BY <2>9, <2>10 DEF TrackerInv
<1>3. ASSUME NEW w \in Workers, TakeBatch(w) PROVE TrackerInv'
  <2>1. PICK n \in BatchSizes :
           /\ n <= Len(queue[w])
           /\ queue' = [queue EXCEPT ![w] = Unqueued(@, n)]
           /\ batch' = [batch EXCEPT ![w] = SubSeq(queue[w], 1, n)]
    BY <1>3 DEF TakeBatch
  <2>2. /\ thread[w] = "idle" /\ thread' = [thread EXCEPT ![w] = "frame"]
        /\ UNCHANGED <<gen, tracked>>
    BY <1>3 DEF TakeBatch
  <2>3. n \in 1..Len(queue[w])
    BY <2>1, PipelineAssumption, LenProperties DEF BatchSizes
  <2>4. RangeOf(queue[w]) = RangeOf(batch'[w]) \cup RangeOf(queue'[w])
    BY <2>1, <2>3, RangeOfSplit
  <2>5. \A v \in Workers : v # w => /\ thread'[v] = thread[v] /\ batch'[v] = batch[v]
                                    /\ queue'[v] = queue[v]
    BY <2>1, <2>2
  <2>6. Ahead(w)' \subseteq Ahead(w)
    BY <2>2, <2>4 DEF Ahead, InMemory
  <2>7. \A v \in Workers : v # w => Ahead(v)' = Ahead(v)
    BY <2>5 DEF Ahead, InMemory
  <2> QED
    BY <2>2, <2>6, <2>7, TrackerElsewhere
<1>4. ASSUME NEW w \in Workers, UpdateTracker(w) PROVE TrackerInv'
  BY <1>4, TrackerUpdated
<1>5. ASSUME NEW w \in Workers, PublishEvent(w) \/ BatchFails(w) PROVE TrackerInv'
  <2>1. /\ UNCHANGED <<gen, queue, batch, tracked>>
        /\ thread'[w] = "dead" \/ thread'[w] = thread[w]
        /\ \A v \in Workers : v # w => thread'[v] = thread[v]
    BY <1>5 DEF PublishEvent, BatchFails, AfterRaise
  <2>2. \A v \in Workers : Ahead(v)' \subseteq Ahead(v)
    BY <2>1 DEF Ahead, InMemory
  <2> QED
    BY <2>1, <2>2, TrackerElsewhere
<1>6. ASSUME NEW w \in Workers, AckFrame(w) PROVE TrackerInv'
  <2>1. /\ UNCHANGED <<gen, queue, tracked>> /\ thread[w] = "events"
        /\ batch' = [batch EXCEPT ![w] = Tail(@)]
        /\ thread'[w] \in {"idle", "frame"}
        /\ \A v \in Workers : v # w => thread'[v] = thread[v]
    BY <1>6 DEF AckFrame
  <2>2. batch'[w] = Tail(batch[w]) /\ \A v \in Workers : v # w => batch'[v] = batch[v]
    BY <2>1
  <2>3. Ahead(w)' = Ahead(w)
    BY <2>1, <2>2 DEF Ahead, InMemory
  <2>4. \A v \in Workers : v # w => Ahead(v)' = Ahead(v)
    BY <2>1, <2>2 DEF Ahead, InMemory
  <2> QED
    BY <2>1, <2>3, <2>4, TrackerElsewhere
<1>7. ASSUME NEW w \in Workers, WorkerCrash(w) PROVE TrackerInv'
  <2>1. /\ UNCHANGED <<gen, tracked>>
        /\ queue' = [queue EXCEPT ![w] = << >>]
        /\ batch' = [batch EXCEPT ![w] = << >>]
        /\ thread' = [thread EXCEPT ![w] = "idle"]
    BY <1>7 DEF WorkerCrash
  <2>2. Ahead(w)' = {}
    BY <2>1, RangeOfEmpty DEF Ahead, InMemory
  <2>3. \A v \in Workers : v # w => Ahead(v)' = Ahead(v)
    BY <2>1 DEF Ahead, InMemory
  <2> QED
    BY <2>1, <2>2, <2>3, TrackerElsewhere
<1>8. CASE UNCHANGED <<gen, queue, batch, thread, tracked>>
  BY <1>8, TrackerElsewhere DEF Ahead, InMemory
<1> QED
  BY <1>1, <1>2, <1>3, <1>4, <1>5, <1>6, <1>7, <1>8, WorkerSteps

LEMMA TrackerAlways == Spec => []TrackerInv
<1>1. TypeInv /\ GroupInv /\ MemoryInv /\ TrackerInv /\ [Next]_vars => TrackerInv'
  BY TrackerStep
<1> QED
  BY <1>1, TrackerInit, TypeInvAlways, GroupAlways, MemoryAlways, PTL DEF Spec

LEMMA InOrderStep ==
    ASSUME TypeInv, MemoryInv, TrackerInv, [Next]_vars,
           NEW u \in tracked' \ tracked, NEW v \in tracked
    PROVE  u.entry # v.entry /\ (u.by = v.by => v.entry < u.entry)
<1>1. PICK w \in Workers : UpdateTracker(w)
  BY WorkerSteps
     DEF WorkerStart, ConsumeFrames, TakeBatch, PublishEvent, AckFrame, BatchFails,
         WorkerCrash
<1>2. u.entry = Head(batch[w]) /\ u.by = <<w, gen[w]>> /\ thread[w] = "frame"
  BY <1>1, Updated
<1>3. batch[w] \in Seq(Nat) /\ batch[w] # << >>
  BY <1>2, MemoryTypes, UpdateTypes
<1>4. Head(batch[w]) \in Ahead(w)
  BY <1>2, <1>3, RangeOfRest DEF Ahead, InMemory
<1> QED
  BY <1>2, <1>4 DEF TrackerInv

\* Every tracker sees the frames in the order of the stream, and a frame is seen
\* by one tracker: no interleaving of the two threads of a worker, no other
\* worker and no restart shows a frame twice or late.
THEOREM TrackersInOrderAlways == Spec => TrackersInOrder
<1> DEFINE Step == \A u \in tracked' \ tracked : \A v \in tracked :
                      /\ u.entry # v.entry
                      /\ u.by = v.by => v.entry < u.entry
<1>1. TypeInv /\ MemoryInv /\ TrackerInv /\ [Next]_vars => Step
  BY InOrderStep
<1>2. Spec => [][Step]_vars
  BY <1>1, TypeInvAlways, MemoryAlways, TrackerAlways, PTL DEF Spec
<1> QED
  BY <1>2 DEF TrackersInOrder

-----------------------------------------------------------------------------
(* Publishing what a tracker answered.                                     *)

OnStream(u, t) ==
    \E j \in Events!Entries : evLog[j] = [entry |-> u.entry, by |-> u.by, track |-> t]

\* While the thread publishes the events of a frame, the tracks it has done are
\* on the stream.
Published(w) ==
    thread[w] = "events" =>
        \E u \in tracked : /\ u.entry = Head(batch[w]) /\ u.by = <<w, gen[w]>>
                           /\ \A t \in u.tracks \ todo[w] : OnStream(u, t)

PublishedInv == AckedFramesPublished /\ \A w \in Workers : Published(w)

LEMMA PublishedInit == Init => PublishedInv
BY DEF Init, Raw!Init, PublishedInv, AckedFramesPublished, Published

LEMMA OnStreamStays ==
    ASSUME TypeInv, [Next]_vars
    PROVE  /\ tracked \subseteq tracked'
           /\ \A u, t : OnStream(u, t) => OnStream(u, t)'
<1>1. tracked \subseteq tracked'
  BY WorkerSteps
     DEF WorkerStart, ConsumeFrames, TakeBatch, UpdateTracker, PublishEvent,
         AckFrame, BatchFails, WorkerCrash
<1>2. \A u, t : OnStream(u, t) => OnStream(u, t)'
  BY StreamsGrow DEF OnStream
<1> QED
  BY <1>1, <1>2

LEMMA AckedOnStream ==
    /\ AckedFramesPublished <=>
          \A i \in rawAcked : \E u \in tracked :
             u.entry = i /\ \A t \in u.tracks : OnStream(u, t)
    /\ AckedFramesPublished' <=>
          \A i \in rawAcked' : \E u \in tracked' :
             u.entry = i /\ \A t \in u.tracks : OnStream(u, t)'
BY DEF AckedFramesPublished, OnStream

LEMMA AckedStay ==
    ASSUME TypeInv, AckedFramesPublished, [Next]_vars, rawAcked' = rawAcked
    PROVE  AckedFramesPublished'
<1>1. \A i \in rawAcked : \E u \in tracked :
         u.entry = i /\ \A t \in u.tracks : OnStream(u, t)
  BY AckedOnStream
<1>2. \A i \in rawAcked' : \E u \in tracked' :
         u.entry = i /\ \A t \in u.tracks : OnStream(u, t)'
  BY <1>1, OnStreamStays
<1> QED
  BY <1>2, AckedOnStream

LEMMA PublishedElsewhere ==
    ASSUME TypeInv, [Next]_vars, NEW v \in Workers, Published(v),
           thread'[v] = "events" => /\ thread[v] = "events" /\ batch'[v] = batch[v]
                                    /\ gen'[v] = gen[v] /\ todo'[v] = todo[v]
    PROVE  Published(v)'
BY OnStreamStays DEF Published

LEMMA PublishedStep ==
    ASSUME TypeInv, MemoryInv, PublishedInv, [Next]_vars
    PROVE  PublishedInv'
<1> USE MemoryTypes
<1>1. \A v \in Workers : Published(v)
  BY DEF PublishedInv
<1>2. gen \in [Workers -> Nat] /\ todo \in [Workers -> SUBSET (Cameras \X (1..MaxTracks))]
  BY DEF TypeInv, TypeOK, BatcherTypes, TrackerTypes
<1>3. rawAcked' = rawAcked => AckedFramesPublished'
  BY AckedStay DEF PublishedInv
<1>4. ASSUME NEW w \in Workers, UpdateTracker(w) PROVE PublishedInv'
  <2>1. PICK tracks :
           /\ tracked' = tracked \cup
                {[entry |-> Head(batch[w]), by |-> <<w, gen[w]>>, tracks |-> tracks]}
           /\ todo' = [todo EXCEPT ![w] = tracks]
    BY <1>4, Updated
  <2>2. /\ thread' = [thread EXCEPT ![w] = "events"]
        /\ UNCHANGED <<rawAcked, gen, batch>>
    BY <1>4, Updated
  <2> DEFINE u == [entry |-> Head(batch[w]), by |-> <<w, gen[w]>>, tracks |-> tracks]
  <2>3. /\ u \in tracked' /\ u.entry = Head(batch'[w]) /\ u.by = <<w, gen'[w]>>
        /\ u.tracks \ todo'[w] = {}
    BY <1>2, <2>1, <2>2
  <2>4. Published(w)'
    BY <2>3 DEF Published
  <2>5. ASSUME NEW v \in Workers, v # w PROVE Published(v)'
    BY <1>1, <1>2, <2>1, <2>2, <2>5, PublishedElsewhere
  <2> QED
    BY <1>3, <2>2, <2>4, <2>5 DEF PublishedInv
<1>5. ASSUME NEW w \in Workers, PublishEvent(w) PROVE PublishedInv'
  <2>1. PICK t \in todo[w] :
           /\ todo' = [todo EXCEPT ![w] = @ \ {t}]
           /\ \/ Events!Publish(EventOf(w, t)) /\ UNCHANGED thread
              \/ thread' = [thread EXCEPT ![w] = AfterRaise]
    BY <1>5 DEF PublishEvent
  <2>2. UNCHANGED <<rawAcked, gen, batch>> /\ thread[w] = "events"
    BY <1>5 DEF PublishEvent, rawVars
  <2>3. ASSUME Events!Publish(EventOf(w, t)) PROVE Published(w)'
    <3>1. PICK u \in tracked :
             /\ u.entry = Head(batch[w]) /\ u.by = <<w, gen[w]>>
             /\ \A x \in u.tracks \ todo[w] : OnStream(u, x)
      BY <1>1, <2>2 DEF Published
    <3>2. EventOf(w, t) \in TrackEvents /\ EventTypes
      BY <2>2, EventType DEF TypeInv, TypeOK
    <3>3. Len(evLog) + 1 \in Events!Entries' /\ evLog'[Len(evLog) + 1] = EventOf(w, t)
      BY <2>3, <3>2, EventAppend
    <3>4. OnStream(u, t)'
      BY <3>1, <3>3 DEF OnStream, EventOf
    <3>5. todo'[w] = todo[w] \ {t}
      BY <1>2, <2>1
    <3>6. \A x \in u.tracks \ todo'[w] : OnStream(u, x)'
      BY <3>1, <3>4, <3>5, OnStreamStays
    <3> QED
      BY <2>2, <3>1, <3>6, OnStreamStays DEF Published
  <2>4. ASSUME thread' = [thread EXCEPT ![w] = AfterRaise] PROVE Published(w)'
    BY <2>4 DEF Published, AfterRaise
  <2>5. Published(w)'
    BY <2>1, <2>3, <2>4
  <2>6. ASSUME NEW v \in Workers, v # w PROVE Published(v)'
    <3>1. todo'[v] = todo[v]
      BY <1>2, <2>1, <2>6
    <3>2. CASE UNCHANGED thread
      BY <1>1, <2>2, <3>1, <3>2, PublishedElsewhere
    <3>3. CASE thread' = [thread EXCEPT ![w] = AfterRaise]
      <4>1. thread'[v] = thread[v]
        BY <2>6, <3>3
      <4> QED
        BY <1>1, <2>2, <3>1, <4>1, PublishedElsewhere
    <3> QED
      BY <2>1, <3>2, <3>3
  <2>7. AckedFramesPublished'
    BY <1>3, <2>2
  <2> QED
    BY <2>5, <2>6, <2>7 DEF PublishedInv
<1>6. ASSUME NEW w \in Workers, AckFrame(w) PROVE PublishedInv'
  <2>1. /\ thread[w] = "events" /\ todo[w] = {}
        /\ rawAcked' = rawAcked \cup {Head(batch[w])}
        /\ batch' = [batch EXCEPT ![w] = Tail(@)]
        /\ thread' = [thread EXCEPT ![w] = IF Len(batch[w]) = 1 THEN "idle" ELSE "frame"]
        /\ UNCHANGED <<gen, todo>>
    BY <1>6 DEF AckFrame, Raw!Ack
  <2>2. PICK u \in tracked : u.entry = Head(batch[w]) /\ \A t \in u.tracks : OnStream(u, t)
    BY <1>1, <2>1 DEF Published
  <2>3. \A i \in rawAcked : \E x \in tracked :
           x.entry = i /\ \A t \in x.tracks : OnStream(x, t)
    BY AckedOnStream DEF PublishedInv
  <2>4. \A i \in rawAcked' : \E x \in tracked' :
           x.entry = i /\ \A t \in x.tracks : OnStream(x, t)'
    BY <2>1, <2>2, <2>3, OnStreamStays
  <2>5. AckedFramesPublished'
    BY <2>4, AckedOnStream
  <2>6. thread'[w] # "events"
    BY <2>1
  <2>7. Published(w)'
    BY <2>6 DEF Published
  <2>8. ASSUME NEW v \in Workers, v # w PROVE Published(v)'
    <3>1. batch'[v] = batch[v] /\ thread'[v] = thread[v]
      BY <2>1, <2>8
    <3> QED
      BY <1>1, <2>1, <3>1, PublishedElsewhere
  <2>9. \A v \in Workers : Published(v)'
    BY <2>7, <2>8
  <2> QED
    BY <2>5, <2>9 DEF PublishedInv
<1>7. ASSUME NEW w \in Workers, WorkerStart(w) PROVE PublishedInv'
  <2>1. /\ w \notin up /\ gen' = [gen EXCEPT ![w] = @ + 1]
        /\ UNCHANGED <<rawAcked, batch, thread, todo>>
    BY <1>7 DEF WorkerStart, rawVars
  <2>2. thread[w] = "idle"
    BY <2>1 DEF MemoryInv, Memory
  <2>3. ASSUME NEW v \in Workers PROVE Published(v)'
    BY <1>1, <1>2, <2>1, <2>2, PublishedElsewhere
  <2> QED
    BY <1>3, <2>1, <2>3 DEF PublishedInv
<1>8. ASSUME NEW w \in Workers,
             ConsumeFrames(w) \/ TakeBatch(w) \/ BatchFails(w) \/ WorkerCrash(w)
      PROVE  PublishedInv'
  <2>1. /\ UNCHANGED <<rawAcked, gen>>
        /\ \A v \in Workers : thread'[v] = "events" =>
              thread[v] = "events" /\ batch'[v] = batch[v] /\ todo'[v] = todo[v]
    BY <1>2, <1>8 DEF ConsumeFrames, TakeBatch, BatchFails, WorkerCrash, Raw!Deliver,
                      rawVars
  <2>2. ASSUME NEW v \in Workers PROVE Published(v)'
    BY <1>1, <2>1, PublishedElsewhere
  <2> QED
    BY <1>3, <2>1, <2>2 DEF PublishedInv
<1>9. CASE UNCHANGED <<gen, batch, thread, todo, rawAcked>>
  BY <1>1, <1>3, <1>9, PublishedElsewhere DEF PublishedInv
<1> QED
  BY <1>4, <1>5, <1>6, <1>7, <1>8, <1>9, WorkerSteps, RawSteps
     DEF PublishFrame, LateFrame, Raw!Publish

\* _process_batch() acknowledges a frame only after every track the tracker
\* answered for it is on track_events, wherever it is cut short.
THEOREM AckedFramesPublishedAlways == Spec => []AckedFramesPublished
<1>1. TypeInv /\ MemoryInv /\ PublishedInv /\ [Next]_vars => PublishedInv'
  BY PublishedStep
<1>2. PublishedInv => AckedFramesPublished
  BY DEF PublishedInv
<1> QED
  BY <1>1, <1>2, PublishedInit, TypeInvAlways, MemoryAlways, PTL DEF Spec
=============================================================================
