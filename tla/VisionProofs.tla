---------------------------- MODULE VisionProofs ----------------------------
(***************************************************************************)
(* Proofs, for any number of candidates and detections, any boxes, scores  *)
(* and thresholds, about the detector, the tracker, and the two together.  *)
(*                                                                         *)
(* _nms() compares only the box it keeps with the ones that are left, so   *)
(* that what makes the kept ones apart is an invariant of the loop: what   *)
(* is left is apart from, and no better than, everything kept (Ahead).     *)
(*                                                                         *)
(* The heart of the association is Exchange: a track and a detection that  *)
(* stage 1 leaves over could take each other's place in the assignment, so *)
(* they cannot overlap by more than what the two pairs have together, less *)
(* than twice the threshold.  Nothing is used of the assignment but that   *)
(* no exchange improves it.                                                *)
(*                                                                         *)
(* An execution of Vision is one of Detector and one of ByteTracker: what  *)
(* is proved of these holds where the worker puts them together.           *)
(***************************************************************************)
EXTENDS Vision, FiniteSetTheorems, TLAPS

-----------------------------------------------------------------------------
(* Detector: overlaps.                                                     *)

LEMMA IntersectionCommutes ==
    ASSUME NEW a \in Boxes, NEW b \in Boxes
    PROVE  Intersection(a, b) = Intersection(b, a) /\ Intersection(a, b) \in Int
<1>1. /\ Lower(a.x2, b.x2) = Lower(b.x2, a.x2) /\ Upper(a.x1, b.x1) = Upper(b.x1, a.x1)
      /\ Lower(a.y2, b.y2) = Lower(b.y2, a.y2) /\ Upper(a.y1, b.y1) = Upper(b.y1, a.y1)
  BY DEF Boxes, Lower, Upper
<1>2. /\ Upper(0, Lower(a.x2, b.x2) - Upper(a.x1, b.x1)) \in Int
      /\ Upper(0, Lower(a.y2, b.y2) - Upper(a.y1, b.y1)) \in Int
  BY DEF Boxes, Lower, Upper
<1> QED
  BY <1>1, <1>2 DEF Intersection

LEMMA SuppressesCommutes ==
    ASSUME NEW c \in Candidates, NEW d \in Candidates
    PROVE  Suppresses(c, d) <=> Suppresses(d, c)
<1>1. BoxOf[c] \in Boxes /\ BoxOf[d] \in Boxes
  BY DetectorAssumption
<1>2. Area(BoxOf[c]) \in Int /\ Area(BoxOf[d]) \in Int
  BY <1>1 DEF Area, Boxes
<1>3. UnionArea(BoxOf[c], BoxOf[d]) = UnionArea(BoxOf[d], BoxOf[c])
  BY <1>1, <1>2, IntersectionCommutes DEF UnionArea
<1> QED
  BY <1>1, <1>3, IntersectionCommutes DEF Suppresses

-----------------------------------------------------------------------------
(* Detector: the loop.                                                     *)

NmsInv == DetectorTypeOK /\ KeptApart /\ SuppressedForReason /\ Ahead

LEMMA NmsInit == DetectorInit => NmsInv
BY DEF DetectorInit, NmsInv, DetectorTypeOK, KeptApart, SuppressedForReason, Ahead

\* The filter: nothing is kept yet, everything is left.
LEMMA NmsDecode ==
    ASSUME NEW raw \in [Candidates -> Scores], Decode(raw)
    PROVE  NmsInv'
<1> QED
  BY DEF Decode, NmsInv, DetectorTypeOK, KeptApart, SuppressedForReason, Ahead, Kept

LEMMA NmsKeepNext == NmsInv /\ KeepNext => NmsInv'
<1> SUFFICES ASSUME NmsInv, KeepNext PROVE NmsInv'
  OBVIOUS
<1>1. PICK c \in remaining :
        /\ IsBestLeft(c)
        /\ kept' = Append(kept, c)
        /\ remaining' = {d \in remaining \ {c} : SurvivesNms(c, d)}
        /\ score' = score
  BY DEF KeepNext, detectorVars
<1>2. /\ kept \in Seq(DOMAIN score)
      /\ remaining \subseteq DOMAIN score
      /\ DOMAIN score \subseteq Candidates
  BY DEF NmsInv, DetectorTypeOK
<1>3. /\ DOMAIN kept' = 1..(Len(kept) + 1)
      /\ DOMAIN kept = 1..Len(kept)
      /\ \A i \in 1..Len(kept) : kept'[i] = kept[i] /\ kept[i] \in DOMAIN score
      /\ kept'[Len(kept) + 1] = c
      /\ Len(kept) \in Nat
  BY <1>1, <1>2
<1>4. DetectorTypeOK'
  <2>1. kept' \in Seq(DOMAIN score)
    BY <1>1, <1>2
  <2> QED
    BY <1>1, <2>1 DEF NmsInv, DetectorTypeOK
<1>5. \A i \in 1..Len(kept) :
        kept[i] # c /\ ~Suppresses(kept[i], c) /\ ~Suppresses(c, kept[i])
  BY <1>1, <1>2, <1>3, SuppressesCommutes DEF NmsInv, Ahead
<1>6. KeptApart'
  <2> SUFFICES ASSUME NEW i \in DOMAIN kept', NEW j \in DOMAIN kept', i # j
               PROVE  kept'[i] # kept'[j] /\ ~Suppresses(kept'[i], kept'[j])
    BY DEF KeptApart, Suppresses
  <2>1. CASE i \in 1..Len(kept) /\ j \in 1..Len(kept)
    BY <1>3, <2>1 DEF NmsInv, KeptApart
  <2>2. CASE i = Len(kept) + 1
    BY <1>3, <1>5, <2>2
  <2>3. CASE j = Len(kept) + 1
    BY <1>3, <1>5, <2>3
  <2> QED
    BY <1>3, <2>1, <2>2, <2>3
<1>7. Ahead'
  <2> SUFFICES ASSUME NEW i \in DOMAIN kept', NEW d \in remaining'
               PROVE  /\ kept'[i] # d
                      /\ ~Suppresses(kept'[i], d)
                      /\ score'[d] <= score'[kept'[i]]
    BY DEF Ahead, Suppresses
  <2>1. CASE i \in 1..Len(kept)
    BY <1>1, <1>3, <2>1 DEF NmsInv, Ahead
  <2>2. CASE i = Len(kept) + 1
    BY <1>1, <1>3, <2>2 DEF IsBestLeft, SurvivesNms
  <2> QED
    BY <1>3, <2>1, <2>2
<1>8. SuppressedForReason'
  <2>1. Kept' = Kept \cup {c}
    BY <1>3 DEF Kept
  <2> SUFFICES ASSUME NEW d \in DOMAIN score' \ (remaining' \cup Kept')
               PROVE  \E e \in Kept' : Suppresses(e, d) /\ score'[d] <= score'[e]
    BY DEF SuppressedForReason, Suppresses
  <2>2. CASE d \notin remaining
    BY <1>1, <2>1, <2>2 DEF NmsInv, SuppressedForReason
  <2>3. CASE d \in remaining
    BY <1>1, <2>1, <2>3 DEF IsBestLeft, SurvivesNms
  <2> QED
    BY <2>2, <2>3
<1> QED
  BY <1>4, <1>6, <1>7, <1>8 DEF NmsInv

LEMMA NmsNext == NmsInv /\ [DetectorNext]_detectorVars => NmsInv'
<1> SUFFICES ASSUME NmsInv, [DetectorNext]_detectorVars PROVE NmsInv'
  OBVIOUS
<1>1. CASE UNCHANGED detectorVars
  BY <1>1 DEF detectorVars, NmsInv, DetectorTypeOK, KeptApart,
              SuppressedForReason, Ahead, Kept, Suppresses
<1>2. CASE DetectorNext
  BY <1>2, NmsDecode, NmsKeepNext DEF DetectorNext
<1> QED
  BY <1>1, <1>2

\* No two boxes that are kept overlap by more than the threshold.
THEOREM KeptApartAlways == DetectorSpec => []KeptApart
<1>1. NmsInv => KeptApart
  BY DEF NmsInv
<1> QED
  BY <1>1, NmsInit, NmsNext, PTL DEF DetectorSpec

\* What is dropped overlaps too much with a better one that is kept.
THEOREM SuppressedForReasonAlways == DetectorSpec => []SuppressedForReason
<1>1. NmsInv => SuppressedForReason
  BY DEF NmsInv
<1> QED
  BY <1>1, NmsInit, NmsNext, PTL DEF DetectorSpec

-----------------------------------------------------------------------------
(* ByteTracker: matching.                                                  *)

\* What match_by_iou() answers: pairs of a track and a detection of the stage
\* that overlap enough.
LEMMA Matching ==
    ASSUME NEW ts, NEW ds, NEW iou, NEW x, NEW m \in MatchByIou(ts, ds, x, iou)
    PROVE  /\ DOMAIN m \subseteq ts
           /\ \A t \in DOMAIN m : m[t] \in ds /\ iou[t][m[t]] >= x
           /\ \A t, u \in DOMAIN m : m[t] = m[u] => t = u
           /\ Range(m) \subseteq ds
<1>1. PICK a \in Assignments(ts, ds, iou) : m = Matches(a, x, iou)
  BY DEF MatchByIou
<1>2. /\ DOMAIN a \subseteq ts
      /\ \A t \in DOMAIN a : a[t] \in ds
      /\ \A t, u \in DOMAIN a : a[t] = a[u] => t = u
  BY DEF Assignments, IsAssignment
<1>3. /\ DOMAIN m = {u \in DOMAIN a : iou[u][a[u]] >= x}
      /\ \A t \in DOMAIN m : m[t] = a[t]
  BY <1>1 DEF Matches
<1> QED
  BY <1>2, <1>3 DEF Range

\* A track and a detection that a stage leaves over overlap by less than twice
\* its threshold.
LEMMA Exchange ==
    ASSUME NEW ts, NEW ds, NEW iou,
           \A u \in ts, e \in ds : iou[u][e] \in Nat,
           NEW x \in Nat, NEW m \in MatchByIou(ts, ds, x, iou),
           NEW t \in ts \ DOMAIN m,
           NEW d \in ds \ Range(m)
    PROVE  iou[t][d] < 2 * x
<1>0. PICK a \in Assignments(ts, ds, iou) : m = Matches(a, x, iou)
  BY DEF MatchByIou
<1>1. /\ DOMAIN a \subseteq ts
      /\ \A u \in DOMAIN a : a[u] \in ds
      /\ DOMAIN a = ts \/ Range(a) = ds
      /\ \A u, v \in DOMAIN a :
            iou[u][a[v]] + iou[v][a[u]] <= iou[u][a[u]] + iou[v][a[v]]
      /\ \A u \in DOMAIN a, e \in ds \ Range(a) : iou[u][e] <= iou[u][a[u]]
      /\ \A u \in DOMAIN a, v \in ts \ DOMAIN a : iou[v][a[u]] <= iou[u][a[u]]
  BY DEF Assignments, IsAssignment
<1>2. /\ \A u \in DOMAIN m : m[u] = a[u]
      /\ \A u \in DOMAIN a : iou[u][a[u]] >= x => u \in DOMAIN m
  BY <1>0 DEF Matches
<1>3. t \in DOMAIN a => iou[t][a[t]] < x
  BY <1>1, <1>2
<1>4. ASSUME NEW u \in DOMAIN a, d = a[u] PROVE iou[u][a[u]] < x
  <2>1. u \notin DOMAIN m
    BY <1>2, <1>4 DEF Range
  <2> QED
    BY <1>1, <1>2, <2>1
<1>5. CASE t \in DOMAIN a /\ d \in Range(a)
  <2>1. PICK u \in DOMAIN a : d = a[u]
    BY <1>5 DEF Range
  <2>2. iou[t][d] + iou[u][a[t]] <= iou[t][a[t]] + iou[u][a[u]]
    BY <1>1, <1>5, <2>1
  <2>3. iou[t][a[t]] < x /\ iou[u][a[u]] < x
    BY <1>3, <1>4, <1>5, <2>1
  <2>4. /\ iou[t][d] \in Nat /\ iou[u][a[t]] \in Nat
        /\ iou[t][a[t]] \in Nat /\ iou[u][a[u]] \in Nat
    BY <1>1, <1>5, <2>1
  <2> QED
    BY <2>2, <2>3, <2>4
<1>6. CASE t \in DOMAIN a /\ d \notin Range(a)
  <2>1. iou[t][d] <= iou[t][a[t]] /\ iou[t][a[t]] \in Nat /\ iou[t][d] \in Nat
    BY <1>1, <1>6
  <2> QED
    BY <1>3, <1>6, <2>1
<1>7. CASE t \notin DOMAIN a /\ d \in Range(a)
  <2>1. PICK u \in DOMAIN a : d = a[u]
    BY <1>7 DEF Range
  <2>2. /\ iou[t][d] <= iou[u][a[u]] /\ iou[u][a[u]] < x
        /\ iou[t][d] \in Nat /\ iou[u][a[u]] \in Nat
    BY <1>1, <1>4, <1>7, <2>1
  <2> QED
    BY <2>2
<1>8. CASE t \notin DOMAIN a /\ d \notin Range(a)
  BY <1>1, <1>8
<1> QED
  BY <1>5, <1>6, <1>7, <1>8

-----------------------------------------------------------------------------
(* ByteTracker: what stage 1 misses, and stage 3.                          *)

\* The overlaps of a frame are numbers.
OverlapsOf(high, iou) == \A t \in Active, d \in high : iou[t][d] \in Nat

\* Stage 3 of update() never matches a track: what stage 1 leaves over cannot
\* overlap by as much as stage 3 asks for, whatever the tracks, the detections
\* and their overlaps are.  (The loop at src/inference/tracker.py:236-239 has
\* nothing to do in any frame.)
THEOREM StageThreeNeverMatches ==
    ASSUME NEW high, NEW low, NEW iou, OverlapsOf(high, iou),
           NEW m1 \in MatchByIou(Active, high, MatchIou, iou),
           NEW m2 \in MatchByIou(Left(Active, m1), low, LowConfIou, iou),
           NEW m3 \in MatchByIou(Tentative(Left(Left(Active, m1), m2)),
                                 high \ Range(m1), UnconfirmedIou, iou)
    PROVE  DOMAIN m3 = {}
<1> USE TrackerAssumption
<1>1. SUFFICES ASSUME NEW t \in DOMAIN m3 PROVE FALSE
  OBVIOUS
<1>2. /\ t \in Tentative(Left(Left(Active, m1), m2))
      /\ m3[t] \in high \ Range(m1)
      /\ iou[t][m3[t]] >= UnconfirmedIou
  BY Matching
<1>3. t \in Active \ DOMAIN m1
  BY <1>2 DEF Tentative, Left
<1>4. iou[t][m3[t]] \in Nat
  BY <1>2, <1>3 DEF OverlapsOf
<1>5. iou[t][m3[t]] < 2 * MatchIou
  <2>1. \A u \in Active, e \in high : iou[u][e] \in Nat
    BY DEF OverlapsOf
  <2> QED
    BY <1>2, <1>3, <2>1, Exchange
<1> QED
  BY <1>2, <1>4, <1>5, ThresholdAssumption

LEMMA MissesNext == [Next]_vars /\ MissesBelowTwice => MissesBelowTwice'
<1> SUFFICES ASSUME [Next]_vars, MissesBelowTwice PROVE MissesBelowTwice'
  OBVIOUS
<1> USE TrackerAssumption
<1>1. ASSUME NEW high \in SUBSET Detections, NEW low \in SUBSET (Detections \ high),
             NEW iou \in [Active -> [high \cup low -> Ious]],
             Update(high, low, iou)
      PROVE  MissesBelowTwice'
  <2>1. PICK m1 \in MatchByIou(Active, high, MatchIou, iou) :
          \E m2 \in MatchByIou(Left(Active, m1), low, LowConfIou, iou) :
          \E m3 \in MatchByIou(Tentative(Left(Left(Active, m1), m2)),
                               high \ Range(m1), UnconfirmedIou, iou) :
             Conclude(high, iou, m1, m2, m3)
    BY <1>1 DEF Update
  <2>2. ASSUME NEW t \in Left(Active, m1), NEW d \in high \ Range(m1)
        PROVE  iou[t][d] < 2 * MatchIou
    <3>1. \A u \in Active, e \in high : iou[u][e] \in Nat
      OBVIOUS
    <3>2. t \in Active \ DOMAIN m1
      BY DEF Left
    <3> QED
      BY <3>1, <3>2, Exchange
  <2>3. PICK m2, m3 : Conclude(high, iou, m1, m2, m3)
    BY <2>1
  <2> QED
    BY <2>2, <2>3 DEF Conclude, MissesBelowTwice
<1>2. CASE UNCHANGED vars
  BY <1>2 DEF vars, MissesBelowTwice
<1> QED
  BY <1>1, <1>2 DEF Next

\* However the overlaps fall, a detection that begins a track overlaps what
\* stage 1 left unmatched by less than twice the threshold.
THEOREM MissesBelowTwiceAlways == Spec => []MissesBelowTwice
<1>1. Init => MissesBelowTwice
  BY DEF Init, MissesBelowTwice
<1> QED
  BY <1>1, MissesNext, PTL DEF Spec

-----------------------------------------------------------------------------
(* ByteTracker: the life of a track.                                       *)

\* What Lifecycle says of one record.
Alive(r) ==
    \/ r.state = "tentative" /\ r.since = 0 /\ r.hits = r.age /\ r.hits < MinHits
    \/ r.state = "confirmed" /\ r.since = 0 /\ r.hits >= MinHits
    \/ r.state = "lost" /\ r.since \in 1..MaxLost /\ r.hits >= MinHits

\* Ids come from the counter, and the records are those of living tracks.
TracksInv ==
    /\ counter \in Nat
    /\ DOMAIN tracks \subseteq 1..counter
    /\ \A t \in DOMAIN tracks : tracks[t] \in TrackRecords /\ Alive(tracks[t])

LEMMA TracksInit == Init => TracksInv
BY DEF Init, TracksInv

\* A record has its four fields.
LEMMA RecordFields ==
    ASSUME NEW r \in TrackRecords
    PROVE  /\ r = [state |-> r.state, hits |-> r.hits, age |-> r.age, since |-> r.since]
           /\ r.hits \in Nat /\ r.age \in Nat /\ r.since \in Nat
           /\ r.state \in {"tentative", "confirmed", "lost", "removed"}
BY DEF TrackRecords

\* A track that is matched stays alive.
LEMMA MatchedLives ==
    ASSUME NEW r \in TrackRecords, Alive(r)
    PROVE  LET q == MarkMatched([r EXCEPT !.age = @ + 1]) IN
           q \in TrackRecords /\ Alive(q)
<1> DEFINE s == IF r.state = "lost" \/ r.hits + 1 >= MinHits THEN "confirmed" ELSE r.state
           aged == [r EXCEPT !.age = @ + 1]
           hit == [aged EXCEPT !.hits = @ + 1]
           seen == [hit EXCEPT !.since = 0]
           q == [state |-> s, hits |-> r.hits + 1, age |-> r.age + 1, since |-> 0]
<1>1. aged = [state |-> r.state, hits |-> r.hits, age |-> r.age + 1, since |-> r.since]
  BY RecordFields
<1> HIDE DEF aged
<1>2. hit = [state |-> r.state, hits |-> r.hits + 1, age |-> r.age + 1, since |-> r.since]
  BY <1>1
<1> HIDE DEF hit
<1>3. seen = [state |-> r.state, hits |-> r.hits + 1, age |-> r.age + 1, since |-> 0]
  BY <1>2
<1> HIDE DEF seen
<1>4. [seen EXCEPT !.state =
         IF @ = "lost" \/ aged.hits + 1 >= MinHits THEN "confirmed" ELSE @] = q
  BY <1>1, <1>3
<1>5. MarkMatched(aged) = q
  BY <1>4, Zenon DEF MarkMatched, seen, hit
<1>6. q \in TrackRecords
  BY RecordFields DEF TrackRecords
<1>7. Alive(q)
  BY RecordFields, TrackerAssumption DEF Alive
<1> QED
  BY <1>5, <1>6, <1>7, Zenon DEF aged

\* A track that is not matched is lost for a while, or does not survive.
LEMMA UnmatchedLives ==
    ASSUME NEW r \in TrackRecords, Alive(r)
    PROVE  LET q == MarkUnmatched([r EXCEPT !.age = @ + 1]) IN
           q \in TrackRecords /\ (Survives(q) => Alive(q))
<1> DEFINE s == CASE r.state = "confirmed" -> "lost"
                  [] r.state = "tentative" -> "removed"
                  [] OTHER -> r.state
           aged == [r EXCEPT !.age = @ + 1]
           missing == [aged EXCEPT !.since = @ + 1]
           q == [state |-> s, hits |-> r.hits, age |-> r.age + 1, since |-> r.since + 1]
<1>1. aged = [state |-> r.state, hits |-> r.hits, age |-> r.age + 1, since |-> r.since]
  BY RecordFields
<1> HIDE DEF aged
<1>2. missing = [state |-> r.state, hits |-> r.hits, age |-> r.age + 1,
                 since |-> r.since + 1]
  BY <1>1
<1> HIDE DEF missing
<1>3. [missing EXCEPT !.state = CASE @ = "confirmed" -> "lost"
                                  [] @ = "tentative" -> "removed"
                                  [] OTHER -> @] = q
  BY <1>2
<1>4. MarkUnmatched(aged) = q
  BY <1>3, Zenon DEF MarkUnmatched, missing
<1>5. q \in TrackRecords
  BY RecordFields DEF TrackRecords
<1>6. Survives(q) => Alive(q)
  BY RecordFields, TrackerAssumption DEF Alive, Survives
<1> QED
  BY <1>4, <1>5, <1>6, Zenon DEF aged

LEMMA NewLives == NewTrack \in TrackRecords /\ Alive(NewTrack)
BY TrackerAssumption DEF NewTrack, TrackRecords, Alive

\* No track is matched in two stages.
LEMMA OneStage ==
    ASSUME NEW t, NEW m1, NEW m2, NEW m3,
           DOMAIN m2 \subseteq Left(Active, m1),
           DOMAIN m3 \subseteq Left(Left(Active, m1), m2)
    PROVE  AfterStages(t, m1, m2, m3) \in
             {MarkMatched(Aged(t)), MarkUnmatched(Aged(t))}
BY DEF AfterStages, Marked, Left

\* What Settle makes of tracks that survive only if they are alive.
LEMMA Settled ==
    ASSUME TracksInv, NEW old, NEW match, NEW fresh \in SUBSET Detections,
           DOMAIN old = Active,
           \A t \in Active : /\ old[t] \in TrackRecords
                             /\ Survives(old[t]) => Alive(old[t]),
           Settle(old, match, fresh)
    PROVE  /\ TracksInv'
           /\ \A t \in DOMAIN tracks' : t \in DOMAIN tracks \/ t > counter
<1> DEFINE top == counter + Cardinality(fresh)
           new == (counter + 1)..top
           all == Both(old, [t \in new |-> NewTrack])
<1>1. Cardinality(fresh) \in Nat
  BY FS_Subset, FS_CardinalityType, TrackerAssumption
<1>2. counter \in Nat /\ counter' = top /\ top \in Nat /\ counter <= top
  BY <1>1 DEF TracksInv, Settle, Count
<1>3. tracks' = [t \in {u \in DOMAIN all : Survives(all[u])} |-> all[t]]
  BY DEF Settle, Count
<1>4. /\ DOMAIN all = Active \cup new
      /\ \A t \in Active : all[t] = old[t]
      /\ \A t \in new \ Active : all[t] = NewTrack
  BY DEF Both
<1> HIDE DEF all
<1>5. \A t \in DOMAIN tracks' : tracks'[t] = all[t] /\ t \in Active \cup new /\ Survives(all[t])
  BY <1>3, <1>4
<1>6. \A t \in DOMAIN tracks' : tracks'[t] \in TrackRecords /\ Alive(tracks'[t])
  BY <1>4, <1>5, NewLives
<1>7. \A t \in new : t > counter /\ t \in 1..top
  BY <1>2
<1>8. Active \subseteq 1..top
  BY <1>2 DEF TracksInv, Active
<1>9. \A t \in DOMAIN tracks' : t \in 1..top /\ (t \in DOMAIN tracks \/ t > counter)
  BY <1>5, <1>7, <1>8 DEF Active
<1> QED
  BY <1>2, <1>6, <1>9 DEF TracksInv

LEMMA TracksNext ==
    ASSUME TracksInv, [Next]_vars
    PROVE  /\ TracksInv'
           /\ \/ \A t \in DOMAIN tracks' : t \in DOMAIN tracks \/ t > counter
              \/ UNCHANGED vars
<1>1. ASSUME NEW high \in SUBSET Detections, NEW low \in SUBSET (Detections \ high),
             NEW iou \in [Active -> [high \cup low -> Ious]],
             Update(high, low, iou)
      PROVE  /\ TracksInv'
             /\ \A t \in DOMAIN tracks' : t \in DOMAIN tracks \/ t > counter
  <2>1. PICK m1 \in MatchByIou(Active, high, MatchIou, iou) :
          \E m2 \in MatchByIou(Left(Active, m1), low, LowConfIou, iou) :
          \E m3 \in MatchByIou(Tentative(Left(Left(Active, m1), m2)),
                               high \ Range(m1), UnconfirmedIou, iou) :
             Conclude(high, iou, m1, m2, m3)
    BY <1>1 DEF Update
  <2>2. PICK m2 \in MatchByIou(Left(Active, m1), low, LowConfIou, iou) :
          \E m3 \in MatchByIou(Tentative(Left(Left(Active, m1), m2)),
                               high \ Range(m1), UnconfirmedIou, iou) :
             Conclude(high, iou, m1, m2, m3)
    BY <2>1
  <2>3. PICK m3 \in MatchByIou(Tentative(Left(Left(Active, m1), m2)),
                               high \ Range(m1), UnconfirmedIou, iou) :
             Conclude(high, iou, m1, m2, m3)
    BY <2>2
  <2> DEFINE old == [t \in Active |-> AfterStages(t, m1, m2, m3)]
             match == Both(m1, Both(m2, m3))
             fresh == (high \ Range(m1)) \ Range(m3)
  <2>4. Settle(old, match, fresh)
    BY <2>3 DEF Conclude
  <2>5. /\ DOMAIN m2 \subseteq Left(Active, m1)
        /\ DOMAIN m3 \subseteq Left(Left(Active, m1), m2)
    BY Matching DEF Tentative
  <2>6. ASSUME NEW t \in Active
        PROVE  old[t] \in TrackRecords /\ (Survives(old[t]) => Alive(old[t]))
    <3>1. tracks[t] \in TrackRecords /\ Alive(tracks[t])
      BY DEF TracksInv, Active
    <3>2. old[t] \in {MarkMatched(Aged(t)), MarkUnmatched(Aged(t))}
      BY <2>5, OneStage
    <3> QED
      BY <3>1, <3>2, MatchedLives, UnmatchedLives DEF Aged
  <2>7. DOMAIN old = Active /\ fresh \in SUBSET Detections
    OBVIOUS
  <2> HIDE DEF old, match, fresh
  <2> QED
    BY <2>4, <2>6, <2>7, Settled
<1>2. CASE UNCHANGED vars
  BY <1>2 DEF vars, TracksInv
<1> QED
  BY <1>1, <1>2 DEF Next

LEMMA TracksInvAlways == Spec => []TracksInv
BY TracksInit, TracksNext, PTL DEF Spec

\* What the state of a track says of its history is true in every run, for any
\* number of hits to confirm and of frames to lose.
THEOREM LifecycleAlways == Spec => []Lifecycle
<1>1. TracksInv => Lifecycle
  BY DEF TracksInv, Alive, Lifecycle
<1> QED
  BY <1>1, TracksInvAlways, PTL

\* An id never comes back.
THEOREM IdsNotReusedAlways == Spec => IdsNotReused
<1>1. TracksInv /\ [Next]_vars =>
        [\A t \in DOMAIN tracks' : t \in DOMAIN tracks \/ t > counter]_vars
  BY TracksNext
<1> QED
  BY <1>1, TracksInvAlways, PTL DEF Spec, IdsNotReused

\* Every variable of the tracker stays in its domain, whatever the detections.
THEOREM TrackerTypeCorrect == Spec => []TypeOK
<1>1. Init => TypeOK
  BY TrackerAssumption DEF Init, TypeOK
<1>2. TypeOK /\ TracksInv /\ TracksInv' /\ [Next]_vars => TypeOK'
  <2> SUFFICES ASSUME TypeOK, TracksInv, TracksInv', [Next]_vars PROVE TypeOK'
    OBVIOUS
  <2>1. ASSUME NEW high \in SUBSET Detections, NEW low \in SUBSET (Detections \ high),
               NEW iou \in [Active -> [high \cup low -> Ious]],
               Update(high, low, iou)
        PROVE  TypeOK'
    <3>1. frame' \in 0..MaxFrames
      BY <2>1, TrackerAssumption DEF Update, TypeOK
    <3>2. PICK m1 \in MatchByIou(Active, high, MatchIou, iou) :
            \E m2 \in MatchByIou(Left(Active, m1), low, LowConfIou, iou) :
            \E m3 \in MatchByIou(Tentative(Left(Left(Active, m1), m2)),
                                 high \ Range(m1), UnconfirmedIou, iou) :
               Conclude(high, iou, m1, m2, m3)
      BY <2>1 DEF Update
    <3>3. PICK m2 \in MatchByIou(Left(Active, m1), low, LowConfIou, iou) :
            \E m3 \in MatchByIou(Tentative(Left(Left(Active, m1), m2)),
                                 high \ Range(m1), UnconfirmedIou, iou) :
               Conclude(high, iou, m1, m2, m3)
      BY <3>2
    <3>4. PICK m3 \in MatchByIou(Tentative(Left(Left(Active, m1), m2)),
                                 high \ Range(m1), UnconfirmedIou, iou) :
               Conclude(high, iou, m1, m2, m3)
      BY <3>3
    <3>5. counter' \in 0..MaxIds
      <4>1. counter' <= MaxIds
        BY <3>4 DEF Conclude, Settle
      <4> QED
        BY <4>1, TrackerAssumption DEF TracksInv
    <3>6. missed' \subseteq Ious
      <4>1. \A t \in Active : iou[t] \in [high \cup low -> Ious]
        OBVIOUS
      <4>2. \A t \in Active, d \in high : iou[t][d] \in Ious
        BY <4>1
      <4> QED
        BY <3>4, <4>2 DEF Conclude, Left
    <3> QED
      BY <3>1, <3>5, <3>6 DEF TypeOK, TracksInv
  <2>2. CASE UNCHANGED vars
    BY <2>2 DEF vars, TypeOK
  <2> QED
    BY <2>1, <2>2 DEF Next
<1> QED
  BY <1>1, <1>2, TracksInvAlways, PTL DEF Spec

-----------------------------------------------------------------------------
(* Vision: the detector.                                                   *)

\* An image is begun only when the candidates of the last one are decided.
Decided == phase = "detect" => remaining = {}

LEMMA DecidedInit == VisionInit => Decided
BY DEF VisionInit, DetectorInit, Decided

LEMMA DecidedNext == Decided /\ [VisionNext]_visionVars => Decided'
BY DEF Decided, VisionNext, Detect, Suppress, Track, visionVars, detectorVars

LEMMA DetectorStep ==
    Decided /\ [VisionNext]_visionVars => [DetectorNext]_detectorVars
<1> SUFFICES ASSUME Decided, [VisionNext]_visionVars
             PROVE  [DetectorNext]_detectorVars
  OBVIOUS
<1>1. CASE Detect
  BY <1>1 DEF Detect, Decided, DetectorNext
<1>2. CASE Suppress
  BY <1>2 DEF Suppress, DetectorNext
<1>3. CASE Track \/ UNCHANGED visionVars
  BY <1>3 DEF Track, visionVars
<1> QED
  BY <1>1, <1>2, <1>3 DEF VisionNext

\* The images of one camera go through the detector one after the other.
THEOREM VisionDetects == VisionSpec => DetectorSpec
<1>1. VisionInit => DetectorInit
  BY DEF VisionInit
<1> QED
  BY <1>1, DecidedInit, DecidedNext, DetectorStep, PTL DEF VisionSpec, DetectorSpec

\* Two boxes a tracker is given never overlap by more than the threshold of
\* the suppression.
THEOREM VisionKeepsApart == VisionSpec => []KeptApart
BY VisionDetects, KeptApartAlways, PTL

\* What a tracker is not given was suppressed for a box it is given, which has
\* at least its score and overlaps it too much.
THEOREM VisionSuppressedForReason == VisionSpec => []SuppressedForReason
BY VisionDetects, SuppressedForReasonAlways, PTL

-----------------------------------------------------------------------------
(* Vision: overlaps are percentages.                                       *)

LEMMA ProductsGrow ==
    ASSUME NEW p \in Nat, NEW q \in Nat, NEW r \in Nat, NEW s \in Nat,
           p <= q, r <= s
    PROVE  p * r <= q * s /\ p * r \in Nat
<1>1. p * r <= q * r
  OBVIOUS
<1>2. q * r <= q * s
  OBVIOUS
<1> QED
  BY <1>1, <1>2

LEMMA IntersectionIsPart ==
    ASSUME NEW a \in Boxes, NEW b \in Boxes
    PROVE  /\ Intersection(a, b) \in Nat
           /\ Area(a) \in Nat
           /\ Intersection(a, b) <= Area(a)
<1> DEFINE w == Upper(0, Lower(a.x2, b.x2) - Upper(a.x1, b.x1))
           h == Upper(0, Lower(a.y2, b.y2) - Upper(a.y1, b.y1))
<1>1. w \in Nat /\ w <= a.x2 - a.x1 /\ a.x2 - a.x1 \in Nat
  BY DEF Boxes, Lower, Upper
<1>2. h \in Nat /\ h <= a.y2 - a.y1 /\ a.y2 - a.y1 \in Nat
  BY DEF Boxes, Lower, Upper
<1>3. Intersection(a, b) = w * h
  BY DEF Intersection
<1> HIDE DEF w, h
<1>4. /\ w * h <= (a.x2 - a.x1) * (a.y2 - a.y1)
      /\ w * h \in Nat
  BY <1>1, <1>2, ProductsGrow
<1>5. (a.x2 - a.x1) * (a.y2 - a.y1) \in Nat
  BY <1>1, <1>2, ProductsGrow
<1> QED
  BY <1>3, <1>4, <1>5 DEF Area

LEMMA Quotient ==
    ASSUME NEW i \in Nat, NEW u \in Nat, u > 0, i <= u
    PROVE  (100 * i) \div u \in 0..100
OBVIOUS

LEMMA IouIsPercent ==
    ASSUME NEW a \in Boxes, NEW b \in Boxes
    PROVE  Iou(a, b) \in 0..100
<1>1. /\ Intersection(a, b) \in Nat
      /\ Area(a) \in Nat /\ Intersection(a, b) <= Area(a)
  BY IntersectionIsPart
<1>2. Area(b) \in Nat /\ Intersection(a, b) <= Area(b)
  BY IntersectionIsPart, IntersectionCommutes
<1>3. UnionArea(a, b) \in Nat /\ Intersection(a, b) <= UnionArea(a, b)
  BY <1>1, <1>2 DEF UnionArea
<1> DEFINE i == Intersection(a, b)
           u == UnionArea(a, b)
<1>4. Iou(a, b) = IF u > 0 THEN (100 * i) \div u ELSE 0
  BY DEF Iou
<1>5. i \in Nat /\ u \in Nat /\ i <= u
  BY <1>1, <1>3
<1> HIDE DEF i, u
<1>6. CASE u > 0
  BY <1>4, <1>5, <1>6, Quotient
<1>7. CASE ~(u > 0)
  BY <1>4, <1>7
<1> QED
  BY <1>6, <1>7

-----------------------------------------------------------------------------
(* Vision: the tracker.                                                    *)

\* What the tracker is given: kept detections, of high or of low confidence.
LEMMA Given ==
    ASSUME NmsInv
    PROVE  /\ High \cup Low \subseteq Kept
           /\ High \in SUBSET Detections /\ Low \in SUBSET (Detections \ High)
<1>1. Kept \subseteq Candidates
  BY DEF NmsInv, DetectorTypeOK, Kept
<1>2. \A c \in Kept : score[c] \in Nat
  <2>1. \A c \in DOMAIN score : score[c] \in Nat
    BY DetectorAssumption DEF NmsInv, DetectorTypeOK
  <2>2. \A i \in DOMAIN kept : kept[i] \in DOMAIN score
    BY DEF NmsInv, DetectorTypeOK
  <2> QED
    BY <2>1, <2>2 DEF Kept
<1>3. High \cap Low = {}
  BY <1>2, VisionAssumption DEF High, Low
<1> QED
  BY <1>1, <1>3, VisionAssumption DEF High, Low

LEMMA TrackerStep ==
    NmsInv /\ [VisionNext]_visionVars => [Next]_vars
<1> SUFFICES ASSUME NmsInv, [VisionNext]_visionVars PROVE [Next]_vars
  OBVIOUS
<1>1. CASE Detect \/ Suppress \/ UNCHANGED visionVars
  BY <1>1 DEF Detect, Suppress, visionVars
<1>2. CASE Track
  <2>1. PICK predicted \in [Active -> Predictions] :
          Update(High, Low, [t \in Active |->
                               [d \in High \cup Low |-> Overlap[predicted[t]][d]]])
    BY <1>2 DEF Track
  <2>2. Kept \subseteq Candidates
    BY DEF NmsInv, DetectorTypeOK, Kept
  <2>3. High \in SUBSET Detections /\ Low \in SUBSET (Detections \ High)
    BY Given
  <2>4. \A t \in Active, d \in High \cup Low :
          Overlap[predicted[t]][d] \in Ious
    <3>1. \A d \in High \cup Low : BoxOf[d] \in Boxes
      BY <2>2, DetectorAssumption DEF High, Low
    <3> QED
      BY <2>2, <3>1, IouIsPercent, VisionAssumption DEF Overlap, High, Low
  <2>5. [t \in Active |-> [d \in High \cup Low |-> Overlap[predicted[t]][d]]]
          \in [Active -> [High \cup Low -> Ious]]
    BY <2>4
  <2> QED
    BY <2>1, <2>3, <2>5 DEF Next
<1> QED
  BY <1>1, <1>2 DEF VisionNext

\* The frames of one camera are frames of its tracker: detections and overlaps
\* are among those ByteTracker allows.
THEOREM VisionTracks == VisionSpec => Spec
<1>1. VisionInit => Init /\ NmsInv
  BY NmsInit DEF VisionInit
<1>2. VisionSpec => []NmsInv
  <2>1. DetectorSpec => []NmsInv
    BY NmsInit, NmsNext, PTL DEF DetectorSpec
  <2> QED
    BY <2>1, VisionDetects, PTL
<1> QED
  BY <1>1, <1>2, TrackerStep, PTL DEF VisionSpec, Spec

\* On the worker, too, the states of the tracks tell their histories.
THEOREM VisionLifecycle == VisionSpec => []Lifecycle
BY VisionTracks, LifecycleAlways, PTL

\* Nor does an id come back, frame after frame of one camera.
THEOREM VisionIdsNotReused == VisionSpec => IdsNotReused
BY VisionTracks, IdsNotReusedAlways, PTL

\* What stage 1 leaves unmatched overlaps by less than twice its threshold.
THEOREM VisionMissesBelowTwice == VisionSpec => []MissesBelowTwice
BY VisionTracks, MissesBelowTwiceAlways, PTL

-----------------------------------------------------------------------------
(* Vision: one object, one track.                                          *)

LEMMA SinceAfterFrame ==
    ASSUME NEW t, tracks[t] \in TrackRecords
    PROVE  /\ MarkMatched(Aged(t)).since = 0
           /\ MarkUnmatched(Aged(t)).since = tracks[t].since + 1
<1>1. tracks[t].age \in Nat /\ tracks[t].since \in Nat
  BY RecordFields
<1>2. /\ Aged(t).since = tracks[t].since
      /\ DOMAIN Aged(t) = {"state", "hits", "age", "since"}
  BY RecordFields DEF Aged
<1> QED
  BY <1>1, <1>2 DEF MarkMatched, MarkUnmatched

\* The three stages match each track and each detection once, and the tracks
\* that begin get detections that none of them matched.
LEMMA AfterConclude ==
    ASSUME TracksInv,
           NEW high \in SUBSET Detections, NEW low \in SUBSET (Detections \ high), NEW iou,
           NEW m1 \in MatchByIou(Active, high, MatchIou, iou),
           NEW m2 \in MatchByIou(Left(Active, m1), low, LowConfIou, iou),
           NEW m3 \in MatchByIou(Tentative(Left(Left(Active, m1), m2)),
                                 high \ Range(m1), UnconfirmedIou, iou),
           Conclude(high, iou, m1, m2, m3)
    PROVE  /\ \A t \in DOMAIN tracks' : tracks'[t].since = 0 <=> t \in DOMAIN source'
           /\ \A t \in DOMAIN source' : source'[t] \in high \cup low
           /\ \A t, u \in DOMAIN source' : t # u => source'[t] # source'[u]
<1> DEFINE old == [t \in Active |-> AfterStages(t, m1, m2, m3)]
           match == Both(m1, Both(m2, m3))
           fresh == (high \ Range(m1)) \ Range(m3)
           new == (counter + 1)..(counter + Cardinality(fresh))
           all == Both(old, [t \in new |-> NewTrack])
<1>1. /\ DOMAIN m1 \subseteq Active
      /\ \A t \in DOMAIN m1 : m1[t] \in high /\ m1[t] \in Range(m1)
      /\ \A t, u \in DOMAIN m1 : m1[t] = m1[u] => t = u
  BY Matching DEF Range
<1>2. /\ DOMAIN m2 \subseteq Active \ DOMAIN m1
      /\ \A t \in DOMAIN m2 : m2[t] \in low
      /\ \A t, u \in DOMAIN m2 : m2[t] = m2[u] => t = u
  BY Matching DEF Left
<1>3. /\ DOMAIN m3 \subseteq Active \ (DOMAIN m1 \cup DOMAIN m2)
      /\ \A t \in DOMAIN m3 : m3[t] \in high \ Range(m1) /\ m3[t] \in Range(m3)
      /\ \A t, u \in DOMAIN m3 : m3[t] = m3[u] => t = u
  <2>1. Tentative(Left(Left(Active, m1), m2)) \subseteq Active \ (DOMAIN m1 \cup DOMAIN m2)
    BY DEF Tentative, Left
  <2> QED
    BY <2>1, Matching DEF Range
<1>4. /\ DOMAIN match = DOMAIN m1 \cup DOMAIN m2 \cup DOMAIN m3
      /\ \A t \in DOMAIN m1 : match[t] = m1[t]
      /\ \A t \in DOMAIN m2 : match[t] = m2[t]
      /\ \A t \in DOMAIN m3 : match[t] = m3[t]
  BY <1>1, <1>2, <1>3 DEF Both
<1>5. \A t \in Active :
         AfterStages(t, m1, m2, m3) =
           IF t \in DOMAIN match THEN MarkMatched(Aged(t)) ELSE MarkUnmatched(Aged(t))
  BY <1>2, <1>3, <1>4 DEF AfterStages, Marked
<1>6. /\ tracks' = [t \in {u \in DOMAIN all : Survives(all[u])} |-> all[t]]
      /\ \E begun \in Bijection(new, fresh) : source' = Both(match, begun)
  BY DEF Conclude, Settle, Count
<1>7. /\ DOMAIN all = Active \cup new
      /\ \A t \in Active : all[t] = AfterStages(t, m1, m2, m3)
      /\ \A t \in new \ Active : all[t] = NewTrack
  BY DEF Both
<1>8. Active \cap new = {}
  <2>1. Cardinality(fresh) \in Nat
    BY FS_Subset, FS_CardinalityType, TrackerAssumption
  <2> QED
    BY <2>1 DEF TracksInv, Active
<1>9. fresh \subseteq high /\ fresh \cap Range(m1) = {} /\ fresh \cap Range(m3) = {}
  OBVIOUS
<1>10. high \cap low = {}
  OBVIOUS
<1> HIDE DEF match, fresh, new, all, old
<1>11. DOMAIN match \subseteq Active
  BY <1>1, <1>2, <1>3, <1>4
<1>12. \A t \in DOMAIN match : match[t] \in (high \cup low) \ fresh
  BY <1>1, <1>2, <1>3, <1>4, <1>9, <1>10
<1>13. \A t, u \in DOMAIN match : t # u => match[t] # match[u]
  BY <1>1, <1>2, <1>3, <1>4, <1>10
<1>14. /\ DOMAIN source' = DOMAIN match \cup new
       /\ \A t \in DOMAIN source' : source'[t] \in high \cup low
       /\ \A t, u \in DOMAIN source' : t # u => source'[t] # source'[u]
  <2>1. PICK begun \in Bijection(new, fresh) : source' = Both(match, begun)
    BY <1>6
  <2>2. /\ DOMAIN begun = new
        /\ \A t \in new : begun[t] \in fresh
        /\ \A t, u \in new : t # u => begun[t] # begun[u]
    BY DEF Bijection, Injection, Surjection, IsInjective
  <2>3. /\ DOMAIN source' = DOMAIN match \cup new
        /\ \A t \in DOMAIN match : source'[t] = match[t]
        /\ \A t \in new : source'[t] = begun[t]
    BY <1>8, <1>11, <2>1, <2>2 DEF Both
  <2>4. \A t \in DOMAIN source' : source'[t] \in high \cup low
    BY <1>9, <1>12, <2>2, <2>3
  <2>5. \A t, u \in DOMAIN source' : t # u => source'[t] # source'[u]
    BY <1>12, <1>13, <2>2, <2>3
  <2> QED
    BY <2>3, <2>4, <2>5
<1>15. ASSUME NEW t \in DOMAIN tracks'
       PROVE  tracks'[t].since = 0 <=> t \in DOMAIN source'
  <2>1. tracks'[t] = all[t] /\ t \in Active \cup new
    BY <1>6, <1>7
  <2>2. CASE t \in new
    <3>1. all[t] = NewTrack
      BY <1>7, <1>8, <2>2
    <3> QED
      BY <1>14, <2>1, <2>2, <3>1 DEF NewTrack
  <2>3. CASE t \in Active
    <3>1. tracks[t] \in TrackRecords /\ tracks[t].since \in Nat
      BY <2>3, RecordFields DEF TracksInv, Active
    <3>2. tracks'[t].since = IF t \in DOMAIN match THEN 0 ELSE tracks[t].since + 1
      BY <1>5, <1>7, <2>1, <2>3, <3>1, SinceAfterFrame
    <3> QED
      BY <1>8, <1>14, <2>3, <3>1, <3>2
  <2> QED
    BY <2>1, <2>2, <2>3
<1> QED
  BY <1>14, <1>15

\* What the tracks and their detections are after a frame.
LEMMA AfterFrame ==
    ASSUME TracksInv,
           NEW high \in SUBSET Detections, NEW low \in SUBSET (Detections \ high), NEW iou,
           Update(high, low, iou)
    PROVE  /\ \A t \in DOMAIN tracks' : tracks'[t].since = 0 <=> t \in DOMAIN source'
           /\ \A t \in DOMAIN source' : source'[t] \in high \cup low
           /\ \A t, u \in DOMAIN source' : t # u => source'[t] # source'[u]
<1>1. PICK m1 \in MatchByIou(Active, high, MatchIou, iou) :
        \E m2 \in MatchByIou(Left(Active, m1), low, LowConfIou, iou) :
        \E m3 \in MatchByIou(Tentative(Left(Left(Active, m1), m2)),
                             high \ Range(m1), UnconfirmedIou, iou) :
           Conclude(high, iou, m1, m2, m3)
  BY DEF Update
<1>2. PICK m2 \in MatchByIou(Left(Active, m1), low, LowConfIou, iou) :
        \E m3 \in MatchByIou(Tentative(Left(Left(Active, m1), m2)),
                             high \ Range(m1), UnconfirmedIou, iou) :
           Conclude(high, iou, m1, m2, m3)
  BY <1>1
<1>3. PICK m3 \in MatchByIou(Tentative(Left(Left(Active, m1), m2)),
                             high \ Range(m1), UnconfirmedIou, iou) :
           Conclude(high, iou, m1, m2, m3)
  BY <1>2
<1> QED
  BY <1>3, AfterConclude

LEMMA ObjectsStep ==
    TracksInv /\ NmsInv /\ OneObjectOneTrack /\ [VisionNext]_visionVars
      => OneObjectOneTrack'
<1> SUFFICES ASSUME TracksInv, NmsInv, OneObjectOneTrack, [VisionNext]_visionVars
             PROVE  OneObjectOneTrack'
  OBVIOUS
<1>1. CASE Detect
  BY <1>1 DEF Detect, OneObjectOneTrack
<1>2. CASE Suppress
  BY <1>2 DEF Suppress, OneObjectOneTrack
<1>3. CASE UNCHANGED visionVars
  BY <1>3 DEF visionVars, vars, OneObjectOneTrack, Suppresses
<1>4. CASE Track
  <2>1. PICK predicted \in [Active -> Predictions] :
          Update(High, Low, [t \in Active |->
                               [d \in High \cup Low |-> Overlap[predicted[t]][d]]])
    BY <1>4 DEF Track
  <2>2. /\ \A t \in DOMAIN tracks' : tracks'[t].since = 0 <=> t \in DOMAIN source'
        /\ \A t \in DOMAIN source' : source'[t] \in High \cup Low
        /\ \A t, u \in DOMAIN source' : t # u => source'[t] # source'[u]
    BY <2>1, Given, AfterFrame
  <2>3. \A c, d \in Kept : c # d => ~ Suppresses(c, d)
    BY DEF NmsInv, KeptApart, Kept
  <2>4. \A t, u \in DOMAIN source' : t # u =>
           source'[t] # source'[u] /\ ~ Suppresses(source'[t], source'[u])
    BY <2>2, <2>3, Given
  <2> QED
    BY <2>2, <2>4 DEF OneObjectOneTrack, Suppresses
<1> QED
  BY <1>1, <1>2, <1>3, <1>4 DEF VisionNext

\* Each object the detector tells apart feeds one track: the guarantees of the
\* suppression carry through the three stages of update() and the tracks that
\* begin, on every frame.
THEOREM OneObjectOneTrackAlways == VisionSpec => []OneObjectOneTrack
<1>1. VisionInit => OneObjectOneTrack
  BY DEF VisionInit, Init, OneObjectOneTrack
<1>2. VisionSpec => []NmsInv
  <2>1. DetectorSpec => []NmsInv
    BY NmsInit, NmsNext, PTL DEF DetectorSpec
  <2> QED
    BY <2>1, VisionDetects, PTL
<1>3. VisionSpec => []TracksInv
  BY VisionTracks, TracksInvAlways, PTL
<1> QED
  BY <1>1, <1>2, <1>3, ObjectsStep, PTL DEF VisionSpec
=============================================================================
