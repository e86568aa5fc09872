---------------------------- MODULE ByteTracker ----------------------------
(***************************************************************************)
(* ByteTracker (src/inference/tracker.py): the tracks of one camera and    *)
(* what update() makes of them, frame by frame.                            *)
(*                                                                         *)
(* Boxes and their Kalman filters are abstracted to the overlaps they have *)
(* in this frame: iou[t][d] is the IoU in percent of the predicted box of  *)
(* track t with detection d.  A track's box changes only when the track is *)
(* matched, and a matched track takes no part in the later stages, so one  *)
(* table serves all three.  A track id is the number its allocator gave.   *)
(***************************************************************************)
EXTENDS Integers, FiniteSets, Functions

CONSTANTS Detections,      \* names of the detections a frame may have
          Ious,            \* bound: the overlaps that occur
          MatchIou,        \* TRACK_MATCH_IOU_THRESHOLD
          LowConfIou,      \* TRACK_LOW_CONF_MATCH_IOU_THRESHOLD
          UnconfirmedIou,  \* TRACK_UNCONFIRMED_MATCH_IOU_THRESHOLD
          MinHits,         \* TRACK_MIN_HITS_TO_CONFIRM
          MaxLost,         \* TRACK_MAX_LOST_FRAMES
          MaxFrames,       \* bound: frames
          MaxIds           \* bound: track ids

ASSUME TrackerAssumption ==
    /\ Ious \subseteq Nat
    /\ MatchIou \in Nat /\ LowConfIou \in Nat /\ UnconfirmedIou \in Nat
    /\ MinHits \in Nat /\ MinHits > 1
    /\ MaxLost \in Nat \ {0}
    /\ MaxFrames \in Nat /\ MaxIds \in Nat
    /\ IsFiniteSet(Detections)

VARIABLES
    tracks,    \* the record of every id in self._tracks
    counter,   \* the id allocator
    frame,     \* frames seen
    source,    \* history: the detection that matched or began each track
    missed     \* history: overlaps of the tracks stage 1 left over with the
               \* detections that began tracks

vars == <<tracks, counter, frame, source, missed>>

NewTrack == [state |-> "tentative", hits |-> 1, age |-> 1, since |-> 0]

Init ==
    /\ tracks = [t \in {} |-> NewTrack]
    /\ counter = 0
    /\ frame = 0
    /\ source = [t \in {} |-> NewTrack]
    /\ missed = {}

-----------------------------------------------------------------------------
(* STrack.                                                                 *)

\* Mutant: a tentative track is confirmed by its next hit.
MarkMatchedEager(t) ==
    [t EXCEPT !.hits = @ + 1, !.since = 0, !.state = "confirmed"]

MarkMatched(t) ==
    [t EXCEPT !.hits = @ + 1,
              !.since = 0,
              !.state = IF @ = "lost" \/ t.hits + 1 >= MinHits THEN "confirmed" ELSE @]

MarkUnmatched(t) ==
    [t EXCEPT !.since = @ + 1,
              !.state = CASE @ = "confirmed" -> "lost"
                          [] @ = "tentative" -> "removed"
                          [] OTHER -> @]

-----------------------------------------------------------------------------
(* match_by_iou().                                                         *)

\* Mutant: the sign of the cost forgotten: the sum is minimised.
IsWorstAssignment(a, ts, ds, iou) ==
    /\ DOMAIN a \subseteq ts
    /\ \A t \in DOMAIN a : a[t] \in ds
    /\ \A t, u \in DOMAIN a : a[t] = a[u] => t = u
    /\ DOMAIN a = ts \/ Range(a) = ds
    /\ \A t, u \in DOMAIN a :
          iou[t][a[u]] + iou[u][a[t]] >= iou[t][a[t]] + iou[u][a[u]]
    /\ \A t \in DOMAIN a, d \in ds \ Range(a) : iou[t][d] >= iou[t][a[t]]
    /\ \A t \in DOMAIN a, u \in ts \ DOMAIN a : iou[u][a[t]] >= iou[t][a[t]]

\* What linear_sum_assignment(-ious) may answer: as many pairs as fit, none
\* twice, and no exchange of one or two pairs would increase the sum.  (Its
\* answer has the largest sum of all, so it is among these.)
IsAssignment(a, ts, ds, iou) ==
    /\ DOMAIN a \subseteq ts
    /\ \A t \in DOMAIN a : a[t] \in ds
    /\ \A t, u \in DOMAIN a : a[t] = a[u] => t = u
    /\ DOMAIN a = ts \/ Range(a) = ds
    /\ \A t, u \in DOMAIN a :
          iou[t][a[u]] + iou[u][a[t]] <= iou[t][a[t]] + iou[u][a[u]]
    /\ \A t \in DOMAIN a, d \in ds \ Range(a) : iou[t][d] <= iou[t][a[t]]
    /\ \A t \in DOMAIN a, u \in ts \ DOMAIN a : iou[u][a[t]] <= iou[t][a[t]]

Assignments(ts, ds, iou) ==
    {a \in UNION {[s -> ds] : s \in SUBSET ts} : IsAssignment(a, ts, ds, iou)}

\* The pairs of the assignment that overlap enough.
Matches(a, threshold, iou) ==
    [t \in {u \in DOMAIN a : iou[u][a[u]] >= threshold} |-> a[t]]

MatchByIou(ts, ds, threshold, iou) ==
    {Matches(a, threshold, iou) : a \in Assignments(ts, ds, iou)}

-----------------------------------------------------------------------------
(* update().                                                               *)

Active == DOMAIN tracks

\* The tracks of ts a stage left over.
Left(ts, matches) == ts \ DOMAIN matches

Tentative(ts) == {t \in ts : tracks[t].state = "tentative"}

Survives(t) == t.state # "removed" /\ t.since <= MaxLost

Aged(t) == [tracks[t] EXCEPT !.age = @ + 1]

Both(f, g) == [x \in DOMAIN f \cup DOMAIN g |-> IF x \in DOMAIN f THEN f[x] ELSE g[x]]

\* A track once the matches of the three stages went over it.
Marked(r, t, m) == IF t \in DOMAIN m THEN MarkMatched(r) ELSE r

AfterStages(t, m1, m2, m3) ==
    IF t \in DOMAIN m1 \cup DOMAIN m2 \cup DOMAIN m3
    THEN Marked(Marked(Marked(Aged(t), t, m1), t, m2), t, m3)
    ELSE MarkUnmatched(Aged(t))

\* Mutant: ids continue after the tracks in use.
CountInUse == Cardinality(DOMAIN tracks)
Count == counter

\* The end of update(): old are the tracks there were, match the detections
\* they got, fresh the detections that become new tracks.  What is removed or
\* lost for too long goes.
Settle(old, match, fresh) ==
    LET top == Count + Cardinality(fresh)
        new == (Count + 1)..top
        all == Both(old, [t \in new |-> NewTrack])
    IN  /\ top <= MaxIds
        /\ counter' = top
        /\ tracks' = [t \in {u \in DOMAIN all : Survives(all[u])} |-> all[t]]
        /\ \E begun \in Bijection(new, fresh) : source' = Both(match, begun)

\* The frame once the stages have answered m1, m2 and m3.
Conclude(high, iou, m1, m2, m3) ==
    LET fresh == (high \ Range(m1)) \ Range(m3) IN
    /\ Settle([t \in Active |-> AfterStages(t, m1, m2, m3)],
              Both(m1, Both(m2, m3)), fresh)
    /\ missed' = {iou[t][d] : t \in Left(Active, m1), d \in fresh}

\* One frame: high and low are its detections of high and of low confidence
\* (the rest is dropped), iou the overlaps.  Stage 1 matches all tracks with
\* high, stage 2 the tracks left with low, stage 3 the tentative tracks left
\* with what stage 1 left of high.
Update(high, low, iou) ==
    /\ frame < MaxFrames
    /\ frame' = frame + 1
    /\ \E m1 \in MatchByIou(Active, high, MatchIou, iou) :
       \E m2 \in MatchByIou(Left(Active, m1), low, LowConfIou, iou) :
       \E m3 \in MatchByIou(Tentative(Left(Left(Active, m1), m2)),
                            high \ Range(m1), UnconfirmedIou, iou) :
          Conclude(high, iou, m1, m2, m3)

Next ==
    \E high \in SUBSET Detections : \E low \in SUBSET (Detections \ high) :
        \E iou \in [Active -> [high \cup low -> Ious]] : Update(high, low, iou)

Spec == Init /\ [][Next]_vars
=============================================================================
