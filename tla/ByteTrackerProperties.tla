----------------------- MODULE ByteTrackerProperties -----------------------
(***************************************************************************)
(* What ByteTracker.update() must guarantee.                               *)
(***************************************************************************)
EXTENDS ByteTracker

\* 0.3 and 0.7 (src/config/constants.py:70-78).
ASSUME ThresholdAssumption == 2 * MatchIou <= UnconfirmedIou

TrackRecords == [state : {"tentative", "confirmed", "lost", "removed"},
                 hits : Nat, age : Nat, since : Nat]

\* Every variable stays in its domain, and ids come from the counter.
TypeOK ==
    /\ DOMAIN tracks \subseteq 1..counter
    /\ \A t \in DOMAIN tracks : tracks[t] \in TrackRecords
    /\ counter \in 0..MaxIds
    /\ frame \in 0..MaxFrames
    /\ missed \subseteq Ious

\* What the state of a track says of its history (src/common/schemas.py:95-101):
\* a tentative track was matched in every frame of its life and has not earned
\* its confirmation; a confirmed one has, and was matched in this frame; a lost
\* one was confirmed and misses 1..MaxLost frames; a removed one is not there.
Lifecycle ==
    \A t \in DOMAIN tracks :
        LET r == tracks[t] IN
        \/ r.state = "tentative" /\ r.since = 0 /\ r.hits = r.age /\ r.hits < MinHits
        \/ r.state = "confirmed" /\ r.since = 0 /\ r.hits >= MinHits
        \/ r.state = "lost" /\ r.since \in 1..MaxLost /\ r.hits >= MinHits

\* An id never comes back: a track that is gone stays gone.
IdsNotReused ==
    [][\A t \in DOMAIN tracks' : t \in DOMAIN tracks \/ t > counter]_vars

\* The Hungarian method maximises the sum, so that it may leave a track and a
\* detection that overlap by more than the threshold unmatched, but only when
\* they overlap by less than twice the threshold: a detection that overlaps a
\* track by more never begins another, unless each of them found a better one.
MissesBelowTwice == \A x \in missed : x < 2 * MatchIou
=============================================================================
