------------------------- MODULE CrossCameraMatcher -------------------------
(***************************************************************************)
(* CrossCameraMatcher (src/reid/cross_camera_matcher.py): observe() gives  *)
(* every sighting of an object an identity, by its likeness to the recent  *)
(* sightings of its zone.                                                  *)
(*                                                                         *)
(* A sighting is named by its position in `sightings', an identity by the  *)
(* sighting that began it.  The identities of a zone and the entries of an *)
(* identity are lists in the order of these names (both are only appended  *)
(* to and filtered), so that the galleries are one set: the sightings      *)
(* still held.  An identity without entries is dropped by the code and has *)
(* no element here.  An embedding is a look; how like two looks are is a   *)
(* table, in percent.                                                      *)
(***************************************************************************)
EXTENDS Integers, Sequences, FiniteSets

CONSTANTS Cameras,
          Zone,          \* Zone[k]: the zone of camera k, from cameras.yaml
          Looks,
          Similarity,    \* Similarity[x][y]: their cosine similarity
          Threshold,     \* COSINE_SIMILARITY_MATCH_THRESHOLD
          MaxEntries,    \* GALLERY_MAX_ENTRIES_PER_IDENTITY
          MaxAge,        \* GALLERY_MAX_AGE_SECONDS
          MaxTime,       \* bound: readings of the clock
          MaxSightings   \* bound: calls of observe()

\* Cosine similarity is symmetric, and nothing is more like a look than the
\* look itself.  The embedding of an empty crop is the null vector: it is like
\* nothing, itself included.
ASSUME MatcherAssumption ==
    /\ Similarity \in [Looks -> [Looks -> -100..100]]
    /\ \A x, y \in Looks : Similarity[x][y] = Similarity[y][x]
    /\ \A x, y \in Looks :
          x # y /\ Similarity[x][y] >= Threshold => Similarity[x][y] < Similarity[x][x]
    /\ Threshold \in 1..100
    /\ MaxEntries \in Nat \ {0} /\ MaxAge \in Nat
    /\ MaxTime \in Nat /\ MaxSightings \in Nat

VARIABLES sightings,   \* every sighting: camera, look, time and identity given
          gallery,     \* the sightings that are entries of a gallery
          resolved,    \* _last_resolved_id, 0 for ""
          result       \* of the last observe(): "none", "raised" or a "match"
                       \* with an entry

vars == <<sightings, gallery, resolved, result>>

NoMatch == [kind |-> "none", entry |-> 0]

Init ==
    /\ sightings = << >>
    /\ gallery = {}
    /\ resolved = 0
    /\ result = NoMatch

Numbers == DOMAIN sightings
ZoneOf(n) == Zone[sightings[n].camera]
Alike(x, n) == Similarity[x][sightings[n].look]

\* Mutant: the galleries of all zones are one.
InAnyZone(zone, now) == {n \in gallery : now - sightings[n].at <= MaxAge}

\* _prune_and_get(): only the gallery of this zone is pruned.
Pruned(zone, now) ==
    {n \in gallery : ZoneOf(n) = zone => now - sightings[n].at <= MaxAge}
InZone(zone, now) == {n \in Pruned(zone, now) : ZoneOf(n) = zone}

\* The order in which the two loops of observe() meet the entries.
Before(n, m) ==
    \/ sightings[n].id < sightings[m].id
    \/ sightings[n].id = sightings[m].id /\ n < m

\* Mutant: the first entry that is like enough is taken.
IsFirst(n, x, entries) ==
    /\ n \in entries
    /\ Alike(x, n) >= Threshold
    /\ \A m \in entries \ {n} : Alike(x, m) >= Threshold => Before(n, m)

\* best_entry, of the entries: the first of the most similar ones.
IsBest(n, x, entries) ==
    /\ n \in entries
    /\ Alike(x, n) >= Threshold
    /\ \A m \in entries \ {n} :
          \/ Alike(x, m) < Alike(x, n)
          \/ Alike(x, m) = Alike(x, n) /\ Before(n, m)

\* Mutant: the oldest entries are kept.
OldestOf(ofId, n) == Cardinality({m \in ofId : m <= n}) < MaxEntries

\* An identity keeps its last MaxEntries entries, the new one included.
LastOf(ofId, n) == Cardinality({m \in ofId : m >= n}) < MaxEntries

\* _add_entry(), with the pruned gallery.
AddEntry(k, x, now, id) ==
    LET entries == Pruned(Zone[k], now)
        ofId == {n \in entries : sightings[n].id = id}
    IN  /\ sightings' = Append(sightings, [camera |-> k, look |-> x, at |-> now, id |-> id])
        /\ gallery' = {Len(sightings) + 1} \cup
             {n \in entries : n \in ofId => LastOf(ofId, n)}
        /\ resolved' = id

\* Mutant: the camera that began the identity is compared.
BegunElsewhere(n, k) == sightings[sightings[n].id].camera # k

SeenElsewhere(n, k) == sightings[n].camera # k

\* A known identity.  An entry of another camera makes a ReidMatch; rounding
\* may push the similarity of a look with itself beyond the 1.0 ReidMatch
\* admits, and observe() then raises when everything else is done.
MatchKnown(k, x, now) ==
    \E n \in InZone(Zone[k], now) :
        /\ IsBest(n, x, InZone(Zone[k], now))
        /\ AddEntry(k, x, now, sightings[n].id)
        /\ \/ /\ SeenElsewhere(n, k)
              /\ result' = [kind |-> "match", entry |-> n]
           \/ /\ SeenElsewhere(n, k)
              /\ sightings[n].look = x
              /\ result' = [kind |-> "raised", entry |-> n]
           \/ /\ ~SeenElsewhere(n, k)
              /\ result' = NoMatch

BeginIdentity(k, x, now) ==
    /\ \A n \in InZone(Zone[k], now) : Alike(x, n) < Threshold
    /\ AddEntry(k, x, now, Len(sightings) + 1)
    /\ result' = NoMatch

\* observe() at the time the wall clock shows, which may also be set back.
Observe(k, x, now) ==
    /\ Len(sightings) < MaxSightings
    /\ MatchKnown(k, x, now) \/ BeginIdentity(k, x, now)

Next == \E k \in Cameras, x \in Looks, now \in 0..MaxTime : Observe(k, x, now)

Spec == Init /\ [][Next]_vars
=============================================================================
