-------------------- MODULE CrossCameraMatcherProperties --------------------
(***************************************************************************)
(* What CrossCameraMatcher must guarantee.                                 *)
(***************************************************************************)
EXTENDS CrossCameraMatcher

Sightings == [camera : Cameras, look : Looks, at : Int, id : Nat \ {0}]

\* Every variable stays in its domain; an identity is named by the sighting
\* that began it, and resolve_identity_id() answers with the last one given.
TypeOK ==
    /\ sightings \in Seq(Sightings)
    /\ \A n \in Numbers : sightings[n].id <= n
    /\ \A n \in Numbers : sightings[sightings[n].id].id = sightings[n].id
    /\ gallery \subseteq Numbers
    /\ resolved = IF sightings = << >> THEN 0 ELSE sightings[Len(sightings)].id
    /\ result \in [kind : {"none", "match", "raised"}, entry : {0} \cup Numbers]

\* Zones are separate areas: an identity never has sightings in two of them.
IdentitiesStayInZone ==
    \A n, m \in Numbers : sightings[n].id = sightings[m].id => ZoneOf(n) = ZoneOf(m)

\* Likeness is not transitive, yet no look is in the galleries of two identities
\* of a zone: one object that looks the same twice has one identity, however
\* pruning and trimming went.
LooksKeptApart ==
    \A n, m \in gallery :
        LET x == sightings[n].look IN
        /\ sightings[m].look = x
        /\ Similarity[x][x] >= Threshold
        /\ ZoneOf(n) = ZoneOf(m)
        => sightings[n].id = sightings[m].id

Newer(n, entries) ==
    {m \in entries : m > n /\ sightings[m].id = sightings[n].id}
TooOldFor(n, m) ==
    m > n /\ ZoneOf(m) = ZoneOf(n) /\ sightings[m].at - sightings[n].at > MaxAge

\* The galleries are the recent past: a sighting is forgotten only because a
\* later sighting of its zone found it too old or its identity has MaxEntries
\* newer ones, and both are reason enough.
GalleryIsRecentPast ==
    /\ \A n \in Numbers \ gallery :
          \/ \E m \in Numbers : TooOldFor(n, m)
          \/ Cardinality(Newer(n, Numbers)) >= MaxEntries
    /\ \A n \in gallery :
          /\ \A m \in Numbers : ~TooOldFor(n, m)
          /\ Cardinality(Newer(n, gallery)) < MaxEntries

\* An identity that is new to a camera is never passed over in silence, and what
\* is reported, or raised, is a sighting of that identity by another camera of
\* the zone that is not too old: "the actual cross-camera re-identification
\* event worth publishing" (src/reid/cross_camera_matcher.py:77-78).  That this
\* sighting is the identity's last one, as line 76 has it, need not be.
NewToCameraReported ==
    sightings # << >> =>
        LET new == Len(sightings)
            s == sightings[new]
            earlier == {n \in Numbers \ {new} : sightings[n].id = s.id}
        IN  /\ earlier # {} /\ (\A n \in earlier : sightings[n].camera # s.camera)
                  => result.kind # "none"
            /\ result.kind # "none" =>
                  \E n \in earlier :
                      /\ n = result.entry
                      /\ sightings[n].camera # s.camera
                      /\ ZoneOf(n) = ZoneOf(new)
                      /\ s.at - sightings[n].at <= MaxAge
=============================================================================
