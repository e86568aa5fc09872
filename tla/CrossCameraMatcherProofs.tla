---------------------- MODULE CrossCameraMatcherProofs ----------------------
(***************************************************************************)
(* Proofs, for any cameras, zones, likeness, limits and clock, about the   *)
(* identities CrossCameraMatcher.observe() gives.                          *)
(***************************************************************************)
EXTENDS CrossCameraMatcherProperties, FiniteSetTheorems, TLAPS

-----------------------------------------------------------------------------
(* What one observe() adds.                                                *)

\* Sightings are numbered, named by none later than themselves, and the
\* galleries hold nothing else.
Numbered ==
    /\ sightings \in Seq(Sightings)
    /\ \A n \in Numbers : sightings[n].id <= n
    /\ gallery \subseteq Numbers

MatcherInv == Numbered /\ IdentitiesStayInZone /\ LooksKeptApart

LEMMA MatcherInit == Init => MatcherInv
<1> SUFFICES ASSUME Init PROVE MatcherInv
  OBVIOUS
<1>1. sightings = << >> /\ gallery = {} /\ Numbers = {}
  BY DEF Init, Numbers
<1> QED
  BY <1>1 DEF MatcherInv, Numbered, IdentitiesStayInZone, LooksKeptApart

LEMMA Likeness ==
    ASSUME NEW x \in Looks, NEW y \in Looks
    PROVE  Similarity[x][y] \in Int /\ Threshold \in Int
<1>1. Similarity[x] \in [Looks -> -100..100]
  BY MatcherAssumption
<1>2. Similarity[x][y] \in -100..100
  BY <1>1
<1> QED
  BY <1>2, MatcherAssumption

\* The new sighting j is the last one; the others stay as they are.
LEMMA Added ==
    ASSUME Numbered, NEW k \in Cameras, NEW x \in Looks, NEW now \in 0..MaxTime,
           NEW j, j = Len(sightings) + 1, NEW id \in 1..j,
           AddEntry(k, x, now, id)
    PROVE  /\ j \in Nat /\ j \notin Numbers /\ Numbers' = Numbers \cup {j}
           /\ sightings'[j] = [camera |-> k, look |-> x, at |-> now, id |-> id]
           /\ \A n \in Numbers : sightings'[n] = sightings[n]
           /\ gallery' \subseteq Pruned(Zone[k], now) \cup {j}
           /\ Numbered'
<1> DEFINE s == [camera |-> k, look |-> x, at |-> now, id |-> id]
<1>1. sightings \in Seq(Sightings) /\ sightings' = Append(sightings, s)
  BY DEF Numbered, AddEntry
<1>2. Len(sightings) \in Nat
  BY <1>1
<1>3. s \in Sightings /\ id <= j
  BY <1>2, MatcherAssumption DEF Sightings
<1> HIDE DEF s
<1>4. /\ Numbers = 1..Len(sightings) /\ Numbers' = 1..j
      /\ sightings'[j] = s
      /\ \A n \in Numbers : sightings'[n] = sightings[n]
      /\ sightings' \in Seq(Sightings)
  BY <1>1, <1>2, <1>3 DEF Numbers
<1>5. j \in Nat /\ j \notin Numbers /\ Numbers' = Numbers \cup {j}
  BY <1>2, <1>4
<1>6. gallery' \subseteq Pruned(Zone[k], now) \cup {j}
  BY DEF AddEntry
<1>7. gallery' \subseteq Numbers'
  BY <1>5, <1>6 DEF Numbered, Pruned
<1>8. \A n \in Numbers' : sightings'[n].id <= n
  BY <1>3, <1>4, <1>5 DEF Numbered, s
<1>9. Numbered'
  BY <1>4, <1>7, <1>8 DEF Numbered
<1> QED
  BY <1>4, <1>5, <1>6, <1>9 DEF s

\* A sighting may join an identity whose sightings are all of its zone, if the
\* entries of its look, where it can be recognised, have this identity already.
LEMMA AddKeeps ==
    ASSUME MatcherInv, NEW k \in Cameras, NEW x \in Looks, NEW now \in 0..MaxTime,
           NEW id \in 1..(Len(sightings) + 1),
           AddEntry(k, x, now, id),
           \A m \in Numbers : sightings[m].id = id => ZoneOf(m) = Zone[k],
           Similarity[x][x] >= Threshold =>
             \A m \in InZone(Zone[k], now) : sightings[m].look = x => sightings[m].id = id
    PROVE  MatcherInv'
<1> PICK j : j = Len(sightings) + 1
  OBVIOUS
<1>1. /\ j \in Nat /\ j \notin Numbers /\ Numbers' = Numbers \cup {j}
      /\ sightings'[j] = [camera |-> k, look |-> x, at |-> now, id |-> id]
      /\ \A m \in Numbers : sightings'[m] = sightings[m]
      /\ gallery' \subseteq Pruned(Zone[k], now) \cup {j}
      /\ Numbered'
  BY Added DEF MatcherInv
<1>2. /\ \A m \in Numbers : Zone[sightings'[m].camera] = ZoneOf(m)
      /\ Zone[sightings'[j].camera] = Zone[k]
  BY <1>1 DEF ZoneOf
<1>3. ASSUME NEW n \in Numbers', NEW m \in Numbers',
             sightings'[n].id = sightings'[m].id
      PROVE  Zone[sightings'[n].camera] = Zone[sightings'[m].camera]
  <2>1. CASE n \in Numbers /\ m \in Numbers
    BY <1>1, <1>2, <1>3, <2>1 DEF MatcherInv, IdentitiesStayInZone
  <2>2. CASE n = j \/ m = j
    BY <1>1, <1>2, <1>3, <2>2
  <2> QED
    BY <1>1, <2>1, <2>2
<1>4. ASSUME NEW n \in gallery', NEW m \in gallery',
             sightings'[m].look = sightings'[n].look,
             Similarity[sightings'[n].look][sightings'[n].look] >= Threshold,
             Zone[sightings'[n].camera] = Zone[sightings'[m].camera]
      PROVE  sightings'[n].id = sightings'[m].id
  <2>1. ASSUME NEW i \in gallery', i # j,
               sightings'[i].look = x, Similarity[x][x] >= Threshold,
               Zone[sightings'[i].camera] = Zone[k]
        PROVE  sightings'[i].id = id
    <3>1. i \in Pruned(Zone[k], now) /\ i \in Numbers
      BY <1>1, <2>1 DEF Pruned, MatcherInv, Numbered
    <3>2. i \in InZone(Zone[k], now)
      BY <1>2, <2>1, <3>1 DEF InZone
    <3> QED
      BY <1>1, <2>1, <3>1, <3>2
  <2>2. CASE n = j \/ m = j
    BY <1>1, <1>2, <1>4, <2>1, <2>2
  <2>3. CASE n # j /\ m # j
    <3>1. n \in gallery /\ m \in gallery /\ n \in Numbers /\ m \in Numbers
      BY <1>1, <2>3 DEF Pruned, MatcherInv, Numbered
    <3> QED
      BY <1>1, <1>2, <1>4, <3>1 DEF MatcherInv, LooksKeptApart
  <2> QED
    BY <2>2, <2>3
<1>5. IdentitiesStayInZone' /\ LooksKeptApart'
  BY <1>3, <1>4 DEF IdentitiesStayInZone, LooksKeptApart, ZoneOf
<1> QED
  BY <1>1, <1>5 DEF MatcherInv

-----------------------------------------------------------------------------
(* observe().                                                              *)

\* Nothing is more like a look than the look itself, so that the best entry has
\* the look of the sighting if any entry has.
LEMMA MatchKeeps ==
    ASSUME MatcherInv, NEW k \in Cameras, NEW x \in Looks, NEW now \in 0..MaxTime,
           MatchKnown(k, x, now)
    PROVE  MatcherInv'
<1>1. PICK n \in InZone(Zone[k], now) :
        /\ IsBest(n, x, InZone(Zone[k], now))
        /\ AddEntry(k, x, now, sightings[n].id)
  BY DEF MatchKnown
<1>2. \A m \in InZone(Zone[k], now) :
        m \in Numbers /\ m \in gallery /\ ZoneOf(m) = Zone[k]
  BY DEF MatcherInv, Numbered, InZone, Pruned
<1>3. sightings \in Seq(Sightings) /\ Numbers = 1..Len(sightings)
  BY DEF MatcherInv, Numbered, Numbers
<1>4. \A m \in Numbers : sightings[m] \in Sightings
  BY <1>3
<1>5. sightings[n].id \in 1..(Len(sightings) + 1)
  BY <1>2, <1>3, <1>4 DEF MatcherInv, Numbered, Sightings
<1>6. \A m \in Numbers : sightings[m].id = sightings[n].id => ZoneOf(m) = Zone[k]
  BY <1>2 DEF MatcherInv, IdentitiesStayInZone
<1>7. ASSUME Similarity[x][x] >= Threshold,
             NEW m \in InZone(Zone[k], now), sightings[m].look = x
      PROVE  sightings[m].id = sightings[n].id
  <2> DEFINE y == sightings[n].look
  <2>1. /\ y \in Looks /\ Similarity[x][y] \in Int /\ Similarity[x][x] \in Int
        /\ Threshold \in Int
    BY <1>2, <1>4, Likeness DEF Sightings
  <2>2. Similarity[x][y] >= Threshold /\ Similarity[x][x] <= Similarity[x][y]
    BY <1>1, <1>7, <2>1 DEF IsBest, Alike
  <2>3. y = x
    BY <2>1, <2>2, MatcherAssumption
  <2> QED
    BY <1>2, <1>7, <2>3 DEF MatcherInv, LooksKeptApart
<1> QED
  BY <1>1, <1>5, <1>6, <1>7, AddKeeps

\* A new identity is begun only where nothing is like the look.
LEMMA BeginKeeps ==
    ASSUME MatcherInv, NEW k \in Cameras, NEW x \in Looks, NEW now \in 0..MaxTime,
           BeginIdentity(k, x, now)
    PROVE  MatcherInv'
<1> PICK j : j = Len(sightings) + 1
  OBVIOUS
<1>1. sightings \in Seq(Sightings) /\ Numbers = 1..Len(sightings)
  BY DEF MatcherInv, Numbered, Numbers
<1>2. j \in 1..j /\ \A m \in Numbers : m \in Nat /\ m < j
  BY <1>1
<1>3. ASSUME NEW m \in Numbers PROVE sightings[m].id \in Nat
  <2>1. sightings[m] \in Sightings
    BY <1>1
  <2> QED
    BY <2>1 DEF Sightings
<1>4. \A m \in Numbers : sightings[m].id # j
  BY <1>2, <1>3 DEF MatcherInv, Numbered
<1>5. ASSUME Similarity[x][x] >= Threshold,
             NEW m \in InZone(Zone[k], now), sightings[m].look = x
      PROVE  FALSE
  <2>1. Similarity[x][x] < Threshold
    BY <1>5 DEF BeginIdentity, Alike
  <2>2. Similarity[x][x] \in Int /\ Threshold \in Int
    BY Likeness
  <2> QED
    BY <1>5, <2>1, <2>2
<1>6. AddEntry(k, x, now, j)
  BY DEF BeginIdentity
<1> QED
  BY <1>2, <1>4, <1>5, <1>6, AddKeeps

LEMMA MatcherNext == MatcherInv /\ [Next]_vars => MatcherInv'
<1> SUFFICES ASSUME MatcherInv, [Next]_vars PROVE MatcherInv'
  OBVIOUS
<1>1. CASE Next
  BY <1>1, MatchKeeps, BeginKeeps DEF Next, Observe
<1>2. CASE UNCHANGED vars
  <2>1. UNCHANGED <<sightings, gallery, Numbers>>
    BY <1>2 DEF vars, Numbers
  <2> QED
    BY <2>1 DEF MatcherInv, Numbered, IdentitiesStayInZone, LooksKeptApart, ZoneOf
<1> QED
  BY <1>1, <1>2

LEMMA MatcherInvAlways == Spec => []MatcherInv
BY MatcherInit, MatcherNext, PTL DEF Spec

\* However likeness, pruning and trimming go, an identity never has sightings
\* in two zones.
THEOREM IdentitiesStayInZoneAlways == Spec => []IdentitiesStayInZone
BY MatcherInvAlways, PTL DEF MatcherInv

\* Two entries of one look and one zone never have two identities.
THEOREM LooksKeptApartAlways == Spec => []LooksKeptApart
BY MatcherInvAlways, PTL DEF MatcherInv

-----------------------------------------------------------------------------
(* What the galleries hold.                                                *)

RecentInv == Numbered /\ GalleryIsRecentPast

\* Sets of sightings are finite, and numbers count them.
LEMMA SightingSets ==
    ASSUME Numbered
    PROVE  /\ Numbers \subseteq Nat
           /\ \A n \in Numbers : sightings[n] \in Sightings
           /\ \A S \in SUBSET Numbers : IsFiniteSet(S) /\ Cardinality(S) \in Nat
<1>1. sightings \in Seq(Sightings) /\ Len(sightings) \in Nat
  BY DEF Numbered
<1>2. Numbers = 1..Len(sightings)
  BY <1>1 DEF Numbers
<1>3. IsFiniteSet(Numbers)
  BY <1>1, <1>2, FS_Interval
<1>4. \A S \in SUBSET Numbers : IsFiniteSet(S) /\ Cardinality(S) \in Nat
  BY <1>3, FS_Subset, FS_CardinalityType
<1> QED
  BY <1>1, <1>2, <1>4

\* n and the entries above it make as many as the entries above it and a new
\* one: what _add_entry() keeps is what has fewer than MaxEntries above it.
LEMMA NewForOld ==
    ASSUME NEW S, IsFiniteSet(S), Cardinality(S) \in Nat, NEW n \in S, NEW j, j \notin S
    PROVE  /\ IsFiniteSet((S \ {n}) \cup {j})
           /\ Cardinality((S \ {n}) \cup {j}) = Cardinality(S)
<1>1. IsFiniteSet(S \ {n}) /\ Cardinality(S \ {n}) = Cardinality(S) - 1
  BY FS_RemoveElement
<1>2. /\ IsFiniteSet((S \ {n}) \cup {j})
      /\ Cardinality((S \ {n}) \cup {j}) = Cardinality(S \ {n}) + 1
  BY <1>1, FS_AddElement
<1> QED
  BY <1>1, <1>2

\* The entries of the identity id that are as new as n, after pruning.
Since(n, id, zone, now) ==
    {m \in Pruned(zone, now) : sightings[m].id = id /\ m >= n}

\* An observe() keeps an entry of the identity seen if fewer than MaxEntries
\* of its entries are as new, and every other entry that is not too old.
LEMMA GalleryAfter ==
    ASSUME Numbered, NEW k \in Cameras, NEW x \in Looks, NEW now \in 0..MaxTime,
           NEW id, AddEntry(k, x, now, id), NEW n \in Numbers
    PROVE  n \in gallery' <=>
             /\ n \in Pruned(Zone[k], now)
             /\ sightings[n].id = id => Cardinality(Since(n, id, Zone[k], now)) < MaxEntries
<1> DEFINE entries == Pruned(Zone[k], now)
           ofId == {m \in entries : sightings[m].id = id}
<1>1. gallery' = {Len(sightings) + 1} \cup {m \in entries : m \in ofId => LastOf(ofId, m)}
  BY DEF AddEntry
<1>2. n # Len(sightings) + 1
  BY DEF Numbered, Numbers
<1>3. {m \in ofId : m >= n} = Since(n, id, Zone[k], now)
  BY DEF Since
<1>4. LastOf(ofId, n) <=> Cardinality(Since(n, id, Zone[k], now)) < MaxEntries
  BY <1>3 DEF LastOf
<1> QED
  BY <1>1, <1>2, <1>4

LEMMA RecentStep ==
    ASSUME RecentInv, NEW k \in Cameras, NEW x \in Looks, NEW now \in 0..MaxTime,
           NEW id \in 1..(Len(sightings) + 1), AddEntry(k, x, now, id)
    PROVE  RecentInv'
<1> PICK j : j = Len(sightings) + 1
  OBVIOUS
<1>1. /\ j \in Nat /\ j \notin Numbers /\ Numbers' = Numbers \cup {j}
      /\ sightings'[j] = [camera |-> k, look |-> x, at |-> now, id |-> id]
      /\ \A n \in Numbers : sightings'[n] = sightings[n]
      /\ gallery' \subseteq Pruned(Zone[k], now) \cup {j}
      /\ Numbered'
  BY Added DEF RecentInv
<1>2. \A n \in Numbers : n \in Nat /\ n < j
  BY <1>1 DEF RecentInv, Numbered, Numbers
<1>3. /\ \A n \in Numbers : sightings[n].at \in Int
      /\ \A S \in SUBSET Numbers : IsFiniteSet(S) /\ Cardinality(S) \in Nat
  BY SightingSets DEF RecentInv, Sightings
<1>4. \A S \in SUBSET Numbers' : IsFiniteSet(S) /\ Cardinality(S) \in Nat
  <2>1. IsFiniteSet(Numbers)
    BY <1>3
  <2>2. IsFiniteSet(Numbers')
    BY <1>1, <2>1, FS_AddElement
  <2> QED
    BY <2>2, FS_Subset, FS_CardinalityType
<1>5. /\ now \in Int /\ MaxAge \in Int /\ MaxEntries \in Nat \ {0}
      /\ gallery \subseteq Numbers /\ Pruned(Zone[k], now) \subseteq gallery
  BY MatcherAssumption DEF RecentInv, Numbered, Pruned
<1> DEFINE since(n) == Since(n, id, Zone[k], now)
           newer(n, S) == {m \in S : m > n /\ sightings'[m].id = sightings'[n].id}
           old(n, m) == /\ m > n
                        /\ Zone[sightings'[m].camera] = Zone[sightings'[n].camera]
                        /\ sightings'[m].at - sightings'[n].at > MaxAge
<1>6. \A n \in Numbers :
        n \in gallery' <=>
          /\ n \in Pruned(Zone[k], now)
          /\ sightings[n].id = id => Cardinality(since(n)) < MaxEntries
  <2>1. Numbered
    BY DEF RecentInv
  <2> QED
    BY <2>1, GalleryAfter
<1>7. \A n, m \in Numbers : old(n, m) <=> TooOldFor(n, m)
  BY <1>1 DEF TooOldFor, ZoneOf
<1>8. \A n \in Numbers :
        old(n, j) <=> ZoneOf(n) = Zone[k] /\ now - sightings[n].at > MaxAge
  BY <1>1, <1>2 DEF ZoneOf
\* Of the entries since n, all but n are newer, and so is j: as many.
<1>9. ASSUME NEW n \in Numbers, n \in Pruned(Zone[k], now), sightings[n].id = id
      PROVE  /\ IsFiniteSet((since(n) \ {n}) \cup {j})
             /\ Cardinality((since(n) \ {n}) \cup {j}) = Cardinality(since(n))
             /\ (since(n) \ {n}) \cup {j} \subseteq newer(n, Numbers')
             /\ newer(n, gallery') \subseteq (since(n) \ {n}) \cup {j}
  <2>1. n \in since(n) /\ j \notin since(n) /\ since(n) \in SUBSET Numbers
    BY <1>1, <1>2, <1>5, <1>9 DEF Since
  <2>2. IsFiniteSet(since(n)) /\ Cardinality(since(n)) \in Nat
    BY <1>3, <2>1
  <2>3. /\ IsFiniteSet((since(n) \ {n}) \cup {j})
        /\ Cardinality((since(n) \ {n}) \cup {j}) = Cardinality(since(n))
    <3> HIDE DEF since
    <3> QED
      BY <2>1, <2>2, NewForOld
  <2>4. \A m \in since(n) \ {n} : m \in Numbers /\ m > n /\ sightings[m].id = id
    BY <1>2, <2>1 DEF Since
  <2>5. (since(n) \ {n}) \cup {j} \subseteq newer(n, Numbers')
    BY <1>1, <1>2, <1>9, <2>4
  <2>6. newer(n, gallery') \subseteq (since(n) \ {n}) \cup {j}
    BY <1>1, <1>2, <1>5, <1>9 DEF Since
  <2> QED
    BY <2>3, <2>5, <2>6
<1>10. ASSUME NEW n \in Numbers' \ gallery'
       PROVE  \/ \E m \in Numbers' : old(n, m)
              \/ Cardinality(newer(n, Numbers')) >= MaxEntries
  <2>1. n \in Numbers
    BY <1>1, <1>10 DEF AddEntry
  <2>2. newer(n, Numbers') \in SUBSET Numbers'
    OBVIOUS
  <2>3. IsFiniteSet(newer(n, Numbers')) /\ Cardinality(newer(n, Numbers')) \in Nat
    BY <1>4, <2>2
  <2>4. CASE n \notin gallery /\ ~\E m \in Numbers : TooOldFor(n, m)
    <3>1. Cardinality(Newer(n, Numbers)) >= MaxEntries
      BY <2>1, <2>4 DEF RecentInv, GalleryIsRecentPast
    <3>2. Newer(n, Numbers) \subseteq newer(n, Numbers') /\ Newer(n, Numbers) \subseteq Numbers
      BY <1>1, <2>1 DEF Newer
    <3>3. Cardinality(Newer(n, Numbers)) <= Cardinality(newer(n, Numbers'))
      <4> HIDE DEF newer
      <4> QED
        BY <2>3, <3>2, FS_Subset
    <3>4. Cardinality(Newer(n, Numbers)) \in Nat
      BY <1>3, <3>2
    <3> HIDE DEF newer
    <3> QED
      BY <1>5, <2>3, <3>1, <3>3, <3>4
  <2>5. CASE \E m \in Numbers : TooOldFor(n, m)
    BY <1>1, <1>7, <2>1, <2>5
  <2>6. CASE n \in gallery /\ n \notin Pruned(Zone[k], now)
    <3>1. ZoneOf(n) = Zone[k] /\ now - sightings[n].at > MaxAge
      BY <1>3, <1>5, <2>1, <2>6 DEF Pruned
    <3>2. old(n, j) /\ j \in Numbers'
      BY <1>1, <1>8, <2>1, <3>1
    <3> QED
      BY <3>2
  <2>7. CASE n \in Pruned(Zone[k], now)
    <3>1. sightings[n].id = id /\ ~(Cardinality(since(n)) < MaxEntries)
      BY <1>6, <1>10, <2>1, <2>7
    <3>2. /\ Cardinality((since(n) \ {n}) \cup {j}) = Cardinality(since(n))
          /\ (since(n) \ {n}) \cup {j} \subseteq newer(n, Numbers')
      BY <1>9, <2>1, <2>7, <3>1
    <3>3. since(n) \in SUBSET Numbers
      BY <1>5 DEF Since
    <3>4. Cardinality(since(n)) \in Nat
      BY <1>3, <3>3
    <3> HIDE DEF newer, since
    <3>5. Cardinality((since(n) \ {n}) \cup {j}) <= Cardinality(newer(n, Numbers'))
      BY <2>3, <3>2, FS_Subset
    <3> QED
      BY <1>5, <2>3, <3>1, <3>2, <3>4, <3>5
  <2> QED
    BY <2>4, <2>5, <2>6, <2>7
<1>11. ASSUME NEW n \in gallery'
       PROVE  /\ \A m \in Numbers' : ~old(n, m)
              /\ Cardinality(newer(n, gallery')) < MaxEntries
  <2>1. CASE n = j
    <3>1. \A m \in Numbers' : ~(m > n)
      BY <1>1, <1>2, <2>1
    <3>2. gallery' \subseteq Numbers'
      BY <1>1, <1>5
    <3>3. newer(n, gallery') = {}
      BY <3>1, <3>2
    <3> HIDE DEF newer
    <3> QED
      BY <1>5, <3>1, <3>3, FS_EmptySet
  <2>2. CASE n # j
    <3>1. n \in Numbers /\ n \in Pruned(Zone[k], now) /\ n \in gallery
      BY <1>1, <1>5, <1>11, <2>2
    <3>2. \A m \in Numbers : ~old(n, m)
      BY <1>7, <3>1 DEF RecentInv, GalleryIsRecentPast
    <3>3. ~old(n, j)
      BY <1>3, <1>5, <1>8, <3>1 DEF Pruned
    <3>4. Cardinality(newer(n, gallery')) < MaxEntries
      <4>1. newer(n, gallery') \in SUBSET Numbers'
        BY <1>1, <1>5
      <4>2. Cardinality(newer(n, gallery')) \in Nat
        BY <1>4, <4>1
      <4>3. CASE sightings[n].id = id
        <5>1. /\ IsFiniteSet((since(n) \ {n}) \cup {j})
              /\ Cardinality((since(n) \ {n}) \cup {j}) = Cardinality(since(n))
              /\ newer(n, gallery') \subseteq (since(n) \ {n}) \cup {j}
              /\ Cardinality(since(n)) < MaxEntries
          BY <1>6, <1>9, <1>11, <3>1, <4>3
        <5>2. since(n) \in SUBSET Numbers
          BY <1>5 DEF Since
        <5>3. Cardinality(since(n)) \in Nat
          BY <1>3, <5>2
        <5> HIDE DEF newer, since
        <5>4. Cardinality(newer(n, gallery')) <= Cardinality((since(n) \ {n}) \cup {j})
          BY <5>1, FS_Subset
        <5> QED
          BY <1>5, <4>2, <5>1, <5>3, <5>4
      <4>4. CASE sightings[n].id # id
        <5>1. newer(n, gallery') \subseteq Newer(n, gallery)
          BY <1>1, <1>5, <3>1, <4>4 DEF Newer
        <5>2. Newer(n, gallery) \in SUBSET Numbers
          BY <1>5 DEF Newer
        <5>3. IsFiniteSet(Newer(n, gallery)) /\ Cardinality(Newer(n, gallery)) \in Nat
          BY <1>3, <5>2
        <5>4. Cardinality(Newer(n, gallery)) < MaxEntries
          BY <3>1 DEF RecentInv, GalleryIsRecentPast
        <5> HIDE DEF newer
        <5>5. Cardinality(newer(n, gallery')) <= Cardinality(Newer(n, gallery))
          BY <5>1, <5>3, FS_Subset
        <5> QED
          BY <1>5, <4>2, <5>3, <5>4, <5>5
      <4> QED
        BY <4>3, <4>4
    <3> QED
      BY <1>1, <3>2, <3>3, <3>4
  <2> QED
    BY <2>1, <2>2
<1>12. GalleryIsRecentPast'
  BY <1>10, <1>11 DEF GalleryIsRecentPast, Newer, TooOldFor, ZoneOf
<1> QED
  BY <1>1, <1>12 DEF RecentInv

\* A sighting is forgotten only when a later one of its zone found it too old
\* or its identity has MaxEntries newer ones, and then it always is.
THEOREM GalleryIsRecentPastAlways == Spec => []GalleryIsRecentPast
<1>1. Init => RecentInv
  <2> SUFFICES ASSUME Init PROVE RecentInv
    OBVIOUS
  <2>1. sightings = << >> /\ gallery = {} /\ Numbers = {}
    BY DEF Init, Numbers
  <2> QED
    BY <2>1 DEF RecentInv, Numbered, GalleryIsRecentPast
<1>2. RecentInv /\ [Next]_vars => RecentInv'
  <2> SUFFICES ASSUME RecentInv, [Next]_vars PROVE RecentInv'
    OBVIOUS
  <2>1. ASSUME NEW k \in Cameras, NEW x \in Looks, NEW now \in 0..MaxTime,
               Observe(k, x, now)
        PROVE  RecentInv'
    <3>1. Len(sightings) \in Nat /\ Numbers = 1..Len(sightings)
      BY DEF RecentInv, Numbered, Numbers
    <3>2. ASSUME NEW n \in InZone(Zone[k], now)
          PROVE  sightings[n].id \in 1..(Len(sightings) + 1)
      <4>1. n \in Numbers
        BY DEF RecentInv, Numbered, InZone, Pruned
      <4>2. sightings[n] \in Sightings /\ sightings[n].id <= n
        BY <4>1, SightingSets DEF RecentInv, Numbered
      <4> QED
        BY <3>1, <4>1, <4>2 DEF Sightings
    <3>3. \E id \in 1..(Len(sightings) + 1) : AddEntry(k, x, now, id)
      BY <2>1, <3>1, <3>2 DEF Observe, MatchKnown, BeginIdentity
    <3> QED
      BY <3>3, RecentStep
  <2>2. CASE UNCHANGED vars
    BY <2>2 DEF vars, RecentInv, Numbered, GalleryIsRecentPast, Numbers, Newer, TooOldFor, ZoneOf
  <2> QED
    BY <2>1, <2>2 DEF Next
<1> QED
  BY <1>1, <1>2, PTL DEF Spec, RecentInv

-----------------------------------------------------------------------------
(* Types.                                                                  *)

\* The identity given is a new one or that of an earlier sighting, and every
\* identity is named by its first sighting.
LEMMA TypeStep ==
    ASSUME TypeOK, NEW k \in Cameras, NEW x \in Looks, NEW now \in 0..MaxTime,
           NEW id \in 1..(Len(sightings) + 1), AddEntry(k, x, now, id),
           id \in Numbers => sightings[id].id = id,
           result' \in [kind : {"none", "match", "raised"}, entry : {0} \cup Numbers]
    PROVE  TypeOK'
<1> PICK j : j = Len(sightings) + 1
  OBVIOUS
<1>1. Numbered
  BY DEF TypeOK, Numbered
<1>2. /\ j \in Nat /\ j \notin Numbers /\ Numbers' = Numbers \cup {j}
      /\ sightings'[j] = [camera |-> k, look |-> x, at |-> now, id |-> id]
      /\ \A n \in Numbers : sightings'[n] = sightings[n]
      /\ Numbered'
  BY <1>1, Added
<1>3. sightings \in Seq(Sightings) /\ sightings' \in Seq(Sightings)
  BY <1>1, <1>2 DEF Numbered
<1>4. Numbers = 1..Len(sightings) /\ Numbers' = 1..Len(sightings') /\ Len(sightings) \in Nat
  BY <1>3 DEF Numbers
<1>5. Len(sightings') = j /\ sightings' # << >>
  BY <1>3 DEF AddEntry
<1>6. \A n \in Numbers' : sightings'[sightings'[n].id].id = sightings'[n].id
  <2>1. ASSUME NEW n \in Numbers
        PROVE  sightings'[sightings'[n].id].id = sightings'[n].id
    <3>1. sightings[n].id \in Numbers
      <4>1. sightings[n] \in Sightings /\ sightings[n].id <= n
        BY <1>1, SightingSets DEF Numbered
      <4> QED
        BY <1>4, <4>1 DEF Sightings
    <3> QED
      BY <1>2, <3>1 DEF TypeOK
  <2>2. sightings'[id].id = id
    BY <1>2, <1>4
  <2> QED
    BY <1>2, <2>1, <2>2
<1>7. resolved' = id /\ sightings'[Len(sightings')].id = id
  BY <1>2, <1>5 DEF AddEntry
<1>8. result' \in [kind : {"none", "match", "raised"}, entry : {0} \cup Numbers']
  BY <1>2
<1> QED
  BY <1>2, <1>5, <1>6, <1>7, <1>8 DEF TypeOK, Numbered

\* Every variable stays in its domain, an identity is named by the sighting
\* that began it, and resolve_identity_id() answers with the last one given.
THEOREM TypeCorrect == Spec => []TypeOK
<1>1. Init => TypeOK
  <2> SUFFICES ASSUME Init PROVE TypeOK
    OBVIOUS
  <2>1. sightings = << >> /\ gallery = {} /\ Numbers = {} /\ resolved = 0
    BY DEF Init, Numbers
  <2> QED
    BY <2>1 DEF Init, NoMatch, TypeOK
<1>2. TypeOK /\ [Next]_vars => TypeOK'
  <2> SUFFICES ASSUME TypeOK, [Next]_vars PROVE TypeOK'
    OBVIOUS
  <2>1. ASSUME NEW k \in Cameras, NEW x \in Looks, NEW now \in 0..MaxTime,
               Observe(k, x, now)
        PROVE  TypeOK'
    <3>1. Len(sightings) \in Nat /\ Numbers = 1..Len(sightings) /\ Numbered
      BY DEF TypeOK, Numbers, Numbered
    <3>2. CASE MatchKnown(k, x, now)
      <4>1. PICK n \in InZone(Zone[k], now) :
              /\ AddEntry(k, x, now, sightings[n].id)
              /\ result' \in [kind : {"none", "match", "raised"}, entry : {0, n}]
        BY <3>2 DEF MatchKnown, NoMatch
      <4>2. n \in Numbers
        BY DEF TypeOK, InZone, Pruned
      <4>3. sightings[n] \in Sightings /\ sightings[n].id <= n
        BY <3>1, <4>2, SightingSets DEF Numbered
      <4>4. sightings[n].id \in Numbers /\ sightings[n].id \in 1..(Len(sightings) + 1)
        BY <3>1, <4>2, <4>3 DEF Sightings
      <4>5. sightings[sightings[n].id].id = sightings[n].id
        BY <4>2 DEF TypeOK
      <4>6. result' \in [kind : {"none", "match", "raised"}, entry : {0} \cup Numbers]
        BY <4>1, <4>2
      <4> QED
        BY <4>1, <4>4, <4>5, <4>6, TypeStep
    <3>3. CASE BeginIdentity(k, x, now)
      <4>1. /\ AddEntry(k, x, now, Len(sightings) + 1)
            /\ result' \in [kind : {"none", "match", "raised"}, entry : {0} \cup Numbers]
        BY <3>3 DEF BeginIdentity, NoMatch
      <4>2. Len(sightings) + 1 \in 1..(Len(sightings) + 1) /\ Len(sightings) + 1 \notin Numbers
        BY <3>1
      <4> QED
        BY <4>1, <4>2, TypeStep
    <3> QED
      BY <2>1, <3>2, <3>3 DEF Observe
  <2>2. CASE UNCHANGED vars
    BY <2>2 DEF vars, TypeOK, Numbers
  <2> QED
    BY <2>1, <2>2 DEF Next
<1> QED
  BY <1>1, <1>2, PTL DEF Spec

-----------------------------------------------------------------------------
(* What is reported.                                                       *)

\* Whatever the answer is that observe() takes for a sighting of k, it tells of
\* an entry of another camera, or else the identity is not new to k.
LEMMA ReportStep ==
    ASSUME MatcherInv, NEW k \in Cameras, NEW x \in Looks, NEW now \in 0..MaxTime,
           MatchKnown(k, x, now)
    PROVE  NewToCameraReported'
<1>1. PICK n \in InZone(Zone[k], now) :
        /\ AddEntry(k, x, now, sightings[n].id)
        /\ \/ sightings[n].camera # k /\ result'.kind # "none" /\ result'.entry = n
           \/ sightings[n].camera = k /\ result'.kind = "none"
  BY DEF MatchKnown, SeenElsewhere, NoMatch
<1> PICK j : j = Len(sightings) + 1
  OBVIOUS
<1>2. sightings \in Seq(Sightings) /\ Numbers = 1..Len(sightings) /\ Numbered
  BY DEF MatcherInv, Numbered, Numbers
<1>3. n \in Numbers /\ ZoneOf(n) = Zone[k] /\ now - sightings[n].at <= MaxAge
  BY <1>2 DEF InZone, Pruned, Numbered
<1>4. sightings[n].id \in 1..j
  <2>1. sightings[n] \in Sightings /\ sightings[n].id <= n
    BY <1>2, <1>3 DEF Numbered
  <2> QED
    BY <1>2, <1>3, <2>1 DEF Sightings
<1>5. /\ j \in Nat /\ j \notin Numbers /\ Numbers' = Numbers \cup {j}
      /\ sightings'[j] = [camera |-> k, look |-> x, at |-> now, id |-> sightings[n].id]
      /\ \A m \in Numbers : sightings'[m] = sightings[m]
  BY <1>1, <1>2, <1>4, Added
<1>6. Len(sightings') = j
  BY <1>1, <1>2 DEF AddEntry
<1> DEFINE earlier == {m \in Numbers' \ {j} : sightings'[m].id = sightings'[j].id}
<1>7. n \in earlier /\ n # j
  BY <1>3, <1>5
<1>8. /\ sightings'[n].camera = sightings[n].camera /\ sightings'[j].camera = k
      /\ Zone[sightings'[n].camera] = Zone[sightings'[j].camera]
      /\ sightings'[j].at - sightings'[n].at <= MaxAge
  BY <1>3, <1>5 DEF ZoneOf
<1>9. (\A m \in earlier : sightings'[m].camera # sightings'[j].camera)
        => result'.kind # "none"
  BY <1>1, <1>7, <1>8
<1>10. result'.kind # "none" =>
         \E m \in earlier :
             /\ m = result'.entry
             /\ sightings'[m].camera # sightings'[j].camera
             /\ Zone[sightings'[m].camera] = Zone[sightings'[j].camera]
             /\ sightings'[j].at - sightings'[m].at <= MaxAge
  BY <1>1, <1>7, <1>8
<1> QED
  BY <1>6, <1>9, <1>10 DEF NewToCameraReported, ZoneOf

\* However likeness, pruning and the clock go, an identity that a camera sees for
\* the first time is reported or raised, with another camera's sighting of it.
THEOREM NewToCameraReportedAlways == Spec => []NewToCameraReported
<1>1. Init => NewToCameraReported
  BY DEF Init, NewToCameraReported
<1>2. MatcherInv /\ NewToCameraReported /\ [Next]_vars => NewToCameraReported'
  <2> SUFFICES ASSUME MatcherInv, NewToCameraReported, [Next]_vars
               PROVE  NewToCameraReported'
    OBVIOUS
  <2>1. ASSUME NEW k \in Cameras, NEW x \in Looks, NEW now \in 0..MaxTime,
               BeginIdentity(k, x, now)
        PROVE  NewToCameraReported'
    <3> PICK j : j = Len(sightings) + 1
      OBVIOUS
    <3>1. AddEntry(k, x, now, j) /\ result'.kind = "none"
      BY <2>1 DEF BeginIdentity, NoMatch
    <3>2. sightings \in Seq(Sightings) /\ Numbers = 1..Len(sightings) /\ Numbered
      BY DEF MatcherInv, Numbered, Numbers
    <3>3. j \in 1..j /\ \A m \in Numbers : m \in Nat /\ m < j
      BY <3>2
    <3>4. /\ Numbers' = Numbers \cup {j}
          /\ sightings'[j] = [camera |-> k, look |-> x, at |-> now, id |-> j]
          /\ \A m \in Numbers : sightings'[m] = sightings[m]
      BY <3>1, <3>2, <3>3, Added
    <3>5. \A m \in Numbers : sightings[m].id # j
      <4>1. \A m \in Numbers : sightings[m] \in Sightings /\ sightings[m].id <= m
        BY <3>2 DEF Numbered
      <4> QED
        BY <3>3, <4>1 DEF Sightings
    <3>6. Len(sightings') = j
      BY <3>1, <3>2 DEF AddEntry
    <3>7. {m \in Numbers' \ {j} : sightings'[m].id = sightings'[j].id} = {}
      BY <3>4, <3>5
    <3> QED
      BY <3>1, <3>6, <3>7 DEF NewToCameraReported
  <2>2. CASE UNCHANGED vars
    BY <2>2 DEF vars, NewToCameraReported, Numbers, ZoneOf
  <2> QED
    BY <2>1, <2>2, ReportStep DEF Next, Observe
<1> QED
  BY <1>1, <1>2, MatcherInvAlways, PTL DEF Spec
=============================================================================
