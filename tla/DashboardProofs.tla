-------------------------- MODULE DashboardProofs --------------------------
(***************************************************************************)
(* Proofs, for any number of requests, connections and filters and any     *)
(* size of the pool, about the connections the dashboard's requests share. *)
(***************************************************************************)
EXTENDS DashboardProperties, TLAPS

-----------------------------------------------------------------------------
(* Type correctness.                                                       *)

LEMMA TypeInit == Init => TypeOK
BY DashboardAssumption DEF Init, TypeOK, Places

LEMMA TypeGoto ==
    ASSUME at \in [Requests -> Places], NEW r \in Requests, NEW p \in Places, Goto(r, p)
    PROVE  at' \in [Requests -> Places]
BY DEF Goto

LEMMA TypePage ==
    ASSUME TypeOK, NEW r \in Requests, Refresh(r) \/ ChangeFilter(r) \/ Arrive(r)
    PROVE  TypeOK'
<1>1. "sent" \in Places /\ "free" \in Places
  BY DEF Places
<1>2. ASSUME NEW f \in Filters, Send(r, f)
      PROVE  at' \in [Requests -> Places] /\ asked' \in [Requests -> Filters \cup {None}]
  BY <1>1, <1>2, TypeGoto DEF Send, TypeOK
<1>3. CASE Refresh(r)
  BY <1>2, <1>3 DEF Refresh, TypeOK, pageVars, poolVars, databaseVars
<1>4. CASE ChangeFilter(r)
  <2>1. PICK f \in Filters \ {filter} : filter' = f /\ Send(r, f)
    BY <1>4 DEF ChangeFilter
  <2> QED
    BY <1>2, <1>4, <2>1 DEF ChangeFilter, TypeOK, poolVars, databaseVars
<1>5. CASE Arrive(r)
  <2>1. at' \in [Requests -> Places]
    BY <1>1, <1>5, TypeGoto DEF Arrive, TypeOK
  <2>2. chart' \in Filters \cup {None} /\ asked' \in [Requests -> Filters \cup {None}]
    BY <1>5 DEF Arrive, Shown, TypeOK
  <2> QED
    BY <1>5, <2>1, <2>2 DEF Arrive, TypeOK, poolVars, databaseVars
<1> QED
  BY <1>3, <1>4, <1>5

LEMMA TypeGive ==
    ASSUME TypeOK, NEW r \in Requests, NEW c \in Connections, Give(r, c)
    PROVE  /\ at' \in [Requests -> Places]
           /\ conn' \in [Requests -> Connections \cup {None}]
           /\ DOMAIN keyOf' \subseteq Connections
           /\ used' \subseteq Requests
<1>1. "query" \in Places
  BY DEF Places
<1>2. at' \in [Requests -> Places]
  BY <1>1, TypeGoto DEF Give, TypeOK
<1> QED
  BY <1>2 DEF Give, TypeOK

LEMMA TypeStrand ==
    ASSUME TypeOK, NEW r \in Requests, Strand(r)
    PROVE  /\ at' \in [Requests -> Places]
           /\ conn' \in [Requests -> Connections \cup {None}]
           /\ DOMAIN keyOf' \subseteq Connections
           /\ used' \subseteq Requests /\ lost' \in Nat
<1>1. "503" \in Places
  BY DEF Places
<1>2. at' \in [Requests -> Places]
  BY <1>1, TypeGoto DEF Strand, TypeOK
<1>3. conn' \in [Requests -> Connections \cup {None}]
  BY DEF Strand, TypeOK
<1>4. DOMAIN keyOf' = DOMAIN keyOf \ {conn[r]}
  BY DEF Strand
<1>5. lost' \in Nat
  BY DEF Strand, TypeOK
<1> QED
  BY <1>2, <1>3, <1>4, <1>5 DEF Strand, TypeOK

LEMMA TypeHandle ==
    ASSUME TypeOK, NEW r \in Requests, Handle(r), Working(r) => conn[r] # None
    PROVE  TypeOK'
<1> USE DEF pageVars, poolVars, databaseVars
<1>1. at \in [Requests -> Places] /\ \A p \in Places : Goto(r, p) => at' \in [Requests -> Places]
  BY TypeGoto DEF TypeOK
<1>2. CASE TakeIdle(r)
  <2>1. PICK c \in idle : Give(r, c) /\ idle' = Popped(c)
    BY <1>2 DEF TakeIdle
  <2>2. c \in Connections
    BY <2>1 DEF TypeOK
  <2> QED
    BY <1>2, <2>1, <2>2, TypeGive DEF TakeIdle, Popped, TypeOK
<1>3. CASE CheckLimit(r)
  <2>1. at' \in [Requests -> Places]
    BY <1>1, <1>3 DEF CheckLimit, Places
  <2> QED
    BY <1>3, <2>1 DEF CheckLimit, TypeOK
<1>4. CASE Connect(r)
  <2>1. ASSUME NEW c \in Connections \ Open, Give(r, c), broken' = broken \ {c},
               stuck' = stuck \ {c}
        PROVE  TypeOK'
    BY <1>4, <2>1, TypeGive DEF Connect, TypeOK
  <2>2. ASSUME Goto(r, "503"), UNCHANGED <<conn, used, keyOf, broken, stuck>>
        PROVE  TypeOK'
    <3>1. at' \in [Requests -> Places]
      BY <1>1, <2>2 DEF Places
    <3> QED
      BY <1>4, <2>2, <3>1 DEF Connect, TypeOK
  <2> QED
    BY <1>4, <2>1, <2>2 DEF Connect
<1>5. CASE Query(r) \/ QueryFails(r)
  <2>1. at' \in [Requests -> Places]
    BY <1>1, <1>5 DEF Query, QueryFails, AfterQuery, Places
  <2>2. failed' \subseteq Requests
    BY <1>5 DEF Query, QueryFails, TypeOK
  <2> QED
    BY <1>5, <2>1, <2>2 DEF Query, QueryFails, TypeOK
<1>6. CASE PutUnkeyed(r)
  BY <1>6, TypeStrand DEF PutUnkeyed, TypeOK
<1>7. CASE Put(r)
  <2>1. at' \in [Requests -> Places]
    BY <1>1, <1>7 DEF Put, Places
  <2> QED
    BY <1>7, <2>1 DEF Put, TypeOK
<1>8. CASE Rollback(r)
  <2>1. CASE conn[r] \in broken
    BY <1>8, <2>1, TypeStrand DEF Rollback, TypeOK
  <2>2. CASE conn[r] \notin broken
    <3>1. at' \in [Requests -> Places]
      BY <1>1, <1>8, <2>2 DEF Rollback, Places
    <3>2. conn[r] \in Connections
      BY <1>8 DEF Rollback, Working, TypeOK
    <3> QED
      BY <1>8, <2>2, <3>1, <3>2 DEF Rollback, TypeOK
  <2> QED
    BY <2>1, <2>2
<1>9. CASE Delete(r)
  <2>1. at' \in [Requests -> Places]
    BY <1>1, <1>9 DEF Delete, Places
  <2> QED
    BY <1>9, <2>1 DEF Delete, TypeOK
<1> QED
  BY <1>2, <1>3, <1>4, <1>5, <1>6, <1>7, <1>8, <1>9 DEF Handle

-----------------------------------------------------------------------------
(* Who works with which connection.                                        *)

Connected == \A r \in Requests : Working(r) => conn[r] # None

PoolInv == TypeOK /\ Connected /\ NotShared

LEMMA TypeNext == TypeOK /\ Connected /\ [Next]_vars => TypeOK'
<1> SUFFICES ASSUME TypeOK, Connected, [Next]_vars PROVE TypeOK'
  OBVIOUS
<1>1. ASSUME NEW r \in Requests, Handle(r) PROVE TypeOK'
  BY <1>1, TypeHandle DEF Connected
<1>2. CASE GoDown \/ ComeUp \/ UNCHANGED vars
            \/ \E c \in Connections : Stall(c) \/ StallEnds(c)
  <2>1. Open \subseteq Connections
    BY DEF Open, InUse, TypeOK
  <2> QED
    BY <1>2, <2>1 DEF GoDown, ComeUp, Stall, StallEnds, vars, pageVars, poolVars,
                     databaseVars, TypeOK
<1> QED
  BY <1>1, <1>2, TypePage DEF Next

\* Only r may have moved, and it works with nothing new.
LEMMA KeepsApart ==
    ASSUME PoolInv, NEW r \in Requests,
           \A s \in Requests \ {r} : at'[s] = at[s] /\ conn'[s] = conn[s],
           Working(r)' => Working(r) /\ conn'[r] = conn[r],
           idle' \subseteq idle
    PROVE  Connected' /\ NotShared'
<1>1. \A s \in Requests : Working(s)' => Working(s) /\ conn'[s] = conn[s]
  BY DEF Working
<1> QED
  BY <1>1 DEF PoolInv, Connected, NotShared

\* r has a connection nobody works with, and which is not idle any more.
LEMMA GivesApart ==
    ASSUME PoolInv, NEW r \in Requests, NEW c \in Connections, Give(r, c),
           idle' \subseteq idle, c \notin idle',
           \A s \in Requests \ {r} : Working(s) => conn[s] # c
    PROVE  Connected' /\ NotShared'
<1>1. /\ \A s \in Requests \ {r} : at'[s] = at[s] /\ conn'[s] = conn[s]
      /\ conn'[r] = c
  BY DEF Give, Goto, PoolInv, TypeOK
<1>2. \A s \in Requests \ {r} : Working(s)' => Working(s) /\ conn'[s] = conn[s]
  BY <1>1 DEF Working
<1>3. c # None
  BY DashboardAssumption
<1>4. Connected'
  BY <1>1, <1>2, <1>3 DEF PoolInv, Connected
<1>5. ASSUME NEW s \in Requests, Working(s)'
      PROVE  /\ conn'[s] \notin idle'
             /\ \A t \in Requests \ {s} : Working(t)' => conn'[t] # conn'[s]
  <2>1. CASE s = r
    BY <1>1, <1>2, <2>1
  <2>2. CASE s # r
    BY <1>1, <1>2, <1>5, <2>2 DEF PoolInv, NotShared
  <2> QED
    BY <2>1, <2>2
<1> QED
  BY <1>4, <1>5 DEF NotShared

\* The connection is idle again, and r has done with it.
LEMMA ReturnsApart ==
    ASSUME PoolInv, NEW r \in Requests, Working(r), ~ Working(r)',
           \A s \in Requests \ {r} : at'[s] = at[s],
           UNCHANGED conn, idle' = idle \cup {conn[r]}
    PROVE  Connected' /\ NotShared'
<1>1. \A s \in Requests : Working(s)' => Working(s) /\ s # r
  BY DEF Working
<1> QED
  BY <1>1 DEF PoolInv, Connected, NotShared

LEMMA PoolHandle ==
    ASSUME PoolInv, NEW r \in Requests, Handle(r)
    PROVE  Connected' /\ NotShared'
<1>1. /\ at \in [Requests -> Places]
      /\ conn \in [Requests -> Connections \cup {None}] /\ idle \subseteq Connections
  BY DEF PoolInv, TypeOK
<1>2. ASSUME NEW p \in Places, Goto(r, p)
      PROVE  at'[r] = p /\ \A s \in Requests \ {r} : at'[s] = at[s]
  BY <1>1, <1>2 DEF Goto
<1>3. ASSUME NEW p \in Places, Goto(r, p), UNCHANGED conn, idle' \subseteq idle,
             Working(r) \/ p \notin {"query", "put", "putbroken", "rollback"}
      PROVE  Connected' /\ NotShared'
  BY <1>2, <1>3, KeepsApart DEF Working
<1>4. ASSUME Strand(r), UNCHANGED idle PROVE Connected' /\ NotShared'
  <2>1. /\ Goto(r, "503") /\ "503" \in Places
        /\ \A s \in Requests \ {r} : conn'[s] = conn[s]
    BY <1>1, <1>4 DEF Strand, Places
  <2>2. at'[r] = "503" /\ \A s \in Requests \ {r} : at'[s] = at[s]
    BY <1>2, <2>1
  <2>3. ~ Working(r)'
    BY <2>2 DEF Working
  <2> QED
    BY <1>4, <2>1, <2>2, <2>3, KeepsApart
<1>5. CASE TakeIdle(r)
  <2>1. PICK c \in idle : Give(r, c) /\ idle' = Popped(c)
    BY <1>5 DEF TakeIdle
  <2>2. \A s \in Requests \ {r} : Working(s) => conn[s] # c
    BY <2>1 DEF PoolInv, NotShared
  <2> QED
    BY <1>1, <2>1, <2>2, GivesApart DEF Popped
<1>6. CASE CheckLimit(r)
  <2>1. PICK p \in {"503", "connecting"} : Goto(r, p)
    BY <1>6 DEF CheckLimit
  <2> QED
    BY <1>3, <1>6, <2>1 DEF CheckLimit, poolVars, Places
<1>7. CASE Connect(r)
  <2>1. ASSUME NEW c \in Connections \ Open, Give(r, c) PROVE Connected' /\ NotShared'
    <3>1. c \notin idle /\ \A s \in Requests : conn[s] # c
      BY <1>1, <2>1, DashboardAssumption DEF Open, InUse
    <3> QED
      BY <1>7, <2>1, <3>1, GivesApart DEF Connect
  <2>2. ASSUME Goto(r, "503"), UNCHANGED conn PROVE Connected' /\ NotShared'
    BY <1>3, <1>7, <2>2 DEF Connect, Places
  <2> QED
    BY <1>7, <2>1, <2>2 DEF Connect
<1>8. CASE Query(r) \/ QueryFails(r)
  BY <1>3, <1>8 DEF Query, QueryFails, AfterQuery, Working, Places, poolVars
<1>9. CASE PutUnkeyed(r)
  BY <1>4, <1>9 DEF PutUnkeyed
<1>10. CASE Put(r)
  BY <1>3, <1>10 DEF Put, Working, Places, poolVars
<1>11. CASE Rollback(r)
  <2>1. CASE conn[r] \in broken
    BY <1>4, <1>11, <2>1 DEF Rollback
  <2>2. CASE conn[r] \notin broken
    <3>1. /\ Goto(r, "delete") /\ "delete" \in Places
          /\ UNCHANGED conn /\ idle' = idle \cup {conn[r]}
      BY <1>11, <2>2 DEF Rollback, Places
    <3>2. Working(r) /\ ~ Working(r)'
      BY <1>2, <1>11, <3>1 DEF Rollback, Working
    <3> QED
      BY <1>2, <3>1, <3>2, ReturnsApart
  <2> QED
    BY <2>1, <2>2
<1>12. CASE Delete(r)
  <2>1. PICK p \in {"200", "503"} : Goto(r, p)
    BY <1>12 DEF Delete
  <2>2. at'[r] = p /\ \A s \in Requests \ {r} : at'[s] = at[s]
    BY <1>2, <2>1 DEF Places
  <2>3. ~ Working(r)' /\ UNCHANGED idle
    BY <1>12, <2>1, <2>2 DEF Delete, Working
  <2>4. \A s \in Requests \ {r} : conn'[s] = conn[s]
    BY <1>1, <1>12 DEF Delete
  <2> QED
    BY <2>2, <2>3, <2>4, KeepsApart
<1> QED
  BY <1>5, <1>6, <1>7, <1>8, <1>9, <1>10, <1>11, <1>12 DEF Handle

LEMMA PoolNext == PoolInv /\ [Next]_vars => PoolInv'
<1> SUFFICES ASSUME PoolInv, [Next]_vars PROVE PoolInv'
  OBVIOUS
<1>1. TypeOK'
  BY TypeNext DEF PoolInv
<1>2. ASSUME NEW r \in Requests, Refresh(r) \/ ChangeFilter(r) \/ Arrive(r)
      PROVE  Connected' /\ NotShared'
  <2>1. /\ \E p \in {"sent", "free"} : Goto(r, p)
        /\ UNCHANGED <<conn, idle>>
    BY <1>2 DEF Refresh, ChangeFilter, Arrive, Send, poolVars
  <2>2. at'[r] \in {"sent", "free"} /\ \A s \in Requests \ {r} : at'[s] = at[s]
    BY <2>1 DEF Goto, PoolInv, TypeOK
  <2>3. ~ Working(r)'
    BY <2>2 DEF Working
  <2> QED
    BY <2>1, <2>2, <2>3, KeepsApart
<1>3. ASSUME \/ GoDown \/ ComeUp \/ UNCHANGED vars
             \/ \E c \in Connections : Stall(c) \/ StallEnds(c)
      PROVE  Connected' /\ NotShared'
  <2>1. UNCHANGED <<at, conn, idle>>
    BY <1>3 DEF GoDown, ComeUp, Stall, StallEnds, vars, poolVars
  <2>2. \A r \in Requests : Working(r)' <=> Working(r)
    BY <2>1 DEF Working
  <2>3. \A r \in Requests : conn'[r] = conn[r]
    BY <2>1
  <2>4. Connected'
    BY <2>2, <2>3 DEF PoolInv, Connected
  <2>5. NotShared'
    BY <2>1, <2>2, <2>3 DEF PoolInv, NotShared
  <2> QED
    BY <2>4, <2>5
<1>4. Connected' /\ NotShared'
  <2>1. ASSUME NEW r \in Requests, Handle(r) PROVE Connected' /\ NotShared'
    BY <2>1, PoolHandle
  <2>2. CASE \E r \in Requests : Refresh(r) \/ ChangeFilter(r) \/ Handle(r) \/ Arrive(r)
    BY <1>2, <2>1, <2>2
  <2> QED
    BY <1>3, <2>2 DEF Next
<1> QED
  BY <1>1, <1>4 DEF PoolInv

LEMMA PoolAlways == Spec => []PoolInv
<1>1. Init => PoolInv
  <2> SUFFICES ASSUME Init PROVE Connected /\ NotShared
    BY TypeInit DEF PoolInv
  <2>1. \A r \in Requests : ~ Working(r)
    BY DEF Init, Working
  <2> QED
    BY <2>1 DEF Connected, NotShared
<1> QED
  BY <1>1, PoolNext, PTL DEF Spec

\* Every variable of the page, of the requests and of the pool's books stays in
\* its domain.
THEOREM TypeCorrect == Spec => []TypeOK
BY PoolAlways, PTL DEF PoolInv

\* Although the pool takes no lock, two requests never work with one connection,
\* and none works with a connection the pool may give away.
THEOREM NotSharedAlways == Spec => []NotShared
BY PoolAlways, PTL DEF PoolInv
=============================================================================
