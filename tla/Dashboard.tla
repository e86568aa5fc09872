----------------------------- MODULE Dashboard -----------------------------
(***************************************************************************)
(* The dashboard: one page (src/dashboard/static/index.html), the requests *)
(* it has in flight, each handled by a thread of its own (FastAPI runs the *)
(* endpoints of api/routes.py in threads), and the connection pool of      *)
(* src/dashboard/db.py that the threads share.                             *)
(*                                                                         *)
(* psycopg2's SimpleConnectionPool is external.  It takes no lock, and     *)
(* another thread may run wherever it waits for the database: between the  *)
(* test of the limit and the entry of a new connection in `_used', and     *)
(* between the test of the idle connections, the rollback, and the removal *)
(* from `_used'.  It does not undo its entry in `_used' when a rollback    *)
(* raises.                                                                 *)
(*                                                                         *)
(* The pool sets a timeout for connecting and none for statements: a query *)
(* on a connection that does not answer (its server side waits for a lock  *)
(* or is stalled, or the network lost it) waits until it does.             *)
(*                                                                         *)
(* A filter stands for the values of the page's two selectors; rows are    *)
(* abstracted to the filter they were asked for.                           *)
(***************************************************************************)
EXTENDS Naturals, FiniteSets

CONSTANTS Requests,     \* the requests that may be in flight at a time
          Connections,  \* bound: connections that exist at a time
          Filters,
          None,         \* no filter, no connection
          MinConn,      \* _MIN_POOL_CONNECTIONS
          MaxConn,      \* _MAX_POOL_CONNECTIONS
          MaxChanges,   \* bound: changes of a selector
          MaxFaults     \* bound: outages of the database, connections that stop
                        \* answering and statements that fail, together

ASSUME DashboardAssumption ==
    /\ MinConn \in Nat /\ MaxConn \in Nat \ {0}
    /\ MaxChanges \in Nat /\ MaxFaults \in Nat
    /\ None \notin Filters \cup Connections

VARIABLES
    filter,     \* what the selectors show
    chart,      \* the filter whose rows the chart shows
    at,         \* at[r]: how far request r has got
    asked,      \* asked[r]: its filter
    conn,       \* conn[r]: its connection
    idle,       \* `_pool': the idle connections
    keyOf,      \* `_rused': keyOf[c] is the request c was given to
    used,       \* `_used': keys of requests in progress
    lost,       \* keys in `_used' of requests that are over
    database,   \* "up" or "down"
    broken,     \* open connections whose server side is gone
    stuck,      \* open connections that do not answer
    failed,     \* requests whose query has raised
    changes, faults     \* counters for the bounds

pageVars == <<filter, chart, changes>>
poolVars == <<idle, keyOf, used, lost>>
databaseVars == <<database, broken, stuck, faults>>
vars == <<pageVars, at, asked, conn, failed, poolVars, databaseVars>>

InUse == {conn[r] : r \in Requests} \ {None}
Open == idle \cup InUse \cup DOMAIN keyOf

\* init_pool() has opened MinConn connections.
Init ==
    /\ filter \in Filters
    /\ chart = None
    /\ at = [r \in Requests |-> "free"]
    /\ asked = [r \in Requests |-> None]
    /\ conn = [r \in Requests |-> None]
    /\ idle \in SUBSET Connections /\ Cardinality(idle) = MinConn
    /\ keyOf = [c \in {} |-> None]
    /\ used = {} /\ lost = 0
    /\ database = "up" /\ broken = {} /\ stuck = {}
    /\ failed = {}
    /\ changes = 0 /\ faults = 0

Goto(r, place) == at' = [at EXCEPT ![r] = place]

-----------------------------------------------------------------------------
(* The page.                                                               *)

\* refresh() reads the selectors and sends a request.
Send(r, f) ==
    /\ at[r] = "free"
    /\ Goto(r, "sent")
    /\ asked' = [asked EXCEPT ![r] = f]

\* Every REFRESH_INTERVAL_MS, whatever is in flight.
Refresh(r) ==
    /\ Send(r, filter)
    /\ UNCHANGED <<pageVars, conn, failed, poolVars, databaseVars>>

ChangeFilter(r) ==
    /\ changes < MaxChanges
    /\ changes' = changes + 1
    /\ \E f \in Filters \ {filter} : filter' = f /\ Send(r, f)
    /\ UNCHANGED <<chart, conn, failed, poolVars, databaseVars>>

\* Mutant: an answer is shown only if the selectors changed since it was asked.
ShownIfOther(r) == IF asked[r] # filter THEN asked[r] ELSE chart

\* The rows that are shown once the answer of r has arrived: those of r, even
\* if the selectors, or the chart, are further.
Shown(r) == asked[r]

\* Answers arrive in any order.  An error only changes the status line.
Arrive(r) ==
    /\ at[r] \in {"200", "503"}
    /\ chart' = IF at[r] = "200" THEN Shown(r) ELSE chart
    /\ Goto(r, "free")
    /\ asked' = [asked EXCEPT ![r] = None]
    /\ failed' = failed \ {r}
    /\ UNCHANGED <<filter, changes, conn, poolVars, databaseVars>>

-----------------------------------------------------------------------------
(* getconn().                                                              *)

Give(r, c) ==
    /\ conn' = [conn EXCEPT ![r] = c]
    /\ used' = used \cup {r}
    /\ keyOf' = [d \in DOMAIN keyOf \cup {c} |-> IF d = c THEN r ELSE keyOf[d]]
    /\ Goto(r, "query")

\* Mutant: the idle connection is looked at, not popped.
StillIdle(c) == idle
Popped(c) == idle \ {c}

TakeIdle(r) ==
    /\ at[r] = "sent"
    /\ \E c \in idle : Give(r, c) /\ idle' = Popped(c)
    /\ UNCHANGED <<pageVars, asked, failed, lost, databaseVars>>

\* Nothing idle: PoolError when exactly MaxConn keys are in use.
CheckLimit(r) ==
    /\ at[r] = "sent"
    /\ idle = {}
    /\ Goto(r, IF Cardinality(used) + lost = MaxConn THEN "503" ELSE "connecting")
    /\ UNCHANGED <<pageVars, asked, conn, failed, poolVars, databaseVars>>

Connect(r) ==
    /\ at[r] = "connecting"
    /\ IF database = "up"
       THEN \E c \in Connections \ Open : /\ Give(r, c)
                                        /\ broken' = broken \ {c}
                                        /\ stuck' = stuck \ {c}
       ELSE Goto(r, "503") /\ UNCHANGED <<conn, used, keyOf, broken, stuck>>
    /\ UNCHANGED <<pageVars, asked, failed, idle, lost, database, faults>>

-----------------------------------------------------------------------------
(* The endpoint, and putconn().                                            *)

\* Mutant: a query that fails is tried again on the same connection.
QueryAgain(r) == IF conn[r] \in broken THEN "query" ELSE "put"

\* execute() and fetchall(); "putbroken" after an error of the connection.
AfterQuery(r) == IF conn[r] \in broken THEN "putbroken" ELSE "put"

Query(r) ==
    /\ at[r] = "query"
    /\ conn[r] \notin stuck
    /\ Goto(r, AfterQuery(r))
    /\ failed' = IF conn[r] \in broken THEN failed \cup {r} ELSE failed
    /\ UNCHANGED <<pageVars, asked, conn, poolVars, databaseVars>>

\* The database refuses the statement, or cancels it.  Only the transaction is
\* lost with it.
QueryFails(r) ==
    /\ at[r] = "query"
    /\ conn[r] \notin stuck \cup broken
    /\ faults < MaxFaults
    /\ faults' = faults + 1
    /\ Goto(r, "put")
    /\ failed' = failed \cup {r}
    /\ UNCHANGED <<pageVars, asked, conn, poolVars, database, broken, stuck>>

\* The key of r stays in `_used', its connection with it, for nobody.  Beyond
\* MaxConn the number of such keys makes no difference to CheckLimit.
Strand(r) ==
    /\ used' = used \ {r}
    /\ lost' = IF lost > MaxConn THEN lost ELSE lost + 1
    /\ keyOf' = [c \in DOMAIN keyOf \ {conn[r]} |-> keyOf[c]]
    /\ conn' = [conn EXCEPT ![r] = None]
    /\ Goto(r, "503")

\* putconn() of a connection without a key: PoolError.
PutUnkeyed(r) ==
    /\ at[r] \in {"put", "putbroken"}
    /\ conn[r] \notin DOMAIN keyOf
    /\ Strand(r)
    /\ UNCHANGED <<pageVars, asked, failed, idle, databaseVars>>

\* A connection the pool does not want back, or that is known to be broken, is
\* closed; the others are rolled back first.
Put(r) ==
    /\ at[r] \in {"put", "putbroken"}
    /\ conn[r] \in DOMAIN keyOf
    /\ IF at[r] = "put" /\ Cardinality(idle) < MinConn
       THEN Goto(r, "rollback")
       ELSE Goto(r, "delete")
    /\ UNCHANGED <<pageVars, asked, conn, failed, poolVars, databaseVars>>

\* rollback(), a statement like others, which raises when the connection broke
\* after the query.
Rollback(r) ==
    /\ at[r] = "rollback"
    /\ conn[r] \notin stuck
    /\ IF conn[r] \in broken
       THEN Strand(r) /\ UNCHANGED idle
       ELSE /\ idle' = idle \cup {conn[r]}
            /\ Goto(r, "delete")
            /\ UNCHANGED <<conn, keyOf, used, lost>>
    /\ UNCHANGED <<pageVars, asked, failed, databaseVars>>

\* del _used[key] and del _rused[id(conn)], whosever entry the latter is by
\* now; a KeyError if it is gone.  The request is answered.
Delete(r) ==
    /\ at[r] = "delete"
    /\ used' = used \ {r}
    /\ keyOf' = [c \in DOMAIN keyOf \ {conn[r]} |-> keyOf[c]]
    /\ conn' = [conn EXCEPT ![r] = None]
    /\ Goto(r, IF r \notin failed /\ conn[r] \in DOMAIN keyOf THEN "200" ELSE "503")
    /\ UNCHANGED <<pageVars, asked, failed, idle, lost, databaseVars>>

-----------------------------------------------------------------------------
(* The database.                                                           *)

GoDown ==
    /\ database = "up"
    /\ faults < MaxFaults
    /\ faults' = faults + 1
    /\ database' = "down"
    /\ broken' = Open
    /\ UNCHANGED <<stuck, pageVars, at, asked, conn, failed, poolVars>>

ComeUp ==
    /\ database = "down"
    /\ database' = "up"
    /\ UNCHANGED <<broken, stuck, faults, pageVars, at, asked, conn, failed, poolVars>>

\* A connection stops answering.
Stall(c) ==
    /\ c \in Open \ stuck
    /\ faults < MaxFaults
    /\ faults' = faults + 1
    /\ stuck' = stuck \cup {c}
    /\ UNCHANGED <<database, broken, pageVars, at, asked, conn, failed, poolVars>>

\* It goes on, or is found to be lost.
StallEnds(c) ==
    /\ c \in stuck
    /\ stuck' = stuck \ {c}
    /\ broken' = broken \/ broken' = broken \cup {c}
    /\ UNCHANGED <<database, faults, pageVars, at, asked, conn, failed, poolVars>>

-----------------------------------------------------------------------------
Handle(r) ==
    \/ TakeIdle(r) \/ CheckLimit(r) \/ Connect(r)
    \/ Query(r) \/ QueryFails(r)
    \/ PutUnkeyed(r) \/ Put(r) \/ Rollback(r) \/ Delete(r)

Next ==
    \/ \E r \in Requests : Refresh(r) \/ ChangeFilter(r) \/ Handle(r) \/ Arrive(r)
    \/ GoDown \/ ComeUp
    \/ \E c \in Connections : Stall(c) \/ StallEnds(c)

Spec == Init /\ [][Next]_vars

\* The timer fires, the threads run, answers arrive, and a statement on a
\* connection that answers comes to its end.  The database may stay down, and a
\* connection that has stopped answering may never answer again.
Fairness ==
    \A r \in Requests : WF_vars(Refresh(r)) /\ WF_vars(Handle(r)) /\ WF_vars(Arrive(r))

FairSpec == Spec /\ Fairness
=============================================================================
