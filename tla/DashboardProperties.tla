------------------------ MODULE DashboardProperties ------------------------
(***************************************************************************)
(* What the dashboard must guarantee.                                      *)
(***************************************************************************)
EXTENDS Dashboard

Places == {"free", "sent", "connecting", "query", "put", "putbroken", "rollback",
           "delete", "200", "503"}

\* Every variable stays in its domain.
TypeOK ==
    /\ filter \in Filters /\ chart \in Filters \cup {None}
    /\ at \in [Requests -> Places]
    /\ asked \in [Requests -> Filters \cup {None}]
    /\ conn \in [Requests -> Connections \cup {None}]
    /\ idle \subseteq Connections
    /\ broken \subseteq Connections /\ stuck \subseteq Connections
    /\ failed \subseteq Requests
    /\ DOMAIN keyOf \subseteq Connections
    /\ used \subseteq Requests /\ lost \in Nat

Working(r) == at[r] \in {"query", "put", "putbroken", "rollback"}

\* A connection that a request works with is no other's, and not for others to
\* take: the pool's missing lock never has two queries share a transaction.
NotShared ==
    \A r \in Requests : Working(r) =>
        /\ conn[r] \notin idle
        /\ \A s \in Requests \ {r} : Working(s) => conn[s] # conn[r]

\* Every refresh is answered, with rows or with 503, whatever outages, failing
\* statements and the other requests do to its connection, unless that connection
\* has stopped answering: the pool asks for no statement_timeout
\* (src/dashboard/db.py:30-35), so that nothing ends such a query but the
\* database.
Answered == \A r \in Requests : (at[r] # "free") ~> (at[r] = "free" \/ conn[r] \in stuck)

\* Answers that overtake each other leave the chart with rows of a filter that
\* is no longer selected, but not for good: once the database stays up and
\* answers, and unless the pool has used itself up, the chart ends with the
\* selected filter.
FreshChart ==
    <>[](database = "up" /\ InUse \cap stuck = {})
        => <>[](chart = filter) \/ <>(lost >= MaxConn)

\* What db.py:7 says of the pool, "a bounded pool that hands a connection to
\* each request": never more than MaxConn connections are given out.
PoolBounded == Cardinality(used) + lost <= MaxConn
=============================================================================
