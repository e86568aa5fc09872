----------------------- MODULE RedisStreamsProperties -----------------------
(***************************************************************************)
(* What RedisStreams must guarantee.                                       *)
(***************************************************************************)
EXTENDS RedisStreams, FiniteSets

CallRecords == [n : 0..MaxCalls, attempt : 0..MaxRetries-1,
                status : {"idle", "trying", "raised"}]
Attempts == Producers \X (1..MaxCalls) \X (0..MaxRetries-1)

ProducersTypeOK ==
    /\ limbo \subseteq Attempts
    /\ call \in [Producers -> CallRecords]
    /\ \A p \in Producers : call[p].n = 0 => call[p].status = "idle"

ServerTypeOK ==
    /\ log \in Seq(Calls)
    /\ lost \in 0..Len(log)
    /\ hasGroup \in BOOLEAN
    /\ last \in 0..Len(log)
    /\ pel \in [Consumers -> SUBSET Entries]
    /\ acked \subseteq Entries
    /\ losses \in Nat

ConsumersTypeOK ==
    /\ alive \subseteq Consumers
    /\ known \subseteq alive
    /\ inhand \in [Consumers -> SUBSET Entries]
    /\ crashes \in Nat

\* Every variable stays in its domain; the entries the server and the
\* consumers name are entries of the log, and only a running process has a
\* cache.
TypeOK == ProducersTypeOK /\ ServerTypeOK /\ ConsumersTypeOK

-----------------------------------------------------------------------------
(* Consuming.                                                              *)

\* An entry is pending with at most one consumer, and with none once it was
\* acknowledged: consume() gives each message to exactly one worker of the
\* group.
OneHolder ==
    /\ \A c, d \in Consumers : c # d => pel[c] \cap pel[d] = {}
    /\ Pending \cap acked = {}

\* No entry is stepped over: whatever the group's last-delivered id has passed
\* is acknowledged or on somebody's pending list, however the group creation
\* of ensure_group() interleaved with publishes, crashes and data losses.
NothingSkipped ==
    \A i \in Entries : lost < i /\ i <= last => i \in acked \cup Pending

\* Every entry a running process still works on is pending under its own
\* name, so that its ack() will settle that entry, unless the server has lost
\* the entry meanwhile.
InHandIsPending ==
    \A c \in Consumers : \A i \in inhand[c] : i > lost => i \in pel[c]

\* Everything handed out lies behind the cursor of the next read, and the
\* pending lists hold nothing the server has lost.  With the three properties
\* above this is inductive.
HandedOut ==
    /\ \A i \in Pending \cup acked : i <= Cursor
    /\ \A i \in Pending : lost < i
    /\ ~hasGroup => last = 0

DeliveryInv == OneHolder /\ NothingSkipped /\ InHandIsPending /\ HandedOut

\* consume() delivers in order and never the same entry twice, even across
\* crashes, restarts under the same name and group re-creation.
DeliveredInOrder ==
    [][\A i \in Pending' \ Pending, j \in Pending \cup acked : j < i]_vars

\* Redis, ensure_group() and the group cache together are the broker base.py
\* describes, short of its durability: every step publishes one entry,
\* delivers the oldest undelivered entries to one consumer, settles one entry,
\* changes nothing the broker's users can see, or is a data loss of the
\* server, which settles everything published so far.
MB == INSTANCE MessageBroker WITH Payloads <- Calls, pending <- pel,
                                  acked <- acked \cup (1..lost)

ImplementsBroker == MB!Init /\ [][MB!Next \/ ServerLoss]_(MB!vars)

-----------------------------------------------------------------------------
(* Publishing.                                                             *)

Returned(p, n) ==
    \/ n \in 1..MaxCalls /\ n < call[p].n
    \/ n \in 1..MaxCalls /\ n = call[p].n /\ call[p].status = "idle"

\* A publish() that returned has put its message on the stream, ahead of all
\* messages its producer published later.  Retries may leave further copies
\* anywhere behind the first one.
PublishOrder ==
    \A p \in Producers : \A n \in 1..MaxCalls : Returned(p, n) =>
        \E i \in Entries :
            /\ log[i] = <<p, n>>
            /\ \A k \in Entries : log[k][1] = p /\ log[k][2] > n => i < k

\* No message runs ahead of the calls made.  Makes PublishOrder inductive.
CallsBehind ==
    /\ \A i \in Entries : log[i][2] <= call[log[i][1]].n
    /\ \A a \in limbo : a[2] <= call[a[1]].n

\* One publish() leaves at most MaxRetries copies of its message, whether it
\* returned or raised.
BoundedCopies ==
    \A x \in Calls : Cardinality({i \in Entries : log[i] = x}) <= MaxRetries

-----------------------------------------------------------------------------
(* Liveness.                                                               *)

MaxEntries == Cardinality(Producers) * MaxCalls * MaxRetries

Stranded(i) == i \in Pending /\ \A c \in Consumers : i \notin inhand[c]

\* Every published entry is acknowledged in the end, unless the server lost it
\* or it was pending with a process that crashed.  In particular a consumer
\* whose cached group has disappeared gets going again after a restart.
EverySettled ==
    \A i \in 1..MaxEntries :
        (i \in Entries) ~> (i \in acked \/ i <= lost \/ Stranded(i))

\* What base.py says of ack(): an entry that was not acknowledged is delivered
\* again, so that in the end every entry is acknowledged although a consumer
\* crashed.
AtLeastOnce ==
    \A i \in 1..MaxEntries : (i \in Entries) ~> (i \in acked \/ i <= lost)
=============================================================================
