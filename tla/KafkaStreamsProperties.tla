----------------------- MODULE KafkaStreamsProperties -----------------------
(***************************************************************************)
(* What KafkaStreams must guarantee.                                       *)
(***************************************************************************)
EXTENDS KafkaStreams

ASSUME PartitionsAssumption == IsFiniteSet(Partitions)

\* Every variable stays in its domain.
TypeOK ==
    /\ partitionOf \in KeyHashes
    /\ topic \in [Partitions -> Seq(1..MaxCalls)]
    /\ outbox \subseteq 1..MaxCalls /\ stray \subseteq 1..MaxCalls
    /\ doubtful \subseteq 1..MaxCalls
    /\ calls \in 0..MaxCalls /\ flushing \in BOOLEAN
    /\ owner \in [Partitions -> Consumers \cup {Nobody}]
    /\ position \in [Partitions -> Nat] /\ committed \in [Partitions -> Nat]
    /\ subscribed \subseteq Consumers /\ mute \subseteq Consumers
    /\ acking \subseteq Consumers
    /\ threaded \in BOOLEAN
    /\ inhand \in [Consumers -> SUBSET (Partitions \X Nat)]

Returned(x) == x < calls \/ (x = calls /\ ~flushing)

\* A publish() that returned has put its payload on its partition ahead of all
\* later payloads of that partition, however often requests were sent again,
\* unless its flush() ran out of time or its delivery failed: the two cases
\* publish() does not tell its caller.
PublishOrder ==
    \A x \in 1..MaxCalls \ doubtful : Returned(x) =>
        LET log == topic[partitionOf[x]] IN
        \E i \in DOMAIN log :
            log[i] = x /\ \A k \in DOMAIN log : log[k] > x => i < k

\* A record behind the committed offset was acknowledged, is in the hands of a
\* running process, or was in the hands of one that died: an ack() settles
\* other records than its own, but none that no process was given, whatever
\* rebalances and the acks of former owners do to the offset.
CommittedWasHandled ==
    \A p \in Partitions : \A i \in 1..committed[p] :
        <<p, i>> \in handled \cup InHand

\* The group steps over nothing: what its reader has passed and not committed
\* is in the hands of the process that is the reader now.
NothingSkipped ==
    \A p \in Partitions : owner[p] # Nobody =>
        \A i \in (committed[p] + 1)..position[p] : <<p, i>> \in inhand[owner[p]]

\* Every partition is, for the group, the commit log the comment in ack()
\* describes.
PL(p) == INSTANCE CommitLog WITH Payloads <- 1..MaxCalls, log <- topic[p],
                                 delivered <- position[p], settled <- committed[p]

ImplementsCommitLog ==
    /\ \A p \in Partitions : PL(p)!Init
    /\ [][\A p \in Partitions : [PL(p)!Next]_(PL(p)!vars)]_vars

CaughtUp(p) == committed[p] = Len(topic[p])

\* Once processes stay alive, every partition is caught up with, whichever died,
\* were expelled or ended of their own ack() before: a record that no commit
\* covered is read again.  Only a partition whose owner cannot acknowledge any
\* more stays behind, because the owner goes on polling and keeps it.  (Storage's
\* processes may kill each other for ever: each that dies and comes back takes a
\* partition from another, whose ack() then has nothing new to commit.)
EveryCommitted ==
    <>[](subscribed = Consumers)
        => \A p \in Partitions : []<>(CaughtUp(p) \/ owner[p] \in mute)
=============================================================================
