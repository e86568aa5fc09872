---------------------------- MODULE KafkaStreams ----------------------------
(***************************************************************************)
(* KafkaBroker (src/streaming/kafka_backend.py): one producer calling      *)
(* publish() and the consumers of one group calling consume() and ack() on *)
(* one topic, together with what confluent_kafka and the Kafka brokers do  *)
(* with the calls.                                                         *)
(*                                                                         *)
(* A payload is the number of the publish() call that sent it.  Its key is *)
(* its frame_id or event_id, a fresh uuid, so that they fall on the topic's *)
(* partitions in any way.  A record is <<partition, offset>>, offsets      *)
(* counted from 1.                                                         *)
(*                                                                         *)
(* The producer is not idempotent: a request that was sent again may have  *)
(* been executed, or may still be executed later; it is a `stray'.  The    *)
(* consumers use the eager rebalancing that is confluent_kafka's default:  *)
(* all partitions are taken away and given out anew.                       *)
(*                                                                         *)
(* The group is that of the inference workers, where the batcher's thread  *)
(* calls ack() while the process goes on consuming, or that of storage,    *)
(* where one loop does both.                                               *)
(***************************************************************************)
EXTENDS Naturals, Sequences, FiniteSets

CONSTANTS Partitions,
          Consumers,
          Nobody,         \* owner of a partition without a live consumer
          MaxCalls,       \* bound: publish() calls
          KeyHashes,      \* bound: the ways the keys fall on the partitions
          AckThreads,     \* which groups are looked at: TRUE for the workers',
                          \* FALSE for that of storage
          MaxFaults       \* bound: requests sent again, crashes, exceptions, and
                          \* rebalances without a change of members together

ASSUME KafkaAssumption ==
    /\ MaxCalls \in Nat /\ MaxFaults \in Nat
    /\ KeyHashes \subseteq [1..MaxCalls -> Partitions]
    /\ AckThreads \subseteq BOOLEAN
    /\ Nobody \notin Consumers

VARIABLES
    partitionOf,\* the partition of each call's key
    topic,      \* topic[p]: the payloads of partition p, in order
    outbox,     \* payloads in the producer's local queue
    stray,      \* payloads in requests that nobody waits for any more
    calls,      \* publish() calls begun
    flushing,   \* whether the last of them is still in flush()
    doubtful,   \* history: payloads not known to be stored when their
                \* publish() returned
    owner,      \* owner[p]: the consumer p is assigned to
    position,   \* position[p]: the last record its owner was given
    committed,  \* committed[p]: the group's committed offset
    subscribed, \* the consumers with the group in their _known_groups
    threaded,   \* whether a thread of its own calls ack()
    mute,       \* running processes whose acknowledging thread has ended
    acking,     \* processes without such a thread that are between two ack()
    inhand,     \* inhand[c]: records consume() gave c's running process and
                \* that it has not acknowledged
    handled,    \* history: records acknowledged or in hand of a process that died
    faults      \* counter for the bound

producerVars == <<partitionOf, outbox, stray, calls, flushing, doubtful>>
groupVars == <<owner, position, committed>>
processVars == <<subscribed, threaded, mute, acking, inhand, handled>>
vars == <<topic, producerVars, groupVars, processVars, faults>>

InHand == UNION {inhand[c] : c \in Consumers}

Init ==
    /\ partitionOf \in KeyHashes
    /\ topic = [p \in Partitions |-> << >>]
    /\ outbox = {} /\ stray = {}
    /\ calls = 0 /\ flushing = FALSE
    /\ doubtful = {}
    /\ owner = [p \in Partitions |-> Nobody]
    /\ position = [p \in Partitions |-> 0]
    /\ committed = [p \in Partitions |-> 0]     \* auto.offset.reset: earliest
    /\ subscribed = {}
    /\ threaded \in AckThreads
    /\ mute = {}
    /\ acking = {}
    /\ inhand = [c \in Consumers |-> {}]
    /\ handled = {}
    /\ faults = 0

-----------------------------------------------------------------------------
(* publish(): produce(), then flush() for a limited time.                  *)

Produce ==
    /\ ~flushing
    /\ calls < MaxCalls
    /\ calls' = calls + 1
    /\ outbox' = outbox \cup {calls + 1}
    /\ flushing' = TRUE
    /\ UNCHANGED <<topic, partitionOf, stray, doubtful, groupVars, processVars,
                   faults>>

Stored(x) ==
    /\ topic' = [topic EXCEPT ![partitionOf[x]] = Append(@, x)]
    /\ UNCHANGED partitionOf

\* The request of x is executed and answered.
Deliver(x) ==
    /\ x \in outbox
    /\ Stored(x)
    /\ outbox' = outbox \ {x}
    /\ UNCHANGED <<stray, calls, flushing, doubtful, groupVars, processVars,
                   faults>>

\* The request of x is not answered: it will be sent again.
Resend(x) ==
    /\ x \in outbox
    /\ faults < MaxFaults
    /\ faults' = faults + 1
    /\ stray' = stray \cup {x}
    /\ UNCHANGED <<topic, partitionOf, outbox, calls, flushing, doubtful,
                   groupVars, processVars>>

LateDeliver(x) ==
    /\ x \in stray
    /\ Stored(x)
    /\ stray' = stray \ {x}
    /\ UNCHANGED <<outbox, calls, flushing, doubtful, groupVars, processVars,
                   faults>>

\* The delivery of x failed for good.  publish() passes no callback, so that
\* nobody hears of it.
DeliveryFails(x) ==
    /\ x \in outbox
    /\ outbox' = outbox \ {x}
    /\ doubtful' = doubtful \cup {x}
    /\ UNCHANGED <<topic, partitionOf, stray, calls, flushing, groupVars,
                   processVars, faults>>

\* Mutant: publish() without flush().
NoFlush ==
    /\ flushing
    /\ flushing' = FALSE
    /\ UNCHANGED <<topic, partitionOf, outbox, stray, calls, doubtful,
                   groupVars, processVars, faults>>

\* flush() returns: the local queue is empty, or its time is up.  Its answer,
\* the number of payloads still queued, is ignored.
FlushReturns ==
    /\ flushing
    /\ flushing' = FALSE
    /\ doubtful' = doubtful \cup outbox
    /\ UNCHANGED <<topic, partitionOf, outbox, stray, calls, groupVars,
                   processVars, faults>>

-----------------------------------------------------------------------------
(* consume() and ack().                                                    *)

\* ensure_group() of a new process: a Consumer, and subscribe().
Subscribe(c) ==
    /\ c \notin subscribed
    /\ subscribed' = subscribed \cup {c}
    /\ UNCHANGED <<topic, producerVars, groupVars, threaded, mute, acking, inhand,
                   handled, faults>>

Share(a, c) == Cardinality({p \in Partitions : a[p] = c})

\* Every assignor shares out the partitions of one topic evenly.
Balanced ==
    {a \in [Partitions -> subscribed] :
        \A c, d \in subscribed : Share(a, c) <= Share(a, d) + 1}

\* Mutant: the new owner goes on where the old one was.
ResumeAtPosition == position

\* Where an assigned partition is read from.
ResumeAt == committed

Assign ==
    /\ owner' \in Balanced
    /\ position' = ResumeAt
    /\ UNCHANGED <<topic, producerVars, committed, processVars>>

\* A member joined or the session of a dead one ended.
Rebalance ==
    /\ owner \notin Balanced
    /\ Assign
    /\ UNCHANGED faults

\* A member was thought dead (no heartbeat, or no consume() for longer than
\* max.poll.interval.ms) and has joined again.
Expel ==
    /\ faults < MaxFaults
    /\ faults' = faults + 1
    /\ Assign

\* consume() gives c the next record of one of its partitions.  A call is up
\* to `count' of these steps; the other thread's ack() may come between them, and
\* storage calls it again when the records of the last call are acknowledged.
Consume(c) ==
    /\ c \in subscribed \ acking
    /\ \E p \in Partitions :
          /\ owner[p] = c
          /\ position[p] < Len(topic[p])
          /\ position' = [position EXCEPT ![p] = @ + 1]
          /\ inhand' = [inhand EXCEPT ![c] = @ \cup {<<p, position[p] + 1>>}]
    /\ UNCHANGED <<topic, producerVars, owner, committed, subscribed, threaded, mute,
                   acking, handled, faults>>

\* Mutants: the end of the partition is committed, or the one message.
CommitEnd(c, r) ==
    [p \in Partitions |-> IF owner[p] = c THEN Len(topic[p]) ELSE committed[p]]
CommitMessage(c, r) == [committed EXCEPT ![r[1]] = r[2]]

\* What commit() without arguments commits for c's ack() of r: its position on
\* all partitions it is assigned.
CommittedBy(c, r) ==
    [p \in Partitions |-> IF owner[p] = c THEN position[p] ELSE committed[p]]

\* Its position on all of them is committed already.
NothingNew(c) == \A p \in Partitions : owner[p] = c => position[p] = committed[p]

Ack(c) ==
    /\ c \notin mute
    /\ ~NothingNew(c)
    /\ \E r \in inhand[c] :
          /\ committed' = CommittedBy(c, r)
          /\ inhand' = [inhand EXCEPT ![c] = @ \ {r}]
          /\ handled' = handled \cup {r}
    /\ acking' = IF threaded \/ inhand'[c] = {} THEN acking \ {c} ELSE acking \cup {c}
    /\ UNCHANGED <<topic, producerVars, owner, position, subscribed, threaded, mute,
                   faults>>

\* Mutant: the session of a dead consumer never ends.
NotReleased(c) == owner

Released(c) == [p \in Partitions |-> IF owner[p] = c THEN Nobody ELSE owner[p]]

Dies(c) ==
    /\ subscribed' = subscribed \ {c}
    /\ owner' = Released(c)
    /\ mute' = mute \ {c}
    /\ acking' = acking \ {c}
    /\ handled' = handled \cup inhand[c]
    /\ inhand' = [inhand EXCEPT ![c] = {}]

\* What an exception does in the thread that calls ack(): it ends the batcher's
\* thread, and the process goes on consuming and keeps its partitions; or it
\* ends the loop of storage, and with it the process.
ThreadEnds(c) ==
    \/ /\ threaded
       /\ mute' = mute \cup {c}
       /\ UNCHANGED <<owner, subscribed, acking, inhand, handled>>
    \/ ~threaded /\ Dies(c)

\* commit() raises _NO_OFFSET when there is nothing new to commit, as for the
\* second message of a batch that was consumed before the first is acknowledged.
AckRaises(c) ==
    /\ c \notin mute
    /\ inhand[c] # {}
    /\ NothingNew(c)
    /\ ThreadEnds(c)
    /\ UNCHANGED <<topic, producerVars, position, committed, threaded, faults>>

\* Any other exception in that thread, a refused commit among them.
ThreadFails(c) ==
    /\ c \in subscribed \ mute
    /\ faults < MaxFaults
    /\ faults' = faults + 1
    /\ ThreadEnds(c)
    /\ UNCHANGED <<topic, producerVars, position, committed, threaded>>

\* The process dies, of its own or of an exception of consume().
Crash(c) ==
    /\ c \in subscribed
    /\ faults < MaxFaults
    /\ faults' = faults + 1
    /\ Dies(c)
    /\ UNCHANGED <<topic, producerVars, position, committed, threaded>>

-----------------------------------------------------------------------------
ProducerStep ==
    \/ Produce
    \/ FlushReturns
    \/ \E x \in outbox : Deliver(x) \/ Resend(x) \/ DeliveryFails(x)
    \/ \E x \in stray : LateDeliver(x)

ConsumerStep(c) ==
    \/ Subscribe(c) \/ Consume(c)
    \/ Ack(c) \/ AckRaises(c)
    \/ ThreadFails(c) \/ Crash(c)

Next ==
    \/ ProducerStep
    \/ \E c \in Consumers : ConsumerStep(c)
    \/ Rebalance
    \/ Expel

Spec == Init /\ [][Next]_vars

\* The consumers' loops run, processes that died are started again, ack() is
\* called for what was handled, whether it raises or not, and the group's
\* coordinator notices who comes and goes.  Nobody starts a thread again that
\* has ended.  Producers and faults promise nothing.
Fairness ==
    /\ WF_vars(Rebalance)
    /\ \A c \in Consumers :
          WF_vars(Subscribe(c)) /\ WF_vars(Consume(c)) /\ WF_vars(Ack(c) \/ AckRaises(c))

FairSpec == Spec /\ Fairness
=============================================================================
