---------------------------- MODULE RedisStreams ----------------------------
(***************************************************************************)
(* RedisStreamsBroker (src/streaming/redis_streams.py): producers calling  *)
(* publish() and the consumers of one group calling consume() and ack() on *)
(* one stream, together with what the Redis server does with the commands. *)
(*                                                                         *)
(* A stream entry is named by its position in `log'; the server's ids grow *)
(* with it.  A payload is the call that published it, <<producer, n>>: the *)
(* n-th publish() of that producer.  A producer is one thread: it makes one *)
(* call at a time and dies with the exception of a call that raises (no    *)
(* caller catches it).  A consumer is one process under one consumer name. *)
(*                                                                         *)
(* XADD is not idempotent.  When an attempt ends in a connection error the *)
(* command may have been executed, may still be executed later, or never:  *)
(* it goes to `limbo', from where it may land at any time.                 *)
(***************************************************************************)
EXTENDS Naturals, Sequences

CONSTANTS Producers,
          Consumers,
          MaxRetries,   \* RetryConstants.MAX_RETRIES
          Count,        \* consume()'s count
          MaxCalls,     \* bound: publish() calls per producer
          MaxCrashes,   \* bound: crashes of consumer processes
          MaxLosses     \* bound: restarts of a Redis without persistence

ASSUME ConstantsAssumption ==
    /\ MaxRetries \in Nat \ {0}
    /\ Count \in Nat \ {0}
    /\ MaxCalls \in Nat
    /\ MaxCrashes \in Nat
    /\ MaxLosses \in Nat

VARIABLES
    log,      \* the payloads appended to the stream since the beginning
    lost,     \* entries 1..lost disappeared with a data loss of the server
    limbo,    \* unanswered XADDs, <<producer, n, attempt>>
    call,     \* call[p]: how far the publish() calls of p have got
    hasGroup, \* whether the consumer group exists on the server
    last,     \* the group's last-delivered id
    pel,      \* pel[c]: the server's pending-entries list of c
    acked,    \* entries removed from a pending list by XACK
    alive,    \* the consumers whose process runs
    known,    \* the consumers with the group in their _known_groups cache
    inhand,   \* inhand[c]: entries consume() returned to c's running process
              \* and c has not acknowledged
    crashes, losses   \* counters for the two bounds

producerVars == <<limbo, call>>
consumerVars == <<alive, known, inhand, crashes>>
serverVars == <<log, lost, hasGroup, last, pel, acked, losses>>
vars == <<producerVars, consumerVars, serverVars>>

Calls == Producers \X (1..MaxCalls)
Entries == DOMAIN log
Pending == UNION {pel[c] : c \in Consumers}

Init ==
    /\ log = << >>
    /\ lost = 0
    /\ limbo = {}
    /\ call = [p \in Producers |-> [n |-> 0, attempt |-> 0, status |-> "idle"]]
    /\ hasGroup = FALSE
    /\ last = 0
    /\ pel = [c \in Consumers |-> {}]
    /\ acked = {}
    /\ alive = {}
    /\ known = {}
    /\ inhand = [c \in Consumers |-> {}]
    /\ crashes = 0
    /\ losses = 0

-----------------------------------------------------------------------------
(* publish(): up to MaxRetries attempts, one XADD each.                    *)

StartPublish(p) ==
    /\ call[p].status = "idle"
    /\ call[p].n < MaxCalls
    /\ call' = [call EXCEPT ![p] =
                  [n |-> @.n + 1, attempt |-> 0, status |-> "trying"]]
    /\ UNCHANGED <<limbo, consumerVars, serverVars>>

\* XADD answered with the new id: publish() returns.
XAddOk(p) ==
    /\ call[p].status = "trying"
    /\ log' = Append(log, <<p, call[p].n>>)
    /\ call' = [call EXCEPT ![p].status = "idle"]
    /\ UNCHANGED <<limbo, consumerVars, lost, hasGroup, last, pel, acked, losses>>

Unanswered(p) == limbo' = limbo \cup {<<p, call[p].n, call[p].attempt>>}

\* Mutants: one attempt too many; a publish() that gives up without raising.
XAddRetriesOnceMore(p) ==
    /\ call[p].status = "trying"
    /\ Unanswered(p)
    /\ \/ /\ call[p].attempt < MaxRetries
          /\ call' = [call EXCEPT ![p].attempt = @ + 1]
       \/ /\ call[p].attempt = MaxRetries
          /\ call' = [call EXCEPT ![p].status = "raised"]
    /\ UNCHANGED <<consumerVars, serverVars>>

XAddGivesUpSilently(p) ==
    /\ call[p].status = "trying"
    /\ Unanswered(p)
    /\ call' = [call EXCEPT ![p].status = "idle"]
    /\ UNCHANGED <<consumerVars, serverVars>>

\* redis.ConnectionError: try again, and raise it after the last attempt.
XAddConnectionError(p) ==
    /\ call[p].status = "trying"
    /\ Unanswered(p)
    /\ \/ /\ call[p].attempt + 1 < MaxRetries
          /\ call' = [call EXCEPT ![p].attempt = @ + 1]
       \/ /\ call[p].attempt + 1 = MaxRetries
          /\ call' = [call EXCEPT ![p].status = "raised"]
    /\ UNCHANGED <<consumerVars, serverVars>>

\* Any other error, a timeout included, is not retried.
XAddOtherError(p) ==
    /\ call[p].status = "trying"
    /\ Unanswered(p)
    /\ call' = [call EXCEPT ![p].status = "raised"]
    /\ UNCHANGED <<consumerVars, serverVars>>

\* The server executes an XADD whose producer no longer waits for it.
LateXAdd(a) ==
    /\ a \in limbo
    /\ limbo' = limbo \ {a}
    /\ log' = Append(log, <<a[1], a[2]>>)
    /\ UNCHANGED <<call, consumerVars, lost, hasGroup, last, pel, acked, losses>>

-----------------------------------------------------------------------------
(* consume(): ensure_group(), then XREADGROUP with id ">".                 *)

Start(c) ==
    /\ c \notin alive
    /\ alive' = alive \cup {c}
    /\ UNCHANGED <<known, inhand, crashes, producerVars, serverVars>>

\* Mutant: a cache of known groups that outlives the process.
StopKeepsCache(c) ==
    /\ alive' = alive \ {c}
    /\ known' = known
    /\ inhand' = [inhand EXCEPT ![c] = {}]

Stop(c) ==
    /\ alive' = alive \ {c}
    /\ known' = known \ {c}
    /\ inhand' = [inhand EXCEPT ![c] = {}]

\* Mutant: the group created at "$" instead of "0".
EnsureGroupAtEnd(c) ==
    /\ c \in alive \ known
    /\ hasGroup' = TRUE
    /\ last' = IF hasGroup THEN last ELSE Len(log)
    /\ known' = known \cup {c}
    /\ UNCHANGED <<alive, inhand, crashes, producerVars, log, lost, pel, acked, losses>>


\* XGROUP CREATE id=0; a BUSYGROUP answer means the group is there already.
EnsureGroup(c) ==
    /\ c \in alive \ known
    /\ hasGroup' = TRUE
    /\ last' = IF hasGroup THEN last ELSE 0
    /\ known' = known \cup {c}
    /\ UNCHANGED <<alive, inhand, crashes, producerVars,
                   log, lost, pel, acked, losses>>

\* What ">" selects: the first Count entries beyond the last delivered id.
Cursor == IF last > lost THEN last ELSE lost
NextBatch == {i \in Entries : Cursor < i /\ i <= Cursor + Count}

\* Mutant: XREADGROUP with NOACK, which leaves nothing pending.
ReadNoAck(c) ==
    /\ c \in alive \cap known
    /\ hasGroup
    /\ NextBatch # {}
    /\ last' = IF Cursor + Count < Len(log) THEN Cursor + Count ELSE Len(log)
    /\ inhand' = [inhand EXCEPT ![c] = @ \cup NextBatch]
    /\ UNCHANGED <<alive, known, crashes, producerVars, log, lost, hasGroup, pel,
                   acked, losses>>

\* Nothing fresh is the empty answer after the block timeout: no step.
Read(c) ==
    /\ c \in alive \cap known
    /\ hasGroup
    /\ NextBatch # {}
    /\ last' = IF Cursor + Count < Len(log) THEN Cursor + Count ELSE Len(log)
    /\ pel' = [pel EXCEPT ![c] = @ \cup NextBatch]
    /\ inhand' = [inhand EXCEPT ![c] = @ \cup NextBatch]
    /\ UNCHANGED <<alive, known, crashes, producerVars,
                   log, lost, hasGroup, acked, losses>>

\* The cached group is gone from the server: NOGROUP is not caught, and the
\* process dies with it.
ReadNoGroup(c) ==
    /\ c \in alive \cap known
    /\ ~hasGroup
    /\ Stop(c)
    /\ UNCHANGED <<crashes, producerVars, serverVars>>

\* Mutant: an ack() that settles everything up to i, as a committed offset does.
AckThrough(c, i) ==
    /\ c \in alive
    /\ i \in inhand[c]
    /\ inhand' = [inhand EXCEPT ![c] = {k \in @ : k > i}]
    /\ pel' = [d \in Consumers |-> {k \in pel[d] : k > i}]
    /\ acked' = acked \cup {k \in Pending : k <= i}
    /\ UNCHANGED <<alive, known, crashes, producerVars,
                   log, lost, hasGroup, last, losses>>

\* XACK; of an entry that is pending nowhere it does nothing.
Ack(c, i) ==
    /\ c \in alive
    /\ i \in inhand[c]
    /\ inhand' = [inhand EXCEPT ![c] = @ \ {i}]
    /\ pel' = [d \in Consumers |-> pel[d] \ {i}]
    /\ acked' = acked \cup ({i} \cap Pending)
    /\ UNCHANGED <<alive, known, crashes, producerVars,
                   log, lost, hasGroup, last, losses>>

\* The process dies, of its own or of an uncaught connection error of any of
\* its commands; a command that was executed but not answered is the command
\* followed by this step.
Crash(c) ==
    /\ c \in alive
    /\ crashes < MaxCrashes
    /\ crashes' = crashes + 1
    /\ Stop(c)
    /\ UNCHANGED <<producerVars, serverVars>>

\* The Redis container is replaced; docker-compose.yml gives it no volume.
\* The stream, the group and the commands in flight are gone.
ServerLoss ==
    /\ losses < MaxLosses
    /\ losses' = losses + 1
    /\ lost' = Len(log)
    /\ limbo' = {}
    /\ hasGroup' = FALSE
    /\ last' = 0
    /\ pel' = [c \in Consumers |-> {}]
    /\ UNCHANGED <<log, acked, call, consumerVars>>

-----------------------------------------------------------------------------
ProducerStep(p) ==
    \/ StartPublish(p)
    \/ XAddOk(p)
    \/ XAddConnectionError(p)
    \/ XAddOtherError(p)

ConsumerStep(c) ==
    \/ Start(c)
    \/ EnsureGroup(c)
    \/ Read(c)
    \/ ReadNoGroup(c)
    \/ \E i \in inhand[c] : Ack(c, i)

Next ==
    \/ \E p \in Producers : ProducerStep(p)
    \/ \E a \in limbo : LateXAdd(a)
    \/ \E c \in Consumers : ConsumerStep(c) \/ Crash(c)
    \/ ServerLoss

Spec == Init /\ [][Next]_vars

\* The poll loops of the consumers never stop by themselves, a dead consumer
\* is started again by the operator, and what a consumer was handed it
\* acknowledges.  Producers and faults promise nothing.
Fairness ==
    \A c \in Consumers :
        /\ WF_vars(Start(c))
        /\ WF_vars(EnsureGroup(c))
        /\ WF_vars(Read(c))
        /\ WF_vars(ReadNoGroup(c))
        /\ WF_vars(\E i \in inhand[c] : Ack(c, i))

FairSpec == Spec /\ Fairness
=============================================================================
