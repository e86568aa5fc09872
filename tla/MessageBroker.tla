--------------------------- MODULE MessageBroker ---------------------------
(***************************************************************************)
(* What src/streaming/base.py promises of one stream read by one consumer  *)
(* group: a "durable, ordered, at-least-once" log.  publish() appends at   *)
(* the tail, consume() hands the oldest entries nobody in the group has    *)
(* seen to one consumer, ack() settles an entry, and an entry that was     *)
(* handed out and never settled is handed to another consumer "after its   *)
(* visibility timeout".  Time is abstracted: the timeout may expire        *)
(* whenever an entry is pending.                                           *)
(*                                                                         *)
(* Entries are named by their position in the log, 1, 2, ...; a payload is *)
(* any value of Payloads.                                                  *)
(***************************************************************************)
EXTENDS Naturals, Sequences

CONSTANTS Payloads,     \* what may be published
          Consumers     \* consumer names of the group

VARIABLES log,          \* everything published, in order
          pending,      \* pending[c]: entries handed to c and not settled
          acked         \* entries that were acknowledged

vars == <<log, pending, acked>>

Entries == DOMAIN log
Delivered == (UNION {pending[c] : c \in Consumers}) \cup acked
Fresh == Entries \ Delivered

Init ==
    /\ log = << >>
    /\ pending = [c \in Consumers |-> {}]
    /\ acked = {}

Publish(x) ==
    /\ log' = Append(log, x)
    /\ UNCHANGED <<pending, acked>>

\* A nonempty prefix of the fresh entries goes to c.
IsOldest(batch) ==
    /\ batch # {}
    /\ batch \subseteq Fresh
    /\ \A i \in batch, j \in Fresh \ batch : i < j

Deliver(c, batch) ==
    /\ IsOldest(batch)
    /\ pending' = [pending EXCEPT ![c] = @ \cup batch]
    /\ UNCHANGED <<log, acked>>

\* The visibility timeout of c's entry i expired: d gets it.
Redeliver(c, d, i) ==
    /\ i \in pending[c]
    /\ pending' = [pending EXCEPT ![c] = @ \ {i}, ![d] = @ \cup {i}]
    /\ UNCHANGED <<log, acked>>

Ack(c, i) ==
    /\ i \in pending[c]
    /\ pending' = [pending EXCEPT ![c] = @ \ {i}]
    /\ acked' = acked \cup {i}
    /\ UNCHANGED log

Next ==
    \/ \E x \in Payloads : Publish(x)
    \/ \E c \in Consumers :
          \/ \E batch \in SUBSET Fresh : Deliver(c, batch)
          \/ \E i \in pending[c] : Ack(c, i)
    \/ \E c, d \in Consumers :
          c # d /\ \E i \in pending[c] : Redeliver(c, d, i)

Spec == Init /\ [][Next]_vars
=============================================================================
