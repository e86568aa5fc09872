----------------------------- MODULE CommitLog -----------------------------
(***************************************************************************)
(* The "coarser guarantee" of the Kafka backend, as the comment in ack()   *)
(* (src/streaming/kafka_backend.py:82-84) has it: one partition, read by   *)
(* one consumer group.  Records are handed out one after the other; a      *)
(* commit settles everything handed out, not the one record ack() named;   *)
(* whatever is handed out and not settled may be handed out once more.     *)
(***************************************************************************)
EXTENDS Naturals, Sequences

CONSTANT Payloads

VARIABLES log,        \* the records, in order
          delivered,  \* records 1..delivered have been handed out
          settled     \* records 1..settled are committed

vars == <<log, delivered, settled>>

Init ==
    /\ log = << >>
    /\ delivered = 0
    /\ settled = 0

Publish(x) ==
    /\ log' = Append(log, x)
    /\ UNCHANGED <<delivered, settled>>

Deliver ==
    /\ delivered < Len(log)
    /\ delivered' = delivered + 1
    /\ UNCHANGED <<log, settled>>

Commit ==
    /\ settled' = delivered
    /\ UNCHANGED <<log, delivered>>

Rewind ==
    /\ delivered' = settled
    /\ UNCHANGED <<log, settled>>

Next == (\E x \in Payloads : Publish(x)) \/ Deliver \/ Commit \/ Rewind

Spec == Init /\ [][Next]_vars
=============================================================================
