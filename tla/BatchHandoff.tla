---------------------------- MODULE BatchHandoff ----------------------------
(***************************************************************************)
(* What DynamicBatcher (src/inference/batcher.py) promises its caller,     *)
(* without threads, polls and clocks: the items given to submit() reach    *)
(* on_batch in the order of submission, each of them once, in batches of   *)
(* at least one and at most MaxBatch items.                                *)
(***************************************************************************)
EXTENDS Naturals, Sequences

CONSTANTS Items, MaxBatch

VARIABLES submitted,    \* the items given to submit()
          handed        \* the items given to on_batch, all batches in a row

vars == <<submitted, handed>>

Init == submitted = << >> /\ handed = << >>

Submit(x) ==
    /\ submitted' = Append(submitted, x)
    /\ UNCHANGED handed

\* on_batch is called with the next n items.
Hand(n) ==
    /\ Len(handed) + n <= Len(submitted)
    /\ handed' = SubSeq(submitted, 1, Len(handed) + n)
    /\ UNCHANGED submitted

Next ==
    \/ \E x \in Items : Submit(x)
    \/ \E n \in 1..MaxBatch : Hand(n)

Spec == Init /\ [][Next]_vars
=============================================================================
