------------------------------ MODULE MCVision ------------------------------
(* TLC instances of Vision: three candidates in a row, each of which       *)
(* overlaps its neighbours by 48 %, so that the outer two may both be      *)
(* kept. Tracks are predicted on one of these, or where stage 1 answers    *)
(* best by matching neither of two tracks: Between overlaps the first      *)
(* candidate by 56 % and the last by 29 %, Before the first by 29 % and    *)
(* the last not at all.                                                    *)
EXTENDS Vision

CONSTANTS d1, d2, d3

At(x, y) == [x1 |-> x, y1 |-> y, x2 |-> x + 20, y2 |-> y + 10]

Row == [d \in Detections |->
            CASE d = d1 -> At(0, 0) [] d = d2 -> At(7, 0) [] d = d3 -> At(14, 0)]

Between == At(4, -1)
Before == At(-11, 0)
Places == {At(0, 0), Between, Before, At(14, 0)}
Percent == 0..100
=============================================================================

