------------------------------ MODULE Detector ------------------------------
(***************************************************************************)
(* OnnxYoloDetector (src/inference/detector.py) after the network has      *)
(* answered: the confidence filter of _decode_yolo_output() and the loop   *)
(* of _nms() over what it leaves, one image at a time.                     *)
(*                                                                         *)
(* A candidate has a box with corners at integers and, in each image, the  *)
(* score of its best class in percent.  Scaling a box to the image's pixels *)
(* changes no overlap and is left out.  Candidates of the same score come  *)
(* in any order, as argsort() does not say.                                *)
(***************************************************************************)
EXTENDS Integers, Sequences

CONSTANTS Candidates,   \* names of the candidates of the network
          BoxOf,        \* BoxOf[c]: its box [x1, y1, x2, y2]
          Scores,       \* bound: the scores that occur
          MinScore,     \* DEFAULT_CONFIDENCE_THRESHOLD
          NmsIou        \* DEFAULT_IOU_NMS_THRESHOLD

\* No box has a negative width or height.
Boxes ==
    {b \in [x1 : Int, y1 : Int, x2 : Int, y2 : Int] : b.x1 <= b.x2 /\ b.y1 <= b.y2}

ASSUME DetectorAssumption ==
    /\ BoxOf \in [Candidates -> Boxes]
    /\ Scores \subseteq Nat
    /\ MinScore \in Nat /\ NmsIou \in Nat

VARIABLES
    score,      \* the score of every candidate the filter let pass
    remaining,  \* the candidates in `order'
    kept        \* the list `keep'

detectorVars == <<score, remaining, kept>>

-----------------------------------------------------------------------------
(* _iou_xyxy(), and iou_matrix() of the tracker.                           *)

Lower(m, n) == IF m < n THEN m ELSE n
Upper(m, n) == IF m < n THEN n ELSE m

Area(a) == (a.x2 - a.x1) * (a.y2 - a.y1)

Intersection(a, b) ==
    Upper(0, Lower(a.x2, b.x2) - Upper(a.x1, b.x1))
      * Upper(0, Lower(a.y2, b.y2) - Upper(a.y1, b.y1))

UnionArea(a, b) == Area(a) + Area(b) - Intersection(a, b)

\* In percent; 0 where the union is empty.
Iou(a, b) ==
    IF UnionArea(a, b) > 0 THEN (100 * Intersection(a, b)) \div UnionArea(a, b) ELSE 0

-----------------------------------------------------------------------------
(* _nms().                                                                 *)

\* ~(ious <= iou_threshold), exactly.
Suppresses(c, d) ==
    LET a == BoxOf[c] b == BoxOf[d] IN
    UnionArea(a, b) > 0 /\ 100 * Intersection(a, b) > NmsIou * UnionArea(a, b)

DetectorInit ==
    /\ score = [c \in {} |-> 0]
    /\ remaining = {}
    /\ kept = << >>

\* The network answers raw: what is below the threshold is not looked at.
Decode(raw) ==
    LET found == {c \in Candidates : raw[c] >= MinScore} IN
    /\ score' = [c \in found |-> raw[c]]
    /\ remaining' = found
    /\ kept' = << >>

\* Mutants: the order of argsort() without its reversal; the intersection not
\* subtracted from the union.
IsWorst(c) == \A d \in remaining : score[c] <= score[d]
SurvivesBySum(c, d) ==
    100 * Intersection(BoxOf[c], BoxOf[d]) <= NmsIou * (Area(BoxOf[c]) + Area(BoxOf[d]))

IsBestLeft(c) == \A d \in remaining : score[d] <= score[c]
SurvivesNms(c, d) == ~Suppresses(c, d)

\* One turn of the loop: the best candidate left is kept, and what overlaps it
\* too much is not looked at again.
KeepNext ==
    \E c \in remaining :
        /\ IsBestLeft(c)
        /\ kept' = Append(kept, c)
        /\ remaining' = {d \in remaining \ {c} : SurvivesNms(c, d)}
        /\ UNCHANGED score

DetectorNext ==
    \/ remaining = {} /\ \E raw \in [Candidates -> Scores] : Decode(raw)
    \/ KeepNext

DetectorSpec == DetectorInit /\ [][DetectorNext]_detectorVars
=============================================================================
