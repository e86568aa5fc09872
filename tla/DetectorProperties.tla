------------------------- MODULE DetectorProperties -------------------------
(***************************************************************************)
(* What the post-processing of OnnxYoloDetector must guarantee.            *)
(***************************************************************************)
EXTENDS Detector

Kept == {kept[i] : i \in DOMAIN kept}

\* Every variable stays in its domain.
DetectorTypeOK ==
    /\ DOMAIN score \subseteq Candidates
    /\ \A c \in DOMAIN score : score[c] \in Scores
    /\ remaining \subseteq DOMAIN score
    /\ kept \in Seq(DOMAIN score)

\* No two boxes that are kept overlap by more than the threshold, and no box
\* is kept twice, however the scores are distributed and tied.
KeptApart ==
    \A i, j \in DOMAIN kept :
        i # j => kept[i] # kept[j] /\ ~Suppresses(kept[i], kept[j])

\* Nothing disappears without a reason: a candidate that passed the filter is
\* still looked at, is kept, or overlaps too much with one that is kept and
\* has at least its score.
SuppressedForReason ==
    \A d \in DOMAIN score \ (remaining \cup Kept) :
        \E c \in Kept : Suppresses(c, d) /\ score[d] <= score[c]

\* What is looked at comes after and apart from everything kept.
Ahead ==
    \A i \in DOMAIN kept, d \in remaining :
        /\ kept[i] # d
        /\ ~Suppresses(kept[i], d)
        /\ score[d] <= score[kept[i]]
=============================================================================
