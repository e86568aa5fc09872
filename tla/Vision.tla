------------------------------- MODULE Vision -------------------------------
(***************************************************************************)
(* The frames of one camera on one inference worker, as _process_batch()   *)
(* (src/inference/worker.py) sees them: the detector, then the tracker.    *)
(*                                                                         *)
(* Where a track's Kalman filter predicts its box is left open: anywhere   *)
(* in Predictions.  Its overlaps with the detections are those of the      *)
(* boxes.                                                                  *)
(***************************************************************************)
EXTENDS ByteTrackerProperties, DetectorProperties

CONSTANTS Predictions,  \* bound: the boxes that are predicted
          HighScore,    \* TRACK_HIGH_CONF_THRESHOLD
          LowScore      \* TRACK_LOW_CONF_THRESHOLD

ASSUME VisionAssumption ==
    /\ Candidates = Detections
    /\ Predictions \subseteq Boxes
    /\ HighScore \in Nat /\ LowScore \in Nat
    /\ Ious = 0..100

VARIABLE phase   \* "detect" or "track": what the next frame, or this one, needs

visionVars == <<vars, detectorVars, phase>>

VisionInit == Init /\ DetectorInit /\ phase = "detect"

\* detect_batch() begins an image.
Detect ==
    /\ phase = "detect"
    /\ frame < MaxFrames
    /\ \E raw \in [Candidates -> Scores] : Decode(raw)
    /\ phase' = "track"
    /\ UNCHANGED vars

Suppress ==
    /\ phase = "track"
    /\ KeepNext
    /\ UNCHANGED <<vars, phase>>

High == {c \in Kept : HighScore <= score[c]}
Low == {c \in Kept : LowScore <= score[c] /\ score[c] < HighScore}

Overlap == [b \in Predictions |-> [d \in Candidates |-> Iou(b, BoxOf[d])]]

\* All candidates are decided: update() of the camera's tracker.
Track ==
    /\ phase = "track"
    /\ remaining = {}
    /\ \E predicted \in [Active -> Predictions] :
          Update(High, Low, [t \in Active |->
                               [d \in High \cup Low |-> Overlap[predicted[t]][d]]])
    /\ phase' = "detect"
    /\ UNCHANGED detectorVars

VisionNext == Detect \/ Suppress \/ Track

VisionSpec == VisionInit /\ [][VisionNext]_visionVars

\* After a frame exactly the tracks that were not missed have a detection, and
\* these detections are of different objects: two tracks are never fed, or
\* begun, by the same detection, nor by two that overlap by more than
\* non-maximum suppression allows.
OneObjectOneTrack ==
    phase = "detect" =>
        /\ \A t \in DOMAIN tracks : tracks[t].since = 0 <=> t \in DOMAIN source
        /\ \A t, u \in DOMAIN source : t # u =>
              source[t] # source[u] /\ ~Suppresses(source[t], source[u])
=============================================================================
