----------------------------- MODULE RtspReader -----------------------------
(***************************************************************************)
(* RtspFrameReader (src/ingestion/rtsp_reader.py): frames() of one camera, *)
(* its reconnects, its backoff and its frame rate cap.                     *)
(*                                                                         *)
(* The camera is the environment: it may be unreachable ("down"), accept   *)
(* connections and deliver nothing ("silent": a stream that ends at once),  *)
(* or be "up".  Time is discrete; it passes while the reader sleeps, while *)
(* cv2 connects or reads, and while the caller of frames() has the frame.  *)
(*                                                                         *)
(* Counters that grow without bound in the code stop growing where nothing *)
(* depends on their value any more.                                        *)
(***************************************************************************)
EXTENDS Integers

CONSTANTS Interval,     \* _min_frame_interval_s
          BaseDelay,    \* RTSP_RECONNECT_BACKOFF_BASE_SECONDS
          MaxDelay,     \* RTSP_RECONNECT_BACKOFF_MAX_SECONDS
          MaxAttempt,   \* bound: reconnect_attempt, where MaxDelay is reached
          MaxFrames     \* bound: frames yielded

ASSUME ReaderAssumption ==
    /\ Interval \in Nat \ {0}
    /\ BaseDelay \in Nat \ {0} /\ MaxDelay \in Nat \ {0}
    /\ MaxAttempt \in Nat /\ BaseDelay * 2^MaxAttempt >= MaxDelay
    /\ MaxFrames \in Nat

VARIABLES
    camera,    \* what the camera does at the moment
    capture,   \* whether _capture is a VideoCapture
    attempt,   \* reconnect_attempt
    since,     \* time since last_emitted_at, or NoFrame for None
    number,    \* _sequence_number
    pc,        \* the head of the loop, "sleeping", or "yielded"
    left,      \* what is left of the sleep
    failures,  \* history: failed connects since the last successful one
    slept,     \* history: time slept since then
    elapsed,   \* history: time since the first frame
    fruitless  \* history: failed connects and reads since time last passed
               \* or a frame came

reader == <<capture, attempt, since, number, pc, left>>
history == <<failures, slept, elapsed, fruitless>>
vars == <<camera, reader, history>>

NoFrame == -1
AtMost(x, bound) == IF x < bound THEN x ELSE bound
Delay(n) == AtMost(BaseDelay * 2^n, MaxDelay)

\* bounds of the histories
MaxElapsed == MaxFrames * Interval
MaxSlept == (MaxAttempt + 1) * MaxDelay
MaxFruitless == 3

Init ==
    /\ camera \in {"up", "down", "silent"}
    /\ capture = FALSE
    /\ attempt = 0
    /\ since = NoFrame
    /\ number = 0
    /\ pc = "loop"
    /\ left = 0
    /\ failures = 0 /\ slept = 0 /\ elapsed = 0 /\ fruitless = 0

\* _connect() succeeds.
ConnectOk ==
    /\ pc = "loop"
    /\ ~capture
    /\ camera # "down"
    /\ capture' = TRUE
    /\ attempt' = 0
    /\ failures' = 0 /\ slept' = 0
    /\ UNCHANGED <<camera, since, number, pc, left, elapsed, fruitless>>

\* _connect() raises: sleep for the backoff.
ConnectFails ==
    /\ pc = "loop"
    /\ ~capture
    /\ camera = "down"
    /\ pc' = "sleeping"
    /\ left' = Delay(attempt)
    /\ failures' = AtMost(failures + 1, MaxAttempt + 1)
    /\ fruitless' = AtMost(fruitless + 1, MaxFruitless)
    /\ UNCHANGED <<camera, capture, attempt, since, number, slept, elapsed>>

\* Mutant: the attempt is not counted.
SameAttempt == attempt
NextAttempt == AtMost(attempt + 1, MaxAttempt)

Wake ==
    /\ pc = "sleeping"
    /\ left = 0
    /\ attempt' = NextAttempt
    /\ pc' = "loop"
    /\ UNCHANGED <<camera, capture, since, number, left, history>>

\* Mutant: a failed read ends the generator, as "while cap.read()" would.
GivesUp == pc' = "ended"
TriesAgain == UNCHANGED pc

\* read() answers not ok: release, and on to the next connect at once.
ReadFails ==
    /\ pc = "loop"
    /\ capture
    /\ camera # "up"
    /\ capture' = FALSE
    /\ TriesAgain
    /\ fruitless' = AtMost(fruitless + 1, MaxFruitless)
    /\ UNCHANGED <<camera, attempt, since, number, left, failures, slept, elapsed>>

\* Mutant: last_emitted_at is not set.
SameClock == since
EmittedNow == 0

\* A frame that is not too early.  An earlier one is dropped: no step.
ReadYields ==
    /\ pc = "loop" /\ capture /\ camera = "up"
    /\ number < MaxFrames
    /\ since = NoFrame \/ since >= Interval
    /\ since' = EmittedNow
    /\ number' = number + 1
    /\ pc' = "yielded"
    /\ fruitless' = 0
    /\ UNCHANGED <<camera, capture, attempt, left, failures, slept, elapsed>>

\* The caller asks for the next frame, or has called close() before that.
Resume ==
    /\ pc = "yielded"
    /\ pc' = "loop"
    /\ UNCHANGED <<camera, capture, attempt, since, number, left, history>>

Close ==
    /\ pc = "yielded"
    /\ capture
    /\ capture' = FALSE
    /\ UNCHANGED <<camera, attempt, since, number, pc, left, history>>

CameraChanges ==
    /\ camera' \in {"up", "down", "silent"} \ {camera}
    /\ UNCHANGED <<reader, history>>

\* One unit of time.
Tick ==
    /\ pc = "sleeping" => left > 0
    /\ left' = IF pc = "sleeping" THEN left - 1 ELSE left
    /\ since' = IF since = NoFrame THEN NoFrame ELSE AtMost(since + 1, Interval)
    /\ slept' = IF pc = "sleeping" THEN AtMost(slept + 1, MaxSlept) ELSE slept
    /\ elapsed' = IF number = 0 THEN 0 ELSE AtMost(elapsed + 1, MaxElapsed)
    /\ fruitless' = 0
    /\ UNCHANGED <<camera, capture, attempt, number, pc, failures>>

Loop == ConnectOk \/ ConnectFails \/ Wake \/ ReadFails \/ ReadYields \/ Resume

Next == Loop \/ Close \/ CameraChanges \/ Tick

Spec == Init /\ [][Next]_vars

\* The thread of the camera is scheduled and time passes.
FairSpec == Spec /\ WF_vars(Loop) /\ WF_vars(Tick)
=============================================================================
