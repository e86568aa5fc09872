------------------------ MODULE RtspReaderProperties ------------------------
(***************************************************************************)
(* What RtspFrameReader must guarantee.                                    *)
(***************************************************************************)
EXTENDS RtspReader

\* Every variable stays in its domain; last_emitted_at is set with the first
\* frame, and the reader sleeps only while it has no capture.
TypeOK ==
    /\ camera \in {"up", "down", "silent"}
    /\ capture \in BOOLEAN
    /\ attempt \in 0..MaxAttempt
    /\ since \in {NoFrame} \cup 0..Interval
    /\ since = NoFrame <=> number = 0
    /\ number \in 0..MaxFrames
    /\ pc \in {"loop", "sleeping", "yielded"}
    /\ pc = "sleeping" => ~capture
    /\ left \in 0..MaxDelay
    /\ failures \in 0..(MaxAttempt + 1)
    /\ slept \in 0..MaxSlept
    /\ elapsed \in 0..MaxElapsed
    /\ fruitless \in 0..MaxFruitless

\* However often the connection was lost and made again: since the first frame,
\* no more frames came than the cap allows.
RateCap == number > 0 => (number - 1) * Interval <= elapsed

\* The sum of the first n delays: they double from BaseDelay up to MaxDelay.
DelaySum[n \in Nat] == IF n = 0 THEN 0 ELSE DelaySum[n - 1] + Delay(n - 1)

\* "capped by exponential backoff": n connects in a row that fail are n times
\* longer and longer sleeps, and none is missed.
BackoffPaces == pc = "loop" => slept >= DelaySum[failures]

\* The camera "must not ... silently stop producing frames forever": when it is
\* reachable from some time on, frames come, whatever was before.
FramesAgain == <>[](camera = "up") => <>(number = MaxFrames)

\* What the docstring of the class says, and the code does not do: "a read
\* failure [is] a signal to reconnect, capped by exponential backoff so a
\* genuinely dead camera does not spin the CPU" (src/ingestion/rtsp_reader.py:41-43):
\* there is a pause before the third try in a row that fails.
NoSpin == fruitless < MaxFruitless
=============================================================================
