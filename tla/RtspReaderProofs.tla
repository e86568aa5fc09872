-------------------------- MODULE RtspReaderProofs --------------------------
(***************************************************************************)
(* Proofs, for any interval, delays and bounds, about RtspFrameReader.     *)
(*                                                                         *)
(* RateCap says nothing of the time since the last frame, which is what    *)
(* frames() looks at: with it (RateInv) the cap is inductive, whatever the *)
(* reconnects in between.                                                  *)
(***************************************************************************)
EXTENDS RtspReaderProperties, NaturalsInduction, WellFoundedInduction, TLAPS

-----------------------------------------------------------------------------
(* Arithmetic.                                                             *)

LEMMA Multiples ==
    ASSUME NEW i \in Nat, NEW n \in Nat, NEW m \in Nat
    PROVE  /\ n * i \in Nat
           /\ (n + 1) * i = n * i + i
           /\ n <= m => n * i <= m * i
OBVIOUS

LEMMA AtMostBounds ==
    ASSUME NEW x \in Int, NEW bound \in Int
    PROVE  /\ AtMost(x, bound) \in Int
           /\ AtMost(x, bound) <= x /\ AtMost(x, bound) <= bound
           /\ AtMost(x, bound) = x \/ AtMost(x, bound) = bound
BY DEF AtMost

LEMMA AtMostOfNext ==
    ASSUME NEW bound \in Nat, NEW x \in 0..bound
    PROVE  /\ AtMost(x + 1, bound) \in 0..bound
           /\ AtMost(x + 1, bound) <= x + 1
           /\ AtMost(x + 1, bound) = x + 1 \/ AtMost(x + 1, bound) = bound
BY DEF AtMost

LEMMA MaxElapsedType == MaxElapsed \in Nat
BY ReaderAssumption, Multiples DEF MaxElapsed

-----------------------------------------------------------------------------
(* The frame rate cap.                                                     *)

RateTypes ==
    /\ number \in 0..MaxFrames
    /\ since \in {NoFrame} \cup 0..Interval
    /\ since = NoFrame <=> number = 0
    /\ elapsed \in 0..MaxElapsed

RateInv ==
    /\ RateTypes
    /\ number > 0 => (number - 1) * Interval + since <= elapsed

LEMMA RateInit == Init => RateInv
BY ReaderAssumption, MaxElapsedType DEF Init, RateInv, RateTypes, NoFrame

LEMMA RateYields == RateInv /\ ReadYields => RateInv'
<1> SUFFICES ASSUME RateInv, ReadYields PROVE RateInv'
  OBVIOUS
<1>1. /\ number \in Nat /\ number < MaxFrames /\ number' = number + 1
      /\ since' = 0 /\ elapsed' = elapsed
      /\ since = NoFrame \/ since >= Interval
      /\ MaxFrames \in Nat /\ Interval \in Nat \ {0}
  BY ReaderAssumption DEF ReadYields, EmittedNow, RateInv, RateTypes
<1>2. RateTypes'
  BY <1>1 DEF RateInv, RateTypes, NoFrame
<1>3. CASE number = 0
  BY <1>1, <1>2, <1>3, Multiples DEF RateInv, RateTypes
<1>4. CASE number > 0
  <2>1. since \in 0..Interval /\ since = Interval
    BY <1>1, <1>4 DEF RateInv, RateTypes
  <2>2. (number - 1) * Interval + Interval = number * Interval
    <3>1. number - 1 \in Nat /\ (number - 1) + 1 = number
      BY <1>1, <1>4
    <3> QED
      BY <1>1, <3>1, Multiples
  <2>3. (number' - 1) * Interval = number * Interval /\ number * Interval \in Nat
    BY <1>1, Multiples
  <2>4. (number - 1) * Interval + since <= elapsed /\ elapsed \in Nat
    BY <1>4, MaxElapsedType DEF RateInv, RateTypes
  <2>5. number * Interval <= elapsed
    BY <2>1, <2>2, <2>4
  <2> QED
    BY <1>1, <1>2, <2>3, <2>5 DEF RateInv
<1> QED
  BY <1>1, <1>3, <1>4

LEMMA RateTick == RateInv /\ Tick => RateInv'
<1> SUFFICES ASSUME RateInv, Tick PROVE RateInv'
  OBVIOUS
<1>1. /\ number' = number /\ number \in 0..MaxFrames
      /\ since' = IF since = NoFrame THEN NoFrame ELSE AtMost(since + 1, Interval)
      /\ elapsed' = IF number = 0 THEN 0 ELSE AtMost(elapsed + 1, MaxElapsed)
      /\ MaxFrames \in Nat /\ Interval \in Nat
  BY ReaderAssumption DEF Tick, RateInv, RateTypes
<1>2. /\ since \in {NoFrame} \cup 0..Interval
      /\ since = NoFrame <=> number = 0
      /\ elapsed \in 0..MaxElapsed
  BY DEF RateInv, RateTypes
<1>3. CASE number = 0
  BY <1>1, <1>2, <1>3, MaxElapsedType DEF RateInv, RateTypes
<1>4. CASE number > 0
  <2>1. since \in 0..Interval
    BY <1>2, <1>4
  <2>2. since # NoFrame
    BY <1>2, <1>4
  <2>3. since' = AtMost(since + 1, Interval) /\ elapsed' = AtMost(elapsed + 1, MaxElapsed)
    BY <1>1, <1>4, <2>2
  <2>4. /\ since' \in 0..Interval /\ since' <= since + 1
        /\ elapsed' \in 0..MaxElapsed
        /\ elapsed' = elapsed + 1 \/ elapsed' = MaxElapsed
    <3>1. since' \in 0..Interval /\ since' <= since + 1
      BY <1>1, <2>1, <2>3, AtMostOfNext
    <3>2. elapsed \in 0..MaxElapsed
      BY <1>2
    <3> QED
      BY <2>3, <3>1, <3>2, MaxElapsedType, AtMostOfNext
  <2> DEFINE before == (number - 1) * Interval
  <2>5. before \in Nat /\ before + Interval <= MaxElapsed
    <3>1. number - 1 \in Nat /\ (number - 1) + 1 = number /\ number <= MaxFrames
      BY <1>1, <1>4
    <3>2. before \in Nat /\ before + Interval = number * Interval
      BY <1>1, <3>1, Multiples
    <3>3. number * Interval <= MaxElapsed
      BY <1>1, <3>1, Multiples DEF MaxElapsed
    <3> QED
      BY <3>2, <3>3
  <2>6. before + since <= elapsed
    BY <1>4 DEF RateInv
  <2>7. before' = before
    BY <1>1
  <2> HIDE DEF before
  <2>8. before + since' <= elapsed'
    BY <1>1, <1>2, <2>1, <2>4, <2>5, <2>6, MaxElapsedType
  <2>9. RateTypes'
    BY <1>1, <1>2, <1>4, <2>4 DEF RateTypes, NoFrame
  <2> QED
    BY <2>7, <2>8, <2>9 DEF RateInv, before
<1> QED
  BY <1>1, <1>3, <1>4

LEMMA RateNext == RateInv /\ [Next]_vars => RateInv'
<1> SUFFICES ASSUME RateInv, [Next]_vars PROVE RateInv'
  OBVIOUS
<1>1. CASE UNCHANGED <<number, since, elapsed>>
  BY <1>1 DEF RateInv, RateTypes
<1>2. CASE ReadYields \/ Tick
  BY <1>2, RateYields, RateTick
<1> QED
  BY <1>1, <1>2 DEF Next, Loop, ConnectOk, ConnectFails, Wake, ReadFails, Resume, Close,
                    CameraChanges, vars, reader, history

\* Whatever the camera does and however often it is connected again, frames()
\* yields at most one frame per interval on the whole.
THEOREM RateCapAlways == Spec => []RateCap
<1>1. RateInv => RateCap
  <2> SUFFICES ASSUME RateInv, number > 0 PROVE (number - 1) * Interval <= elapsed
    BY DEF RateCap
  <2>1. since \in Nat /\ number - 1 \in Nat /\ Interval \in Nat /\ elapsed \in Nat
    BY ReaderAssumption, MaxElapsedType DEF RateInv, RateTypes
  <2>2. (number - 1) * Interval \in Nat
    BY <2>1, Multiples
  <2>3. (number - 1) * Interval + since <= elapsed
    BY DEF RateInv
  <2> QED
    BY <2>1, <2>2, <2>3
<1> QED
  BY <1>1, RateInit, RateNext, PTL DEF Spec

-----------------------------------------------------------------------------
(* The sums of the delays: that the recursion of DelaySum defines them.    *)

LEMMA InductionOnNumbers ==
    ASSUME NEW S \in SUBSET Nat, 0 \in S, \A n \in S : n + 1 \in S
    PROVE  S = Nat
<1> DEFINE R == OpToRel(<, Nat)
<1>1. IsWellFoundedOn(R, Nat)
  BY NatLessThanWellFounded, Zenon
<1>2. \A n, m \in Nat : m < n => <<m, n>> \in R
  BY DEF OpToRel
<1> HIDE DEF R
<1>3. SUFFICES ASSUME Nat \ S # {} PROVE FALSE
  OBVIOUS
<1>4. PICK n \in Nat \ S : \A m \in Nat \ S : ~ (<<m, n>> \in R)
  BY <1>1, <1>3, WFMin
<1>5. n - 1 \in Nat \ S /\ n - 1 < n
  BY <1>4
<1> QED
  BY <1>2, <1>4, <1>5

LEMMA DelayType ==
    ASSUME NEW n \in Nat
    PROVE  Delay(n) \in Int /\ Delay(n) <= MaxDelay
<1>1. 2^n \in Int
  OBVIOUS
<1>2. BaseDelay * 2^n \in Int
  BY <1>1, ReaderAssumption
<1> QED
  BY <1>2, ReaderAssumption, AtMostBounds DEF Delay

\* f is the sums of up to n delays.
Sums(f, n) ==
    /\ f \in [0..n -> Int]
    /\ f[0] = 0
    /\ \A i \in 0..n : i < n => f[i + 1] = f[i] + Delay(i)

LEMMA SumsExtend ==
    ASSUME NEW n \in Nat, NEW f, Sums(f, n)
    PROVE  Sums([i \in 0..(n + 1) |-> IF i = n + 1 THEN f[n] + Delay(n) ELSE f[i]], n + 1)
<1> DEFINE g == [i \in 0..(n + 1) |-> IF i = n + 1 THEN f[n] + Delay(n) ELSE f[i]]
<1>1. f \in [0..n -> Int] /\ f[0] = 0 /\ Delay(n) \in Int
  BY DelayType DEF Sums
<1>2. \A i \in 0..n : g[i] = f[i] /\ f[i] \in Int
  BY <1>1
<1>3. g[n + 1] = f[n] + Delay(n) /\ f[n] \in Int
  BY <1>1
<1>4. g \in [0..(n + 1) -> Int]
  BY <1>1, <1>2, <1>3
<1>5. ASSUME NEW i \in 0..(n + 1), i < n + 1 PROVE g[i + 1] = g[i] + Delay(i)
  <2>1. CASE i = n
    BY <1>2, <1>3, <2>1
  <2>2. CASE i < n
    <3>1. i \in 0..n /\ i + 1 \in 0..n
      BY <2>2
    <3>2. f[i + 1] = f[i] + Delay(i)
      BY <2>2, <3>1 DEF Sums
    <3> QED
      BY <1>2, <3>1, <3>2
  <2> QED
    BY <1>5, <2>1, <2>2
<1>6. g[0] = 0
  BY <1>1, <1>2
<1> HIDE DEF g
<1>7. Sums(g, n + 1)
  BY <1>4, <1>5, <1>6 DEF Sums
<1> QED
  BY <1>7 DEF g

LEMMA SumsExist == \A n \in Nat : \E f : Sums(f, n)
<1> DEFINE S == {n \in Nat : \E f : Sums(f, n)}
<1>1. Sums([i \in 0..0 |-> 0], 0)
  <2>1. \A i \in 0..0 : i = 0
    OBVIOUS
  <2> QED
    BY <2>1 DEF Sums
<1>2. 0 \in S
  BY <1>1
<1>3. ASSUME NEW n \in S PROVE n + 1 \in S
  <2>1. PICK f : Sums(f, n)
    BY <1>3
  <2>2. \E g : Sums(g, n + 1)
    BY <2>1, SumsExtend
  <2> QED
    BY <2>2
<1> HIDE DEF S
<1>4. S \in SUBSET Nat
  BY DEF S
<1>5. S = Nat
  BY <1>2, <1>3, <1>4, InductionOnNumbers
<1> QED
  BY <1>5 DEF S

LEMMA SumsAgree ==
    ASSUME NEW n \in Nat, NEW m \in Nat, NEW f, NEW g, Sums(f, n), Sums(g, m)
    PROVE  \A i \in 0..n : i <= m => f[i] = g[i]
<1> DEFINE S == {i \in Nat : i <= n /\ i <= m => f[i] = g[i]}
<1>1. 0 \in S
  BY DEF Sums
<1>2. ASSUME NEW i \in S PROVE i + 1 \in S
  <2>1. CASE i + 1 <= n /\ i + 1 <= m
    <3>1. i \in 0..n /\ i \in 0..m /\ i < n /\ i < m
      BY <1>2, <2>1
    <3>2. f[i + 1] = f[i] + Delay(i) /\ g[i + 1] = g[i] + Delay(i)
      BY <3>1 DEF Sums
    <3>3. f[i] = g[i]
      BY <1>2, <3>1
    <3> QED
      BY <3>2, <3>3
  <2>2. CASE ~ (i + 1 <= n /\ i + 1 <= m)
    BY <2>2
  <2> QED
    BY <2>1, <2>2
<1> HIDE DEF S
<1>3. S \in SUBSET Nat
  BY DEF S
<1>4. S = Nat
  BY <1>1, <1>2, <1>3, InductionOnNumbers
<1> QED
  BY <1>4 DEF S

\* DelaySum is the function its definition describes.
LEMMA DelaySumDef ==
    /\ DelaySum[0] = 0
    /\ \A n \in Nat : /\ DelaySum[n] \in Int
                      /\ DelaySum[n + 1] = DelaySum[n] + Delay(n)
<1> DEFINE sums(n) == CHOOSE f : Sums(f, n)
           F == [n \in Nat |-> sums(n)[n]]
           Recursion(g) == [n \in Nat |-> IF n = 0 THEN 0 ELSE g[n - 1] + Delay(n - 1)]
<1>1. \A n \in Nat : Sums(sums(n), n)
  BY SumsExist
<1> HIDE DEF sums
<1>2. F[0] = 0
  BY <1>1 DEF Sums
<1>3. ASSUME NEW n \in Nat PROVE F[n] \in Int /\ F[n + 1] = F[n] + Delay(n)
  <2>1. Sums(sums(n), n) /\ Sums(sums(n + 1), n + 1)
    BY <1>1
  <2>2. sums(n)[n] \in Int
    BY <2>1 DEF Sums
  <2>3. sums(n + 1)[n + 1] = sums(n + 1)[n] + Delay(n)
    <3>1. n \in 0..(n + 1) /\ n < n + 1
      OBVIOUS
    <3> QED
      BY <2>1, <3>1 DEF Sums
  <2>4. sums(n + 1)[n] = sums(n)[n]
    BY <2>1, SumsAgree
  <2> QED
    BY <2>2, <2>3, <2>4
<1> HIDE DEF F
<1>4. DOMAIN F = Nat /\ F = [n \in Nat |-> F[n]]
  BY DEF F
<1>5. \A n \in Nat : F[n] = IF n = 0 THEN 0 ELSE F[n - 1] + Delay(n - 1)
  <2> SUFFICES ASSUME NEW n \in Nat, n # 0 PROVE F[n] = F[n - 1] + Delay(n - 1)
    BY <1>2
  <2>1. n - 1 \in Nat /\ (n - 1) + 1 = n
    OBVIOUS
  <2> QED
    BY <1>3, <2>1
<1>6. F = Recursion(F)
  BY <1>4, <1>5
<1>7. DelaySum = CHOOSE g : g = Recursion(g)
  BY DEF DelaySum
<1> HIDE DEF Recursion
<1>8. DelaySum = Recursion(DelaySum)
  BY <1>6, <1>7
<1>9. \A n \in Nat : DelaySum[n] = IF n = 0 THEN 0 ELSE DelaySum[n - 1] + Delay(n - 1)
  BY <1>8 DEF Recursion
<1> DEFINE S == {n \in Nat : DelaySum[n] \in Int}
<1>10. 0 \in S
  BY <1>9
<1>11. ASSUME NEW n \in Nat PROVE DelaySum[n + 1] = DelaySum[n] + Delay(n)
  BY <1>9
<1>12. ASSUME NEW n \in S PROVE n + 1 \in S
  BY <1>11, DelayType
<1> HIDE DEF S
<1>13. S \in SUBSET Nat
  BY DEF S
<1>14. S = Nat
  BY <1>10, <1>12, <1>13, InductionOnNumbers
<1> QED
  BY <1>9, <1>11, <1>14 DEF S

-----------------------------------------------------------------------------
(* The backoff.                                                            *)

LEMMA DelaySumBound ==
    ASSUME NEW n \in Nat, n <= MaxAttempt + 1
    PROVE  DelaySum[n] <= MaxSlept
<1> DEFINE S == {k \in Nat : DelaySum[k] <= k * MaxDelay}
<1>1. MaxDelay \in Nat /\ MaxAttempt + 1 \in Nat
  BY ReaderAssumption
<1>2. 0 \in S
  BY <1>1, DelaySumDef
<1>3. ASSUME NEW k \in S PROVE k + 1 \in S
  <2>1. /\ k \in Nat /\ DelaySum[k] \in Int /\ DelaySum[k] <= k * MaxDelay
        /\ DelaySum[k + 1] = DelaySum[k] + Delay(k)
    BY <1>3, DelaySumDef
  <2>2. Delay(k) \in Int /\ Delay(k) <= MaxDelay
    BY <2>1, DelayType
  <2>3. (k + 1) * MaxDelay = k * MaxDelay + MaxDelay /\ k * MaxDelay \in Nat
    BY <1>1, <2>1, Multiples
  <2>4. DelaySum[k + 1] <= k * MaxDelay + MaxDelay
    BY <1>1, <2>1, <2>2, <2>3
  <2>5. DelaySum[k + 1] <= (k + 1) * MaxDelay
    BY <2>3, <2>4
  <2> QED
    BY <2>1, <2>5
<1> HIDE DEF S
<1>4. S \in SUBSET Nat
  BY DEF S
<1>5. S = Nat
  BY <1>2, <1>3, <1>4, InductionOnNumbers
<1>6. DelaySum[n] <= n * MaxDelay /\ DelaySum[n] \in Int
  BY <1>5, DelaySumDef DEF S
<1>7. /\ n * MaxDelay <= MaxSlept /\ n * MaxDelay \in Nat
      /\ (MaxAttempt + 1) * MaxDelay \in Nat
  BY <1>1, Multiples DEF MaxSlept
<1> QED
  BY <1>6, <1>7 DEF MaxSlept

\* The failures that were slept for are counted by the attempt, and a sleep
\* that is not over is paid for with what is left of it.
BackoffInv ==
    /\ attempt \in 0..MaxAttempt
    /\ failures \in 0..(MaxAttempt + 1)
    /\ slept \in 0..MaxSlept /\ left \in Int
    /\ pc = "sleeping" => /\ failures > 0 /\ attempt = failures - 1
                          /\ slept + left >= DelaySum[failures]
    /\ pc # "sleeping" => /\ attempt = AtMost(failures, MaxAttempt)
                          /\ slept >= DelaySum[failures]

LEMMA MaxSleptType == MaxSlept \in Nat
<1>1. MaxAttempt + 1 \in Nat /\ MaxDelay \in Nat
  BY ReaderAssumption
<1> QED
  BY <1>1, Multiples DEF MaxSlept

LEMMA BackoffReset ==
    ASSUME attempt' = 0, failures' = 0, slept' = 0, left' \in Int, pc' = "loop"
    PROVE  BackoffInv'
<1>1. AtMost(0, MaxAttempt) = 0
  BY ReaderAssumption DEF AtMost
<1>2. 0 \in 0..MaxSlept /\ 0 \in 0..MaxAttempt /\ 0 \in 0..(MaxAttempt + 1)
  BY ReaderAssumption, MaxSleptType
<1>3. AtMost(failures, MaxAttempt)' = 0
  BY <1>1
<1>4. slept' >= DelaySum[failures']
  BY DelaySumDef
<1> QED
  BY <1>2, <1>3, <1>4 DEF BackoffInv

LEMMA BackoffConnectFails == BackoffInv /\ ConnectFails => BackoffInv'
<1> SUFFICES ASSUME BackoffInv, ConnectFails PROVE BackoffInv'
  OBVIOUS
<1>1. /\ pc # "sleeping" /\ pc' = "sleeping" /\ left' = Delay(attempt)
      /\ failures' = AtMost(failures + 1, MaxAttempt + 1)
      /\ attempt' = attempt /\ slept' = slept
  BY DEF ConnectFails
<1>2. /\ attempt \in 0..MaxAttempt /\ failures \in 0..(MaxAttempt + 1)
      /\ slept \in 0..MaxSlept /\ MaxAttempt \in Nat
      /\ attempt = AtMost(failures, MaxAttempt) /\ slept >= DelaySum[failures]
  BY <1>1, ReaderAssumption DEF BackoffInv
<1>3. /\ Delay(attempt) \in Int /\ DelaySum[failures] \in Int /\ slept \in Int
      /\ failures \in Nat
  BY <1>2, DelayType, DelaySumDef, MaxSleptType
<1>4. CASE failures <= MaxAttempt
  <2>1. attempt = failures /\ failures' = failures + 1
    BY <1>1, <1>2, <1>4 DEF AtMost
  <2>2. DelaySum[failures + 1] = DelaySum[failures] + Delay(failures)
    BY <1>3, DelaySumDef
  <2>3. slept + Delay(failures) >= DelaySum[failures + 1]
    BY <1>2, <1>3, <2>1, <2>2
  <2>4. /\ failures' \in 0..(MaxAttempt + 1) /\ failures' > 0
        /\ failures' - 1 = attempt'
    BY <1>1, <1>2, <1>4, <2>1
  <2>5. slept' + left' >= DelaySum[failures']
    BY <1>1, <2>1, <2>3
  <2> QED
    BY <1>1, <1>2, <1>3, <2>4, <2>5 DEF BackoffInv
<1>5. CASE failures = MaxAttempt + 1
  <2>1. attempt = MaxAttempt /\ failures' = failures
    BY <1>1, <1>2, <1>5 DEF AtMost
  <2>2. 2^MaxAttempt \in Int
    BY <1>2
  <2>3. BaseDelay * 2^MaxAttempt \in Int
    BY <2>2, ReaderAssumption
  <2>4. Delay(MaxAttempt) = MaxDelay /\ MaxDelay \in Nat
    BY <2>3, ReaderAssumption DEF Delay, AtMost
  <2>5. slept + MaxDelay >= DelaySum[failures]
    BY <1>2, <1>3, <2>4
  <2> QED
    BY <1>1, <1>2, <1>3, <1>5, <2>1, <2>4, <2>5 DEF BackoffInv
<1> QED
  BY <1>2, <1>4, <1>5

LEMMA BackoffWake == BackoffInv /\ Wake => BackoffInv'
<1> SUFFICES ASSUME BackoffInv, Wake PROVE BackoffInv'
  OBVIOUS
<1>1. /\ pc = "sleeping" /\ left = 0 /\ pc' = "loop"
      /\ attempt' = AtMost(attempt + 1, MaxAttempt)
      /\ left' = left /\ failures' = failures /\ slept' = slept
  BY DEF Wake, NextAttempt, history
<1>2. /\ failures \in 0..(MaxAttempt + 1) /\ failures > 0 /\ attempt = failures - 1
      /\ slept \in 0..MaxSlept /\ slept + 0 >= DelaySum[failures]
      /\ MaxAttempt \in Nat
  BY <1>1, ReaderAssumption DEF BackoffInv
<1>3. AtMost(failures, MaxAttempt) \in 0..MaxAttempt /\ attempt + 1 = failures
  BY <1>2 DEF AtMost
<1>4. slept \in Int /\ slept + 0 = slept
  BY <1>2, MaxSleptType
<1> QED
  BY <1>1, <1>2, <1>3, <1>4 DEF BackoffInv

LEMMA BackoffTick == BackoffInv /\ Tick => BackoffInv'
<1> SUFFICES ASSUME BackoffInv, Tick PROVE BackoffInv'
  OBVIOUS
<1>1. UNCHANGED <<attempt, failures, pc>>
  BY DEF Tick
<1>2. CASE pc # "sleeping"
  <2>1. left' = left /\ slept' = slept
    BY <1>2 DEF Tick
  <2> QED
    BY <1>1, <1>2, <2>1 DEF BackoffInv
<1>3. CASE pc = "sleeping"
  <2>1. left > 0 /\ left' = left - 1 /\ slept' = AtMost(slept + 1, MaxSlept)
    BY <1>3 DEF Tick
  <2>2. /\ slept \in 0..MaxSlept /\ left \in Int
        /\ failures \in Nat /\ failures <= MaxAttempt + 1
        /\ slept + left >= DelaySum[failures]
    BY <1>3, ReaderAssumption DEF BackoffInv
  <2>3. /\ slept' \in 0..MaxSlept
        /\ slept' = slept + 1 \/ slept' = MaxSlept
    BY <2>1, <2>2, MaxSleptType, AtMostOfNext
  <2>4. DelaySum[failures] <= MaxSlept /\ DelaySum[failures] \in Int
    BY <2>2, DelaySumBound, DelaySumDef
  <2>5. slept' + left' >= DelaySum[failures]
    BY <2>1, <2>2, <2>3, <2>4, MaxSleptType
  <2>6. left' \in Int
    BY <2>1, <2>2
  <2> QED
    BY <1>1, <1>3, <2>3, <2>5, <2>6 DEF BackoffInv
<1> QED
  BY <1>2, <1>3

LEMMA BackoffNext == BackoffInv /\ [Next]_vars => BackoffInv'
<1> SUFFICES ASSUME BackoffInv, [Next]_vars PROVE BackoffInv'
  OBVIOUS
<1>1. CASE ConnectOk
  BY <1>1, BackoffReset DEF ConnectOk, BackoffInv
<1>2. CASE ConnectFails \/ Wake \/ Tick
  BY <1>2, BackoffConnectFails, BackoffWake, BackoffTick
<1>3. CASE ReadFails \/ ReadYields \/ Resume \/ Close \/ CameraChanges
  <2>1. UNCHANGED <<attempt, failures, slept, left>>
    BY <1>3 DEF ReadFails, ReadYields, Resume, Close, CameraChanges, TriesAgain,
                reader, history
  <2>2. pc' # "sleeping" <=> pc # "sleeping"
    BY <1>3 DEF ReadFails, ReadYields, Resume, Close, CameraChanges, TriesAgain,
                reader, history
  <2> QED
    BY <2>1, <2>2 DEF BackoffInv
<1>4. CASE UNCHANGED vars
  BY <1>4 DEF vars, reader, history, BackoffInv
<1> QED
  BY <1>1, <1>2, <1>3, <1>4 DEF Next, Loop

\* Connects that fail in a row are paced: before the next one, the reader has
\* slept the sum of as many delays as failed, doubling up to the maximum.
THEOREM BackoffPacesAlways == Spec => []BackoffPaces
<1>1. Init => BackoffInv
  <2> SUFFICES ASSUME Init PROVE BackoffInv
    OBVIOUS
  <2>1. /\ attempt = 0 /\ failures = 0 /\ slept = 0 /\ left = 0 /\ pc = "loop"
    BY DEF Init
  <2>2. AtMost(0, MaxAttempt) = 0 /\ DelaySum[0] = 0
    BY ReaderAssumption, DelaySumDef DEF AtMost
  <2> QED
    BY <2>1, <2>2, ReaderAssumption, MaxSleptType DEF BackoffInv
<1>2. BackoffInv => BackoffPaces
  BY DEF BackoffInv, BackoffPaces
<1> QED
  BY <1>1, <1>2, BackoffNext, PTL DEF Spec
=============================================================================
