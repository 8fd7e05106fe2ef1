----------------------------- MODULE RetryProofs -----------------------------
(***************************************************************************)
(* Proofs about Retry (utils.go:38-50) for every Width, bound on the       *)
(* arguments and number of failures of f.                                  *)
(*                                                                         *)
(* The count of calls is not inductive by itself: a frame may call f once  *)
(* more only if the attempts it was given still cover it.  CallsInv ties   *)
(* the calls made to the attempts left (calls + attempts = n0 while a      *)
(* frame is about to call f) and records, for a finished call, how the     *)
(* count of calls compares with k.  SleepBackoff stays with TLC: it fails  *)
(* once the doubling wraps, and bounding the sleep of the i-th frame by    *)
(* d * 3^i needs facts about ^ that the provers lack.                      *)
(***************************************************************************)
EXTENDS Retry, TLAPS

USE RetryAssumption

\* max(n0, 1): the calls Retry(n0, d, f) may make.
MaxArg == IF n0 > 1 THEN n0 ELSE 1

CallsInv ==
    /\ pc = "call" => /\ calls + attempts = n0
                      /\ calls > 0 => attempts >= 1
                      /\ calls <= k
                      /\ res = "none"
    /\ pc = "done" => \/ res = "ok" /\ calls = k + 1 /\ calls <= MaxArg
                      \/ res = "err" /\ n0 <= calls /\ 1 <= calls /\ calls <= k
    /\ calls <= MaxArg

RInv == TypeOK /\ CallsInv

\* Wrap maps every integer into Duration.
LEMMA WrapType == \A x \in Int : Wrap(x) \in Duration
BY DEF Wrap, Duration

LEMMA RInvInit == Init => RInv
BY DEF Init, RInv, TypeOK, CallsInv, MaxArg, MaxCalls, Duration

LEMMA RInvStep == RInv /\ [Next]_vars => RInv'
<1> SUFFICES ASSUME RInv, [Next]_vars PROVE RInv'
    OBVIOUS
<1>0. /\ n0 \in 0..MaxN /\ k \in 0..MaxK /\ attempts \in 0..MaxN
      /\ calls \in 0..MaxCalls /\ sleep \in Duration /\ slept \in Duration
    BY DEF RInv, TypeOK
<1>1. CASE Succeed
    <2>1. calls + 1 <= MaxArg
        BY <1>0, <1>1 DEF Succeed, Fails, RInv, CallsInv, MaxArg
    <2>2. CallsInv'
        BY <1>0, <1>1, <2>1 DEF Succeed, Fails, RInv, CallsInv, MaxArg
    <2>3. TypeOK'
        BY <1>0, <1>1, <2>1 DEF Succeed, RInv, TypeOK, MaxArg, MaxCalls
    <2>4. QED BY <2>2, <2>3 DEF RInv
<1>2. CASE FailExhausted
    <2>0. /\ pc = "call" /\ calls < k /\ attempts <= 1
          /\ calls + attempts = n0 /\ (calls > 0 => attempts >= 1)
        BY <1>0, <1>2 DEF FailExhausted, Fails, RInv, CallsInv
    <2>1. calls + 1 <= MaxArg /\ n0 <= calls + 1 /\ calls + 1 <= k
        BY <1>0, <2>0 DEF MaxArg
    <2>2. /\ pc' = "done" /\ res' = "err" /\ calls' = calls + 1
          /\ n0' = n0 /\ k' = k
        BY <1>2 DEF FailExhausted
    <2>5. CallsInv'
        BY <1>0, <2>1, <2>2 DEF CallsInv, MaxArg
    <2>3. TypeOK'
        BY <1>0, <1>2, <2>1 DEF FailExhausted, RInv, TypeOK, MaxArg, MaxCalls
    <2>4. QED BY <2>5, <2>3 DEF RInv
<1>3. CASE JitterPanic
    <2>1. calls + 1 <= MaxArg
        BY <1>0, <1>3 DEF JitterPanic, Fails, RInv, CallsInv, MaxArg
    <2>2. CallsInv'
        BY <1>3, <2>1 DEF JitterPanic, CallsInv, MaxArg
    <2>3. TypeOK'
        BY <1>0, <1>3, <2>1 DEF JitterPanic, RInv, TypeOK, MaxArg, MaxCalls
    <2>4. QED BY <2>2, <2>3 DEF RInv
<1>4. CASE FailRetry
    <2>1. /\ calls' = calls + 1 /\ attempts' = attempts - 1
          /\ attempts - 1 > 0 /\ calls < k /\ pc = "call"
          /\ UNCHANGED <<n0, d, k, pc, res>>
        BY <1>4 DEF FailRetry, Fails
    <2>2. PICK jitter \in 0..(sleep - 1) :
               /\ prevSlept' = slept
               /\ slept' = Wrap(sleep + jitter \div 2)
               /\ sleep' = Wrap(2 * Wrap(sleep + jitter \div 2))
        BY <1>4 DEF FailRetry
    <2>3. sleep' \in Duration /\ slept' \in Duration
        BY <1>0, <2>2, WrapType DEF Duration
    <2>4. /\ calls + 1 <= MaxArg /\ calls + 1 + attempts - 1 = n0
          /\ res = "none"
        BY <1>0, <2>1 DEF RInv, CallsInv, MaxArg
    <2>5. CallsInv'
        <3>1. (pc = "call" => calls + attempts = n0 /\ (calls > 0 => attempts >= 1)
                              /\ calls <= k /\ res = "none")'
            BY <1>0, <2>1, <2>4
        <3>2. (calls <= MaxArg)'
            BY <1>0, <2>1, <2>4 DEF MaxArg
        <3>3. QED BY <2>1, <3>1, <3>2 DEF CallsInv
    <2>6. TypeOK'
        BY <1>0, <2>1, <2>2, <2>3, <2>4 DEF RInv, TypeOK, MaxArg, MaxCalls
    <2>7. QED BY <2>5, <2>6 DEF RInv
<1>5. CASE Terminated \/ UNCHANGED vars
    BY <1>5 DEF Terminated, vars, RInv, TypeOK, CallsInv, MaxArg
<1>6. QED
    BY <1>1, <1>2, <1>3, <1>4, <1>5 DEF Next

\* Every reachable state of a Retry call is well typed: in particular the
\* sleeps stay Width-bit Durations however often the doubling wraps, and f
\* is called at most MaxCalls times.
THEOREM TypeCorrect == Spec => []TypeOK
<1>1. RInv => TypeOK
    BY DEF RInv
<1>2. QED
    BY <1>1, RInvInit, RInvStep, PTL DEF Spec

\* Retry(n, d, f) calls f at most max(n, 1) times, however many times f
\* fails and whatever jitter is drawn (utils.go:39-45).
THEOREM AtMostNCallsInvariant == Spec => []AtMostNCalls
<1>1. RInv => AtMostNCalls
    BY DEF RInv, CallsInv, MaxArg, AtMostNCalls
<1>2. QED
    BY <1>1, RInvInit, RInvStep, PTL DEF Spec

\* A finished Retry(n, d, f) for an f that fails its first k calls returns
\* nil exactly when k < max(n, 1), and the error otherwise (utils.go:38-50).
THEOREM OutcomeInvariant == Spec => []OutcomeMatchesAttempts
<1>1. RInv => OutcomeMatchesAttempts
    BY DEF RInv, TypeOK, CallsInv, MaxArg, OutcomeMatchesAttempts
<1>2. QED
    BY <1>1, RInvInit, RInvStep, PTL DEF Spec


-----------------------------------------------------------------------------
(* Backoff                                                                  *)

\* The sleep of a frame is twice the duration the frame before it slept,
\* wrapped to Width bits.
SleepDoubled == slept > 0 => sleep = Wrap(2 * slept)

\* Wrap is the identity on Duration.
LEMMA WrapId == \A x \in Duration : Wrap(x) = x
BY DEF Wrap, Duration

\* Wrap of a number in 0..(2 * Half - 1) is positive only if no wrap occurred.
LEMMA WrapPositive ==
    \A x \in 0..(2 * Half - 1) : Wrap(x) > 0 => Wrap(x) = x /\ x < Half
BY DEF Wrap

LEMMA BackoffStep ==
    ASSUME RInv, SleepDoubled, prevSlept > 0 /\ slept > 0 => slept >= 2 * prevSlept,
           [Next]_vars
    PROVE  /\ SleepDoubled'
           /\ (prevSlept > 0 /\ slept > 0 => slept >= 2 * prevSlept)'
<1>0. sleep \in Duration /\ slept \in Duration
    BY DEF RInv, TypeOK
<1>1. CASE FailRetry
    <2>1. PICK jitter \in 0..(sleep - 1) :
               /\ sleep > 0
               /\ prevSlept' = slept
               /\ slept' = Wrap(sleep + jitter \div 2)
               /\ sleep' = Wrap(2 * Wrap(sleep + jitter \div 2))
        BY <1>1 DEF FailRetry
    <2>2. SleepDoubled'
        BY <2>1 DEF SleepDoubled
    <2>3. ASSUME slept > 0, slept' > 0 PROVE slept' >= 2 * slept
        <3>1. sleep = Wrap(2 * slept) /\ 2 * slept \in 0..(2 * Half - 1)
            BY <1>0, <2>3 DEF SleepDoubled, Duration
        <3>2. sleep = 2 * slept
            BY <2>1, <3>1, WrapPositive
        <3>3. sleep + jitter \div 2 \in 0..(2 * Half - 1)
            BY <1>0, <2>1 DEF Duration
        <3>4. slept' = sleep + jitter \div 2
            BY <2>1, <2>3, <3>3, WrapPositive
        <3>5. QED BY <2>1, <3>2, <3>4
    <2>4. QED BY <2>1, <2>2, <2>3
<1>2. CASE ~FailRetry
    <2>1. UNCHANGED <<sleep, slept, prevSlept>>
        BY <1>2 DEF Next, vars, Succeed, FailExhausted, JitterPanic, Terminated
    <2>2. QED BY <2>1 DEF SleepDoubled
<1>3. QED BY <1>1, <1>2

\* Every positive sleep of Retry is at least twice the one before it: the
\* backoff of utils.go:42-46 only breaks when sleep + jitter/2 wraps to a
\* negative Duration (and then rand.Int63n panics in the next frame).
THEOREM BackoffUntilWrap ==
    Spec => [](prevSlept > 0 /\ slept > 0 => slept >= 2 * prevSlept)
<1>1. Init => RInv /\ SleepDoubled /\ (prevSlept > 0 /\ slept > 0 => slept >= 2 * prevSlept)
    BY RInvInit DEF Init, SleepDoubled
<1>2. RInv /\ SleepDoubled /\ (prevSlept > 0 /\ slept > 0 => slept >= 2 * prevSlept)
        /\ [Next]_vars
        => (RInv /\ SleepDoubled /\ (prevSlept > 0 /\ slept > 0 => slept >= 2 * prevSlept))'
    BY RInvStep, BackoffStep
<1>3. QED BY <1>1, <1>2, PTL DEF Spec

-----------------------------------------------------------------------------
(* Backoff without wrap-around                                              *)

\* A ladder of sleep bounds, one per call: it starts at the largest initial
\* sleep, at least triples from each call to the next (sleep + jitter/2 is
\* below 1.5 * sleep, and the next frame doubles it) and stays a Duration.
\* Such a ladder exists exactly when MaxDelay * 3^MaxN < Half.
Ladder(b) ==
    /\ b \in [0..MaxN -> 0..(Half - 1)]
    /\ MaxDelay <= b[0]
    /\ \A c \in 0..(MaxN - 1) : 3 * b[c] <= b[c + 1]

\* Below the ladder nothing wraps: the sleep of frame calls is at most
\* b[calls], durations slept are non-negative, and each sleep is exactly
\* twice what the frame before it slept.
NoWrapInv(b) ==
    /\ pc = "call" => sleep \in 0..b[calls]
    /\ slept \in Nat /\ prevSlept \in Nat
    /\ slept > 0 => sleep = 2 * slept
    /\ SleepBackoff

LEMMA NoWrapInit ==
    ASSUME NEW b, Ladder(b), Init
    PROVE  NoWrapInv(b)
BY DEF Ladder, Init, NoWrapInv, SleepBackoff

LEMMA NoWrapStep ==
    ASSUME NEW b, Ladder(b), RInv, NoWrapInv(b), [Next]_vars
    PROVE  NoWrapInv(b)'
<1>0. /\ n0 \in 0..MaxN /\ attempts \in 0..MaxN /\ calls \in Nat
      /\ slept \in Nat /\ prevSlept \in Nat
    BY DEF RInv, TypeOK, MaxCalls, NoWrapInv
<1>1. CASE FailRetry
    <2>1. /\ pc = "call" /\ attempts - 1 > 0 /\ sleep > 0
          /\ calls' = calls + 1 /\ pc' = pc
        BY <1>1 DEF FailRetry
    <2>2. PICK jitter \in 0..(sleep - 1) :
               /\ prevSlept' = slept
               /\ slept' = Wrap(sleep + jitter \div 2)
               /\ sleep' = Wrap(2 * Wrap(sleep + jitter \div 2))
        BY <1>1 DEF FailRetry
    <2>3. calls \in 0..(MaxN - 1) /\ calls + 1 \in 0..MaxN
        BY <1>0, <2>1 DEF RInv, CallsInv
    <2>4. /\ b[calls] \in Nat /\ b[calls + 1] \in 0..(Half - 1)
          /\ sleep \in 1..b[calls] /\ 3 * b[calls] <= b[calls + 1]
        BY <2>1, <2>3 DEF NoWrapInv, Ladder
    <2> DEFINE x == sleep + jitter \div 2
    <2>5. x \in 1..(Half - 1) /\ 2 * x \in 1..b[calls + 1] /\ x >= sleep
        <3>1. jitter \div 2 \in 0..((sleep - 1) \div 2)
            BY <2>4
        <3>2. 2 * x <= 3 * sleep - 1
            BY <2>4, <3>1
        <3>3. 3 * sleep <= 3 * b[calls]
            BY <2>4
        <3>4. QED BY <2>4, <3>1, <3>2, <3>3
    <2>6. slept' = x /\ sleep' = 2 * x
        BY <2>2, <2>4, <2>5, WrapId DEF Duration
    <2>7. (pc = "call" => sleep \in 0..b[calls])'
        BY <2>1, <2>5, <2>6
    <2>8. (slept > 0 => sleep = 2 * slept)'
        BY <2>6
    <2>9. SleepBackoff'
        BY <1>0, <2>2, <2>5, <2>6 DEF NoWrapInv, SleepBackoff
    <2>10. QED BY <1>0, <2>2, <2>5, <2>6, <2>7, <2>8, <2>9 DEF NoWrapInv
<1>2. CASE Succeed \/ FailExhausted \/ JitterPanic
    <2>1. pc' # "call" /\ UNCHANGED <<sleep, slept, prevSlept>>
        BY <1>2 DEF Succeed, FailExhausted, JitterPanic
    <2>2. QED BY <2>1 DEF NoWrapInv, SleepBackoff
<1>3. CASE Terminated \/ UNCHANGED vars
    BY <1>3 DEF Terminated, vars, NoWrapInv, SleepBackoff
<1>4. QED BY <1>1, <1>2, <1>3 DEF Next

\* When the retry budget leaves room for the backoff (MaxDelay * 3^MaxN <
\* Half, stated as the existence of a ladder), every sleep of Retry is at
\* least twice the one before it (utils.go:42-46): SleepBackoff holds in
\* every reachable state.  retry_core's instance (Width 8, MaxN 3, delays
\* up to 3) has the ladder 3, 9, 27, 81; Go's 64-bit Duration with a one
\* second initial sleep has one for up to 20 attempts.
THEOREM NoWrapBackoff ==
    ASSUME NEW b, Ladder(b)
    PROVE  Spec => []SleepBackoff
<1>1. Init => RInv /\ NoWrapInv(b)
    BY RInvInit, NoWrapInit
<1>2. RInv /\ NoWrapInv(b) /\ [Next]_vars => (RInv /\ NoWrapInv(b))'
    BY RInvStep, NoWrapStep
<1>3. RInv /\ NoWrapInv(b) => SleepBackoff
    BY DEF NoWrapInv
<1>4. QED BY <1>1, <1>2, <1>3, PTL DEF Spec
=============================================================================
