------------------------------- MODULE Retry -------------------------------
(***************************************************************************)
(* Retry(attempts, sleep, f) of src/cmd/btpsimple/module/hmny/utils.go.    *)
(*                                                                         *)
(* Each step is one frame of the recursion: it calls f and, on failure,    *)
(* either returns the error or draws a jitter in [0, sleep), sleeps        *)
(* sleep + jitter/2 and recurses with 2*sleep. time.Duration is a signed   *)
(* integer of Width bits (64 in Go), so additions and the doubling wrap.   *)
(* rand.Int63n panics unless its argument is positive.                     *)
(*                                                                         *)
(* The operation fails its first k calls and then succeeds. The call's     *)
(* arguments n0 and d and the operation's k are chosen in Init.            *)
(***************************************************************************)
EXTENDS Integers

CONSTANTS
    Width,      \* bits of time.Duration
    MaxN,       \* largest attempts argument
    MinDelay,   \* smallest initial sleep
    MaxDelay,   \* largest initial sleep
    MaxK        \* largest number of failures of the operation

\* 2^(Width - 1): a Width-bit signed Duration lies in -Half..(Half - 1).
Half == 2^(Width - 1)

\* Half > 0 follows from Width > 0; it is stated so that proofs, which know
\* no facts about ^, can use it.
ASSUME RetryAssumption ==
    /\ Width \in Nat \ {0}
    /\ Half \in Nat \ {0}
    /\ MaxN \in Nat
    /\ MinDelay \in Nat
    /\ MaxDelay \in MinDelay..(Half - 1)
    /\ MaxK \in Nat

\* Two's-complement wrap-around of a Width-bit signed integer
\* (2^Width = 2 * Half).
Wrap(x) == ((x + Half) % (2 * Half)) - Half

Duration == -Half..(Half - 1)

VARIABLES
    n0, d, k,   \* the call Retry(n0, d, f) and the failures of f
    attempts,   \* the attempts argument of the current frame
    sleep,      \* the sleep argument of the current frame
    calls,      \* calls of f so far
    slept,      \* the last duration passed to time.Sleep (0: none yet)
    prevSlept,  \* the one before it
    pc,         \* "call", "done" or "panic"
    res         \* "none", "ok" or "err"

vars == <<n0, d, k, attempts, sleep, calls, slept, prevSlept, pc, res>>

MaxCalls == IF MaxN > 1 THEN MaxN ELSE 1

TypeOK ==
    /\ n0 \in 0..MaxN /\ d \in MinDelay..MaxDelay /\ k \in 0..MaxK
    /\ attempts \in 0..MaxN
    /\ sleep \in Duration
    /\ calls \in 0..MaxCalls
    /\ slept \in Duration /\ prevSlept \in Duration
    /\ pc \in {"call", "done", "panic"}
    /\ res \in {"none", "ok", "err"}

Init ==
    /\ n0 \in 0..MaxN /\ d \in MinDelay..MaxDelay /\ k \in 0..MaxK
    /\ attempts = n0
    /\ sleep = d
    /\ calls = 0
    /\ slept = 0 /\ prevSlept = 0
    /\ pc = "call"
    /\ res = "none"

\* The call of f in this frame fails.
Fails == calls < k

\* f succeeds: return nil.
Succeed ==
    /\ pc = "call" /\ ~Fails
    /\ calls' = calls + 1
    /\ pc' = "done" /\ res' = "ok"
    /\ UNCHANGED <<n0, d, k, attempts, sleep, slept, prevSlept>>

\* f fails and attempts-- leaves none: return the error.
FailExhausted ==
    /\ pc = "call" /\ Fails
    /\ attempts - 1 <= 0
    /\ calls' = calls + 1
    /\ pc' = "done" /\ res' = "err"
    /\ UNCHANGED <<n0, d, k, attempts, sleep, slept, prevSlept>>

\* rand.Int63n(int64(sleep)) with sleep <= 0 panics.
JitterPanic ==
    /\ pc = "call" /\ Fails
    /\ attempts - 1 > 0
    /\ sleep <= 0
    /\ calls' = calls + 1
    /\ pc' = "panic"
    /\ UNCHANGED <<n0, d, k, attempts, sleep, slept, prevSlept, res>>

\* The retry frame without attempts--.
FailRetryNoDecrement ==
    /\ pc = "call" /\ Fails
    /\ attempts - 1 > 0
    /\ sleep > 0
    /\ \E jitter \in 0..(sleep - 1) :
         LET s == Wrap(sleep + jitter \div 2) IN
         /\ prevSlept' = slept /\ slept' = s
         /\ sleep' = Wrap(2 * s)
    /\ calls' = calls + 1
    /\ UNCHANGED <<n0, d, k, attempts, pc, res>>

\* The retry frame testing attempts >= 0 after the decrement.
FailRetryOffByOne ==
    /\ pc = "call" /\ Fails
    /\ attempts - 1 >= 0
    /\ sleep > 0
    /\ \E jitter \in 0..(sleep - 1) :
         LET s == Wrap(sleep + jitter \div 2) IN
         /\ prevSlept' = slept /\ slept' = s
         /\ sleep' = Wrap(2 * s)
    /\ attempts' = attempts - 1
    /\ calls' = calls + 1
    /\ UNCHANGED <<n0, d, k, pc, res>>

\* The retry frame recursing with sleep instead of 2*sleep.
FailRetryNoDoubling ==
    /\ pc = "call" /\ Fails
    /\ attempts - 1 > 0
    /\ sleep > 0
    /\ \E jitter \in 0..(sleep - 1) :
         LET s == Wrap(sleep + jitter \div 2) IN
         /\ prevSlept' = slept /\ slept' = s
         /\ sleep' = s
    /\ attempts' = attempts - 1
    /\ calls' = calls + 1
    /\ UNCHANGED <<n0, d, k, pc, res>>

\* f fails with attempts left: jitter, sleep, recurse with twice the sleep.
FailRetry ==
    /\ pc = "call" /\ Fails
    /\ attempts - 1 > 0
    /\ sleep > 0
    /\ \E jitter \in 0..(sleep - 1) :
         LET s == Wrap(sleep + jitter \div 2) IN
         /\ prevSlept' = slept /\ slept' = s
         /\ sleep' = Wrap(2 * s)
    /\ attempts' = attempts - 1
    /\ calls' = calls + 1
    /\ UNCHANGED <<n0, d, k, pc, res>>

Terminated ==
    /\ pc \in {"done", "panic"}
    /\ UNCHANGED vars

Next == Succeed \/ FailExhausted \/ JitterPanic \/ FailRetry \/ Terminated

Spec == Init /\ [][Next]_vars

(***************************************************************************)
(* Properties                                                              *)
(***************************************************************************)

\* Retry(n, d, f) calls f at most max(n, 1) times: once even for n <= 0.
AtMostNCalls == calls <= IF n0 > 1 THEN n0 ELSE 1

\* Exponential backoff: every sleep is at least twice the one before it.
SleepBackoff == prevSlept > 0 => slept >= 2 * prevSlept

\* What Retry(n, d, f) returns for an f that fails its first k calls and
\* then succeeds: nil exactly when f may be called k + 1 times, that is
\* when k < max(n, 1), since the first call happens even for n <= 0; the
\* error of the last call otherwise (utils.go:38-50).
OutcomeMatchesAttempts ==
    pc = "done" => (res = "ok" <=> k < IF n0 > 1 THEN n0 ELSE 1)

\* rand.Int63n is never called with a non-positive bound.
NoJitterPanic == pc # "panic"

\* Spec section 8: for an operation that fails exactly k times,
\* retry(n, d, op) succeeds iff n > k.
SucceedsIffMoreAttempts == pc = "done" => (res = "ok" <=> n0 > k)

=============================================================================
