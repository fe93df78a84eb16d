-------------------------------- MODULE Retry --------------------------------
(***************************************************************************)
(* network.WithRetry (internal/network/network.go): a call is repeated up  *)
(* to maxAttempts times, with a wait that depends on why it failed, and    *)
(* the waiting times cubicWait and expWait with the 64-bit arithmetic of   *)
(* time.Duration.  Waits are in seconds.                                   *)
(***************************************************************************)
EXTENDS Integers, Sequences

CONSTANTS
  MaxAttempts,  \* the argument, 0 for the default
  Cap,          \* maxAllowedWaitTime
  RetryAfter,   \* what Slack asks for with a rate limit
  Outcomes      \* how a call may end; a subset of AllOutcomes

VARIABLES
  attempt,      \* the loop variable
  pc,           \* "limit", "call", "sleep" or "returned"
  delay,        \* the wait in progress
  lastErr,      \* how the last failed call ended
  result,       \* what WithRetry returned
  log,          \* history: [outcome of the call, seconds slept after it]
  cancelled     \* the context is done

vars == <<attempt, pc, delay, lastErr, result, log, cancelled>>

DefNumAttempts == 3
Attempts == IF MaxAttempts = 0 THEN DefNumAttempts ELSE MaxAttempts

----------------------------------------------------------------------------
(* Waiting times. *)

\* x*x*x seconds with x = attempt + 1; no attempt that is ever reached overflows it.
CubicWait(a) ==
  LET x == a + 1 IN IF x * x * x > Cap THEN Cap ELSE x * x * x

(***************************************************************************)
(* 2<<attempt seconds are 1953125 * 2^(attempt+10) nanoseconds, an int64.  *)
(* Up to attempt 29 that is 2^(attempt+1) seconds.  From attempt 33 on bit *)
(* 63 is bit 53-attempt of 1953125 = 5^9: with it the duration is          *)
(* negative, without it more than the cap, and from 54 on nothing is left. *)
(***************************************************************************)
Bit(n, i) == (n \div 2^i) % 2
ExpSeconds(a) ==
  IF a >= 54 THEN 0
  ELSE IF a > 23 /\ Bit(1953125, 53 - a) = 1 THEN -1
  ELSE IF a > 23 THEN Cap + 1
  ELSE 2^(a + 1)
ExpWait(a) == IF ExpSeconds(a) > Cap THEN Cap ELSE ExpSeconds(a)

\* A timer with a duration of zero or less fires at once.
Slept(d) == IF d > 0 THEN d ELSE 0

----------------------------------------------------------------------------

\* Outcomes of a call after which WithRetry waits.
Transient == {"eof", "limited", "server", "netio"}

\* A rate limit is answered with the wait of the attempt.
DelayForgetful(outcome, a) ==
  IF outcome = "netio" THEN ExpWait(a) ELSE CubicWait(a)

\* The wait after an outcome of attempt a.
DelayFor(outcome, a) ==
  CASE outcome = "limited" -> RetryAfter
    [] outcome = "netio" -> ExpWait(a)
    [] OTHER -> CubicWait(a)

Init ==
  /\ attempt = 0 /\ pc = "limit" /\ delay = 0
  /\ lastErr = "none" /\ result = "none" /\ log = <<>> /\ cancelled = FALSE

Return(what) == pc' = "returned" /\ result' = what

\* The loop goes on, or is over.
Again ==
  /\ attempt' = attempt + 1
  /\ IF attempt + 1 < Attempts
     THEN pc' = "limit" /\ UNCHANGED result
     ELSE Return("exhausted")

\* The rate limiter's Wait, which fails when the context is done.
Limit ==
  /\ pc = "limit"
  /\ IF attempt >= Attempts THEN Return("exhausted")
     ELSE IF cancelled THEN Return("cancelled")
     ELSE pc' = "call" /\ UNCHANGED result
  /\ UNCHANGED <<attempt, delay, lastErr, log, cancelled>>

Call ==
  /\ pc = "call"
  /\ \E outcome \in Outcomes :
       /\ log' = Append(log, [outcome |-> outcome, slept |-> 0])
       /\ lastErr' = IF outcome \in {"ok", "please"} THEN lastErr ELSE outcome
       /\ \/ outcome = "ok" /\ Return("ok") /\ UNCHANGED <<attempt, delay>>
          \/ outcome = "please" /\ Again /\ UNCHANGED delay
          \/ /\ outcome \in Transient
             /\ pc' = "sleep" /\ delay' = DelayFor(outcome, attempt)
             /\ UNCHANGED <<attempt, result>>
          \/ outcome \in {"badstatus", "other"} /\ Return("failed") /\ UNCHANGED <<attempt, delay>>
  /\ UNCHANGED cancelled

\* sleepCtx: the timer, or the context.
Sleep ==
  /\ pc = "sleep"
  /\ \/ log' = [log EXCEPT ![Len(log)].slept = Slept(delay)] /\ Again
     \/ cancelled /\ Return("cancelled") /\ UNCHANGED <<attempt, log>>
  /\ UNCHANGED <<delay, lastErr, cancelled>>

Cancel ==
  /\ ~cancelled /\ pc # "returned"
  /\ cancelled' = TRUE
  /\ UNCHANGED <<attempt, pc, delay, lastErr, result, log>>

Next == Limit \/ Call \/ Sleep \/ Cancel

Spec == Init /\ [][Next]_vars

----------------------------------------------------------------------------
(* Properties. *)

TypeOK ==
  /\ attempt \in Nat /\ pc \in {"limit", "call", "sleep", "returned"}
  /\ delay \in Int
  /\ lastErr \in Outcomes \union {"none"}
  /\ result \in {"none", "ok", "exhausted", "cancelled", "failed"}
  /\ cancelled \in BOOLEAN

\* Slack is never called again sooner than it asked for, the network never in less than a
\* second after an error and never less patiently than after the same error before, and no wait
\* is longer than the cap.
Patient ==
  \A i, j \in 1..Len(log) :
    LET x == log[i]  y == log[j] IN
    /\ x.outcome = "limited" /\ i < Len(log) => x.slept >= RetryAfter
    /\ x.outcome \in Transient \ {"limited"} => x.slept <= Cap /\ (i < Len(log) => x.slept >= 1)
    /\ (i < j /\ x.outcome = y.outcome /\ j < Len(log)) => x.slept <= y.slept

\* WithRetry makes no more calls than it is allowed, and it fails for good only after a failure
\* that no repetition mends, when the attempts are used up or when the context is done.
FailsForAReason ==
  /\ Len(log) <= Attempts \/ Attempts < 0
  /\ \A i \in 1..Len(log) : i < Len(log) => log[i].outcome \in Transient \union {"please"}
  /\ result = "ok" => log[Len(log)].outcome = "ok"
  /\ result = "exhausted" => Len(log) >= Attempts
=============================================================================
