------------------------------- MODULE TurnRetry -------------------------------
(***************************************************************************)
(* The retry loop of TurnRunner.run: one request is attempted until it is  *)
(* answered, given up or cancelled.  Times are in milliseconds.  The       *)
(* notices, the request clock and the wake lock follow the loop without    *)
(* steering it and are left out: the lock is taken in Init and released by *)
(* the finally that every settled phase passes.                            *)
(***************************************************************************)
EXTENDS Integers

CONSTANTS
  MAX_RETRIES, BASE_DELAY_MS, MAX_DELAY_MS,
  STREAM_INTERRUPT_MAX_RETRIES, STREAM_INTERRUPT_DELAY_MS,
  RETRY_AFTER_CAP_MS, ACCOUNT_LIMIT_BUDGET_MS,
  Errors,         \* what an attempt may be thrown
  RequestTimes,   \* how long an attempt may take
  Jitters,        \* what random() may return, in percent
  MaxSeen         \* where the history counters saturate

(* An error is [class, status, retryAfterMs] for an HttpError, [class,      *)
(* retryable] for an ApiStreamError and [class] for the others; a field an   *)
(* error does not have is None.                                              *)
None == -1


VARIABLES
  phase,        \* "request", "sleep", or how the turn settled
  wait,         \* what the latest sleep is for
  aborted,      \* turnInput.abortSignal.aborted
  sinceLimit,   \* time since firstAccountLimitAt; None before there is one
  transientAttempt,
  streamInterruptAttempt,
  seen          \* history: how many errors of each kind were thrown

vars == << phase, wait, aborted, sinceLimit, transientAttempt, streamInterruptAttempt, seen >>
counters == << sinceLimit, transientAttempt, streamInterruptAttempt, seen >>

Kinds == {"limit", "interrupt", "transient", "permanent"}
Settled == {"done", "thrown", "stopped", "cancelled"}

Waits == {0, RETRY_AFTER_CAP_MS, STREAM_INTERRUPT_DELAY_MS} \cup 0 .. (3 * MAX_DELAY_MS) \div 2

TypeOK ==
  /\ phase \in {"request", "sleep"} \cup Settled
  /\ wait \in Waits
  /\ aborted \in BOOLEAN
  /\ sinceLimit \in Nat \cup {None}
  /\ transientAttempt \in Nat
  /\ streamInterruptAttempt \in Nat
  /\ seen \in [Kinds -> Nat]

-----------------------------------------------------------------------------
isRetryable(e) ==
  \/ e.class = "ConnectionError"
  \/ e.class = "HttpError" /\ (e.status \in {408, 409, 429} \/ e.status >= 500)
  \/ e.class = "ApiStreamError" /\ e.retryable

isAccountLimit(e) ==
  e.class = "HttpError" /\ e.status = 429 /\ e.retryAfterMs # None /\ e.retryAfterMs > RETRY_AFTER_CAP_MS

(* BASE_DELAY_MS, doubled with every further attempt. *)
Doubled[n \in Nat] == IF n = 0 THEN BASE_DELAY_MS ELSE 2 * Doubled[n - 1]

BackoffBase(attempt) ==
  IF Doubled[attempt - 1] < MAX_DELAY_MS THEN Doubled[attempt - 1] ELSE MAX_DELAY_MS

(* The delay: the jitter adds up to half of the base. *)
BackoffDelay(attempt, jitter) == BackoffBase(attempt) + (BackoffBase(attempt) * jitter) \div 200

(* What the constants of backoff.ts are, and that no backoff is longer than *)
(* half again the longest (Doubled is a recursion: TLC evaluates this one). *)
BudgetsAssumption ==
  /\ {MAX_RETRIES, STREAM_INTERRUPT_MAX_RETRIES, STREAM_INTERRUPT_DELAY_MS, RETRY_AFTER_CAP_MS, MaxSeen} \subseteq Nat
  /\ MaxSeen > MAX_RETRIES /\ MaxSeen > STREAM_INTERRUPT_MAX_RETRIES /\ MaxSeen > 1
  /\ ACCOUNT_LIMIT_BUDGET_MS \in Nat \ {0} /\ RequestTimes \subseteq Nat
  /\ \A attempt \in 1 .. MAX_RETRIES, jitter \in Jitters : BackoffDelay(attempt, jitter) \in 0 .. (3 * MAX_DELAY_MS) \div 2

(* What the clock shows dt later.  It is only ever compared with the       *)
(* budget, so it stops there.                                              *)
Later(dt) ==
  IF sinceLimit = None THEN None
  ELSE IF sinceLimit + dt < ACCOUNT_LIMIT_BUDGET_MS THEN sinceLimit + dt ELSE ACCOUNT_LIMIT_BUDGET_MS

Init ==
  /\ phase = "request"
  /\ wait = 0
  /\ aborted \in BOOLEAN
  /\ sinceLimit = None
  /\ transientAttempt = 0
  /\ streamInterruptAttempt = 0
  /\ seen = [k \in Kinds |-> 0]

(* ESC, a wire cancel or a shutdown.                                       *)
Abort ==
  /\ phase \notin Settled /\ ~aborted
  /\ aborted' = TRUE
  /\ UNCHANGED << phase, wait, counters >>

Answered ==
  /\ phase = "request"
  /\ phase' = "done"
  /\ UNCHANGED << wait, aborted, counters >>

(* Thrown with the signal aborted: an in-flight cancel, whatever it is. *)
ThrownOnAbort ==
  /\ phase = "request" /\ aborted
  /\ phase' = "cancelled"
  /\ UNCHANGED << wait, aborted, counters >>

SleepFor(ms) == phase' = "sleep" /\ wait' = ms
SettleAs(how) == phase' = how /\ UNCHANGED wait

(* Variant: every account limit is taken for the first. *)
AccountLimitedAnew(dt) ==
  /\ sinceLimit' = 0
  /\ SleepFor(RETRY_AFTER_CAP_MS)
  /\ UNCHANGED << transientAttempt, streamInterruptAttempt >>

(* The decision to give up is made before any wait. *)
AccountLimited(dt) ==
  /\ sinceLimit' = IF sinceLimit = None THEN 0 ELSE Later(dt)
  /\ IF sinceLimit' >= ACCOUNT_LIMIT_BUDGET_MS
     THEN SettleAs("stopped") ELSE SleepFor(RETRY_AFTER_CAP_MS)
  /\ UNCHANGED << transientAttempt, streamInterruptAttempt >>

(* Variant: a dropped socket counts with the other failures too. *)
InterruptedShared(dt) ==
  /\ sinceLimit' = Later(dt)
  /\ streamInterruptAttempt' = streamInterruptAttempt + 1
  /\ transientAttempt' = transientAttempt + 1
  /\ IF streamInterruptAttempt' > STREAM_INTERRUPT_MAX_RETRIES
     THEN SettleAs("thrown") ELSE SleepFor(STREAM_INTERRUPT_DELAY_MS)

Interrupted(dt) ==
  /\ sinceLimit' = Later(dt)
  /\ streamInterruptAttempt' = streamInterruptAttempt + 1
  /\ IF streamInterruptAttempt' > STREAM_INTERRUPT_MAX_RETRIES
     THEN SettleAs("thrown") ELSE SleepFor(STREAM_INTERRUPT_DELAY_MS)
  /\ UNCHANGED transientAttempt

(* Everything else, retryable or not. *)
Transient(e, dt) ==
  /\ sinceLimit' = Later(dt)
  /\ transientAttempt' = transientAttempt + 1
  /\ IF ~isRetryable(e) \/ transientAttempt' > MAX_RETRIES
     THEN SettleAs("thrown")
     ELSE \E j \in Jitters : SleepFor(BackoffDelay(transientAttempt', j))
  /\ UNCHANGED streamInterruptAttempt

KindOf(e) ==
  IF isAccountLimit(e) THEN "limit"
  ELSE IF e.class = "StreamInterruptedError" THEN "interrupt"
  ELSE IF isRetryable(e) THEN "transient"
  ELSE "permanent"

(* An attempt that took dt throws e. *)
Thrown(e, dt) ==
  /\ phase = "request" /\ ~aborted
  /\ seen' = [seen EXCEPT ![KindOf(e)] = IF @ < MaxSeen THEN @ + 1 ELSE @]
  /\ IF KindOf(e) = "limit" THEN AccountLimited(dt)
     ELSE IF KindOf(e) = "interrupt" THEN Interrupted(dt) ELSE Transient(e, dt)
  /\ UNCHANGED aborted

(* Variant: the signal is not looked at after the sleep. *)
WakesRegardless ==
  /\ phase = "sleep"
  /\ phase' = "request" /\ sinceLimit' = Later(wait)
  /\ UNCHANGED << wait, aborted, transientAttempt, streamInterruptAttempt, seen >>

(* The sleep ends when its time is up, or at once when the signal is       *)
(* aborted; then nothing is sent any more.                                 *)
Wakes ==
  /\ phase = "sleep"
  /\ IF aborted
     THEN phase' = "cancelled" /\ UNCHANGED sinceLimit
     ELSE phase' = "request" /\ sinceLimit' = Later(wait)
  /\ UNCHANGED << wait, aborted, transientAttempt, streamInterruptAttempt, seen >>

Settles == Answered \/ ThrownOnAbort \/ \E e \in Errors, dt \in RequestTimes : Thrown(e, dt)

Next == Abort \/ Settles \/ Wakes

Spec == Init /\ [][Next]_vars

(* The transport settles every request and timers fire; nobody need abort, *)
(* and no request need succeed.                                            *)
FairSpec == Spec /\ WF_vars(Settles) /\ WF_vars(Wakes)
-----------------------------------------------------------------------------
(* Each kind of failure has a budget of its own, "neither starved nor      *)
(* extended" by the others: while the turn goes on no budget is            *)
(* overdrawn, and it throws only for a permanent error or when one budget  *)
(* is spent.  [the three branches of the catch in TurnRunner.run]          *)
BudgetsSeparate ==
  /\ phase \in {"request", "sleep"} =>
       /\ seen["permanent"] = 0
       /\ seen["transient"] <= MAX_RETRIES
       /\ seen["interrupt"] <= STREAM_INTERRUPT_MAX_RETRIES
  /\ phase = "thrown" =>
       \/ seen["permanent"] = 1
       \/ seen["transient"] = MAX_RETRIES + 1
       \/ seen["interrupt"] = STREAM_INTERRUPT_MAX_RETRIES + 1

(* Whatever order the errors come in, and however long the attempts take,  *)
(* the account limit is hit at most a fixed number of times: every wait    *)
(* for it uses up its length of the budget, which other waits only         *)
(* shorten.  And not too few: "a floor of 10 minutes of 429s before        *)
(* give-up" (backoff.ts), after at least one wait.                         *)
LimitHitsBounded ==
  /\ (seen["limit"] - 2) * RETRY_AFTER_CAP_MS < ACCOUNT_LIMIT_BUDGET_MS
  /\ phase = "stopped" => seen["limit"] > 1 /\ sinceLimit >= ACCOUNT_LIMIT_BUDGET_MS

(* Nothing is sent for a turn after it is cancelled, whether the cancel    *)
(* comes in a request or in a wait.  [the abort checks behind each await]  *)
NoRequestAfterAbort ==
  [][aborted /\ phase # "request" => phase' # "request"]_vars

(* Every turn settles, however the API fails, if every request does.       *)
TurnSettles == <>(phase \in Settled)

(* Both, with the types. *)
RetriesBounded == TypeOK /\ BudgetsSeparate /\ LimitHitsBounded
=============================================================================
