---------------------------- MODULE MCReplyProofs ----------------------------
(***************************************************************************)
(* What is proved of the components that MCReply composes, for its own     *)
(* specification: a step of it is a step of each component, or leaves the  *)
(* component's state alone, so a component's inductive invariant is one    *)
(* here.                                                                   *)
(***************************************************************************)
EXTENDS MCReply, SequenceTheorems, TLAPS

-----------------------------------------------------------------------------
(* The retries of a request.  While the turn goes on, the counter of a     *)
(* kind is the number of its errors, and the clock has moved on by a wait   *)
(* for each hit of the account limit but the one that is being waited out.  *)

Going == {"request", "sleep"}
Spent(hits, time) == time >= ACCOUNT_LIMIT_BUDGET_MS \/ time >= hits * RETRY_AFTER_CAP_MS

CountsOK ==
  /\ attempt \in Going \cup Request!Settled /\ wait \in Request!Waits /\ cancelledTurn \in BOOLEAN
  /\ seen \in [Request!Kinds -> 0 .. MaxSeen]
  /\ transientAttempt \in Nat /\ streamInterruptAttempt \in Nat

AttemptsOK ==
  /\ attempt \in Going =>
       /\ seen["permanent"] = 0
       /\ transientAttempt = seen["transient"] /\ transientAttempt <= MAX_RETRIES
       /\ streamInterruptAttempt = seen["interrupt"] /\ streamInterruptAttempt <= STREAM_INTERRUPT_MAX_RETRIES
  /\ Request!BudgetsSeparate

LimitClockOK ==
  /\ sinceLimit \in Nat \cup {Request!None}
  /\ sinceLimit = Request!None <=> seen["limit"] = 0
  /\ (attempt = "request" /\ seen["limit"] > 0) => Spent(seen["limit"], sinceLimit)
  /\ (attempt = "sleep" /\ seen["limit"] > 0) => Spent(seen["limit"], sinceLimit + wait)
  /\ (attempt \in Going /\ seen["limit"] > 0)
        => (seen["limit"] - 1) * RETRY_AFTER_CAP_MS < ACCOUNT_LIMIT_BUDGET_MS
  /\ Request!LimitHitsBounded

RetryInv == CountsOK /\ AttemptsOK /\ LimitClockOK

(* Multiplication is out of the way once a hit's worth of budget is a step. *)
LEMMA HitsTimesWait ==
  ASSUME NEW cap \in Nat, NEW hits \in Nat
  PROVE  /\ (hits + 1) * cap = hits * cap + cap
         /\ (hits + 1 - 1) * cap = hits * cap
         /\ (hits + 1 - 2) * cap = hits * cap - cap
         /\ (hits - 1) * cap = hits * cap - cap
         /\ (hits - 2) * cap = hits * cap - 2 * cap
         /\ hits * cap \in Nat
  OBVIOUS

LEMMA Kind ==
  ASSUME NEW e
  PROVE  /\ Request!KindOf(e) \in Request!Kinds
         /\ Request!KindOf(e) = "transient" => Request!isRetryable(e)
         /\ Request!KindOf(e) = "permanent" => ~Request!isRetryable(e)
  BY DEF Request!KindOf, Request!Kinds

(* The history after an error of a kind. *)
LEMMA Counted ==
  ASSUME Request!BudgetsAssumption, seen \in [Request!Kinds -> 0 .. MaxSeen], NEW kind \in Request!Kinds,
         seen' = [seen EXCEPT ![kind] = IF @ < MaxSeen THEN @ + 1 ELSE @]
  PROVE  /\ seen' \in [Request!Kinds -> 0 .. MaxSeen]
         /\ seen[kind] \in Nat /\ seen'[kind] = IF seen[kind] < MaxSeen THEN seen[kind] + 1 ELSE seen[kind]
         /\ \A other \in Request!Kinds : other # kind => seen'[other] = seen[other]
  BY DEF Request!BudgetsAssumption

LEMMA LaterProperties ==
  ASSUME Request!BudgetsAssumption, sinceLimit \in Nat \cup {Request!None}, NEW dt \in Nat
  PROVE  /\ Request!Later(dt) \in Nat \cup {Request!None}
         /\ Request!Later(dt) = Request!None <=> sinceLimit = Request!None
         /\ sinceLimit # Request!None => \/ Request!Later(dt) >= ACCOUNT_LIMIT_BUDGET_MS
                                 \/ Request!Later(dt) = sinceLimit + dt
  BY DEF Request!BudgetsAssumption, Request!Later, Request!None

LEMMA WaitsAreLengths == Request!BudgetsAssumption => Request!Waits \subseteq Nat
  BY DEF Request!BudgetsAssumption, Request!Waits

LEMMA InitRetry == ASSUME Request!BudgetsAssumption, Request!Init PROVE RetryInv
<1> USE DEF Request!Init, Request!Kinds, Going, Request!BudgetsAssumption
<1>1. CountsOK /\ AttemptsOK
  BY DEF CountsOK, AttemptsOK, Request!BudgetsSeparate, Request!Waits
<1>2. LimitClockOK
  BY HitsTimesWait DEF LimitClockOK, Request!LimitHitsBounded, Request!None
<1> QED
  BY <1>1, <1>2 DEF RetryInv

(* A cancel, an answer and an error thrown on a cancel count nothing. *)
LEMMA UncountedStep ==
  ASSUME RetryInv, Request!Abort \/ Request!Answered \/ Request!ThrownOnAbort \/ UNCHANGED Request!vars
  PROVE  RetryInv'
<1>1. /\ UNCHANGED <<wait, sinceLimit, transientAttempt, streamInterruptAttempt, seen>>
      /\ cancelledTurn' = cancelledTurn \/ cancelledTurn' = TRUE
      /\ attempt' = attempt \/ attempt' \in {"done", "cancelled"}
  BY DEF Request!Abort, Request!Answered, Request!ThrownOnAbort, Request!counters, Request!vars
<1>2. CountsOK' /\ AttemptsOK'
  BY <1>1 DEF RetryInv, CountsOK, AttemptsOK, Request!BudgetsSeparate, Going, Request!Settled
<1>3. LimitClockOK'
  BY <1>1 DEF RetryInv, LimitClockOK, Request!LimitHitsBounded, Going, Spent
<1> QED
  BY <1>2, <1>3 DEF RetryInv

LEMMA WakesStep == ASSUME Request!BudgetsAssumption, RetryInv, Request!Wakes PROVE RetryInv'
<1>1. attempt = "sleep" /\ attempt' \in {"request", "cancelled"}
      /\ UNCHANGED <<wait, cancelledTurn, transientAttempt, streamInterruptAttempt, seen>>
      /\ sinceLimit' = IF attempt' = "request" THEN Request!Later(wait) ELSE sinceLimit
  BY DEF Request!Wakes
<1>2. CountsOK' /\ AttemptsOK'
  BY <1>1 DEF RetryInv, CountsOK, AttemptsOK, Request!BudgetsSeparate, Going, Request!Settled
<1>3. LimitClockOK'
  <2>1. seen["limit"] \in Nat /\ wait \in Nat
    BY WaitsAreLengths DEF RetryInv, CountsOK, Request!Kinds, Request!BudgetsAssumption
  <2>2. Request!LimitHitsBounded'
    BY <1>1 DEF RetryInv, LimitClockOK, Request!LimitHitsBounded
  <2>3. seen["limit"] * RETRY_AFTER_CAP_MS \in Nat
    BY <2>1, HitsTimesWait DEF Request!BudgetsAssumption
  <2>4. (attempt' = "request" /\ seen["limit"] > 0) => Spent(seen["limit"], sinceLimit')
    BY <1>1, <2>1, <2>3, LaterProperties DEF RetryInv, LimitClockOK, Spent, Request!BudgetsAssumption
  <2> QED
    BY <1>1, <2>1, <2>2, <2>4, LaterProperties DEF RetryInv, LimitClockOK, Going, Spent
<1> QED
  BY <1>2, <1>3 DEF RetryInv

(* An error that is no limit leaves the hits alone; the clock has gone on. *)
LEMMA ClockGoesOn ==
  ASSUME Request!BudgetsAssumption, RetryInv, attempt = "request",
         NEW dt \in Nat, sinceLimit' = Request!Later(dt),
         seen'["limit"] = seen["limit"], attempt' \in {"sleep", "thrown"}, wait' \in Nat
  PROVE  LimitClockOK'
<1>1. seen["limit"] \in Nat
  BY DEF RetryInv, CountsOK, Request!Kinds, Request!BudgetsAssumption
<1>2. seen["limit"] * RETRY_AFTER_CAP_MS \in Nat
  BY <1>1, HitsTimesWait DEF Request!BudgetsAssumption
<1>3. (attempt' = "sleep" /\ seen["limit"] > 0) => Spent(seen["limit"], sinceLimit' + wait')
  BY <1>1, <1>2, LaterProperties DEF RetryInv, LimitClockOK, Spent, Request!BudgetsAssumption,
    Request!None
<1>4. Request!LimitHitsBounded'
  BY DEF RetryInv, LimitClockOK, Request!LimitHitsBounded
<1> QED
  BY <1>1, <1>3, <1>4, LaterProperties DEF RetryInv, LimitClockOK, Going

LEMMA ThrownStep ==
  ASSUME Request!BudgetsAssumption, RetryInv, NEW e \in Errors, NEW dt \in RequestTimes, Request!Thrown(e, dt)
  PROVE  RetryInv'
<1>1. attempt = "request" /\ dt \in Nat /\ Request!KindOf(e) \in Request!Kinds
  BY Kind DEF Request!Thrown, Request!BudgetsAssumption
<1>2. /\ seen' \in [Request!Kinds -> 0 .. MaxSeen]
      /\ seen[Request!KindOf(e)] \in Nat
      /\ seen'[Request!KindOf(e)] = IF seen[Request!KindOf(e)] < MaxSeen
                                    THEN seen[Request!KindOf(e)] + 1 ELSE seen[Request!KindOf(e)]
      /\ \A other \in Request!Kinds : other # Request!KindOf(e) => seen'[other] = seen[other]
  BY <1>1, Counted DEF Request!Thrown, RetryInv, CountsOK
<1>3. /\ seen["permanent"] = 0
      /\ transientAttempt = seen["transient"] /\ transientAttempt <= MAX_RETRIES
      /\ streamInterruptAttempt = seen["interrupt"] /\ streamInterruptAttempt <= STREAM_INTERRUPT_MAX_RETRIES
  BY <1>1 DEF RetryInv, AttemptsOK, Going
<1>4. transientAttempt \in Nat /\ streamInterruptAttempt \in Nat /\ wait \in Request!Waits
      /\ cancelledTurn' = cancelledTurn /\ cancelledTurn \in BOOLEAN
  BY DEF Request!Thrown, RetryInv, CountsOK
<1>5. CASE Request!KindOf(e) = "limit"
  <2>1. Request!AccountLimited(dt)
    BY <1>5 DEF Request!Thrown
  <2>2. /\ UNCHANGED <<transientAttempt, streamInterruptAttempt>>
        /\ attempt' \in {"stopped", "sleep"} /\ wait' \in Request!Waits
    BY <1>4, <2>1 DEF Request!AccountLimited, Request!SettleAs, Request!SleepFor, Request!Waits
  <2>3. CountsOK' /\ AttemptsOK'
    BY <1>2, <1>3, <1>4, <1>5, <2>2 DEF CountsOK, AttemptsOK, Request!BudgetsSeparate, Going,
      Request!Settled, Request!Kinds
  <2>4. LimitClockOK'
    <3> DEFINE hits == seen["limit"]
               B    == ACCOUNT_LIMIT_BUDGET_MS
               cap  == RETRY_AFTER_CAP_MS
    <3>1. /\ sinceLimit' = IF sinceLimit = Request!None THEN 0 ELSE Request!Later(dt)
          /\ attempt' = "stopped" <=> sinceLimit' >= B
          /\ attempt' = "sleep" => wait' = cap
          /\ wait' \in {wait, cap}
      BY <2>1 DEF Request!AccountLimited, Request!SettleAs, Request!SleepFor
    <3>2. hits \in Nat /\ hits' = (IF hits < MaxSeen THEN hits + 1 ELSE hits) /\ hits' \in Nat /\ hits' > 0
      BY <1>2, <1>5 DEF Request!BudgetsAssumption
    <3>3. sinceLimit' \in Nat
      BY <3>1, <1>1, LaterProperties DEF RetryInv, LimitClockOK, Request!None
    <3>4. CASE sinceLimit = Request!None
      <4>1. hits = 0 /\ hits' = 1 /\ sinceLimit' = 0 /\ attempt' = "sleep"
        BY <2>2, <3>1, <3>2, <3>4 DEF RetryInv, LimitClockOK, Request!BudgetsAssumption
      <4>2. (1 - 1) * cap = 0 /\ 1 * cap = cap /\ (1 - 2) * cap = -cap
        BY DEF Request!BudgetsAssumption
      <4> QED
        BY <1>4, <3>1, <4>1, <4>2 DEF LimitClockOK, Request!LimitHitsBounded, Spent, Going,
          Request!BudgetsAssumption, Request!None
    <3>5. CASE sinceLimit # Request!None
      <4>1. hits > 0 /\ Spent(hits, sinceLimit) /\ (hits - 1) * cap < B
        BY <1>1, <3>2, <3>5 DEF RetryInv, LimitClockOK, Going
      <4>2. sinceLimit' >= B \/ sinceLimit' = sinceLimit + dt
        BY <3>1, <3>5, <1>1, LaterProperties DEF RetryInv, LimitClockOK
      <4>3. /\ hits * cap \in Nat
            /\ (hits - 1) * cap = hits * cap - cap /\ (hits - 2) * cap = hits * cap - 2 * cap
            /\ (hits + 1) * cap = hits * cap + cap
            /\ (hits + 1 - 1) * cap = hits * cap /\ (hits + 1 - 2) * cap = hits * cap - cap
        BY <3>2, HitsTimesWait DEF Request!BudgetsAssumption
      <4>4. sinceLimit \in Nat /\ cap \in Nat /\ B \in Nat
        BY <3>5 DEF RetryInv, LimitClockOK, Request!BudgetsAssumption
      <4>5. sinceLimit' >= B \/ sinceLimit' >= hits * cap
        BY <1>1, <4>1, <4>2, <4>3, <4>4 DEF Spent
      <4>6. hits' * cap \in Nat /\ hits' * cap <= hits * cap + cap
            /\ (hits' - 1) * cap <= hits * cap /\ (hits' - 2) * cap <= hits * cap - cap
            /\ (hits' - 1) * cap \in Int /\ (hits' - 2) * cap \in Int
        BY <3>2, <4>3, <4>4
      <4>7. hits * cap - cap < B
        BY <4>1, <4>3
      <4>8. attempt' = "sleep" => Spent(hits', sinceLimit' + wait') /\ (hits' - 1) * cap < B
        <5> HIDE DEF hits, B, cap
        <5> SUFFICES ASSUME attempt' = "sleep"
                     PROVE  Spent(hits', sinceLimit' + wait') /\ (hits' - 1) * cap < B
          OBVIOUS
        <5>1. sinceLimit' < B /\ wait' = cap
          BY <3>1, <3>3, <4>4, <2>2
        <5>2. sinceLimit' + wait' >= hits' * cap
          BY <5>1, <3>3, <4>4, <4>5, <4>6, <4>3
        <5>3. (hits' - 1) * cap < B
          BY <5>1, <3>3, <4>4, <4>5, <4>6, <4>3
        <5> QED
          BY <5>2, <5>3 DEF Spent, cap, hits
      <4>9. (hits' - 2) * cap < B
        BY <4>3, <4>4, <4>6, <4>7
      <4>10. attempt' = "stopped" => hits' > 1 /\ sinceLimit' >= B
        BY <3>1, <3>2, <4>1 DEF Request!BudgetsAssumption
      <4> QED
        BY <1>4, <2>2, <3>1, <3>2, <3>3, <4>4, <4>8, <4>9, <4>10 DEF LimitClockOK,
          Request!LimitHitsBounded, Going, Request!None
    <3> QED
      BY <3>4, <3>5
  <2> QED
    BY <2>3, <2>4 DEF RetryInv
<1>6. CASE Request!KindOf(e) = "interrupt"
  <2>1. Request!Interrupted(dt)
    BY <1>6 DEF Request!Thrown
  <2>2. /\ UNCHANGED transientAttempt /\ streamInterruptAttempt' = streamInterruptAttempt + 1
        /\ sinceLimit' = Request!Later(dt) /\ attempt' \in {"thrown", "sleep"} /\ wait' \in Request!Waits
        /\ attempt' = "thrown" <=> streamInterruptAttempt' > STREAM_INTERRUPT_MAX_RETRIES
    BY <1>4, <2>1 DEF Request!Interrupted, Request!SettleAs, Request!SleepFor, Request!Waits
  <2>3. CountsOK' /\ AttemptsOK'
    BY <1>2, <1>3, <1>4, <1>6, <2>2 DEF CountsOK, AttemptsOK, Request!BudgetsSeparate, Going,
      Request!Settled, Request!Kinds, Request!BudgetsAssumption
  <2>4. LimitClockOK'
    BY <1>1, <1>2, <1>6, <2>2, ClockGoesOn, WaitsAreLengths DEF Request!Kinds
  <2> QED
    BY <2>3, <2>4 DEF RetryInv
<1>7. CASE Request!KindOf(e) \in {"transient", "permanent"}
  <2>1. Request!Transient(e, dt)
    BY <1>7 DEF Request!Thrown
  <2>2. /\ UNCHANGED streamInterruptAttempt /\ transientAttempt' = transientAttempt + 1
        /\ sinceLimit' = Request!Later(dt) /\ attempt' \in {"thrown", "sleep"}
        /\ attempt' = "thrown" <=> (~Request!isRetryable(e) \/ transientAttempt' > MAX_RETRIES)
    BY <2>1 DEF Request!Transient, Request!SettleAs, Request!SleepFor
  <2>3. wait' \in Request!Waits
    <3>1. CASE attempt' = "thrown"
      BY <1>4, <2>1, <2>2, <3>1 DEF Request!Transient, Request!SettleAs
    <3>2. CASE attempt' = "sleep"
      <4>1. PICK j \in Jitters : wait' = Request!BackoffDelay(transientAttempt', j)
        BY <2>1, <2>2, <3>2 DEF Request!Transient, Request!SleepFor
      <4>2. transientAttempt' \in 1 .. MAX_RETRIES
        BY <1>4, <2>2, <3>2 DEF Request!BudgetsAssumption
      <4> QED
        BY <4>1, <4>2 DEF Request!BudgetsAssumption, Request!Waits
    <3> QED
      BY <2>2, <3>1, <3>2
  <2>4. CountsOK' /\ AttemptsOK'
    BY <1>2, <1>3, <1>4, <1>7, <2>2, <2>3, Kind DEF CountsOK, AttemptsOK, Request!BudgetsSeparate,
      Going, Request!Settled, Request!Kinds, Request!BudgetsAssumption
  <2>5. LimitClockOK'
    BY <1>1, <1>2, <1>7, <2>2, <2>3, ClockGoesOn, WaitsAreLengths DEF Request!Kinds
  <2> QED
    BY <2>4, <2>5 DEF RetryInv
<1> QED
  BY <1>1, <1>5, <1>6, <1>7 DEF Request!Kinds

LEMMA NextRetry == ASSUME Request!BudgetsAssumption, RetryInv, [Request!Next]_(Request!vars) PROVE RetryInv'
<1>1. CASE Request!Abort \/ Request!Answered \/ Request!ThrownOnAbort \/ UNCHANGED Request!vars
  BY <1>1, UncountedStep
<1>2. ASSUME NEW e \in Errors, NEW dt \in RequestTimes, Request!Thrown(e, dt) PROVE RetryInv'
  BY <1>2, ThrownStep
<1>3. CASE Request!Wakes
  BY <1>3, WakesStep
<1> QED
  BY <1>1, <1>2, <1>3 DEF Request!Next, Request!Settles

-----------------------------------------------------------------------------
(* The asks.  Between the handlers the lists differ, each difference by an *)
(* answer that is there: a key empties the resolver first, the bus leaves   *)
(* it, and the end of a query takes the screen before the handlers have let *)
(* go of their asks.                                                       *)
Shown == Asks!ToSet(pendingTools)

ListsOK ==
  /\ served = Asks!Racing
  /\ Shown \subseteq Asks!Racing /\ resolvers \subseteq Shown
  /\ pendingTools # << >> => selectedTool < Len(pendingTools)

AnswersOK ==
  \A t \in ToolId :
    /\ answer[t] # NoAsk => ask[t] # "none"
    /\ t \in Asks!Racing \ resolvers => answer[t] # NoAsk
    /\ t \in resolvers /\ answer[t] # NoAsk => answer[t].by = "wire"
    /\ answer[t] # NoAsk /\ answer[t].approved => << t, TRUE >> \in given

RequestsOK ==
  /\ \A t \in ToolId :
       /\ t \in requests => ask[t] = "none" /\ pending[t] \in {"pending", "rejected"}
       /\ ask[t] # "none" => pending[t] # "none"
       /\ t \in Asks!ToSet(timers) => ask[t] # "none"
  /\ query = "idle" => /\ requests = {} /\ Shown = {}
                       /\ \A t \in Asks!Racing : answer[t] # NoAsk /\ answer[t].by = "clear"

OutcomesOK ==
  /\ Asks!ApprovedByName
  /\ \A k \in DOMAIN settled : ask[settled[k][1]] = "done"

AskInv == Asks!TypeOK /\ ListsOK /\ AnswersOK /\ RequestsOK /\ OutcomesOK
-----------------------------------------------------------------------------
(* Lists whose elements differ: what is appended, and what is spliced out.  *)

LEMMA AppendsOne ==
  ASSUME NEW S, NEW s \in Seq(S), Asks!IsInjective(s), NEW e \in S, e \notin Asks!ToSet(s)
  PROVE  /\ Append(s, e) \in Seq(S) /\ Asks!IsInjective(Append(s, e))
         /\ Asks!ToSet(Append(s, e)) = Asks!ToSet(s) \cup {e}
  <1> DEFINE r == Append(s, e)
  <1>1. /\ r \in Seq(S) /\ Len(r) = Len(s) + 1
        /\ \A i \in 1 .. Len(s) : r[i] = s[i]
        /\ r[Len(s) + 1] = e
    BY AppendProperties
  <1>2. DOMAIN s = 1 .. Len(s) /\ DOMAIN r = 1 .. Len(s) + 1 /\ Len(s) \in Nat
    BY <1>1, LenProperties
  <1> HIDE DEF r
  <1>3. \A i \in 1 .. Len(s) + 1 : i \in 1 .. Len(s) \/ i = Len(s) + 1
    BY <1>2
  <1>4. \A i \in 1 .. Len(s) : r[i] \in Asks!ToSet(s) /\ r[i] # e
    BY <1>1, <1>2 DEF Asks!ToSet
  <1>5. Asks!IsInjective(r)
    BY <1>1, <1>2, <1>3, <1>4 DEF Asks!IsInjective
  <1>6. Asks!ToSet(r) = Asks!ToSet(s) \cup {e}
    BY <1>1, <1>2, <1>3 DEF Asks!ToSet
  <1>7. QED
    BY <1>1, <1>5, <1>6 DEF r

LEMMA FirstIndex ==
  ASSUME NEW S, NEW s \in Seq(S), Asks!IsInjective(s), NEW e \in Asks!ToSet(s)
  PROVE  \E i \in 1 .. Len(s) : s[i] = e /\ Asks!RemoveFirst(s, e) = Asks!RemoveAt(s, i)
  <1>1. PICK i \in 1 .. Len(s) : s[i] = e
    BY DEF Asks!ToSet
  <1>2. \A j \in 1 .. Len(s) : s[j] = e => j = i
    BY <1>1 DEF Asks!IsInjective
  <1>3. {j \in 1 .. Len(s) : s[j] = e} = {i}
    BY <1>1, <1>2
  <1>4. Asks!Min({i}) = i
    BY DEF Asks!Min
  <1>5. Asks!RemoveFirst(s, e) = Asks!RemoveAt(s, i)
    BY <1>1, <1>3, <1>4 DEF Asks!RemoveFirst, Asks!SelectInSeq
  <1>6. QED
    BY <1>1, <1>5

LEMMA SpliceShape ==
  ASSUME NEW S, NEW s \in Seq(S), NEW i \in 1 .. Len(s)
  PROVE  /\ Asks!RemoveAt(s, i) \in Seq(S)
         /\ Len(Asks!RemoveAt(s, i)) = Len(s) - 1
         /\ \A k \in 1 .. Len(s) - 1 : Asks!RemoveAt(s, i)[k] = IF k < i THEN s[k] ELSE s[k + 1]
  <1> DEFINE before == SubSeq(s, 1, i - 1)
             behind == SubSeq(s, i + 1, Len(s))
  <1>1. Len(s) \in Nat /\ \A k \in 1 .. Len(s) : s[k] \in S
    BY LenProperties
  <1>2. before \in Seq(S) /\ Len(before) = i - 1 /\ \A k \in 1 .. i - 1 : before[k] = s[k]
    BY <1>1, SubSeqProperties
  <1>3. behind \in Seq(S) /\ Len(behind) = Len(s) - i /\ \A k \in 1 .. Len(s) - i : behind[k] = s[k + i]
    BY <1>1, SubSeqProperties
  <1> HIDE DEF before, behind
  <1>3a. /\ before \o behind \in Seq(S) /\ Len(before \o behind) = Len(before) + Len(behind)
         /\ \A k \in 1 .. Len(before) + Len(behind) :
              (before \o behind)[k] = IF k <= Len(before) THEN before[k] ELSE behind[k - Len(before)]
    BY <1>2, <1>3, ConcatProperties
  <1> DEFINE both == before \o behind
  <1> HIDE DEF both
  <1>4. /\ both \in Seq(S) /\ Len(both) = Len(s) - 1
        /\ \A k \in 1 .. Len(s) - 1 : both[k] = IF k <= i - 1 THEN before[k] ELSE behind[k - (i - 1)]
    <2>1. Len(before) = i - 1 /\ Len(before) + Len(behind) = Len(s) - 1
      BY <1>1, <1>2, <1>3
    <2>2. QED
      BY <1>3a, <2>1 DEF both
  <1>5. \A k \in 1 .. Len(s) - 1 : both[k] = IF k < i THEN s[k] ELSE s[k + 1]
    <2> SUFFICES ASSUME NEW k \in 1 .. Len(s) - 1
                 PROVE  both[k] = IF k < i THEN s[k] ELSE s[k + 1]
      OBVIOUS
    <2>1. CASE k < i
      <3>1. k <= i - 1 /\ k \in 1 .. i - 1
        BY <1>1, <2>1
      <3>2. QED
        BY <1>2, <1>4, <2>1, <3>1
    <2>2. CASE ~(k < i)
      <3>1. ~(k <= i - 1) /\ k - (i - 1) \in 1 .. Len(s) - i /\ (k - (i - 1)) + i = k + 1
        BY <1>1, <2>2
      <3>2. behind[k - (i - 1)] = s[k + 1]
        BY <1>3, <3>1
      <3>3. QED
        BY <1>4, <2>2, <3>1, <3>2
    <2>3. QED
      BY <2>1, <2>2
  <1>6. QED
    BY <1>4, <1>5 DEF Asks!RemoveAt, before, behind, both

LEMMA RemovesOne ==
  ASSUME NEW S, NEW s \in Seq(S), Asks!IsInjective(s), NEW e
  PROVE  /\ Asks!RemoveFirst(s, e) \in Seq(S) /\ Asks!IsInjective(Asks!RemoveFirst(s, e))
         /\ Asks!ToSet(Asks!RemoveFirst(s, e)) = Asks!ToSet(s) \ {e}
         /\ Len(Asks!RemoveFirst(s, e)) = IF e \in Asks!ToSet(s) THEN Len(s) - 1 ELSE Len(s)
  <1>1. CASE e \notin Asks!ToSet(s)
    <2>1. Asks!RemoveFirst(s, e) = s
      BY <1>1 DEF Asks!RemoveFirst, Asks!ToSet
    <2>2. QED
      BY <1>1, <2>1
  <1>2. CASE e \in Asks!ToSet(s)
    <2>1. PICK i \in 1 .. Len(s) : s[i] = e /\ Asks!RemoveFirst(s, e) = Asks!RemoveAt(s, i)
      BY <1>2, FirstIndex
    <2> DEFINE r == Asks!RemoveAt(s, i)
    <2>2. /\ r \in Seq(S) /\ Len(r) = Len(s) - 1
          /\ \A k \in 1 .. Len(s) - 1 : r[k] = IF k < i THEN s[k] ELSE s[k + 1]
      BY SpliceShape
    <2>3. DOMAIN s = 1 .. Len(s) /\ DOMAIN r = 1 .. Len(s) - 1 /\ Len(s) \in Nat
      BY <2>2, LenProperties
    <2> HIDE DEF r
    <2>4. \A k \in 1 .. Len(s) - 1 : \E j \in 1 .. Len(s) : r[k] = s[j] /\ j # i /\ j = IF k < i THEN k ELSE k + 1
      BY <2>2, <2>3
    <2>5. \A j \in 1 .. Len(s) : j # i => \E k \in 1 .. Len(s) - 1 : r[k] = s[j]
      <3> SUFFICES ASSUME NEW j \in 1 .. Len(s), j # i PROVE \E k \in 1 .. Len(s) - 1 : r[k] = s[j]
        OBVIOUS
      <3>1. CASE j < i
        BY <2>2, <2>3, <3>1
      <3>2. CASE j > i
        <4>1. j - 1 \in 1 .. Len(s) - 1 /\ ~(j - 1 < i) /\ (j - 1) + 1 = j
          BY <2>3, <3>2
        <4>2. QED
          BY <2>2, <4>1
      <3>3. QED
        BY <3>1, <3>2
    <2>6. Asks!IsInjective(r)
      BY <2>3, <2>4 DEF Asks!IsInjective
    <2>7. \A j \in 1 .. Len(s) : s[j] = e <=> j = i
      BY <2>1, <2>3 DEF Asks!IsInjective
    <2>8. Asks!ToSet(r) = Asks!ToSet(s) \ {e}
      <3>1. \A k \in 1 .. Len(s) - 1 : r[k] \in Asks!ToSet(s) \ {e}
        BY <2>3, <2>4, <2>7 DEF Asks!ToSet
      <3>2. \A x \in Asks!ToSet(s) \ {e} : \E k \in 1 .. Len(s) - 1 : r[k] = x
        BY <2>3, <2>5, <2>7 DEF Asks!ToSet
      <3>3. Asks!ToSet(r) = {r[k] : k \in 1 .. Len(s) - 1}
        BY <2>3 DEF Asks!ToSet
      <3>4. QED
        BY <3>1, <3>2, <3>3
    <2>9. QED
      BY <1>2, <2>1, <2>2, <2>6, <2>8 DEF r
  <1>3. QED
    BY <1>1, <1>2

(* The selection after a removal, min(selectedTool, max(0, n - 1)) of what  *)
(* is left.                                                                *)
LEMMA Clamped ==
  ASSUME NEW a \in Nat, NEW n \in Nat
  PROVE  /\ Asks!Min({a, Asks!Max({0, n - 2})}) \in Nat
         /\ n > 1 => Asks!Min({a, Asks!Max({0, n - 2})}) < n - 1
  <1>1. \A x, y \in Int : Asks!Max({x, y}) = IF x >= y THEN x ELSE y
    BY DEF Asks!Max
  <1>2. \A x, y \in Int : Asks!Min({x, y}) = IF x <= y THEN x ELSE y
    BY DEF Asks!Min
  <1>3. Asks!Max({0, n - 2}) \in Nat /\ (n > 1 => Asks!Max({0, n - 2}) < n - 1)
    BY <1>1
  <1> DEFINE m == Asks!Max({0, n - 2})
  <1> HIDE DEF m
  <1>4. m \in Nat /\ (n > 1 => m < n - 1)
    BY <1>3 DEF m
  <1>5. Asks!Min({a, m}) \in Nat /\ (n > 1 => Asks!Min({a, m}) < n - 1)
    BY <1>2, <1>4
  <1>6. QED
    BY <1>5 DEF m
-----------------------------------------------------------------------------
(* The steps.                                                              *)

LEMMA InitAsk == Asks!Init => AskInv
  <1> SUFFICES ASSUME Asks!Init PROVE AskInv
    OBVIOUS
  <1>1. Asks!ToSet(<< >>) = {} /\ Asks!IsInjective(<< >>)
    BY DEF Asks!ToSet, Asks!IsInjective
  <1>2. Asks!Racing = {}
    BY DEF Asks!Racing, Asks!Init
  <1>3. Asks!TypeOK
    BY <1>1 DEF Asks!Init, Asks!TypeOK
  <1>4. ListsOK
    BY <1>1, <1>2 DEF Asks!Init, ListsOK, Shown
  <1>5. AnswersOK
    BY <1>2 DEF Asks!Init, AnswersOK
  <1>6. RequestsOK
    BY <1>1, <1>2 DEF Asks!Init, RequestsOK, Shown
  <1>7. OutcomesOK
    BY DEF Asks!Init, OutcomesOK, Asks!ApprovedByName
  <1>8. QED
    BY <1>3, <1>4, <1>5, <1>6, <1>7 DEF AskInv

(* What a step that leaves the asks and the lists alone cannot disturb.     *)
LEMMA SameAsks ==
  ASSUME AskInv, UNCHANGED << ask, pendingTools, selectedTool, resolvers, served, settled, timers >>
  PROVE  Asks!Racing' = Asks!Racing /\ Shown' = Shown /\ ListsOK'
  BY DEF AskInv, ListsOK, Asks!Racing, Shown

LEMMA StartKeeps ==
  ASSUME AskInv, Asks!Start
  PROVE  AskInv'
  <1>1. Asks!Racing' = Asks!Racing /\ Shown' = Shown /\ ListsOK'
    BY SameAsks DEF Asks!Start, Asks!screen, Asks!bell
  <1>2. Asks!TypeOK'
    BY DEF AskInv, Asks!TypeOK, Asks!Start, Asks!screen, Asks!bell
  <1>3. AnswersOK'
    BY <1>1 DEF AskInv, AnswersOK, Asks!Start, Asks!screen, Asks!bell
  <1>4. RequestsOK'
    BY <1>1 DEF AskInv, RequestsOK, Asks!Start, Asks!screen, Asks!bell
  <1>5. OutcomesOK'
    BY DEF AskInv, OutcomesOK, Asks!ApprovedByName, Asks!Start, Asks!screen, Asks!bell
  <1>6. QED
    BY <1>1, <1>2, <1>3, <1>4, <1>5 DEF AskInv

LEMMA BatchKeeps ==
  ASSUME AskInv, NEW tools \in SUBSET ToolId, Asks!Batch(tools)
  PROVE  AskInv'
  <1>1. Asks!Racing' = Asks!Racing /\ Shown' = Shown /\ ListsOK'
    BY SameAsks DEF Asks!Batch, Asks!screen, Asks!bell
  <1>2. Asks!TypeOK'
    BY DEF AskInv, Asks!TypeOK, Asks!Batch, Asks!screen, Asks!bell
  <1>3. AnswersOK'
    BY <1>1 DEF AskInv, AnswersOK, Asks!Batch, Asks!screen, Asks!bell
  <1>4. RequestsOK'
    BY <1>1 DEF AskInv, Asks!TypeOK, RequestsOK, Asks!Batch, Asks!screen, Asks!bell
  <1>5. OutcomesOK'
    BY DEF AskInv, Asks!TypeOK, OutcomesOK, Asks!ApprovedByName, Asks!Batch, Asks!screen, Asks!bell
  <1>6. QED
    BY <1>1, <1>2, <1>3, <1>4, <1>5 DEF AskInv

LEMMA CancelKeeps ==
  ASSUME AskInv, Asks!Cancel
  PROVE  AskInv'
  <1>1. Asks!Racing' = Asks!Racing /\ Shown' = Shown /\ ListsOK'
    BY SameAsks DEF Asks!Cancel, Asks!screen, Asks!bell
  <1>2. Asks!TypeOK'
    BY DEF AskInv, Asks!TypeOK, Asks!Cancel, Asks!screen, Asks!bell
  <1>3. AnswersOK'
    BY <1>1 DEF AskInv, AnswersOK, Asks!Cancel, Asks!screen, Asks!bell
  <1>4. RequestsOK'
    BY <1>1 DEF AskInv, Asks!TypeOK, RequestsOK, Asks!Cancel, Asks!screen, Asks!bell
  <1>5. OutcomesOK'
    BY DEF AskInv, Asks!TypeOK, OutcomesOK, Asks!ApprovedByName, Asks!Cancel, Asks!screen, Asks!bell
  <1>6. QED
    BY <1>1, <1>2, <1>3, <1>4, <1>5 DEF AskInv

LEMMA QueryEndsKeeps ==
  ASSUME Asks!NoneAssumption, AskInv, Asks!QueryEnds
  PROVE  AskInv'
  <1> DEFINE denied == [by |-> "clear", approved |-> FALSE]
  <1>1. Asks!Racing' = Asks!Racing /\ Shown' = {}
    BY DEF Asks!QueryEnds, Asks!Racing, Shown, Asks!ToSet
  <1>2. ListsOK'
    BY <1>1 DEF AskInv, ListsOK, Asks!QueryEnds
  <1>3. denied \in Asks!Answer /\ denied.by = "clear" /\ ~denied.approved /\ denied # NoAsk
    <2>1. denied \in Asks!Answer /\ denied.by = "clear" /\ ~denied.approved
      BY DEF Asks!Answer
    <2>2. QED
      BY ONLY <2>1, Asks!NoneAssumption DEF Asks!NoneAssumption
  <1> HIDE DEF denied
  <1>4. /\ answer \in [ToolId -> Asks!Answer \cup {NoAsk}]
        /\ answer' = [t \in ToolId |-> IF t \in resolvers THEN denied ELSE answer[t]]
    BY DEF AskInv, Asks!TypeOK, Asks!QueryEnds, denied
  <1>5. << >> \in Seq(ToolId) /\ Asks!IsInjective(<< >>)
    BY DEF Asks!IsInjective
  <1>6. Asks!TypeOK'
    <2>1. answer' \in [ToolId -> Asks!Answer \cup {NoAsk}]
      BY <1>3, <1>4
    <2>2. pendingTools' = << >> /\ resolvers' = {} /\ query' = "idle"
          /\ UNCHANGED << pending, requests, ask, selectedTool, served, settled, timers, timer, given >>
      BY DEF Asks!QueryEnds, Asks!bell
    <2>3. QED
      BY <1>5, <2>1, <2>2 DEF AskInv, Asks!TypeOK
  <1>7. /\ Asks!Racing = resolvers /\ resolvers' = {} /\ requests' = {} /\ ask' = ask /\ given' = given
        /\ pending' = pending /\ timers' = timers
    BY DEF AskInv, ListsOK, AnswersOK, Asks!Racing, Asks!QueryEnds, Asks!Quiet, Asks!bell
  <1>8. AnswersOK'
    <2> SUFFICES ASSUME NEW t \in ToolId
                 PROVE  /\ answer'[t] # NoAsk => ask[t] # "none"
                        /\ t \in Asks!Racing => answer'[t] # NoAsk
                        /\ answer'[t] # NoAsk /\ answer'[t].approved => << t, TRUE >> \in given
      BY <1>1, <1>7 DEF AnswersOK
    <2>1. CASE t \in resolvers
      BY <1>3, <1>4, <1>7, <2>1 DEF Asks!Racing
    <2>2. CASE t \notin resolvers
      BY <1>4, <1>7, <2>2 DEF AskInv, AnswersOK
    <2>3. QED
      BY <2>1, <2>2
  <1>9. RequestsOK'
    <2>1. \A t \in Asks!Racing : answer'[t] # NoAsk /\ answer'[t].by = "clear"
      BY <1>3, <1>4, <1>7 DEF Asks!Racing
    <2>2. QED
      BY <1>1, <1>7, <2>1 DEF AskInv, RequestsOK
  <1>10. OutcomesOK'
    BY DEF AskInv, OutcomesOK, Asks!ApprovedByName, Asks!QueryEnds
  <1>11. QED
    BY <1>2, <1>6, <1>8, <1>9, <1>10 DEF AskInv

LEMMA SettledTools ==
  ASSUME AskInv
  PROVE  \A k \in DOMAIN settled : settled[k] \in ToolId \X BOOLEAN /\ settled[k][1] \in ToolId
  BY LenProperties DEF AskInv, Asks!TypeOK

(* What the coordinator makes of an outcome.                                *)
LEMMA Responds ==
  ASSUME AskInv, NEW t \in ToolId, NEW approved \in BOOLEAN, Asks!Responded(t, approved)
  PROVE  /\ pending' \in [ToolId -> {"none", "pending", "approved", "rejected"}]
         /\ \A u \in ToolId : u # t => pending'[u] = pending[u]
         /\ pending'[t] = "approved" => pending[t] = "approved" \/ approved
         /\ \A u \in ToolId : pending[u] # "none" => pending'[u] # "none"
  BY DEF AskInv, Asks!TypeOK, Asks!Responded

LEMMA DecideKeeps ==
  ASSUME AskInv, NEW t \in ToolId, NEW approved \in BOOLEAN, Asks!Decide(t, approved)
  PROVE  AskInv'
  <1> DEFINE was == pending
  <1>1. /\ requests' = requests \ {t} /\ t \in requests /\ ask[t] = "none"
        /\ selectedTool' = IF pendingTools = << >> THEN 0 ELSE selectedTool
        /\ UNCHANGED << query, ask, answer, pendingTools, resolvers, served, settled, timers, timer, given >>
    BY DEF AskInv, RequestsOK, Asks!Decide, Asks!bell
  <1>2. /\ pending' \in [ToolId -> {"none", "pending", "approved", "rejected"}]
        /\ \A u \in ToolId : u # t => pending'[u] = pending[u]
        /\ \A u \in ToolId : pending[u] # "none" => pending'[u] # "none"
    BY Responds DEF Asks!Decide
  <1>3. Asks!Racing' = Asks!Racing /\ Shown' = Shown
    BY <1>1 DEF Asks!Racing, Shown
  <1>4. Asks!TypeOK'
    BY <1>1, <1>2 DEF AskInv, Asks!TypeOK
  <1>5. ListsOK'
    BY <1>1, <1>3 DEF AskInv, ListsOK
  <1>6. AnswersOK'
    BY <1>1, <1>3 DEF AskInv, AnswersOK
  <1>7. RequestsOK'
    BY <1>1, <1>2, <1>3 DEF AskInv, RequestsOK
  <1>8. OutcomesOK'
    BY <1>1, <1>2 DEF AskInv, OutcomesOK, Asks!ApprovedByName
  <1>9. QED
    BY <1>4, <1>5, <1>6, <1>7, <1>8 DEF AskInv

LEMMA RaiseKeeps ==
  ASSUME Asks!NoneAssumption, AskInv, NEW t \in ToolId, Asks!Raise(t)
  PROVE  AskInv'
  <1>1. /\ requests' = requests \ {t} /\ t \in requests /\ ask[t] = "none"
        /\ pending[t] \in {"pending", "rejected"}
        /\ ask' = [ask EXCEPT ![t] = "racing"]
        /\ pendingTools' = Append(pendingTools, t)
        /\ selectedTool' = IF pendingTools = << >> THEN 0 ELSE selectedTool
        /\ resolvers' = resolvers \cup {t} /\ served' = served \cup {t}
        /\ timers' = Append(timers, t) /\ timer' = t
        /\ UNCHANGED << query, pending, answer, settled, given >>
    BY DEF AskInv, RequestsOK, Asks!Raise, Asks!AddTool
  <1>2. t \notin Asks!Racing /\ t \notin Shown /\ t \notin Asks!ToSet(timers) /\ answer[t] = NoAsk
    BY <1>1 DEF AskInv, ListsOK, RequestsOK, AnswersOK, Asks!Racing
  <1>3. /\ pendingTools' \in Seq(ToolId) /\ Asks!IsInjective(pendingTools')
        /\ Shown' = Shown \cup {t} /\ Len(pendingTools') = Len(pendingTools) + 1
    BY <1>1, <1>2, AppendsOne, AppendProperties DEF AskInv, Asks!TypeOK, Shown
  <1>4. timers' \in Seq(ToolId) /\ Asks!IsInjective(timers') /\ Asks!ToSet(timers') = Asks!ToSet(timers) \cup {t}
    BY <1>1, <1>2, AppendsOne DEF AskInv, Asks!TypeOK
  <1>5. /\ ask' \in [ToolId -> {"none", "racing", "done"}] /\ Asks!Racing' = Asks!Racing \cup {t}
        /\ \A u \in ToolId : ask'[u] = IF u = t THEN "racing" ELSE ask[u]
    BY <1>1 DEF AskInv, Asks!TypeOK, Asks!Racing
  <1>6. Asks!TypeOK'
    BY <1>1, <1>3, <1>4, <1>5 DEF AskInv, Asks!TypeOK
  <1>7. ListsOK'
    <2>1. selectedTool' < Len(pendingTools')
      <3>1. Len(pendingTools) \in Nat /\ (pendingTools # << >> => selectedTool < Len(pendingTools))
            /\ selectedTool \in Nat
        BY LenProperties DEF AskInv, Asks!TypeOK, ListsOK
      <3>2. QED
        BY <1>1, <1>3, <3>1
    <2>2. QED
      BY <1>1, <1>3, <1>5, <2>1 DEF AskInv, ListsOK
  <1>8. AnswersOK'
    BY <1>1, <1>2, <1>5 DEF AskInv, AnswersOK
  <1>9. RequestsOK'
    BY <1>1, <1>3, <1>4, <1>5 DEF AskInv, RequestsOK
  <1>10. OutcomesOK'
    <2>1. \A k \in DOMAIN settled : settled[k][1] # t /\ ask'[settled[k][1]] = "done"
      BY <1>1, <1>5, SettledTools DEF AskInv, OutcomesOK
    <2>2. QED
      BY <1>1, <1>5, <2>1 DEF AskInv, OutcomesOK, Asks!ApprovedByName
  <1>11. QED
    BY <1>6, <1>7, <1>8, <1>9, <1>10 DEF AskInv

LEMMA AskSettles ==
  ASSUME Asks!NoneAssumption, AskInv, NEW t \in ToolId, Asks!Settle(t)
  PROVE  AskInv'
  <1> DEFINE result == << t, answer[t].approved >>
  <1>1. /\ t \in Asks!Racing /\ answer[t] # NoAsk /\ answer[t] \in Asks!Answer
        /\ ask' = [ask EXCEPT ![t] = "done"]
        /\ settled' = Append(settled, result)
        /\ served' = served \ {t} /\ resolvers' = resolvers \ {t}
        /\ timers' = IF timer = NoAsk THEN timers ELSE Asks!RemoveFirst(timers, timer)
        /\ timer' = NoAsk
        /\ pendingTools' = Asks!RemoveFirst(pendingTools, t)
        /\ selectedTool' = IF t \in Shown
                           THEN Asks!Min({selectedTool, Asks!Max({0, Len(pendingTools) - 2})}) ELSE selectedTool
        /\ UNCHANGED << query, requests, answer, given >>
    BY DEF AskInv, Asks!TypeOK, Asks!Settle, Asks!CancelTimer, Asks!RemoveTool, Asks!Racing, Shown
  <1>2. answer[t].approved \in BOOLEAN /\ result \in ToolId \X BOOLEAN
    BY <1>1 DEF Asks!Answer
  <1> HIDE DEF result
  <1>3. /\ pending' \in [ToolId -> {"none", "pending", "approved", "rejected"}]
        /\ \A u \in ToolId : u # t => pending'[u] = pending[u]
        /\ pending'[t] = "approved" => pending[t] = "approved" \/ answer[t].approved
        /\ \A u \in ToolId : pending[u] # "none" => pending'[u] # "none"
    BY <1>2, Responds DEF Asks!Settle
  <1>4. /\ ask' \in [ToolId -> {"none", "racing", "done"}] /\ Asks!Racing' = Asks!Racing \ {t}
        /\ \A u \in ToolId : ask'[u] = IF u = t THEN "done" ELSE ask[u]
    BY <1>1 DEF AskInv, Asks!TypeOK, Asks!Racing
  <1>5. /\ pendingTools' \in Seq(ToolId) /\ Asks!IsInjective(pendingTools') /\ Shown' = Shown \ {t}
        /\ Len(pendingTools') = IF t \in Shown THEN Len(pendingTools) - 1 ELSE Len(pendingTools)
    BY <1>1, RemovesOne DEF AskInv, Asks!TypeOK, Shown
  <1>6. timers' \in Seq(ToolId) /\ Asks!IsInjective(timers') /\ Asks!ToSet(timers') \subseteq Asks!ToSet(timers)
    BY <1>1, RemovesOne DEF AskInv, Asks!TypeOK
  <1>7. selectedTool' \in Nat /\ (pendingTools' # << >> => selectedTool' < Len(pendingTools'))
    <2>1. /\ Len(pendingTools) \in Nat /\ Len(pendingTools') \in Nat /\ selectedTool \in Nat
          /\ pendingTools # << >> => selectedTool < Len(pendingTools)
          /\ pendingTools' # << >> => Len(pendingTools') > 0
      BY <1>5, LenProperties, EmptySeq DEF AskInv, Asks!TypeOK, ListsOK
    <2>2. CASE t \in Shown
      <3> DEFINE clamped == Asks!Min({selectedTool, Asks!Max({0, Len(pendingTools) - 2})})
      <3>1. clamped \in Nat /\ (Len(pendingTools) > 1 => clamped < Len(pendingTools) - 1)
        BY <2>1, Clamped
      <3>2. selectedTool' = clamped
        BY <1>1, <2>2
      <3> HIDE DEF clamped
      <3>3. QED
        BY <1>5, <2>1, <2>2, <3>1, <3>2
    <2>3. CASE t \notin Shown
      BY <1>1, <1>5, <2>1, <2>3, EmptySeq DEF AskInv, Asks!TypeOK
    <2>4. QED
      BY <2>2, <2>3
  <1>8. settled' \in Seq(ToolId \X BOOLEAN)
    BY <1>1, <1>2, AppendProperties DEF AskInv, Asks!TypeOK
  <1>9. Asks!TypeOK'
    BY <1>1, <1>3, <1>4, <1>5, <1>6, <1>7, <1>8 DEF AskInv, Asks!TypeOK
  <1>10. ListsOK'
    BY <1>1, <1>4, <1>5, <1>7 DEF AskInv, ListsOK
  <1>11. AnswersOK'
    BY <1>1, <1>4 DEF AskInv, AnswersOK
  <1>12. RequestsOK'
    BY <1>1, <1>3, <1>4, <1>5, <1>6 DEF AskInv, RequestsOK, Asks!Racing
  <1>13. OutcomesOK'
    <2>1. /\ Len(settled) \in Nat /\ DOMAIN settled = 1 .. Len(settled)
          /\ DOMAIN settled' = 1 .. Len(settled) + 1
          /\ \A k \in 1 .. Len(settled) : settled'[k] = settled[k]
          /\ settled'[Len(settled) + 1] = result
      BY <1>1, <1>2, AppendProperties, LenProperties DEF AskInv, Asks!TypeOK
    <2>2. \A k \in DOMAIN settled' : k \in DOMAIN settled \/ k = Len(settled) + 1
      BY <2>1
    <2>3. \A k \in DOMAIN settled : settled[k][1] # t /\ ask'[settled[k][1]] = "done"
      BY <1>1, <1>4, SettledTools DEF AskInv, OutcomesOK, Asks!Racing
    <2>4. result[1] = t /\ (result[2] => result \in given) /\ (answer[t].approved => << t, TRUE >> \in given)
      BY <1>1, <1>2 DEF AskInv, AnswersOK, result
    <2>5. \A u \in ToolId : ask'[u] # "none" /\ pending'[u] = "approved" => << u, TRUE >> \in given
      BY <1>1, <1>3, <1>4, <2>4 DEF AskInv, OutcomesOK, Asks!ApprovedByName, Asks!Racing
    <2>6. \A k \in DOMAIN settled' : (settled'[k][2] => settled'[k] \in given) /\ ask'[settled'[k][1]] = "done"
      BY <1>4, <2>1, <2>2, <2>3, <2>4 DEF AskInv, OutcomesOK, Asks!ApprovedByName
    <2>7. \A j, k \in DOMAIN settled' : j # k => settled'[j][1] # settled'[k][1]
      BY <2>1, <2>2, <2>3, <2>4 DEF AskInv, OutcomesOK, Asks!ApprovedByName
    <2>8. QED
      BY <1>1, <2>5, <2>6, <2>7 DEF OutcomesOK, Asks!ApprovedByName
  <1>14. QED
    BY <1>9, <1>10, <1>11, <1>12, <1>13 DEF AskInv

(* An answer that wins is one that was given.                               *)
LEMMA Wins ==
  ASSUME Asks!NoneAssumption, AskInv, NEW t \in ToolId, NEW by \in {"key", "wire"}, NEW approved \in BOOLEAN,
         Asks!Win(t, by, approved)
  PROVE  /\ answer' \in [ToolId -> Asks!Answer \cup {NoAsk}]
         /\ \A u \in ToolId : u # t => answer'[u] = answer[u]
         /\ answer[t] # NoAsk => answer' = answer
         /\ answer[t] = NoAsk => answer'[t] # NoAsk /\ answer'[t].by = by /\ answer'[t].approved = approved
  <1> DEFINE won == [by |-> by, approved |-> approved]
  <1>1. won \in Asks!Answer /\ won.by = by /\ won.approved = approved
    BY DEF Asks!Answer
  <1> HIDE DEF won
  <1>2. won # NoAsk
    BY <1>1 DEF Asks!NoneAssumption
  <1>3. answer \in [ToolId -> Asks!Answer \cup {NoAsk}] /\ answer' = [answer EXCEPT ![t] = IF @ = NoAsk THEN won ELSE @]
    BY DEF AskInv, Asks!TypeOK, Asks!Win, won
  <1>4. QED
    BY <1>1, <1>2, <1>3

LEMMA KeyAnswerKeeps ==
  ASSUME Asks!NoneAssumption, AskInv, NEW approved \in BOOLEAN, Asks!KeyAnswer(approved)
  PROVE  AskInv'
  <1>1. /\ Asks!Selected # NoAsk /\ Asks!Between("key")
        /\ given' = given \cup {<< Asks!Selected, approved >>}
        /\ resolvers' = resolvers \ {Asks!Selected}
        /\ IF Asks!Selected \in resolvers THEN Asks!Win(Asks!Selected, "key", approved) ELSE answer' = answer
        /\ UNCHANGED << query, pending, requests, ask, pendingTools, selectedTool, served, settled, timers, timer >>
    BY DEF Asks!KeyAnswer, Asks!bell
  <1>2. Asks!Selected \in Shown /\ Asks!Selected \in ToolId /\ Asks!Selected \in Asks!Racing
    <2>1. Len(pendingTools) \in Nat /\ DOMAIN pendingTools = 1 .. Len(pendingTools) /\ selectedTool \in Nat
      BY LenProperties DEF AskInv, Asks!TypeOK
    <2>2. selectedTool < Len(pendingTools) /\ Asks!Selected = pendingTools[selectedTool + 1]
      BY <1>1 DEF Asks!Selected
    <2>3. selectedTool + 1 \in DOMAIN pendingTools
      BY <2>1, <2>2
    <2>4. QED
      BY <2>2, <2>3 DEF AskInv, ListsOK, Shown, Asks!ToSet, Asks!Racing
  <1>3. Asks!Selected \in resolvers => answer[Asks!Selected] = NoAsk
    BY <1>1, <1>2 DEF AskInv, AnswersOK, Asks!Between
  <1>4. /\ answer' \in [ToolId -> Asks!Answer \cup {NoAsk}]
        /\ \A u \in ToolId : u # Asks!Selected \/ Asks!Selected \notin resolvers => answer'[u] = answer[u]
        /\ Asks!Selected \in resolvers => /\ answer'[Asks!Selected] # NoAsk /\ answer'[Asks!Selected].by = "key"
                                     /\ answer'[Asks!Selected].approved = approved
    <2>1. CASE Asks!Selected \in resolvers
      <3>1. Asks!Win(Asks!Selected, "key", approved)
        BY <1>1, <2>1
      <3>2. QED
        BY <1>2, <1>3, <2>1, <3>1, Wins
    <2>2. CASE Asks!Selected \notin resolvers
      BY <1>1, <2>2 DEF AskInv, Asks!TypeOK
    <2>3. QED
      BY <2>1, <2>2
  <1>5. Asks!Racing' = Asks!Racing /\ Shown' = Shown
    BY <1>1 DEF Asks!Racing, Shown
  <1>6. Asks!TypeOK'
    BY <1>1, <1>2, <1>4 DEF AskInv, Asks!TypeOK
  <1>7. ListsOK'
    BY <1>1, <1>5 DEF AskInv, ListsOK
  <1>8. AnswersOK'
    <2> SUFFICES ASSUME NEW u \in ToolId
                 PROVE  /\ answer'[u] # NoAsk => ask[u] # "none"
                        /\ u \in Asks!Racing \ resolvers' => answer'[u] # NoAsk
                        /\ u \in resolvers' /\ answer'[u] # NoAsk => answer'[u].by = "wire"
                        /\ answer'[u] # NoAsk /\ answer'[u].approved => << u, TRUE >> \in given'
      BY <1>1, <1>5 DEF AnswersOK
    <2>1. CASE u = Asks!Selected /\ Asks!Selected \in resolvers
      BY <1>1, <1>2, <1>4, <2>1 DEF Asks!Racing
    <2>2. CASE u # Asks!Selected \/ Asks!Selected \notin resolvers
      <3>1. answer'[u] = answer[u] /\ (u \in resolvers' <=> u \in resolvers)
        BY <1>1, <1>4, <2>2
      <3>2. QED
        BY <1>1, <3>1 DEF AskInv, AnswersOK
    <2>3. QED
      BY <2>1, <2>2
  <1>9. RequestsOK'
    <2>1. query # "idle" \/ \A u \in ToolId : answer'[u] = answer[u]
      BY <1>2 DEF AskInv, RequestsOK
    <2>2. QED
      BY <1>1, <1>5, <2>1 DEF AskInv, RequestsOK, Asks!Racing
  <1>10. OutcomesOK'
    BY <1>1 DEF AskInv, OutcomesOK, Asks!ApprovedByName
  <1>11. QED
    BY <1>6, <1>7, <1>8, <1>9, <1>10 DEF AskInv

LEMMA NavigateKeeps ==
  ASSUME AskInv, Asks!Navigate
  PROVE  AskInv'
  <1>1. /\ selectedTool' \in Nat /\ selectedTool' < Len(pendingTools)
        /\ UNCHANGED << query, pending, requests, ask, answer, pendingTools, resolvers, served, settled, timers, timer, given >>
    <2>1. Len(pendingTools) \in Nat /\ selectedTool \in Nat /\ selectedTool < Len(pendingTools)
      BY LenProperties DEF AskInv, Asks!TypeOK, ListsOK, Asks!Navigate
    <2>2. QED
      BY <2>1 DEF Asks!Navigate, Asks!bell
  <1>2. Asks!Racing' = Asks!Racing /\ Shown' = Shown
    BY <1>1 DEF Asks!Racing, Shown
  <1>3. Asks!TypeOK'
    BY <1>1 DEF AskInv, Asks!TypeOK
  <1>4. ListsOK'
    BY <1>1, <1>2 DEF AskInv, ListsOK
  <1>5. AnswersOK'
    BY <1>1, <1>2 DEF AskInv, AnswersOK
  <1>6. RequestsOK'
    BY <1>1, <1>2 DEF AskInv, RequestsOK
  <1>7. OutcomesOK'
    BY <1>1 DEF AskInv, OutcomesOK, Asks!ApprovedByName
  <1>8. QED
    BY <1>3, <1>4, <1>5, <1>6, <1>7 DEF AskInv

LEMMA WireAnswerKeeps ==
  ASSUME Asks!NoneAssumption, AskInv, NEW t \in ToolId, NEW approved \in BOOLEAN, Asks!WireAnswer(t, approved)
  PROVE  AskInv'
  <1>1. /\ t \in Asks!Racing /\ given' = given \cup {<< t, approved >>}
        /\ UNCHANGED << query, pending, requests, ask, pendingTools, selectedTool, resolvers, served, settled, timers, timer >>
    BY DEF AskInv, ListsOK, Asks!WireAnswer, Asks!screen, Asks!bell
  <1>2. /\ answer' \in [ToolId -> Asks!Answer \cup {NoAsk}]
        /\ \A u \in ToolId : u # t => answer'[u] = answer[u]
        /\ answer[t] # NoAsk => answer' = answer
        /\ answer[t] = NoAsk => answer'[t] # NoAsk /\ answer'[t].by = "wire" /\ answer'[t].approved = approved
    BY Wins DEF Asks!WireAnswer
  <1>3. Asks!Racing' = Asks!Racing /\ Shown' = Shown
    BY <1>1 DEF Asks!Racing, Shown
  <1>4. Asks!TypeOK'
    BY <1>1, <1>2 DEF AskInv, Asks!TypeOK
  <1>5. ListsOK'
    BY <1>1, <1>3 DEF AskInv, ListsOK
  <1>6. AnswersOK'
    BY <1>1, <1>2, <1>3 DEF AskInv, AnswersOK, Asks!Racing
  <1>7. RequestsOK'
    BY <1>1, <1>2, <1>3 DEF AskInv, RequestsOK
  <1>8. OutcomesOK'
    BY <1>1 DEF AskInv, OutcomesOK, Asks!ApprovedByName
  <1>9. QED
    BY <1>4, <1>5, <1>6, <1>7, <1>8 DEF AskInv

LEMMA FiresKeeps ==
  ASSUME AskInv, Asks!Fires
  PROVE  AskInv'
  <1>1. /\ timers' = Tail(timers) /\ timers # << >> /\ timer' = NoAsk
        /\ UNCHANGED << query, pending, requests, ask, answer, pendingTools, selectedTool, resolvers, served, settled, given >>
    BY DEF Asks!Fires, Asks!screen
  <1>2. timers' \in Seq(ToolId) /\ Asks!IsInjective(timers') /\ Asks!ToSet(timers') \subseteq Asks!ToSet(timers)
    <2>1. /\ timers' \in Seq(ToolId) /\ Len(timers') = Len(timers) - 1 /\ Len(timers) \in Nat
          /\ \A i \in 1 .. Len(timers) - 1 : timers'[i] = timers[i + 1]
      BY <1>1, HeadTailProperties, LenProperties DEF AskInv, Asks!TypeOK
    <2>2. DOMAIN timers' = 1 .. Len(timers) - 1 /\ DOMAIN timers = 1 .. Len(timers)
      BY <2>1, LenProperties DEF AskInv, Asks!TypeOK
    <2>3. \A i \in DOMAIN timers' : i + 1 \in DOMAIN timers /\ timers'[i] = timers[i + 1]
      BY <2>1, <2>2
    <2>4. Asks!IsInjective(timers')
      <3>1. \A i, j \in DOMAIN timers' : i + 1 = j + 1 => i = j
        BY <2>1, <2>2
      <3>2. \A i, j \in DOMAIN timers : timers[i] = timers[j] => i = j
        BY DEF AskInv, Asks!TypeOK, Asks!IsInjective
      <3>3. QED
        BY <2>3, <3>1, <3>2 DEF Asks!IsInjective
    <2>5. QED
      BY <2>1, <2>3, <2>4 DEF Asks!ToSet
  <1>3. Asks!Racing' = Asks!Racing /\ Shown' = Shown
    BY <1>1 DEF Asks!Racing, Shown
  <1>4. Asks!TypeOK'
    BY <1>1, <1>2 DEF AskInv, Asks!TypeOK
  <1>5. ListsOK'
    BY <1>1, <1>3 DEF AskInv, ListsOK
  <1>6. AnswersOK'
    BY <1>1, <1>3 DEF AskInv, AnswersOK
  <1>7. RequestsOK'
    BY <1>1, <1>2, <1>3 DEF AskInv, RequestsOK
  <1>8. OutcomesOK'
    BY <1>1 DEF AskInv, OutcomesOK, Asks!ApprovedByName
  <1>9. QED
    BY <1>4, <1>5, <1>6, <1>7, <1>8 DEF AskInv

LEMMA StutterKeeps ==
  ASSUME AskInv, UNCHANGED Asks!vars
  PROVE  AskInv'
  <1>1. Asks!Racing' = Asks!Racing /\ Shown' = Shown /\ ListsOK'
    BY SameAsks DEF Asks!vars, Asks!screen, Asks!bell
  <1>2. Asks!TypeOK' /\ AnswersOK' /\ RequestsOK'
    BY <1>1 DEF AskInv, Asks!TypeOK, AnswersOK, RequestsOK, Asks!vars, Asks!screen, Asks!bell
  <1>3. OutcomesOK'
    BY DEF AskInv, OutcomesOK, Asks!ApprovedByName, Asks!vars, Asks!screen, Asks!bell
  <1>4. QED
    BY <1>1, <1>2, <1>3 DEF AskInv
-----------------------------------------------------------------------------
(* The invariant holds of every set of tools. *)

LEMMA AskStep ==
  ASSUME Asks!NoneAssumption, AskInv, [Asks!Next]_(Asks!vars)
  PROVE  AskInv'
  <1>1. CASE \E tools \in SUBSET ToolId \ {{}} : Asks!Batch(tools)
    BY <1>1, BatchKeeps
  <1>2. CASE Asks!Handle
    BY <1>2, AskSettles, RaiseKeeps, DecideKeeps DEF Asks!Handle
  <1>3. CASE \E approved \in BOOLEAN : Asks!KeyAnswer(approved)
    BY <1>3, KeyAnswerKeeps
  <1>4. CASE \E t \in ToolId, approved \in BOOLEAN : Asks!WireAnswer(t, approved)
    BY <1>4, WireAnswerKeeps
  <1>5. QED
    BY <1>1, <1>2, <1>3, <1>4, StartKeeps, CancelKeeps, QueryEndsKeeps, NavigateKeeps, FiresKeeps, StutterKeeps
       DEF Asks!Next

LEMMA QuietLists ==
  ASSUME AskInv
  PROVE  Asks!OneSetOfAsks
  <1> SUFFICES ASSUME Asks!Quiet
               PROVE  /\ Asks!ToSet(pendingTools) = Asks!Racing /\ resolvers = Asks!Racing /\ served = Asks!Racing
                      /\ query = "idle" => Asks!Racing = {}
                      /\ resolvers # {} => Asks!Selected \in resolvers
    BY DEF Asks!OneSetOfAsks
  <1>1. Shown = Asks!Racing /\ resolvers = Asks!Racing /\ served = Asks!Racing
    BY DEF AskInv, ListsOK, AnswersOK, Asks!Quiet, Asks!Racing
  <1>2. query = "idle" => Asks!Racing = {}
    BY DEF AskInv, RequestsOK, Asks!Quiet
  <1>3. resolvers # {} => Asks!Selected \in resolvers
    <2> SUFFICES ASSUME resolvers # {} PROVE Asks!Selected \in resolvers
      OBVIOUS
    <2>1. pendingTools # << >>
      BY <1>1 DEF Shown, Asks!ToSet
    <2>2. /\ selectedTool \in Nat /\ selectedTool < Len(pendingTools)
          /\ Len(pendingTools) \in Nat /\ DOMAIN pendingTools = 1 .. Len(pendingTools)
      BY <2>1, LenProperties DEF AskInv, Asks!TypeOK, ListsOK
    <2>3. selectedTool + 1 \in DOMAIN pendingTools
      BY <2>2
    <2>4. Asks!Selected = pendingTools[selectedTool + 1]
      BY <2>2 DEF Asks!Selected
    <2>5. QED
      BY <1>1, <2>3, <2>4 DEF Shown, Asks!ToSet
  <1>4. QED
    BY <1>1, <1>2, <1>3 DEF Shown

-----------------------------------------------------------------------------
(* The channel.  What a subscriber was given and what it has queued are    *)
(* together the messages it was sent, and neither a push nor a pump's turn  *)
(* changes more of them than to add at the end: so each part of the         *)
(* invariant is a fact about one pump, which a push and a turn keep.        *)
Pump == [queue : Seq(Nat), running : BOOLEAN, handling : Nat, handled : Seq(Nat)]

All(p) == p.handled \o p.queue

(* A pump that was sent the messages 1..n, and one between its turns. *)
Sent(p, n)   == p \in Pump /\ Len(All(p)) = n /\ Channel!Range(All(p)) = 1..n
PumpOK(p, n) ==
  /\ Sent(p, n)
  /\ p.queue # <<>> => p.running
  /\ p.running <=> p.handling # 0

InOrder(p, n) == All(p) = [i \in 1..n |-> i]

(* A pump that is done with the messages 1..m. *)
Done(p, m) ==
  /\ 1..m \subseteq Channel!Range(p.handled) \ {p.handling}
  /\ \A i \in 1..Len(p.queue) : p.queue[i] > m

ChannelInv ==
  /\ sends \in Nat
  /\ pump = [sub \in Subs |-> pump[sub]]
  /\ \A sub \in Subs : PumpOK(pump[sub], sends)
  /\ InOrder(pump[1], sends)
  /\ \A d \in drained \cup drainWaiters : d.sent \in 0..sends
  /\ \A d \in drained, sub \in Subs : Done(pump[sub], d.sent)
-----------------------------------------------------------------------------
(* Sequences. *)

LEMMA ShiftsOne ==
  ASSUME NEW S, NEW h \in Seq(S), NEW q \in Seq(S), q # <<>>
  PROVE  Append(h, Head(q)) \o Tail(q) = h \o q
  <1> DEFINE l == Append(h, Head(q)) \o Tail(q)
             r == h \o q
  <1>1. /\ Head(q) \in S /\ Tail(q) \in Seq(S) /\ Len(Tail(q)) = Len(q) - 1
        /\ \A i \in 1..Len(q) - 1 : Tail(q)[i] = q[i + 1]
        /\ Head(q) = q[1]
    BY HeadTailProperties
  <1>2. /\ Append(h, Head(q)) \in Seq(S) /\ Len(Append(h, Head(q))) = Len(h) + 1
        /\ \A i \in 1..Len(h) : Append(h, Head(q))[i] = h[i]
        /\ Append(h, Head(q))[Len(h) + 1] = q[1]
    BY <1>1, AppendProperties
  <1>3. Len(h) \in Nat /\ Len(q) \in Nat \ {0}
    BY LenProperties, EmptySeq
  <1>4. /\ r \in Seq(S) /\ Len(r) = Len(h) + Len(q)
        /\ \A i \in 1..Len(h) + Len(q) : r[i] = IF i <= Len(h) THEN h[i] ELSE q[i - Len(h)]
    BY ConcatProperties
  <1> DEFINE a == Append(h, Head(q))
             t == Tail(q)
  <1>5. /\ a \o t \in Seq(S) /\ Len(a \o t) = Len(a) + Len(t)
        /\ \A i \in 1..Len(a) + Len(t) : (a \o t)[i] = IF i <= Len(a) THEN a[i] ELSE t[i - Len(a)]
    BY <1>1, <1>2, ConcatProperties
  <1>6. /\ a \in Seq(S) /\ Len(a) = Len(h) + 1 /\ a[Len(h) + 1] = q[1]
        /\ \A i \in 1..Len(h) : a[i] = h[i]
        /\ Len(t) = Len(q) - 1 /\ \A i \in 1..Len(q) - 1 : t[i] = q[i + 1]
    BY <1>1, <1>2
  <1> HIDE DEF a, t
  <1>7. Len(a) + Len(t) = Len(h) + Len(q) /\ Len(a \o t) = Len(r)
    BY <1>3, <1>4, <1>5, <1>6
  <1>8. \A i \in 1..Len(r) : (a \o t)[i] = r[i]
    <2> SUFFICES ASSUME NEW i \in 1..Len(h) + Len(q) PROVE (a \o t)[i] = r[i]
      BY <1>4
    <2>1. CASE i <= Len(h)
      <3>1. i \in 1..Len(h) /\ i <= Len(a)
        BY <1>3, <1>6, <2>1
      <3>2. QED
        BY <1>4, <1>5, <1>6, <1>7, <2>1, <3>1
    <2>2. CASE i = Len(h) + 1
      <3>1. i <= Len(a) /\ ~(i <= Len(h)) /\ i - Len(h) = 1
        BY <1>3, <1>6, <2>2
      <3>2. QED
        BY <1>4, <1>5, <1>6, <1>7, <2>2, <3>1
    <2>3. CASE i > Len(h) + 1
      <3>1. ~(i <= Len(a)) /\ ~(i <= Len(h)) /\ i - Len(a) \in 1..Len(q) - 1 /\ (i - Len(a)) + 1 = i - Len(h)
        BY <1>3, <1>6, <2>3
      <3>2. QED
        BY <1>4, <1>5, <1>6, <1>7, <3>1
    <2>4. i <= Len(h) \/ i = Len(h) + 1 \/ i > Len(h) + 1
      BY <1>3
    <2>5. QED
      BY <2>1, <2>2, <2>3, <2>4
  <1>9. QED
    BY <1>4, <1>5, <1>7, <1>8, SeqEqual DEF a, t

LEMMA Concat ==
  ASSUME NEW a \in Seq(Nat), NEW b \in Seq(Nat)
  PROVE  /\ a \o b \in Seq(Nat) /\ Len(a \o b) = Len(a) + Len(b)
         /\ \A i \in 1..Len(a) + Len(b) : (a \o b)[i] = IF i <= Len(a) THEN a[i] ELSE b[i - Len(a)]
  BY ConcatProperties

LEMMA Associates ==
  ASSUME NEW a \in Seq(Nat), NEW b \in Seq(Nat), NEW c \in Seq(Nat)
  PROVE  (a \o b) \o c = a \o (b \o c)
  BY ConcatAssociative, Z3

LEMMA RangeOfConcat ==
  ASSUME NEW S, NEW a \in Seq(S), NEW b \in Seq(S)
  PROVE  Channel!Range(a \o b) = Channel!Range(a) \cup Channel!Range(b)
  <1> DEFINE c == a \o b
  <1>1. /\ c \in Seq(S) /\ Len(c) = Len(a) + Len(b)
        /\ \A i \in 1..Len(a) + Len(b) : c[i] = IF i <= Len(a) THEN a[i] ELSE b[i - Len(a)]
    BY ConcatProperties
  <1>2. /\ Len(a) \in Nat /\ Len(b) \in Nat /\ DOMAIN a = 1..Len(a) /\ DOMAIN b = 1..Len(b)
        /\ DOMAIN c = 1..Len(a) + Len(b)
    BY <1>1, LenProperties
  <1> HIDE DEF c
  <1>3. Channel!Range(c) \subseteq Channel!Range(a) \cup Channel!Range(b)
    <2> SUFFICES ASSUME NEW i \in 1..Len(a) + Len(b) PROVE c[i] \in Channel!Range(a) \cup Channel!Range(b)
      BY <1>2 DEF Channel!Range
    <2>1. CASE i <= Len(a)
      BY <1>1, <1>2, <2>1 DEF Channel!Range
    <2>2. CASE i > Len(a)
      <3>1. i - Len(a) \in 1..Len(b) /\ ~(i <= Len(a))
        BY <1>2, <2>2
      <3>2. QED
        BY <1>1, <1>2, <3>1 DEF Channel!Range
    <2>3. QED
      BY <1>2, <2>1, <2>2
  <1>4. Channel!Range(a) \subseteq Channel!Range(c)
    BY <1>1, <1>2 DEF Channel!Range
  <1>5. Channel!Range(b) \subseteq Channel!Range(c)
    <2> SUFFICES ASSUME NEW i \in 1..Len(b) PROVE b[i] \in Channel!Range(c)
      BY <1>2 DEF Channel!Range
    <2>1. i + Len(a) \in 1..Len(a) + Len(b) /\ ~(i + Len(a) <= Len(a)) /\ (i + Len(a)) - Len(a) = i
      BY <1>2
    <2>2. c[i + Len(a)] = b[i]
      BY <1>1, <2>1
    <2>3. QED
      BY <1>2, <2>1, <2>2 DEF Channel!Range
  <1>6. QED
    BY <1>3, <1>4, <1>5 DEF c
-----------------------------------------------------------------------------
(* One pump.                                                               *)

(* Its turn moves a message from the queue to the handler.                  *)
LEMMA Turns ==
  ASSUME NEW p \in Pump, p.queue # <<>>
  PROVE  /\ Channel!Shift(p).queue \in Seq(Nat) /\ Channel!Shift(p).handled \in Seq(Nat) /\ Channel!Shift(p).handling \in Nat
         /\ Channel!Shift(p).queue = Tail(p.queue) /\ Channel!Shift(p).handling = Head(p.queue)
         /\ Channel!Shift(p).running = TRUE /\ Channel!Shift(p) \in Pump
         /\ All(Channel!Shift(p)) = All(p)
         /\ Channel!Range(Channel!Shift(p).handled) = Channel!Range(p.handled) \cup {Head(p.queue)}
         /\ p.queue[1] = Head(p.queue) /\ Len(p.queue) \in Nat \ {0}
         /\ Len(Tail(p.queue)) = Len(p.queue) - 1
         /\ \A i \in 1..Len(Tail(p.queue)) : Tail(p.queue)[i] = p.queue[i + 1]
  <1>1. p.queue \in Seq(Nat) /\ p.handled \in Seq(Nat)
    BY DEF Pump
  <1>2. /\ Head(p.queue) \in Nat /\ Tail(p.queue) \in Seq(Nat) /\ Len(Tail(p.queue)) = Len(p.queue) - 1
        /\ \A i \in 1..Len(Tail(p.queue)) : Tail(p.queue)[i] = p.queue[i + 1]
        /\ p.queue[1] = Head(p.queue) /\ Len(p.queue) \in Nat \ {0}
    BY <1>1, HeadTailProperties, EmptySeq
  <1>3. Append(p.handled, Head(p.queue)) \in Seq(Nat)
    BY <1>1, <1>2, AppendProperties
  <1>4. /\ Channel!Shift(p).queue = Tail(p.queue) /\ Channel!Shift(p).handling = Head(p.queue) /\ Channel!Shift(p).running = TRUE
        /\ Channel!Shift(p).handled = Append(p.handled, Head(p.queue))
    BY DEF Channel!Shift
  <1>5. Channel!Shift(p) \in Pump
    BY <1>2, <1>3 DEF Channel!Shift, Pump
  <1>6. All(Channel!Shift(p)) = All(p)
    BY <1>1, <1>4, ShiftsOne DEF All
  <1>7. Channel!Range(Append(p.handled, Head(p.queue))) = Channel!Range(p.handled) \cup {Head(p.queue)}
    <2> DEFINE a == Append(p.handled, Head(p.queue))
    <2>1. /\ Len(p.handled) \in Nat /\ DOMAIN p.handled = 1..Len(p.handled)
          /\ DOMAIN a = 1..Len(p.handled) + 1
          /\ \A i \in 1..Len(p.handled) : a[i] = p.handled[i]
          /\ a[Len(p.handled) + 1] = Head(p.queue)
      BY <1>1, <1>2, AppendProperties, LenProperties
    <2> HIDE DEF a
    <2>2. \A i \in 1..Len(p.handled) + 1 : i \in 1..Len(p.handled) \/ i = Len(p.handled) + 1
      BY <2>1
    <2>3. QED
      BY <2>1, <2>2 DEF Channel!Range, a
  <1>8. QED
    BY <1>2, <1>3, <1>4, <1>5, <1>6, <1>7

LEMMA TurnKeeps ==
  ASSUME NEW n \in Nat, NEW p, Sent(p, n), p.queue # <<>>
  PROVE  /\ PumpOK(Channel!Shift(p), n)
         /\ InOrder(p, n) => InOrder(Channel!Shift(p), n)
         /\ \A m \in 0..n : Done(p, m) => Done(Channel!Shift(p), m)
  <1>1. p \in Pump /\ Len(All(p)) = n /\ Channel!Range(All(p)) = 1..n
    BY DEF Sent
  <1>2. /\ Channel!Shift(p).queue = Tail(p.queue) /\ Channel!Shift(p).handling = Head(p.queue)
        /\ Channel!Shift(p).running = TRUE /\ Channel!Shift(p) \in Pump
        /\ All(Channel!Shift(p)) = All(p)
        /\ Channel!Range(Channel!Shift(p).handled) = Channel!Range(p.handled) \cup {Head(p.queue)}
        /\ p.queue[1] = Head(p.queue) /\ Len(p.queue) \in Nat \ {0}
        /\ Len(Tail(p.queue)) = Len(p.queue) - 1
        /\ \A i \in 1..Len(Tail(p.queue)) : Tail(p.queue)[i] = p.queue[i + 1]
    BY <1>1, Turns
  <1>3. Head(p.queue) \in 1..n
    <2>1. p.queue \in Seq(Nat) /\ p.handled \in Seq(Nat)
      BY <1>1 DEF Pump
    <2>2. Channel!Range(p.queue) \subseteq 1..n
      BY <1>1, <2>1, RangeOfConcat DEF All
    <2>3. 1 \in DOMAIN p.queue
      BY <1>2, <2>1, LenProperties
    <2>4. QED
      BY <1>2, <2>2, <2>3 DEF Channel!Range
  <1>4. PumpOK(Channel!Shift(p), n)
    BY <1>1, <1>2, <1>3 DEF PumpOK, Sent
  <1>5. InOrder(p, n) => InOrder(Channel!Shift(p), n)
    BY <1>2 DEF InOrder
  <1>6. ASSUME NEW m \in 0..n, Done(p, m)
        PROVE  Done(Channel!Shift(p), m)
    <2>1. Head(p.queue) > m
      BY <1>2, <1>6 DEF Done
    <2>2. \A i \in 1..Len(Tail(p.queue)) : Tail(p.queue)[i] > m
      <3> SUFFICES ASSUME NEW i \in 1..Len(Tail(p.queue)) PROVE Tail(p.queue)[i] > m
        OBVIOUS
      <3>1. i + 1 \in 1..Len(p.queue) /\ Tail(p.queue)[i] = p.queue[i + 1]
        BY <1>2
      <3>2. QED
        BY <1>6, <3>1 DEF Done
    <2>3. Head(p.queue) \notin 1..m
      BY <1>3, <2>1
    <2>4. 1..m \subseteq Channel!Range(p.handled)
      BY <1>6 DEF Done
    <2>5. QED
      BY <1>2, <2>2, <2>3, <2>4 DEF Done
  <1>7. QED
    BY <1>4, <1>5, <1>6

(* A push adds to the end of what it was sent.                              *)
LEMMA PushKeeps ==
  ASSUME NEW n \in Nat, NEW p, PumpOK(p, n),
         NEW msgs \in Seq(Nat), msgs # <<>>, Channel!Range(msgs) = n + 1..n + Len(msgs)
  PROVE  /\ PumpOK(Channel!Push(p, msgs), n + Len(msgs))
         /\ All(Channel!Push(p, msgs)) = All(p) \o msgs
         /\ \A m \in 0..n : Done(p, m) => Done(Channel!Push(p, msgs), m)
  <1> DEFINE q == [p EXCEPT !.queue = @ \o msgs]
  <1>1. /\ p \in Pump /\ p.queue \in Seq(Nat) /\ p.handled \in Seq(Nat) /\ Len(msgs) \in Nat \ {0}
        /\ Len(All(p)) = n /\ Channel!Range(All(p)) = 1..n /\ All(p) \in Seq(Nat)
    BY EmptySeq, ConcatProperties DEF PumpOK, Sent, Pump, All
  <1>2. p.queue \o msgs \in Seq(Nat) /\ Len(p.queue \o msgs) = Len(p.queue) + Len(msgs)
    BY <1>1, ConcatProperties
  <1>3. /\ q \in Pump /\ q.queue = p.queue \o msgs
        /\ q.running = p.running /\ q.handling = p.handling /\ q.handled = p.handled
    BY <1>1, <1>2 DEF Pump
  <1> HIDE DEF q
  <1>4. All(q) = All(p) \o msgs
    <2>1. (p.handled \o p.queue) \o msgs = p.handled \o (p.queue \o msgs)
      BY <1>1, Associates
    <2>2. q.handled \o q.queue = p.handled \o (p.queue \o msgs)
      BY <1>3
    <2>3. QED
      BY <2>1, <2>2, Zenon DEF All
  <1>5. Len(All(q)) = n + Len(msgs) /\ Channel!Range(All(q)) = 1..n + Len(msgs)
    <2>1. Len(All(q)) = Len(All(p)) + Len(msgs) /\ Channel!Range(All(q)) = Channel!Range(All(p)) \cup Channel!Range(msgs)
      BY <1>1, <1>4, ConcatProperties, RangeOfConcat
    <2>2. (1..n) \cup (n + 1..n + Len(msgs)) = 1..n + Len(msgs)
      BY <1>1
    <2>3. QED
      BY <1>1, <2>1, <2>2
  <1>6. q.queue # <<>>
    <2>1. Len(p.queue) \in Nat
      BY <1>1, LenProperties
    <2>2. Len(q.queue) # 0
      BY <1>1, <1>2, <1>3, <2>1
    <2>3. QED
      BY <2>2, EmptySeq
  <1>7. ASSUME NEW m \in 0..n, Done(p, m)
        PROVE  Done(q, m)
    <2> SUFFICES ASSUME NEW i \in 1..Len(q.queue) PROVE q.queue[i] > m
      BY <1>3, <1>7 DEF Done
    <2>1. Channel!Range(q.queue) = Channel!Range(p.queue) \cup Channel!Range(msgs) /\ q.queue[i] \in Channel!Range(q.queue)
      <3>1. Channel!Range(q.queue) = Channel!Range(p.queue) \cup Channel!Range(msgs)
        BY <1>1, <1>3, RangeOfConcat
      <3>2. DOMAIN q.queue = 1..Len(q.queue)
        BY <1>2, <1>3, LenProperties
      <3>3. QED
        BY <3>1, <3>2 DEF Channel!Range
    <2>2. \A x \in Channel!Range(msgs) : x > m
      BY <1>1
    <2>3. \A x \in Channel!Range(p.queue) : x > m
      BY <1>1, <1>7, LenProperties DEF Channel!Range, Done
    <2>4. QED
      BY <2>1, <2>2, <2>3
  <1>8. CASE p.running
    <2>1. Channel!Push(p, msgs) = q
      BY <1>8 DEF Channel!Push, q
    <2>2. PumpOK(q, n + Len(msgs))
      BY <1>3, <1>5, <1>8 DEF PumpOK, Sent
    <2>3. QED
      BY <1>4, <1>7, <2>1, <2>2
  <1>9. CASE ~p.running
    <2>1. Channel!Push(p, msgs) = Channel!Shift(q)
      BY <1>9 DEF Channel!Push, q
    <2>2. Sent(q, n + Len(msgs)) /\ n + Len(msgs) \in Nat
      BY <1>1, <1>3, <1>5 DEF Sent
    <2>3. /\ PumpOK(Channel!Shift(q), n + Len(msgs))
          /\ \A m \in 0..n + Len(msgs) : Done(q, m) => Done(Channel!Shift(q), m)
      BY <1>6, <2>2, TurnKeeps
    <2>4. All(Channel!Shift(q)) = All(q)
      BY <1>3, <1>6, Turns
    <2>5. 0..n \subseteq 0..n + Len(msgs)
      BY <1>1
    <2>6. QED
      BY <1>4, <1>7, <2>1, <2>3, <2>4, <2>5
  <1>10. QED
    BY <1>8, <1>9

(* A pump that rests. *)
LEMMA RestKeeps ==
  ASSUME NEW n \in Nat, NEW p, PumpOK(p, n), p.queue = <<>>
  PROVE  LET r == [p EXCEPT !.running = FALSE, !.handling = 0]
         IN  PumpOK(r, n) /\ All(r) = All(p) /\ r.queue = <<>> /\ \A m \in 0..n : Done(r, m)
  <1> DEFINE r == [p EXCEPT !.running = FALSE, !.handling = 0]
  <1>1. /\ p \in Pump /\ r \in Pump /\ r.queue = <<>> /\ r.handled = p.handled /\ ~r.running /\ r.handling = 0
        /\ Len(All(p)) = n /\ Channel!Range(All(p)) = 1..n
    BY DEF PumpOK, Sent, Pump
  <1> HIDE DEF r
  <1>2. All(r) = All(p) /\ All(p) = p.handled
    BY <1>1, ConcatEmptySeq DEF All, Pump
  <1>3. PumpOK(r, n)
    BY <1>1, <1>2 DEF PumpOK, Sent
  <1>4. ASSUME NEW m \in 0..n
        PROVE  Done(r, m)
    <2>1. 1..m \subseteq Channel!Range(r.handled) \ {r.handling}
      BY <1>1, <1>2
    <2>2. QED
      BY <1>1, <2>1, EmptySeq DEF Done
  <1>5. QED
    BY <1>1, <1>2, <1>3, <1>4 DEF r
-----------------------------------------------------------------------------
(* The steps. *)

LEMMA InitChannel ==
  ASSUME Channel!SubsAssumption, Channel!Init
  PROVE  ChannelInv
  <1> DEFINE p == [queue |-> <<>>, running |-> FALSE, handling |-> 0, handled |-> <<>>]
  <1>1. <<>> \in Seq(Nat) /\ Len(<<>>) = 0 /\ Channel!Range(<<>>) = {} /\ <<>> \o <<>> = <<>>
    BY EmptySeq, ConcatEmptySeq DEF Channel!Range
  <1>2. PumpOK(p, 0) /\ InOrder(p, 0)
    <2>1. p \in Pump /\ All(p) = <<>> /\ p.queue = <<>> /\ ~p.running /\ p.handling = 0
      BY <1>1 DEF Pump, All
    <2>2. <<>> = [i \in 1..0 |-> i]
      OBVIOUS
    <2>3. QED
      BY <1>1, <2>1, <2>2 DEF PumpOK, Sent, InOrder
  <1> HIDE DEF p
  <1>3. pump = [sub \in Subs |-> p] /\ sends = 0 /\ drained = {} /\ drainWaiters = {}
    BY DEF Channel!Init, p
  <1>4. QED
    BY <1>2, <1>3 DEF ChannelInv, Channel!SubsAssumption

(* What one burst of sends brings to every subscriber. *)
LEMMA BurstKeeps ==
  ASSUME Channel!SubsAssumption, ChannelInv, NEW count \in Nat \ {0},
         NEW brought \in [Subs -> Seq(Nat)],
         \A sub \in Subs : Len(brought[sub]) = count /\ Channel!Range(brought[sub]) = sends + 1..sends + count,
         brought[1] = [i \in 1..count |-> sends + i],
         pump' = [sub \in Subs |-> Channel!Push(pump[sub], brought[sub])],
         sends' = sends + count, UNCHANGED <<drainWaiters, drained>>
  PROVE  ChannelInv'
  <1>1. sends \in Nat /\ \A sub \in Subs : PumpOK(pump[sub], sends)
    BY DEF ChannelInv
  <1>2. \A sub \in Subs : pump'[sub] = Channel!Push(pump[sub], brought[sub])
    OBVIOUS
  <1>3. ASSUME NEW sub \in Subs
        PROVE  /\ PumpOK(pump'[sub], sends + count)
               /\ All(pump'[sub]) = All(pump[sub]) \o brought[sub]
               /\ \A m \in 0..sends : Done(pump[sub], m) => Done(pump'[sub], m)
    <2> DEFINE msgs == brought[sub]
    <2>1. msgs \in Seq(Nat) /\ Len(msgs) = count /\ Channel!Range(msgs) = sends + 1..sends + count
      OBVIOUS
    <2> HIDE DEF msgs
    <2>2. msgs # <<>>
      BY <2>1, EmptySeq
    <2>3. /\ PumpOK(Channel!Push(pump[sub], msgs), sends + Len(msgs))
          /\ All(Channel!Push(pump[sub], msgs)) = All(pump[sub]) \o msgs
          /\ \A m \in 0..sends : Done(pump[sub], m) => Done(Channel!Push(pump[sub], msgs), m)
      BY <1>1, <2>1, <2>2, PushKeeps
    <2>4. QED
      BY <1>2, <2>1, <2>3 DEF msgs
  <1>4. InOrder(pump'[1], sends + count)
    <2> DEFINE a == [i \in 1..sends |-> i]
               b == [i \in 1..count |-> sends + i]
    <2>1. All(pump'[1]) = a \o b
      BY <1>3 DEF ChannelInv, InOrder, Channel!SubsAssumption
    <2>2. /\ a \in Seq(Nat) /\ Len(a) = sends /\ \A i \in 1..sends : a[i] = i
          /\ b \in Seq(Nat) /\ Len(b) = count /\ \A i \in 1..count : b[i] = sends + i
      BY <1>1
    <2> HIDE DEF a, b
    <2> DEFINE c == a \o b
               e == [i \in 1..sends + count |-> i]
    <2>3. /\ c \in Seq(Nat) /\ Len(c) = sends + count
          /\ \A i \in 1..sends + count : c[i] = IF i <= sends THEN a[i] ELSE b[i - sends]
      <3>1. /\ c \in Seq(Nat) /\ Len(c) = Len(a) + Len(b)
            /\ \A i \in 1..Len(a) + Len(b) : c[i] = IF i <= Len(a) THEN a[i] ELSE b[i - Len(a)]
        <4>1. a \in Seq(Nat) /\ b \in Seq(Nat)
          BY <2>2
        <4>2. QED
          BY ONLY <4>1, Concat
      <3> HIDE DEF c
      <3>2. QED
        BY <2>2, <3>1
    <2>4. e \in Seq(Nat) /\ Len(e) = sends + count /\ \A i \in 1..sends + count : e[i] = i
      BY <1>1
    <2> HIDE DEF c, e
    <2>5. \A i \in 1..sends + count : c[i] = e[i]
      <3> SUFFICES ASSUME NEW i \in 1..sends + count PROVE c[i] = i
        BY <2>4
      <3>1. CASE i <= sends
        BY <1>1, <2>2, <2>3, <3>1
      <3>2. CASE i > sends
        <4>1. i - sends \in 1..count /\ ~(i <= sends) /\ sends + (i - sends) = i
          BY <1>1, <3>2
        <4>2. QED
          BY <2>2, <2>3, <4>1
      <3>3. QED
        BY <1>1, <3>1, <3>2
    <2>6. c = e
      BY <2>3, <2>4, <2>5, SeqEqual
    <2>7. QED
      BY <2>1, <2>6 DEF InOrder, c, e
  <1>5. \A d \in drained \cup drainWaiters : d.sent \in 0..sends /\ d.sent \in 0..sends + count
    BY <1>1 DEF ChannelInv
  <1>6. \A d \in drained, sub \in Subs : Done(pump'[sub], d.sent)
    BY <1>3, <1>5 DEF ChannelInv
  <1>7. QED
    BY <1>1, <1>2, <1>3, <1>4, <1>5, <1>6 DEF ChannelInv

LEMMA SendKeeps ==
  ASSUME Channel!SubsAssumption, ChannelInv, Channel!Send
  PROVE  ChannelInv'
  <1>1. sends \in Nat /\ UNCHANGED <<drainWaiters, drained>>
    BY DEF ChannelInv, Channel!Send
  <1>2. CASE /\ pump' = [sub \in Subs |-> Channel!Push(pump[sub], <<sends + 1>>)]
             /\ sends' = sends + 1
    <2> DEFINE brought == [sub \in Subs |-> <<sends + 1>>]
    <2>1. /\ <<sends + 1>> \in Seq(Nat) /\ Len(<<sends + 1>>) = 1
          /\ Channel!Range(<<sends + 1>>) = sends + 1..sends + 1
          /\ <<sends + 1>> = [i \in 1..1 |-> sends + i]
      BY <1>1 DEF Channel!Range
    <2>2. /\ brought \in [Subs -> Seq(Nat)]
          /\ \A sub \in Subs : brought[sub] = <<sends + 1>>
          /\ brought[1] = [i \in 1..1 |-> sends + i]
      BY <2>1 DEF Channel!SubsAssumption
    <2> HIDE DEF brought
    <2>3. pump' = [sub \in Subs |-> Channel!Push(pump[sub], brought[sub])]
      BY <1>2, <2>2
    <2>4. PICK count \in Nat \ {0} : count = 1
      OBVIOUS
    <2>5. /\ \A sub \in Subs : Len(brought[sub]) = count /\ Channel!Range(brought[sub]) = sends + 1..sends + count
          /\ brought[1] = [i \in 1..count |-> sends + i] /\ sends' = sends + count
      BY <1>2, <2>1, <2>2, <2>4
    <2>6. QED
      BY ONLY Channel!SubsAssumption, ChannelInv, <1>1, <2>2, <2>3, <2>5, BurstKeeps
  <1>3. ASSUME NEW sender \in Subs,
               pump' = [sub \in Subs |-> Channel!Push(pump[sub], IF sub <= sender THEN <<sends + 1, sends + 2>>
                                                         ELSE <<sends + 2, sends + 1>>)],
               sends' = sends + 2
        PROVE  ChannelInv'
    <2> DEFINE up      == <<sends + 1, sends + 2>>
               down    == <<sends + 2, sends + 1>>
               brought == [sub \in Subs |-> IF sub <= sender THEN up ELSE down]
    <2>1. /\ up \in Seq(Nat) /\ Len(up) = 2 /\ Channel!Range(up) = sends + 1..sends + 2
          /\ up = [i \in 1..2 |-> sends + i]
          /\ down \in Seq(Nat) /\ Len(down) = 2 /\ Channel!Range(down) = sends + 1..sends + 2
      BY <1>1 DEF Channel!Range
    <2>2. pump' = [sub \in Subs |-> Channel!Push(pump[sub], IF sub <= sender THEN up ELSE down)]
      BY <1>3
    <2> HIDE DEF up, down
    <2>3. /\ brought \in [Subs -> Seq(Nat)]
          /\ \A sub \in Subs : brought[sub] = IF sub <= sender THEN up ELSE down
      BY <2>1
    <2>4. brought[1] = up
      BY <2>3 DEF Channel!SubsAssumption
    <2> HIDE DEF brought
    <2>5. pump' = [sub \in Subs |-> Channel!Push(pump[sub], brought[sub])]
      BY <2>2, <2>3
    <2>6. \A sub \in Subs : Len(brought[sub]) = 2 /\ Channel!Range(brought[sub]) = sends + 1..sends + 2
      BY <2>1, <2>3
    <2>7. PICK count \in Nat \ {0} : count = 2
      OBVIOUS
    <2>8. /\ \A sub \in Subs : Len(brought[sub]) = count /\ Channel!Range(brought[sub]) = sends + 1..sends + count
          /\ brought[1] = [i \in 1..count |-> sends + i] /\ sends' = sends + count
      BY <1>3, <2>1, <2>4, <2>6, <2>7
    <2>9. QED
      BY ONLY Channel!SubsAssumption, ChannelInv, <1>1, <2>3, <2>5, <2>8, BurstKeeps
  <1>4. QED
    BY <1>2, <1>3 DEF Channel!Send

LEMMA DrainKeeps ==
  ASSUME Channel!SubsAssumption, ChannelInv, Channel!Drain
  PROVE  ChannelInv'
  <1> DEFINE d == [drain |-> Channel!Cardinality(drained) + Channel!Cardinality(drainWaiters), sent |-> sends]
  <1>1. /\ UNCHANGED <<pump, sends>> /\ d.sent = sends /\ sends \in Nat
        /\ \/ Channel!IsIdle(pump) /\ drained' = drained \cup {d} /\ drainWaiters' = drainWaiters
           \/ drained' = drained /\ drainWaiters' = drainWaiters \cup {d}
    BY DEF Channel!Drain, ChannelInv
  <1> HIDE DEF d
  <1>2. Channel!IsIdle(pump) => \A sub \in Subs : Done(pump[sub], sends)
    <2> SUFFICES ASSUME Channel!IsIdle(pump), NEW sub \in Subs PROVE Done(pump[sub], sends)
      OBVIOUS
    <2>1. PumpOK(pump[sub], sends) /\ pump[sub].queue = <<>> /\ ~pump[sub].running
      BY DEF Channel!IsIdle, ChannelInv
    <2>2. pump[sub].handled \in Seq(Nat) /\ pump[sub].handling = 0
      BY <2>1 DEF PumpOK, Sent, Pump
    <2>3. All(pump[sub]) = pump[sub].handled
      BY <2>1, <2>2, ConcatEmptySeq DEF All
    <2>4. QED
      BY <1>1, <2>1, <2>2, <2>3, EmptySeq DEF Done, PumpOK, Sent
  <1>3. \A e \in drained' \cup drainWaiters' : e = d \/ e \in drained \cup drainWaiters
    BY <1>1
  <1>4. \A e \in drained' : e \in drained \/ (e = d /\ Channel!IsIdle(pump))
    BY <1>1
  <1>5. QED
    BY <1>1, <1>2, <1>3, <1>4 DEF ChannelInv

LEMMA HandlerKeeps ==
  ASSUME Channel!SubsAssumption, ChannelInv, NEW sub \in Subs, Channel!HandlerSettles(sub)
  PROVE  ChannelInv'
  <1> DEFINE p == pump[sub]
             r == [p EXCEPT !.running = FALSE, !.handling = 0]
             q == IF p.queue # <<>> THEN Channel!Shift(p) ELSE r
  <1>1. /\ sends \in Nat /\ sends' = sends
        /\ pump' = [pump EXCEPT ![sub] = q] /\ pump = [s \in Subs |-> pump[s]]
        /\ \/ UNCHANGED <<drainWaiters, drained>>
           \/ /\ p.queue = <<>> /\ Channel!IsIdle(pump')
              /\ drained' = drained \cup drainWaiters /\ drainWaiters' = {}
    BY DEF Channel!HandlerSettles, Channel!Wakes, ChannelInv
  <1>2. PumpOK(p, sends)
    BY DEF ChannelInv
  <1>3. /\ PumpOK(q, sends) /\ All(q) = All(p)
        /\ \A m \in 0..sends : Done(p, m) => Done(q, m)
    <2>1. CASE p.queue # <<>>
      <3>1. p \in Pump /\ Sent(p, sends)
        BY <1>2 DEF PumpOK, Sent
      <3>2. PumpOK(Channel!Shift(p), sends) /\ \A m \in 0..sends : Done(p, m) => Done(Channel!Shift(p), m)
        BY <1>1, <2>1, <3>1, TurnKeeps
      <3>3. All(Channel!Shift(p)) = All(p)
        BY <2>1, <3>1, Turns
      <3>4. QED
        BY <2>1, <3>2, <3>3
    <2>2. CASE p.queue = <<>>
      <3>1. PumpOK(r, sends) /\ All(r) = All(p) /\ \A m \in 0..sends : Done(r, m)
        BY <1>1, <1>2, <2>2, RestKeeps
      <3>2. QED
        BY <2>2, <3>1
    <2>3. QED
      BY <2>1, <2>2
  <1>4. \A s \in Subs : pump'[s] = IF s = sub THEN q ELSE pump[s]
    BY <1>1
  <1> HIDE DEF q
  <1>5. pump' = [s \in Subs |-> pump'[s]] /\ \A s \in Subs : PumpOK(pump'[s], sends)
    BY <1>1, <1>3, <1>4 DEF ChannelInv
  <1>6. InOrder(pump'[1], sends)
    BY <1>3, <1>4 DEF ChannelInv, InOrder, Channel!SubsAssumption
  <1>7. \A d \in drained \cup drainWaiters : d.sent \in 0..sends
    BY DEF ChannelInv
  <1>8. \A d \in drained, s \in Subs : Done(pump'[s], d.sent)
    BY <1>3, <1>4, <1>7 DEF ChannelInv
  <1>9. Channel!IsIdle(pump') => \A s \in Subs, m \in 0..sends : Done(pump'[s], m)
    <2> SUFFICES ASSUME Channel!IsIdle(pump'), NEW s \in Subs, NEW m \in 0..sends PROVE Done(pump'[s], m)
      OBVIOUS
    <2>1. PumpOK(pump'[s], sends) /\ pump'[s].queue = <<>> /\ ~pump'[s].running
      BY <1>5 DEF Channel!IsIdle
    <2>2. pump'[s].handled \in Seq(Nat) /\ pump'[s].handling = 0
      BY <2>1 DEF PumpOK, Sent, Pump
    <2>3. All(pump'[s]) = pump'[s].handled
      BY <2>1, <2>2, ConcatEmptySeq DEF All
    <2>4. QED
      BY <1>1, <2>1, <2>2, <2>3, EmptySeq DEF Done, PumpOK, Sent
  <1>10. QED
    BY <1>1, <1>5, <1>6, <1>7, <1>8, <1>9 DEF ChannelInv

LEMMA ChannelInvStep ==
  ASSUME Channel!SubsAssumption, ChannelInv, [Channel!Next]_(Channel!vars)
  PROVE  ChannelInv'
  <1>1. CASE Channel!Close
    BY <1>1 DEF Channel!Close, ChannelInv
  <1>2. CASE Channel!Settling
    BY <1>2, HandlerKeeps DEF Channel!Settling
  <1>3. CASE UNCHANGED Channel!vars
    BY <1>3 DEF Channel!vars, ChannelInv
  <1>4. QED
    BY <1>1, <1>2, <1>3, SendKeeps, DrainKeeps DEF Channel!Next
-----------------------------------------------------------------------------
(* The clock: the segment that is open is the one of the phase, or one of   *)
(* the user's that a wait left open and that the next start overwrites.     *)
SegmentsOK ==
  /\ phase \in {"idle", "waiting", "requesting", "tools"}
  /\ active \in Clock!Roles \cup {Clock!None}
  /\ phase = "requesting" <=> active = "claude"
  /\ phase = "tools" <=> active = "tools"
  /\ since \in Nat /\ now \in Nat /\ since <= now

ChargesOK ==
  /\ totals \in [Clock!Roles -> Nat]
  /\ elapsed \in [user : Nat, tools : Nat, claude : Nat, attempt : Nat]
  /\ totals["claude"] = elapsed.claude
  /\ elapsed.attempt = IF phase = "requesting" THEN now - since ELSE 0
  /\ elapsed.tools = totals["tools"] + IF phase = "tools" THEN now - since ELSE 0
  /\ totals["user"] + (IF active = "user" THEN now - since ELSE 0) <= elapsed.user

ClockInv == SegmentsOK /\ ChargesOK

(* The next unit of time, charged to the segment that is open.               *)
LEMMA TickKeeps == ASSUME ClockInv, Clock!Tick PROVE ClockInv'
<1>1. /\ now' = now + 1 /\ UNCHANGED <<totals, active, since, phase>>
      /\ elapsed' \in [user : Nat, tools : Nat, claude : Nat, attempt : Nat]
      /\ elapsed'.claude = elapsed.claude
      /\ elapsed'.attempt = elapsed.attempt + IF phase = "requesting" THEN 1 ELSE 0
      /\ elapsed'.tools = elapsed.tools + IF phase = "tools" THEN 1 ELSE 0
      /\ elapsed'.user = elapsed.user + IF phase \in {"requesting", "tools"} THEN 0 ELSE 1
  BY DEF Clock!Tick, ClockInv, SegmentsOK, ChargesOK
<1>2. SegmentsOK'
  BY <1>1 DEF ClockInv, SegmentsOK
<1>3. ChargesOK'
  BY <1>1 DEF ClockInv, SegmentsOK, ChargesOK, Clock!Roles
<1> QED
  BY <1>2, <1>3 DEF ClockInv

(* A stop keeps what the segment took, or leaves it out.                     *)
LEMMA StopKeeps ==
  ASSUME ClockInv, NEW role \in Clock!Roles, NEW keep \in BOOLEAN, Clock!Stop(role, keep)
  PROVE  /\ active' = IF active = role THEN Clock!None ELSE active
         /\ since' \in Nat /\ since' <= now /\ (active # role => since' = since)
         /\ totals' \in [Clock!Roles -> Nat]
         /\ totals'[role] = totals[role] + IF active = role /\ keep THEN now - since ELSE 0
         /\ \A other \in Clock!Roles \ {role} : totals'[other] = totals[other]
<1>1. now - since \in Nat /\ totals \in [Clock!Roles -> Nat]
  BY DEF ClockInv, SegmentsOK, ChargesOK
<1>2. CASE active # role
  BY <1>1, <1>2 DEF Clock!Stop, ClockInv, SegmentsOK
<1>3. CASE active = role
  BY <1>1, <1>3 DEF Clock!Stop, ClockInv, SegmentsOK
<1> QED
  BY <1>2, <1>3

LEMMA AttemptBooked ==
  ASSUME NEW e \in [user : Nat, tools : Nat, claude : Nat, attempt : Nat], NEW more \in Nat
  PROVE  LET booked == [e EXCEPT !.attempt = 0, !.claude = @ + more]
         IN  /\ booked \in [user : Nat, tools : Nat, claude : Nat, attempt : Nat]
             /\ booked.attempt = 0 /\ booked.tools = e.tools /\ booked.user = e.user
             /\ booked.claude = e.claude + more
<1> DEFINE none == [e EXCEPT !.attempt = 0]
<1>1. /\ none \in [user : Nat, tools : Nat, claude : Nat, attempt : Nat]
      /\ none.attempt = 0 /\ none.tools = e.tools /\ none.user = e.user /\ none.claude = e.claude
  OBVIOUS
<1>2. e.claude + more \in Nat
  OBVIOUS
<1> HIDE DEF none
<1>3. LET booked == [none EXCEPT !.claude = e.claude + more]
      IN  /\ booked \in [user : Nat, tools : Nat, claude : Nat, attempt : Nat]
          /\ booked.attempt = 0 /\ booked.tools = e.tools /\ booked.user = e.user
          /\ booked.claude = e.claude + more
  BY <1>1, <1>2
<1> QED
  BY <1>3 DEF none

LEMMA StepKeepsClock == ASSUME ClockInv, [Clock!Next]_(Clock!vars) PROVE ClockInv'
<1> USE DEF Clock!Roles, Clock!None
<1>1. CASE Clock!Tick
  BY <1>1, TickKeeps
<1>2. CASE Clock!WaitForInput \/ Clock!RequestStarted \/ Clock!ToolsStarted
  <2>1. SegmentsOK'
    BY <1>2 DEF Clock!WaitForInput, Clock!RequestStarted, Clock!ToolsStarted, Clock!Start,
      ClockInv, SegmentsOK
  <2>2. ChargesOK'
    BY <1>2 DEF Clock!WaitForInput, Clock!RequestStarted, Clock!ToolsStarted, Clock!Start,
      ClockInv, SegmentsOK, ChargesOK
  <2> QED
    BY <2>1, <2>2 DEF ClockInv
<1>3. CASE Clock!Submit
  <2>1. /\ Clock!Stop("user", TRUE) /\ UNCHANGED <<now, elapsed>>
        /\ phase' = IF phase = "waiting" THEN "idle" ELSE phase
    BY <1>3 DEF Clock!Submit
  <2>2. /\ active' = IF active = "user" THEN Clock!None ELSE active
        /\ since' \in Nat /\ since' <= now /\ (active # "user" => since' = since)
        /\ totals' \in [Clock!Roles -> Nat]
        /\ totals'["user"] = totals["user"] + IF active = "user" THEN now - since ELSE 0
        /\ \A other \in Clock!Roles \ {"user"} : totals'[other] = totals[other]
    BY <2>1, StopKeeps
  <2>3. SegmentsOK'
    BY <2>1, <2>2 DEF ClockInv, SegmentsOK
  <2>4. ChargesOK'
    BY <2>1, <2>2 DEF ClockInv, SegmentsOK, ChargesOK
  <2> QED
    BY <2>3, <2>4 DEF ClockInv
<1>4. CASE Clock!WireWins \/ UNCHANGED Clock!vars
  BY <1>4 DEF Clock!WireWins, Clock!vars, ClockInv, SegmentsOK, ChargesOK
<1>5. ASSUME NEW kept \in BOOLEAN, Clock!RequestSettled(kept) PROVE ClockInv'
  <2>1. /\ phase = "requesting" /\ phase' = "idle" /\ now' = now /\ Clock!Stop("claude", kept)
        /\ elapsed' \in [user : Nat, tools : Nat, claude : Nat, attempt : Nat]
        /\ elapsed'.attempt = 0 /\ elapsed'.tools = elapsed.tools /\ elapsed'.user = elapsed.user
        /\ elapsed'.claude = elapsed.claude + IF kept THEN elapsed.attempt ELSE 0
    BY <1>5, AttemptBooked DEF Clock!RequestSettled, ClockInv, ChargesOK
  <2>2. /\ active' = IF active = "claude" THEN Clock!None ELSE active
        /\ since' \in Nat /\ since' <= now /\ (active # "claude" => since' = since)
        /\ totals' \in [Clock!Roles -> Nat]
        /\ totals'["claude"] = totals["claude"] + IF active = "claude" /\ kept THEN now - since ELSE 0
        /\ \A other \in Clock!Roles \ {"claude"} : totals'[other] = totals[other]
    BY <2>1, StopKeeps
  <2>3. SegmentsOK'
    BY <2>1, <2>2 DEF ClockInv, SegmentsOK
  <2>4. ChargesOK'
    BY <2>1, <2>2 DEF ClockInv, SegmentsOK, ChargesOK
  <2> QED
    BY <2>3, <2>4 DEF ClockInv
<1>6. CASE Clock!ToolsStopped
  <2>1. phase = "tools" /\ phase' = "idle" /\ Clock!Stop("tools", TRUE) /\ UNCHANGED <<now, elapsed>>
    BY <1>6 DEF Clock!ToolsStopped
  <2>2. /\ active' = IF active = "tools" THEN Clock!None ELSE active
        /\ since' \in Nat /\ since' <= now /\ (active # "tools" => since' = since)
        /\ totals' \in [Clock!Roles -> Nat]
        /\ totals'["tools"] = totals["tools"] + IF active = "tools" THEN now - since ELSE 0
        /\ \A other \in Clock!Roles \ {"tools"} : totals'[other] = totals[other]
    BY <2>1, StopKeeps
  <2>3. SegmentsOK'
    BY <2>1, <2>2 DEF ClockInv, SegmentsOK
  <2>4. ChargesOK'
    BY <2>1, <2>2 DEF ClockInv, SegmentsOK, ChargesOK
  <2> QED
    BY <2>3, <2>4 DEF ClockInv
<1> QED
  BY <1>1, <1>2, <1>3, <1>4, <1>5, <1>6 DEF Clock!Next

-----------------------------------------------------------------------------
(* The theorems.                                                           *)

(* However a request fails and in whatever order, the three budgets stay    *)
(* apart, and the account limit is hit a bounded number of times.           *)
(* [the catch of TurnRunner.run]                                            *)
THEOREM RetriesAlwaysBounded == Spec => []RetriesBounded
  <1>1. Init => RetryInv
    BY RetryConstants, InitRetry DEF Init
  <1>2. [Next]_all => [Request!Next]_(Request!vars)
    BY DEF Next, all, RequestStep, WireStep, ScreenStep, ChannelStep, ClockStep, PastStep, AsksStep,
      request, Request!vars
  <1>3. RetryInv /\ [Request!Next]_(Request!vars) => RetryInv'
    BY RetryConstants, NextRetry
  <1>4. RetryInv => RetriesBounded
    BY RetryConstants DEF RetryInv, CountsOK, AttemptsOK, LimitClockOK, RetriesBounded,
      Request!RetriesBounded, Request!TypeOK, Going, Request!BudgetsAssumption
  <1>5. QED
    BY <1>1, <1>2, <1>3, <1>4, PTL DEF Spec

(* No request follows the abort of its turn, whether it comes in a request  *)
(* or in a wait.  [the abort checks behind each await of TurnRunner.run]    *)
THEOREM AbortedIsSilent == Spec => NoRequestAfterAbort
  <1>1. [Next]_all => [cancelledTurn /\ attempt # "request" => attempt' # "request"]_(Request!vars)
    BY DEF Next, all, RequestStep, WireStep, ScreenStep, ChannelStep, ClockStep, PastStep, AsksStep,
      request, Request!vars, Request!counters, Request!Next, Request!Settles, Request!Abort,
      Request!Answered, Request!ThrownOnAbort, Request!Thrown, Request!Wakes, Request!Settled
  <1>2. QED
    BY <1>1, PTL DEF Spec, NoRequestAfterAbort, Request!NoRequestAfterAbort

(* For any number of tools, keys, messages from the bus, cancels and timers: *)
(* the screen, the keys, the bus and the handlers have the same asks, and a  *)
(* tool that was asked for runs only if it was approved by name.             *)
(* [AgentMessageHandler, ToolApprovalState, ApprovalHolder]                  *)
THEOREM AsksAlwaysSound == Spec => []AsksSound
  <1>1. Init => AskInv
    BY InitAsk DEF Init
  <1>2. [Next]_all => [Asks!Next]_(Asks!vars)
    BY DEF Next, all, RequestStep, WireStep, ScreenStep, ChannelStep, ClockStep, PastStep, AsksStep,
      asks, Asks!vars, Asks!screen, Asks!bell
  <1>3. AskInv /\ [Asks!Next]_(Asks!vars) => AskInv'
    BY AskConstants, AskStep
  <1>4. AskInv => AsksSound
    BY QuietLists DEF AsksSound, AskInv, OutcomesOK
  <1>5. QED
    BY <1>1, <1>2, <1>3, <1>4, PTL DEF Spec

(* For any number of subscribers and messages: each gets every message once, *)
(* the first one in order, and a drain that has resolved left nothing behind *)
(* that was sent before it.  [ControlChannel.ts]                             *)
THEOREM RepliesDelivered == Spec => []Delivered
  <1>1. Init => ChannelInv
    BY ChannelConstants, InitChannel DEF Init
  <1>2. [Next]_all => [Channel!Next]_(Channel!vars)
    BY DEF Next, all, RequestStep, WireStep, ScreenStep, ChannelStep, ClockStep, PastStep, AsksStep,
      channel, Channel!vars
  <1>3. ChannelInv /\ [Channel!Next]_(Channel!vars) => ChannelInv'
    BY ChannelConstants, ChannelInvStep
  <1>4. ChannelInv => Delivered
    BY DEF ChannelInv, Delivered, Channel!Delivered, PumpOK, Sent, InOrder, Done, Channel!Stream, All
  <1>5. QED
    BY <1>1, <1>2, <1>3, <1>4, PTL DEF Spec

(* However long the program runs, a cancelled wait, a retried request or a  *)
(* submit that comes late charges nobody for another's time.                *)
(* [TurnClock.ts and the three places that drive it]                        *)
THEOREM TimesAlwaysTrue == Spec => []TimesAreTrue
  <1>1. Init => ClockInv
    BY DEF Init, Clock!Init, ClockInv, SegmentsOK, ChargesOK, Clock!Roles, Clock!None
  <1>2. [Next]_all => [Clock!Next]_(Clock!vars)
    BY DEF Next, all, RequestStep, WireStep, ScreenStep, ChannelStep, ClockStep, PastStep,
      AsksStep, clock, Clock!vars
  <1>3. ClockInv /\ [Clock!Next]_(Clock!vars) => ClockInv'
    BY StepKeepsClock
  <1>4. ClockInv => TimesAreTrue
    BY DEF ClockInv, SegmentsOK, ChargesOK, TimesAreTrue, Clock!TimesAreTrue, Clock!Snapshot,
      Clock!Roles, Clock!None
  <1>5. QED
    BY <1>1, <1>2, <1>3, <1>4, PTL DEF Spec
=============================================================================
