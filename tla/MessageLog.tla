------------------------------ MODULE MessageLog ------------------------------
(***************************************************************************)
(* What a conversation promises, whoever keeps it: a log of messages that  *)
(* only grows at its tip, and requests that leave only when the log is one *)
(* the Messages API accepts.  QueryRunner and Conversation implement it.   *)
(***************************************************************************)
EXTENDS History

VARIABLES
  log,       \* the messages, oldest first
  inFlight   \* a request made from log awaits its reply

logVars == << log, inFlight >>

LogInit == log = << >> /\ inFlight = FALSE

(* The user's side of the log gains a message, or is resent as it is; the  *)
(* log is healed if it is sent.  Only open questions are ever answered.    *)
Users(text, results, push, send) ==
  /\ ~inFlight
  /\ results \subseteq Unanswered(log)
  /\ LET g == IF push THEN Push(log, UserMessage(text, results)) ELSE log
     IN  log' = IF send THEN HealDanglingToolUse(g) ELSE g
  /\ inFlight' = send
  /\ send => RequestOK(log')

(* The model's side gains a message, or nothing when the reply is empty.   *)
Replies(text, uses) ==
  /\ inFlight
  /\ log' = IF text \/ uses # {} THEN Push(log, AssistantMessage(text, uses)) ELSE log
  /\ inFlight' = FALSE

(* A process that starts again owes the answers its predecessor did not    *)
(* give.                                                                   *)
Recovers == log' = HealDanglingToolUse(log) /\ inFlight' = FALSE

LogNext ==
  \/ \E text, push, send \in BOOLEAN, results \in SUBSET ToolId :
       Users(text, results, push, send)
  \/ \E text \in BOOLEAN, uses \in SUBSET ToolId : Replies(text, uses)
  \/ Recovers

LogSpec == LogInit /\ [][LogNext]_logVars
=============================================================================
