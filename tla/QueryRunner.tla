----------------------------- MODULE QueryRunner -----------------------------
(***************************************************************************)
(* One query of packages/claude-sdk: QueryRunner's turn loop, its parallel *)
(* tool dispatch, and the ApprovalCoordinator through which the user       *)
(* answers approvals and cancels.  A turn's request is one await here; the *)
(* retry loop inside it is TurnRetry.tla.                                  *)
(*                                                                         *)
(* JavaScript runs to completion between awaits, so an action is the code  *)
(* from one await to the next.  The user, the API and the tools act        *)
(* between those segments, in any order.                                   *)
(***************************************************************************)
EXTENDS History

CONSTANTS
  ApprovalModes,      \* values durableConfig.requireToolApproval may take
  Hanging,            \* tools whose handler returns only once it is aborted
  MaxEmptyRetries,    \* the literal 2 of the empty-tool-use retry
  MaxLen              \* bound on the length of the history

ASSUME ParametersAssumption ==
  /\ ApprovalModes \subseteq BOOLEAN
  /\ Hanging \subseteq ToolId
  /\ MaxEmptyRetries \in Nat
  /\ MaxLen \in Nat

VARIABLES
  hist,           \* Conversation.#items
  phase,          \* where run() is suspended
  emptyRetries,   \* emptyToolUseRetries
  tool,           \* each tool_use of the current batch
  ran,            \* the tools of the latest round whose handler was started
  cancelled,      \* ApprovalCoordinator.#cancelled
  registered,     \* #toolController is non-null
  toolCancelled,  \* #toolCancelled
  signal          \* the batch's toolController is aborted

coordinator == << cancelled, registered, toolCancelled >>
vars == << hist, phase, emptyRetries, tool, ran, coordinator, signal >>

(* "streaming": awaiting the turn; "tools": awaiting approvals or runs;    *)
(* "closing": awaiting blockEnded in the batch's finally.                  *)
Phase == {"idle", "streaming", "tools", "closing"}

(* "pending" waits in the coordinator's map; "approved" and "rejected" are *)
(* settled responses the dispatch loop has not seen yet; "answered" has a  *)
(* result without having run; "done" has run and has its result;           *)
(* "skipped" is ready, never run and gets no result.                       *)
ToolStatus == {"none", "pending", "approved", "rejected", "running", "done",
               "answered", "skipped"}

TypeOK ==
  /\ hist \in Seq(Message)
  /\ phase \in Phase
  /\ emptyRetries \in 0 .. MaxEmptyRetries
  /\ tool \in [ToolId -> ToolStatus]
  /\ ran \in SUBSET ToolId
  /\ cancelled \in BOOLEAN
  /\ registered \in BOOLEAN
  /\ toolCancelled \in BOOLEAN
  /\ signal \in BOOLEAN

NoTools == [t \in ToolId |-> "none"]

In(S) == {t \in ToolId : tool[t] \in S}

Init ==
  /\ hist = << >>
  /\ phase = "idle"
  /\ emptyRetries = 0
  /\ tool = NoTools
  /\ ran = {}
  /\ cancelled = FALSE
  /\ registered = FALSE
  /\ toolCancelled = FALSE
  /\ signal = FALSE

-----------------------------------------------------------------------------
(* Variant for the mutation checks: the loop forgets its condition. *)
NextTurnIgnoringCancel(h) ==
  hist' = HealDanglingToolUse(h) /\ phase' = "streaming"

(* The head of the turn loop: leave when cancelled, otherwise heal the     *)
(* history and send it.                                                    *)
NextTurn(h) ==
  IF cancelled
  THEN hist' = h /\ phase' = "idle"
  ELSE hist' = HealDanglingToolUse(h) /\ phase' = "streaming"

(* The history run(input) starts from: with the opening message pushed, or  *)
(* as it is when an unanswered user message is resumed with an empty input. *)
Opened(resume) == IF resume THEN hist ELSE Push(hist, UserMessage(TRUE, {}))

(* run(input): drop what an earlier query left in the coordinator, push    *)
(* the opening message, and send the first request.                        *)
Start(resume) ==
  /\ phase = "idle"
  /\ Len(hist) < MaxLen
  /\ resume => EndsWith(hist, "user")
  /\ hist' = HealDanglingToolUse(Opened(resume))
  /\ phase' = "streaming"
  /\ emptyRetries' = 0
  /\ cancelled' = FALSE
  /\ registered' = FALSE
  /\ toolCancelled' = FALSE
  /\ UNCHANGED << tool, ran, signal >>

(* The turn failed for good: the error is published (or, for an account    *)
(* limit, nothing is) and the query is over.                               *)
TurnFails ==
  /\ phase = "streaming"
  /\ phase' = "idle"
  /\ UNCHANGED << hist, emptyRetries, tool, ran, coordinator, signal >>

WithReply(text, uses) ==
  IF text \/ uses # {} THEN Push(hist, AssistantMessage(text, uses)) ELSE hist

(* Any stop reason but tool_use ends the query, whatever the blocks are:   *)
(* a turn cut off by max_tokens may leave tool_use blocks behind.          *)
TurnDone(text, uses) ==
  /\ phase = "streaming"
  /\ Len(hist) < MaxLen
  /\ hist' = WithReply(text, uses)
  /\ phase' = "idle"
  /\ ran' = {}
  /\ UNCHANGED << emptyRetries, tool, coordinator, signal >>

(* Variant: the rollback does not look at the role of what it removes. *)
TurnEmptyToolUseUnguarded(text) ==
  /\ phase = "streaming" /\ Len(hist) < MaxLen /\ emptyRetries < MaxEmptyRetries
  /\ NextTurn(RemoveLast(WithReply(text, {})))
  /\ emptyRetries' = emptyRetries + 1
  /\ ran' = {}
  /\ UNCHANGED << tool, coordinator, signal >>

(* stop_reason tool_use without a tool_use block: roll the reply back and  *)
(* ask again, or give up.                                                  *)
TurnEmptyToolUse(text) ==
  /\ phase = "streaming"
  /\ Len(hist) < MaxLen
  /\ ran' = {}
  /\ LET replied == WithReply(text, {})
         rolledBack == IF EndsWith(replied, "assistant") THEN RemoveLast(replied) ELSE replied
     IN  IF emptyRetries < MaxEmptyRetries
         THEN /\ emptyRetries' = emptyRetries + 1
              /\ NextTurn(rolledBack)
         ELSE /\ hist' = replied
              /\ phase' = "idle"
              /\ UNCHANGED emptyRetries
  /\ UNCHANGED << tool, coordinator, signal >>

(* Variant: approvals are requested even when the query is cancelled. *)
DispatchedIgnoringCancel(uses, ready, approval) ==
  [t \in ToolId |->
    IF t \notin uses THEN "none"
    ELSE IF t \notin ready THEN "answered"
    ELSE IF approval THEN "pending" ELSE "running"]

(* The status a tool_use of a fresh batch gets before the first await.     *)
(* The ones the registry cannot resolve have their error result at once.   *)
Dispatched(uses, ready, approval) ==
  [t \in ToolId |->
    IF t \notin uses THEN "none"
    ELSE IF t \notin ready THEN "answered"
    ELSE IF approval THEN (IF cancelled THEN "answered" ELSE "pending")
    ELSE IF cancelled THEN "skipped" ELSE "running"]

(* ApprovalCoordinator.toolRunStarted *)
ToolRunStarted == registered' = TRUE /\ toolCancelled' = FALSE

(* A turn that asks for tools: resolve them all, then either register one  *)
(* approval request each or start every ready one.                         *)
TurnToolUse(text, uses, ready, approval) ==
  /\ phase = "streaming"
  /\ Len(hist) + 2 <= MaxLen
  /\ uses # {}
  /\ hist' = WithReply(text, uses)
  /\ phase' = "tools"
  /\ emptyRetries' = 0
  /\ signal' = FALSE
  /\ tool' = Dispatched(uses, ready, approval)
  /\ IF ~approval /\ ~cancelled /\ ready # {}
     THEN ran' = ready /\ ToolRunStarted
     ELSE ran' = {} /\ UNCHANGED << registered, toolCancelled >>
  /\ UNCHANGED cancelled

(* Variant: toolRunStarted is called for every approved tool. *)
ReactReRegistering(t) ==
  /\ phase = "tools" /\ tool[t] \in {"approved", "rejected"}
  /\ tool' = [tool EXCEPT ![t] = IF @ = "approved" THEN "running" ELSE "answered"]
  /\ IF tool[t] = "approved"
     THEN ran' = ran \cup {t} /\ ToolRunStarted
     ELSE UNCHANGED << ran, registered, toolCancelled >>
  /\ UNCHANGED << hist, phase, emptyRetries, cancelled, signal >>

(* The dispatch loop takes one settled response.  The first approval of a  *)
(* batch registers the batch's controller; later ones must not.            *)
React(t) ==
  /\ phase = "tools"
  /\ \/ /\ tool[t] = "rejected"
        /\ tool' = [tool EXCEPT ![t] = "answered"]
        /\ UNCHANGED << ran, registered, toolCancelled >>
     \/ /\ tool[t] = "approved"
        /\ tool' = [tool EXCEPT ![t] = "running"]
        /\ ran' = ran \cup {t}
        /\ IF ran = {} THEN ToolRunStarted ELSE UNCHANGED << registered, toolCancelled >>
  /\ UNCHANGED << hist, phase, emptyRetries, cancelled, signal >>

(* A handler settles, with whatever outcome: the wrapper never rejects.    *)
ToolSettles(t) ==
  /\ tool[t] = "running"
  /\ t \in Hanging => signal
  /\ tool' = [tool EXCEPT ![t] = "done"]
  /\ UNCHANGED << hist, phase, emptyRetries, ran, coordinator, signal >>

(* Every response is in and every run has settled: toolRunFinished, then   *)
(* the batch's finally awaits blockEnded.                                  *)
BatchSettles ==
  /\ phase = "tools"
  /\ In({"pending", "approved", "rejected", "running"}) = {}
  /\ phase' = "closing"
  /\ registered' = (registered /\ ran = {})
  /\ UNCHANGED << hist, emptyRetries, tool, ran, cancelled, toolCancelled, signal >>

(* Variant: only the results known before the runs are delivered. *)
DeliverWithoutRuns ==
  /\ phase = "closing"
  /\ NextTurn(Push(hist, UserMessage(FALSE, In({"answered"}))))
  /\ tool' = NoTools
  /\ UNCHANGED << emptyRetries, ran, coordinator, signal >>

(* The results become the next user message, and the loop goes round.      *)
Deliver ==
  /\ phase = "closing"
  /\ NextTurn(Push(hist, UserMessage(FALSE, In({"answered", "done"}))))
  /\ tool' = NoTools
  /\ UNCHANGED << emptyRetries, ran, coordinator, signal >>

-----------------------------------------------------------------------------
(* The user, through ApprovalCoordinator.handle.                           *)

Respond(t, approved) ==
  /\ tool[t] = "pending"
  /\ tool' = [tool EXCEPT ![t] = IF approved THEN "approved" ELSE "rejected"]
  /\ UNCHANGED << hist, phase, emptyRetries, ran, coordinator, signal >>

CancelTool ==
  /\ registered /\ ~toolCancelled
  /\ toolCancelled' = TRUE
  /\ signal' = TRUE
  /\ UNCHANGED << hist, phase, emptyRetries, tool, ran, cancelled, registered >>

CancelQuery ==
  /\ ~(registered /\ ~toolCancelled)
  /\ cancelled' = TRUE
  /\ signal' = (signal \/ registered)
  /\ tool' = [t \in ToolId |-> IF tool[t] = "pending" THEN "rejected" ELSE tool[t]]
  /\ UNCHANGED << hist, phase, emptyRetries, ran, registered, toolCancelled >>

Cancel == CancelTool \/ CancelQuery

-----------------------------------------------------------------------------
(* The steps of the program, the API and the tools, all of which happen    *)
(* unless the user intervenes; the user owes nobody an answer.             *)
TurnEnds ==
  \/ TurnFails
  \/ \E text \in BOOLEAN, uses \in SUBSET ToolId : TurnDone(text, uses)
  \/ \E text \in BOOLEAN : TurnEmptyToolUse(text)
  \/ \E text \in BOOLEAN, uses \in SUBSET ToolId, approval \in ApprovalModes :
       \E ready \in SUBSET uses : TurnToolUse(text, uses, ready, approval)

Next ==
  \/ \E resume \in BOOLEAN : Start(resume)
  \/ TurnEnds
  \/ \E t \in ToolId : React(t)
  \/ \E t \in ToolId : ToolSettles(t)
  \/ BatchSettles
  \/ Deliver
  \/ \E t \in ToolId, approved \in BOOLEAN : Respond(t, approved)
  \/ Cancel

Spec == Init /\ [][Next]_vars

Progress ==
  /\ WF_vars(TurnEnds)
  /\ \A t \in ToolId : WF_vars(React(t)) /\ WF_vars(ToolSettles(t))
  /\ WF_vars(BatchSettles)
  /\ WF_vars(Deliver)

FairSpec == Spec /\ Progress

-----------------------------------------------------------------------------
(* Properties.                                                             *)

(* Every request the loop sends is one the Messages API accepts: roles     *)
(* alternate, every tool_use is answered by the very next message, no      *)
(* tool_result answers a question nobody asked, and nothing is empty,      *)
(* whatever was cancelled, cut off or rolled back before.                  *)
(* [QueryRunner.run with TurnRunner's heal]                                *)
RequestsWellFormed == phase = "streaming" => RequestOK(hist)

(* A cancelled query waits for no approval: everything pending when the    *)
(* cancel arrived was settled by it, and nothing is registered afterwards. *)
(* [ApprovalCoordinator.handle, and the check before the approvals]        *)
CancelDrainsApprovals == cancelled => In({"pending"}) = {}

(* A batch that was cancelled once and still runs escalates on the next    *)
(* cancel, however many tools were approved in between.                    *)
(* [toolRunStarted is called once per batch]                               *)
SecondCancelEscalates == registered /\ signal => toolCancelled

(* Outside a batch there is no tool controller left to swallow a cancel.   *)
(* [toolRunFinished in the finally of every path that started a run]       *)
ControllerScopedToBatch == phase # "tools" => ~registered

(* The result of a tool that ran is never replaced by the heal's "the      *)
(* outcome is unknown".  [the results of #runTools all reach the history]  *)
RunsAreReported == EndsWith(hist, "user") => Tip(hist).healed \cap ran = {}

(* No step rewrites the past: what lies before the tip stays as it was     *)
(* sent, a rollback removes nothing but the reply it rolls back, and the   *)
(* tip itself only gains content.                                          *)
(* [the rollback of an empty tool_use turn, the merge in Conversation.push] *)
PastIsKept == [][Continues(hist, hist')]_vars

(* A cancelled query sends nothing any more: the turn in flight may still  *)
(* end, but no further request leaves.  [the condition of the turn loop]   *)
NoRequestAfterCancel ==
  [][cancelled /\ phase # "idle" /\ phase' = "streaming"
       => phase = "streaming" /\ UNCHANGED << hist, emptyRetries >>]_vars

(* Once a query is cancelled it ends, or a handler stands in the way that  *)
(* ignores everything but an abort signal and started without one: its     *)
(* approval was answered before the cancel and taken up behind it.         *)
(* [no path of the dispatch loop waits for a promise nobody will resolve]  *)
CancelEndsQuery ==
  cancelled ~> \/ phase = "idle"
               \/ \E t \in Hanging : tool[t] = "running" /\ ~signal

(* "tool_cancel: a tool was running and this is the first cancel for it"   *)
(* (ApprovalCoordinator.handle): while a batch waits for approvals, a      *)
(* cancel goes to its tools only if one of them is running.                *)
ToolCancelHitsARun ==
  [][CancelTool /\ In({"pending"}) # {} => In({"running"}) # {}]_vars
-----------------------------------------------------------------------------
(* The inductive invariant behind these properties: what each suspension   *)
(* point of run() knows of the history, the batch and the coordinator.     *)

InBatch == phase \in {"tools", "closing"}

HistoryInv ==
  /\ WellKept(hist)
  /\ TipFillable(hist)
  /\ phase = "streaming" => RequestOK(hist)
  /\ InBatch => /\ EndsWith(hist, "assistant")
                /\ Tip(hist).uses = In(ToolStatus \ {"none"})
                /\ Tip(hist).uses # {}

BatchInv ==
  /\ ~InBatch => tool = NoTools
  /\ InBatch => In({"running", "done"}) = ran
  /\ phase = "closing" => In({"pending", "approved", "rejected", "running"}) = {}

CoordinatorInv ==
  /\ CancelDrainsApprovals
  /\ SecondCancelEscalates
  /\ ControllerScopedToBatch
  /\ phase = "tools" => (registered <=> ran # {})
  /\ phase = "tools" /\ ran = {} => ~signal

(* Where the results of the tools that ran are, between their round and    *)
(* the next one.                                                           *)
ReportInv ==
  /\ RunsAreReported
  /\ EndsWith(hist, "user") => ran \subseteq Tip(hist).results
  /\ ~InBatch /\ ~EndsWith(hist, "user") => ran = {}

(* Every step leaves TypeOK, the history, the batch and the coordinator in *)
(* the states that make the next step safe.                                *)
IndInv == TypeOK /\ HistoryInv /\ BatchInv /\ CoordinatorInv /\ ReportInv
-----------------------------------------------------------------------------
(* The turn loop keeps a MessageLog: cancels, approvals and rolled back    *)
(* replies stutter, and every request leaves from an accepted log.         *)
(* [QueryRunner.run]                                                       *)
Log == INSTANCE MessageLog WITH log <- hist, inFlight <- phase = "streaming"

ImplementsLog == Log!LogSpec
=============================================================================
