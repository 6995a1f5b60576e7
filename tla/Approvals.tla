------------------------------- MODULE Approvals -------------------------------
(***************************************************************************)
(* The asks of one process: AgentMessageHandler raises each on the screen  *)
(* (ToolApprovalState) and on the bus (ApprovalHolder), a key and an       *)
(* answer from the bus race for it, and the outcome goes back to the SDK's *)
(* ApprovalCoordinator.  A query that is cancelled leaves its asks open    *)
(* until runAgent clears them.                                             *)
(*                                                                         *)
(* A handler that has its answer goes on before the next event is taken;   *)
(* several keys of one read, or several messages of one packet, are one    *)
(* event.  The reminder command and the bus are taken to be configured.    *)
(***************************************************************************)
EXTENDS Integers, Sequences, SequencesExt

CONSTANTS
  ToolId,   \* the ids of the tools that are asked for, each once
  None      \* null and undefined: no tool's id, and no answer

VARIABLES
  query,        \* "idle", "running" or "cancelled"
  pending,      \* what the coordinator knows of each tool
  requests,     \* tool_approval_requests on their way to the handler
  ask,          \* where #toolApprovalRequest is, for each tool
  answer,       \* what won the race, if something has
  pendingTools, selectedTool,   \* ToolApprovalState, with its resolvers
  resolvers,
  served,       \* ApprovalHolder: the asks that pulse and are served
  settled,      \* the settlements published, in order
  timers,       \* ApprovalNotifier: the timers that run, next one first,
  timer,        \* and #timer
  said          \* history: the answers that were given, and to which ask

screen == << pendingTools, selectedTool, resolvers >>
bell == << timers, timer >>
vars == << query, pending, requests, ask, answer, screen, served, settled, bell, said >>

Answer == [by : {"key", "wire", "clear"}, approved : BOOLEAN]
NoneAssumption == None \notin ToolId \cup Answer

TypeOK ==
  /\ query \in {"idle", "running", "cancelled"}
  /\ pending \in [ToolId -> {"none", "pending", "approved", "rejected"}]
  /\ requests \subseteq ToolId
  /\ ask \in [ToolId -> {"none", "racing", "done"}]
  /\ answer \in [ToolId -> Answer \cup {None}]
  /\ pendingTools \in Seq(ToolId) /\ IsInjective(pendingTools)
  /\ selectedTool \in Nat
  /\ resolvers \subseteq ToolId
  /\ served \subseteq ToolId
  /\ settled \in Seq(ToolId \X BOOLEAN)
  /\ timers \in Seq(ToolId) /\ IsInjective(timers)
  /\ timer \in ToolId \cup {None}
  /\ said \subseteq ToolId \X BOOLEAN

Init ==
  /\ query = "idle"
  /\ pending = [t \in ToolId |-> "none"]
  /\ requests = {}
  /\ ask = [t \in ToolId |-> "none"]
  /\ answer = [t \in ToolId |-> None]
  /\ pendingTools = << >> /\ selectedTool = 0 /\ resolvers = {}
  /\ served = {} /\ settled = << >>
  /\ timers = << >> /\ timer = None
  /\ said = {}

Racing == {t \in ToolId : ask[t] = "racing"}

(* Nothing is on its way that would be taken before the next event, except *)
(* what the same read or packet has just brought.                          *)
Between(by) == requests = {} /\ \A t \in Racing : answer[t] # None => answer[t].by = by
Quiet == requests = {} /\ \A t \in Racing : answer[t] = None

Selected == IF selectedTool < Len(pendingTools) THEN pendingTools[selectedTool + 1] ELSE None

-----------------------------------------------------------------------------
(* The query, and the coordinator's side.                                  *)

Start ==
  /\ query = "idle" /\ Quiet
  /\ query' = "running"
  /\ UNCHANGED << pending, requests, ask, answer, screen, served, settled, bell, said >>

(* A batch registers all its asks before the first is handled.             *)
Batch(tools) ==
  /\ query = "running" /\ Quiet
  /\ \A t \in ToolId : pending[t] # "pending" /\ (t \in tools => pending[t] = "none")
  /\ pending' = [t \in ToolId |-> IF t \in tools THEN "pending" ELSE pending[t]]
  /\ requests' = tools
  /\ UNCHANGED << query, ask, answer, screen, served, settled, bell, said >>

(* A query cancel.  One that goes to the tools instead changes nothing     *)
(* here.                                                                   *)
Cancel ==
  /\ query # "idle" /\ (Between("key") \/ Between("wire"))
  /\ query' = "cancelled"
  /\ pending' = [t \in ToolId |-> IF pending[t] = "pending" THEN "rejected" ELSE pending[t]]
  /\ UNCHANGED << requests, ask, answer, screen, served, settled, bell, said >>

(* The coordinator takes a tool_approval_response. *)
Responded(t, approved) ==
  pending' = [pending EXCEPT ![t] = IF @ # "pending" THEN @ ELSE
                IF approved THEN "approved" ELSE "rejected"]


(* No batch waits any more and its tools are done; runAgent's finally      *)
(* clears what is left on the screen and denies it.                        *)
QueryEnds ==
  /\ query # "idle" /\ Quiet
  /\ \A t \in ToolId : pending[t] # "pending"
  /\ query' = "idle"
  /\ pendingTools' = << >> /\ resolvers' = {}
  /\ answer' = [t \in ToolId |-> IF t \in resolvers THEN [by |-> "clear", approved |-> FALSE]
                                 ELSE answer[t]]
  /\ UNCHANGED << pending, requests, ask, selectedTool, served, settled, bell, said >>

-----------------------------------------------------------------------------
(* #toolApprovalRequest.                                                   *)

AddTool(t) ==
  /\ pendingTools' = Append(pendingTools, t)
  /\ selectedTool' = IF pendingTools = << >> THEN 0 ELSE selectedTool


RemoveTool(t) ==
  /\ pendingTools' = RemoveFirst(pendingTools, t)
  /\ selectedTool' = IF t \in ToSet(pendingTools)
                     THEN Min({selectedTool, Max({0, Len(pendingTools) - 2})})
                     ELSE selectedTool

(* The permission decides, or the tool is not found: the tool is gone from *)
(* the screen again before anyone sees it.                                 *)
Decide(t, approved) ==
  /\ t \in requests
  /\ requests' = requests \ {t}
  /\ Responded(t, approved)
  /\ selectedTool' = IF pendingTools = << >> THEN 0 ELSE selectedTool
  /\ UNCHANGED << query, ask, answer, pendingTools, resolvers, served, settled, bell, said >>

(* The ask is raised on the bus and on the screen. *)
Raise(t) ==
  /\ t \in requests
  /\ requests' = requests \ {t}
  /\ ask' = [ask EXCEPT ![t] = "racing"]
  /\ AddTool(t)
  /\ resolvers' = resolvers \cup {t}
  /\ served' = served \cup {t}
  /\ timers' = Append(timers, t) /\ timer' = t
  /\ UNCHANGED << query, pending, answer, settled, said >>

CancelTimer ==
  /\ timers' = IF timer = None THEN timers ELSE RemoveFirst(timers, timer)
  /\ timer' = None

(* Variant: only the race's winner is cleaned up. *)
SettleUndrained(t) ==
  /\ ask[t] = "racing" /\ answer[t] # None
  /\ ask' = [ask EXCEPT ![t] = "done"]
  /\ settled' = Append(settled, << t, answer[t].approved >>)
  /\ served' = served \ {t}
  /\ CancelTimer
  /\ Responded(t, answer[t].approved)
  /\ RemoveTool(t)
  /\ UNCHANGED << query, requests, answer, resolvers, said >>


(* The race is won: settle, drain the resolver, tell the SDK.              *)
Settle(t) ==
  /\ ask[t] = "racing" /\ answer[t] # None
  /\ ask' = [ask EXCEPT ![t] = "done"]
  /\ settled' = Append(settled, << t, answer[t].approved >>)
  /\ served' = served \ {t}
  /\ resolvers' = resolvers \ {t}
  /\ CancelTimer
  /\ Responded(t, answer[t].approved)
  /\ RemoveTool(t)
  /\ UNCHANGED << query, requests, answer, said >>

-----------------------------------------------------------------------------
(* Keys, messages and timers.                                              *)

Win(t, by, approved) ==
  answer' = [answer EXCEPT ![t] = IF @ = None THEN [by |-> by, approved |-> approved] ELSE @]


(* Y or N. A second one of the same read finds no resolver any more.       *)
KeyAnswer(approved) ==
  /\ resolvers # {} /\ Between("key") /\ Selected # None
  /\ said' = said \cup {<< Selected, approved >>}
  /\ resolvers' = resolvers \ {Selected}
  /\ IF Selected \in resolvers THEN Win(Selected, "key", approved) ELSE UNCHANGED answer
  /\ UNCHANGED << query, pending, requests, ask, pendingTools, selectedTool, served, settled, bell >>


(* Left and right. *)
Navigate ==
  /\ pendingTools # << >> /\ Between("key")
  /\ \/ selectedTool > 0 /\ selectedTool' = selectedTool - 1
     \/ selectedTool < Len(pendingTools) - 1 /\ selectedTool' = selectedTool + 1
  /\ UNCHANGED << query, pending, requests, ask, answer, pendingTools, resolvers, served, settled, bell, said >>

(* A valid answer from the bus. *)
WireAnswer(t, approved) ==
  /\ t \in served /\ Between("wire")
  /\ said' = said \cup {<< t, approved >>}
  /\ Win(t, "wire", approved)
  /\ UNCHANGED << query, pending, requests, ask, screen, served, settled, bell >>

(* The reminder command is launched for the ask whose timer ran out. *)
Fires ==
  /\ timers # << >> /\ Quiet
  /\ timers' = Tail(timers) /\ timer' = None
  /\ UNCHANGED << query, pending, requests, ask, answer, screen, served, settled, said >>

Handle == \E t \in ToolId : Settle(t) \/ Raise(t) \/ \E approved \in BOOLEAN : Decide(t, approved)

Next ==
  \/ Start
  \/ \E tools \in SUBSET ToolId \ {{}} : Batch(tools)
  \/ Cancel
  \/ QueryEnds
  \/ Handle
  \/ \E approved \in BOOLEAN : KeyAnswer(approved)
  \/ Navigate
  \/ \E t \in ToolId, approved \in BOOLEAN : WireAnswer(t, approved)
  \/ Fires

Spec == Init /\ [][Next]_vars

(* Microtasks run, and a query whose batch waits for nobody ends: its      *)
(* tools settle (QueryRunner.tla).  Nobody need answer or cancel.          *)
FairSpec == Spec /\ WF_vars(Handle) /\ WF_vars(QueryEnds)
-----------------------------------------------------------------------------
(* "The two lists must empty together" (ToolApprovalState.clearTools):     *)
(* what is shown, what Y and N are claimed for, what the bus serves and    *)
(* what the handlers wait for are the same asks, whoever settled the rest; *)
(* and when no query runs there are none, so that no ask can be answered   *)
(* that has nobody to go to.  While anything waits, Y and N act on an ask  *)
(* that waits: the selection never points behind the list, nor at a tool   *)
(* that is settled already.  [#toolApprovalRequest, runAgent's finally,    *)
(* addTool, removeTool, selectPrev, selectNext, clearTools]                *)
OneSetOfAsks ==
  Quiet => /\ ToSet(pendingTools) = Racing
           /\ resolvers = Racing
           /\ served = Racing
           /\ query = "idle" => Racing = {}
           /\ resolvers # {} => Selected \in resolvers

(* A tool that was asked for runs, and is published as approved, only if   *)
(* that very ask was answered with yes: answering one of a batch never     *)
(* answers another, and an ask is settled once, however many answers race  *)
(* for it.  [the requestId as key, Promise.race, ApprovalHolder.settle]    *)
ApprovedByName ==
  /\ \A t \in ToolId : ask[t] # "none" /\ pending[t] = "approved" => << t, TRUE >> \in said
  /\ \A k \in DOMAIN settled : settled[k][2] => settled[k] \in said
  /\ \A j, k \in DOMAIN settled : j # k => settled[j][1] # settled[k][1]

(* A cancel closes every ask in the end, also those on the screen.         *)
CancelClosesAsks == query = "cancelled" ~> Racing = {}
-----------------------------------------------------------------------------
(* What the code says of itself and does not hold.                         *)

(* "The tool you have selected" (CHANGELOG) stays selected until it is     *)
(* settled or the user moves on, whatever becomes of its siblings.         *)
SelectionSticks ==
  [][~Navigate /\ Selected # None /\ Selected \in ToSet(pendingTools') => Selected' = Selected]_vars

(* The hook runs "a command when an approval is pending" (README).         *)
NotifiedWhilePending == [][Fires => Head(timers) \in Racing]_vars

(* What is published of an ask is what became of its tool. *)
SettledAsDecided ==
  \A k \in DOMAIN settled : settled[k][2] => pending[settled[k][1]] = "approved"
=============================================================================
