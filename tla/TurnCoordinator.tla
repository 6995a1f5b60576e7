---------------------------- MODULE TurnCoordinator ----------------------------
(***************************************************************************)
(* The main loop of the CLI and its two faces: the keyboard (EditorHandler, *)
(* CancelHandler, /new) and the bus (ConvServicer, WireSayInbox), which    *)
(* race for the loop's next input, cancel what runs, and move the process  *)
(* to another conversation; and what ConvChangePublisher says of queries.  *)
(* A query's turns are QueryRunner.tla's subject: here it appends rows and *)
(* ends.  Code between two awaits is one action.                           *)
(***************************************************************************)
EXTENDS Integers, Sequences

CONSTANTS
  MaxQueries,   \* bound on the queries of a behaviour
  MaxRows,      \* bound on the rows of a conversation
  MaxConv,      \* bound on the conversations of a process
  None          \* null and undefined

ASSUME BoundsAssumption == {MaxQueries, MaxRows, MaxConv} \subseteq Nat /\ MaxRows > 1 /\ MaxConv > 0

VARIABLES
  at,           \* where the main loop is suspended
  phase,        \* PrimaryViewState: which key chain is live
  busy,         \* ConvServicer.#busy
  resolve,      \* EditorHandler.#resolve: "none", "live", or "stale" once its race is lost
  inbox,        \* WireSayInbox.#pending
  input,        \* the input of the running turn
  controller,   \* TurnCoordinator.#currentAbortController
  cancelled,    \* ApprovalCoordinator.#cancelled
  conv,         \* session.id
  rows,         \* the rows of the conversation, with their identity's queryId
  moving,       \* PrimaryViewState.conversationMoving, and what the move has left to do
  pendingClose, \* SdkEventBridge.#pendingQueryClose
  minted,       \* how many queryIds were minted
  closures      \* the query changes published; #lastClosedQueryId is the last one's query

loopVars == << at, phase, busy, resolve, inbox, input >>
cancelVars == << controller, cancelled >>
convVars == << conv, rows, moving >>
closeVars == << pendingClose, closures >>
vars == << loopVars, cancelVars, convVars, closeVars, minted >>

QueryId == 1 .. MaxQueries
(* premise is the tip a say was accepted on; it is kept for the properties. *)
Input == [qid : QueryId, resume : BOOLEAN, wire : BOOLEAN, premise : (1 .. MaxConv) \X (0 .. MaxRows)]
ASSUME NoneAssumption == None \notin QueryId \cup Input

Row == [role : {"user", "assistant"}, qid : QueryId \cup {None}]
Reason == {"completed", "cancelled", "aborted"}
Close == [qid : QueryId \cup {None}, reason : Reason]

TypeOK ==
  /\ at \in {"boot", "input", "preparing", "armed", "requesting", "tooling", "closing"}
  /\ phase \in {"editor", "streaming"}
  /\ busy \in BOOLEAN /\ cancelled \in BOOLEAN
  /\ moving \in {"no", "loading", "settling"}
  /\ resolve \in {"none", "live", "stale"}
  /\ inbox \in Input \cup {None}
  /\ input \in Input \cup {None}
  /\ controller \in {"none", "live", "aborted"}
  /\ input = None <=> at \in {"boot", "input"}
  /\ controller = "none" <=> at \in {"boot", "input", "preparing"}
  /\ conv \in 1 .. MaxConv
  /\ rows \in Seq(Row) /\ Len(rows) <= MaxRows
  /\ pendingClose \in Close \cup {None}
  /\ minted \in 0 .. MaxQueries
  /\ closures \in Seq([conv : 1 .. MaxConv, qid : QueryId \cup {None}, reason : Reason])

Tip == << conv, Len(rows) >>
TipRole == IF rows = << >> THEN "none" ELSE rows[Len(rows)].role
TipQuery == IF rows = << >> THEN None ELSE rows[Len(rows)].qid

Init ==
  /\ at = "boot" /\ phase = "editor"
  /\ busy = FALSE /\ cancelled = FALSE /\ moving = "no"
  /\ resolve = "none" /\ inbox = None /\ input = None
  /\ controller = "none"
  /\ conv = 1 /\ rows = << >>
  /\ pendingClose = None /\ closures = << >>
  /\ minted = 0

Typed(resume) == [qid |-> minted + 1, resume |-> resume, wire |-> FALSE, premise |-> Tip]
Said == [qid |-> minted + 1, resume |-> FALSE, wire |-> TRUE, premise |-> Tip]

-----------------------------------------------------------------------------
(* The loop.                                                               *)

StartTurn(i) == at' = "preparing" /\ busy' = TRUE /\ input' = i

(* Variants: the loop awaits new input without looking at the inbox; the   *)
(* turn marks the loop idle after it has taken its next input.             *)
NextInputUnpolled ==
  at' = "input" /\ busy' = FALSE /\ input' = None /\ resolve' = "live" /\ UNCHANGED inbox

NextInputIdled ==
  IF inbox # None
  THEN at' = "preparing" /\ busy' = FALSE /\ input' = inbox /\ inbox' = None /\ resolve' = "stale"
  ELSE at' = "input" /\ busy' = FALSE /\ input' = None /\ resolve' = "live" /\ UNCHANGED inbox

(* The next iteration of the loop: a fresh editor promise against the      *)
(* inbox, which may hold a say already.                                    *)
NextInput ==
  IF inbox # None
  THEN StartTurn(inbox) /\ inbox' = None /\ resolve' = "stale"
  ELSE at' = "input" /\ busy' = FALSE /\ input' = None /\ resolve' = "live" /\ UNCHANGED inbox

BootDone ==
  /\ at = "boot"
  /\ UNCHANGED << phase, cancelVars, convVars, closeVars >>
  /\ \/ NextInput /\ UNCHANGED minted
     \/ /\ minted < MaxQueries
        /\ StartTurn(Typed(FALSE)) /\ minted' = minted + 1
        /\ UNCHANGED << resolve, inbox >>

(* The prompts and the identity are read; then the turn can be aborted.    *)
Arm ==
  /\ at = "preparing"
  /\ at' = "armed" /\ controller' = "live"
  /\ UNCHANGED << phase, busy, resolve, inbox, input, cancelled, convVars, closeVars, minted >>

(* Conversation.push: a user message merges into a user tip, which keeps   *)
(* its identity.                                                           *)
Pushed(role, qid) ==
  IF role = "user" /\ TipRole = "user" THEN rows ELSE Append(rows, [role |-> role, qid |-> qid])

(* Variant: the coordinator is not reset.                                  *)
RunUnreset ==
  /\ at = "armed"
  /\ Len(rows) < MaxRows
  /\ at' = "requesting" /\ phase' = "streaming"
  /\ rows' = IF input.resume THEN rows ELSE Pushed("user", input.qid)
  /\ UNCHANGED << busy, resolve, inbox, input, cancelVars, conv, moving, closeVars, minted >>

(* runAgent up to the first request.                                       *)
Run ==
  /\ at = "armed"
  /\ Len(rows) < MaxRows
  /\ at' = "requesting" /\ phase' = "streaming" /\ cancelled' = FALSE
  /\ rows' = IF input.resume THEN rows ELSE Pushed("user", input.qid)
  /\ UNCHANGED << busy, resolve, inbox, input, controller, conv, moving, closeVars, minted >>

(* The query is over: the finally of runAgent.                             *)
Leave == at' = "closing" /\ phase' = "editor"

(* A reply that asks for tools, or one that ends the query.  Only end_turn *)
(* is remembered as a close.                                               *)
Reply(stop) ==
  /\ at = "requesting" /\ controller = "live"
  /\ Len(rows) + (IF stop = "tool_use" THEN 1 ELSE 0) < MaxRows
  /\ rows' = Pushed("assistant", TipQuery)
  /\ IF stop = "tool_use" THEN at' = "tooling" /\ UNCHANGED phase ELSE Leave
  /\ pendingClose' = IF stop = "end_turn" THEN [qid |-> TipQuery, reason |-> "completed"] ELSE pendingClose
  /\ UNCHANGED << busy, resolve, inbox, input, cancelVars, conv, moving, closures, minted >>

(* The results of the batch; a cancelled query ends behind them.           *)
ToolsDone ==
  /\ at = "tooling"
  /\ rows' = Pushed("user", input.qid)
  /\ IF cancelled THEN Leave ELSE at' = "requesting" /\ UNCHANGED phase
  /\ UNCHANGED << busy, resolve, inbox, input, cancelVars, conv, moving, closeVars, minted >>

(* Variant: the signal does not reach the request.                         *)
FailsUnaborted(published) ==
  /\ at = "requesting" /\ controller = "live"
  /\ Leave
  /\ pendingClose' = IF published THEN [qid |-> TipQuery, reason |-> "aborted"] ELSE pendingClose
  /\ UNCHANGED << busy, resolve, inbox, input, cancelVars, convVars, closures, minted >>

(* The request fails, is aborted, or stops on the account limit, which     *)
(* publishes no error.                                                     *)
Fails(published) ==
  /\ at = "requesting"
  /\ controller = "aborted" => published
  /\ Leave
  /\ pendingClose' = IF published THEN [qid |-> TipQuery, reason |-> "aborted"] ELSE pendingClose
  /\ UNCHANGED << busy, resolve, inbox, input, cancelVars, convVars, closures, minted >>

(* ConvChangePublisher.closeQuery.                                         *)
PublishClose(q, reason) ==
  IF closures # << >> /\ closures[Len(closures)].qid = q THEN UNCHANGED closures
  ELSE closures' = Append(closures, [conv |-> conv, qid |-> q, reason |-> reason])

(* Saved and flushed, the turn publishes its close and the loop goes on.   *)
TurnEnds ==
  /\ at = "closing"
  /\ IF pendingClose = None THEN UNCHANGED closeVars
     ELSE PublishClose(pendingClose.qid, pendingClose.reason) /\ pendingClose' = None
  /\ controller' = "none"
  /\ NextInput
  /\ UNCHANGED << phase, cancelled, convVars, minted >>

(* Something throws on the way: it is logged, and the loop goes on.        *)
TurnThrows ==
  /\ at \in {"preparing", "armed", "closing"}
  /\ controller' = "none"
  /\ NextInput
  /\ UNCHANGED << phase, cancelled, convVars, closeVars, minted >>

-----------------------------------------------------------------------------
(* The keyboard.                                                           *)

(* ctrl+enter in the editor chain.  A stale promise takes the input, and   *)
(* nobody awaits it.                                                       *)
Submit(resume) ==
  /\ phase = "editor" /\ resolve # "none"
  /\ resume => TipRole = "user"
  /\ resolve' = "none"
  /\ IF resolve = "live"
     THEN minted < MaxQueries /\ StartTurn(Typed(resume)) /\ minted' = minted + 1
     ELSE UNCHANGED << at, busy, input, minted >>
  /\ UNCHANGED << phase, inbox, cancelVars, convVars, closeVars >>

(* ConsumerMessageRouter on a cancel.  While tools run, the first may be   *)
(* theirs (QueryRunner.tla); a query's cancel is closed and aborted if a   *)
(* turn is live.                                                           *)
Cancel ==
  \/ /\ at = "tooling"
     /\ UNCHANGED << cancelVars, closures >>
  \/ /\ cancelled' = TRUE
     /\ IF controller = "none" THEN UNCHANGED << controller, closures >>
        ELSE /\ controller' = "aborted"
             /\ IF TipQuery = None THEN UNCHANGED closures
                ELSE PublishClose(TipQuery, "cancelled")

Escape ==
  /\ phase = "streaming"
  /\ Cancel
  /\ UNCHANGED << loopVars, convVars, pendingClose, minted >>

(* /new, offered in the editor phase: the new conversation is adopted at   *)
(* once, and what hangs off its id settles later.                          *)
NewSession ==
  /\ phase = "editor" /\ moving = "no"
  /\ conv < MaxConv
  /\ moving' = "settling" /\ conv' = conv + 1 /\ rows' = << >>
  /\ UNCHANGED << loopVars, cancelVars, closeVars, minted >>

(* enter on a conversation of the list, in the editor phase: it is adopted *)
(* when the one being left is saved and its own history is read.           *)
SwitchTo ==
  /\ phase = "editor" /\ moving = "no"
  /\ conv < MaxConv
  /\ moving' = "loading"
  /\ UNCHANGED << loopVars, cancelVars, conv, rows, closeVars, minted >>

(* All that matters of a stored conversation is its tip, which no query of *)
(* this process wrote.                                                     *)
Adopt ==
  /\ moving = "loading"
  /\ moving' = "settling" /\ conv' = conv + 1
  /\ rows' = << [role |-> "assistant", qid |-> None] >>
  /\ UNCHANGED << loopVars, cancelVars, closeVars, minted >>

(* A move is over, or a save or a read of it threw.                        *)
MoveDone ==
  /\ moving # "no"
  /\ moving' = "no"
  /\ UNCHANGED << loopVars, cancelVars, conv, rows, closeVars, minted >>

-----------------------------------------------------------------------------
(* The bus.  Requests that are rejected change nothing.                    *)

(* Variant: acceptance does not mark the loop busy.                        *)
SayLeavesIdle ==
  /\ ~busy
  /\ minted < MaxQueries
  /\ minted' = minted + 1
  /\ IF at = "input"
     THEN at' = "preparing" /\ input' = Said /\ resolve' = "stale" /\ busy' = TRUE /\ UNCHANGED inbox
     ELSE inbox' = Said /\ UNCHANGED << at, input, resolve, busy >>
  /\ UNCHANGED << phase, cancelVars, convVars, closeVars >>

(* A say that states the tip while nothing is live is accepted; the loop   *)
(* takes it now or when it comes to its next input.                        *)
Say ==
  /\ ~busy
  /\ minted < MaxQueries
  /\ busy' = TRUE /\ minted' = minted + 1
  /\ IF at = "input"
     THEN at' = "preparing" /\ input' = Said /\ resolve' = "stale" /\ UNCHANGED inbox
     ELSE inbox' = Said /\ UNCHANGED << at, input, resolve >>
  /\ UNCHANGED << phase, cancelVars, convVars, closeVars >>

(* A cancel that names the query of the tip while something is live; where *)
(* the tip has none, one that names none.                                  *)
WireCancel(id) ==
  /\ busy /\ id = TipQuery
  /\ Cancel
  /\ UNCHANGED << loopVars, convVars, pendingClose, minted >>

TurnStep ==
  \/ BootDone \/ Arm \/ Run \/ ToolsDone \/ TurnEnds \/ TurnThrows
  \/ \E stop \in {"tool_use", "end_turn", "max_tokens"} : Reply(stop)
  \/ \E published \in BOOLEAN : Fails(published)

Next ==
  \/ TurnStep
  \/ \E resume \in BOOLEAN : Submit(resume)
  \/ Escape \/ NewSession \/ SwitchTo \/ Adopt \/ MoveDone \/ Say
  \/ \E id \in QueryId \cup {None} : WireCancel(id)

Spec == Init /\ [][Next]_vars

(* The program's own steps are taken; nobody need type, say or cancel.     *)
FairSpec == Spec /\ WF_vars(TurnStep) /\ WF_vars(Adopt) /\ WF_vars(MoveDone)
-----------------------------------------------------------------------------
(* Safety.                                                                 *)

(* The loop is idle to the bus exactly when it awaits input (at boot, when *)
(* no say is in hand): setBusy on both paths and the accept in between     *)
(* leave no gap in which a second say could be accepted.                   *)
BusyWhileTaken ==
  busy <=> \/ at \notin {"boot", "input"}
           \/ inbox # None

(* The one slot of the inbox is enough: no accepted say is ever replaced   *)
(* by another before the loop has taken it.                                *)
SaysNeverOverwritten == [][inbox # None => inbox' \in {None, inbox}]_vars

(* A cancel ends what runs and nothing behind it: no turn starts with its  *)
(* controller aborted already, or with the last query's cancel still set.  *)
TurnsStartUncancelled ==
  [][/\ at' = "preparing" /\ at # "preparing" => controller' = "none"
     /\ at = "armed" /\ at' = "requesting" => ~cancelled']_vars

-----------------------------------------------------------------------------
(* Liveness.                                                               *)

(* An accepted say is run, whenever it was accepted: between two inputs,   *)
(* at boot behind an initial prompt, while the user submits.               *)
AcceptedSayRuns ==
  \A q \in QueryId : (inbox # None /\ inbox.qid = q) ~> (input # None /\ input.qid = q)

(* Whatever was cancelled, and wherever the cancel found it, the loop gets *)
(* back to idle or to a later turn.                                        *)
CancelReleases == controller = "aborted" ~> controller # "aborted"

-----------------------------------------------------------------------------
(* What the code says of itself and does not hold.                         *)

(* A cancel that is accepted hits the query it names: what is aborted is   *)
(* the query of the running turn (ConvServicer's "A cancel targets its     *)
(* premise").                                                              *)
CancelHitsItsPremise ==
  [][controller = "live" /\ controller' = "aborted" /\ phase = "editor" => TipQuery = input.qid]_vars

(* The query that was given out with "accepted" can be named while its     *)
(* request runs.                                                           *)
RunningIsAddressable == at = "requesting" /\ input.wire => TipQuery = input.qid

(* What a turn writes goes to the conversation that it was asked in.       *)
OutputStaysHome ==
  [][conv' = conv /\ Len(rows') > Len(rows) => conv = input.premise[1]]_vars

(* A closed query grows no further.                                        *)
ClosedGrowsNoMore ==
  [][conv' = conv /\ Len(rows') > Len(rows) =>
       \A k \in 1 .. Len(closures) : rows'[Len(rows')].qid # closures[k].qid]_vars

(* A query closes once.                                                    *)
ClosedOnce == \A j, k \in 1 .. Len(closures) : j # k => closures[j].qid # closures[k].qid

(* A say that was accepted on a tip is pushed behind that tip.             *)
SayRunsOnItsPremise ==
  [][at = "armed" /\ at' = "requesting" /\ input.wire => Tip = input.premise]_vars

=============================================================================
