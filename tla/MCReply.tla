------------------------------ MODULE MCReply ------------------------------
(***************************************************************************)
(* A request's retries, its reply's way from the wire to the screen, and   *)
(* the asks for its tools, one component at a time: a behaviour is that of *)
(* the subject chosen at the start, the others stand still.  The wire's    *)
(* frames are StreamProcessor's events, and what it says is what           *)
(* Transcript handles, in the order ControlChannel keeps; the asks come    *)
(* over the same channel.                                                  *)
(***************************************************************************)
EXTENDS Integers, Sequences

CONSTANTS
  Replies, MaxDeltas, Growths, MaxTurns, MaxNotices,
  Frames, MaxFrames,
  Subs, MaxSends, MaxDrains,
  MaxTime,
  Messages, MaxMessages,
  MAX_RETRIES, BASE_DELAY_MS, MAX_DELAY_MS, STREAM_INTERRUPT_MAX_RETRIES, STREAM_INTERRUPT_DELAY_MS,
  RETRY_AFTER_CAP_MS, ACCOUNT_LIMIT_BUDGET_MS, Errors, RequestTimes, Jitters, MaxSeen,
  ToolId, NoAsk

VARIABLES
  subject,
  net, message, content, stopReason, usage, current, currentToolId, hasToolBatch, startUsage, out, heard,
  turn, turns, cancelled, view, calls, asked, late, said, spent,
  frames, unread, cutShort, buffer, yielded, aborted, timedOut, outcome,
  pump, closed, drainWaiters, drained, sends,
  totals, active, since, now, phase, resolver, elapsed,
  stored, showThinking, shown,
  attempt, wait, cancelledTurn, sinceLimit, transientAttempt, streamInterruptAttempt, seen,
  query, pending, requests, ask, answer, pendingTools, selectedTool, resolvers, served, settled, timers, timer, given

OneReply == {<<"thinking", "text">>, <<"compaction">>, <<"text", "tool_use">>, <<"tool_use", "tool_use">>,
             <<"server_tool_use", "server_tool_result">>, <<"hole", "text", "server_tool_use">>}
TwoReplies == <<OneReply, {<<"text">>}>>

(* A good frame in either line ending, a ping, a comment, an error. *)
SomeFrames ==
  {[chars |-> <<"(", ")", "n", "n">>,           means |-> "message"],
   [chars |-> <<"(", ")", "r", "n", "r", "n">>, means |-> "message"],
   [chars |-> <<"p", "n", "(", ")", "n", "n">>, means |-> "nothing"],
   [chars |-> <<"#", "n", "n">>,                means |-> "nothing"],
   [chars |-> <<"!", "n", "(", ")", "n", "n">>, means |-> "error"]}

Block(type)  == [type |-> type, blank |-> FALSE]
Blank(type)  == [type |-> type, blank |-> TRUE]
Said(role, blocks) == [role |-> role, content |-> blocks]
SomeMessages ==
  {Said("user", <<Block("text"), Block("image")>>), Said("user", <<Blank("text")>>),
   Said("user", <<Block("tool_result"), Block("tool_result"), Block("text")>>),
   Said("assistant", <<Block("thinking"), Block("text"), Block("tool_use"), Block("tool_use")>>),
   Said("assistant", <<Block("tool_use"), Blank("text"), Block("tool_use"), Block("server_tool_use")>>),
   Said("assistant", <<Block("compaction"), Block("text")>>)}

(* One error on each side of every comparison; an attempt may take longer than *)
(* half of the budget.                                                          *)
SomeErrors ==
  {[class |-> "HttpError", status |-> 429, retryAfterMs |-> a] :
      a \in {-1, RETRY_AFTER_CAP_MS, RETRY_AFTER_CAP_MS + 1}}
    \cup {[class |-> "HttpError", status |-> s, retryAfterMs |-> -1] : s \in {400, 499, 500}}
    \cup [class : {"ApiStreamError"}, retryable : BOOLEAN]
    \cup [class : {"ConnectionError", "StreamInterruptedError", "Error"}]
Times == {0, 400000}

Wire    == INSTANCE EventStream
Screen  == INSTANCE Transcript
Channel == INSTANCE ControlChannel
Clock   == INSTANCE TurnClock
Request == INSTANCE TurnRetry WITH phase <- attempt, aborted <- cancelledTurn
Asks    == INSTANCE Approvals WITH None <- NoAsk, said <- given

ASSUME RetryConstants == Request!BudgetsAssumption
ASSUME ChannelConstants == Channel!SubsAssumption
ASSUME AskConstants == Asks!NoneAssumption

wire    == <<frames, unread, cutShort, buffer, yielded, aborted, timedOut, outcome>>
screen  == <<net, message, content, stopReason, usage, current, currentToolId, hasToolBatch, startUsage,
             out, heard, turn, turns, cancelled, view, calls, asked, late, said, spent>>
channel == <<pump, closed, drainWaiters, drained, sends>>
clock   == <<totals, active, since, now, phase, resolver, elapsed>>
past    == <<stored, showThinking, shown>>
request == <<attempt, wait, cancelledTurn, sinceLimit, transientAttempt, streamInterruptAttempt, seen>>
asks    == <<query, pending, requests, ask, answer, pendingTools, selectedTool, resolvers, served, settled, timers, timer, given>>
all     == <<subject, wire, screen, channel, clock, past, request, asks>>

Init ==
  /\ subject \in {"wire", "screen", "channel", "clock", "past", "request", "asks"}
  /\ Wire!Init /\ Screen!Init /\ Channel!Init /\ Clock!Init /\ Screen!InitReplay /\ Request!Init /\ Asks!Init
  /\ subject # "wire" => frames = <<>>
  /\ subject # "past" => stored = <<>> /\ ~showThinking
  /\ subject # "request" => ~cancelledTurn

WireStep    == subject = "wire" /\ Wire!Next /\ UNCHANGED <<screen, channel, clock, past, request, asks>>
ScreenStep  == subject = "screen" /\ Screen!Next /\ UNCHANGED <<wire, channel, clock, past, request, asks>>
ChannelStep == subject = "channel" /\ Channel!Next /\ UNCHANGED <<wire, screen, clock, past, request, asks>>
ClockStep   == subject = "clock" /\ Clock!Next /\ UNCHANGED <<wire, screen, channel, past, request, asks>>
PastStep    == subject = "past" /\ Screen!AddHistoryBlocks /\ UNCHANGED <<wire, screen, channel, clock, request, asks>>
RequestStep == subject = "request" /\ Request!Next /\ UNCHANGED <<wire, screen, channel, clock, past, asks>>
AsksStep    == subject = "asks" /\ Asks!Next /\ UNCHANGED <<wire, screen, channel, clock, past, request>>

Next ==
  /\ UNCHANGED subject
  /\ WireStep \/ ScreenStep \/ ChannelStep \/ ClockStep \/ PastStep \/ RequestStep \/ AsksStep

(* Handlers settle: AgentMessageHandler returns.  The transport settles every  *)
(* request and the sleep's timer fires: TurnRetry!FairSpec.  Microtasks run and  *)
(* a query that waits for nobody ends: Approvals!FairSpec.                      *)
Spec ==
  /\ Init /\ [][Next]_all
  /\ WF_Channel!vars(subject = "channel" /\ Channel!Settling)
  /\ WF_Request!vars(subject = "request" /\ Request!Settles)
  /\ WF_Request!vars(subject = "request" /\ Request!Wakes)
  /\ WF_Asks!vars(subject = "asks" /\ Asks!Handle)
  /\ WF_Asks!vars(subject = "asks" /\ Asks!QueryEnds)

-----------------------------------------------------------------------------
(* What a reply says reaches the screen: frames survive any cut, listeners   *)
(* hear what was assembled, in order and once, every piece of text, settled   *)
(* tool and token counted is on the display, and a replay shows it again.     *)
ReplySound ==
  /\ Wire!WireSound
  /\ Screen!ListenersHearTheReply /\ Screen!TranscriptSound
  /\ Screen!ReplayIsInOrder

(* A subscriber of the channel gets what was sent in the order of the sends,  *)
(* also what its own handler sent, and a drain that has resolved left nothing *)
(* behind that was sent before it.                                            *)
Delivered == Channel!Delivered

(* Time is charged to who spent it.                                           *)
TimesAreTrue == Clock!TimesAreTrue

(* The budgets of the three kinds of failure are kept apart and in bounds,    *)
(* whatever order the errors come in (#fetchReply).                            *)
RetriesBounded == Request!RetriesBounded

(* Nothing is sent for a turn that was cancelled.                              *)
NoRequestAfterAbort == Request!NoRequestAfterAbort

(* An ask is one and the same on the screen, on the bus and for the keys, and  *)
(* a tool runs only if it was answered with yes by name.                        *)
AsksSound == Asks!TypeOK /\ Asks!OneSetOfAsks /\ Asks!ApprovedByName

(* Nobody waits for ever: whoever waits for the channel to drain gets through,  *)
(* however the API fails, the turn settles, and the asks of a query that was    *)
(* cancelled close.                                                            *)
WaitsEnd ==
  /\ Channel!DrainsResolve
  /\ subject = "request" => Request!TurnSettles
  /\ subject = "asks" => Asks!CancelClosesAsks
=============================================================================
