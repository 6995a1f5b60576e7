------------------------------ MODULE Transcript ------------------------------
(***************************************************************************)
(* A reply on its way to the screen.  StreamProcessor.process turns the    *)
(* events the API sends into messages while MessageAccumulator assembles   *)
(* them; these and QueryRunner's, delivered in order (SdkEventBridge,      *)
(* ControlChannel), go through AgentMessageHandler to ConversationState's  *)
(* blocks, the batch's ToolObjects and StatusState's totals.               *)
(*                                                                         *)
(* The server sends its blocks one after the other, from an index that may *)
(* not be the first, and the stream may end or break at any point.  A      *)
(* usage is what it carries in and out, as cumulative counts; a block's    *)
(* text or tool input is the number of its deltas; a tool's id is the      *)
(* index of its block.                                                     *)
(*                                                                         *)
(* A block on the screen is how many pieces of each kind were put there; a *)
(* tools or execution block also shows its tools, each in the phase it was *)
(* last drawn in.  Of the sealed blocks together the model keeps the same: *)
(* the pieces, and the tools by the type of block that shows them.         *)
(*                                                                         *)
(* Apart from that, replayHistory makes a stored conversation blocks to    *)
(* display: there a message is a role and a sequence of content blocks,    *)
(* each of a type and of text that may be blank.                           *)
(***************************************************************************)
EXTENDS Integers, Sequences, TLC
LOCAL INSTANCE SequencesExt

CONSTANTS
  Replies,      \* bound: for each reply, the sequences of block types it can be; "hole" an index skipped
  MaxDeltas,    \* bound: deltas of a block
  Growths,      \* how much the cumulative input grows between the first frame and the last
  MaxTurns,     \* bound: requests of the query
  MaxNotices,   \* bound: notices spliced in
  Messages,     \* the messages a stored conversation can be made of
  MaxMessages   \* bound: their number

VARIABLES
  net,            \* "idle", "connected", "open", "stopped", "done" or "broken"
  message,        \* replies started so far
  content,        \* accumulator: the message's content
  stopReason, usage,
  current,        \* the block that is open, 0 for none
  currentToolId, hasToolBatch, startUsage,    \* process's own
  out,            \* what this step emitted
  heard,          \* history: what the listeners heard of this reply
  turn,       \* "idle", "requesting", "running" (tools) or "over"
  turns,      \* requests so far
  cancelled,  \* ApprovalCoordinator: the query was cancelled
  view,       \* the display's state, below
  calls,      \* QueryRunner: where each client tool of the batch is
  asked,      \* the asks that are still open on the screen
  late,       \* history: tools whose ask was answered when its result was already out
  said,       \* history: the marks put on the screen, by kind
  spent,      \* history: usage of the replies so far, whole or broken off
  stored, showThinking, shown    \* a stored conversation, and the blocks it is shown as

streamVars == <<net, message, content, stopReason, usage, current,
                currentToolId, hasToolBatch, startUsage, out, heard>>
replayVars == <<stored, showThinking, shown>>
vars == <<streamVars, turn, turns, cancelled, view, calls, asked, late, said, spent>>

None   == "none"
Hole   == [type |-> "hole", id |-> 0, deltas |-> 0]
NoTool == 0
Tools  == {"tool_use", "server_tool_use"}
Zero   == [in |-> 0, out |-> 0]

Types(blocks) == [i \in DOMAIN blocks |-> blocks[i].type]

Sent(type)          == [type |-> type]
SentFor(type, id)   == [type |-> type, id |-> id]
UsageFrame(u)       == [type |-> "message_usage", in |-> u.in, out |-> u.out]

Minus(a, b) == [in |-> a.in - b.in, out |-> a.out - b.out]
Plus(a, b)  == [in |-> a.in + b.in, out |-> a.out + b.out]

Emit(messages) ==
  /\ out' = messages
  /\ heard' = heard \o messages

-----------------------------------------------------------------------------
(* MessageAccumulator *)
WithBlock(skip, type, id) == content \o skip \o <<[type |-> type, id |-> id, deltas |-> 0]>>
WithDelta                 == [content EXCEPT ![current].deltas = @ + 1]
Cumulative(g)             == [in |-> usage.in + g, out |-> 1 + Len(content)]

(* The end frame carries what the start frame did not. *)
EndFrame == Minus(usage, startUsage)

(* message_start: input tokens, and the first output tokens, are known. *)
MessageStart ==
  /\ net = "connected" /\ message < Len(Replies)
  /\ net' = "open" /\ message' = message + 1
  /\ content' = <<>> /\ stopReason' = None /\ current' = 0
  /\ currentToolId' = NoTool /\ hasToolBatch' = FALSE
  /\ usage' = [in |-> 2, out |-> 1] /\ startUsage' = [in |-> 2, out |-> 1]
  /\ out' = <<Sent("message_start"), UsageFrame(usage')>>
  /\ heard' = out'

(* content_block_start: tool blocks open the batch, once, and name the tool *)
(* their input deltas belong to.                                            *)
BlockStart(type) ==
  /\ net = "open" /\ current = 0
  /\ \E skip \in {<<>>, <<Hole>>} :
       /\ \E reply \in Replies[message] : IsPrefix(Append(Types(content \o skip), type), reply)
       /\ LET id == IF type = "server_tool_result" THEN content[Len(content)].id
                    ELSE Len(content) + Len(skip) + 1 IN
          /\ content' = WithBlock(skip, type, id)
          /\ current' = Len(content')
          /\ currentToolId' = IF type \in Tools THEN id ELSE currentToolId
          /\ hasToolBatch' = (hasToolBatch \/ type \in Tools)
          /\ Emit(<<[type |-> "block_enter", blockType |-> type]>>
                    \o (IF type \in Tools /\ ~hasToolBatch THEN <<Sent("tool_batch_start")>> ELSE <<>>)
                    \o (IF type = "tool_use" THEN <<SentFor("tool_use_start", id)>>
                        ELSE IF type = "server_tool_use" THEN <<SentFor("server_tool_use_start", id)>>
                        ELSE <<>>))
  /\ UNCHANGED <<net, message, stopReason, usage, startUsage>>

(* content_block_delta: text and thinking go out at once, tool input under  *)
(* the tool that is current, a compaction's text only when it is complete.  *)
BlockDelta ==
  /\ net = "open" /\ current # 0 /\ content[current].deltas < MaxDeltas
  /\ LET type == content[current].type IN
     /\ type # "server_tool_result"
     /\ content' = WithDelta
     /\ Emit(IF type = "text" THEN <<Sent("message_text")>>
             ELSE IF type = "thinking" THEN <<Sent("message_thinking")>>
             ELSE IF type # "compaction" /\ currentToolId # NoTool
             THEN <<SentFor("tool_use_input_delta", currentToolId)>>
             ELSE <<>>)
  /\ UNCHANGED <<net, message, stopReason, usage, current, currentToolId, hasToolBatch, startUsage>>

(* content_block_stop: the block is whole.  A tool's input is parsed here,  *)
(* and input that does not parse ends the reply with an error.              *)
BlockStop ==
  /\ net = "open" /\ current # 0
  /\ LET b == content[current] IN
     Emit(<<[type |-> "block_exit", blockType |-> b.type]>>
          \o (CASE b.type = "compaction"         -> <<Sent("message_compaction")>>
                [] b.type = "tool_use"           -> <<SentFor("tool_use_input_stop", b.id)>>
                [] b.type = "server_tool_use"    -> <<SentFor("server_tool_use", b.id)>>
                [] b.type = "server_tool_result" -> <<SentFor("server_tool_result", b.id)>>
                [] OTHER                         -> <<>>))
  /\ current' = 0 /\ currentToolId' = NoTool
  /\ UNCHANGED <<net, message, content, stopReason, usage, hasToolBatch, startUsage>>

(* message_delta: the stop reason, and the final cumulative usage.  "The    *)
(* API guarantees stop_reason === 'tool_use' when tool blocks are present": *)
(* so it is taken here for client tools, a cut at max_tokens apart.         *)
HasClientTool == \E i \in DOMAIN content : content[i].type = "tool_use"

MessageDelta ==
  /\ net = "open" /\ current = 0 /\ content # <<>> /\ stopReason = None
  /\ stopReason' \in (IF HasClientTool THEN {"tool_use"} ELSE {"end_turn"}) \cup {"max_tokens"}
  /\ \E g \in Growths : usage' = Cumulative(g)
  /\ Emit(IF stopReason' = "tool_use" THEN <<Sent("tool_batch_end")>> ELSE <<>>)
  /\ UNCHANGED <<net, message, content, current, currentToolId, hasToolBatch, startUsage>>

MessageStop ==
  /\ net = "open" /\ stopReason # None
  /\ net' = "stopped"
  /\ Emit(<<[type |-> "message_end", stopReason |-> stopReason]>>)
  /\ UNCHANGED <<message, content, stopReason, usage, current, currentToolId, hasToolBatch, startUsage>>

(* The events are over: process emits the rest of the usage and answers.    *)
(* It does so too when the connection closed cleanly in the middle.         *)
StreamEnds ==
  /\ net \in {"open", "stopped"}
  /\ net' = "done"
  /\ Emit(<<UsageFrame(EndFrame), Sent("final_message")>>)
  /\ UNCHANGED <<message, content, stopReason, usage, current, currentToolId, hasToolBatch, startUsage>>

(* The connection breaks, an error frame comes, or a tool's input does not  *)
(* parse: process throws and says nothing more.                             *)
StreamBreaks ==
  /\ net \in {"connected", "open"}
  /\ net' = "broken" /\ out' = <<>>
  /\ UNCHANGED <<message, content, stopReason, usage, current, currentToolId, hasToolBatch, startUsage, heard>>

Streaming ==
  \/ MessageStart \/ BlockDelta \/ BlockStop
  \/ \E reply \in UNION Range(Replies) : \E type \in Range(reply) : BlockStart(type)
  \/ MessageDelta \/ MessageStop \/ StreamEnds \/ StreamBreaks

StreamInit ==
  /\ net = "idle" /\ message = 0
  /\ content = <<>> /\ stopReason = None /\ usage = Zero /\ current = 0
  /\ currentToolId = NoTool /\ hasToolBatch = FALSE /\ startUsage = Zero
  /\ out = <<>> /\ heard = <<>>

-----------------------------------------------------------------------------
HeardOf(type)  == SelectSeq(heard, LAMBDA m : m.type = type)
HeardFor(type, id) == SelectSeq(heard, LAMBDA m : m.type = type /\ m.id = id)
UsageHeard == FoldLeft(Plus, Zero, HeardOf("message_usage"))

(* What the listeners were told is what was assembled: the usage frames of  *)
(* a reply add up to its total, each tool's input was streamed under its    *)
(* own id and closed once, and tools come inside one batch, which is opened *)
(* before the first of them.                                                *)
ListenersHearTheReply ==
  (net = "done" /\ heard # <<>>) =>
    /\ UsageHeard = usage
    /\ \A i \in DOMAIN content :
         LET b == content[i] IN
         /\ b.type \in Tools => Len(HeardFor("tool_use_input_delta", b.id)) = b.deltas
         /\ (b.type = "tool_use" /\ i # current) => Len(HeardFor("tool_use_input_stop", b.id)) = 1
    /\ Len(HeardOf("tool_batch_start")) = IF \E i \in DOMAIN content : content[i].type \in Tools THEN 1 ELSE 0
    /\ \A i, j \in DOMAIN heard :
         (heard[i].type = "tool_batch_start" /\ heard[j].type \in {"tool_use_start", "server_tool_use_start"}) => i < j

(* "tool_batch_end is emitted on that stop_reason rather than guessed": the *)
(* batch a reply opens it also closes.  Server tools alone end on end_turn. *)
BatchesClose == net = "stopped" => Len(HeardOf("tool_batch_start")) = Len(HeardOf("tool_batch_end"))

-----------------------------------------------------------------------------
(* What the messages do to the screen. *)
Nothing == [text |-> 0, error |-> 0, notice |-> 0, line |-> 0]    \* a line of the display's own
Put(pieces, kind) == [pieces EXCEPT ![kind] = @ + 1]
AndAlso(p, q) == [text |-> p.text + q.text, error |-> p.error + q.error,
                  notice |-> p.notice + q.notice, line |-> 0]

NoBlock == [type |-> "none", pieces |-> Nothing, tools |-> {}]
NewBlock(type) == [NoBlock EXCEPT !.type = type]

-----------------------------------------------------------------------------
(* ConversationState *)
CompleteActive(v) ==
  [v EXCEPT !.sealed = [pieces |-> AndAlso(@.pieces, v.active.pieces),
                        tools  |-> @.tools \cup {[in |-> v.active.type, tool |-> t] : t \in v.active.tools}],
            !.active = NoBlock]

TransitionBlock(v, type) ==
  IF v.active.type = type THEN v
  ELSE [CompleteActive(v) EXCEPT !.active = NewBlock(type)]

(* With no active block, a notice block opens to hold the text. *)
AppendStreaming(v, kind) ==
  LET open == IF v.active = NoBlock THEN NewBlock("notice") ELSE v.active
  IN  [v EXCEPT !.active = [open EXCEPT !.pieces = Put(@, kind)]]
SpliceNotice(v) == AppendStreaming(v, "notice")

(* setLastTools replaces the whole content, of an active block of its type. *)
SetLastTools(v, type, pieces, tools) ==
  IF v.active.type = type THEN [v EXCEPT !.active.pieces = pieces, !.active.tools = tools] ELSE v

-----------------------------------------------------------------------------
(* AgentMessageHandler: the tools of the batch, drawn together in the       *)
(* execution block once it is open, in the tools block before.              *)
RedrawTools(v) ==
  LET target  == IF v.active.type = "execution" THEN "execution" ELSE "tools"
      entries == {[id |-> id, phase |-> v.tool[id].phase] : id \in DOMAIN v.tool}
  IN  SetLastTools(v, target,
                   [Nothing EXCEPT !.line = IF target = "tools" THEN v.annotation ELSE 0], entries)

Knows(v, id) == id \in DOMAIN v.tool

(* ToolObject: a denied tool stays denied; any other change redraws. *)
SetPhase(v, id, phase) ==
  IF ~Knows(v, id) THEN v ELSE RedrawTools([v EXCEPT !.tool[id].phase = phase])
Settle(v, id, phase) ==
  IF ~Knows(v, id) THEN v
  ELSE IF v.tool[id].kind = "server" \/ v.tool[id].phase = "denied" THEN RedrawTools(v)
  ELSE SetPhase(v, id, phase)

StartTool(v, id, kind) ==
  RedrawTools([v EXCEPT !.tool = (id :> [kind |-> kind, phase |-> "streaming"]) @@ @])

(* #appendUsageLine *)
AppendUsageLine(v) ==
  IF v.active.type \in {"tools", "execution"}
  THEN RedrawTools([v EXCEPT !.annotation = 1])
  ELSE AppendStreaming(v, "line")

(* StatusState.update: totals add; the context is taken from a frame that   *)
(* carries one.                                                             *)
UpdateStatus(v, u) ==
  [v EXCEPT !.total = Plus(@, u),
            !.context = IF u.in > 0 THEN u.in ELSE @]

Visual == [text |-> "response", thinking |-> "thinking", compaction |-> "compaction"]

(* Variant: the block of a reply that breaks off is dropped. *)
ReconnectingAnew(v) == SpliceNotice([v EXCEPT !.active = NoBlock])

(* StreamInterruptNotice: what was streamed is sealed, the notice follows. *)
Reconnecting(v) == SpliceNotice(CompleteActive(v))

(* Block lifecycle and what is said inside a block. *)
HandleText(v, m) ==
  CASE m.type = "query_summary"    -> AppendStreaming(TransitionBlock(v, "meta"), "line")
    [] m.type = "tool_batch_start" ->
         [TransitionBlock(v, "tools") EXCEPT !.tool = <<>>, !.annotation = 0]
    [] m.type = "tool_exec_start"  -> RedrawTools(TransitionBlock(v, "execution"))
    [] m.type = "tool_exec_end"    -> CompleteActive(v)
    [] m.type = "block_enter" /\ m.blockType \in DOMAIN Visual -> TransitionBlock(v, Visual[m.blockType])
    [] m.type = "block_exit" /\ m.blockType \in DOMAIN Visual  -> CompleteActive(v)
    [] m.type \in {"message_text", "message_thinking", "message_compaction"} -> AppendStreaming(v, "text")
    [] OTHER                       -> v

(* The tools of the batch. *)
HandleTool(v, m) ==
  CASE m.type = "tool_use_start"        -> StartTool(v, m.id, "client")
    [] m.type = "server_tool_use_start" -> StartTool(v, m.id, "server")
    [] m.type \in {"tool_use_input_stop", "server_tool_use", "tool_approval_request"} ->
         SetPhase(v, m.id, "pending")
    [] m.type = "server_tool_result"    -> SetPhase(v, m.id, "done")
    [] m.type = "tool_use_input_delta"  -> IF Knows(v, m.id) THEN RedrawTools(v) ELSE v
    [] m.type = "tool_result"           -> Settle(v, m.id, m.phase)
    [] m.type = "answered"              -> SetPhase(v, m.id, m.phase)     \* #toolApprovalRequest goes on
    [] m.type = "tool_error"            -> AppendStreaming(v, "error")
    [] m.type = "tool_cancelling"       ->
         RedrawTools([v EXCEPT !.tool = [id \in DOMAIN @ |->
           IF @[id].phase = "running" THEN [@[id] EXCEPT !.phase = "cancelling"] ELSE @[id]]])
    [] OTHER                            -> v

(* The ends of a reply and of a query, and what is spliced in from outside. *)
HandleEnd(v, m) ==
  CASE m.type = "message_usage"     ->
         UpdateStatus(CompleteActive(IF m.in > 0 \/ m.out > 0 THEN AppendUsageLine(v) ELSE v), m)
    [] m.type \in {"done", "error"} -> AppendStreaming(v, "line")
    [] m.type = "reconnecting"      -> Reconnecting(v)
    [] m.type = "notice"            -> SpliceNotice(v)
    [] OTHER                        -> v

(* A message is of one of the three kinds; the other two leave it alone. *)
Handle(v, m) == HandleEnd(HandleTool(HandleText(v, m), m), m)

Result(id, phase) == [type |-> "tool_result", id |-> id, phase |-> phase]

Show(messages) == view' = FoldLeft(Handle, view, messages)

Texts(messages) == Len(SelectSeq(messages, LAMBDA m :
                     m.type \in {"message_text", "message_thinking", "message_compaction"}))
Count(kind, n) == said' = [said EXCEPT ![kind] = @ + n]
Say(messages) ==
  Show(messages) /\ said' = [said EXCEPT
    !.error  = @ + Len(SelectSeq(messages, LAMBDA m : m.type = "tool_error")),
    !.notice = @ + Len(SelectSeq(messages, LAMBDA m : m.type \in {"notice", "reconnecting"}))]

-----------------------------------------------------------------------------
(* runAgent opens the query with the prompt's block; every turn starts with *)
(* a query_summary and a request.                                           *)
Prompt ==
  /\ turn = "idle" /\ turn' = "requesting"
  /\ view' = CompleteActive(AppendStreaming(TransitionBlock(view, "prompt"), "line"))
  /\ UNCHANGED <<streamVars, turns, cancelled, calls, asked, late, said, spent>>

Request ==
  /\ turn = "requesting" /\ net \in {"idle", "done"} /\ turns < MaxTurns /\ ~cancelled
  /\ turns' = turns + 1 /\ net' = "connected"
  /\ Show(<<Sent("query_summary")>>)
  /\ UNCHANGED <<message, content, stopReason, usage, current, currentToolId, hasToolBatch, startUsage,
                 out, heard, turn, cancelled, calls, asked, late, said, spent>>

Reply ==
  /\ turn = "requesting" /\ Streaming
  /\ Show(out')
  /\ Count("text", Texts(out'))
  /\ spent' = IF net' = "done" THEN Plus(spent, usage)
              ELSE IF net' = "broken" /\ net = "open" THEN Plus(spent, startUsage) ELSE spent
  /\ UNCHANGED <<turn, turns, cancelled, calls, asked, late>>

(* A broken stream is retried under a notice, or ends the query. *)
Retry ==
  /\ turn = "requesting" /\ net = "broken" /\ ~cancelled /\ message < Len(Replies) /\ said.notice < MaxNotices
  /\ net' = "connected"
  /\ Say(<<Sent("reconnecting")>>)
  /\ UNCHANGED <<message, content, stopReason, usage, current, currentToolId, hasToolBatch, startUsage,
                 out, heard, turn, turns, cancelled, calls, asked, late, spent>>

(* runAgent's finally: the active block is sealed, open asks are denied     *)
(* (clearTools), and each denied ask's handler goes on.                     *)
Finish(messages) ==
  LET cleared == CompleteActive(FoldLeft(Handle, view, messages))
      denials == SetToSeq({[type |-> "answered", id |-> id, phase |-> "denied"] : id \in asked})
  IN  /\ view' = FoldLeft(Handle, cleared, denials)
      /\ turn' = "over" /\ asked' = {} /\ late' = late \cup asked

QueryFails ==
  /\ turn = "requesting" /\ net = "broken"
  /\ Finish(<<Sent("error")>>)
  /\ UNCHANGED <<streamVars, turns, cancelled, calls, said, spent>>

QueryEnds ==
  /\ turn = "requesting" /\ net = "done" /\ turns > 0
  /\ stopReason # "tool_use" \/ turns = MaxTurns \/ cancelled
  /\ Finish(IF stopReason \in {"end_turn", "tool_use"} THEN <<>> ELSE <<Sent("done")>>)
  /\ UNCHANGED <<streamVars, turns, cancelled, calls, said, spent>>

-----------------------------------------------------------------------------
(* The batch: #handleTools, in a tool_exec_start .. tool_exec_end bracket.  *)
(* A tool is asked for; approved it runs, refused its result goes out; a    *)
(* cancel of the query answers the open asks for the SDK and leaves them on *)
(* the screen, where a key may answer them later.                           *)
ClientTools == {content[i].id : i \in {j \in DOMAIN content : content[j].type = "tool_use"}}

ForEach(ids, Message(_)) == [i \in 1..Len(SetToSeq(ids)) |-> Message(SetToSeq(ids)[i])]

(* Each tool that does not resolve has its result at once; the rest are asked, *)
(* or have theirs at once when the query is cancelled already.                 *)
BatchStarts ==
  /\ turn = "requesting" /\ net = "done" /\ stopReason = "tool_use" /\ turns < MaxTurns
  /\ turn' = "running"
  /\ \E bad \in SUBSET ClientTools, quiet \in BOOLEAN :
       LET asks == IF cancelled THEN {} ELSE ClientTools \ bad
           told(id) == IF quiet THEN <<Result(id, "failed")>>              \* unavailable
                       ELSE <<Sent("tool_error"), Result(id, "failed")>>   \* rejected
       IN  /\ calls' = [id \in ClientTools |-> IF id \in asks THEN "asked" ELSE "done"]
           /\ asked' = asks
           /\ Say(<<Sent("tool_exec_start")>>
                  \o FlattenSeq(ForEach(bad, told))
                  \o ForEach(asks, LAMBDA id : SentFor("tool_approval_request", id))
                  \o ForEach(ClientTools \ (bad \cup asks), LAMBDA id : Result(id, "cancelled")))
  /\ content' = <<>> /\ out' = <<>> /\ heard' = <<>>       \* the reply is handed over
  /\ UNCHANGED <<net, message, stopReason, usage, current, currentToolId, hasToolBatch, startUsage,
                 turns, cancelled, late, spent>>

Answered(id, phase) == [type |-> "answered", id |-> id, phase |-> phase]

(* A key, the bus or a policy answers an ask that is on the screen. *)
Answer(id) ==
  /\ id \in asked /\ asked' = asked \ {id}
  /\ \/ /\ calls[id] = "asked" /\ calls' = [calls EXCEPT ![id] = "running"]
        /\ Show(<<Answered(id, "running")>>) /\ UNCHANGED late
     \/ /\ calls[id] = "asked" /\ calls' = [calls EXCEPT ![id] = "done"]
        /\ \E phase \in {"denied", "error"} :
             Show(<<Answered(id, phase), Result(id, "failed")>>)
        /\ UNCHANGED late
     \/ /\ calls[id] = "done" /\ UNCHANGED calls
        /\ \E phase \in {"running", "denied"} : Show(<<Answered(id, phase)>>)
        /\ late' = late \cup {id}
  /\ UNCHANGED <<streamVars, turn, turns, cancelled, said, spent>>

(* A tool ends: ok, or with a tool_error beside its result. *)
ToolEnds(id) ==
  /\ calls[id] = "running" /\ calls' = [calls EXCEPT ![id] = "done"]
  /\ \/ Say(<<Result(id, "ok")>>)
     \/ \E phase \in {"failed", "cancelled"} :
          Say(<<Sent("tool_error"), Result(id, phase)>>)
  /\ UNCHANGED <<streamVars, turn, turns, cancelled, asked, late, spent>>

CancelTools ==
  /\ turn = "running" /\ \E id \in DOMAIN calls : calls[id] = "running"
  /\ \E id \in DOMAIN view.tool : view.tool[id].phase = "running"
  /\ Show(<<Sent("tool_cancelling")>>)
  /\ UNCHANGED <<streamVars, turn, turns, cancelled, calls, asked, late, said, spent>>

CancelQuery ==
  /\ turn \in {"requesting", "running"} /\ ~cancelled
  /\ cancelled' = TRUE
  /\ LET open == {id \in DOMAIN calls : calls[id] = "asked"} IN
     /\ calls' = [id \in DOMAIN calls |-> IF id \in open THEN "done" ELSE calls[id]]
     /\ Show(ForEach(open, LAMBDA id : Result(id, "cancelled")))
  /\ UNCHANGED <<streamVars, turn, turns, asked, late, said, spent>>

BatchEnds ==
  /\ turn = "running" /\ \A id \in DOMAIN calls : calls[id] = "done"
  /\ turn' = "requesting"
  /\ Show(<<Sent("tool_exec_end")>>)
  /\ UNCHANGED <<streamVars, turns, cancelled, calls, asked, late, said, spent>>

(* ConfigChangeCoordinator: a reload says so in the transcript, at any time. *)
ConfigNotice ==
  /\ said.notice < MaxNotices /\ turn \in {"requesting", "running"}
  /\ Say(<<Sent("notice")>>)
  /\ UNCHANGED <<streamVars, turn, turns, cancelled, calls, asked, late, spent>>

Init ==
  /\ StreamInit
  /\ turn = "idle" /\ turns = 0 /\ cancelled = FALSE /\ calls = <<>> /\ asked = {} /\ late = {}
  /\ view = [sealed |-> [pieces |-> Nothing, tools |-> {}], active |-> NoBlock,
             tool |-> <<>>, annotation |-> 0, total |-> Zero, context |-> 0]
  /\ said = [text |-> 0, error |-> 0, notice |-> 0]
  /\ spent = Zero

Next ==
  \/ Prompt \/ Request \/ Reply \/ Retry \/ QueryFails \/ QueryEnds
  \/ BatchStarts \/ BatchEnds \/ CancelTools \/ CancelQuery \/ ConfigNotice
  \/ \E id \in DOMAIN calls : Answer(id) \/ ToolEnds(id)

Spec == Init /\ [][Next]_vars

-----------------------------------------------------------------------------
Pieces == AndAlso(view.sealed.pieces, view.active.pieces)
Drawn(type) == {s.tool : s \in {t \in view.sealed.tools : t.in = type}}
                 \cup (IF view.active.type = type THEN view.active.tools ELSE {})

(* "so the content is never silently dropped": every piece of the reply     *)
(* that arrived is in a block, whatever sealed, redrew or broke off the     *)
(* block it was in.                                                         *)
TextIsShown == Pieces.text = said.text

(* The status bar's totals are what the replies used: whole ones in two     *)
(* frames, broken ones as far as they said; the context is the last one     *)
(* that was sent.                                                           *)
TotalsAreSpent ==
  net \in {"done", "broken", "idle"} => view.total = spent

(* An execution block that is sealed shows every client tool of its batch,  *)
(* settled, unless its ask was answered after its result.                   *)
Terminal == {"denied", "error", "cancelled", "ok", "failed"}
BatchesSettle ==
  turn # "running" =>
    \A id \in DOMAIN calls : \E t \in Drawn("execution") : t.id = id /\ (id \in late \/ t.phase \in Terminal)

TranscriptSound == TextIsShown /\ TotalsAreSpent /\ BatchesSettle

(* AgentMessageHandler.ts: "no active block at this point, appendStreaming  *)
(* opens a notice block so the error lands visibly".  The execution block   *)
(* is active, and the result that follows redraws it without the error.     *)
ErrorsLand == Pieces.error = said.error

(* "Splice a notice line into the active block": a redraw drops it too. *)
NoticesStay == Pieces.notice = said.notice

(* StatusState: the context "is a point-in-time snapshot"; an end frame     *)
(* with input growth replaces it by the growth.                             *)
ContextIsWhole == net = "done" => view.context >= 2

(* "block_enter('server_tool_use') already opened the visual tools block":  *)
(* a server tool that follows text is drawn nowhere.                        *)
ServerToolsShown ==
  net = "done" => \A i \in DOMAIN content : content[i].type = "server_tool_use" =>
    \E t \in Drawn("tools") : t.id = content[i].id

(* "Terminal: the handler unwound on cancellation": a key that answers the  *)
(* ask after its result brings the tool back to running.                    *)
SealedToolsSettled ==
  \A s \in view.sealed.tools : s.in = "execution" => s.tool.phase \in Terminal \cup {"done"}

-----------------------------------------------------------------------------
(* replayHistory *)
Merged == {"tools", "execution"}

(* Lines of tools and of results join a running block of their type. *)
AppendTo(blocks, type, line) ==
  IF blocks # <<>> /\ Last(blocks).type = type
  THEN [blocks EXCEPT ![Len(blocks)].lines = Append(@, line)]
  ELSE Append(blocks, [type |-> type, lines |-> <<line>>])

Push(blocks, type, line) == Append(blocks, [type |-> type, lines |-> <<line>>])

Of(msg, type) == SelectSeq(msg.content, LAMBDA b : b.type = type)

(* A user msg is its results, only counted, or its words. *)
UserBlocks(blocks, msg) ==
  IF Of(msg, "tool_result") # <<>> THEN AppendTo(blocks, "execution", Len(Of(msg, "tool_result")))
  ELSE IF \E b \in Range(Of(msg, "text")) : ~b.blank THEN Push(blocks, "prompt", Len(Of(msg, "text")))
  ELSE blocks

AssistantBlock(blocks, b) ==
  CASE b.type = "text" /\ ~b.blank                     -> Push(blocks, "response", b.type)
    [] b.type = "thinking" /\ showThinking /\ ~b.blank -> Push(blocks, "thinking", b.type)
    [] b.type = "tool_use"                             -> AppendTo(blocks, "tools", b.type)
    [] b.type = "compaction"                           -> Push(blocks, "compaction", b.type)
    [] OTHER                                           -> blocks

ReplayHistory ==
  FoldLeft(LAMBDA blocks, msg :
             IF msg.role = "user" THEN UserBlocks(blocks, msg)
             ELSE FoldLeft(AssistantBlock, blocks, msg.content),
           <<>>, stored)

InitReplay ==
  /\ stored \in UNION {[1..n -> Messages] : n \in 0..MaxMessages} /\ showThinking \in BOOLEAN
  /\ shown = <<>>

(* runAgent's caller pushes the blocks once, at boot or after a move. *)
AddHistoryBlocks == shown = <<>> /\ shown' = ReplayHistory /\ UNCHANGED <<stored, showThinking>>
ReplaySpec == InitReplay /\ [][AddHistoryBlocks]_replayVars

Lines(blocks) == FlattenSeq([i \in DOMAIN blocks |->
                   [k \in DOMAIN blocks[i].lines |-> blocks[i].type]])

Type == [text |-> "response", thinking |-> "thinking", tool_use |-> "tools", compaction |-> "compaction"]
Worth(msg) ==
  IF msg.role = "user"
  THEN IF Of(msg, "tool_result") # <<>> THEN <<"execution">>
       ELSE IF \A b \in Range(msg.content) : b.type # "text" \/ b.blank THEN <<>> ELSE <<"prompt">>
  ELSE LET seen == SelectSeq(msg.content, LAMBDA b :
                     /\ b.type \in DOMAIN Type
                     /\ b.type \in {"text", "thinking"} => ~b.blank
                     /\ b.type = "thinking" => showThinking)
       IN  [i \in DOMAIN seen |-> Type[seen[i].type]]

(* The replay shows what was said in the order it was said, and only a run   *)
(* of tools, or of results, is one block.                                    *)
ReplayIsInOrder ==
  LET blocks == ReplayHistory IN
  /\ Lines(blocks) = FlattenSeq([i \in DOMAIN stored |-> Worth(stored[i])])
  /\ \A i \in DOMAIN blocks :
       /\ Len(blocks[i].lines) > 1 => blocks[i].type \in Merged
       /\ i < Len(blocks) /\ blocks[i].type \in Merged => blocks[i + 1].type # blocks[i].type
=============================================================================
