----------------------------- MODULE Conversation -----------------------------
(***************************************************************************)
(* The conversation of packages/claude-sdk block by block: what QueryRunner *)
(* frames a user message with, what TurnRunner heals and stamps into the   *)
(* stored history before each request, and the request it cuts from it.    *)
(* One query step is one action; the turn loop's interleavings are the     *)
(* subject of QueryRunner.tla.                                             *)
(***************************************************************************)
EXTENDS History, FiniteSets, SequencesExt

CONSTANTS
  Inputs,          \* how callers pass the opening message
  CompactModes,    \* what the API may do about compaction in one reply
  CompactEnabled,  \* values durable.compact.enabled may take
  MaxLen,          \* bound on the length of the history
  MaxTyped         \* bound on the opening messages and on their reminders

ASSUME ParametersAssumption ==
  /\ Inputs \subseteq {"array", "string", "none"}
  /\ CompactModes \subseteq {"no", "pause", "inline", "failed"}
  /\ CompactEnabled \subseteq BOOLEAN
  /\ MaxLen \in Nat
  /\ MaxTyped \in Nat

VARIABLES
  items,      \* Conversation.#items
  stage,      \* "idle", "sending", or "acting" on the reply's tool_use blocks
  request,    \* the messages of the latest request
  typed,      \* how many opening messages were given to run()
  announced   \* how many persisted reminders were given to run()

vars == << items, stage, request, typed, announced >>

(* Text kinds: the user's or model's own "text", the "standing" reminders, *)
(* a query's persisted "delta" reminder, the clock "stamp", and "empty"    *)
(* text.  A "failed" block is a compaction whose summary never came.  What *)
(* the user typed has a number, so that it can be found again.             *)
Reminders == {"standing", "delta", "stamp"}
Results == {"result", "synthetic"}
Compactions == {"compaction", "failed"}
NoId == 0
Block == [kind : {"text"}, id : Nat]
           \cup [kind : {"empty"} \cup Reminders \cup Compactions, id : {NoId}]
           \cup [kind : {"use"} \cup Results, id : ToolId]

B(kind) == [kind |-> kind, id |-> NoId]
Typed(n) == [kind |-> "text", id |-> n]     \* the text of the n-th opening message
IsReminder(b) == b.kind \in Reminders
IsResult(b) == b.kind \in Results
IsContent(b) == ~IsResult(b) /\ ~IsReminder(b)

(* Message content is a string or an array of blocks. *)
Item == [role : {"user", "assistant"}, plain : BOOLEAN, blocks : Seq(Block)]

User(blocks) == [role |-> "user", plain |-> FALSE, blocks |-> blocks]
Plain(text) == [role |-> "user", plain |-> TRUE, blocks |-> << text >>]
Assistant(blocks) == [role |-> "assistant", plain |-> FALSE, blocks |-> blocks]

TypeOK ==
  /\ items \in Seq(Item)
  /\ stage \in {"idle", "sending", "acting"}
  /\ request \in Seq(Item)
  /\ typed \in Nat
  /\ announced \in Nat

IdsOf(m, kinds) == {m.blocks[i].id : i \in {j \in DOMAIN m.blocks : m.blocks[j].kind \in kinds}}

-----------------------------------------------------------------------------
(* The stored history.                                                     *)

(* Variants for the mutation checks: what is there is lost; no merging.    *)
PushItemReplacing(c, m) ==
  IF m.role = "user" /\ EndsWith(c, "user") THEN [c EXCEPT ![Len(c)] = m] ELSE Append(c, m)
PushItemUnmerged(c, m) == Append(c, m)

PushItem(c, m) ==
  IF m.role = "user" /\ EndsWith(c, "user")
  THEN [c EXCEPT ![Len(c)] = User(@.blocks \o m.blocks)]
  ELSE Append(c, m)

(* The reply with the synthetic answers ahead of what is there; a reply    *)
(* whose content is a string is taken to hold nothing.                     *)
HealedReply(missing, reply) ==
  User(missing \o (IF reply.plain THEN << >> ELSE reply.blocks))

(* One answer for each of ids; nothing depends on their order. *)
Answers(kind, ids) ==
  LET order == SetToSeq(ids)
  IN  [i \in 1 .. Cardinality(ids) |-> [kind |-> kind, id |-> order[i]]]

(* What is owed for the tool_use blocks of a that answered does not cover. *)
MissingAnswers(a, answered) == Answers("synthetic", IdsOf(a, {"use"}) \ answered)

(* Variant: a partly answered batch is taken as answered. *)
HealTipOnly(c) ==
  LET missing == IF EndsWith(c, "assistant") THEN MissingAnswers(Tip(c), {}) ELSE << >>
  IN  IF missing = << >> THEN c ELSE PushItem(c, User(missing))

Heal(c) ==
  LET reply == Tip(c)
      answered == IF reply.plain THEN {} ELSE IdsOf(reply, Results)
      owed == MissingAnswers(Tip(c), {})
      missing == MissingAnswers(c[Len(c) - 1], answered)
  IN  IF EndsWith(c, "assistant") /\ owed # << >> THEN PushItem(c, User(owed))
      ELSE IF EndsWith(c, "user") /\ Len(c) > 1 /\ c[Len(c) - 1].role = "assistant" /\ missing # << >>
      THEN [c EXCEPT ![Len(c)] = HealedReply(missing, reply)]
      ELSE c

(* How many blocks of a message lead it: results and reminders. *)
Leading(blocks) ==
  LET first == SelectInSeq(blocks, IsContent)
  IN  IF first = 0 THEN Len(blocks) ELSE first - 1

(* The blocks with the clock stamp between what leads and what was said.   *)
(* An earlier stamp is replaced; a message of answers only is not stamped. *)
Stamped(blocks) ==
  LET fresh == RemoveFirst(blocks, B("stamp"))
  IN  IF Leading(fresh) = Len(fresh) THEN blocks
      ELSE InsertAt(fresh, Leading(fresh) + 1, B("stamp"))

StampTip(c) ==
  LET stamped == Stamped(Tip(c).blocks)
  IN  IF c = << >> \/ stamped = Tip(c).blocks THEN c
      ELSE WithTip(c, [Tip(c) EXCEPT !.plain = FALSE, !.blocks = stamped])

-----------------------------------------------------------------------------
(* The request.                                                            *)

HasSummary(m) == \E i \in DOMAIN m.blocks : m.blocks[i].kind \in Compactions

TrimToLastCompaction(c) ==
  LET last == SelectLastInSeq(c, HasSummary)
  IN  IF last = 0 THEN c ELSE SubSeq(c, last, Len(c))

(* With compaction off, summaries travel as text.  mapBlocks has stored    *)
(* the summary that never came as "", so it becomes an empty text block.   *)
AsText(b) ==
  IF b.kind = "compaction" THEN B("text") ELSE IF b.kind = "failed" THEN B("empty") ELSE b

ConvertCompactionBlocks(c) ==
  [i \in DOMAIN c |-> [c[i] EXCEPT !.blocks = [j \in DOMAIN @ |-> AsText(@[j])]]]

(* Variant: the last user message is looked at. *)
EnsureRemindersAtTip(c) ==
  LET IsUser(m) == m.role = "user"
      i == SelectLastInSeq(c, IsUser)
  IN  IF i = 0 \/ IsReminder(c[i].blocks[1]) THEN c
      ELSE [c EXCEPT ![i] = User(<< B("standing") >> \o @.blocks)]

(* Any reminder that leads the first user message is taken as proof that   *)
(* the standing ones are there.                                            *)
EnsureReminders(c) ==
  LET IsUser(m) == m.role = "user"
      i == SelectInSeq(c, IsUser)
  IN  IF i = 0 \/ IsReminder(c[i].blocks[1]) THEN c
      ELSE [c EXCEPT ![i] = User(<< B("standing") >> \o @.blocks)]

RequestFrom(c, compactEnabled) ==
  LET slice == TrimToLastCompaction(c)
  IN  EnsureReminders(IF compactEnabled THEN slice ELSE ConvertCompactionBlocks(slice))

(* TurnRunner.run up to the await: heal, stamp, and send. *)
Send(c, compactEnabled) ==
  /\ items' = StampTip(Heal(c))
  /\ request' = RequestFrom(items', compactEnabled)
  /\ stage' = "sending"

-----------------------------------------------------------------------------
Init ==
  /\ items = << >>
  /\ stage = "idle"
  /\ request = << >>
  /\ typed = 0
  /\ announced = 0

(* The opening message as QueryRunner frames it: the standing reminders on *)
(* a fresh conversation, then the query's own persisted reminder.          *)
Framed(input, delta) ==
  LET fresh == ~ \E i \in DOMAIN items : items[i].role = "user"
      leading == (IF fresh THEN << B("standing") >> ELSE << >>)
                   \o (IF delta THEN << B("delta") >> ELSE << >>)
      text == Typed(typed + 1)
  IN  IF input = "string" /\ leading = << >> THEN Plain(text)
      ELSE User(leading \o << text >>)

(* A query opens.  With no message at all, the unanswered one is resent    *)
(* and the query's reminder has nothing to ride on.                        *)
Open(input, delta, compactEnabled) ==
  /\ stage = "idle"
  /\ Len(items) < MaxLen
  /\ delta => announced < MaxTyped
  /\ announced' = announced + (IF delta THEN 1 ELSE 0)
  /\ \/ /\ input = "none" /\ EndsWith(items, "user")
        /\ Send(items, compactEnabled)
        /\ UNCHANGED typed
     \/ /\ input # "none"
        /\ typed < MaxTyped
        /\ Send(PushItem(items, Framed(input, delta)), compactEnabled)
        /\ typed' = typed + 1

Fails == stage = "sending" /\ stage' = "idle" /\ UNCHANGED << items, request, typed, announced >>

(* What one reply may hold: with pauseAfterCompaction a compaction ends    *)
(* the reply, without it the reply goes on behind the summary.             *)
ReplyBlocks(mode, text, uses) ==
  (IF mode \in {"pause", "inline"} THEN << B("compaction") >>
   ELSE IF mode = "failed" THEN << B("failed") >> ELSE << >>)
  \o (IF text THEN << B("text") >> ELSE << >>)
  \o [i \in 1 .. Len(uses) |-> [kind |-> "use", id |-> uses[i]]]

(* The reply ends its query, or asks for tools; a reply that was cut off   *)
(* may hold tool_use blocks nobody acts on.                                *)
Reply(mode, text, uses, stop) ==
  /\ stage = "sending"
  /\ Len(items) < MaxLen
  /\ mode = "pause" => ~text /\ uses = << >> /\ stop = "other"
  /\ stop = "tool_use" => uses # << >>
  /\ LET blocks == ReplyBlocks(mode, text, uses)
     IN  items' = IF blocks = << >> THEN items ELSE PushItem(items, Assistant(blocks))
  /\ stage' = IF stop = "tool_use" THEN "acting" ELSE "idle"
  /\ UNCHANGED << request, typed, announced >>

(* stop_reason tool_use without a tool_use block: the reply was pushed and *)
(* is rolled back, so the same tip is sent again.                          *)
EmptyToolUse(compactEnabled) ==
  /\ stage = "sending"
  /\ Send(items, compactEnabled)
  /\ UNCHANGED << typed, announced >>

(* The results of the batch, which lack those of tools a cancel skipped.   *)
(* A cancelled query stops here.                                           *)
Deliver(skipped, compactEnabled) ==
  /\ stage = "acting"
  /\ LET uses == IdsOf(Tip(items), {"use"})
         message == User(Answers("result", uses \ skipped))
     IN  /\ skipped \subseteq uses
         /\ \/ skipped = {} /\ Send(PushItem(items, message), compactEnabled)
            \/ /\ items' = PushItem(items, message)
               /\ stage' = "idle"
               /\ UNCHANGED request
  /\ UNCHANGED << typed, announced >>

(* The process dies and the conversation is loaded again: healed with the  *)
(* other reason.                                                           *)
Reload ==
  /\ items' = Heal(items)
  /\ stage' = "idle"
  /\ UNCHANGED << request, typed, announced >>

UseSeqs == UNION {SetToSeqs(ids) : ids \in {S \in SUBSET ToolId : IsFiniteSet(S)}}

Next ==
  \/ \E input \in Inputs, delta \in BOOLEAN, on \in CompactEnabled : Open(input, delta, on)
  \/ Fails
  \/ \E mode \in CompactModes, text \in BOOLEAN, uses \in UseSeqs, stop \in {"tool_use", "other"} :
       Reply(mode, text, uses, stop)
  \/ \E on \in CompactEnabled : EmptyToolUse(on)
  \/ \E skipped \in SUBSET ToolId, on \in CompactEnabled : Deliver(skipped, on)
  \/ Reload

Spec == Init /\ [][Next]_vars
-----------------------------------------------------------------------------
(* Properties.                                                             *)

NumberOf(kind, c) ==
  LET OfKind(b) == b.kind = kind
      PerItem == [i \in DOMAIN c |-> Len(SelectSeq(c[i].blocks, OfKind))]
  IN  FoldSeq(LAMBDA n, sum : n + sum, 0, PerItem)

(* Every request is one the API accepts: roles alternate, nothing is       *)
(* empty, and the tool_use blocks of a message are answered, exactly, by   *)
(* the next one, in a slice that may start at a compaction.  "The API      *)
(* requires every tool_result to lead the user message it's part of":      *)
(* whatever is merged, healed, stamped or injected, no block of another    *)
(* kind comes before an answer.                                            *)
(* [healDanglingToolUse, removeLast and cloneForRequest together]          *)
ResultsLead ==
  \A i \in DOMAIN request :
    \A j, k \in DOMAIN request[i].blocks :
      j < k /\ IsResult(request[i].blocks[k]) => IsResult(request[i].blocks[j])

RequestAccepted ==
  stage = "sending" =>
    /\ ResultsLead
    /\ EndsWith(request, "user")
    /\ \A i \in DOMAIN request : request[i].blocks # << >>
    /\ IdsOf(request[1], Results) = {}
    /\ \A i \in 1 .. Len(request) - 1 :
         /\ request[i].role # request[i + 1].role
         /\ IdsOf(request[i], {"use"}) = IdsOf(request[i + 1], Results)

(* "Blocks with null content (failed compaction) are dropped"              *)
(* (Conversation.cloneForRequest): a request holds no empty text block.    *)
NoEmptyText ==
  \A i \in DOMAIN request : B("empty") \notin ToSet(request[i].blocks)

(* What the user typed is in the history exactly once, whatever was merged *)
(* into it or healed around it, and the user has typed nothing else.       *)
(* [Conversation.push, healDanglingToolUse]                                *)
PlacesOf(block, c) ==
  UNION {{<< i, j >> : j \in {k \in DOMAIN c[i].blocks : c[i].blocks[k] = block}} : i \in DOMAIN c}

TypedTextKept ==
  /\ \A n \in 1 .. typed : \E place \in PlacesOf(Typed(n), items) : PlacesOf(Typed(n), items) = {place}
  /\ \A i \in DOMAIN items : \A j \in DOMAIN items[i].blocks :
       items[i].role = "user" /\ items[i].blocks[j].kind = "text" => items[i].blocks[j].id \in 1 .. typed

(* A reminder that was announced to the query is in the history: the       *)
(* working directory "is stated up front rather than left for the model to *)
(* infer" (CwdTracker).                                                    *)
AnnouncementsKept == NumberOf("delta", items) = announced

(* A message carries at most one clock stamp, and it sits between what     *)
(* leads the message and what was said.  [the stamp in TurnRunner.run]     *)
StampInPlace(blocks) ==
  \A j \in DOMAIN blocks : blocks[j].kind = "stamp" =>
    /\ \A k \in DOMAIN blocks : blocks[k].kind = "stamp" => k = j
    /\ \A k \in 1 .. j : ~IsContent(blocks[k])
    /\ j < Len(blocks) /\ IsContent(blocks[j + 1])

StampsInPlace == \A i \in DOMAIN items : StampInPlace(items[i].blocks)

(* What is sent is accepted: roles alternate, every tool use is answered by    *)
(* the very next message, results come first in it, and the stamp is still     *)
(* where it was put (Conversation.push, heal and sliceForApi).                 *)
ConversationSound == TypeOK /\ RequestAccepted /\ ResultsLead /\ StampsInPlace

(* "Re-injecting them here keeps them present in every request"            *)
(* (ensureClaudeMdReminders): the standing reminders lead the first user   *)
(* message, and are there once.                                            *)
StandingPresent ==
  request # << >> =>
    /\ NumberOf("standing", request) = 1
    /\ \E i \in DOMAIN request :
         /\ \A j \in 1 .. i - 1 : request[j].role # "user"
         /\ B("standing") \in ToSet(request[i].blocks)

(* The cached prefix stays valid: until a compaction, a request repeats    *)
(* the one before it, whose last message alone may have changed, and that  *)
(* only while it is the last.  [what is written into history is written at *)
(* the tip; what is injected into a request was there before]              *)
PrefixIsStable ==
  [][request # << >> /\ TrimToLastCompaction(items') = items' /\ request' # request
       => /\ Len(request) <= Len(request')
          /\ \A i \in DOMAIN request : i < Len(request') => request'[i] = request[i]]_vars

(* Seen as messages, the block-level history is a MessageLog.              *)
AsMessage(m) ==
  [role |-> m.role,
   text |-> \E i \in DOMAIN m.blocks : m.blocks[i].kind \notin Results \cup {"use"},
   uses |-> IdsOf(m, {"use"}),
   results |-> IdsOf(m, Results),
   healed |-> IdsOf(m, {"synthetic"})]

Log == INSTANCE MessageLog WITH
  log <- [i \in DOMAIN items |-> AsMessage(items[i])], inFlight <- stage = "sending"

KeepsLog == Log!LogSpec
=============================================================================
