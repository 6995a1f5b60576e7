------------------------------- MODULE History -------------------------------
(***************************************************************************)
(* The conversation of packages/claude-sdk as the turn loop sees it: a     *)
(* sequence of messages, each reduced to what the Messages API judges a    *)
(* request by.  A message keeps its role, whether it carries any ordinary  *)
(* content, the tool_use ids it asks for, the tool_result ids it answers,  *)
(* and which of those answers are synthetic (written by the self-heal).    *)
(* The order of the blocks inside one message is the subject of            *)
(* Conversation.tla, which implements the operators of this module.        *)
(***************************************************************************)
EXTENDS Sequences, Integers

CONSTANT ToolId     \* the ids the API gives to tool_use blocks

Role == {"user", "assistant"}

Message == [role : Role, text : BOOLEAN, uses : SUBSET ToolId,
            results : SUBSET ToolId, healed : SUBSET ToolId]

UserMessage(text, results) ==
  [role |-> "user", text |-> text, uses |-> {}, results |-> results, healed |-> {}]

AssistantMessage(text, uses) ==
  [role |-> "assistant", text |-> text, uses |-> uses, results |-> {}, healed |-> {}]

Tip(h) == h[Len(h)]

EndsWith(h, role) == h # << >> /\ Tip(h).role = role

WithTip(h, m) == [h EXCEPT ![Len(h)] = m]

(* A second user message in a row is folded into the first one. *)
Merge(m, n) ==
  [m EXCEPT !.text = @ \/ n.text,
            !.results = @ \cup n.results,
            !.healed = @ \cup n.healed]

Push(h, m) ==
  IF m.role = "user" /\ EndsWith(h, "user")
  THEN WithTip(h, Merge(Tip(h), m))
  ELSE Append(h, m)

RemoveLast(h) == IF h = << >> THEN h ELSE SubSeq(h, 1, Len(h) - 1)

(* The synthetic answer for a set of tool_use ids that never got one. *)
Synthetic(ids) == [UserMessage(FALSE, ids) EXCEPT !.healed = ids]

(* Variant for the mutation checks: a partial reply is not looked behind. *)
HealAnchorTipOnly(h) == IF EndsWith(h, "assistant") THEN Len(h) ELSE 0

(* The assistant message a heal looks at: the tip, or the one before a     *)
(* user tip; 0 when there is none.                                         *)
HealAnchor(h) ==
  CASE EndsWith(h, "assistant") -> Len(h)
    [] EndsWith(h, "user") /\ Len(h) > 1 /\ h[Len(h) - 1].role = "assistant" -> Len(h) - 1
    [] OTHER -> 0

Unanswered(h) ==
  LET a == HealAnchor(h)
  IN  IF a = 0 THEN {}
      ELSE h[a].uses \ (IF a < Len(h) THEN Tip(h).results ELSE {})

(* Every tool_use of the last exchange that has no tool_result gets a      *)
(* synthetic one: in the reply that is there, or in a reply of its own.    *)
HealDanglingToolUse(h) ==
  LET missing == Unanswered(h)
  IN  IF missing = {} THEN h ELSE Push(h, Synthetic(missing))

-----------------------------------------------------------------------------
(* What the Messages API requires of a request, part by part.              *)

Alternates(h) ==
  /\ h # << >> => h[1].role = "user"
  /\ \A i \in 1 .. Len(h) - 1 : h[i].role # h[i + 1].role

(* Only assistants ask and only users answer. *)
SidesKept(h) ==
  \A i \in 1 .. Len(h) :
    IF h[i].role = "user" THEN h[i].uses = {} ELSE h[i].results = {}

NoOrphanResult(h) ==
  /\ h # << >> => h[1].results = {}
  /\ \A i \in 1 .. Len(h) - 1 : h[i + 1].results \subseteq h[i].uses

AnsweredUpTo(h, n) ==
  \A i \in 1 .. n : h[i].uses \subseteq h[i + 1].results

NonEmptyUpTo(h, n) ==
  \A i \in 1 .. n : h[i].text \/ h[i].uses # {} \/ h[i].results # {}

RequestOK(h) ==
  /\ EndsWith(h, "user")
  /\ Alternates(h)
  /\ NoOrphanResult(h)
  /\ AnsweredUpTo(h, Len(h) - 1)
  /\ NonEmptyUpTo(h, Len(h))

(* What holds of the stored history at all times: everything before the    *)
(* last exchange is settled, and only the last exchange may still be owed  *)
(* answers.                                                                *)
WellKept(h) ==
  /\ Alternates(h)
  /\ SidesKept(h)
  /\ NoOrphanResult(h)
  /\ AnsweredUpTo(h, Len(h) - 2)
  /\ NonEmptyUpTo(h, Len(h) - 1)

(* A tip that is not empty, or that a heal will fill. *)
TipFillable(h) ==
  h # << >> => \/ NonEmptyUpTo(h, Len(h))
               \/ Len(h) > 1 /\ Tip(h).role = "user" /\ h[Len(h) - 1].uses # {}
(* A history g that rewrites nothing of h: what lies before h's tip is the *)
(* same, and the tip itself has only gained content.                       *)
TipOnlyGrows(m, n) ==
  /\ n.role = m.role
  /\ n.uses = m.uses
  /\ m.results \subseteq n.results
  /\ m.text => n.text

Continues(h, g) ==
  /\ Len(h) <= Len(g)
  /\ \A i \in 1 .. Len(h) - 1 : g[i] = h[i]
  /\ h # << >> => TipOnlyGrows(Tip(h), g[Len(h)])
=============================================================================
