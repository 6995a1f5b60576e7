---------------------------- MODULE HistoryProofs ----------------------------
(***************************************************************************)
(* What the operations of History preserve: pushing on a kept history      *)
(* keeps it, healing makes it acceptable, a reply can be rolled back.      *)
(***************************************************************************)
EXTENDS History, SequenceTheorems, TLAPS

LEMMA MessageType ==
  ASSUME NEW text \in BOOLEAN, NEW ids \in SUBSET ToolId
  PROVE  /\ UserMessage(text, ids) \in Message
         /\ AssistantMessage(text, ids) \in Message
         /\ Synthetic(ids) \in Message
  BY DEF UserMessage, AssistantMessage, Synthetic, Message, Role

LEMMA MergeType ==
  ASSUME NEW m \in Message, NEW n \in Message
  PROVE  /\ Merge(m, n) \in Message
         /\ Merge(m, n).role = m.role
         /\ Merge(m, n).uses = m.uses
         /\ m.text \/ n.text => Merge(m, n).text
         /\ Merge(m, n).results = m.results \cup n.results
         /\ Merge(m, n).healed = m.healed \cup n.healed
  BY DEF Merge, Message

(* Replacing the tip keeps the length and everything before the tip. *)
LEMMA WithTipShape ==
  ASSUME NEW h \in Seq(Message), h # << >>, NEW m \in Message
  PROVE  /\ WithTip(h, m) \in Seq(Message)
         /\ WithTip(h, m) # << >>
         /\ Len(WithTip(h, m)) = Len(h)
         /\ Tip(WithTip(h, m)) = m
         /\ \A i \in 1 .. Len(h) - 1 : WithTip(h, m)[i] = h[i]
  <1>1. Len(h) \in 1 .. Len(h)
    OBVIOUS
  <1>2. /\ WithTip(h, m) \in Seq(Message)
        /\ Len(WithTip(h, m)) = Len(h)
        /\ \A j \in 1 .. Len(h) : WithTip(h, m)[j] = IF j = Len(h) THEN m ELSE h[j]
    BY <1>1, ExceptSeq DEF WithTip
  <1>3. QED
    BY <1>1, <1>2 DEF Tip

(* A second user message in a row is folded into the tip. *)
LEMMA PushMerges ==
  ASSUME NEW h \in Seq(Message), EndsWith(h, "user"),
         NEW m \in Message, m.role = "user"
  PROVE  /\ Push(h, m) \in Seq(Message)
         /\ Push(h, m) # << >>
         /\ Len(Push(h, m)) = Len(h)
         /\ Tip(Push(h, m)) = Merge(Tip(h), m)
         /\ \A i \in 1 .. Len(h) - 1 : Push(h, m)[i] = h[i]
  <1> DEFINE n == Merge(Tip(h), m)
  <1>1. h # << >> /\ n \in Message
    BY MergeType DEF EndsWith, Tip
  <1>2. Push(h, m) = WithTip(h, n)
    BY DEF Push
  <1> HIDE DEF n
  <1>3. /\ WithTip(h, n) \in Seq(Message)
        /\ WithTip(h, n) # << >>
        /\ Len(WithTip(h, n)) = Len(h)
        /\ Tip(WithTip(h, n)) = n
        /\ \A i \in 1 .. Len(h) - 1 : WithTip(h, n)[i] = h[i]
    BY <1>1, WithTipShape
  <1>4. QED
    BY <1>2, <1>3 DEF n

(* Any other push appends. *)
LEMMA PushAppends ==
  ASSUME NEW h \in Seq(Message), NEW m \in Message,
         ~(m.role = "user" /\ EndsWith(h, "user"))
  PROVE  /\ Push(h, m) \in Seq(Message)
         /\ Push(h, m) # << >>
         /\ Len(Push(h, m)) = Len(h) + 1
         /\ Tip(Push(h, m)) = m
         /\ \A i \in 1 .. Len(h) : Push(h, m)[i] = h[i]
  <1>1. Push(h, m) = Append(h, m)
    BY DEF Push
  <1>2. QED
    BY <1>1, AppendProperties DEF Tip

(* Pushing a user message: new words, or answers to the tip's tool_uses. *)
LEMMA PushUserKeeps ==
  ASSUME NEW h \in Seq(Message), WellKept(h), TipFillable(h),
         NEW m \in Message, m.role = "user", m.uses = {},
         IF EndsWith(h, "assistant") THEN m.results \subseteq Tip(h).uses ELSE m.results = {},
         m.text \/ (EndsWith(h, "assistant") /\ Tip(h).uses # {})
  PROVE  LET p == Push(h, m)
         IN  /\ p \in Seq(Message) /\ WellKept(p) /\ EndsWith(p, "user") /\ TipFillable(p)
             /\ Continues(h, p)
             /\ m.healed = {} =>
                  Tip(p).healed = IF EndsWith(h, "user") THEN Tip(h).healed ELSE {}
             /\ Tip(p).results = IF EndsWith(h, "user") THEN Tip(h).results ELSE m.results
  <1> DEFINE p == Push(h, m)
  <1>0. m \in Message /\ m.role = "user" /\ m.uses = {}
    OBVIOUS
  <1>1. \A i \in 1 .. Len(h) : h[i] \in Message
    OBVIOUS
  <1>2. CASE EndsWith(h, "user")
    <2> DEFINE n == Merge(Tip(h), m)
    <2>1. h # << >> /\ Tip(h) = h[Len(h)] /\ Len(h) \in Nat \ {0} /\ h[Len(h)].role = "user"
      BY <1>2 DEF EndsWith, Tip
    <2>2. m.results = {} /\ m.text
      BY <1>0, <1>2 DEF EndsWith
    <2>3. /\ p \in Seq(Message) /\ p # << >>
          /\ Len(p) = Len(h)
          /\ p[Len(h)] = n
          /\ \A i \in 1 .. Len(h) - 1 : p[i] = h[i]
      BY <1>0, <1>2, PushMerges DEF Tip
    <2>4. /\ n.role = "user" /\ n.uses = h[Len(h)].uses
          /\ n.results = h[Len(h)].results /\ n.text
          /\ m.healed = {} => n.healed = h[Len(h)].healed
      <3>1. Tip(h) \in Message
        BY <1>1, <2>1
      <3>2. /\ n.role = Tip(h).role
            /\ n.uses = Tip(h).uses
            /\ Tip(h).text \/ m.text => n.text
            /\ n.results = Tip(h).results \cup m.results
            /\ n.healed = Tip(h).healed \cup m.healed
        BY <1>0, <3>1, MergeType
      <3>3. QED
        BY <1>0, <2>1, <2>2, <3>2
    <2> HIDE DEF n, p
    <2>5. Alternates(p)
      <3>1. ASSUME NEW i \in 1 .. Len(p) - 1
            PROVE  p[i].role # p[i + 1].role
        <4>1. h[i].role # h[i + 1].role
          BY <2>1, <2>3 DEF WellKept, Alternates
        <4>2. p[i] = h[i] /\ p[i + 1].role = h[i + 1].role
          BY <2>1, <2>3, <2>4
        <4>3. QED
          BY <4>1, <4>2
      <3>2. p[1].role = "user"
        BY <2>1, <2>3, <2>4 DEF WellKept, Alternates
      <3>3. QED
        BY <3>1, <3>2 DEF Alternates
    <2>6. SidesKept(p)
      BY <2>1, <2>3, <2>4 DEF WellKept, SidesKept
    <2>7. NoOrphanResult(p)
      BY <2>1, <2>3, <2>4 DEF WellKept, NoOrphanResult
    <2>8. AnsweredUpTo(p, Len(p) - 2)
      BY <2>1, <2>3, <2>4 DEF WellKept, AnsweredUpTo
    <2>9. NonEmptyUpTo(p, Len(p))
      BY <2>1, <2>3, <2>4 DEF WellKept, NonEmptyUpTo
    <2>10. NonEmptyUpTo(p, Len(p) - 1)
      BY <2>1, <2>3, <2>9 DEF NonEmptyUpTo
    <2>11. p \in Seq(Message) /\ WellKept(p) /\ EndsWith(p, "user") /\ TipFillable(p)
      BY <2>3, <2>4, <2>5, <2>6, <2>7, <2>8, <2>9, <2>10 DEF WellKept, EndsWith, Tip, TipFillable
    <2>12. Continues(h, p)
      BY <2>1, <2>3, <2>4 DEF Continues, TipOnlyGrows
    <2>13. /\ m.healed = {} => Tip(p).healed = Tip(h).healed
           /\ Tip(p).results = Tip(h).results
      BY <2>1, <2>3, <2>4 DEF Tip
    <2>14. QED
      BY <1>2, <2>11, <2>12, <2>13 DEF p
  <1>3. CASE ~EndsWith(h, "user")
    <2>1. /\ p \in Seq(Message) /\ p # << >>
          /\ Len(p) = Len(h) + 1
          /\ p[Len(h) + 1] = m
          /\ \A i \in 1 .. Len(h) : p[i] = h[i]
      BY <1>0, <1>3, PushAppends DEF Tip
    <2>2. Len(h) \in Nat
      OBVIOUS
    <2>3. h # << >> => /\ Len(h) > 0 /\ Tip(h) = h[Len(h)]
                       /\ EndsWith(h, "assistant") /\ h[Len(h)].role = "assistant"
                       /\ m.results \subseteq h[Len(h)].uses
                       /\ NonEmptyUpTo(h, Len(h))
      BY <1>1, <1>3 DEF EndsWith, Tip, Message, Role, TipFillable
    <2>4. h = << >> => m.results = {} /\ m.text /\ Len(h) = 0
      BY DEF EndsWith
    <2> HIDE DEF p
    <2>5. Alternates(p)
      BY <1>0, <2>1, <2>2, <2>3, <2>4 DEF WellKept, Alternates
    <2>6. SidesKept(p)
      BY <1>0, <2>1, <2>2 DEF WellKept, SidesKept
    <2>7. NoOrphanResult(p)
      BY <1>0, <2>1, <2>2, <2>3, <2>4 DEF WellKept, NoOrphanResult
    <2>8. AnsweredUpTo(p, Len(p) - 2)
      <3> SUFFICES ASSUME NEW i \in 1 .. Len(h) - 1
                   PROVE  h[i].uses \subseteq h[i + 1].results
        BY <2>1, <2>2 DEF AnsweredUpTo
      <3>1. CASE i <= Len(h) - 2
        BY <2>2, <3>1 DEF WellKept, AnsweredUpTo
      <3>2. CASE i = Len(h) - 1
        <4>1. h[Len(h)].role = "assistant" /\ h[i].role # h[i + 1].role /\ i + 1 = Len(h)
          BY <2>2, <2>3, <3>2 DEF WellKept, Alternates
        <4>2. h[i].role = "user"
          BY <1>1, <2>2, <4>1 DEF Message, Role
        <4>3. QED
          BY <2>2, <4>2 DEF WellKept, SidesKept
      <3>3. QED
        BY <2>2, <3>1, <3>2
    <2>9. NonEmptyUpTo(p, Len(p) - 1)
      BY <2>1, <2>2, <2>3, <2>4 DEF NonEmptyUpTo
    <2>10. TipFillable(p)
      <3>1. CASE m.text
        <4>1. p[Len(p)].text
          BY <1>0, <2>1, <3>1
        <4>2. NonEmptyUpTo(p, Len(p))
          BY <2>1, <2>2, <2>9, <4>1 DEF NonEmptyUpTo
        <4>3. QED
          BY <4>2 DEF TipFillable
      <3>2. CASE ~m.text
        BY <1>0, <2>1, <2>2, <2>3, <3>2 DEF TipFillable, Tip, EndsWith
      <3>3. QED
        BY <3>1, <3>2
    <2>11. p \in Seq(Message) /\ WellKept(p) /\ EndsWith(p, "user") /\ TipFillable(p)
      BY <1>0, <2>1, <2>5, <2>6, <2>7, <2>8, <2>9, <2>10 DEF WellKept, EndsWith, Tip
    <2>12. Continues(h, p)
      <3>1. Len(h) <= Len(p) /\ \A i \in 1 .. Len(h) - 1 : p[i] = h[i]
        BY <2>1, <2>2
      <3>2. h # << >> => p[Len(h)] = Tip(h)
        BY <2>1, <2>2, <2>3
      <3>3. QED
        BY <3>1, <3>2 DEF Continues, TipOnlyGrows
    <2>13. /\ m.healed = {} => Tip(p).healed = {}
           /\ Tip(p).results = m.results
      BY <1>0, <2>1 DEF Tip
    <2>14. QED
      BY <1>3, <2>11, <2>12, <2>13 DEF p
  <1>4. QED
    BY <1>2, <1>3

(* Which message a heal looks at when the tip is a user message. *)
LEMMA UnansweredOfUserTip ==
  ASSUME NEW h \in Seq(Message), WellKept(h), EndsWith(h, "user")
  PROVE  /\ Len(h) = 1 => Unanswered(h) = {}
         /\ Len(h) > 1 => /\ h[Len(h) - 1].role = "assistant"
                          /\ Unanswered(h) = h[Len(h) - 1].uses \ Tip(h).results
  <1>1. Len(h) \in Nat \ {0} /\ Tip(h) = h[Len(h)] /\ h[Len(h)].role = "user"
    BY DEF EndsWith, Tip
  <1>2. ~EndsWith(h, "assistant")
    BY <1>1 DEF EndsWith
  <1>3. CASE Len(h) = 1
    BY <1>1, <1>2, <1>3 DEF HealAnchor, Unanswered
  <1>4. CASE Len(h) > 1
    <2>1. h[Len(h) - 1] \in Message /\ h[Len(h) - 1].role # h[Len(h)].role
      <3>1. Len(h) - 1 \in 1 .. Len(h) - 1
        BY <1>1, <1>4
      <3>2. h[Len(h) - 1].role # h[(Len(h) - 1) + 1].role
        BY <3>1 DEF WellKept, Alternates
      <3>3. QED
        BY <1>1, <3>1, <3>2
    <2>2. h[Len(h) - 1].role = "assistant"
      BY <1>1, <2>1 DEF Message, Role
    <2>3. HealAnchor(h) = Len(h) - 1
      BY <1>2, <1>4, <2>2 DEF HealAnchor
    <2>4. Unanswered(h) = h[Len(h) - 1].uses \ Tip(h).results
      BY <1>1, <1>4, <2>3 DEF Unanswered
    <2>5. QED
      BY <1>1, <1>4, <2>2, <2>4
  <1>5. QED
    BY <1>1, <1>3, <1>4

(* A heal leaves a history the API accepts, and touches only the tip. *)
LEMMA HealMakesRequestOK ==
  ASSUME NEW h \in Seq(Message), WellKept(h), EndsWith(h, "user"), TipFillable(h)
  PROVE  LET g == HealDanglingToolUse(h)
         IN  /\ g \in Seq(Message) /\ RequestOK(g) /\ WellKept(g) /\ TipFillable(g)
             /\ Continues(h, g)
             /\ Tip(h).results \subseteq Tip(g).results
             /\ Tip(g).healed \subseteq Tip(h).healed \cup (ToolId \ Tip(h).results)
  <1> DEFINE missing == Unanswered(h)
             g == HealDanglingToolUse(h)
  <1>1. /\ h # << >> /\ Len(h) \in Nat \ {0}
        /\ Len(h) = 1 \/ Len(h) > 1
        /\ Tip(h) = h[Len(h)] /\ h[Len(h)].role = "user"
        /\ Tip(h) \in Message
    <2>1. h # << >> /\ Len(h) \in Nat /\ Len(h) # 0
      BY DEF EndsWith
    <2>2. Len(h) = 1 \/ Len(h) > 1
      <3>1. \A n \in Nat : n # 0 => n = 1 \/ n > 1
        OBVIOUS
      <3>2. QED
        BY <2>1, <3>1
    <2>3. QED
      BY <2>1, <2>2 DEF EndsWith, Tip
  <1>2. /\ Len(h) = 1 => missing = {}
        /\ Len(h) > 1 => missing = h[Len(h) - 1].uses \ Tip(h).results
    BY UnansweredOfUserTip
  <1>3. missing \in SUBSET ToolId
    <2>1. CASE Len(h) > 1
      <3>1. h[Len(h) - 1] \in Message
        BY <1>1, <2>1
      <3>2. QED
        BY <1>2, <2>1, <3>1 DEF Message
    <2>2. CASE Len(h) = 1
      BY <1>2, <2>2
    <2>3. QED
      BY <1>1, <2>1, <2>2
  <1> DEFINE m == Synthetic(missing)
             n == Merge(Tip(h), m)
  <1>4. /\ m \in Message /\ m.role = "user" /\ m.results = missing /\ m.healed = missing
    BY <1>3, MessageType DEF Synthetic, UserMessage
  <1> HIDE DEF missing, m
  (* Both cases give a tip with the same fields and nothing else changed. *)
  <1>5. /\ g \in Seq(Message) /\ g # << >> /\ Len(g) = Len(h)
        /\ \A i \in 1 .. Len(h) - 1 : g[i] = h[i]
        /\ g[Len(h)].role = "user"
        /\ g[Len(h)].uses = h[Len(h)].uses
        /\ h[Len(h)].text => g[Len(h)].text
        /\ g[Len(h)].results = h[Len(h)].results \cup missing
        /\ g[Len(h)].healed = h[Len(h)].healed \cup missing
    <2>1. CASE missing = {}
      <3>1. g = h
        BY <2>1 DEF HealDanglingToolUse, missing
      <3>2. QED
        BY <1>1, <2>1, <3>1
    <2>2. CASE missing # {}
      <3>1. g = Push(h, m)
        BY <2>2 DEF HealDanglingToolUse, missing, m
      <3>2. /\ g \in Seq(Message) /\ g # << >> /\ Len(g) = Len(h)
            /\ Tip(g) = n
            /\ \A i \in 1 .. Len(h) - 1 : g[i] = h[i]
        BY <1>4, <3>1, PushMerges
      <3>3. /\ n.role = Tip(h).role /\ n.uses = Tip(h).uses
            /\ Tip(h).text \/ m.text => n.text
            /\ n.results = Tip(h).results \cup m.results
            /\ n.healed = Tip(h).healed \cup m.healed
        BY <1>1, <1>4, MergeType
      <3> HIDE DEF n, g
      <3>4. QED
        BY <1>1, <1>4, <3>2, <3>3 DEF Tip
    <2>3. QED
      BY <2>1, <2>2
  <1> HIDE DEF g
  <1>6. Alternates(g)
    <2>1. ASSUME NEW i \in 1 .. Len(g) - 1
          PROVE  g[i].role # g[i + 1].role
      <3>1. h[i].role # h[i + 1].role
        BY <1>1, <1>5 DEF WellKept, Alternates
      <3>2. g[i] = h[i] /\ g[i + 1].role = h[i + 1].role
        BY <1>1, <1>5
      <3>3. QED
        BY <3>1, <3>2
    <2>2. g[1].role = "user"
      BY <1>1, <1>5 DEF WellKept, Alternates
    <2>3. QED
      BY <2>1, <2>2 DEF Alternates
  <1>7. SidesKept(g)
    BY <1>1, <1>5 DEF WellKept, SidesKept
  <1>8. NoOrphanResult(g)
    <2>1. CASE Len(h) = 1
      BY <1>1, <1>2, <1>5, <2>1 DEF WellKept, NoOrphanResult
    <2>2. CASE Len(h) > 1
      <3>1. g[1].results = {}
        BY <1>1, <1>5, <2>2 DEF WellKept, NoOrphanResult
      <3>2. ASSUME NEW i \in 1 .. Len(g) - 1
            PROVE  g[i + 1].results \subseteq g[i].uses
        <4>1. h[i + 1].results \subseteq h[i].uses /\ g[i] = h[i]
          BY <1>1, <1>5 DEF WellKept, NoOrphanResult
        <4>2. CASE i = Len(h) - 1
          BY <1>1, <1>2, <1>5, <2>2, <4>1, <4>2
        <4>3. CASE i < Len(h) - 1
          BY <1>1, <1>5, <4>1, <4>3
        <4>4. QED
          BY <1>1, <1>5, <4>2, <4>3
      <3>3. QED
        BY <3>1, <3>2 DEF NoOrphanResult
    <2>3. QED
      BY <1>1, <2>1, <2>2
  <1>9. AnsweredUpTo(g, Len(g) - 1)
    <2> SUFFICES ASSUME NEW i \in 1 .. Len(h) - 1
                 PROVE  g[i].uses \subseteq g[i + 1].results
      BY <1>5 DEF AnsweredUpTo
    <2>1. CASE i < Len(h) - 1
      <3>1. h[i].uses \subseteq h[i + 1].results
        BY <1>1, <2>1 DEF WellKept, AnsweredUpTo
      <3>2. QED
        BY <1>1, <1>5, <2>1, <3>1
    <2>2. CASE i = Len(h) - 1
      BY <1>1, <1>2, <1>5, <2>2
    <2>3. QED
      BY <1>1, <2>1, <2>2
  <1>10. NonEmptyUpTo(g, Len(g))
    <2>1. NonEmptyUpTo(g, Len(g) - 1)
      BY <1>1, <1>5 DEF WellKept, NonEmptyUpTo
    <2>2. g[Len(h)].text \/ g[Len(h)].results # {}
      <3>1. CASE NonEmptyUpTo(h, Len(h))
        <4>1. h[Len(h)].text \/ h[Len(h)].uses # {} \/ h[Len(h)].results # {}
          BY <1>1, <3>1 DEF NonEmptyUpTo
        <4>2. h[Len(h)].uses = {}
          BY <1>1 DEF WellKept, SidesKept
        <4>3. QED
          BY <1>5, <4>1, <4>2
      <3>2. CASE Len(h) > 1 /\ h[Len(h) - 1].uses # {}
        BY <1>1, <1>2, <1>5, <3>2
      <3>3. QED
        BY <1>1, <3>1, <3>2 DEF TipFillable
    <2>3. QED
      BY <1>1, <1>5, <2>1, <2>2 DEF NonEmptyUpTo
  <1>11. RequestOK(g)
    BY <1>5, <1>6, <1>8, <1>9, <1>10 DEF RequestOK, EndsWith, Tip
  <1>12. WellKept(g) /\ TipFillable(g)
    <2>1. AnsweredUpTo(g, Len(g) - 2)
      BY <1>1, <1>5, <1>9 DEF AnsweredUpTo
    <2>2. NonEmptyUpTo(g, Len(g) - 1)
      BY <1>1, <1>5, <1>10 DEF NonEmptyUpTo
    <2>3. QED
      BY <1>6, <1>7, <1>8, <1>10, <2>1, <2>2 DEF WellKept, TipFillable
  <1>13. Continues(h, g)
    BY <1>1, <1>5 DEF Continues, TipOnlyGrows
  <1>14. /\ Tip(h).results \subseteq Tip(g).results
         /\ Tip(g).healed = Tip(h).healed \cup missing
    BY <1>1, <1>5 DEF Tip
  <1>15. missing \subseteq ToolId \ Tip(h).results
    BY <1>1, <1>2, <1>3
  <1>16. QED
    BY <1>5, <1>11, <1>12, <1>13, <1>14, <1>15 DEF g

(* Continuing is transitive and reflexive. *)
LEMMA ContinuesTransitive ==
  ASSUME NEW f \in Seq(Message), NEW h \in Seq(Message), NEW g \in Seq(Message),
         Continues(f, h), Continues(h, g)
  PROVE  Continues(f, g)
  <1>1. Len(f) \in Nat /\ Len(h) \in Nat /\ Len(g) \in Nat /\ Len(f) <= Len(h) /\ Len(h) <= Len(g)
    BY DEF Continues
  <1>2. \A i \in 1 .. Len(f) - 1 : g[i] = f[i]
    BY <1>1 DEF Continues
  <1>3. ASSUME f # << >> PROVE TipOnlyGrows(Tip(f), g[Len(f)])
    <2>1. Len(f) >= 1 /\ TipOnlyGrows(Tip(f), h[Len(f)])
      BY <1>1, <1>3 DEF Continues
    <2>2. CASE Len(f) < Len(h)
      BY <1>1, <2>1, <2>2 DEF Continues
    <2>3. CASE Len(f) = Len(h)
      <3>1. TipOnlyGrows(h[Len(f)], g[Len(f)])
        BY <1>1, <2>1, <2>3 DEF Continues, Tip
      <3>2. QED
        BY <2>1, <3>1 DEF TipOnlyGrows
    <2>4. QED
      BY <1>1, <2>2, <2>3
  <1>4. QED
    BY <1>1, <1>2, <1>3 DEF Continues

LEMMA ContinuesReflexive ==
  ASSUME NEW h \in Seq(Message)
  PROVE  Continues(h, h)
  BY DEF Continues, TipOnlyGrows, Tip

(* A reply after an accepted request is appended. *)
LEMMA PushReplyKeeps ==
  ASSUME NEW h \in Seq(Message), WellKept(h), RequestOK(h),
         NEW text \in BOOLEAN, NEW uses \in SUBSET ToolId, text \/ uses # {}
  PROVE  LET p == Push(h, AssistantMessage(text, uses))
         IN  /\ p = Append(h, AssistantMessage(text, uses))
             /\ p \in Seq(Message) /\ WellKept(p) /\ TipFillable(p)
             /\ EndsWith(p, "assistant") /\ Tip(p).uses = uses
             /\ Continues(h, p)
  <1> DEFINE m == AssistantMessage(text, uses)
             p == Push(h, m)
  <1>0. /\ m \in Message /\ m.role = "assistant" /\ m.results = {} /\ m.uses = uses
        /\ text => m.text
    BY MessageType DEF AssistantMessage
  <1>1. /\ h # << >> /\ Len(h) \in Nat \ {0} /\ h[Len(h)].role = "user"
    BY DEF RequestOK, EndsWith, Tip
  <1> HIDE DEF m
  <1>2. p = Append(h, m)
    BY <1>0 DEF Push
  <1>3. /\ p \in Seq(Message) /\ p # << >>
        /\ Len(p) = Len(h) + 1
        /\ p[Len(h) + 1] = m
        /\ \A i \in 1 .. Len(h) : p[i] = h[i]
    BY <1>0, PushAppends DEF Tip
  <1> HIDE DEF p
  <1>4. Alternates(p)
    <2>1. ASSUME NEW i \in 1 .. Len(p) - 1
          PROVE  p[i].role # p[i + 1].role
      <3>1. CASE i = Len(h)
        BY <1>0, <1>1, <1>3, <3>1
      <3>2. CASE i < Len(h)
        BY <1>1, <1>3, <3>2 DEF WellKept, Alternates
      <3>3. QED
        BY <1>1, <1>3, <3>1, <3>2
    <2>2. p[1].role = "user"
      BY <1>1, <1>3 DEF WellKept, Alternates
    <2>3. QED
      BY <2>1, <2>2 DEF Alternates
  <1>5. SidesKept(p)
    BY <1>0, <1>1, <1>3 DEF WellKept, SidesKept
  <1>6. NoOrphanResult(p)
    <2>1. ASSUME NEW i \in 1 .. Len(p) - 1
          PROVE  p[i + 1].results \subseteq p[i].uses
      <3>1. CASE i = Len(h)
        BY <1>0, <1>1, <1>3, <3>1
      <3>2. CASE i < Len(h)
        BY <1>1, <1>3, <3>2 DEF WellKept, NoOrphanResult
      <3>3. QED
        BY <1>1, <1>3, <3>1, <3>2
    <2>2. p[1].results = {}
      BY <1>1, <1>3 DEF WellKept, NoOrphanResult
    <2>3. QED
      BY <2>1, <2>2 DEF NoOrphanResult
  <1>7. AnsweredUpTo(p, Len(p) - 2)
    BY <1>1, <1>3 DEF RequestOK, AnsweredUpTo
  <1>8. NonEmptyUpTo(p, Len(p) - 1)
    BY <1>1, <1>3 DEF RequestOK, NonEmptyUpTo
  <1>9. NonEmptyUpTo(p, Len(p))
    BY <1>0, <1>1, <1>3, <1>8 DEF NonEmptyUpTo
  <1>10. /\ p = Append(h, m)
         /\ p \in Seq(Message) /\ WellKept(p) /\ TipFillable(p)
         /\ EndsWith(p, "assistant") /\ Tip(p).uses = uses
    BY <1>0, <1>2, <1>3, <1>4, <1>5, <1>6, <1>7, <1>8, <1>9 DEF WellKept, TipFillable, EndsWith, Tip
  <1>11. Continues(h, p)
    BY <1>1, <1>3 DEF Continues, TipOnlyGrows, Tip
  <1>12. QED
    BY <1>10, <1>11 DEF p, m

(* Rolling a reply back restores the history it was appended to. *)
LEMMA RemoveLastUndoesAppend ==
  ASSUME NEW h \in Seq(Message), NEW m \in Message
  PROVE  RemoveLast(Append(h, m)) = h
  <1> DEFINE a == Append(h, m)
             r == SubSeq(a, 1, Len(h))
  <1>1. a \in Seq(Message) /\ a # << >> /\ Len(a) = Len(h) + 1 /\ \A i \in 1 .. Len(h) : a[i] = h[i]
    BY AppendProperties
  <1>2. RemoveLast(a) = r
    BY <1>1 DEF RemoveLast
  <1>3. r \in Seq(Message) /\ Len(r) = Len(h) /\ \A i \in 1 .. Len(h) : r[i] = a[i]
    BY <1>1, SubSeqProperties
  <1>4. r = h
    BY <1>1, <1>3, SeqEqual
  <1>5. QED
    BY <1>2, <1>4

(* Whatever the tip, a heal keeps a kept history: a tip that asks gets an  *)
(* answer of its own, and the past stays.                                  *)
LEMMA HealKeeps ==
  ASSUME NEW h \in Seq(Message), WellKept(h), TipFillable(h)
  PROVE  LET g == HealDanglingToolUse(h)
         IN  g \in Seq(Message) /\ WellKept(g) /\ TipFillable(g)
  <1> DEFINE ids == Unanswered(h)
             m == Synthetic(ids)
             g == HealDanglingToolUse(h)
  <1>1. CASE EndsWith(h, "user")
    BY <1>1, HealMakesRequestOK
  <1>2. CASE EndsWith(h, "assistant") /\ ids # {}
    <2>1. h # << >> /\ Len(h) \in Nat \ {0} /\ Tip(h) = h[Len(h)] /\ Tip(h) \in Message
      BY <1>2 DEF EndsWith, Tip
    <2>2. ids = Tip(h).uses
      <3>1. ~EndsWith(h, "user")
        BY <1>2 DEF EndsWith
      <3>2. HealAnchor(h) = Len(h)
        BY <1>2, <3>1 DEF HealAnchor
      <3>3. QED
        BY <2>1, <3>2 DEF Unanswered
    <2>3. ids \in SUBSET ToolId
      BY <2>1, <2>2 DEF Message
    <2> HIDE DEF ids
    <2>4. m \in Message /\ m.role = "user" /\ m.uses = {} /\ m.results = ids
      BY <2>3, MessageType DEF Synthetic, UserMessage
    <2>5. g = Push(h, m)
      BY <1>2 DEF HealDanglingToolUse, ids
    <2> HIDE DEF m
    <2>6. LET p == Push(h, m) IN p \in Seq(Message) /\ WellKept(p) /\ TipFillable(p)
      BY <1>2, <2>2, <2>4, PushUserKeeps
    <2>7. QED
      BY <2>5, <2>6
  <1>3. CASE ~EndsWith(h, "user") /\ ~(EndsWith(h, "assistant") /\ ids # {})
    <2>1. ids = {}
      BY <1>3 DEF Unanswered, HealAnchor
    <2>2. QED
      BY <2>1 DEF HealDanglingToolUse
  <1>4. QED
    BY <1>1, <1>2, <1>3

(* A history that is accepted as it is owes nothing. *)
LEMMA AcceptedOwesNothing ==
  ASSUME NEW h \in Seq(Message), RequestOK(h)
  PROVE  Unanswered(h) = {} /\ HealDanglingToolUse(h) = h
  <1>1. h # << >> /\ Len(h) \in Nat \ {0} /\ Tip(h) = h[Len(h)] /\ ~EndsWith(h, "assistant")
    BY DEF RequestOK, EndsWith, Tip
  <1>2. Unanswered(h) = {}
    BY <1>1 DEF RequestOK, Unanswered, HealAnchor, AnsweredUpTo
  <1>3. QED
    BY <1>2 DEF HealDanglingToolUse
=============================================================================
