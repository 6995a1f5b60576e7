-------------------------- MODULE QueryRunnerProofs --------------------------
(***************************************************************************)
(* The safety properties of QueryRunner for every set of tool_use ids,     *)
(* every choice of hanging tools and every bound.  IndInv is the inductive *)
(* invariant; one lemma per action shows that the action preserves it, and *)
(* that it leaves the past of the history alone.                           *)
(***************************************************************************)
EXTENDS QueryRunner, HistoryProofs

-----------------------------------------------------------------------------
(* The actions of the turn loop. *)

LEMMA InitIndInv == Init => IndInv
  <1> SUFFICES ASSUME Init PROVE IndInv
    OBVIOUS
  <1> USE DEF Init
  <1>1. TypeOK
    <2>1. hist \in Seq(Message)
      BY EmptySeq
    <2>2. tool \in [ToolId -> ToolStatus]
      BY DEF NoTools, ToolStatus
    <2>3. 0 \in 0 .. MaxEmptyRetries
      BY ParametersAssumption
    <2>4. QED
      BY <2>1, <2>2, <2>3 DEF TypeOK, Phase
  <1>2. HistoryInv
    BY DEF HistoryInv, WellKept, TipFillable, Alternates, SidesKept, NoOrphanResult,
           AnsweredUpTo, NonEmptyUpTo, InBatch
  <1>3. BatchInv
    BY DEF BatchInv, InBatch
  <1>4. CoordinatorInv
    BY DEF CoordinatorInv, CancelDrainsApprovals, SecondCancelEscalates, ControllerScopedToBatch
  <1>5. ReportInv
    BY DEF ReportInv, RunsAreReported, EndsWith
  <1>6. QED
    BY <1>1, <1>2, <1>3, <1>4, <1>5 DEF IndInv

(* What IndInv says of the history wherever run() is suspended. *)
LEMMA HistoryFacts ==
  ASSUME IndInv
  PROVE  /\ hist \in Seq(Message) /\ WellKept(hist) /\ TipFillable(hist)
         /\ ran \in SUBSET ToolId
         /\ EndsWith(hist, "user") => ran \subseteq Tip(hist).results /\ Tip(hist).healed \cap ran = {}
  BY DEF IndInv, TypeOK, HistoryInv, ReportInv, RunsAreReported

(* A step that ends outside a batch with everything of the batch cleared.  *)
LEMMA OutsideBatch ==
  ASSUME phase' \in {"idle", "streaming"}, tool' = NoTools, registered' = FALSE
  PROVE  BatchInv' /\ CoordinatorInv'
  <1>1. ~InBatch' /\ phase' # "tools" /\ phase' # "closing"
    BY DEF InBatch
  <1>2. BatchInv'
    BY <1>1 DEF BatchInv
  <1>3. CancelDrainsApprovals'
    BY DEF CancelDrainsApprovals, In, NoTools
  <1>4. CoordinatorInv'
    BY <1>1, <1>3 DEF CoordinatorInv, SecondCancelEscalates, ControllerScopedToBatch
  <1>5. QED
    BY <1>2, <1>4

(* The head of the loop, for a history that is ready to be sent and in     *)
(* which the results of the runs R are recorded.                           *)
LEMMA NextTurnKeeps ==
  ASSUME NEW h \in Seq(Message), WellKept(h), EndsWith(h, "user"), TipFillable(h),
         NEW R \in SUBSET ToolId, R \subseteq Tip(h).results, Tip(h).healed \cap R = {},
         NextTurn(h)
  PROVE  /\ hist' \in Seq(Message) /\ WellKept(hist') /\ TipFillable(hist')
         /\ EndsWith(hist', "user") /\ Continues(h, hist')
         /\ phase' \in {"idle", "streaming"}
         /\ phase' = "streaming" => RequestOK(hist')
         /\ R \subseteq Tip(hist').results /\ Tip(hist').healed \cap R = {}
  <1>1. CASE cancelled
    <2>1. hist' = h /\ phase' = "idle"
      BY <1>1 DEF NextTurn
    <2>2. Continues(h, h)
      BY ContinuesReflexive
    <2>3. QED
      BY <2>1, <2>2
  <1>2. CASE ~cancelled
    <2> DEFINE g == HealDanglingToolUse(h)
    <2>1. hist' = g /\ phase' = "streaming"
      BY <1>2 DEF NextTurn
    <2>2. /\ g \in Seq(Message) /\ RequestOK(g) /\ WellKept(g) /\ TipFillable(g)
          /\ Continues(h, g)
          /\ Tip(h).results \subseteq Tip(g).results
          /\ Tip(g).healed \subseteq Tip(h).healed \cup (ToolId \ Tip(h).results)
      BY HealMakesRequestOK
    <2> HIDE DEF g
    <2>3. EndsWith(g, "user")
      BY <2>2 DEF RequestOK
    <2>4. R \subseteq Tip(g).results /\ Tip(g).healed \cap R = {}
      BY <2>2
    <2>5. QED
      BY <2>1, <2>2, <2>3, <2>4
  <1>3. QED
    BY <1>1, <1>2

(* A step that ends outside a batch on a user tip keeps the invariant.     *)
LEMMA OnUserTip ==
  ASSUME hist' \in Seq(Message), WellKept(hist'), TipFillable(hist'), EndsWith(hist', "user"),
         phase' \in {"idle", "streaming"}, phase' = "streaming" => RequestOK(hist'),
         ran' \in SUBSET ToolId, ran' \subseteq Tip(hist').results, Tip(hist').healed \cap ran' = {},
         emptyRetries' \in 0 .. MaxEmptyRetries,
         tool' = NoTools, cancelled' \in BOOLEAN, registered' = FALSE,
         toolCancelled' \in BOOLEAN, signal' \in BOOLEAN
  PROVE  IndInv'
  <1>1. TypeOK'
    BY DEF TypeOK, Phase, NoTools, ToolStatus
  <1>2. HistoryInv'
    BY DEF HistoryInv, InBatch
  <1>3. BatchInv' /\ CoordinatorInv'
    BY OutsideBatch
  <1>4. ReportInv'
    BY DEF ReportInv, RunsAreReported, EndsWith
  <1>5. QED
    BY <1>1, <1>2, <1>3, <1>4 DEF IndInv

(* The history a query starts from. *)
LEMMA OpenedKeeps ==
  ASSUME IndInv, NEW resume \in BOOLEAN, resume => EndsWith(hist, "user")
  PROVE  LET p == Opened(resume)
         IN  /\ p \in Seq(Message) /\ WellKept(p) /\ EndsWith(p, "user") /\ TipFillable(p)
             /\ Continues(hist, p)
             /\ Tip(p).healed = IF EndsWith(hist, "user") THEN Tip(hist).healed ELSE {}
             /\ Tip(p).results = IF EndsWith(hist, "user") THEN Tip(hist).results ELSE {}
  <1>1. hist \in Seq(Message) /\ WellKept(hist) /\ TipFillable(hist)
    BY HistoryFacts
  <1>2. CASE resume
    <2>1. Opened(resume) = hist /\ EndsWith(hist, "user")
      BY <1>2 DEF Opened
    <2>2. Continues(hist, hist)
      BY <1>1, ContinuesReflexive
    <2>3. QED
      BY <1>1, <2>1, <2>2
  <1>3. CASE ~resume
    <2> DEFINE m == UserMessage(TRUE, {})
               p == Push(hist, m)
    <2>1. m \in Message /\ m.role = "user" /\ m.uses = {} /\ m.healed = {} /\ m.results = {} /\ m.text
      BY DEF UserMessage, Message, Role
    <2>2. Opened(resume) = p
      BY <1>3 DEF Opened
    <2> HIDE DEF m
    <2>3. /\ p \in Seq(Message) /\ WellKept(p) /\ EndsWith(p, "user") /\ TipFillable(p)
          /\ Continues(hist, p)
          /\ Tip(p).healed = IF EndsWith(hist, "user") THEN Tip(hist).healed ELSE {}
          /\ Tip(p).results = IF EndsWith(hist, "user") THEN Tip(hist).results ELSE {}
      BY <1>1, <2>1, PushUserKeeps
    <2> HIDE DEF p
    <2>4. QED
      BY <2>2, <2>3
  <1>4. QED
    BY <1>2, <1>3

LEMMA StartKeeps ==
  ASSUME NEW resume \in BOOLEAN, IndInv, Start(resume)
  PROVE  IndInv' /\ Continues(hist, hist')
  <1> DEFINE p == Opened(resume)
             g == HealDanglingToolUse(p)
  <1>1. /\ hist \in Seq(Message) /\ WellKept(hist) /\ TipFillable(hist)
        /\ ran \in SUBSET ToolId
        /\ IF EndsWith(hist, "user")
           THEN ran \subseteq Tip(hist).results /\ Tip(hist).healed \cap ran = {}
           ELSE ran = {}
    BY HistoryFacts DEF IndInv, ReportInv, InBatch, Start
  <1>5. hist' = g /\ phase' = "streaming"
    BY DEF Start
  <1>2. /\ p \in Seq(Message) /\ WellKept(p) /\ EndsWith(p, "user") /\ TipFillable(p)
        /\ Continues(hist, p)
        /\ Tip(p).healed = IF EndsWith(hist, "user") THEN Tip(hist).healed ELSE {}
        /\ Tip(p).results = IF EndsWith(hist, "user") THEN Tip(hist).results ELSE {}
    BY OpenedKeeps DEF Start
  <1> HIDE DEF p
  <1>3. ran \subseteq Tip(p).results /\ Tip(p).healed \cap ran = {}
    BY <1>1, <1>2
  <1>4. /\ g \in Seq(Message) /\ RequestOK(g) /\ WellKept(g) /\ TipFillable(g)
        /\ Continues(p, g)
        /\ Tip(p).results \subseteq Tip(g).results
        /\ Tip(g).healed \subseteq Tip(p).healed \cup (ToolId \ Tip(p).results)
    BY <1>2, HealMakesRequestOK
  <1> HIDE DEF g
  <1>6. /\ EndsWith(hist', "user")
        /\ ran' = ran /\ ran' \subseteq Tip(hist').results /\ Tip(hist').healed \cap ran' = {}
    BY <1>3, <1>4, <1>5 DEF RequestOK, Start
  <1>7. /\ emptyRetries' \in 0 .. MaxEmptyRetries /\ tool' = NoTools
        /\ cancelled' \in BOOLEAN /\ registered' = FALSE /\ toolCancelled' \in BOOLEAN
        /\ signal' \in BOOLEAN
    <2>1. emptyRetries' \in 0 .. MaxEmptyRetries
      BY ParametersAssumption DEF Start
    <2>2. tool' = NoTools
      BY DEF Start, IndInv, BatchInv, InBatch
    <2>3. cancelled' \in BOOLEAN /\ registered' = FALSE /\ toolCancelled' \in BOOLEAN
      BY Zenon DEF Start
    <2>4. signal' \in BOOLEAN
      BY DEF Start, IndInv, TypeOK
    <2>5. QED
      BY <2>1, <2>2, <2>3, <2>4
  <1>8. IndInv'
    BY <1>1, <1>4, <1>5, <1>6, <1>7, OnUserTip
  <1>9. Continues(hist, hist')
    BY <1>1, <1>2, <1>4, <1>5, ContinuesTransitive
  <1>10. QED
    BY <1>8, <1>9

(* A step that only suspends elsewhere, outside a batch. *)
LEMMA TurnFailsKeeps == IndInv /\ TurnFails => IndInv' /\ Continues(hist, hist')
  <1> SUFFICES ASSUME IndInv, TurnFails PROVE IndInv' /\ Continues(hist, hist')
    OBVIOUS
  <1> USE DEF TurnFails, coordinator
  <1>1. TypeOK'
    BY DEF IndInv, TypeOK, Phase
  <1>2. HistoryInv'
    BY DEF IndInv, HistoryInv, InBatch
  <1>3. BatchInv' /\ CoordinatorInv'
    <2>1. tool' = NoTools /\ registered' = FALSE
      BY DEF IndInv, BatchInv, CoordinatorInv, ControllerScopedToBatch, InBatch, TypeOK
    <2>2. QED
      BY <2>1, OutsideBatch
  <1>4. ReportInv'
    BY DEF IndInv, ReportInv, RunsAreReported, InBatch, EndsWith
  <1>5. Continues(hist, hist')
    BY HistoryFacts, ContinuesReflexive
  <1>6. QED
    BY <1>1, <1>2, <1>3, <1>4, <1>5 DEF IndInv

(* Appending a reply to a request, or nothing when the reply is empty. *)
LEMMA WithReplyKeeps ==
  ASSUME IndInv, phase = "streaming", NEW text \in BOOLEAN, NEW uses \in SUBSET ToolId
  PROVE  LET r == WithReply(text, uses)
         IN  /\ r \in Seq(Message) /\ WellKept(r) /\ TipFillable(r)
             /\ Continues(hist, r)
             /\ uses # {} => EndsWith(r, "assistant") /\ Tip(r).uses = uses
             /\ EndsWith(r, "user") => r = hist
             /\ EndsWith(r, "assistant") => RemoveLast(r) = hist
  <1>1. /\ hist \in Seq(Message) /\ WellKept(hist) /\ TipFillable(hist)
        /\ RequestOK(hist) /\ EndsWith(hist, "user")
    BY HistoryFacts DEF IndInv, HistoryInv, RequestOK
  <1>2. CASE text \/ uses # {}
    <2> DEFINE m == AssistantMessage(text, uses)
               r == Push(hist, m)
    <2>1. /\ r = Append(hist, m)
          /\ r \in Seq(Message) /\ WellKept(r) /\ TipFillable(r)
          /\ EndsWith(r, "assistant") /\ Tip(r).uses = uses
          /\ Continues(hist, r)
      BY <1>1, <1>2, PushReplyKeeps
    <2>2. m \in Message
      BY MessageType
    <2>3. RemoveLast(Append(hist, m)) = hist
      BY <1>1, <2>2, RemoveLastUndoesAppend
    <2>4. WithReply(text, uses) = r
      BY <1>2 DEF WithReply
    <2> HIDE DEF r, m
    <2>5. RemoveLast(r) = hist /\ ~EndsWith(r, "user")
      BY <2>1, <2>3 DEF EndsWith
    <2>6. QED
      BY <2>1, <2>4, <2>5
  <1>3. CASE ~(text \/ uses # {})
    <2>1. WithReply(text, uses) = hist /\ uses = {}
      BY <1>3 DEF WithReply
    <2>2. ~EndsWith(hist, "assistant")
      BY <1>1 DEF EndsWith
    <2>3. Continues(hist, hist)
      BY <1>1, ContinuesReflexive
    <2>4. QED
      BY <1>1, <2>1, <2>2, <2>3
  <1>4. QED
    BY <1>2, <1>3

(* A step out of "streaming" that ends outside a batch with no runs.       *)
LEMMA AfterTurn ==
  ASSUME hist' \in Seq(Message), WellKept(hist'), TipFillable(hist'),
         phase' \in {"idle", "streaming"}, phase' = "streaming" => RequestOK(hist'),
         emptyRetries' \in 0 .. MaxEmptyRetries, ran' = {},
         IndInv, phase = "streaming", UNCHANGED << tool, coordinator, signal >>
  PROVE  IndInv'
  <1>1. /\ tool' = NoTools /\ registered' = FALSE
        /\ cancelled' \in BOOLEAN /\ toolCancelled' \in BOOLEAN /\ signal' \in BOOLEAN
    BY DEF IndInv, TypeOK, BatchInv, CoordinatorInv, ControllerScopedToBatch, InBatch, coordinator
  <1>2. TypeOK'
    BY <1>1 DEF TypeOK, Phase, NoTools, ToolStatus
  <1>3. HistoryInv'
    BY DEF HistoryInv, InBatch
  <1>4. BatchInv' /\ CoordinatorInv'
    BY <1>1, OutsideBatch
  <1>5. ReportInv'
    BY DEF ReportInv, RunsAreReported
  <1>6. QED
    BY <1>2, <1>3, <1>4, <1>5 DEF IndInv

LEMMA TurnDoneKeeps ==
  ASSUME NEW text \in BOOLEAN, NEW uses \in SUBSET ToolId, IndInv, TurnDone(text, uses)
  PROVE  IndInv' /\ Continues(hist, hist')
  <1> DEFINE r == WithReply(text, uses)
  <1>1. r \in Seq(Message) /\ WellKept(r) /\ TipFillable(r) /\ Continues(hist, r)
    BY WithReplyKeeps DEF TurnDone
  <1>2. hist' = r
    BY DEF TurnDone
  <1> HIDE DEF r
  <1>3. IndInv'
    BY <1>1, <1>2, AfterTurn DEF TurnDone, IndInv, TypeOK
  <1>4. QED
    BY <1>1, <1>2, <1>3

LEMMA TurnEmptyToolUseKeeps ==
  ASSUME NEW text \in BOOLEAN, IndInv, TurnEmptyToolUse(text)
  PROVE  IndInv' /\ Continues(hist, hist')
  <1> DEFINE r == WithReply(text, {})
             b == IF EndsWith(r, "assistant") THEN RemoveLast(r) ELSE r
  <1>1. /\ r \in Seq(Message) /\ WellKept(r) /\ TipFillable(r) /\ Continues(hist, r)
        /\ EndsWith(r, "user") => r = hist
        /\ EndsWith(r, "assistant") => RemoveLast(r) = hist
    BY WithReplyKeeps DEF TurnEmptyToolUse
  <1>2. /\ hist \in Seq(Message) /\ WellKept(hist) /\ TipFillable(hist) /\ EndsWith(hist, "user")
        /\ emptyRetries \in 0 .. MaxEmptyRetries /\ phase = "streaming"
    BY HistoryFacts DEF IndInv, TypeOK, HistoryInv, RequestOK, TurnEmptyToolUse
  <1>3. EndsWith(r, "user") \/ EndsWith(r, "assistant")
    <2>1. r # << >> /\ Tip(r) \in Message
      <3>1. r # << >>
        BY <1>1, <1>2 DEF Continues, EndsWith
      <3>2. QED
        BY <1>1, <3>1 DEF Tip
    <2>2. QED
      BY <2>1 DEF EndsWith, Message, Role
  <1>4. b = hist
    BY <1>1, <1>3
  <1> HIDE DEF b
  <1>5. CASE emptyRetries < MaxEmptyRetries
    <2>1. emptyRetries' \in 0 .. MaxEmptyRetries
      BY <1>2, <1>5, ParametersAssumption DEF TurnEmptyToolUse
    <2>2. NextTurn(hist)
      BY <1>4, <1>5 DEF TurnEmptyToolUse, b
    <2>3. /\ hist' \in Seq(Message) /\ WellKept(hist') /\ TipFillable(hist')
          /\ Continues(hist, hist')
          /\ phase' \in {"idle", "streaming"}
          /\ phase' = "streaming" => RequestOK(hist')
      <3>1. {} \in SUBSET ToolId /\ {} \subseteq Tip(hist).results /\ Tip(hist).healed \cap {} = {}
        OBVIOUS
      <3>2. QED
        BY <1>2, <2>2, <3>1, NextTurnKeeps
    <2>4. QED
      BY <1>2, <2>1, <2>3, AfterTurn DEF TurnEmptyToolUse
  <1>6. CASE ~(emptyRetries < MaxEmptyRetries)
    <2>1. hist' = r /\ phase' = "idle" /\ emptyRetries' = emptyRetries
      BY <1>6 DEF TurnEmptyToolUse
    <2> HIDE DEF r
    <2>2. QED
      BY <1>1, <1>2, <2>1, AfterTurn DEF TurnEmptyToolUse
  <1>7. QED
    BY <1>5, <1>6

LEMMA TurnToolUseKeeps ==
  ASSUME NEW text \in BOOLEAN, NEW uses \in SUBSET ToolId, NEW approval \in ApprovalModes,
         NEW ready \in SUBSET uses, IndInv, TurnToolUse(text, uses, ready, approval)
  PROVE  IndInv' /\ Continues(hist, hist')
  <1> DEFINE r == WithReply(text, uses)
             d == Dispatched(uses, ready, approval)
  <1>1. /\ r \in Seq(Message) /\ WellKept(r) /\ TipFillable(r) /\ Continues(hist, r)
        /\ EndsWith(r, "assistant") /\ Tip(r).uses = uses /\ uses # {}
    BY WithReplyKeeps DEF TurnToolUse
  <1>2. hist' = r /\ phase' = "tools" /\ tool' = d
    BY DEF TurnToolUse
  <1>3. /\ approval \in BOOLEAN /\ cancelled \in BOOLEAN /\ registered = FALSE
        /\ toolCancelled \in BOOLEAN
    BY ParametersAssumption DEF IndInv, TypeOK, CoordinatorInv, ControllerScopedToBatch, TurnToolUse
  <1>4. /\ d \in [ToolId -> ToolStatus]
        /\ \A t \in ToolId : d[t] # "none" <=> t \in uses
        /\ \A t \in ToolId : d[t] = "pending" => ~cancelled
        /\ \A t \in ToolId : d[t] # "done"
        /\ \A t \in ToolId : d[t] = "running" <=> (t \in ready /\ ~approval /\ ~cancelled)
    BY <1>3 DEF Dispatched, ToolStatus
  <1> HIDE DEF r, d
  <1>5. TypeOK'
    <2>1. ran' \in SUBSET ToolId /\ registered' \in BOOLEAN /\ toolCancelled' \in BOOLEAN
      BY <1>3 DEF TurnToolUse, ToolRunStarted
    <2>2. emptyRetries' \in 0 .. MaxEmptyRetries
      BY ParametersAssumption DEF TurnToolUse
    <2>3. signal' \in BOOLEAN /\ cancelled' \in BOOLEAN
      BY <1>3 DEF TurnToolUse
    <2>4. QED
      BY <1>1, <1>2, <1>4, <2>1, <2>2, <2>3 DEF TypeOK, Phase
  <1>6. HistoryInv'
    <2>1. In(ToolStatus \ {"none"})' = uses
      BY <1>2, <1>4 DEF In
    <2>2. QED
      BY <1>1, <1>2, <2>1 DEF HistoryInv, InBatch
  <1>7. BatchInv'
    <2>1. In({"running", "done"})' = ran'
      BY <1>2, <1>3, <1>4 DEF In, TurnToolUse
    <2>2. QED
      BY <1>2, <2>1 DEF BatchInv, InBatch
  <1>8. CoordinatorInv'
    <2>1. ~signal' /\ (registered' <=> ran' # {})
      BY <1>3 DEF TurnToolUse, ToolRunStarted
    <2>2. cancelled' => In({"pending"})' = {}
      BY <1>2, <1>4 DEF In, TurnToolUse
    <2>3. QED
      BY <1>2, <2>1, <2>2 DEF CoordinatorInv, CancelDrainsApprovals, SecondCancelEscalates, ControllerScopedToBatch
  <1>9. ReportInv'
    BY <1>1, <1>2 DEF ReportInv, RunsAreReported, InBatch, EndsWith
  <1>10. QED
    BY <1>1, <1>2, <1>5, <1>6, <1>7, <1>8, <1>9 DEF IndInv

(* A step inside a batch that leaves the history alone and moves tools     *)
(* between the statuses of a tool_use.                                     *)
LEMMA WithinBatchHistory ==
  ASSUME IndInv, InBatch, InBatch', UNCHANGED hist, tool' \in [ToolId -> ToolStatus],
         \A t \in ToolId : tool'[t] = "none" <=> tool[t] = "none"
  PROVE  HistoryInv' /\ ReportInv' /\ Continues(hist, hist')
  <1>1. In(ToolStatus \ {"none"})' = In(ToolStatus \ {"none"})
    BY DEF In, IndInv, TypeOK
  <1>2. HistoryInv'
    BY <1>1 DEF IndInv, HistoryInv, InBatch
  <1>3. ReportInv'
    BY DEF IndInv, HistoryInv, ReportInv, RunsAreReported, EndsWith
  <1>4. QED
    BY <1>2, <1>3, HistoryFacts, ContinuesReflexive

LEMMA ReactKeeps ==
  ASSUME NEW t \in ToolId, IndInv, React(t)
  PROVE  IndInv' /\ Continues(hist, hist')
  <1>1. TypeOK /\ BatchInv /\ CoordinatorInv /\ phase = "tools" /\ InBatch /\ phase' = phase
    BY DEF IndInv, React, InBatch
  <1>2. TypeOK'
    BY <1>1 DEF TypeOK, React, ToolStatus, ToolRunStarted
  <1>3. HistoryInv' /\ ReportInv' /\ Continues(hist, hist')
    <2>1. \A u \in ToolId : tool'[u] = "none" <=> tool[u] = "none"
      BY <1>1 DEF React, TypeOK
    <2>2. QED
      BY <1>1, <1>2, <2>1, WithinBatchHistory DEF React, InBatch, TypeOK
  <1>4. BatchInv'
    BY <1>1 DEF BatchInv, InBatch, In, React, TypeOK
  <1>5. CoordinatorInv'
    <2>1. cancelled' => In({"pending"})' = {}
      BY <1>1 DEF CoordinatorInv, CancelDrainsApprovals, In, React, TypeOK
    <2>2. registered' /\ signal' => toolCancelled'
      BY <1>1 DEF CoordinatorInv, SecondCancelEscalates, React, ToolRunStarted
    <2>3. registered' <=> ran' # {}
      BY <1>1 DEF CoordinatorInv, React, ToolRunStarted
    <2>4. ran' = {} => ~signal'
      BY <1>1 DEF CoordinatorInv, React
    <2>5. QED
      BY <1>1, <2>1, <2>2, <2>3, <2>4
         DEF CoordinatorInv, CancelDrainsApprovals, SecondCancelEscalates, ControllerScopedToBatch
  <1>6. QED
    BY <1>2, <1>3, <1>4, <1>5 DEF IndInv

LEMMA ToolSettlesKeeps ==
  ASSUME NEW t \in ToolId, IndInv, ToolSettles(t)
  PROVE  IndInv' /\ Continues(hist, hist')
  <1>1. TypeOK /\ BatchInv /\ CoordinatorInv /\ InBatch /\ phase' = phase
    <2>1. tool # NoTools
      BY DEF ToolSettles, NoTools
    <2>2. QED
      BY <2>1 DEF IndInv, BatchInv, ToolSettles
  <1>2. TypeOK'
    BY <1>1 DEF TypeOK, ToolSettles, ToolStatus, coordinator
  <1>3. HistoryInv' /\ ReportInv' /\ Continues(hist, hist')
    <2>1. \A u \in ToolId : tool'[u] = "none" <=> tool[u] = "none"
      BY <1>1 DEF ToolSettles, TypeOK
    <2>2. QED
      BY <1>1, <1>2, <2>1, WithinBatchHistory DEF ToolSettles, InBatch, TypeOK
  <1>4. BatchInv'
    BY <1>1 DEF BatchInv, InBatch, In, ToolSettles, TypeOK
  <1>5. CoordinatorInv'
    BY <1>1 DEF CoordinatorInv, CancelDrainsApprovals, SecondCancelEscalates,
                ControllerScopedToBatch, In, ToolSettles, TypeOK, coordinator
  <1>6. QED
    BY <1>2, <1>3, <1>4, <1>5 DEF IndInv

LEMMA BatchSettlesKeeps == IndInv /\ BatchSettles => IndInv' /\ Continues(hist, hist')
  <1> SUFFICES ASSUME IndInv, BatchSettles PROVE IndInv' /\ Continues(hist, hist')
    OBVIOUS
  <1>1. TypeOK /\ BatchInv /\ CoordinatorInv /\ InBatch /\ InBatch'
    BY DEF IndInv, BatchSettles, InBatch
  <1>2. TypeOK'
    BY <1>1 DEF TypeOK, Phase, BatchSettles
  <1>3. HistoryInv' /\ ReportInv' /\ Continues(hist, hist')
    BY <1>1, <1>2, WithinBatchHistory DEF BatchSettles, TypeOK
  <1>4. BatchInv'
    BY <1>1 DEF BatchInv, In, BatchSettles
  <1>5. CoordinatorInv'
    BY <1>1 DEF CoordinatorInv, CancelDrainsApprovals, SecondCancelEscalates,
                ControllerScopedToBatch, In, BatchSettles
  <1>6. QED
    BY <1>2, <1>3, <1>4, <1>5 DEF IndInv

LEMMA DeliverKeeps == IndInv /\ Deliver => IndInv' /\ Continues(hist, hist')
  <1> SUFFICES ASSUME IndInv, Deliver PROVE IndInv' /\ Continues(hist, hist')
    OBVIOUS
  <1> DEFINE ids == In({"answered", "done"})
             m == UserMessage(FALSE, ids)
             p == Push(hist, m)
  <1>1. /\ hist \in Seq(Message) /\ WellKept(hist) /\ TipFillable(hist)
        /\ EndsWith(hist, "assistant") /\ Tip(hist).uses # {}
        /\ Tip(hist).uses = In(ToolStatus \ {"none"})
        /\ ran = In({"running", "done"}) /\ In({"running"}) = {} /\ registered = FALSE
    <2>1. TypeOK /\ phase = "closing"
      BY DEF IndInv, Deliver
    <2>2. ran = In({"running", "done"}) /\ In({"running"}) = {}
      BY <2>1 DEF IndInv, BatchInv, InBatch, In
    <2>3. QED
      BY <2>1, <2>2, HistoryFacts DEF IndInv, TypeOK, HistoryInv, InBatch, CoordinatorInv, ControllerScopedToBatch
  <1>2. ids \in SUBSET ToolId /\ ids \subseteq Tip(hist).uses /\ ran \subseteq ids
    BY <1>1 DEF In, ToolStatus
  <1>3. NextTurn(p)
    BY DEF Deliver
  <1>m. m \in Message /\ m.role = "user" /\ m.uses = {} /\ m.healed = {} /\ m.results = ids
    BY <1>2 DEF UserMessage, Message, Role
  <1> HIDE DEF ids, m
  <1>4. /\ p \in Seq(Message) /\ WellKept(p) /\ EndsWith(p, "user") /\ TipFillable(p)
        /\ Continues(hist, p)
        /\ Tip(p).healed = {}
        /\ Tip(p).results = ids
    <2>1. ~EndsWith(hist, "user")
      BY <1>1 DEF EndsWith
    <2>2. /\ p \in Seq(Message) /\ WellKept(p) /\ EndsWith(p, "user") /\ TipFillable(p)
          /\ Continues(hist, p)
          /\ Tip(p).healed = IF EndsWith(hist, "user") THEN Tip(hist).healed ELSE {}
          /\ Tip(p).results = IF EndsWith(hist, "user") THEN Tip(hist).results ELSE m.results
      BY <1>1, <1>2, <1>m, PushUserKeeps
    <2> HIDE DEF p
    <2>3. QED
      BY <1>m, <2>1, <2>2
  <1> HIDE DEF p
  <1>5. /\ hist' \in Seq(Message) /\ WellKept(hist') /\ TipFillable(hist')
        /\ EndsWith(hist', "user") /\ Continues(p, hist')
        /\ phase' \in {"idle", "streaming"}
        /\ phase' = "streaming" => RequestOK(hist')
        /\ ran \subseteq Tip(hist').results /\ Tip(hist').healed \cap ran = {}
    BY <1>2, <1>3, <1>4, NextTurnKeeps
  <1>6. /\ ran' = ran /\ tool' = NoTools /\ registered' = FALSE
        /\ emptyRetries' \in 0 .. MaxEmptyRetries /\ cancelled' \in BOOLEAN
        /\ toolCancelled' \in BOOLEAN /\ signal' \in BOOLEAN /\ ran \in SUBSET ToolId
    BY <1>1 DEF Deliver, coordinator, IndInv, TypeOK
  <1>7. IndInv'
    BY <1>5, <1>6, OnUserTip
  <1>8. Continues(hist, hist')
    BY <1>1, <1>4, <1>5, ContinuesTransitive
  <1>9. QED
    BY <1>7, <1>8

LEMMA RespondKeeps ==
  ASSUME NEW t \in ToolId, NEW approved \in BOOLEAN, IndInv, Respond(t, approved)
  PROVE  IndInv' /\ Continues(hist, hist')
  <1>1. TypeOK /\ BatchInv /\ CoordinatorInv /\ InBatch /\ phase' = phase /\ phase = "tools"
    <2>1. tool # NoTools
      BY DEF Respond, NoTools
    <2>2. phase # "closing"
      BY DEF IndInv, BatchInv, Respond, In
    <2>3. QED
      BY <2>1, <2>2 DEF IndInv, BatchInv, Respond, InBatch
  <1>2. TypeOK'
    BY <1>1 DEF TypeOK, Respond, ToolStatus, coordinator
  <1>3. HistoryInv' /\ ReportInv' /\ Continues(hist, hist')
    <2>1. \A u \in ToolId : tool'[u] = "none" <=> tool[u] = "none"
      BY <1>1 DEF Respond, TypeOK
    <2>2. QED
      BY <1>1, <1>2, <2>1, WithinBatchHistory DEF Respond, InBatch, TypeOK
  <1>4. BatchInv'
    BY <1>1 DEF BatchInv, InBatch, In, Respond, TypeOK
  <1>5. CoordinatorInv'
    BY <1>1 DEF CoordinatorInv, CancelDrainsApprovals, SecondCancelEscalates,
                ControllerScopedToBatch, In, Respond, TypeOK, coordinator
  <1>6. QED
    BY <1>2, <1>3, <1>4, <1>5 DEF IndInv

LEMMA CancelToolKeeps == IndInv /\ CancelTool => IndInv' /\ Continues(hist, hist')
  <1> SUFFICES ASSUME IndInv, CancelTool PROVE IndInv' /\ Continues(hist, hist')
    OBVIOUS
  <1>1. TypeOK /\ BatchInv /\ CoordinatorInv /\ phase = "tools" /\ InBatch /\ InBatch' /\ phase' = phase
    BY DEF IndInv, CoordinatorInv, ControllerScopedToBatch, CancelTool, InBatch
  <1>2. TypeOK'
    BY <1>1 DEF TypeOK, CancelTool
  <1>3. HistoryInv' /\ ReportInv' /\ Continues(hist, hist')
    BY <1>1, <1>2, WithinBatchHistory DEF CancelTool, TypeOK
  <1>4. BatchInv'
    BY <1>1 DEF BatchInv, InBatch, In, CancelTool
  <1>5. CoordinatorInv'
    BY <1>1 DEF CoordinatorInv, CancelDrainsApprovals, SecondCancelEscalates,
                ControllerScopedToBatch, In, CancelTool
  <1>6. QED
    BY <1>2, <1>3, <1>4, <1>5 DEF IndInv

LEMMA CancelQueryKeeps == IndInv /\ CancelQuery => IndInv' /\ Continues(hist, hist')
  <1> SUFFICES ASSUME IndInv, CancelQuery PROVE IndInv' /\ Continues(hist, hist')
    OBVIOUS
  <1>1. TypeOK /\ BatchInv /\ CoordinatorInv /\ phase' = phase /\ (InBatch' <=> InBatch)
    BY DEF IndInv, CancelQuery, InBatch
  <1>2. TypeOK'
    BY <1>1 DEF TypeOK, CancelQuery, ToolStatus
  <1>3. HistoryInv' /\ ReportInv' /\ Continues(hist, hist')
    <2>1. CASE InBatch
      <3>1. \A u \in ToolId : tool'[u] = "none" <=> tool[u] = "none"
        BY <1>1 DEF CancelQuery, TypeOK
      <3>2. QED
        BY <1>1, <1>2, <2>1, <3>1, WithinBatchHistory DEF CancelQuery, TypeOK
    <2>2. CASE ~InBatch
      <3>1. HistoryInv'
        BY <1>1, <2>2 DEF CancelQuery, IndInv, HistoryInv
      <3>2. ReportInv'
        BY <1>1, <2>2 DEF CancelQuery, IndInv, ReportInv, RunsAreReported, EndsWith
      <3>3. Continues(hist, hist')
        BY HistoryFacts, ContinuesReflexive DEF CancelQuery
      <3>4. QED
        BY <3>1, <3>2, <3>3
    <2>3. QED
      BY <2>1, <2>2
  <1>4. BatchInv'
    <2>1. CASE InBatch
      BY <1>1, <2>1 DEF BatchInv, In, CancelQuery, TypeOK
    <2>2. CASE ~InBatch
      BY <1>1, <2>2 DEF BatchInv, CancelQuery, NoTools, InBatch
    <2>3. QED
      BY <2>1, <2>2
  <1>5. CoordinatorInv'
    BY <1>1 DEF CoordinatorInv, CancelDrainsApprovals, SecondCancelEscalates,
                ControllerScopedToBatch, In, CancelQuery, TypeOK
  <1>6. QED
    BY <1>2, <1>3, <1>4, <1>5 DEF IndInv

LEMMA StepKeeps == IndInv /\ [Next]_vars => IndInv' /\ Continues(hist, hist')
  <1> SUFFICES ASSUME IndInv, [Next]_vars PROVE IndInv' /\ Continues(hist, hist')
    OBVIOUS
  <1>1. CASE \E resume \in BOOLEAN : Start(resume)
    BY <1>1, StartKeeps
  <1>2. CASE TurnFails
    BY <1>2, TurnFailsKeeps
  <1>3. CASE \E text \in BOOLEAN, uses \in SUBSET ToolId : TurnDone(text, uses)
    BY <1>3, TurnDoneKeeps
  <1>4. CASE \E text \in BOOLEAN : TurnEmptyToolUse(text)
    BY <1>4, TurnEmptyToolUseKeeps
  <1>5. CASE \E text \in BOOLEAN, uses \in SUBSET ToolId, approval \in ApprovalModes :
               \E ready \in SUBSET uses : TurnToolUse(text, uses, ready, approval)
    BY <1>5, TurnToolUseKeeps
  <1>6. CASE \E t \in ToolId : React(t)
    BY <1>6, ReactKeeps
  <1>7. CASE \E t \in ToolId : ToolSettles(t)
    BY <1>7, ToolSettlesKeeps
  <1>8. CASE BatchSettles
    BY <1>8, BatchSettlesKeeps
  <1>9. CASE Deliver
    BY <1>9, DeliverKeeps
  <1>10. CASE \E t \in ToolId, approved \in BOOLEAN : Respond(t, approved)
    BY <1>10, RespondKeeps
  <1>11. CASE Cancel
    BY <1>11, CancelToolKeeps, CancelQueryKeeps DEF Cancel
  <1>12. CASE UNCHANGED vars
    <2>1. IndInv'
      BY <1>12 DEF vars, coordinator, IndInv, TypeOK, HistoryInv, BatchInv, CoordinatorInv, ReportInv,
         RunsAreReported, InBatch, In, CancelDrainsApprovals, SecondCancelEscalates,
         ControllerScopedToBatch, EndsWith
    <2>2. Continues(hist, hist')
      BY <1>12, HistoryFacts, ContinuesReflexive DEF vars
    <2>3. QED
      BY <2>1, <2>2
  <1>13. QED
    BY <1>1, <1>2, <1>3, <1>4, <1>5, <1>6, <1>7, <1>8, <1>9, <1>10, <1>11, <1>12 DEF Next, TurnEnds

-----------------------------------------------------------------------------
(* The invariant holds of every reachable state, for every ToolId. *)
THEOREM InductiveInvariant == Spec => []IndInv
  <1>1. Init => IndInv
    BY InitIndInv
  <1>2. IndInv /\ [Next]_vars => IndInv'
    BY StepKeeps
  <1>3. QED
    BY <1>1, <1>2, PTL DEF Spec

(* Type correctness of the turn loop. *)
THEOREM TypeCorrect == Spec => []TypeOK
  <1>1. IndInv => TypeOK
    BY DEF IndInv
  <1>2. QED
    BY <1>1, InductiveInvariant, PTL

(* Every request the turn loop sends is one the Messages API accepts,      *)
(* however its earlier turns were cancelled, cut off or rolled back.       *)
THEOREM RequestsAlwaysWellFormed == Spec => []RequestsWellFormed
  <1>1. IndInv => RequestsWellFormed
    BY DEF IndInv, HistoryInv, RequestsWellFormed
  <1>2. QED
    BY <1>1, InductiveInvariant, PTL

(* A cancelled query has no approval left for anybody to answer. *)
THEOREM CancelAlwaysDrains == Spec => []CancelDrainsApprovals
  <1>1. IndInv => CancelDrainsApprovals
    BY DEF IndInv, CoordinatorInv
  <1>2. QED
    BY <1>1, InductiveInvariant, PTL

(* The second cancel of a batch cancels the query, and outside a batch no  *)
(* controller is left to swallow the first.                                *)
THEOREM CancelAlwaysEscalates == Spec => [](SecondCancelEscalates /\ ControllerScopedToBatch)
  <1>1. IndInv => SecondCancelEscalates /\ ControllerScopedToBatch
    BY DEF IndInv, CoordinatorInv
  <1>2. QED
    BY <1>1, InductiveInvariant, PTL

(* No tool that ran is ever reported to the model as "outcome unknown". *)
THEOREM RunsAlwaysReported == Spec => []RunsAreReported
  <1>1. IndInv => RunsAreReported
    BY DEF IndInv, ReportInv
  <1>2. QED
    BY <1>1, InductiveInvariant, PTL

(* A cancelled query lets the turn in flight end and sends nothing more.   *)
(* No invariant is needed: the loop's condition is looked at in every      *)
(* segment that could send.  [the while of QueryRunner.run]                *)
LEMMA CancelledStepSendsNothing ==
  ASSUME [Next]_vars, cancelled, phase # "idle", phase' = "streaming"
  PROVE  phase = "streaming" /\ UNCHANGED << hist, emptyRetries >>
  <1>1. CASE \E resume \in BOOLEAN : Start(resume)
    BY <1>1 DEF Start
  <1>2. CASE TurnEnds
    <2>1. ~TurnFails
      BY DEF TurnFails
    <2>2. ~\E text \in BOOLEAN, uses \in SUBSET ToolId : TurnDone(text, uses)
      BY DEF TurnDone
    <2>3. ~\E text \in BOOLEAN : TurnEmptyToolUse(text)
      BY DEF TurnEmptyToolUse, NextTurn
    <2>4. ~\E text \in BOOLEAN, uses \in SUBSET ToolId, approval \in ApprovalModes :
             \E ready \in SUBSET uses : TurnToolUse(text, uses, ready, approval)
      BY DEF TurnToolUse
    <2>5. QED
      BY <1>2, <2>1, <2>2, <2>3, <2>4 DEF TurnEnds
  <1>3. CASE Deliver
    BY <1>3 DEF Deliver, NextTurn
  <1>4. CASE BatchSettles
    BY <1>4 DEF BatchSettles
  <1>5. CASE \E t \in ToolId : React(t) \/ ToolSettles(t)
    BY <1>5 DEF React, ToolSettles
  <1>6. CASE \E t \in ToolId, approved \in BOOLEAN : Respond(t, approved)
    BY <1>6 DEF Respond
  <1>7. CASE Cancel
    BY <1>7 DEF Cancel, CancelTool, CancelQuery
  <1>8. CASE UNCHANGED vars
    BY <1>8 DEF vars
  <1>9. QED
    BY <1>1, <1>2, <1>3, <1>4, <1>5, <1>6, <1>7, <1>8 DEF Next

(* After a cancel no request leaves, at whatever point of the query the    *)
(* cancel came.                                                            *)
THEOREM NothingSentAfterCancel == Spec => NoRequestAfterCancel
  <1>1. [Next]_vars => [cancelled /\ phase # "idle" /\ phase' = "streaming"
                         => phase = "streaming" /\ UNCHANGED << hist, emptyRetries >>]_vars
    BY CancelledStepSendsNothing
  <1>2. QED
    BY <1>1, PTL DEF Spec, NoRequestAfterCancel

(* No step rewrites what the history holds before its tip. *)
THEOREM PastAlwaysKept == Spec => PastIsKept
  <1>1. IndInv /\ [Next]_vars => [Continues(hist, hist')]_vars
    BY StepKeeps
  <1>2. QED
    BY <1>1, InductiveInvariant, PTL DEF Spec, PastIsKept
-----------------------------------------------------------------------------
(* QueryRunner implements MessageLog.  MessageLog has History's operators  *)
(* under names of its own; the first lemma says that they are the same.    *)
LEMMA SameOperators ==
  /\ Log!Role = Role /\ Log!Message = Message
  /\ \A h : Log!HealDanglingToolUse(h) = HealDanglingToolUse(h)
  /\ \A h : Log!Unanswered(h) = Unanswered(h)
  /\ \A h : Log!RequestOK(h) = RequestOK(h)
  /\ \A h, m : Log!Push(h, m) = Push(h, m)
  /\ \A text, ids : Log!UserMessage(text, ids) = UserMessage(text, ids)
  /\ \A text, ids : Log!AssistantMessage(text, ids) = AssistantMessage(text, ids)
  <1>1. Log!Role = Role /\ Log!Message = Message
    BY DEF Log!Role, Role, Log!Message, Message
  <1>2. \A text, ids : Log!UserMessage(text, ids) = UserMessage(text, ids)
    BY DEF Log!UserMessage, UserMessage
  <1>3. \A text, ids : Log!AssistantMessage(text, ids) = AssistantMessage(text, ids)
    BY DEF Log!AssistantMessage, AssistantMessage
  <1>4. \A h, m : Log!Push(h, m) = Push(h, m)
    BY DEF Log!Push, Push, Log!EndsWith, EndsWith, Log!WithTip, WithTip, Log!Merge, Merge, Log!Tip, Tip
  <1>5. \A h : Log!Unanswered(h) = Unanswered(h)
    BY DEF Log!Unanswered, Unanswered, Log!HealAnchor, HealAnchor, Log!EndsWith, EndsWith, Log!Tip, Tip
  <1>6. \A ids : Log!Synthetic(ids) = Synthetic(ids)
    BY <1>2 DEF Log!Synthetic, Synthetic
  <1>7. \A h : Log!HealDanglingToolUse(h) = HealDanglingToolUse(h)
    BY <1>4, <1>5, <1>6 DEF Log!HealDanglingToolUse, HealDanglingToolUse
  <1>8. \A h : Log!RequestOK(h) = RequestOK(h)
    BY DEF Log!RequestOK, RequestOK, Log!EndsWith, EndsWith, Log!Tip, Tip, Log!Alternates, Alternates,
           Log!NoOrphanResult, NoOrphanResult, Log!AnsweredUpTo, AnsweredUpTo, Log!NonEmptyUpTo, NonEmptyUpTo
  <1>9. QED
    BY <1>1, <1>2, <1>3, <1>4, <1>5, <1>7, <1>8

(* The two kinds of step, said with the operators of this module.          *)
LEMMA UsersStep ==
  ASSUME phase # "streaming", NEW text \in BOOLEAN, NEW push \in BOOLEAN,
         NEW results \in SUBSET ToolId, results \subseteq Unanswered(hist),
         NEW g, g = IF push THEN Push(hist, UserMessage(text, results)) ELSE hist,
         \/ phase' = "streaming" /\ hist' = HealDanglingToolUse(g) /\ RequestOK(hist')
         \/ phase' # "streaming" /\ hist' = g
  PROVE  Log!LogNext
  <1> DEFINE send == phase' = "streaming"
  <1>1. Log!Users(text, results, push, send)
    BY SameOperators DEF Log!Users
  <1>2. send \in BOOLEAN
    OBVIOUS
  <1>3. QED
    BY <1>1, <1>2 DEF Log!LogNext

LEMMA RepliesStep ==
  ASSUME phase = "streaming", phase' # "streaming",
         \E text \in BOOLEAN, uses \in SUBSET ToolId : hist' = WithReply(text, uses)
  PROVE  Log!LogNext
  <1>1. PICK text \in BOOLEAN, uses \in SUBSET ToolId : hist' = WithReply(text, uses)
    OBVIOUS
  <1>2. Log!Replies(text, uses)
    BY <1>1, SameOperators DEF Log!Replies, WithReply
  <1>3. QED
    BY <1>2 DEF Log!LogNext

(* An empty reply leaves the log as it is.                                 *)
LEMMA NoReply ==
  ASSUME phase = "streaming", phase' # "streaming", hist' = hist
  PROVE  Log!LogNext
  <1>1. WithReply(FALSE, {}) = hist
    BY DEF WithReply
  <1>2. FALSE \in BOOLEAN /\ {} \in SUBSET ToolId
    OBVIOUS
  <1>3. \E text \in BOOLEAN, uses \in SUBSET ToolId : hist' = WithReply(text, uses)
    BY <1>1, <1>2, Zenon
  <1>4. QED
    BY <1>3, RepliesStep

LEMMA StartIsUsers ==
  ASSUME IndInv, NEW resume \in BOOLEAN, Start(resume)
  PROVE  Log!LogNext
  <1>1. phase # "streaming" /\ phase' = "streaming" /\ hist' = HealDanglingToolUse(Opened(resume))
    BY DEF Start
  <1>2. RequestOK(hist')
    BY <1>1, StartKeeps DEF IndInv, HistoryInv
  <1> DEFINE push == ~resume
             p == Opened(resume)
  <1>3. p = IF push THEN Push(hist, UserMessage(TRUE, {})) ELSE hist
    BY DEF Opened
  <1>4. push \in BOOLEAN /\ {} \in SUBSET ToolId /\ {} \subseteq Unanswered(hist)
    OBVIOUS
  <1> HIDE DEF push, p
  <1>5. hist' = HealDanglingToolUse(p)
    BY <1>1 DEF p
  <1>6. QED
    BY <1>1, <1>2, <1>3, <1>4, <1>5, UsersStep

LEMMA DeliverIsUsers ==
  ASSUME IndInv, Deliver
  PROVE  Log!LogNext
  <1> DEFINE ids == In({"answered", "done"})
             p == Push(hist, UserMessage(FALSE, ids))
  <1>1. /\ phase = "closing" /\ hist \in Seq(Message)
        /\ EndsWith(hist, "assistant") /\ Tip(hist).uses = In(ToolStatus \ {"none"})
    BY DEF Deliver, IndInv, TypeOK, HistoryInv, InBatch
  <1>2. Unanswered(hist) = Tip(hist).uses
    <2>1. HealAnchor(hist) = Len(hist) /\ Len(hist) # 0
      BY <1>1 DEF HealAnchor, EndsWith
    <2>2. QED
      BY <1>1, <2>1 DEF Unanswered, Tip
  <1>3. ids \in SUBSET ToolId /\ ids \subseteq Unanswered(hist)
    BY <1>1, <1>2 DEF In, ToolStatus
  <1>4. NextTurn(p)
    BY DEF Deliver
  <1>5. phase' = "streaming" => RequestOK(hist')
    BY DeliverKeeps DEF IndInv, HistoryInv
  <1> HIDE DEF ids
  <1>6. \/ phase' = "streaming" /\ hist' = HealDanglingToolUse(p) /\ RequestOK(hist')
        \/ phase' # "streaming" /\ hist' = p
    BY <1>4, <1>5 DEF NextTurn
  <1>7. p = IF TRUE THEN Push(hist, UserMessage(FALSE, ids)) ELSE hist
    OBVIOUS
  <1> HIDE DEF p
  <1>8. QED
    BY <1>1, <1>3, <1>6, <1>7, UsersStep

(* The empty tool_use reply is rolled back and its request sent again, or  *)
(* it is kept.                                                             *)
LEMMA TurnEmptyToolUseIsReplies ==
  ASSUME IndInv, NEW text \in BOOLEAN, TurnEmptyToolUse(text)
  PROVE  Log!LogNext \/ (hist' = hist /\ phase' = phase)
  <1> DEFINE r == WithReply(text, {})
             b == IF EndsWith(r, "assistant") THEN RemoveLast(r) ELSE r
  <1>1. /\ phase = "streaming" /\ hist \in Seq(Message) /\ RequestOK(hist) /\ WellKept(hist)
        /\ EndsWith(hist, "user")
    BY DEF TurnEmptyToolUse, IndInv, TypeOK, HistoryInv, RequestOK
  <1>2. /\ r \in Seq(Message) /\ Continues(hist, r)
        /\ EndsWith(r, "user") => r = hist
        /\ EndsWith(r, "assistant") => RemoveLast(r) = hist
    BY <1>1, WithReplyKeeps
  <1>3. EndsWith(r, "user") \/ EndsWith(r, "assistant")
    <2>1. r # << >>
      BY <1>1, <1>2 DEF Continues, EndsWith
    <2>2. Tip(r) \in Message
      BY <1>2, <2>1 DEF Tip
    <2>3. QED
      BY <2>1, <2>2 DEF EndsWith, Message, Role
  <1>4. b = hist
    BY <1>2, <1>3
  <1>5. CASE emptyRetries < MaxEmptyRetries
    <2>1. NextTurn(b)
      BY <1>5 DEF TurnEmptyToolUse
    <2>2. NextTurn(hist)
      BY <1>4, <2>1
    <2>3. CASE cancelled
      <3>1. hist' = hist /\ phase' = "idle"
        BY <2>2, <2>3 DEF NextTurn
      <3>2. QED
        BY <1>1, <3>1, NoReply
    <2>4. CASE ~cancelled
      BY <1>1, <2>2, <2>4, AcceptedOwesNothing DEF NextTurn
    <2>5. QED
      BY <2>3, <2>4
  <1>6. CASE ~(emptyRetries < MaxEmptyRetries)
    <2>1. hist' = r /\ phase' = "idle"
      BY <1>6 DEF TurnEmptyToolUse
    <2>2. QED
      BY <1>1, <2>1, RepliesStep
  <1>7. QED
    BY <1>5, <1>6

LEMMA StepIsLogStep == IndInv /\ [Next]_vars => [Log!LogNext]_(Log!logVars)
  <1> SUFFICES ASSUME IndInv, [Next]_vars
               PROVE  Log!LogNext \/ (hist' = hist /\ (phase' = "streaming") = (phase = "streaming"))
    BY DEF Log!logVars
  <1>1. CASE \E resume \in BOOLEAN : Start(resume)
    BY <1>1, StartIsUsers
  <1>2. CASE TurnFails
    <2>1. hist' = hist /\ phase = "streaming" /\ phase' # "streaming"
      BY <1>2 DEF TurnFails
    <2>2. QED
      BY <2>1, NoReply
  <1>3. CASE \E text \in BOOLEAN, uses \in SUBSET ToolId : TurnDone(text, uses)
    BY <1>3, RepliesStep DEF TurnDone
  <1>4. CASE \E text \in BOOLEAN : TurnEmptyToolUse(text)
    BY <1>4, TurnEmptyToolUseIsReplies
  <1>5. CASE \E text \in BOOLEAN, uses \in SUBSET ToolId, approval \in ApprovalModes :
               \E ready \in SUBSET uses : TurnToolUse(text, uses, ready, approval)
    BY <1>5, RepliesStep DEF TurnToolUse
  <1>6. CASE \E t \in ToolId : React(t)
    BY <1>6 DEF React
  <1>7. CASE \E t \in ToolId : ToolSettles(t)
    BY <1>7 DEF ToolSettles
  <1>8. CASE BatchSettles
    BY <1>8 DEF BatchSettles
  <1>9. CASE Deliver
    BY <1>9, DeliverIsUsers
  <1>10. CASE \E t \in ToolId, approved \in BOOLEAN : Respond(t, approved)
    BY <1>10 DEF Respond
  <1>11. CASE Cancel
    BY <1>11 DEF Cancel, CancelTool, CancelQuery
  <1>12. CASE UNCHANGED vars
    BY <1>12 DEF vars
  <1>13. QED
    BY <1>1, <1>2, <1>3, <1>4, <1>5, <1>6, <1>7, <1>8, <1>9, <1>10, <1>11, <1>12 DEF Next, TurnEnds

(* The turn loop implements the message log, for every ToolId and bound.   *)
THEOREM RunnerImplementsLog == Spec => ImplementsLog
  <1>1. Init => Log!LogInit
    BY DEF Init, Log!LogInit
  <1>2. IndInv /\ [Next]_vars => [Log!LogNext]_(Log!logVars)
    BY StepIsLogStep
  <1>3. QED
    BY <1>1, <1>2, InductiveInvariant, PTL DEF Spec, ImplementsLog, Log!LogSpec
==============================================================================
