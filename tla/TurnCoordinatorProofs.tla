------------------------ MODULE TurnCoordinatorProofs -------------------------
(***************************************************************************)
(* That the loop, the keyboard and the bus agree on who is idle, for every *)
(* number of queries, rows and conversations: the loop is busy to the bus  *)
(* exactly when an input is in hand, so no accepted say is overwritten.    *)
(* IndInv adds what typing needs (room for the results of a batch, and a   *)
(* conversation for a switch that is under way) and that the editor's      *)
(* promise is live only while the loop awaits it.                          *)
(***************************************************************************)
EXTENDS TurnCoordinator, SequenceTheorems, TLAPS

LoopOK ==
  /\ at \in {"boot", "input", "preparing", "armed", "requesting", "tooling", "closing"}
  /\ phase \in {"editor", "streaming"}
  /\ busy \in BOOLEAN
  /\ resolve \in {"none", "live", "stale"}
  /\ inbox \in Input \cup {None}
  /\ input \in Input \cup {None}
  /\ input = None <=> at \in {"boot", "input"}
  /\ resolve = "live" => at = "input"

CancelOK ==
  /\ cancelled \in BOOLEAN
  /\ controller \in {"none", "live", "aborted"}
  /\ controller = "none" <=> at \in {"boot", "input", "preparing"}

ConvOK ==
  /\ moving \in {"no", "loading", "settling"}
  /\ conv \in 1 .. MaxConv
  /\ rows \in Seq(Row) /\ Len(rows) <= MaxRows
  /\ minted \in 0 .. MaxQueries

CloseOK ==
  /\ pendingClose \in Close \cup {None}
  /\ closures \in Seq([conv : 1 .. MaxConv, qid : QueryId \cup {None}, reason : Reason])

Room ==
  /\ at = "tooling" => Len(rows) < MaxRows
  /\ moving = "loading" => conv < MaxConv

IndInv == LoopOK /\ CancelOK /\ ConvOK /\ CloseOK /\ Room /\ BusyWhileTaken

LEMMA IndInvTypeOK == IndInv => TypeOK
  BY DEF IndInv, LoopOK, CancelOK, ConvOK, CloseOK, TypeOK

-----------------------------------------------------------------------------
(* What the helpers of the module return.                                  *)

LEMMA Bounds == MaxQueries \in Nat /\ MaxRows \in Nat /\ MaxConv \in Nat /\ MaxRows > 1 /\ MaxConv > 0
  BY BoundsAssumption

LEMMA ShortEnough ==
  ASSUME NEW l, NEW n \in Nat, l = n \/ l = 0 \/ l = 1
  PROVE  (n <= MaxRows => l <= MaxRows) /\ (n < MaxRows => l < MaxRows)
  BY Bounds

LEMMA NotNone == \A i \in Input : i # None
  BY NoneAssumption

LEMMA InputTyped ==
  ASSUME ConvOK, minted < MaxQueries, NEW resume \in BOOLEAN
  PROVE  Typed(resume) \in Input /\ Said \in Input /\ minted + 1 \in 0 .. MaxQueries
  <1>1. minted + 1 \in QueryId /\ minted + 1 \in 0 .. MaxQueries
    BY Bounds DEF ConvOK, QueryId
  <1>2. Len(rows) \in 0 .. MaxRows
    BY Bounds, LenProperties DEF ConvOK
  <1>3. Tip \in (1 .. MaxConv) \X (0 .. MaxRows)
    BY <1>2 DEF ConvOK, Tip
  <1>4. QED
    BY <1>1, <1>3 DEF Typed, Said, Input

LEMMA TipTyped ==
  ASSUME ConvOK
  PROVE  TipQuery \in QueryId \cup {None}
  <1>1. CASE rows = << >>
    BY <1>1 DEF TipQuery
  <1>2. CASE rows # << >>
    <2>1. Len(rows) \in 1 .. Len(rows)
      BY <1>2, EmptySeq, LenProperties DEF ConvOK
    <2>2. rows[Len(rows)] \in Row
      BY <2>1, ElementOfSeq DEF ConvOK
    <2>3. QED
      BY <1>2, <2>2 DEF TipQuery, Row
  <1>3. QED
    BY <1>1, <1>2

LEMMA PushedTyped ==
  ASSUME ConvOK, NEW role \in {"user", "assistant"}, NEW q \in QueryId \cup {None}
  PROVE  Pushed(role, q) \in Seq(Row) /\ Len(Pushed(role, q)) <= Len(rows) + 1
  <1>1. [role |-> role, qid |-> q] \in Row
    BY DEF Row
  <1>2. QED
    BY <1>1, AppendProperties, LenProperties DEF ConvOK, Pushed

LEMMA PublishTyped ==
  ASSUME ConvOK, CloseOK, NEW q \in QueryId \cup {None}, NEW reason \in Reason, PublishClose(q, reason)
  PROVE  closures' \in Seq([conv : 1 .. MaxConv, qid : QueryId \cup {None}, reason : Reason])
  <1> DEFINE Closed == [conv : 1 .. MaxConv, qid : QueryId \cup {None}, reason : Reason]
             closed == [conv |-> conv, qid |-> q, reason |-> reason]
  <1>1. closed \in Closed
    BY DEF ConvOK
  <1>2. closures \in Seq(Closed)
    BY DEF CloseOK
  <1>3. closures' = closures \/ closures' = Append(closures, closed)
    BY DEF PublishClose
  <1> HIDE DEF Closed, closed
  <1>4. closures' \in Seq(Closed)
    BY <1>1, <1>2, <1>3, AppendProperties
  <1>5. QED
    BY <1>4 DEF Closed

(* The next input is a say that waited, or the wait for one.               *)
LEMMA NextInputKeeps ==
  ASSUME LoopOK, NextInput, phase' = phase
  PROVE  /\ LoopOK' /\ BusyWhileTaken'
         /\ at' \in {"input", "preparing"}
         /\ inbox' = None
  <1>1. CASE inbox # None
    <2>1. inbox \in Input /\ at' = "preparing" /\ busy' = TRUE /\ input' = inbox /\ inbox' = None /\ resolve' = "stale"
      BY <1>1 DEF LoopOK, NextInput, StartTurn
    <2>2. LoopOK'
      BY <2>1, NotNone DEF LoopOK
    <2>3. BusyWhileTaken'
      BY <2>1 DEF BusyWhileTaken
    <2>4. QED
      BY <2>1, <2>2, <2>3
  <1>2. CASE inbox = None
    <2>1. at' = "input" /\ busy' = FALSE /\ input' = None /\ inbox' = None /\ resolve' = "live"
      BY <1>2 DEF NextInput
    <2>2. LoopOK'
      BY <2>1 DEF LoopOK
    <2>3. BusyWhileTaken'
      BY <2>1 DEF BusyWhileTaken
    <2>4. QED
      BY <2>1, <2>2, <2>3
  <1>3. QED
    BY <1>1, <1>2

LEMMA InitIndInv == Init => IndInv
  <1> SUFFICES ASSUME Init PROVE IndInv
    OBVIOUS
  <1>1. LoopOK /\ CancelOK /\ BusyWhileTaken
    BY DEF Init, LoopOK, CancelOK, BusyWhileTaken
  <1>2. ConvOK /\ Room
    BY Bounds, EmptySeq DEF Init, ConvOK, Room
  <1>3. CloseOK
    BY EmptySeq DEF Init, CloseOK
  <1>4. QED
    BY <1>1, <1>2, <1>3 DEF IndInv

-----------------------------------------------------------------------------
(* One lemma for each action, or each group of actions alike.              *)

LEMMA BootDoneKeeps == IndInv /\ BootDone => IndInv'
  <1> SUFFICES ASSUME IndInv, BootDone PROVE IndInv'
    OBVIOUS
  <1> USE DEF IndInv
  <1>1. at = "boot" /\ UNCHANGED << phase, cancelVars, convVars, closeVars >>
    BY DEF BootDone
  <1>2. CASE NextInput /\ UNCHANGED minted
    <2>1. LoopOK' /\ BusyWhileTaken' /\ at' \in {"input", "preparing"}
      BY <1>1, <1>2, NextInputKeeps
    <2>2. CancelOK'
      BY <1>1, <2>1 DEF CancelOK, cancelVars
    <2>3. ConvOK' /\ CloseOK' /\ Room'
      BY <1>1, <1>2, <2>1 DEF ConvOK, CloseOK, Room, convVars, closeVars
    <2>4. QED
      BY <2>1, <2>2, <2>3
  <1>3. CASE /\ minted < MaxQueries
             /\ StartTurn(Typed(FALSE)) /\ minted' = minted + 1
             /\ UNCHANGED << resolve, inbox >>
    <2>1. Typed(FALSE) \in Input /\ Typed(FALSE) # None /\ minted' \in 0 .. MaxQueries
      BY <1>3, InputTyped, NotNone
    <2>2. at' = "preparing" /\ busy' = TRUE /\ input' = Typed(FALSE)
      BY <1>3 DEF StartTurn
    <2> HIDE DEF Typed
    <2>3. LoopOK' /\ BusyWhileTaken'
      BY <1>1, <1>3, <2>1, <2>2 DEF LoopOK, BusyWhileTaken
    <2>4. CancelOK'
      BY <1>1, <2>2 DEF CancelOK, cancelVars
    <2>5. ConvOK' /\ CloseOK' /\ Room'
      BY <1>1, <2>1, <2>2 DEF ConvOK, CloseOK, Room, convVars, closeVars
    <2>6. QED
      BY <2>3, <2>4, <2>5
  <1>4. QED
    BY <1>2, <1>3 DEF BootDone

LEMMA ArmKeeps == IndInv /\ Arm => IndInv'
  BY DEF IndInv, Arm, LoopOK, CancelOK, ConvOK, CloseOK, Room, BusyWhileTaken, convVars, closeVars

LEMMA RunKeeps == IndInv /\ Run => IndInv'
  <1> SUFFICES ASSUME IndInv, Run PROVE IndInv'
    OBVIOUS
  <1> USE DEF IndInv
  <1>1. input \in Input /\ input.qid \in QueryId
    BY DEF Run, LoopOK, Input
  <1>2. rows' \in Seq(Row) /\ Len(rows') <= MaxRows
    <2>1. Pushed("user", input.qid) \in Seq(Row) /\ Len(Pushed("user", input.qid)) <= Len(rows) + 1
      BY <1>1, PushedTyped
    <2>2. Len(rows) \in Nat /\ Len(rows) < MaxRows
      BY LenProperties DEF ConvOK, Run
    <2>3. Len(Pushed("user", input.qid)) \in Nat
      BY <2>1, LenProperties
    <2>4. rows' = rows \/ rows' = Pushed("user", input.qid)
      BY DEF Run
    <2> HIDE DEF Pushed
    <2>5. QED
      BY <2>1, <2>2, <2>3, <2>4, Bounds DEF ConvOK
  <1>3. LoopOK' /\ CancelOK' /\ BusyWhileTaken'
    BY DEF Run, LoopOK, CancelOK, BusyWhileTaken
  <1>4. ConvOK' /\ CloseOK' /\ Room'
    BY <1>2 DEF Run, ConvOK, CloseOK, Room, closeVars
  <1>5. QED
    BY <1>3, <1>4

LEMMA ReplyKeeps ==
  ASSUME IndInv, NEW stop \in {"tool_use", "end_turn", "max_tokens"}, Reply(stop)
  PROVE  IndInv'
  <1> USE DEF IndInv
  <1>1. TipQuery \in QueryId \cup {None}
    BY TipTyped
  <1>2. rows' = Pushed("assistant", TipQuery)
    BY DEF Reply
  <1>3. rows' \in Seq(Row) /\ Len(rows') <= Len(rows) + 1 /\ Len(rows') \in Nat /\ Len(rows) \in Nat
    BY <1>1, <1>2, PushedTyped, LenProperties DEF ConvOK
  <1>4. Len(rows) + (IF stop = "tool_use" THEN 1 ELSE 0) < MaxRows
    BY DEF Reply
  <1>5. Len(rows') <= MaxRows /\ (stop = "tool_use" => Len(rows') < MaxRows)
    BY <1>3, <1>4, Bounds
  <1>6. at' = (IF stop = "tool_use" THEN "tooling" ELSE "closing") /\ phase' \in {phase, "editor"}
    BY DEF Reply, Leave
  <1>7. LoopOK' /\ CancelOK' /\ BusyWhileTaken'
    BY <1>6 DEF Reply, LoopOK, CancelOK, BusyWhileTaken, cancelVars
  <1>8. pendingClose' \in Close \cup {None}
    <2>1. [qid |-> TipQuery, reason |-> "completed"] \in Close
      BY <1>1 DEF Close, Reason
    <2>2. QED
      BY <2>1 DEF Reply, CloseOK
  <1>9. ConvOK' /\ CloseOK' /\ Room'
    BY <1>3, <1>5, <1>6, <1>8 DEF Reply, ConvOK, CloseOK, Room
  <1>10. QED
    BY <1>7, <1>9

LEMMA ToolsDoneKeeps == IndInv /\ ToolsDone => IndInv'
  <1> SUFFICES ASSUME IndInv, ToolsDone PROVE IndInv'
    OBVIOUS
  <1> USE DEF IndInv
  <1>1. input \in Input /\ input.qid \in QueryId
    BY DEF ToolsDone, LoopOK, Input
  <1>2. rows' = Pushed("user", input.qid)
    BY DEF ToolsDone
  <1>3. rows' \in Seq(Row) /\ Len(rows') <= Len(rows) + 1 /\ Len(rows') \in Nat /\ Len(rows) \in Nat
    BY <1>1, <1>2, PushedTyped, LenProperties DEF ConvOK
  <1>4. Len(rows') <= MaxRows
    BY <1>3, Bounds DEF ToolsDone, Room
  <1>5. at = "tooling" /\ at' \in {"requesting", "closing"} /\ phase' \in {phase, "editor"}
    BY DEF ToolsDone, Leave
  <1>6. LoopOK' /\ CancelOK' /\ BusyWhileTaken'
    BY <1>5 DEF ToolsDone, LoopOK, CancelOK, BusyWhileTaken, cancelVars
  <1>7. ConvOK' /\ CloseOK' /\ Room'
    BY <1>3, <1>4, <1>5 DEF ToolsDone, ConvOK, CloseOK, Room, closeVars
  <1>8. QED
    BY <1>6, <1>7

LEMMA FailsKeeps ==
  ASSUME IndInv, NEW published \in BOOLEAN, Fails(published)
  PROVE  IndInv'
  <1> USE DEF IndInv
  <1>1. [qid |-> TipQuery, reason |-> "aborted"] \in Close
    BY TipTyped DEF Close, Reason
  <1>2. CloseOK'
    BY <1>1 DEF Fails, CloseOK
  <1>3. LoopOK' /\ CancelOK' /\ BusyWhileTaken'
    BY DEF Fails, Leave, LoopOK, CancelOK, BusyWhileTaken, cancelVars
  <1>4. ConvOK' /\ Room'
    BY DEF Fails, Leave, ConvOK, Room, convVars
  <1>5. QED
    BY <1>2, <1>3, <1>4

LEMMA TurnEndsKeeps == IndInv /\ TurnEnds => IndInv'
  <1> SUFFICES ASSUME IndInv, TurnEnds PROVE IndInv'
    OBVIOUS
  <1> USE DEF IndInv
  <1>1. LoopOK' /\ BusyWhileTaken' /\ at' \in {"input", "preparing"}
    BY NextInputKeeps DEF TurnEnds
  <1>2. CancelOK'
    BY <1>1 DEF TurnEnds, CancelOK
  <1>3. ConvOK' /\ Room'
    BY <1>1 DEF TurnEnds, ConvOK, Room, convVars
  <1>4. CloseOK'
    <2>1. CASE pendingClose = None
      BY <2>1 DEF TurnEnds, CloseOK, closeVars
    <2>2. CASE pendingClose # None
      <3>1. pendingClose.qid \in QueryId \cup {None} /\ pendingClose.reason \in Reason
        BY <2>2 DEF CloseOK, Close
      <3>2. PublishClose(pendingClose.qid, pendingClose.reason) /\ pendingClose' = None
        BY <2>2 DEF TurnEnds
      <3>3. QED
        BY <3>1, <3>2, PublishTyped DEF CloseOK
    <2>3. QED
      BY <2>1, <2>2
  <1>5. QED
    BY <1>1, <1>2, <1>3, <1>4

LEMMA TurnThrowsKeeps == IndInv /\ TurnThrows => IndInv'
  <1> SUFFICES ASSUME IndInv, TurnThrows PROVE IndInv'
    OBVIOUS
  <1> USE DEF IndInv
  <1>1. LoopOK' /\ BusyWhileTaken' /\ at' \in {"input", "preparing"}
    BY NextInputKeeps DEF TurnThrows
  <1>2. CancelOK'
    BY <1>1 DEF TurnThrows, CancelOK
  <1>3. ConvOK' /\ Room' /\ CloseOK'
    BY <1>1 DEF TurnThrows, ConvOK, Room, CloseOK, convVars, closeVars
  <1>4. QED
    BY <1>1, <1>2, <1>3

LEMMA SubmitKeeps ==
  ASSUME IndInv, NEW resume \in BOOLEAN, Submit(resume)
  PROVE  IndInv'
  <1> USE DEF IndInv
  <1>1. CASE resolve = "live"
    <2>1. at = "input" /\ minted < MaxQueries /\ StartTurn(Typed(resume)) /\ minted' = minted + 1
      BY <1>1 DEF Submit, LoopOK
    <2>2. Typed(resume) \in Input /\ Typed(resume) # None /\ minted' \in 0 .. MaxQueries
      BY <2>1, InputTyped, NotNone
    <2>3. at' = "preparing" /\ busy' = TRUE /\ input' = Typed(resume)
      BY <2>1 DEF StartTurn
    <2> HIDE DEF Typed
    <2>4. LoopOK' /\ BusyWhileTaken'
      BY <2>2, <2>3 DEF Submit, LoopOK, BusyWhileTaken
    <2>5. CancelOK'
      BY <2>1, <2>3 DEF Submit, CancelOK, cancelVars
    <2>6. ConvOK' /\ CloseOK' /\ Room'
      BY <2>2, <2>3 DEF Submit, ConvOK, CloseOK, Room, convVars, closeVars
    <2>7. QED
      BY <2>4, <2>5, <2>6
  <1>2. CASE resolve # "live"
    BY <1>2 DEF Submit, LoopOK, CancelOK, ConvOK, CloseOK, Room, BusyWhileTaken, cancelVars, convVars, closeVars
  <1>3. QED
    BY <1>1, <1>2

LEMMA CancelKeeps ==
  ASSUME IndInv, Cancel, UNCHANGED << loopVars, convVars, pendingClose, minted >>
  PROVE  IndInv'
  <1> USE DEF IndInv
  <1>1. LoopOK' /\ BusyWhileTaken' /\ ConvOK' /\ Room'
    BY DEF LoopOK, BusyWhileTaken, ConvOK, Room, loopVars, convVars
  <1>2. CancelOK'
    BY DEF Cancel, CancelOK, cancelVars, loopVars
  <1>3. CloseOK'
    <2>1. CASE closures' = closures
      BY <2>1 DEF CloseOK
    <2>2. CASE TipQuery # None /\ PublishClose(TipQuery, "cancelled")
      <3>1. TipQuery \in QueryId \cup {None} /\ "cancelled" \in Reason
        BY TipTyped DEF Reason
      <3>2. QED
        BY <2>2, <3>1, PublishTyped DEF CloseOK
    <2>3. QED
      BY <2>1, <2>2 DEF Cancel
  <1>4. QED
    BY <1>1, <1>2, <1>3

LEMMA MovesKeep == IndInv /\ (NewSession \/ SwitchTo \/ Adopt \/ MoveDone) => IndInv'
  <1> SUFFICES ASSUME IndInv, NewSession \/ SwitchTo \/ Adopt \/ MoveDone PROVE IndInv'
    OBVIOUS
  <1> USE DEF IndInv
  <1>1. UNCHANGED << loopVars, cancelVars, closeVars, minted >>
    BY DEF NewSession, SwitchTo, Adopt, MoveDone
  <1>2. LoopOK' /\ CancelOK' /\ CloseOK' /\ BusyWhileTaken'
    BY <1>1 DEF LoopOK, CancelOK, CloseOK, BusyWhileTaken, loopVars, cancelVars, closeVars
  <1>3. rows' \in Seq(Row) /\ (Len(rows') = Len(rows) \/ Len(rows') = 0 \/ Len(rows') = 1)
    <2> DEFINE stored == [role |-> "assistant", qid |-> None]
    <2>1. stored \in Row
      BY DEF Row
    <2>2. rows' = rows \/ rows' = << >> \/ rows' = << stored >>
      BY DEF NewSession, SwitchTo, Adopt, MoveDone
    <2>3. rows \in Seq(Row)
      BY DEF ConvOK
    <2> HIDE DEF stored
    <2>4. << stored >> \in Seq(Row) /\ Len(<< stored >>) = 1 /\ << >> \in Seq(Row) /\ Len(<< >>) = 0
      BY <2>1
    <2>5. QED
      BY <2>2, <2>3, <2>4
  <1>4. /\ moving' \in {"no", "loading", "settling"}
        /\ conv' \in {conv, conv + 1}
        /\ moving' = "loading" => conv' < MaxConv
        /\ conv' # conv => conv < MaxConv
    BY DEF NewSession, SwitchTo, Adopt, MoveDone, Room
  <1>5. ConvOK'
    <2>1. conv' \in 1 .. MaxConv
      BY <1>4, Bounds DEF ConvOK
    <2>2. Len(rows) \in Nat /\ Len(rows) <= MaxRows
      BY LenProperties DEF ConvOK
    <2>3. Len(rows') <= MaxRows
      BY <2>2, <1>3, ShortEnough
    <2>4. QED
      BY <1>1, <1>3, <1>4, <2>1, <2>3 DEF ConvOK
  <1>6. Room'
    <2>1. at' = at
      BY <1>1 DEF loopVars
    <2>2. Len(rows) \in Nat /\ (at = "tooling" => Len(rows) < MaxRows)
      BY LenProperties DEF ConvOK, Room
    <2>3. at' = "tooling" => Len(rows') < MaxRows
      BY <2>1, <2>2, <1>3, ShortEnough
    <2>4. QED
      BY <2>3, <1>4 DEF Room
  <1>7. QED
    BY <1>2, <1>5, <1>6

LEMMA SayKeeps == IndInv /\ Say => IndInv'
  <1> SUFFICES ASSUME IndInv, Say PROVE IndInv'
    OBVIOUS
  <1> USE DEF IndInv
  <1>1. Said \in Input /\ Said # None /\ minted' \in 0 .. MaxQueries
    BY InputTyped, NotNone DEF Say
  <1>2. ~busy /\ at \in {"boot", "input"} /\ inbox = None
    BY DEF Say, BusyWhileTaken
  <1> HIDE DEF Said
  <1>3. LoopOK' /\ BusyWhileTaken'
    BY <1>1, <1>2 DEF Say, LoopOK, BusyWhileTaken
  <1>4. CancelOK'
    BY <1>2 DEF Say, CancelOK, cancelVars
  <1>5. ConvOK' /\ CloseOK' /\ Room'
    BY <1>1, <1>2 DEF Say, ConvOK, CloseOK, Room, convVars, closeVars
  <1>6. QED
    BY <1>3, <1>4, <1>5

LEMMA StutterKeeps == IndInv /\ UNCHANGED vars => IndInv'
  BY DEF IndInv, LoopOK, CancelOK, ConvOK, CloseOK, Room, BusyWhileTaken,
         vars, loopVars, cancelVars, convVars, closeVars

LEMMA NextKeeps == IndInv /\ [Next]_vars => IndInv'
  <1> SUFFICES ASSUME IndInv, [Next]_vars PROVE IndInv'
    OBVIOUS
  <1>1. CASE TurnStep
    <2>1. CASE BootDone
      BY <2>1, BootDoneKeeps
    <2>2. CASE Arm
      BY <2>2, ArmKeeps
    <2>3. CASE Run
      BY <2>3, RunKeeps
    <2>4. CASE ToolsDone
      BY <2>4, ToolsDoneKeeps
    <2>5. CASE TurnEnds
      BY <2>5, TurnEndsKeeps
    <2>6. CASE TurnThrows
      BY <2>6, TurnThrowsKeeps
    <2>7. ASSUME NEW stop \in {"tool_use", "end_turn", "max_tokens"}, Reply(stop) PROVE IndInv'
      BY <2>7, ReplyKeeps
    <2>8. ASSUME NEW published \in BOOLEAN, Fails(published) PROVE IndInv'
      BY <2>8, FailsKeeps
    <2>9. QED
      BY <1>1, <2>1, <2>2, <2>3, <2>4, <2>5, <2>6, <2>7, <2>8 DEF TurnStep
  <1>2. ASSUME NEW resume \in BOOLEAN, Submit(resume) PROVE IndInv'
    BY <1>2, SubmitKeeps
  <1>3. CASE Escape
    BY <1>3, CancelKeeps DEF Escape
  <1>4. CASE NewSession \/ SwitchTo \/ Adopt \/ MoveDone
    BY <1>4, MovesKeep
  <1>5. CASE Say
    BY <1>5, SayKeeps
  <1>6. ASSUME NEW id \in QueryId \cup {None}, WireCancel(id) PROVE IndInv'
    BY <1>6, CancelKeeps DEF WireCancel
  <1>7. CASE UNCHANGED vars
    BY <1>7, StutterKeeps
  <1>8. QED
    BY <1>1, <1>2, <1>3, <1>4, <1>5, <1>6, <1>7 DEF Next

(* No step replaces a say that waits.                                      *)
LEMMA InboxKept == IndInv /\ [Next]_vars => (inbox # None => inbox' \in {None, inbox})
  <1> SUFFICES ASSUME IndInv, [Next]_vars, inbox # None PROVE inbox' \in {None, inbox}
    OBVIOUS
  <1>1. CASE BootDone \/ TurnEnds \/ TurnThrows
    BY <1>1 DEF BootDone, TurnEnds, TurnThrows, NextInput
  <1>2. ~Say
    BY DEF Say, IndInv, BusyWhileTaken
  <1>3. CASE Arm \/ Run \/ ToolsDone \/ Escape \/ NewSession \/ SwitchTo \/ Adopt \/ MoveDone
    BY <1>3 DEF Arm, Run, ToolsDone, Escape, NewSession, SwitchTo, Adopt, MoveDone, loopVars
  <1>4. ASSUME NEW stop \in {"tool_use", "end_turn", "max_tokens"}, Reply(stop) PROVE inbox' = inbox
    BY <1>4 DEF Reply
  <1>5. ASSUME NEW published \in BOOLEAN, Fails(published) PROVE inbox' = inbox
    BY <1>5 DEF Fails
  <1>6. ASSUME NEW resume \in BOOLEAN, Submit(resume) PROVE inbox' = inbox
    BY <1>6 DEF Submit
  <1>7. ASSUME NEW id \in QueryId \cup {None}, WireCancel(id) PROVE inbox' = inbox
    BY <1>7 DEF WireCancel, loopVars
  <1>8. CASE UNCHANGED vars
    BY <1>8 DEF vars, loopVars
  <1>9. QED
    BY <1>1, <1>2, <1>3, <1>4, <1>5, <1>6, <1>7, <1>8 DEF Next, TurnStep

(* The controller is gone before an input is taken, and the cancel of the  *)
(* last query is forgotten before the first request of the next.           *)
StartsFresh ==
  /\ at' = "preparing" /\ at # "preparing" => controller' = "none"
  /\ at = "armed" /\ at' = "requesting" => ~cancelled'

LEMMA StepStartsFresh == IndInv /\ [Next]_vars => StartsFresh
  <1> USE DEF StartsFresh
  <1> SUFFICES ASSUME IndInv, [Next]_vars PROVE StartsFresh
    OBVIOUS
  <1>1. controller = "none" <=> at \in {"boot", "input", "preparing"}
    BY DEF IndInv, CancelOK
  <1>2. resolve = "live" => at = "input"
    BY DEF IndInv, LoopOK
  <1>3. CASE BootDone
    BY <1>1, <1>3 DEF BootDone, cancelVars
  <1>4. CASE TurnEnds \/ TurnThrows
    BY <1>4 DEF TurnEnds, TurnThrows, NextInput, StartTurn
  <1>5. CASE Arm \/ Run \/ ToolsDone \/ Escape \/ NewSession \/ SwitchTo \/ Adopt \/ MoveDone
    BY <1>5 DEF Arm, Run, ToolsDone, Leave, Escape, NewSession, SwitchTo, Adopt, MoveDone, loopVars
  <1>6. ASSUME NEW stop \in {"tool_use", "end_turn", "max_tokens"}, Reply(stop)
        PROVE  at = "requesting" /\ at' # "preparing"
    BY <1>6 DEF Reply, Leave
  <1>7. ASSUME NEW published \in BOOLEAN, Fails(published)
        PROVE  at = "requesting" /\ at' # "preparing"
    BY <1>7 DEF Fails, Leave
  <1>8. ASSUME NEW resume \in BOOLEAN, Submit(resume)
        PROVE  ((at' = "preparing" /\ at = "input") \/ at' = at) /\ controller' = controller
    BY <1>2, <1>8 DEF Submit, StartTurn, cancelVars
  <1>9. CASE Say
    BY <1>1, <1>9 DEF Say, cancelVars
  <1>10. ASSUME NEW id \in QueryId \cup {None}, WireCancel(id) PROVE at' = at
    BY <1>10 DEF WireCancel, loopVars
  <1>11. CASE UNCHANGED vars
    BY <1>11 DEF vars, loopVars
  <1>12. QED
    BY <1>1, <1>3, <1>4, <1>5, <1>6, <1>7, <1>8, <1>9, <1>10, <1>11 DEF Next, TurnStep

LEMMA Inductive == Spec => []IndInv
  BY InitIndInv, NextKeeps, PTL DEF Spec

-----------------------------------------------------------------------------

(* The loop's variables keep their types, its input and its controller are *)
(* there exactly while a turn is (runTurn's try and finally).              *)
THEOREM TypesKept == Spec => []TypeOK
  BY Inductive, IndInvTypeOK, PTL

(* ConvServicer's busy flag, set and cleared in three places, says what it *)
(* is meant to say: a turn or an accepted say is in hand.                  *)
THEOREM BusyIsExact == Spec => []BusyWhileTaken
  <1>1. IndInv => BusyWhileTaken
    BY DEF IndInv
  <1>2. QED
    BY Inductive, <1>1, PTL

(* WireSayInbox needs no queue: no accepted say is overwritten.            *)
THEOREM OneSaySuffices == Spec => SaysNeverOverwritten
  <1>1. IndInv /\ [Next]_vars => [inbox # None => inbox' \in {None, inbox}]_vars
    BY InboxKept
  <1>2. QED
    BY Inductive, <1>1, PTL DEF Spec, SaysNeverOverwritten

(* A cancel never reaches past the turn it was meant for: the next one     *)
(* starts with a controller of its own, and with the coordinator reset.    *)
(* [runTurn's finally, QueryRunner.run's reset]                            *)
THEOREM NoTurnStartsCancelled == Spec => TurnsStartUncancelled
  <1>1. Spec => [][StartsFresh]_vars
    BY Inductive, StepStartsFresh, PTL DEF Spec
  <1>2. QED
    BY <1>1 DEF TurnsStartUncancelled, StartsFresh

=============================================================================
