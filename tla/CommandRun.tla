---------------------------- MODULE CommandRun -----------------------------
(***************************************************************************)
(* A list of commands, as ExecV3 runs it: engine.evaluate goes through the *)
(* pipelines under bash's list rules, runPipeline starts the stages of one *)
(* with a bridge between each and the next, and Executor.run settles a     *)
(* stage when its process has closed and what it wrote is taken.           *)
(*                                                                         *)
(* A program is what it does to its pipe: see Programs.  A bridge and a    *)
(* process's stdin hold one item each.  Node's streams are external: a     *)
(* bridge is over for who waits on it when it was read to its end, or      *)
(* destroyed; a pipe into a process that is gone reads no more.            *)
(*                                                                         *)
(* Below, what the older engines make of the exits: the trees that ExecV2  *)
(* runs (executeTree, and its copy pump for what feeds a pipe), and the    *)
(* list of steps that Exec runs, each a command or a pipe.                 *)
(***************************************************************************)
EXTENDS Naturals, Sequences, FiniteSets
LOCAL INSTANCE SequencesExt

CONSTANTS
  Lists,                           \* the inputs: sequences of [program, op]
  MaxLeaves                        \* bound: the commands of a forest

VARIABLES
  commands, k, results, lastExit,  \* evaluate: its input, the pipeline it is at, $?
  stage, pending, status,          \* per command: its run, the signal on its way, how it ended
  bridge, stdin,                   \* per command: what goes to the next, what its process has not read
  cancelled, over,
  firstGone,                       \* history: the commands whose consumer settled while they had not
  forest                           \* trees of commands: an input that grows

vars == <<commands, k, results, lastExit, stage, pending, status, bridge, stdin, cancelled, over, firstGone>>

(* endless: writes for ever; deaf: the same, and handles SIGPIPE; first: takes  *)
(* one item, passes it on and exits; filter: passes on all there is; still:      *)
(* neither reads nor ends; works, fails: exit 0 and 1 by themselves; missing:    *)
(* there is no such program; away: no such directory.                            *)
Programs == {"endless", "deaf", "first", "filter", "still", "works", "fails", "missing", "away"}

Null    == "null"
Open    == [n |-> 0, ended |-> FALSE, drained |-> FALSE, destroyed |-> FALSE]
Indices == DOMAIN commands
Program(i) == commands[i].program
Settled(i) == stage[i] = "settled"

(* group: a pipeline is a maximal run of "|"; its last op connects it. *)
Ends     == {i \in Indices : commands[i].op # "|"}
LastOf(i)  == CHOOSE j \in Ends : i <= j /\ \A m \in Ends : i <= m => j <= m
FirstOf(i) == CHOOSE j \in 1..i : LastOf(j) = LastOf(i) /\ \A m \in 1..i : LastOf(m) = LastOf(i) => j <= m
IsLast(i)  == i \in Ends
Stages     == {i \in Indices : LastOf(i) = LastOf(k)}
Feeds(i)   == i # FirstOf(i)

Init ==
  /\ commands \in Lists
  /\ k = 1
  /\ results = [i \in Indices |-> Null] /\ lastExit = "0"
  /\ stage = [i \in Indices |-> "none"] /\ pending = [i \in Indices |-> Null] /\ status = [i \in Indices |-> Null]
  /\ bridge = [i \in Indices |-> Open] /\ stdin = [i \in Indices |-> 0]
  /\ cancelled = FALSE /\ over = FALSE /\ firstGone = {}

-----------------------------------------------------------------------------
(* evaluate *)
Follows(first, exit) ==
  first > 1 =>
    CASE commands[first - 1].op = "&&" -> exit = "0"
      [] commands[first - 1].op = "||" -> exit # "0"
      [] OTHER                         -> TRUE

Moves(next) == IF next > Len(commands) THEN over' = TRUE /\ UNCHANGED k ELSE k' = next /\ UNCHANGED over

Skip ==
  /\ ~over /\ stage[k] = "none"
  /\ ~Follows(k, lastExit)
  /\ Moves(LastOf(k) + 1)
  /\ UNCHANGED <<commands, results, lastExit, stage, pending, status, bridge, stdin, cancelled, firstGone>>

(* runPipeline starts every stage at once; Executor.run starts no process under *)
(* a signal that has fired, nor in a directory there is not.                     *)
RunPipeline ==
  /\ ~over /\ stage[k] = "none"
  /\ Follows(k, lastExit)
  /\ LET Starts(i) == ~cancelled /\ Program(i) # "away" IN
     /\ stage' = [i \in Indices |-> IF i \in Stages THEN (IF Starts(i) THEN "running" ELSE "closed") ELSE stage[i]]
     /\ status' = [i \in Indices |-> IF i \in Stages /\ ~Starts(i) THEN (IF cancelled THEN "SIGTERM" ELSE "126") ELSE status[i]]
     /\ bridge' = [i \in Indices |-> IF i \in Stages /\ ~Starts(i) THEN [bridge[i] EXCEPT !.ended = TRUE] ELSE bridge[i]]
  /\ UNCHANGED <<commands, k, results, lastExit, pending, stdin, cancelled, over, firstGone>>

PipelineSettles ==
  /\ ~over /\ \A i \in Stages : Settled(i)
  /\ results' = [i \in Indices |-> IF i \in Stages THEN status[i] ELSE results[i]]
  /\ lastExit' = status[LastOf(k)]
  /\ Moves(LastOf(k) + 1)
  /\ UNCHANGED <<commands, stage, pending, status, bridge, stdin, cancelled, firstGone>>

-----------------------------------------------------------------------------
(* A bridge flows into the process it feeds while there is one. *)
Flow(i) ==
  /\ ~IsLast(i) /\ stage[i + 1] = "running" /\ Program(i + 1) # "missing" /\ ~bridge[i].destroyed
  /\ \/ /\ bridge[i].n = 1 /\ stdin[i + 1] = 0
        /\ bridge' = [bridge EXCEPT ![i].n = 0] /\ stdin' = [stdin EXCEPT ![i + 1] = 1]
     \/ /\ bridge[i].n = 0 /\ bridge[i].ended /\ ~bridge[i].drained
        /\ bridge' = [bridge EXCEPT ![i].drained = TRUE] /\ UNCHANGED stdin
  /\ UNCHANGED <<commands, k, results, lastExit, stage, pending, status, cancelled, over, firstGone>>

Takes(i)  == IsLast(i) \/ (bridge[i].n = 0 /\ ~bridge[i].destroyed)
Written(i) == IF IsLast(i) THEN bridge ELSE [bridge EXCEPT ![i].n = 1]
AtEnd(i)  == stdin[i] = 0 /\ (Feeds(i) => bridge[i - 1].drained)

(* 'close', with what the process wrote in its bridge: the sinks are ended. *)
Closes(i, how, written) ==
  /\ stage' = [stage EXCEPT ![i] = "closed"]
  /\ status' = [status EXCEPT ![i] = how]
  /\ bridge' = [written EXCEPT ![i].ended = TRUE]

Process(i) ==
  /\ stage[i] = "running"
  /\ \/ /\ Program(i) \in {"endless", "deaf"} /\ ~IsLast(i) /\ Takes(i)
        /\ bridge' = Written(i)
        /\ UNCHANGED <<stage, status, stdin>>
     \/ /\ Program(i) = "filter" /\ stdin[i] = 1 /\ Takes(i)
        /\ stdin' = [stdin EXCEPT ![i] = 0] /\ bridge' = Written(i)
        /\ UNCHANGED <<stage, status>>
     \/ /\ Program(i) = "first" /\ stdin[i] = 1 /\ Takes(i)
        /\ Closes(i, "0", Written(i)) /\ UNCHANGED stdin
     \/ Program(i) \in {"filter", "first"} /\ AtEnd(i) /\ Closes(i, "0", bridge) /\ UNCHANGED stdin
     \/ Program(i) = "works" /\ Closes(i, "0", bridge) /\ UNCHANGED stdin
     \/ Program(i) = "fails" /\ Closes(i, "1", bridge) /\ UNCHANGED stdin
     \/ Program(i) = "missing" /\ Closes(i, "127", bridge) /\ UNCHANGED stdin
  /\ UNCHANGED <<commands, k, results, lastExit, pending, cancelled, over, firstGone>>

Dies(i) ==
  /\ stage[i] = "running" /\ pending[i] # Null /\ Program(i) # "missing"
  /\ Closes(i, IF Program(i) = "deaf" /\ pending[i] = "SIGPIPE" THEN "SIGKILL" ELSE pending[i], bridge)
  /\ UNCHANGED <<commands, k, results, lastExit, pending, stdin, cancelled, over, firstGone>>

(* #groupKill of the stages, each of which hears of one abort. *)
Kills(set, signal) == pending' = [i \in Indices |-> IF i \in set /\ stage[i] = "running" /\ pending[i] = Null THEN signal ELSE pending[i]]

-----------------------------------------------------------------------------
(* closeSinks has its bridge finished; teardownUpstreamOf. *)
SinkFinished(i) == IsLast(i) \/ bridge[i].drained \/ bridge[i].destroyed

(* Variant: the bridge of a producer that is torn down is left as it is. *)
DestroysNone(up) == UNCHANGED bridge
Destroys(up) == bridge' = [bridge EXCEPT ![up].destroyed = TRUE]

Settles(i) ==
  /\ stage[i] = "closed" /\ SinkFinished(i)
  /\ stage' = [stage EXCEPT ![i] = "settled"]
  /\ IF ~cancelled /\ Feeds(i) /\ ~Settled(i - 1)
       THEN /\ Destroys(i - 1) /\ Kills({i - 1}, "SIGPIPE")
            /\ firstGone' = firstGone \cup {i - 1}
       ELSE UNCHANGED <<bridge, pending, firstGone>>
  /\ UNCHANGED <<commands, k, results, lastExit, status, stdin, cancelled, over>>

(* The timeout, or the user: every stage hears of it. *)
Cancel ==
  /\ ~cancelled /\ ~over
  /\ cancelled' = TRUE
  /\ Kills(Stages, "SIGTERM")
  /\ UNCHANGED <<commands, k, results, lastExit, stage, status, bridge, stdin, over, firstGone>>

Next ==
  \/ Skip \/ RunPipeline \/ PipelineSettles \/ Cancel
  \/ \E i \in Indices : Flow(i) \/ Settles(i) \/ Dies(i) \/ Process(i)

(* The event loop runs what is due, streams flow, a process does what it is to   *)
(* do and dies of its signal, by SIGKILL after the grace period at the latest.    *)
EngineStep     == Skip \/ RunPipeline \/ PipelineSettles
StageStep(i)   == i \in Indices /\ (Flow(i) \/ Settles(i))
DiesStep(i)    == i \in Indices /\ Dies(i)
ProcessStep(i) == i \in Indices /\ Process(i)
Fairness ==
  /\ WF_vars(EngineStep)
  /\ \A i \in 1..4 : WF_vars(StageStep(i)) /\ WF_vars(DiesStep(i)) /\ WF_vars(ProcessStep(i))
Spec == Init /\ [][Next]_vars /\ Fairness

-----------------------------------------------------------------------------
(* The exit of a pipeline is its last command's; the list's is bash's: read     *)
(* from the left, with every sequential step starting anew.                      *)
ListExit ==
  LET Exit[e \in 0..Len(commands)] ==
        IF e = 0 THEN "0"
        ELSE IF e \notin Ends THEN Null
        ELSE LET before == Exit[FirstOf(e) - 1]  op == IF FirstOf(e) = 1 THEN ";" ELSE commands[FirstOf(e) - 1].op IN
             IF (op = "&&" /\ before # "0") \/ (op = "||" /\ before = "0") THEN before ELSE status[e]
  IN Exit

(* A result stands at its command's place, a pipeline is skipped as a whole, and *)
(* exactly those that bash would skip are.                                        *)
ResultsArePlaced ==
  over => /\ \A i \in Indices : results[i] = status[i]
          /\ lastExit = ListExit[Len(commands)]
          /\ \A e \in Ends : \A i \in FirstOf(e)..e : (results[i] = Null) = (results[e] = Null)
          /\ \A e \in Ends : results[e] = Null <=> ~Follows(FirstOf(e), ListExit[FirstOf(e) - 1])

(* A stage dies of a broken pipe only when its consumer has gone before it, and  *)
(* of a cancel only when there was one; what ended by itself says so.             *)
SignalsAreHonest ==
  \A i \in Indices :
    /\ status[i] = "SIGPIPE" => i \in firstGone /\ Settled(i + 1)
    /\ status[i] = "SIGTERM" => cancelled
    /\ Program(i) \in {"works", "fails", "missing"} /\ status[i] \notin {Null, "SIGTERM", "SIGPIPE"} =>
         status[i] = (CASE Program(i) = "works" -> "0" [] Program(i) = "fails" -> "1" [] OTHER -> "127")

(* No pipeline is left behind: all before the one at work are settled or skipped. *)
NoneLeftBehind == \A i \in 1..(k - 1) : stage[i] \in {"none", "settled"}

PipelineSound == ResultsArePlaced /\ SignalsAreHonest /\ NoneLeftBehind

(* A producer does not outlive its consumer, unless all are cancelled.            *)
ProducersFollow ==
  \A i \in 1..3 : (i + 1 \in Indices /\ ~IsLast(i) /\ Settled(i + 1)) ~> (cancelled \/ (i \in Indices => Settled(i)))

(* A cancel ends the run.                                                         *)
CancelEndsTheRun == cancelled ~> over

-----------------------------------------------------------------------------
(* Trees.  A command is its place and how it ends.  forest is built as a reader  *)
(* would read the input: a command is put at its end, an operator joins the last  *)
(* two.  The schema has a command at the right of every pipe, so the throw for    *)
(* another is out of reach.                                                       *)
Ops    == {";", "&&", "||", "&", "|"}
Exits  == {"0", "1", "127"}
Leaf(id, exit)  == [op |-> "program", id |-> id, exit |-> exit]
Node(op, l, r)  == [op |-> op, left |-> l, right |-> r]
IsLeaf(t)       == t.op = "program"

RECURSIVE CollectLeaves(_)
CollectLeaves(t) == IF IsLeaf(t) THEN <<t>> ELSE CollectLeaves(t.left) \o CollectLeaves(t.right)
Leaves(trees) == FlattenSeq([i \in DOMAIN trees |-> CollectLeaves(trees[i])])

InitTree == forest = <<>>
NextTree ==
  \/ /\ Len(Leaves(forest)) < MaxLeaves
     /\ \E exit \in Exits : forest' = Append(forest, Leaf(Len(Leaves(forest)) + 1, exit))
  \/ /\ Len(forest) > 1
     /\ LET n == Len(forest) IN
        \E op \in Ops :
          /\ op = "|" => IsLeaf(forest[n])
          /\ forest' = Append(SubSeq(forest, 1, n - 2), Node(op, forest[n - 1], forest[n]))
TreeSpec == InitTree /\ [][NextTree]_forest

-----------------------------------------------------------------------------
(* What a run gives: the step that ran, in the order of their results, and *)
(* the exit of the whole.                                                       *)
Outcome(ran, exit) == [ran |-> ran, exit |-> exit]
Both(l, r, exit) == Outcome(l.ran \o r.ran, exit)
CombineUnguarded(l, r) == Both(l, r, IF l.exit # "0" THEN l.exit ELSE r.exit)
AnyFailed(ran) == \E i \in DOMAIN ran : ran[i].exit # "0"

(* Variant: a pipe ends as its last command does. *)
PipedAsBash(l, r) == Both(l, r, r.exit)
Piped(l, r) == Both(l, r, IF AnyFailed(l.ran \o r.ran) THEN "1" ELSE r.exit)

RECURSIVE Pump(_)
Pump(t) ==
  IF IsLeaf(t) THEN Outcome(<<t>>, t.exit)
  ELSE LET l == Pump(t.left)  r == Pump(t.right) IN
       CASE t.op = "|"          -> Piped(l, r)
         [] t.op \in {";", "&"} -> CombineUnguarded(l, r)
         [] t.op = "&&"         -> IF l.exit = "0" THEN Both(l, r, r.exit) ELSE l
         [] t.op = "||"         -> IF l.exit # "0" THEN Both(l, r, r.exit) ELSE l

RECURSIVE ExecuteTree(_)
ExecuteTree(t) ==
  IF IsLeaf(t) THEN Outcome(<<t>>, t.exit)
  ELSE IF t.op = "|" THEN Piped(Pump(t.left), Outcome(<<t.right>>, t.right.exit))
  ELSE LET l == ExecuteTree(t.left)  r == ExecuteTree(t.right) IN
       CASE t.op \in {";", "&"} -> CombineUnguarded(l, r)
         [] t.op = "&&"         -> IF l.exit = "0" THEN Both(l, r, r.exit) ELSE l
         [] t.op = "||"         -> IF l.exit # "0" THEN Both(l, r, r.exit) ELSE l

Success(t) == ExecuteTree(t).exit = "0"

-----------------------------------------------------------------------------
(* Exec: a step that is a pipe ends as its last command, unless one before it   *)
(* could not be launched; execute chains the steps.                              *)
ExecStep(step) ==
  LET unlaunched == SelectSeq(Front(step), LAMBDA c : c.exit = "127")
  IN IF unlaunched # <<>> THEN Head(unlaunched).exit ELSE Last(step).exit

Execute(steps, chaining) ==
  LET failing == {i \in DOMAIN steps : ExecStep(steps[i]) # "0"}
      bails   == chaining = "bail_on_error" /\ failing # {}
  IN [ran     |-> IF bails THEN SubSeq(steps, 1, CHOOSE i \in failing : \A j \in failing : i <= j) ELSE steps,
      success |-> failing = {}]

-----------------------------------------------------------------------------
RECURSIVE Subtrees(_)
Subtrees(t) == {t} \cup IF IsLeaf(t) THEN {} ELSE Subtrees(t.left) \cup Subtrees(t.right)
LeavesOf(t) == ToSet(CollectLeaves(t))
Within(c, t) == c \in LeavesOf(t)

(* A failure is forgiven by a "||" it is to the left of, whatever is in between, *)
(* if no pipe is around that.                                                      *)
Forgiven(c, t) ==
  \E a \in Subtrees(t) :
    /\ a.op = "||" /\ Within(c, a.left)
    /\ \A p \in Subtrees(t) : p.op = "|" => ~(a \in Subtrees(p))

(* Given what ran, a tree succeeds when all that failed in it is forgiven.        *)
Succeeds(t, ran) == \A c \in ran \cap LeavesOf(t) : c.exit # "0" => Forgiven(c, t)

(* The exit tells whether all that had to work did, a command runs exactly when  *)
(* the left sides of its "&&" succeed and of its "||" fail, and the results come  *)
(* in the order of the input; feeding a pipe is no different.                     *)
TreesRunAsWritten ==
  \A i \in DOMAIN forest :
    LET t == forest[i]  out == ExecuteTree(t)  ran == ToSet(out.ran) IN
    /\ (out.exit = "0") = Succeeds(t, ran)
    /\ out.ran = SelectSeq(CollectLeaves(t), LAMBDA c : c \in ran)
    /\ \A c \in LeavesOf(t) :
         c \in ran <=> \A a \in Subtrees(t) :
                         /\ a.op = "&&" /\ Within(c, a.right) => Succeeds(a.left, ran)
                         /\ a.op = "||" /\ Within(c, a.right) => ~Succeeds(a.left, ran)
    /\ Pump(t) = out

(* Exec and ExecV2 agree on a list of steps, as long as nothing but a failure to *)
(* launch happens inside a pipe: the one is the other with every gap filled by    *)
(* its operator.                                                                   *)
IsStep(t) == \A s \in Subtrees(t) : IsLeaf(s) \/ (s.op = "|" /\ s.left.op \in {"program", "|"})
OpOf      == [sequential |-> ";", bail_on_error |-> "&&", independent |-> "&"]
ChainingAgrees ==
  (/\ forest # <<>> /\ \A i \in DOMAIN forest : IsStep(forest[i])
   /\ \A i \in DOMAIN forest : \A c \in ToSet(Front(CollectLeaves(forest[i]))) : c.exit # "1") =>
  \A chaining \in DOMAIN OpOf :
    LET steps == [i \in DOMAIN forest |-> CollectLeaves(forest[i])]
        tree  == FoldLeft(LAMBDA l, r : Node(OpOf[chaining], l, r), Head(forest), Tail(forest))
        v1    == Execute(steps, chaining)
    IN /\ v1.success = Success(tree)
       /\ ToSet(FlattenSeq(v1.ran)) = ToSet(ExecuteTree(tree).ran)

TreesSound == TreesRunAsWritten /\ ChainingAgrees
=============================================================================
