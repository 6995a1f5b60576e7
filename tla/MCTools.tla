------------------------------- MODULE MCTools -------------------------------
(***************************************************************************)
(* What happens to a tool's call, one part at a time: the configuration     *)
(* that decides, the rules its commands are judged by, whether it may run,  *)
(* and the tools that run commands or change a file.  A behaviour is that   *)
(* of the subject chosen at the start, the others stand still.              *)
(***************************************************************************)
EXTENDS ConfigFiles, Integers, FiniteSets, TLC

CONSTANTS
  Overrides,
  Lists,
  MaxLeaves,
  FileTexts, Insertions, Needles, Patterns, Replacements, CONTEXT, MaxEdits, MaxEntries, MaxLine,
  Raws, DefaultRules, Commands,
  Sessions, Cwd, Layouts, Matrices, ToolOperations, WorkspaceTools, Frictionless, Calls, MaxMoves, MaxHops

VARIABLES
  subject,
  files, made, watched, pending, cwd, config, override, phase, shown, believed, jobs, prompts, edits, blind, deaf, unseen, crossed,
  commands, k, results, lastExit, stage, signalled, status, bridge, stdin, cancelled, over, firstGone,
  forest,
  file, lineEdits, textEdits, entries,
  raw, current, degraded, lastError, valid, told,
  layout, matrix, enabled, id, verified, verifiedFor, resolving, moving, moves, overlapped, call

-----------------------------------------------------------------------------
(* Configuration: the home file whole and torn; a local file that overrides,   *)
(* one that takes away and disables, one whose null is nested, one that does    *)
(* not fit the schema.                                                         *)
Leaf(v)  == [kind |-> "leaf", of |-> v]
Null     == [kind |-> "null", of |-> 0]
Obj(f)   == [kind |-> "object", of |-> f]
Lst(s)   == [kind |-> "list", of |-> s]
Absent   == [kind |-> "absent", of |-> Nothing]
Torn     == [kind |-> "torn", of |-> Nothing]
SomeContents ==
  [home |-> {Torn, Obj([model |-> Leaf("m1"), permissions |-> Obj([default |-> Leaf("ask"), outside |-> Leaf("deny")])])},
   d1   |-> {Absent, Torn, Obj([model |-> Leaf("m2"), permissions |-> Obj([default |-> Leaf("approve")])]),
             Obj([model |-> Null, disabledTools |-> Lst(<<"t">>)])},
   d2   |-> {Absent, Obj([permissions |-> Obj([default |-> Null])]), Obj([model |-> Obj([x |-> Null])])}]
SomeDefaults == [model |-> "m0", default |-> "approve", outside |-> "ask"]

(* Lists of commands: pipes that are cut short at either end, a missing program  *)
(* and directory, a filter in the middle, and the list operators around a pipe.  *)
Cmd(program, op) == [program |-> program, op |-> op]
SomeLists == {
  <<Cmd("endless", "|"), Cmd("first", ";")>>,
  <<Cmd("deaf", "|"), Cmd("filter", "|"), Cmd("first", ";")>>,
  <<Cmd("endless", "|"), Cmd("missing", "||"), Cmd("works", ";")>>,
  <<Cmd("away", "|"), Cmd("filter", "&&"), Cmd("fails", "||"), Cmd("still", ";")>>,
  <<Cmd("fails", "&&"), Cmd("works", "|"), Cmd("first", ";"), Cmd("works", ";")>>}

(* Lists a cancel is tried on: a producer that never ends by itself, and a  *)
(* pipeline that comes after a command that is cancelled.                      *)
CancelledLists == {
  <<[program |-> "endless", op |-> "|"], [program |-> "first", op |-> ";"]>>,
  <<[program |-> "endless", op |-> "|"], [program |-> "filter", op |-> "|"], [program |-> "still", op |-> ";"]>>,
  <<[program |-> "still", op |-> ";"], [program |-> "works", op |-> "|"], [program |-> "filter", op |-> ";"]>>,
  <<[program |-> "endless", op |-> "|"], [program |-> "still", op |-> "||"], [program |-> "works", op |-> "|"],
    [program |-> "filter", op |-> ";"]>>}

(* Files to edit, with and without a newline at the end, and none at all. *)
SomeTexts        == {<<>>, <<"a">>, <<"a", "a", "a">>, <<"a", "n">>, <<"a", "n", "b", "n", "a">>, <<"n", "n">>}
SomeInsertions   == {<<>>, <<"a">>, <<"a", "n", "b">>}
SomeNeedles      == {<<"a">>, <<"a", "a">>, <<"n">>}
SomePatterns     == {{"a"}, {"a", "b"}}
SomeReplacements == {<<>>, <<"b", "$">>}

(* Rules: by a bundled flag, by an argument and a flag, by the number of          *)
(* arguments, by a suffix; sections that remove one, replace one with a message    *)
(* that is empty, add one, block a command, and are invalid in two ways.            *)
Rule(programs, suffix, all, any, max, message) ==
  [programs |-> programs, programSuffix |-> suffix, argsAllOf |-> all, argsAnyOf |-> any, maxArgs |-> max, message |-> message]
BuiltIn ==
  ("no-sed-in-place" :> Rule({{"sed"}}, {}, {}, {{<<"-", "i">>}}, {}, {}))
    @@ ("no-force-push" :> Rule({{"git"}}, {}, {{<<"push">>}}, {{<<"-", "f">>, <<"-", "-", "f">>}}, {}, {"m"}))
    @@ ("no-env-dump" :> Rule({{"env"}}, {}, {}, {}, {0}, {}))
    @@ ("no-exe" :> Rule({}, {".exe"}, {}, {}, {}, {}))
Program(name) == <<[name |-> name, suffix |-> ""]>>
Good(rules, blocked) == [ok |-> TRUE, error |-> "none", rules |-> rules, blocked |-> blocked]
Bad(error)           == [ok |-> FALSE, error |-> error, rules |-> <<>>, blocked |-> <<>>]
SomeSections == {
  Good(<<>>, <<>>),
  Good("no-sed-in-place" :> [removed |-> TRUE], <<>>),
  Good(("no-env-dump" :> Rule({{"env"}}, {}, {}, {}, {1}, {""})) @@ ("mine" :> Rule({}, {""}, {}, {}, {}, {})), <<>>),
  Good(<<>>, <<[program |-> Program("git"), args |-> <<<<"pr">>, <<"create">>>>]>>),
  Bad("unknown key"), Bad("no matcher")}
SomeArgs == {
  <<>>, <<<<"-", "n", "i">>>>, <<<<"push">>>>, <<<<"push">>, <<"-", "-", "f", "=", "x">>>>, <<<<"pr">>, <<"create">>>>,
  <<<<"pr">>, <<"-", "f">>, <<"create">>>>, <<<<"create">>, <<"pr">>>>}
SomePrograms ==
  {Program("sed"), Program("git"), Program("env"), <<[name |-> "bin", suffix |-> ""], [name |-> "sed", suffix |-> ""]>>,
   <<[name |-> "x", suffix |-> ".exe"]>>}
OneCommand   == {<<[program |-> p, args |-> a]>> : p \in SomePrograms, a \in SomeArgs}
SomeCommands == OneCommand \cup {<<c[1], [program |-> Program("git"), args |-> <<>>]>> : c \in OneCommand}

(* Two scratchpads and the working directory, with two entries in the first: a   *)
(* directory, or a link to outside, to what is not there, to each other.          *)
XTargets == {<<"o">>, <<"o", "z">>, <<"c1", "y">>}
YTargets == {<<"o">>, <<"c1", "x">>, <<"c2", "x">>}
Base     == {<<"c1">>, <<"c2">>, <<"o">>}
SomeLayouts ==
  {[dirs |-> Base, links |-> (<<"c1", "x">> :> x) @@ (<<"c1", "y">> :> y)] : x \in XTargets, y \in YTargets}
    \cup {[dirs |-> Base \cup {<<"c1", "x">>}, links |-> <<"c1", "y">> :> y] : y \in YTargets}
    \cup {[dirs |-> Base \cup {<<"c1", "y">>}, links |-> <<"c1", "x">> :> x] : x \in XTargets}
Everywhere(action) == [read |-> action, write |-> action, delete |-> action]
SomeMatrices   == {[default |-> Everywhere(0), outside |-> Everywhere(1)], [default |-> Everywhere(1), outside |-> Everywhere(2)]}
SomeLayout     == CHOOSE l \in SomeLayouts : TRUE
SomeMatrix     == CHOOSE m \in SomeMatrices : TRUE
SomeOperations == [EditFile |-> "write", DeleteFile |-> "delete", Exec |-> "write", Az |-> "escalate"]
Single(name, paths) == [name |-> name, paths |-> paths, steps |-> <<>>]
SomePaths  == {<<"c1">>, <<"c1", "x">>, <<"c1", "x", "y">>, <<"c1", "y", "x">>, <<"c1", "w">>, <<"c2", "x">>, <<"o", "x">>}
SomeSingle ==
  {Single(name, <<path>>) : name \in {"EditFile", "DeleteFile", "Exec"}, path \in SomePaths}
    \cup {Single(name, <<>>) : name \in {"Exec", "Az", "Gone", "WriteMemory"}}
    \cup {Single("EditFile", <<<<"c1", "x">>, <<"c1", "y">>>>), Single("EditFile", <<<<"o", "y">>, <<"c1", "y">>>>)}
SomeSteps ==
  {Single("EditFile", <<<<"c1", "w">>>>), Single("Az", <<>>), Single("Gone", <<>>), Single("WriteMemory", <<>>),
   Single("Exec", <<<<"o", "x">>>>)}
SomeCalls ==
  SomeSingle \cup {[name |-> "Pipe", paths |-> <<>>, steps |-> steps] : steps \in {<<>>} \cup {<<a, b>> : a, b \in SomeSteps}}

-----------------------------------------------------------------------------
Config == INSTANCE ConfigReload
Pipe   == INSTANCE CommandRun WITH pending <- signalled
Edits  == INSTANCE FileEdit WITH Contents <- Insertions
Permit == INSTANCE Permissions WITH Tools <- ToolOperations

configuration == <<files, made, watched, pending, cwd, config, override, phase, shown, believed, jobs, prompts, edits, blind, deaf,
             unseen, crossed>>
pipe   == <<commands, k, results, lastExit, stage, signalled, status, bridge, stdin, cancelled, over, firstGone>>
editing == <<file, lineEdits, textEdits, entries>>
rules  == <<raw, current, degraded, lastError, valid, told>>
permit == <<layout, matrix, enabled, id, verified, verifiedFor, resolving, moving, moves, overlapped, call>>
all    == <<subject, configuration, pipe, forest, editing, rules, permit>>

Init ==
  /\ subject \in {"config", "pipe", "trees", "edits", "rules", "permit"}
  /\ IF subject = "config" THEN Config!Init
     ELSE /\ files = <<>> /\ made = {} /\ watched = {} /\ pending = FALSE /\ cwd = "none" /\ config = <<>> /\ override = "none"
          /\ phase = "none" /\ shown = "none" /\ believed = <<>> /\ jobs = <<>> /\ prompts = "none" /\ edits = 0
          /\ blind = FALSE /\ deaf = FALSE /\ unseen = FALSE /\ crossed = FALSE
  /\ Pipe!Init /\ Pipe!InitTree /\ Edits!Init /\ Permit!InitRules /\ Permit!Init
  /\ subject # "pipe"   => commands[1].program = "deaf"
  /\ subject # "edits"  => file = <<>>
  /\ subject # "rules"  => raw = Good(<<>>, <<>>)
  /\ subject # "permit" => id = "c1" /\ enabled = FALSE /\ layout = SomeLayout /\ matrix = SomeMatrix

ConfigStep == subject = "config" /\ Config!Next /\ UNCHANGED <<pipe, forest, editing, rules, permit>>
PipeStep   == subject = "pipe" /\ Pipe!Next /\ UNCHANGED <<configuration, forest, editing, rules, permit>>
TreesStep  == subject = "trees" /\ Pipe!NextTree /\ UNCHANGED <<configuration, pipe, editing, rules, permit>>
EditsStep  == subject = "edits" /\ Edits!Next /\ UNCHANGED <<configuration, pipe, forest, rules, permit>>
RulesStep  == subject = "rules" /\ Permit!NextRules /\ UNCHANGED <<configuration, pipe, forest, editing, permit>>
PermitStep == subject = "permit" /\ Permit!Next /\ UNCHANGED <<configuration, pipe, forest, editing, rules>>

Next ==
  /\ UNCHANGED subject
  /\ ConfigStep \/ PipeStep \/ TreesStep \/ EditsStep \/ RulesStep \/ PermitStep

(* The fairness of the components' own specifications. *)
Piping  == subject = "pipe"
Spec ==
  /\ Init /\ [][Next]_all
  /\ WF_Config!vars(subject = "config" /\ Config!Fires)
  /\ WF_Pipe!vars(Piping /\ Pipe!EngineStep)
  /\ \A i \in 1..4 :
       /\ WF_Pipe!vars(Piping /\ Pipe!StageStep(i))
       /\ WF_Pipe!vars(Piping /\ Pipe!DiesStep(i))
       /\ WF_Pipe!vars(Piping /\ Pipe!ProcessStep(i))

-----------------------------------------------------------------------------
(* Commands run as written: each at its place in its list or tree, skipped as     *)
(* bash skips, and with an exit that tells what became of them.                    *)
CommandsSound == (Piping => Pipe!PipelineSound) /\ (subject = "trees" => Pipe!TreesSound)

(* What a call may do is what was decided of it: the configuration in force is  *)
(* what the files say, edits mean the file as it was, a command is refused by    *)
(* the rules that are in force, and nothing runs unasked that the configuration  *)
(* or the scratchpad does not cover.                                             *)
CallsStayWithin ==
  /\ subject = "config" => (Config!ConfigSound /\ (phase = "unwatched" => MergesByPath))
  /\ subject = "edits"  => Edits!FileEditSound
  /\ subject = "rules"  => Permit!RulesSound
  /\ subject = "permit" => Permit!PermissionsSound

(* Nothing hangs: the pause before a reload ends, and a producer does not          *)
(* outlive its consumer.                                                          *)
NobodyWaits ==
  /\ subject = "config" => Config!EditsLand
  /\ Piping => Pipe!ProducersFollow

(* A cancel ends the run of a list of commands, whatever its stages wait for.      *)
CancelEndsTheRun == Piping => Pipe!CancelEndsTheRun
=============================================================================
