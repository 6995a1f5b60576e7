---------------------------- MODULE MigrateAudit ----------------------------
(***************************************************************************)
(* The backfill of one audit file (scripts/migrateAudit.ts): the user line *)
(* of every turn an older CLI recorded without one is put back from the    *)
(* conversation file, and both lines get the turn's ids.  The script's     *)
(* awaits are its steps; a CLI it was told is not running may still append,*)
(* and the script may die between any two.                                 *)
(*                                                                         *)
(* A line is who said it, the key its content matches by (0: no text and   *)
(* no tool call), its ids (0: none); a user row opens a query or goes on   *)
(* with one.  A new id is the next number.                                 *)
(***************************************************************************)
EXTENDS Naturals, Sequences, FiniteSets, TLC
LOCAL INSTANCE SequencesExt
LOCAL INSTANCE FiniteSetsExt

CONSTANTS
  Keys,       \* the keys of what an assistant may say, 0 among them
  MaxTurns,   \* bound: turns recorded
  MaxRuns     \* bound: runs of the script

VARIABLES
  file, conversation,                    \* <id>.jsonl under audit/ and under conversations/
  backups, tmp,                          \* bak/<id>.bak.<n>, and the file written alongside
  step, apply, beforeSize, auditRaw, output, outcome,    \* one run
  ids, turns, runs,                      \* ids and turns handed out, runs begun
  said, replaced, sliver, lost           \* history: what assistants said, contents replaced, an append since the last look, one swapped away

vars == <<file, conversation, backups, tmp, step, apply, beforeSize, auditRaw, output, outcome,
          ids, turns, runs, said, replaced, sliver, lost>>
run  == <<apply, beforeSize, auditRaw, output, outcome>>
live == <<conversation, ids, turns, said>>

User(key, turn, query, opens) == [role |-> "user", key |-> key, turn |-> turn, query |-> query, opens |-> opens]
Assistant(key, turn, query)   == [role |-> "assistant", key |-> key, turn |-> turn, query |-> query, opens |-> FALSE]
Torn                          == Assistant(0, 0, 0) @@ [torn |-> TRUE]

IsAssistant(line) == line.role = "assistant"
Assistants(lines) == SelectSeq(lines, IsAssistant)
NeedsWork(lines)  == \E i \in DOMAIN lines : IsAssistant(lines[i]) /\ lines[i].turn = 0
Parses(lines)     == \A i \in DOMAIN lines : "torn" \notin DOMAIN lines[i]

-----------------------------------------------------------------------------
(* align: the walk so far is what it wrote, the conversation rows it used up, *)
(* the query it is in (0: none yet) and the last id it made.                   *)
NextAssistant(rows, used) ==
  LET after == {a \in DOMAIN rows : a > used /\ IsAssistant(rows[a])} IN IF after = {} THEN 0 ELSE Min(after)

Opens(walk, row) == row.opens \/ walk.query = 0

AlignLine(rows, walk, line) ==
  LET a       == NextAssistant(rows, walk.used)
      matches == line.key # 0 /\ a # 0 /\ rows[a].key = line.key
      paired  == a > 1 /\ rows[a - 1].role = "user"
      fresh   == IF paired THEN Opens(walk, rows[a - 1]) ELSE walk.query = 0
      query   == IF fresh THEN walk.last + 1 ELSE walk.query
      turn    == walk.last + (IF fresh THEN 2 ELSE 1)
      stamped == [line EXCEPT !.turn = turn, !.query = query] IN
  CASE line.role = "user" ->
         [walk EXCEPT !.out = Append(@, line), !.query = IF line.query # 0 THEN line.query ELSE @]
    [] line.role # "user" /\ ~matches ->      \* an interrupted turn: left as it is
         [walk EXCEPT !.out = Append(@, line)]
    [] line.role # "user" /\ matches /\ line.turn # 0 ->
         [walk EXCEPT !.out = Append(@, line), !.used = a]
    [] line.role # "user" /\ matches /\ line.turn = 0 ->
         [out |-> walk.out \o (IF paired THEN <<User(rows[a - 1].key, turn, query, rows[a - 1].opens), stamped>>
                                         ELSE <<stamped>>),
          used |-> a, query |-> query, last |-> turn]

Align(lines, rows, last) ==
  FoldLeft(LAMBDA walk, line : AlignLine(rows, walk, line), [out |-> <<>>, used |-> 0, query |-> 0, last |-> last], lines)

-----------------------------------------------------------------------------
Init ==
  /\ file = <<>> /\ conversation = <<>> /\ backups = <<>> /\ tmp = <<>>
  /\ step = "idle" /\ apply = FALSE /\ beforeSize = 0 /\ auditRaw = <<>> /\ output = <<>> /\ outcome = "none"
  /\ ids = 0 /\ turns = 0 /\ runs = 0
  /\ said = <<>> /\ replaced = {} /\ sliver = FALSE /\ lost = FALSE

(* A CLI records a turn: an old one its assistant line alone, a new one the    *)
(* pair; a turn that was interrupted is not in the conversation.               *)
Record(lines, row, key, interrupted) ==
  /\ turns < MaxTurns
  /\ turns' = turns + 1
  /\ file' = file \o lines
  /\ said' = Append(said, key)
  /\ conversation' = IF interrupted THEN conversation ELSE conversation \o <<row, Assistant(key, 0, 0)>>
  /\ sliver' = (sliver \/ step \in {"backup", "tmp", "rename"})
  /\ UNCHANGED <<backups, tmp, step, run, runs, replaced, lost>>

Continues == conversation # <<>>
OldTurn(key, opens, interrupted) ==
  /\ opens \/ Continues
  /\ Record(<<Assistant(key, 0, 0)>>, User(turns + 1, 0, 0, opens), key, interrupted)
  /\ UNCHANGED ids
NewTurn(key, interrupted) ==
  /\ Record(<<User(turns + 1, ids + 1, ids + 2, TRUE), Assistant(key, ids + 1, ids + 2)>>,
            User(turns + 1, 0, 0, TRUE), key, interrupted)
  /\ ids' = ids + 2

(* The conversation was cut short since; between two runs, as a run reads it *)
(* once.                                                                      *)
CutConversation ==
  /\ step = "idle" /\ conversation # <<>>
  /\ conversation' = Tail(conversation)
  /\ UNCHANGED <<file, backups, tmp, step, run, ids, turns, runs, said, replaced, sliver, lost>>

TearLine ==
  /\ turns < MaxTurns
  /\ turns' = turns + 1 /\ file' = Append(file, Torn) /\ said' = Append(said, 0)
  /\ sliver' = (sliver \/ step \in {"backup", "tmp", "rename"})
  /\ UNCHANGED <<conversation, backups, tmp, step, run, ids, runs, replaced, lost>>

-----------------------------------------------------------------------------
(* migrateSession *)
Begin(writes) ==
  /\ step = "idle" /\ runs < MaxRuns
  /\ runs' = runs + 1 /\ step' = "read"
  /\ apply' = writes /\ beforeSize' = Len(file) /\ outcome' = "none"
  /\ sliver' = FALSE
  /\ UNCHANGED <<file, live, backups, tmp, auditRaw, output, replaced, lost>>

Ends(as) == step' = "idle" /\ outcome' = as

ReadFile ==
  /\ step = "read"
  /\ auditRaw' = file
  /\ CASE ~Parses(file)                        -> Ends("corrupt")
       [] Parses(file) /\ ~NeedsWork(file)     -> Ends("unchanged")
       [] Parses(file) /\ NeedsWork(file)      -> step' = "align" /\ UNCHANGED outcome
  /\ UNCHANGED <<file, live, backups, tmp, apply, beforeSize, output, runs, replaced, sliver, lost>>

(* The conversation is read, the lines are aligned, and what would lose or     *)
(* double an answer, or change nothing, goes no further.                        *)
ReadConversation ==
  LET walk == Align(auditRaw, conversation, ids) IN
  /\ step = "align"
  /\ output' = walk.out /\ ids' = walk.last
  /\ CASE conversation = <<>>                                          -> Ends("skipped")
       [] conversation # <<>> /\ Len(Assistants(walk.out)) # Len(Assistants(auditRaw)) -> Ends("failed")
       [] conversation # <<>> /\ walk.out = auditRaw                   -> Ends("unchanged")
       [] OTHER                                                        -> step' = "stat" /\ UNCHANGED outcome
  /\ UNCHANGED <<file, conversation, turns, said, backups, tmp, apply, beforeSize, auditRaw, runs, replaced, sliver, lost>>

Recheck ==
  /\ step = "stat"
  /\ CASE Len(file) # beforeSize            -> Ends("raced")
       [] Len(file) = beforeSize /\ ~apply  -> Ends("migrate")
       [] Len(file) = beforeSize /\ apply   -> step' = "backup" /\ UNCHANGED outcome
  /\ UNCHANGED <<file, live, backups, tmp, apply, beforeSize, auditRaw, output, runs, replaced, sliver, lost>>

NextBackupIndex == Len(backups) + 1    \* one above the highest there is: numbers are never reused
Backup ==
  /\ step = "backup"
  /\ backups' = backups \o [n \in 1..(NextBackupIndex - Len(backups)) |-> auditRaw]
  /\ step' = "tmp"
  /\ UNCHANGED <<file, live, tmp, run, runs, replaced, sliver, lost>>

WriteAlongside ==
  /\ step = "tmp"
  /\ tmp' = output /\ step' = "rename"
  /\ UNCHANGED <<file, live, backups, run, runs, replaced, sliver, lost>>

Swap ==
  /\ step = "rename"
  /\ file' = tmp /\ lost' = (lost \/ sliver) /\ replaced' = replaced \cup {auditRaw}
  /\ Ends("migrate")
  /\ UNCHANGED <<live, backups, tmp, apply, beforeSize, auditRaw, output, runs, sliver>>

Dies ==
  /\ step # "idle"
  /\ Ends("died")
  /\ UNCHANGED <<file, live, backups, tmp, apply, beforeSize, auditRaw, output, runs, replaced, sliver, lost>>

Next ==
  \/ \E key \in Keys, opens, interrupted \in BOOLEAN : OldTurn(key, opens, interrupted)
  \/ \E key \in Keys, interrupted \in BOOLEAN : NewTurn(key, interrupted)
  \/ CutConversation
  \/ TearLine
  \/ \E writes \in BOOLEAN : Begin(writes)
  \/ ReadFile \/ ReadConversation \/ Recheck \/ Backup \/ WriteAlongside \/ Swap \/ Dies

-----------------------------------------------------------------------------
Spoken(lines) == [i \in DOMAIN Assistants(lines) |-> Assistants(lines)[i].key]

(* Whatever the script did and wherever it stopped, every answer ever recorded *)
(* is in the file, in order and once; only an append in the sliver between the  *)
(* second look and the rename is not covered.                                   *)
NoAnswerLost == ~lost => Spoken(file) = said

(* A user line stands right before the answer of its turn and shares its ids,  *)
(* and no two turns share one.                                                  *)
PairsBelong ==
  \A i \in DOMAIN file : file[i].role = "user" =>
    /\ i < Len(file) /\ IsAssistant(file[i + 1])
    /\ file[i + 1].turn = file[i].turn /\ file[i + 1].query = file[i].query
    /\ \A j \in DOMAIN file \ {i, i + 1} : file[j].turn # file[i].turn

(* A turn that goes on with the query before it has that query's id. *)
ContinuationsShareTheQuery ==
  \A i \in DOMAIN file : file[i].role = "user" /\ ~file[i].opens =>
    \A j \in 1..(i - 1) : (/\ file[j].role = "user" /\ \A k \in (j + 1)..(i - 1) : file[k].role # "user")
                            => file[j].query = file[i].query

(* The migration converges: aligning what it writes would change nothing.    *)
Converges ==
  step = "align" => LET walk == Align(auditRaw, conversation, ids) IN Align(walk.out, conversation, walk.last).out = walk.out

(* Every content that was replaced is kept under a number of its own.          *)
OldFilesKept == \A raw \in replaced : \E n \in DOMAIN backups : backups[n] = raw
=============================================================================
