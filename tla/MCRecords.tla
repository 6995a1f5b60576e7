----------------------------- MODULE MCRecords -----------------------------
(***************************************************************************)
(* The records that outlive a process, one at a time: the audit file and   *)
(* who reads it, its backfill, the sweep of the history index, the         *)
(* migrations of a store's schema, the memory store and session log, and   *)
(* the reading back of the history.  A behaviour is that of the subject    *)
(* chosen at the start, the others stand still.                            *)
(***************************************************************************)
EXTENDS HistoryTables

CONSTANTS
  Files, Starts, Growths, Models, MaxReplies, PeekLimit,
  Keys, MaxTurns, MaxRuns,
  Processes, MaxMessages, MaxFaults, MaxOverlaps, BatchSize, Threshold,
  Openers, MaxFailures,
  Types, Words, Conversations, Directories, MaxWrites, MaxLog,
  Zones, Nows, ConversationOf, Instants, MaxRows, MaxWindow

VARIABLES
  subject,
  lines, index, live, model, reply, query, awaiting, ttl, replies, torn, exact, healed,
  file, conversation, backups, tmp, step, apply, beforeSize, auditRaw, output, outcome, ids, turns, runs, said, replaced, sliver, lost,
  messages, blocksFts, bands, duplicates, owner, leased, watermark, pc, resume, batch, items, faults, overlaps, again, misdeleted,
  userVersion, tables, build, opening, pending, failures, applied,
  memories, memoryIndex, archive, sessions, written,
  zone, now, current, rows

-----------------------------------------------------------------------------
(* Audit: a dated and an undated model; two replies, one whose split reached   *)
(* the audit; and a file an old version left, with lines without ids.          *)
U(input, flat, hour, split, read) ==
  [input |-> input, flat |-> flat, hour |-> hour, split |-> split, read |-> read, output |-> 0]
M(family, version, dated) == [family |-> family, version |-> version, dated |-> dated]
SomeStarts == {U(1, 2, 1, TRUE, 0), U(1, 0, 0, FALSE, 1)}
SomeModels == {M("sonnet", "5", TRUE), M("haiku", "3", FALSE)}
OldLine(role, id, shape, usage, of) ==
  [role |-> role, id |-> id, turn |-> 0, query |-> 0, shape |-> shape, usage |-> usage, model |-> of, cost |-> -1]
OldAnswer(split) == OldLine("assistant", 9, "text", U(1, 2, 1, split, 0), M("opus", "9", FALSE))
OldResults       == OldLine("user", 0, "tool_result", U(0, 0, 0, FALSE, 0), M("none", "", FALSE))
SomeFiles == {<<>>, <<OldAnswer(TRUE), OldAnswer(FALSE), OldResults, OldResults>>}

(* The sweep: the middle text is near the two others, which are far apart;     *)
(* hashes that order the shingles differently.                                  *)
SomeTexts == {<<1, 2, 3>>, <<2, 3, 4>>, <<3, 4, 5>>}
SomeHash  == [s \in (1..2) \X {<<1, 2>>, <<2, 3>>, <<3, 4>>, <<4, 5>>} |-> IF s[2][1] = s[1] + 1 THEN 0 ELSE s[2][1]]

(* Reading: turns 1 to 3 of one conversation, turn 4 of another; the last hour *)
(* of a year, the first of the next, and the last before the clocks change: in  *)
(* one zone the 23rd of its day, in the other the 25th.                         *)
SomeTurns    == <<"a", "a", "a", "b">>
SomeZones    == {[before |-> 10, changes |-> 452, after |-> 11], [before |-> 12, changes |-> 452, after |-> 11]}
SomeNows     == {(365 + 31 + 29 + 31) * 24 - 5}
SomeInstants == {366 * 24 - 11, 366 * 24 - 10, 452 * 24 - 12}

-----------------------------------------------------------------------------
Record   == INSTANCE Audit
Backfill == INSTANCE MigrateAudit
Index    == INSTANCE HistoryIndex
Kept     == INSTANCE Stores

record   == <<lines, index, live, model, reply, query, awaiting, ttl, replies, torn, exact, healed>>
backfill == <<file, conversation, backups, tmp, step, apply, beforeSize, auditRaw, output, outcome, ids, turns, runs,
              said, replaced, sliver, lost>>
sweeps   == <<messages, blocksFts, bands, duplicates, owner, leased, watermark, pc, resume, batch, items, faults, overlaps, again, misdeleted>>
schema   == <<userVersion, tables, build, opening, pending, failures, applied>>
memory   == <<memories, memoryIndex, archive, sessions, written>>
past     == <<zone, now, current, rows>>
all      == <<subject, record, backfill, sweeps, schema, memory, past>>

Init ==
  /\ subject \in {"record", "backfill", "sweeps", "schema", "memory", "past"}
  /\ Record!Init /\ Backfill!Init /\ Index!Init /\ Kept!InitSchema /\ Kept!Init /\ Index!InitReads
  /\ subject # "record" => lines = <<>> /\ model.family = "haiku"
  /\ subject # "schema" => build = [p \in Openers |-> 1]
  /\ subject # "past"   => current = "a" /\ zone = CHOOSE z \in Zones : TRUE

RecordStep   == subject = "record" /\ Record!Next /\ UNCHANGED <<backfill, sweeps, schema, memory, past>>
BackfillStep == subject = "backfill" /\ Backfill!Next /\ UNCHANGED <<record, sweeps, schema, memory, past>>
SweepStep    == subject = "sweeps" /\ Index!Next /\ UNCHANGED <<record, backfill, schema, memory, past>>
SchemaStep   == subject = "schema" /\ Kept!NextSchema /\ UNCHANGED <<record, backfill, sweeps, memory, past>>
MemoryStep   == subject = "memory" /\ Kept!Next /\ UNCHANGED <<record, backfill, sweeps, schema, past>>
PastStep     == subject = "past" /\ Index!NextReads /\ UNCHANGED <<record, backfill, sweeps, schema, memory>>

Next ==
  /\ UNCHANGED subject
  /\ RecordStep \/ BackfillStep \/ SweepStep \/ SchemaStep \/ MemoryStep \/ PastStep

(* The fairness of HistoryIndex!Spec. *)
Sweeping == subject = "sweeps"
Spec ==
  /\ Init /\ [][Next]_all
  /\ WF_Index!vars(Sweeping /\ Index!LeaseRunsOut)
  /\ \A p \in Processes :
       /\ WF_Index!vars(Sweeping /\ Index!Acquire(p))
       /\ WF_Index!vars(Sweeping /\ Index!ReadBatch(p))
       /\ WF_pc(Sweeping /\ Index!Deduplicating(p))
       /\ WF_Index!vars(Sweeping /\ Index!Release(p))

-----------------------------------------------------------------------------
(* What was said and paid is told the same by everyone who kept it: the audit, *)
(* the status line, the list, the index, and the file a backfill leaves; and    *)
(* searches, windows, counts and lists say what is stored.                      *)
RecordsAgree ==
  /\ Record!RecordsAgree
  /\ Backfill!NoAnswerLost /\ Backfill!PairsBelong /\ Backfill!ContinuationsShareTheQuery
  /\ Backfill!Converges /\ Backfill!OldFilesKept
  /\ Kept!ListsAgree
  /\ subject = "past" => Index!ReadsHold

(* The stores several processes share hold together: whatever sweeps overlap,  *)
(* a message that was not folded is indexed whole, and of sweeps that did not   *)
(* overlap no word is lost to search; a schema is moved once and in order; and  *)
(* a memory is found or archived.                                               *)
StoresHold ==
  /\ Index!UnfoldedIndexed /\ Index!DeletesMatch
  /\ Index!WordsStayFindable /\ Index!CanonicalsSettled
  /\ Kept!SchemaSound /\ Kept!StoreSound

(* Every message of the history is swept in the end. *)
EverythingIsSwept == Sweeping => Index!EverythingIsSwept
=============================================================================
