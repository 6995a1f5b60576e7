------------------------------- MODULE Stores -------------------------------
(***************************************************************************)
(* The stores several processes keep in SQLite.                            *)
(*                                                                         *)
(* The schema (migrate.ts), InitSchema and NextSchema: a build brings a    *)
(* store up to its own version when it opens it, one migration to a        *)
(* transaction.  The version is read before the lock is taken, so another  *)
(* build's migrations may land in between; a transaction may fail, and a   *)
(* process may die between two.                                            *)
(*                                                                         *)
(* The memory store (SqliteMemoryEngine, in the CLI and in mcp-memory) and *)
(* the session log (SqliteSessionStore), Init and Next: a searchable table *)
(* whose rows are found by id through a map of its own, an archive for     *)
(* what is deleted, and a log of which conversation lived where.  Every    *)
(* method is one transaction or one statement; SQLite gives a new row the  *)
(* number after the highest there is, so a deleted last row's number is    *)
(* used again.                                                             *)
(***************************************************************************)
EXTENDS Naturals, Sequences, FiniteSets, SequencesExt, FiniteSetsExt, Functions

CONSTANTS
  Openers,      \* processes that open the store
  MaxFailures   \* bound: transactions that fail, openers that die

VARIABLES
  userVersion, tables,       \* the store: PRAGMA user_version, and what its migrations created
  build,                     \* how much of the list an opener's build ships
  opening,                   \* "closed", "migrating", "open", "refused", "failed"
  pending,                   \* the migrations it found to do, by their place in the list
  failures, applied          \* history: every migration that took effect, in order

schemaVars == <<userVersion, tables, build, opening, pending, failures, applied>>

SchemaVersion(major, minor) == major * 1000 + minor
MajorOf(version)            == version \div 1000

Step(version, creates) == [version |-> version, creates |-> creates]
HistoryMigrations ==
  <<Step(SchemaVersion(1, 0), {"messages", "blocks", "blocks_fts"}),
    Step(SchemaVersion(1, 1), {"sweep_state", "signature_bands", "message_duplicates"})>>

(* What a later build may ship: a destructive step.  With it the list is as   *)
(* long as a build's can be here.                                              *)
Shipped == Append(HistoryMigrations, Step(SchemaVersion(2, 0), {"blocks_v2"}))
Target(p) == Shipped[build[p]].version

AssertAscending(list) == \A i \in 2..Len(list) : list[i - 1].version < list[i].version

InitSchema ==
  /\ AssertAscending(Shipped)
  /\ userVersion = 0 /\ tables = {}
  /\ build \in [Openers -> 1..Len(Shipped)]
  /\ opening = [p \in Openers |-> "closed"]
  /\ pending = [p \in Openers |-> {}]
  /\ failures = 0 /\ applied = <<>>

(* The version is read, a newer major refused, what lies past it is to do. *)
Open(p) ==
  LET todo == {i \in 1..build[p] : Shipped[i].version > userVersion} IN
  /\ opening[p] = "closed"
  /\ pending' = [pending EXCEPT ![p] = IF MajorOf(userVersion) > MajorOf(Target(p)) THEN {} ELSE todo]
  /\ opening' = [opening EXCEPT ![p] = IF MajorOf(userVersion) > MajorOf(Target(p)) THEN "refused"
                                       ELSE IF todo = {} THEN "open" ELSE "migrating"]
  /\ UNCHANGED <<userVersion, tables, build, failures, applied>>

(* Variant: the version is not read again under the lock. *)
IsNewRegardless(step) == TRUE
IsNew(step) == step.version > userVersion

(* BEGIN IMMEDIATE .. COMMIT: what another opener did meanwhile is not done twice. *)
Apply(p) ==
  LET first == Min(pending[p])  step == Shipped[first] IN
  /\ opening[p] = "migrating"
  /\ IF IsNew(step)
       THEN /\ userVersion' = step.version
            /\ tables' = tables \cup step.creates
            /\ applied' = Append(applied, step.version)
       ELSE UNCHANGED <<userVersion, tables, applied>>
  /\ pending' = [pending EXCEPT ![p] = @ \ {first}]
  /\ opening' = [opening EXCEPT ![p] = IF pending[p] = {first} THEN "open" ELSE @]
  /\ UNCHANGED <<build, failures>>

(* Rolled back and thrown, or the process is gone: opened again later, by     *)
(* this build or the next.                                                     *)
Fails(p) ==
  /\ opening[p] = "migrating" /\ failures < MaxFailures
  /\ opening' = [opening EXCEPT ![p] = "failed"]
  /\ pending' = [pending EXCEPT ![p] = {}]
  /\ failures' = failures + 1
  /\ UNCHANGED <<userVersion, tables, build, applied>>

Close(p, next) ==
  /\ opening[p] \in {"open", "failed"} /\ next >= build[p]
  /\ opening' = [opening EXCEPT ![p] = "closed"]
  /\ build' = [build EXCEPT ![p] = next]
  /\ UNCHANGED <<userVersion, tables, pending, failures, applied>>

NextSchema ==
  \E p \in Openers :
    \/ Open(p) \/ Apply(p) \/ Fails(p)
    \/ \E next \in 1..Len(Shipped) : Close(p, next)

-----------------------------------------------------------------------------
(* No migration ever takes effect twice or out of turn, the version says       *)
(* exactly which did, and the tables are those of the migrations up to it.     *)
AppliedOnceInOrder ==
  /\ applied = [i \in DOMAIN applied |-> Shipped[i].version]
  /\ userVersion = (IF applied = <<>> THEN 0 ELSE Last(applied))
  /\ tables = UNION {Shipped[i].creates : i \in DOMAIN applied}

(* Whoever has the store open finds everything its build's schema needs. *)
OpenIsUsable ==
  \A p \in Openers : opening[p] = "open" => UNION {Shipped[i].creates : i \in 1..build[p]} \subseteq tables

(* An older build is only refused over a newer major, and with one in place    *)
(* it gets in only if it had read the version before.                           *)
RefusedOverAMajor == \A p \in Openers : opening[p] = "refused" => MajorOf(userVersion) > MajorOf(Target(p))

SchemaSound == AppliedOnceInOrder /\ OpenIsUsable /\ RefusedOverAMajor

-----------------------------------------------------------------------------
(* The memories and the session log. *)
CONSTANTS
  Types, Words,
  Conversations, Directories,
  MaxWrites, MaxLog     \* bounds

VARIABLES
  memories,       \* rowid -> memory
  memoryIndex,    \* id -> rowid
  archive,        \* id -> memory
  sessions,       \* the log's rows, in the order of their ids
  written         \* history: id -> what was written under it

vars == <<memories, memoryIndex, archive, sessions, written>>

Memory(id, type, words) == [id |-> id, type |-> type, words |-> words]
NextRowid  == IF DOMAIN memories = {} THEN 1 ELSE Max(DOMAIN memories) + 1
Extended(f, x, y) == [z \in DOMAIN f \cup {x} |-> IF z = x THEN y ELSE f[z]]

-----------------------------------------------------------------------------
Init == memories = <<>> /\ memoryIndex = <<>> /\ archive = <<>> /\ sessions = <<>> /\ written = <<>>

(* randomUUID, then both inserts as one. *)
Write(type, words) ==
  LET id == Cardinality(DOMAIN written) + 1  memory == Memory(id, type, words) IN
  /\ id <= MaxWrites
  /\ memories' = Extended(memories, NextRowid, memory)
  /\ memoryIndex' = Extended(memoryIndex, id, NextRowid)
  /\ written' = Extended(written, id, memory)
  /\ UNCHANGED <<archive, sessions>>

ById(id) == {memories[memoryIndex[i]] : i \in {j \in DOMAIN memoryIndex \cap {id} : memoryIndex[j] \in DOMAIN memories}}

(* Copied to the archive, taken out of the table by the map, then out of the  *)
(* map; an id that is not there archives nothing and deletes nothing.          *)
Delete(id) ==
  /\ ById(id) # {}
  /\ archive' = Extended(archive, id, CHOOSE memory \in ById(id) : TRUE)
  /\ memories' = Restrict(memories, DOMAIN memories \ {memoryIndex[id]})
  /\ memoryIndex' = Restrict(memoryIndex, DOMAIN memoryIndex \ {id})
  /\ UNCHANGED <<sessions, written>>

Read(id) == ById(id)

(* toFtsMatch ORs the words; no word, no hit. *)
Search(query, type) == {row \in DOMAIN memories : memories[row].words \cap query # {} /\ memories[row].type \in type}

TypeCount(type) == Cardinality({row \in DOMAIN memories : memories[row].type = type})

-----------------------------------------------------------------------------
(* SqliteSessionStore *)
AppendSession(conversation, cwd) ==
  /\ Len(sessions) < MaxLog
  /\ sessions' = Append(sessions, [conversation |-> conversation, cwd |-> cwd])
  /\ UNCHANGED <<memories, memoryIndex, archive, written>>

Under(cwd) == SelectSeq(sessions, LAMBDA row : row.cwd = cwd)
MostRecentByCwd(cwd) == IF Under(cwd) = <<>> THEN {} ELSE {Last(Under(cwd)).conversation}
NewestRow(cwd, conversation) == Max({i \in DOMAIN sessions : sessions[i] = [conversation |-> conversation, cwd |-> cwd]})
ListByCwd(cwd) ==
  LET ids == {Under(cwd)[i].conversation : i \in DOMAIN Under(cwd)} IN
  SetToSortSeq(ids, LAMBDA a, b : NewestRow(cwd, a) > NewestRow(cwd, b))

Next ==
  \/ \E type \in Types, words \in SUBSET Words : Write(type, words)
  \/ \E id \in DOMAIN memoryIndex : Delete(id)
  \/ \E conversation \in Conversations, cwd \in Directories : AppendSession(conversation, cwd)

-----------------------------------------------------------------------------
(* Nothing written is ever lost or in two places, and an id reads back what    *)
(* was written under it, however rows' numbers were used again.                *)
NothingForgotten ==
  /\ \A id \in DOMAIN written :
       IF id \in DOMAIN archive THEN archive[id] = written[id] /\ Read(id) = {} ELSE Read(id) = {written[id]}
  /\ {memories[row].id : row \in DOMAIN memories} = DOMAIN memoryIndex

(* What a search finds can be read by its id, and what was retired never       *)
(* surfaces; what was written is in one place or the other.                     *)
SearchFindsTheLiving ==
  /\ \A query \in SUBSET Words, row \in DOMAIN memories :
       row \in Search(query, Types) => memories[row] \in Read(memories[row].id) /\ memories[row].id \notin DOMAIN archive
  /\ Cardinality(DOMAIN memories) + Cardinality(DOMAIN archive) = Cardinality(DOMAIN written)

(* The types' counts are those of what is left. *)
CountsTell == MapThenSumSet(TypeCount, Types) = Cardinality(DOMAIN memories)

(* Resume and the list agree on the newest, and the list has every conversation *)
(* of the directory once.                                                        *)
ListLeadsWithResume ==
  \A cwd \in Directories :
    /\ MostRecentByCwd(cwd) = (IF ListByCwd(cwd) = <<>> THEN {} ELSE {Head(ListByCwd(cwd))})
    /\ ToSet(ListByCwd(cwd)) = {Under(cwd)[i].conversation : i \in DOMAIN Under(cwd)}

StoreSound == NothingForgotten /\ SearchFindsTheLiving

ListsAgree == CountsTell /\ ListLeadsWithResume
=============================================================================
