------------------------------- MODULE Audit -------------------------------
(***************************************************************************)
(* The record of one conversation: what AuditWriter appends at each commit *)
(* and projects into the history index, the running totals the status line *)
(* adds up meanwhile from the reply's two usage frames, and everyone who   *)
(* reads the file back: AuditStats, the list's summary and peek, ingest.   *)
(*                                                                         *)
(* A line is what its readers tell apart: who said it, its ids (0 for an   *)
(* old line without), the shape of its content ("text" has words of its    *)
(* own), its usage and the price stored with it.  An append that dies      *)
(* leaves a torn line without a newline, and the next one is glued to it.  *)
(***************************************************************************)
EXTENDS Integers, Sequences, FiniteSets, TLC
LOCAL INSTANCE Functions
LOCAL INSTANCE SequencesExt
LOCAL INSTANCE FiniteSetsExt

CONSTANTS
  Files,       \* what earlier versions may have left in the file
  Starts,      \* the usage a reply opens with
  Growths,     \* how much the flat cache-creation total grows during a reply
  Models,
  MaxReplies,  \* bound: replies that began
  PeekLimit

VARIABLES
  lines, index,     \* the audit file, and the ids of the indexed messages
  live,             \* StatusState: the running totals
  model,            \* durableProvider: the configured model
  reply,            \* the reply under way: its first frame's usage and its model, or NoReply
  query,            \* the query under way, 0 before any
  awaiting,         \* the last assistant message called a tool
  ttl,              \* the TTL the totals were last derived with
  replies, torn, exact, healed    \* history: replies begun, appends that died, whether live and index miss nothing

vars == <<lines, index, live, model, reply, query, awaiting, ttl, replies, torn, exact, healed>>

Unpriced == -1
NoUsage  == [input |-> 0, flat |-> 0, hour |-> 0, split |-> FALSE, read |-> 0, output |-> 0]
NoModel  == [family |-> "none", version |-> "", dated |-> FALSE]
NoReply  == [usage |-> NoUsage, model |-> NoModel, open |-> FALSE]
Empty    == [input |-> 0, flat |-> 0, read |-> 0, output |-> 0, cost |-> 0]

UserLine(id, turn, shape) ==
  [role |-> "user", id |-> id, turn |-> turn, query |-> query', shape |-> shape, usage |-> NoUsage, model |-> NoModel,
   cost |-> Unpriced]
Corrupt == [role |-> "corrupt"]
Torn    == [role |-> "torn"]

IsUsableLine(line) == line.role = "assistant"
HasIds(line)       == line.role \in {"user", "assistant"} /\ line.turn # 0
Usable             == SelectSeq(lines, IsUsableLine)
Readable           == \A i \in DOMAIN lines : lines[i].role \notin {"corrupt", "torn"}

-----------------------------------------------------------------------------
(* What a message costs (pricing.ts).  Rates are in cents per million tokens,  *)
(* context windows in thousands; a model's id is its family, its version and   *)
(* whether a date follows.  Of a usage the cache-creation total is flat, and   *)
(* hour of it, when split, lasts an hour.                                       *)
Rated(version, input, context) ==
  [version |-> version, input |-> input, fiveMinute |-> (input * 5) \div 4, oneHour |-> input * 2,
   read |-> input \div 10, output |-> input * 5, context |-> context]

(* Each family in release order, the newest last. *)
Families ==
  [fable  |-> <<Rated("5", 1000, 1000)>>,
   opus   |-> <<Rated("3", 1500, 200), Rated("4", 1500, 200), Rated("4-1", 1500, 200), Rated("4-5", 500, 200),
                Rated("4-6", 500, 1000), Rated("4-7", 500, 1000), Rated("4-8", 500, 1000)>>,
   sonnet |-> <<Rated("3-7", 300, 200), Rated("4", 300, 1000), Rated("4-5", 300, 1000),
                Rated("4-6", 300, 1000), Rated("5", 300, 1000)>>,
   haiku  |-> <<[Rated("3", 25, 200) EXCEPT !.fiveMinute = 30, !.read = 3], Rated("3-5", 80, 200),
                Rated("4-5", 100, 200)>>]

(* The id without its date decides; a version nobody listed is priced as     *)
(* its family's newest, a model of no family has no config.                   *)
ById(of) == {config \in Range(Families[of.family]) : config.version = of.version}
HasFamily(of) == of.family \in DOMAIN Families
ResolveConfig(of) ==
  LET entries == Families[of.family] IN
  IF ById(of) # {} THEN CHOOSE config \in ById(of) : TRUE ELSE entries[Len(entries)]

GetContextWindow(of) == IF HasFamily(of) THEN ResolveConfig(of).context ELSE 200

ReconstructCacheSplit(usage) ==
  LET oneHour == IF usage.split THEN usage.hour ELSE 0 IN
  [fiveMinute |-> IF usage.flat > oneHour THEN usage.flat - oneHour ELSE 0, oneHour |-> oneHour]

CalculateCost(usage, of, lifetime) ==
  IF ~HasFamily(of) THEN 0 ELSE
  LET rates == ResolveConfig(of) IN
  usage.input * rates.input + usage.flat * (IF lifetime = "1h" THEN rates.oneHour ELSE rates.fiveMinute)
    + usage.read * rates.read + usage.output * rates.output

CalculateCostSplit(usage, split, of) ==
  IF ~HasFamily(of) THEN 0 ELSE
  LET rates == ResolveConfig(of) IN
  usage.input * rates.input + split.fiveMinute * rates.fiveMinute + split.oneHour * rates.oneHour
    + usage.read * rates.read + usage.output * rates.output

-----------------------------------------------------------------------------
(* AuditStats *)
LineCost(line, assumed) ==
  CASE line.cost # Unpriced                     -> line.cost
    [] line.cost = Unpriced /\ line.usage.split -> CalculateCostSplit(line.usage, ReconstructCacheSplit(line.usage), line.model)
    [] OTHER                                    -> CalculateCost(line.usage, line.model, assumed)

Derive(assumed) ==
  FoldLeft(LAMBDA totals, line :
             [input |-> totals.input + line.usage.input, flat |-> totals.flat + line.usage.flat,
              read |-> totals.read + line.usage.read, output |-> totals.output + line.usage.output,
              cost |-> totals.cost + LineCost(line, assumed)],
           Empty, Usable)

(* StreamProcessor prices a frame, StatusState adds it up. *)
Frame(usage) == usage @@ ReconstructCacheSplit(usage)
Difference(total, start) == [field \in {"input", "flat", "read", "output", "fiveMinute", "oneHour"} |->
                               Frame(total)[field] - Frame(start)[field]]
Update(frame) ==
  live' = [input |-> live.input + frame.input, flat |-> live.flat + frame.flat, read |-> live.read + frame.read,
           output |-> live.output + frame.output, cost |-> live.cost + CalculateCostSplit(frame, frame, model)]

-----------------------------------------------------------------------------
(* AuditWriter.write *)
AssistantLine(id, turn, usage, shape) ==
  [role |-> "assistant", id |-> id, turn |-> turn, query |-> query', shape |-> shape, usage |-> usage,
   model |-> reply.model, cost |-> CalculateCostSplit(usage, ReconstructCacheSplit(usage), reply.model)]

AfterTorn(new) == IF lines # <<>> /\ Last(lines).role = "torn" THEN Append(Front(lines), Corrupt) \o Tail(new) ELSE lines \o new

(* An index that fails is logged and left for ingest: the second insert is   *)
(* not tried after the first one failed.                                      *)
Indexed(ids, written) == index' = index \cup {ids[i] : i \in 1..written}

(* ingestHistory: every line with ids goes through the index's own insert; a  *)
(* line without them, or one that does not parse, is counted and passed over. *)
Ingest ==
  /\ ~healed
  /\ index' = index \cup {lines[i].id : i \in {j \in DOMAIN lines : HasIds(lines[j])}}
  /\ healed' = TRUE
  /\ UNCHANGED <<lines, live, model, reply, query, awaiting, ttl, replies, torn, exact>>

-----------------------------------------------------------------------------
(* The list's summary *)
ScanAuditSummary ==
  LET said  == {i \in DOMAIN lines : lines[i].role = "user" /\ lines[i].shape = "text"}
      with  == {i \in DOMAIN lines : HasIds(lines[i])}
      last  == Usable[Len(Usable)] IN
  [turns   |-> Cardinality({lines[i].turn : i \in with}),
   queries |-> Cardinality({lines[i].query : i \in with}),
   cost    |-> FoldLeft(LAMBDA sum, line : IF line.cost = Unpriced THEN sum ELSE sum + line.cost, 0, Usable),
   first   |-> IF said = {} THEN 0 ELSE Min(said),
   model   |-> IF Usable = <<>> THEN model ELSE last.model]

(* The peek walks back from the end: a run of tool results is one entry, a    *)
(* line with neither words nor results none, until it has PeekLimit entries.  *)
ShapeOf(line) == CASE line.shape = "tool_result" -> "tools" [] line.shape = "text" -> line.role [] OTHER -> "skip"

(* Variant: every tool result is an entry of its own. *)
PeekedEach(entries, line) ==
  IF ShapeOf(line) = "skip" THEN entries ELSE <<[kind |-> ShapeOf(line), count |-> 1]>> \o entries

Peeked(entries, line) ==
  CASE ShapeOf(line) = "skip" -> entries
    [] ShapeOf(line) = "tools" /\ entries # <<>> /\ entries[1].kind = "tools" -> [entries EXCEPT ![1].count = @ + 1]
    [] OTHER -> <<[kind |-> ShapeOf(line), count |-> 1]>> \o entries

ScanAuditPeek ==
  LET Walk[i \in 0..Len(lines)] ==    \* the entries with the lines after i read
        IF i = Len(lines) THEN <<>> ELSE Peeked(Walk[i + 1], lines[i + 1])
      full    == {i \in DOMAIN lines : Len(Walk[i - 1]) = PeekLimit}
      earlier == IF full = {} THEN 0 ELSE Max(full) - 1 IN
  [entries |-> Walk[earlier], earlier |-> earlier]

-----------------------------------------------------------------------------
Init ==
  /\ lines \in Files /\ index = {}
  /\ model \in Models
  /\ live = Derive("1h") /\ ttl = "1h"
  /\ reply = NoReply /\ query = 0 /\ awaiting = FALSE
  /\ replies = 0 /\ torn = 0 /\ exact = TRUE /\ healed = TRUE

(* The reply's first frame is shown as soon as it is known. *)
StartFrame(usage) ==
  /\ ~reply.open /\ replies < MaxReplies
  /\ Update(Frame(usage))
  /\ reply' = [usage |-> usage, model |-> model, open |-> TRUE]
  /\ replies' = replies + 1
  /\ UNCHANGED <<lines, index, model, query, awaiting, ttl, torn, exact, healed>>

(* A stream that breaks takes nothing back of what was shown; its retry       *)
(* opens anew.                                                                 *)
Break ==
  /\ reply.open
  /\ reply' = NoReply /\ exact' = FALSE
  /\ UNCHANGED <<lines, index, live, model, query, awaiting, ttl, replies, torn, healed>>

Total(growth) == [reply.usage EXCEPT !.flat = @ + growth, !.output = @ + 1]

(* The reply's end: the second frame, and the commit of the pair.  died is    *)
(* the process dying while the append is under way.                            *)
Committed(growth, shape, answer, withIds, written, died) ==
  LET id   == 2 * replies
      turn == IF withIds THEN replies ELSE 0
      pair == <<UserLine(id - 1, turn, shape), AssistantLine(id, turn, Total(growth), answer)>> IN
  /\ reply.open
  /\ (shape = "tool_result") = awaiting
  /\ query' = IF ~withIds THEN 0 ELSE IF awaiting /\ query # 0 THEN query ELSE turn
  /\ Update(Difference(Total(growth), reply.usage))
  /\ lines' = AfterTorn(IF died THEN <<Torn>> ELSE pair)
  /\ IF withIds THEN Indexed(<<id - 1, id>>, written) ELSE UNCHANGED index
  /\ torn' = IF died THEN torn + 1 ELSE torn
  /\ awaiting' = (answer = "tool_use")
  /\ reply' = NoReply
  /\ exact' = (exact /\ model = reply.model /\ ~died)
  /\ healed' = (healed /\ (~withIds \/ written = 2))
  /\ UNCHANGED <<model, ttl, replies>>

Commit(growth, shape, answer, withIds, written) == Committed(growth, shape, answer, withIds, written, FALSE)
DiesAppending == \E shape \in {"text", "tool_result"} : torn = 0 /\ Committed(0, shape, "text", TRUE, 2, TRUE)

ChangeModel(to) ==
  /\ to # model
  /\ model' = to
  /\ UNCHANGED <<lines, index, live, reply, query, awaiting, ttl, replies, torn, exact, healed>>

(* resetTo: the totals are read back from the file, at boot with the          *)
(* configured TTL, on a move with an hour.                                     *)
Resume(assumed) ==
  /\ ~reply.open /\ Readable
  /\ ~exact \/ ttl # assumed
  /\ live' = Derive(assumed) /\ ttl' = assumed
  /\ exact' = TRUE
  /\ UNCHANGED <<lines, index, model, reply, query, awaiting, replies, torn, healed>>

Next ==
  \/ \E usage \in Starts : StartFrame(usage)
  \/ Break
  \/ \E growth \in Growths, shape \in {"text", "reminder", "tool_result"}, answer \in {"text", "tool_use"},
        written \in -1..2 :
       Commit(growth, shape, answer, written >= 0, written)
  \/ DiesAppending
  \/ \E to \in Models : ChangeModel(to)
  \/ \E assumed \in {"5m", "1h"} : Resume(assumed)
  \/ Ingest

-----------------------------------------------------------------------------
(* What the status line adds up frame by frame is what the file adds up to,  *)
(* as long as no stream broke, no append died and no reply was priced at      *)
(* another model than its own.                                                *)
TotalsAgree == exact /\ ~reply.open => live = Derive(ttl)

(* The list counts and prices the conversation as the status line does: every *)
(* turn whose append survived, every stored price, the opening ask.            *)
SummaryAgrees ==
  LET summary == ScanAuditSummary
      priced  == \A i \in DOMAIN Usable : Usable[i].cost # Unpriced IN
  /\ priced => summary.cost = Derive(ttl).cost
  /\ summary.queries <= summary.turns /\ summary.turns <= replies - torn
  /\ Len(Usable) <= Cardinality({i \in DOMAIN Usable : Usable[i].turn = 0}) + summary.turns

(* The peek neither drops nor doubles a message: what it shows, what it       *)
(* counts as earlier and the lines with nothing to show are the whole file,   *)
(* and runs of tools never sit side by side.                                   *)
PeekAccounts ==
  Readable =>
    LET peek   == ScanAuditPeek
        silent == {i \in DOMAIN lines : i > peek.earlier /\ ShapeOf(lines[i]) = "skip"} IN
    /\ Len(lines) = peek.earlier + Cardinality(silent) + FoldLeft(LAMBDA sum, entry : sum + entry.count, 0, peek.entries)
    /\ peek.earlier > 0 => Len(peek.entries) = PeekLimit
    /\ \A i \in 2..Len(peek.entries) : peek.entries[i].kind = "tools" => peek.entries[i - 1].kind # "tools"

(* After an ingest every turn in the file can be found, whatever the live      *)
(* index missed and whichever line was torn.                                   *)
IngestHeals == healed => \A i \in DOMAIN lines : HasIds(lines[i]) => lines[i].id \in index

RecordsAgree == TotalsAgree /\ SummaryAgrees /\ PeekAccounts /\ IngestHeals
=============================================================================
