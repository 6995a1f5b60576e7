---------------------------- MODULE HistoryIndex ----------------------------
(***************************************************************************)
(* The history index.                                                      *)
(*                                                                         *)
(* Its dedup sweep, Init and Next: SqliteHistoryEngine.insert,             *)
(* SqliteHistorySweeper.sweep on the timer of HistorySweepScheduler, and   *)
(* dedup.ts.  Several CLIs share the store; between the transactions and   *)
(* reads of one pass another's may come, a pass may throw or its process   *)
(* die, and a lease runs out while its owner sleeps.  A message is one     *)
(* text block, a sequence of words, empty when no block bears text; its    *)
(* row is its place in messages.  The mirror is the set of words indexed   *)
(* for each row.                                                           *)
(*                                                                         *)
(* Its reads, InitReads and NextReads: the bounds of a search              *)
(* (timeBound.ts), the SearchHistory and ReadHistory tools (History.ts),   *)
(* and the engine's search and windows.  Messages of several conversations *)
(* are indexed in any order, an ingest bringing old ones in between.  An   *)
(* instant is a number of hours, an hour standing for the store's          *)
(* millisecond.  A zone changes its offset once, between two days.  The    *)
(* calendar is the real one.                                               *)
(***************************************************************************)
EXTENDS Integers, Sequences, FiniteSets, TLC, Functions, SequencesExt, FiniteSetsExt

CONSTANTS
  Processes, Texts,
  LshBuckets, EstimateSimilarity,    \* HistoryTables' tables over the texts
  MaxMessages, MaxFaults, MaxOverlaps,   \* bounds
  BatchSize, Threshold               \* HistorySweepConfig; similar: at least Threshold hashes agree

VARIABLES
  messages, blocksFts,                        \* the rows, and the words indexed for each
  bands, duplicates,                          \* the rows with signature_bands, and the canonical row of each duplicate
  owner, leased, watermark,                   \* sweep_state: whose lease, whether it still runs
  pc, resume, batch, items,                   \* a process's pass: its watermark, batch and the rows it compares
  faults, overlaps,                           \* history: passes that ended early, and that began while another ran
  again, misdeleted                           \* history: rows collapsed a second time, deletes of text that was not indexed

vars == <<messages, blocksFts, bands, duplicates, owner, leased, watermark, pc, resume, batch, items, faults, overlaps, again, misdeleted>>
store == <<messages, blocksFts, bands, duplicates>>
lease == <<owner, leased, watermark>>

Nobody == "nobody"
Rows   == DOMAIN messages

-----------------------------------------------------------------------------
(* dedup.ts *)
Tokenize(text) == Range(text)
(* Candidates share a bucket and are confirmed.  Their union-find merges them  *)
(* into clusters, a cluster's root being its lowest index.                      *)
AreCandidates(a, b) == LshBuckets[a] \cap LshBuckets[b] # {} /\ EstimateSimilarity[a, b] >= Threshold
Find(texts, i) ==
  LET Merged(set) == i \in set /\ \A a \in set, b \in DOMAIN texts : AreCandidates(texts[a], texts[b]) => b \in set IN
  Min({j \in DOMAIN texts : \A set \in SUBSET DOMAIN texts : Merged(set) => j \in set})
NearDuplicateClusters(texts) == [i \in DOMAIN texts |-> Find(texts, i)]

-----------------------------------------------------------------------------
Init ==
  /\ messages = <<>> /\ blocksFts = <<>> /\ bands = {} /\ duplicates = <<>>
  /\ owner = Nobody /\ leased = FALSE /\ watermark = 0
  /\ pc = [p \in Processes |-> "waiting"]
  /\ resume = [p \in Processes |-> 0] /\ batch = [p \in Processes |-> {}] /\ items = [p \in Processes |-> <<>>]
  /\ faults = 0 /\ overlaps = 0 /\ again = {} /\ misdeleted = {}

(* A message and its blocks land in one transaction; an id that is there      *)
(* already changes nothing, which is no step here.                             *)
Insert(text) ==
  /\ Len(messages) < MaxMessages
  /\ messages' = Append(messages, text)
  /\ blocksFts' = Append(blocksFts, Tokenize(text))
  /\ UNCHANGED <<bands, duplicates, lease, pc, resume, batch, items, faults, overlaps, again, misdeleted>>

Free(p) == owner = Nobody \/ owner = p \/ ~leased

Running(p) == pc[p] \notin {"waiting", "dead"}

(* The timer fires.  A lease someone holds ends the pass, the timer is armed   *)
(* again.  A lease that ran out does not end its owner's pass: the two overlap. *)
Acquire(p) ==
  /\ pc[p] = "waiting" /\ Free(p)
  /\ IF \E q \in Processes : Running(q)
       THEN overlaps < MaxOverlaps /\ overlaps' = overlaps + 1
       ELSE UNCHANGED overlaps
  /\ owner' = p /\ leased' = TRUE
  /\ resume' = [resume EXCEPT ![p] = watermark]
  /\ pc' = [pc EXCEPT ![p] = "reading"]
  /\ UNCHANGED <<store, watermark, batch, items, faults, again, misdeleted>>

(* The rows past the watermark that bear text, in their order, and before them *)
(* the swept rows that share a bucket with one of them, in the order the        *)
(* buckets bring them up.                                                       *)
NextBatch(p) ==
  LET new == {row \in Rows : row > resume[p] /\ messages[row] # <<>>} IN
  {row \in new : Cardinality({earlier \in new : earlier <= row}) <= BatchSize}
Candidates(new) ==
  {row \in bands : \E other \in new : LshBuckets[messages[row]] \cap LshBuckets[messages[other]] # {}} \ new

Orders(set)    == Bijection(1..Cardinality(set), set)
Ascending(seq) == \A i, j \in DOMAIN seq : i < j => seq[i] < seq[j]

(* The batch and the rows of its buckets are read by a query each, without a    *)
(* transaction around them; here they are one step.                             *)
ReadBatch(p) ==
  /\ pc[p] = "reading"
  /\ \E new \in {NextBatch(p)} :
       /\ batch' = [batch EXCEPT ![p] = new]
       /\ \E old \in Orders(Candidates(new)), fresh \in Orders(new) :
            Ascending(fresh) /\ items' = [items EXCEPT ![p] = old \o fresh]
  /\ pc' = [pc EXCEPT ![p] = IF batch'[p] = {} THEN "releasing" ELSE "collapsing"]
  /\ UNCHANGED <<store, lease, resume, faults, overlaps, again, misdeleted>>

(* A copy of a copy folds into the original: link after link, from a row to    *)
(* one that is no duplicate.  Only of links that lead back to themselves is     *)
(* what so many hops reach a duplicate still.                                   *)
ResolveCanonical(links, row) ==
  LET Hop[n \in 0..Cardinality(DOMAIN links)] ==
        IF n = 0 THEN row
        ELSE IF Hop[n - 1] \in DOMAIN links THEN links[Hop[n - 1]] ELSE Hop[n - 1]
  IN Hop[Cardinality(DOMAIN links)]

(* A link that is there is kept. *)
Linked(links, more) == [row \in DOMAIN links \cup DOMAIN more |-> IF row \in DOMAIN links THEN links[row] ELSE more[row]]

(* The root of each row the pass compares, and which fold: only new ones.  The *)
(* clusters are taken one by one, each sees the links made for those before it. *)
Roots(p)  == NearDuplicateClusters([i \in DOMAIN items[p] |-> messages[items[p][i]]])
Copies(p) == {i \in DOMAIN items[p] : Roots(p)[i] # i /\ items[p][i] \in batch[p]}
FoldCluster(p, folded, root) ==
  LET links     == Linked(duplicates, folded)
      canonical == ResolveCanonical(links, items[p][root])
      cluster   == {items[p][i] : i \in {j \in Copies(p) : Roots(p)[j] = root}}
  IN IF canonical \in DOMAIN links THEN folded ELSE Linked(folded, [row \in cluster |-> canonical])
Folds(p) ==
  LET Upto[n \in 0..Len(items[p])] == IF n = 0 THEN <<>> ELSE FoldCluster(p, Upto[n - 1], n)
  IN Upto[Len(items[p])]

Collapse(row, canonical) == Tokenize(messages[row]) \ Tokenize(messages[canonical])

(* One transaction: each new row of a cluster but its first is linked, taken   *)
(* out of the mirror, put back with the words its canonical lacks, and loses   *)
(* its buckets; the rows that stay keep theirs.  A walk that does not end holds *)
(* the pass here for ever.                                                      *)
Deduplicate(p) ==
  /\ pc[p] = "collapsing"
  /\ \E collapsed \in {{items[p][i] : i \in Copies(p)}}, canonicalOf \in {Folds(p)} :
       /\ DOMAIN canonicalOf = collapsed
       /\ duplicates' = Linked(duplicates, canonicalOf)
       /\ blocksFts' = [row \in Rows |-> IF row \in collapsed THEN Collapse(row, canonicalOf[row]) ELSE blocksFts[row]]
       /\ bands' = (bands \ collapsed) \cup (batch[p] \ collapsed)
       /\ again' = again \cup (collapsed \cap DOMAIN duplicates)
       /\ misdeleted' = misdeleted \cup {row \in collapsed : blocksFts[row] # Tokenize(messages[row])}
  /\ pc' = [pc EXCEPT ![p] = "releasing"]
  /\ items' = [items EXCEPT ![p] = <<>>]
  /\ UNCHANGED <<messages, lease, resume, batch, faults, overlaps>>

(* A pass is over: what it read is gone. *)
Ends(p, as) ==
  /\ pc' = [pc EXCEPT ![p] = as]
  /\ resume' = [resume EXCEPT ![p] = 0] /\ batch' = [batch EXCEPT ![p] = {}] /\ items' = [items EXCEPT ![p] = <<>>]

(* Variant: the watermark is not moved. *)
ReleaseInPlace(p) ==
  /\ pc[p] = "releasing"
  /\ owner' = Nobody /\ leased' = FALSE
  /\ Ends(p, "waiting")
  /\ UNCHANGED <<store, watermark, faults, overlaps, again, misdeleted>>

(* The watermark is set and the lease cleared, whoever holds it by now. *)
Release(p) ==
  /\ pc[p] = "releasing"
  /\ watermark' = IF batch[p] = {} THEN resume[p] ELSE Max(batch[p])
  /\ owner' = Nobody /\ leased' = FALSE
  /\ Ends(p, "waiting")
  /\ UNCHANGED <<store, faults, overlaps, again, misdeleted>>

Pass(p) == Acquire(p) \/ ReadBatch(p) \/ Deduplicate(p) \/ Release(p)

LeaseRunsOut ==
  /\ leased
  /\ leased' = FALSE
  /\ UNCHANGED <<store, owner, watermark, pc, resume, batch, items, faults, overlaps, again, misdeleted>>

(* A pass throws: it is logged, and the timer is armed again. Or the process   *)
(* dies, and leaves its lease behind.                                           *)
Stops(p, as) ==
  /\ Running(p) /\ faults < MaxFaults
  /\ as = "dead" => \E q \in Processes \ {p} : pc[q] # "dead"
  /\ faults' = faults + 1
  /\ Ends(p, as)
  /\ UNCHANGED <<store, lease, overlaps, again, misdeleted>>

Next ==
  \/ \E text \in Texts : Insert(text)
  \/ \E p \in Processes : Pass(p)
  \/ LeaseRunsOut
  \/ \E p \in Processes, as \in {"waiting", "dead"} : Stops(p, as)

(* The timer of a live process fires again and again, a pass is one call, a     *)
(* lease runs out.  Only Deduplicate makes the step named here by its pc.       *)
Deduplicating(p) == pc[p] = "collapsing" /\ pc' = [pc EXCEPT ![p] = "releasing"]
Spec ==
  /\ Init /\ [][Next]_vars
  /\ WF_vars(LeaseRunsOut)
  /\ \A p \in Processes : WF_vars(Acquire(p)) /\ WF_vars(ReadBatch(p)) /\ WF_pc(Deduplicating(p)) /\ WF_vars(Release(p))

-----------------------------------------------------------------------------
(* Whatever passes overlapped, threw or died, a message that was not folded is *)
(* indexed with all its words.                                                  *)
UnfoldedIndexed == \A row \in Rows : row \in DOMAIN duplicates \/ blocksFts[row] = Tokenize(messages[row])

(* As long as no two passes overlapped, whichever threw or died and was made   *)
(* again, no word of a message is lost to search: it is indexed with the        *)
(* message, or with one that was not folded.                                    *)
WordsStayFindable ==
  overlaps = 0 =>
    \A row \in Rows : \A word \in Tokenize(messages[row]) :
      \E r \in (Rows \ DOMAIN duplicates) \cup {row} : word \in blocksFts[r]

(* So long, a row folds into an earlier one; what is not folded can be matched  *)
(* by a later copy, what is folded cannot.                                       *)
CanonicalsSettled ==
  overlaps = 0 => bands \cap DOMAIN duplicates = {} /\ \A row \in DOMAIN duplicates : duplicates[row] < row

(* The mirror is only ever asked to delete the text it holds, unless a pass    *)
(* went over rows a second time.                                                *)
DeletesMatch == misdeleted \subseteq again

(* Every message is swept in the end. *)
EverythingIsSwept == <>[](\A row \in Rows : messages[row] # <<>> => row <= watermark)

-----------------------------------------------------------------------------
(* The reads. *)
CONSTANTS
  FirstYear, MonthStart, DateOf,    \* HistoryTables' calendar
  Zones, Nows,          \* the user's zone, and the clock's reading
  ConversationOf,       \* turn -> its conversation: a turn id is of one conversation
  Instants,
  MaxRows, MaxWindow    \* bounds

VARIABLES
  zone, now, current,   \* the clock, and the live session
  rows                  \* the messages, in the order of their insertion

readVars == <<zone, now, current, rows>>
Turns == DOMAIN ConversationOf

-----------------------------------------------------------------------------
(* Dates by HistoryTables' tables. *)
IndexOf(date)  == (date[1] - FirstYear) * 12 + date[2]
DaysIn(index)  == MonthStart[index + 1] - MonthStart[index]
EpochDay(date) == MonthStart[IndexOf(date)] + date[3]
IsRealDate(date) == date[2] \in 1..12 /\ IndexOf(date) + 1 \in DOMAIN MonthStart /\ date[3] \in 1..DaysIn(IndexOf(date))

Offset(day)        == IF day < zone.changes THEN zone.before ELSE zone.after
AtStartOfDay(date) == EpochDay(date) * 24 - Offset(EpochDay(date))
LocalDay(instant)  ==
  CHOOSE day \in ((instant \div 24) - 1)..((instant \div 24) + 1) :
    AtStartOfDay(DateOf[day]) <= instant /\ instant < AtStartOfDay(DateOf[day + 1])

-----------------------------------------------------------------------------
(* timeBound.ts.  A bound is a span <<amount, unit>> back from now, or a year, *)
(* a month or a day: <<y>>, <<y, m>>, <<y, m, d>>.                              *)
Relative(amount, unit) == [kind |-> "relative", amount |-> amount, unit |-> unit]
Absolute(date)         == [kind |-> "absolute", date |-> date]

StartOfPeriod(date) ==
  CASE Len(date) = 1 -> <<date[1], 1, 1>> [] Len(date) = 2 -> <<date[1], date[2], 1>> [] Len(date) = 3 -> date

(* The digits' shape alone does not make a date. *)
ParseTimeBound(bound) == bound.kind = "relative" \/ IsRealDate(StartOfPeriod(bound.date))

StartOfNextPeriod(date) ==
  CASE Len(date) = 1 -> <<date[1] + 1, 1, 1>>
    [] Len(date) = 2 -> IF date[2] = 12 THEN <<date[1] + 1, 1, 1>> ELSE <<date[1], date[2] + 1, 1>>
    [] Len(date) = 3 -> DateOf[EpochDay(date) + 1]

ResolveAbsolute(date, edge) ==
  IF edge = "since" THEN AtStartOfDay(StartOfPeriod(date)) ELSE AtStartOfDay(StartOfNextPeriod(date)) - 1

(* Months back from a date, on the last day of a month too short for it. *)
MonthsBack(date, months) ==
  LET index == IndexOf(date) - months
  IN DateOf[MonthStart[index] + Min({date[3], DaysIn(index)})]

PeriodBack(date, amount, unit) ==
  CASE unit = "d" -> DateOf[EpochDay(date) - amount]
    [] unit = "w" -> DateOf[EpochDay(date) - 7 * amount]
    [] unit = "m" -> MonthsBack(date, amount)
    [] unit = "y" -> MonthsBack(date, 12 * amount)

ResolveTimeBound(bound, edge) ==
  IF bound.kind = "relative"
    THEN AtStartOfDay(PeriodBack(DateOf[LocalDay(now)], bound.amount, bound.unit))
           + (now - AtStartOfDay(DateOf[LocalDay(now)]))
    ELSE ResolveAbsolute(bound.date, edge)

-----------------------------------------------------------------------------
(* SqliteHistoryEngine *)
InsertRow(turn, role, time) ==
  /\ Len(rows) < MaxRows
  /\ \A i \in DOMAIN rows : rows[i].turn = turn => rows[i].role # role
  /\ rows' = Append(rows, [turn |-> turn, role |-> role, time |-> time])
  /\ UNCHANGED <<zone, now, current>>

(* The bounds are inclusive; {} stands for a filter that is absent.  Every     *)
(* row's words match; ranking and limit are left out.                           *)
Search(role, since, until, excluded) ==
  {i \in DOMAIN rows :
     /\ role # {} => rows[i].role \in role
     /\ \A t \in since : rows[i].time >= t
     /\ \A t \in until : rows[i].time <= t
     /\ ConversationOf[rows[i].turn] \notin excluded}

(* The handler of SearchHistory. *)
SearchHistory(since, until, includeCurrentSession) ==
  Search({}, {ResolveTimeBound(b, "since") : b \in {x \in since : ParseTimeBound(x)}},
             {ResolveTimeBound(b, "until") : b \in {x \in until : ParseTimeBound(x)}},
         IF includeCurrentSession THEN {} ELSE {current})

(* A conversation's turns by their first message, ties by the id. *)
Began(turn) == Min({rows[i].time : i \in {j \in DOMAIN rows : rows[j].turn = turn}})
Ordered(conversation) ==
  SetToSortSeq({rows[i].turn : i \in {j \in DOMAIN rows : ConversationOf[rows[j].turn] = conversation}},
               LAMBDA a, b : Began(a) < Began(b) \/ (Began(a) = Began(b) /\ a < b))

WindowTurns(conversation, turn, window) ==
  LET ordered == Ordered(conversation)
      centre  == {i \in DOMAIN ordered : ordered[i] = turn}
  IN SelectSeq(ordered, LAMBDA other : \E c \in centre, i \in DOMAIN ordered : ordered[i] = other /\ i \in (c - window)..(c + window))

(* Of a turn, the user's message first. *)
TurnEvents(turn) ==
  SetToSortSeq({i \in DOMAIN rows : rows[i].turn = turn}, LAMBDA i, j : rows[i].role = "user" /\ rows[j].role # "user")
ReadHistory(conversation, turn, window) ==
  FlattenSeq([i \in DOMAIN WindowTurns(conversation, turn, window) |-> TurnEvents(WindowTurns(conversation, turn, window)[i])])

InitReads ==
  /\ zone \in Zones /\ now \in Nows
  /\ current \in Range(ConversationOf)
  /\ rows = <<>>

NextReads == \E turn \in Turns, role \in {"user", "assistant"}, time \in Instants : InsertRow(turn, role, time)

-----------------------------------------------------------------------------
(* Every message is found by the one day, month and year it was local to, and  *)
(* by no other, also at the edges of a month or a year and across a change of  *)
(* the clocks; a month's messages are those of its days.                        *)
EveryRowHasItsDay ==
  \A i \in DOMAIN rows :
    LET date == DateOf[LocalDay(rows[i].time)] IN
    \A other \in {date, DateOf[EpochDay(date) - 1], DateOf[EpochDay(date) + 1]}, length \in 1..3 :
      LET bound == {Absolute(SubSeq(other, 1, length))} IN
      (i \in SearchHistory(bound, bound, TRUE)) <=> (SubSeq(other, 1, length) = SubSeq(date, 1, length))

(* A longer span reaches further back, to the same hour of the day, and a      *)
(* month is never less than four weeks.                                         *)
SpansReachBack ==
  LET at(amount, unit) == ResolveTimeBound(Relative(amount, unit), "since") IN
  /\ \A unit \in {"d", "w", "m", "y"} : at(1, unit) < now
  /\ \A unit \in {"d", "w", "m"} : at(2, unit) < at(1, unit)
  /\ at(1, "m") <= at(4, "w") /\ at(7, "d") = at(1, "w") /\ at(12, "m") = at(1, "y")

(* The live session is held out and nothing else is. *)
CurrentHeldOut ==
  SearchHistory({}, {}, FALSE) = {i \in DOMAIN rows : ConversationOf[rows[i].turn] # current}

(* A citation that a search returned opens a window of its own conversation    *)
(* around it: of the turns in the order they began, whatever order the rows    *)
(* came in, with every message of each, and never one of another conversation. *)
(* Two turns that are in each other's reach are so from both sides.             *)
WindowsHold ==
  \A turn \in {rows[i].turn : i \in DOMAIN rows}, window \in 0..MaxWindow :
    LET turns  == WindowTurns(ConversationOf[turn], turn, window)
        events == ReadHistory(ConversationOf[turn], turn, window)
    IN /\ turn \in Range(turns) /\ Len(turns) <= 2 * window + 1
       /\ \A i \in 1..(Len(turns) - 1) : Began(turns[i]) <= Began(turns[i + 1])
       /\ \A other \in {rows[i].turn : i \in DOMAIN rows} :
            other \in Range(turns) => turn \in Range(WindowTurns(ConversationOf[other], other, window))
       /\ Range(events) = {i \in DOMAIN rows : rows[i].turn \in Range(turns)} /\ Len(events) = Cardinality(Range(events))
       /\ \A i \in DOMAIN events : ConversationOf[rows[events[i]].turn] = ConversationOf[turn]

(* A citation nothing is stored under opens an empty window. *)
UnknownIsEmpty ==
  \A turn \in Turns, conversation \in Range(ConversationOf) :
    (conversation # ConversationOf[turn]) => ReadHistory(conversation, turn, MaxWindow) = <<>>

ReadsHold == EveryRowHasItsDay /\ SpansReachBack /\ CurrentHeldOut /\ WindowsHold /\ UnknownIsEmpty
=============================================================================
