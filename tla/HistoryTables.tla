---------------------------- MODULE HistoryTables ----------------------------
(***************************************************************************)
(* What the history's sweep and its reads compute by, as tables.  Near-    *)
(* duplicates are found by MinHash and locality-sensitive hashing           *)
(* (dedup.ts): a text is a sequence of words, empty when no block bears     *)
(* text.  Dates are js-joda's calendar: days and months are numbered from   *)
(* the first of FirstYear.                                                  *)
(***************************************************************************)
EXTENDS Integers, Sequences, FiniteSets, SequencesExt, FiniteSetsExt

CONSTANTS
  Texts,
  ShingleSize, HashCount, Bands,    \* HistorySweepConfig
  HashOf,                           \* <<seed, shingle>> -> hash
  FirstYear, Years                  \* bound: the calendar has Years of them

-----------------------------------------------------------------------------
Shingles(text) ==
  IF Len(text) <= ShingleSize THEN {text} \ {<<>>}
  ELSE {SubSeq(text, i, i + ShingleSize - 1) : i \in 1..(Len(text) - ShingleSize + 1)}

MinhashSignature ==
  [text \in Texts \ {<<>>} |->
     [seed \in 1..HashCount |-> Min({HashOf[<<seed, shingle>>] : shingle \in Shingles(text)})]]

LshBuckets ==
  LET rows == HashCount \div Bands IN
  [text \in Texts \ {<<>>} |->
     {<<band, SubSeq(MinhashSignature[text], band * rows + 1, (band + 1) * rows)>> : band \in 0..(Bands - 1)}]

EstimateSimilarity ==
  [a, b \in Texts \ {<<>>} |->
     Cardinality({seed \in 1..HashCount : MinhashSignature[a][seed] = MinhashSignature[b][seed]})]

-----------------------------------------------------------------------------
IsLeap(year) == (year % 4 = 0 /\ year % 100 # 0) \/ year % 400 = 0
LengthOfMonth(year, month) ==
  CASE month = 2 -> IF IsLeap(year) THEN 29 ELSE 28
    [] month \in {4, 6, 9, 11} -> 30
    [] OTHER -> 31

YearOf(index)  == FirstYear + ((index - 1) \div 12)
MonthOf(index) == ((index - 1) % 12) + 1

(* The days before each month, and the date of each day. *)
MonthStart ==
  FoldLeft(LAMBDA starts, index : Append(starts, Last(starts) + LengthOfMonth(YearOf(index), MonthOf(index))),
           <<0>>, [index \in 1..(12 * Years) |-> index])
DateOf ==
  FlattenSeq([index \in 1..(12 * Years) |->
    [day \in 1..LengthOfMonth(YearOf(index), MonthOf(index)) |-> <<YearOf(index), MonthOf(index), day>>]])
=============================================================================
