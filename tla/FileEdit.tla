------------------------------- MODULE FileEdit -------------------------------
(***************************************************************************)
(* EditFile: line edits, all against the file as it was, then text edits   *)
(* one after the other, then a diff with line numbers.  A text is a        *)
(* sequence of characters, "n" is the newline.  A pattern is the set of    *)
(* characters it matches one of, and "$" in its replacement the match.     *)
(* How lines are matched up is the diff package's, so the diff starts from *)
(* any way to do so: entries, the kinds of its lines in order.             *)
(*                                                                         *)
(* file, lineEdits and textEdits are an input that grows, entries another. *)
(***************************************************************************)
EXTENDS Integers, Sequences, FiniteSets
LOCAL INSTANCE SequencesExt

CONSTANTS
  FileTexts, Contents,           \* files, what is inserted
  Needles, Patterns, Replacements,
  CONTEXT, MaxEdits, MaxEntries, MaxLine

VARIABLES file, lineEdits, textEdits, entries

vars == <<file, lineEdits, textEdits, entries>>

Newline == "n"
Kinds   == {"ctx", "add", "del"}
LineEdit ==
  [action : {"insert"}, after_line : (-MaxLine)..MaxLine, content : Contents]
    \cup [action : {"replace"}, startLine : 1..MaxLine, endLine : 1..MaxLine, content : Contents]
    \cup [action : {"delete"}, startLine : 1..MaxLine, endLine : 1..MaxLine]
TextEdit ==
  [action : {"replace_text"}, oldString : Needles, replacement : Replacements, replaceMultiple : BOOLEAN]
    \cup [action : {"regex_text"}, pattern : Patterns, replacement : Replacements, replaceMultiple : BOOLEAN]

Init == file \in FileTexts /\ lineEdits = <<>> /\ textEdits = <<>> /\ entries = <<>>
Next ==
  \/ /\ Len(lineEdits) + Len(textEdits) < MaxEdits /\ entries = <<>>
     /\ \/ \E e \in LineEdit : textEdits = <<>> /\ lineEdits' = Append(lineEdits, e) /\ UNCHANGED textEdits
        \/ \E e \in TextEdit : textEdits' = Append(textEdits, e) /\ UNCHANGED lineEdits
     /\ UNCHANGED <<file, entries>>
  \/ /\ lineEdits = <<>> /\ textEdits = <<>> /\ file = <<>> /\ Len(entries) < MaxEntries
     /\ \E kind \in Kinds : entries' = Append(entries, kind)
     /\ UNCHANGED <<file, lineEdits, textEdits>>
Spec == Init /\ [][Next]_vars

-----------------------------------------------------------------------------
(* String.split and join. *)
At(text, needle, i)  == SubSeq(text, i, i + Len(needle) - 1) = needle
RECURSIVE Split(_, _)
Split(text, needle) ==
  LET found == {i \in 1..(Len(text) - Len(needle) + 1) : At(text, needle, i)} IN
  IF found = {} THEN <<text>>
  ELSE LET first == CHOOSE i \in found : \A j \in found : i <= j IN
       <<SubSeq(text, 1, first - 1)>> \o Split(SubSeq(text, first + Len(needle), Len(text)), needle)
JoinBy(parts, glue) ==
  FlattenSeq([i \in DOMAIN parts |-> IF i = 1 THEN parts[i] ELSE glue \o parts[i]])

Lines(content) == IF content = <<>> THEN <<>> ELSE Split(content, <<Newline>>)

-----------------------------------------------------------------------------
ResolveAfterLine(after, total) == IF after < 0 THEN total + after + 1 ELSE after
LineKey(total, e) == IF e.action = "insert" THEN ResolveAfterLine(e.after_line, total) ELSE e.startLine
RangeEnd(total, e) == IF e.action = "insert" THEN ResolveAfterLine(e.after_line, total) ELSE e.endLine

SortBottomToTop(total, edits) ==
  LET Order[n \in 0..Len(edits)] ==
        IF n = 0 THEN <<>>
        ELSE LET above == Cardinality({i \in DOMAIN Order[n - 1] : LineKey(total, Order[n - 1][i]) >= LineKey(total, edits[n])})
             IN InsertAt(Order[n - 1], above + 1, edits[n])
  IN Order[Len(edits)]

Valid(total, edits) ==
  /\ \A i \in DOMAIN edits :
       LET e == edits[i] IN
       IF e.action = "insert" THEN ResolveAfterLine(e.after_line, total) \in 0..total
       ELSE e.startLine <= total /\ e.endLine <= total /\ e.startLine <= e.endLine
  /\ \A i, j \in DOMAIN edits :
       i < j => ~(LineKey(total, edits[i]) <= RangeEnd(total, edits[j]) /\ LineKey(total, edits[j]) <= RangeEnd(total, edits[i]))

Splice(lines, start, count, new) == SubSeq(lines, 1, start) \o new \o SubSeq(lines, start + count + 1, Len(lines))
ApplyEdit(total, lines, e) ==
  CASE e.action = "replace" -> Splice(lines, e.startLine - 1, e.endLine - e.startLine + 1, Split(e.content, <<Newline>>))
    [] e.action = "delete"  -> Splice(lines, e.startLine - 1, e.endLine - e.startLine + 1, <<>>)
    [] e.action = "insert"  -> Splice(lines, ResolveAfterLine(e.after_line, total), 0, Split(e.content, <<Newline>>))
ApplyEdits(lines, edits) == FoldLeft(LAMBDA now, e : ApplyEdit(Len(lines), now, e), lines, edits)

Failure == <<"error">>
CountOccurrences(content, needle) == Len(Split(content, needle)) - 1

ApplyReplaceText(content, e) ==
  LET count == CountOccurrences(content, e.oldString)  parts == Split(content, e.oldString) IN
  IF count = 0 \/ (count > 1 /\ ~e.replaceMultiple) THEN Failure
  ELSE JoinBy(parts, e.replacement)

ApplyRegexText(content, e) ==
  LET matches == {i \in DOMAIN content : content[i] \in e.pattern}
      Expand(c) == FlattenSeq([k \in DOMAIN e.replacement |-> IF e.replacement[k] = "$" THEN <<c>> ELSE <<e.replacement[k]>>])
  IN IF matches = {} \/ (Cardinality(matches) > 1 /\ ~e.replaceMultiple) THEN Failure
     ELSE FlattenSeq([i \in DOMAIN content |-> IF i \in matches THEN Expand(content[i]) ELSE <<content[i]>>])

ApplyTextEdits(content, edits) ==
  FoldLeft(LAMBDA now, e : IF now = Failure THEN Failure
                           ELSE IF e.action = "replace_text" THEN ApplyReplaceText(now, e) ELSE ApplyRegexText(now, e),
           content, edits)

(* The handler: the new content, or nothing is written. *)
Edited(content, lineOnes, textOnes) ==
  LET base == Lines(content)  sorted == SortBottomToTop(Len(base), lineOnes) IN
  IF ~Valid(Len(base), sorted) THEN Failure
  ELSE ApplyTextEdits(JoinBy(ApplyEdits(base, sorted), <<Newline>>), textOnes)

-----------------------------------------------------------------------------
(* generateDiff: a kept or added line has its number in the new file, a removed *)
(* one in the old; trimContext hides what is far from any change.                 *)
Counters ==
  LET After[i \in 0..Len(entries)] ==
        IF i = 0 THEN [oldLine |-> 1, newLine |-> 1]
        ELSE [oldLine |-> After[i - 1].oldLine + IF entries[i] = "add" THEN 0 ELSE 1,
              newLine |-> After[i - 1].newLine + IF entries[i] = "del" THEN 0 ELSE 1]
  IN After
Numbered ==
  LET after == Counters IN
  [i \in DOMAIN entries |->
     [i |-> i, kind |-> entries[i],
      num |-> IF entries[i] = "del" THEN after[i - 1].oldLine ELSE after[i - 1].newLine]]

Keep(i) ==
  i \in DOMAIN entries /\ \E j \in (i - CONTEXT)..(i + CONTEXT) : j \in DOMAIN entries /\ entries[j] # "ctx"
Ellipsis == [i |-> 0, kind |-> "...", num |-> 0]
TrimContext ==
  LET numbered == Numbered IN
  FlattenSeq([i \in DOMAIN entries |->
    IF Keep(i) THEN <<numbered[i]>> ELSE IF Keep(i - 1) THEN <<Ellipsis>> ELSE <<>>])

-----------------------------------------------------------------------------
(* Line edits mean what they say of the file as it was, all at once and in any  *)
(* order: line by line, what is inserted there, and the line, or what replaced   *)
(* it.                                                                            *)
Given(action) == {e \in ToSet(lineEdits) : e.action = action}
AllAtOnce(base) ==
  LET total == Len(base)
      InsertedAt(p) == {e \in Given("insert") : ResolveAfterLine(e.after_line, total) = p}
      Covering(p)   == {e \in Given("replace") \cup Given("delete") : p \in e.startLine..e.endLine}
      Only(set)     == CHOOSE e \in set : TRUE
      Inserts(p)    == IF InsertedAt(p) = {} THEN <<>> ELSE Split(Only(InsertedAt(p)).content, <<Newline>>)
      Line(p)       == IF Covering(p) = {} THEN <<base[p]>>
                       ELSE LET e == Only(Covering(p)) IN
                            IF e.action = "replace" /\ p = e.startLine THEN Split(e.content, <<Newline>>) ELSE <<>>
  IN Inserts(0) \o FlattenSeq([p \in 1..total |-> Line(p) \o Inserts(p)])

LinesEditedAtOnce ==
  LET base == Lines(file)  result == Edited(file, lineEdits, <<>>) IN
  /\ result # Failure => result = JoinBy(AllAtOnce(base), <<Newline>>)
  /\ result = Edited(file, Reverse(lineEdits), <<>>)

(* A text edit that does not ask for all changes one place, the first, and the   *)
(* rest stays.                                                                     *)
OnePlaceChanges ==
  Len(textEdits) = 1 /\ lineEdits = <<>> =>
    LET e == textEdits[1]  result == Edited(file, <<>>, textEdits) IN
    result # Failure /\ ~e.replaceMultiple =>
      LET width == IF e.action = "replace_text" THEN Len(e.oldString) ELSE 1
          Hits(i) == IF e.action = "replace_text" THEN At(file, e.oldString, i) ELSE file[i] \in e.pattern
          hits == {i \in 1..(Len(file) - width + 1) : Hits(i)}
          at == CHOOSE i \in hits : \A j \in hits : i <= j
          new == SubSeq(result, at, Len(result) - (Len(file) - at - width + 1))
      IN /\ hits # {} /\ \A j \in hits : j < at + width
         /\ SubSeq(result, 1, at - 1) = SubSeq(file, 1, at - 1)
         /\ SubSeq(result, at + Len(new), Len(result)) = SubSeq(file, at + width, Len(file))
         /\ Len(new) = Len(e.replacement)

(* What the diff shows can be acted on: every change is in it, a line's number   *)
(* is its place in the file it is in, and two lines with nothing between them     *)
(* are neighbours.                                                                  *)
PlaceOf(i, kinds) == Cardinality({j \in 1..i : entries[j] \in kinds})
DiffCanBeFollowed ==
  LET diff == TrimContext IN
  /\ \A i \in DOMAIN entries : entries[i] # "ctx" => \E k \in DOMAIN diff : diff[k].i = i
  /\ \A k \in DOMAIN diff :
       LET shown == diff[k] IN
       IF shown = Ellipsis THEN k > 1 /\ ~Keep(diff[k - 1].i + 1)
       ELSE /\ shown.num = (IF shown.kind = "del" THEN PlaceOf(shown.i, {"ctx", "del"}) ELSE PlaceOf(shown.i, {"ctx", "add"}))
            /\ k > 1 /\ diff[k - 1] # Ellipsis => diff[k - 1].i = shown.i - 1

FileEditSound == LinesEditedAtOnce /\ OnePlaceChanges /\ DiffCanBeFollowed
=============================================================================
