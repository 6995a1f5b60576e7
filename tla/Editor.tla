------------------------------- MODULE Editor -------------------------------
(***************************************************************************)
(* The prompt editor: EditorContent (lines and a cursor), the transitions  *)
(* of editorTransitions.ts over it, the grapheme arithmetic they rest on,  *)
(* and EditorBuffer's reset.                                               *)
(*                                                                         *)
(* A line is a sequence of code units drawn from a small alphabet that     *)
(* keeps what the code tells apart: "a" a letter, "_" a space (word        *)
(* motion), "W" a letter two columns wide, "m" a combining mark (it joins  *)
(* the unit to its left and takes no column), "r" a regional indicator     *)
(* (two of them make one flag).                                            *)
(***************************************************************************)
EXTENDS Naturals, Sequences
LOCAL INSTANCE SequencesExt

CONSTANTS
  Alphabet,   \* the code units a key can type
  ColsSet,    \* terminal widths
  Prefix,     \* columns of the prompt before a line (EDITOR_PREFIX_VISUAL_WIDTH)
  Window,     \* GRAPHEME_WINDOW, in code units
  MaxUnits    \* bound: units and line breaks in the text

VARIABLES
  lines,      \* content.lines
  row,        \* content.cursorLine (from 0)
  col,        \* content.cursorCol (from 0)
  key         \* the last key handled

vars == <<lines, row, col, key>>

Line == lines[row + 1]
Before(line, c) == SubSeq(line, 1, c)
After(line, c)  == SubSeq(line, c + 1, Len(line))
Least(S)        == CHOOSE x \in S : \A y \in S : x <= y
Greatest(S)     == CHOOSE x \in S : \A y \in S : y <= x

-----------------------------------------------------------------------------
(* The segmenter (Intl.Segmenter, outside src/): a break stands between two *)
(* units unless the right one is a mark, or closes a pair of indicators.    *)
Flags(line, p) ==
  LET run == {k \in 0..p : \A i \in (p - k + 1)..p : line[i] = "r"} IN Greatest(run)

Boundaries(line) ==
  {p \in 0..Len(line) :
     \/ p \in {0, Len(line)}
     \/ line[p + 1] # "m" /\ (line[p + 1] = "r" => Flags(line, p) % 2 = 0)}

(* graphemeBoundaryBefore: the start of the cluster that ends at or past pos. *)
BoundaryBefore(line, pos) == Greatest({p \in Boundaries(line) : p < pos} \cup {0})

(* graphemeBoundaryAfter: the end of the cluster that starts at pos, and one *)
(* unit on when none starts there.                                           *)
BoundaryAfter(line, pos) ==
  IF pos \in Boundaries(line) THEN Least({p \in Boundaries(line) : p > pos}) ELSE pos + 1

(* graphemeBoundaryAtOrAfter: looks only at a window around pos, and at the *)
(* whole line when the answer is the window's own end.                      *)
BoundaryAtOrAfter(line, pos) ==
  LET from == IF pos > Window THEN pos - Window ELSE 0
      upTo == IF pos + Window < Len(line) THEN pos + Window ELSE Len(line)
      near == {from + p : p \in Boundaries(SubSeq(line, from + 1, upTo))}
      candidate == Least({p \in near : p >= pos})
  IN  IF candidate = upTo /\ upTo < Len(line)
      THEN Least({p \in Boundaries(line) : p >= pos})
      ELSE candidate

(* stringWidth, and colFromVisual: the last break within a visual width, and *)
(* the line's start for none, whatever stands there without a width.         *)
Width(line) == FoldLeft(LAMBDA w, u : w + (CASE u = "m" -> 0 [] u = "W" -> 2 [] OTHER -> 1), 0, line)
ColFromVisual(line, target) ==
  IF target <= 0 THEN 0 ELSE Greatest({p \in Boundaries(line) : Width(Before(line, p)) <= target})

(* Word motion counts spaces, not clusters. *)
WordStartLeft(line, c) ==
  LET word == {p \in 1..c : line[p] # "_"}
      last == IF word = {} THEN 0 ELSE Greatest(word)
  IN  Greatest({0} \cup {p \in 1..last : line[p] = "_"})

WordEndRight(line, c) ==
  LET word  == {p \in (c + 1)..Len(line) : line[p] # "_"}
      first == IF word = {} THEN Len(line) + 1 ELSE Least(word)
  IN  Least({Len(line)} \cup {p - 1 : p \in {q \in first..Len(line) : line[q] = "_"}})

-----------------------------------------------------------------------------
(* One operator per way a key changes the content. *)
Put(line, c)    == lines' = [lines EXCEPT ![row + 1] = line] /\ row' = row /\ col' = c
Goto(r, c)      == lines' = lines /\ row' = r /\ col' = c
Stay            == Goto(row, col)
CutLeft(start)  == Put(Before(Line, start) \o After(Line, col), start)
CutRight(end)   == Put(Before(Line, col) \o After(Line, end), col)

(* Variant: the caret is put behind the joined line. *)
JoinPreviousToEnd ==
  /\ lines' = [RemoveAt(lines, row + 1) EXCEPT ![row] = @ \o Line]
  /\ row' = row - 1
  /\ col' = Len(lines[row]) + Len(Line)

JoinPrevious ==
  /\ lines' = [RemoveAt(lines, row + 1) EXCEPT ![row] = @ \o Line]
  /\ row' = row - 1
  /\ col' = Len(lines[row])
JoinNext ==
  /\ lines' = [RemoveAt(lines, row + 2) EXCEPT ![row + 1] = @ \o lines[row + 2]]
  /\ UNCHANGED <<row, col>>

Enter ==
  /\ key' = "enter"
  /\ lines' = InsertAt([lines EXCEPT ![row + 1] = Before(@, col)], row + 2, After(Line, col))
  /\ row' = row + 1
  /\ col' = 0

(* backspace and ctrl+backspace: a cluster or a word, or the line break. *)
Backspace(k, start) ==
  /\ key' = k
  /\ \/ col > 0 /\ CutLeft(start)
     \/ col = 0 /\ row > 0 /\ JoinPrevious
     \/ col = 0 /\ row = 0 /\ Stay

(* delete, ctrl+delete and ctrl+k: to an end in the line, or the line break. *)
Delete(k, end) ==
  /\ key' = k
  /\ \/ col < Len(Line) /\ CutRight(end)
     \/ col = Len(Line) /\ row + 1 < Len(lines) /\ JoinNext
     \/ col = Len(Line) /\ row + 1 = Len(lines) /\ Stay

CutToStart == key' = "ctrl+u" /\ Put(After(Line, col), 0)

Type(u) ==
  LET next == Before(Line, col) \o <<u>> \o After(Line, col) IN
  key' = "char" /\ Put(next, BoundaryAtOrAfter(next, col + 1))

Left ==
  /\ key' = "left"
  /\ \/ col > 0 /\ Goto(row, BoundaryBefore(Line, col))
     \/ col = 0 /\ row > 0 /\ Goto(row - 1, Len(lines[row]))
     \/ col = 0 /\ row = 0 /\ Stay
Right ==
  /\ key' = "right"
  /\ \/ col < Len(Line) /\ Goto(row, BoundaryAfter(Line, col))
     \/ col = Len(Line) /\ row + 1 < Len(lines) /\ Goto(row + 1, 0)
     \/ col = Len(Line) /\ row + 1 = Len(lines) /\ Stay

Jump ==
  \/ key' = "home" /\ Goto(row, 0)
  \/ key' = "end" /\ Goto(row, Len(Line))
  \/ key' = "ctrl+home" /\ Goto(0, 0)
  \/ key' = "ctrl+end" /\ Goto(Len(lines) - 1, Len(lines[Len(lines)]))
  \/ key' = "ctrl+left" /\ Goto(row, WordStartLeft(Line, col))
  \/ key' = "ctrl+right" /\ Goto(row, WordEndRight(Line, col))

-----------------------------------------------------------------------------
(* Visual rows: a line wraps at the terminal's width. *)
Minus(a, b)      == IF a > b THEN a - b ELSE 0
VisualPos        == Prefix + Width(Before(Line, col))
RowInLine(cols)  == VisualPos \div cols
RowsOf(line, cols) ==
  LET total == Prefix + Width(line) IN
  IF total = 0 THEN 1 ELSE (total + cols - 1) \div cols

Up(cols) ==
  LET inRow == VisualPos % cols IN
  /\ key' = "up"
  /\ \/ /\ RowInLine(cols) > 0
        /\ Goto(row, ColFromVisual(Line, Minus((RowInLine(cols) - 1) * cols + inRow, Prefix)))
     \/ /\ RowInLine(cols) = 0 /\ row = 0
        /\ Stay
     \/ /\ RowInLine(cols) = 0 /\ row > 0
        /\ LET prev   == lines[row]
               total  == Prefix + Width(prev)
               target == (RowsOf(prev, cols) - 1) * cols + inRow
           IN  Goto(row - 1, ColFromVisual(prev, Minus(IF target < total THEN target ELSE total, Prefix)))

Down(cols) ==
  LET inRow  == VisualPos % cols
      total  == Prefix + Width(Line)
      target == (RowInLine(cols) + 1) * cols + inRow
  IN
  /\ key' = "down"
  /\ \/ /\ RowInLine(cols) < RowsOf(Line, cols) - 1
        /\ Goto(row, ColFromVisual(Line, Minus(IF target < total THEN target ELSE total, Prefix)))
     \/ /\ RowInLine(cols) >= RowsOf(Line, cols) - 1
        /\ row + 1 = Len(lines)
        /\ Stay
     \/ /\ RowInLine(cols) >= RowsOf(Line, cols) - 1
        /\ row + 1 < Len(lines)
        /\ Goto(row + 1, ColFromVisual(lines[row + 2], Minus(inRow, Prefix)))

(* EditorBuffer.reset: one empty line, in place. *)
Reset == key' = "reset" /\ lines' = <<<<>>>> /\ row' = 0 /\ col' = 0

-----------------------------------------------------------------------------
JoinLines(ls) == FoldLeft(LAMBDA text, line : text \o <<"NL">> \o line, Head(ls), Tail(ls))
Room == Len(JoinLines(lines)) < MaxUnits

Init == lines = <<<<>>>> /\ row = 0 /\ col = 0 /\ key = "none"

Next ==
  \/ Room /\ (Enter \/ \E u \in Alphabet : Type(u))
  \/ Backspace("backspace", BoundaryBefore(Line, col))
  \/ Backspace("ctrl+backspace", WordStartLeft(Line, col))
  \/ Delete("delete", BoundaryAfter(Line, col))
  \/ Delete("ctrl+delete", WordEndRight(Line, col))
  \/ Delete("ctrl+k", Len(Line))
  \/ CutToStart \/ Left \/ Right \/ Jump \/ Reset
  \/ \E cols \in ColsSet : Up(cols) \/ Down(cols)

Spec == Init /\ [][Next]_vars

-----------------------------------------------------------------------------
(* The editor always holds a line, and its cursor stands in the text: every *)
(* transition indexes the lines with it and none checks it.                 *)
CursorInText ==
  /\ lines \in Seq(Seq(Alphabet)) /\ Len(lines) > 0
  /\ row \in 0..(Len(lines) - 1)
  /\ col \in 0..Len(Line)

(* Each key is the operation of a flat text its kind names, over line ends *)
(* and clusters alike: a deletion never reaches past the caret, a motion   *)
(* never changes the text, and what is typed lands where the caret was.    *)
KindOf(k) ==
  CASE k = "none" -> "none"
    [] k \in {"char", "enter"} -> "insert"
    [] k \in {"backspace", "ctrl+backspace", "ctrl+u"} -> "eraseLeft"
    [] k \in {"delete", "ctrl+delete", "ctrl+k"} -> "eraseRight"
    [] k = "reset" -> "clear"
    [] OTHER -> "move"
TextBefore == JoinLines(Append(SubSeq(lines, 1, row), Before(Line, col)))
TextAfter  == JoinLines(<<After(Line, col)>> \o SubSeq(lines, row + 2, Len(lines)))
Flat == INSTANCE FlatText WITH before <- TextBefore, after <- TextAfter, kind <- KindOf(key)
ImplementsFlatText == Flat!Spec

(* A held arrow key never gets stuck: "up" and "down" leave the caret alone *)
(* only on the first and on the last visual row of the text.                *)
Later(r1, c1, r2, c2) == r1 > r2 \/ (r1 = r2 /\ c1 > c2)
VerticalMovesAdvance ==
  [][\A cols \in ColsSet :
       /\ Up(cols) => \/ Later(row, col, row', col')
                       \/ (row = 0 /\ RowInLine(cols) = 0)
       /\ Down(cols) => \/ Later(row', col', row, col)
                         \/ (row + 1 = Len(lines) /\ RowInLine(cols) >= RowsOf(Line, cols) - 1)]_vars

(* graphemeBoundaries.ts: "so the caret always rests on a boundary".  Joining *)
(* a line to one that starts with a mark leaves the caret inside the cluster  *)
(* the two make.                                                              *)
CaretOnBoundary == col \in Boundaries(Line)
=============================================================================
