----------------------------- MODULE MCTerminal -----------------------------
(***************************************************************************)
(* The terminal's components on one small instance: a behaviour is that of *)
(* one component, the subject, chosen at the start; the others stand still *)
(* in their initial state.  They share no variable, so nothing is lost by  *)
(* not interleaving them.                                                  *)
(***************************************************************************)
EXTENDS Naturals, Sequences

CONSTANTS
  Alphabet, ColsSet, Prefix, Window, MaxUnits,
  MaxEvents,
  Items, MaxReads, MaxAdds,
  Convs, Start, None, MaxChanges, MaxRefreshes,
  MaxTools, MaxBlocks, PageBlocks, PageLines, Extents, LineStep, Totals, Visibles, Widths

VARIABLES
  subject,
  lines, row, col, key,
  stream, wire, leftover, scrolls, escapes, passed, torn,
  phase, commandMode, previewMode, context, cdEditor, cdError, modelEditor, knownModels,
  attachments, selectedIndex, reading, typed, resolve, added, removed, sent, cancels,
  stored, current, file, changes, active, entries, selected, peeked, peek, enteredId,
  cache, walks, peekReads, unread,
  blocks, history, block, tool, contentOpen, scroll, replaced,
  offset, lastTotal, lastCols, maxOffset, pageSize, held

(* What a terminal sends: wheel notches, a click's release, a drag, keys. *)
Report(button, final) == [bytes  |-> <<"E", "[", "<">> \o button \o <<";", "4", ";", "5", final>>,
                          action |-> IF final # "M" THEN "none"
                                     ELSE IF button = <<"6", "4">> THEN "scroll_up"
                                     ELSE IF button = <<"6", "5">> THEN "scroll_down" ELSE "none"]
Key(bytes) == [bytes |-> bytes, action |-> "none"]
Events == {Report(<<"6", "4">>, "M"), Report(<<"6", "5">>, "M"), Report(<<"6", "4">>, "m"),
           Report(<<"4">>, "m"), Key(<<"x">>), Key(<<"E">>), Key(<<"E", "[", "x">>)}

Editor   == INSTANCE Editor
Input    == INSTANCE KeyInput
Command  == INSTANCE CommandMode
List     == INSTANCE ConversationList
Outline  == INSTANCE OutlineView

editor  == <<lines, row, col, key>>
input   == <<stream, wire, leftover, scrolls, escapes, passed, torn>>
command == <<phase, commandMode, previewMode, context, cdEditor, cdError, modelEditor, knownModels,
             attachments, selectedIndex, reading, typed, resolve, added, removed, sent, cancels>>
list    == <<stored, current, file, changes, active, entries, selected, peeked, peek, enteredId,
             cache, walks, peekReads, unread>>
outline == <<blocks, history, block, tool, contentOpen, scroll, replaced,
             offset, lastTotal, lastCols, maxOffset, pageSize, held>>
all     == <<subject, editor, input, command, list, outline>>

Init ==
  /\ subject \in {"editor", "input", "command", "list", "history", "scroll"}
  /\ Editor!Init /\ Input!Init /\ Command!Init /\ List!Init /\ Outline!Init
  /\ subject # "input" => stream = <<Key(<<"x">>)>>
  /\ subject # "list" => stored = <<>> /\ \A c \in Convs : file[c] = 0

EditorStep  == subject = "editor" /\ Editor!Next
               /\ UNCHANGED <<input, command, list, outline>>
InputStep   == subject = "input" /\ Input!Next
               /\ UNCHANGED <<editor, command, list, outline>>
CommandStep == subject = "command" /\ Command!Next
               /\ UNCHANGED <<editor, input, list, outline>>
ListStep    == subject = "list" /\ List!Next
               /\ UNCHANGED <<editor, input, command, outline>>
HistoryStep == subject = "history" /\ Outline!NextHistory
               /\ UNCHANGED <<editor, input, command, list>>
ScrollStep  == subject = "scroll" /\ Outline!NextScroll
               /\ UNCHANGED <<editor, input, command, list>>

Next ==
  /\ UNCHANGED subject
  /\ EditorStep \/ InputStep \/ CommandStep \/ ListStep \/ HistoryStep \/ ScrollStep

(* File reads settle: the promises the summary walks wait on. *)
Spec == Init /\ [][Next]_all /\ WF_List!vars(subject = "list" /\ List!Loading)

-----------------------------------------------------------------------------
(* What stays in step on the screen: keys come out of a stream of bytes as   *)
(* they went in, however it is cut; the modes, their editors and the          *)
(* attachments agree; the rows of the list are what the files hold; and the   *)
(* focus of the history view names an item that is there.                     *)
TerminalSound ==
  /\ Input!ChunkingIsInvisible
  /\ Command!CommandModeSound
  /\ List!ListSound
  /\ Outline!FocusAddressesABlock

(* The view keeps up and the operator keeps the place: an arrow moves the     *)
(* caret one visual row, the selection follows its conversation while rows    *)
(* sort themselves, a scrolled window stays on its lines, and every row is    *)
(* summarised in the end, or its read has failed.                             *)
ViewKeepsUp ==
  /\ Editor!VerticalMovesAdvance
  /\ List!SelectionFollowsItsRow /\ List!RowsFill
  /\ Outline!WindowHolds

(* Editing lines by grapheme is editing one flat text with a caret in it.     *)
TextIsFlat == Editor!ImplementsFlatText
=============================================================================
