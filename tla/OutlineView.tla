----------------------------- MODULE OutlineView -----------------------------
(***************************************************************************)
(* The two views over the transcript's blocks: HistoryViewState, which     *)
(* keeps a focus path into the sealed blocks and a scroll offset inside an *)
(* opened one, driven by historyKeyMap and HistoryNavHandler; and          *)
(* ScrollState, the primary transcript's own scrollback, which reconciles  *)
(* its offset with the geometry the view reports at each frame.            *)
(*                                                                         *)
(* A block is the number of tool entries it holds.  Blocks are appended as *)
(* turns seal them; a move to another conversation replaces them.          *)
(***************************************************************************)
EXTENDS Integers, Sequences

CONSTANTS
  MaxTools,    \* bound: tool entries in a block
  MaxBlocks,   \* bound: blocks of a transcript
  PageBlocks,  \* PAGE_BLOCKS
  PageLines,   \* PAGE_LINES
  Extents,     \* what historyContentExtent can answer: the largest scroll offset
  LineStep,    \* LINE_STEP
  Totals,      \* transcript heights
  Visibles,    \* heights of the window
  Widths       \* terminal widths

VARIABLES
  blocks,                              \* ConversationState.sealedBlocks
  history,                             \* AppModeState: the history view is on screen
  block, tool, contentOpen, scroll,    \* HistoryViewState; tool -1 for none
  replaced,                            \* the blocks were replaced since the view was entered
  offset, lastTotal, lastCols, maxOffset, pageSize,   \* ScrollState
  held                                 \* history: lines above the window's bottom, after the last frame

outline == <<block, tool, contentOpen, scroll>>
scrollback == <<offset, lastTotal, lastCols, maxOffset, pageSize, held>>
vars == <<blocks, history, outline, replaced, scrollback>>

Clamp(n, lo, hi) == IF n > hi THEN (IF hi > lo THEN hi ELSE lo) ELSE (IF n > lo THEN n ELSE lo)

ToolCount(b) == IF b + 1 \in DOMAIN blocks THEN blocks[b + 1] ELSE 0

-----------------------------------------------------------------------------
(* Focus an item of the current level; a move that goes nowhere changes     *)
(* nothing, any other folds what was open.                                  *)
Focus(b, t) ==
  IF b = block /\ t = tool THEN UNCHANGED outline
  ELSE block' = b /\ tool' = t /\ contentOpen' = FALSE /\ scroll' = 0

MoveBy(delta) ==
  IF tool = -1 THEN Focus(Clamp(block + delta, 0, Len(blocks) - 1), -1)
  ELSE Focus(block, Clamp(tool + delta, 0, ToolCount(block) - 1))

Jump(toEnd) ==
  IF tool = -1
  THEN IF blocks = <<>> THEN UNCHANGED outline ELSE Focus(IF toEnd THEN Len(blocks) - 1 ELSE 0, -1)
  ELSE IF ToolCount(block) = 0 THEN UNCHANGED outline
       ELSE Focus(block, IF toEnd THEN ToolCount(block) - 1 ELSE 0)

(* A block that is not there has no content to measure: the bound is 0. *)
ScrollTo(target, extent) ==
  /\ scroll' = Clamp(target, 0, IF block + 1 \in DOMAIN blocks THEN extent ELSE 0)
  /\ UNCHANGED <<block, tool, contentOpen>>

(* historyKeyMap and apply: what a key does depends on whether the focused  *)
(* item is open.                                                            *)
ListKey ==
  /\ history /\ ~contentOpen
  /\ \/ \E delta \in {1, -1, PageBlocks, -PageBlocks} : MoveBy(delta)
     \/ \E toEnd \in BOOLEAN : Jump(toEnd)
  /\ UNCHANGED <<blocks, history, replaced, scrollback>>

ContentKey ==
  /\ history /\ contentOpen
  /\ \E extent \in Extents :
       \E target \in {scroll + 1, scroll - 1, scroll + PageLines, scroll - PageLines, 0, extent} :
         ScrollTo(target, extent)
  /\ UNCHANGED <<blocks, history, replaced, scrollback>>

Open ==
  /\ history /\ ~contentOpen
  /\ scroll' = 0 /\ UNCHANGED block
  /\ \/ tool = -1 /\ ToolCount(block) > 0 /\ tool' = 0 /\ UNCHANGED contentOpen
     \/ (tool # -1 \/ ToolCount(block) = 0) /\ contentOpen' = TRUE /\ UNCHANGED tool
  /\ UNCHANGED <<blocks, history, replaced, scrollback>>

Close ==
  /\ history
  /\ UNCHANGED block
  /\ \/ contentOpen /\ contentOpen' = FALSE /\ scroll' = 0 /\ UNCHANGED tool
     \/ ~contentOpen /\ tool # -1 /\ tool' = -1 /\ scroll' = 0 /\ UNCHANGED contentOpen
  /\ UNCHANGED <<blocks, history, replaced, scrollback>>

(* F2 from another view: the latest block, folded. *)
EnterHistory ==
  /\ ~history /\ history' = TRUE
  /\ block' = Clamp(Len(blocks) - 1, 0, Len(blocks)) /\ tool' = -1
  /\ contentOpen' = FALSE /\ scroll' = 0
  /\ replaced' = FALSE
  /\ UNCHANGED <<blocks, scrollback>>

LeaveHistory ==
  /\ history /\ history' = FALSE
  /\ UNCHANGED <<blocks, outline, replaced, scrollback>>

-----------------------------------------------------------------------------
(* A turn seals a block under any view; a move clears the transcript and    *)
(* replays another, and tells the history view nothing.                     *)
Seal(tools) ==
  /\ Len(blocks) < MaxBlocks
  /\ blocks' = Append(blocks, tools)
  /\ UNCHANGED <<history, outline, replaced, scrollback>>

Replace ==
  /\ \E n \in 0..MaxBlocks : blocks' \in [1..n -> 0..MaxTools]
  /\ replaced' = TRUE
  /\ UNCHANGED <<history, outline, scrollback>>

-----------------------------------------------------------------------------
(* ScrollState.measure, at each frame: lines appended at the same width     *)
(* grow the offset, a new width scales it (Math.round), and it is clamped.  *)
Rounded(a, b) == (2 * a + b) \div (2 * b)

Measure(total, visible, cols) ==
  LET room  == IF total > visible THEN total - visible ELSE 0
      moved == IF offset = 0 \/ lastTotal = 0 THEN offset
               ELSE IF cols # lastCols THEN Rounded(offset * total, lastTotal)
               ELSE IF total > lastTotal THEN offset + (total - lastTotal)
               ELSE offset
  IN  /\ offset' = Clamp(moved, 0, room)
      /\ lastTotal' = total /\ lastCols' = cols /\ maxOffset' = room
      /\ pageSize' = IF visible > 1 THEN visible ELSE 1
      /\ held' = total - offset'
      /\ UNCHANGED <<blocks, history, outline, replaced>>

Frame == \E total \in Totals, visible \in Visibles, cols \in Widths : Measure(total, visible, cols)

(* The wheel and the page keys. *)
Wheel ==
  /\ \E delta \in {LineStep, -LineStep, pageSize, -pageSize} :
       offset' = Clamp(offset + delta, 0, maxOffset)
  /\ held' = lastTotal - offset'
  /\ UNCHANGED <<blocks, history, outline, replaced, lastTotal, lastCols, maxOffset, pageSize>>

Init ==
  /\ blocks = <<>> /\ history = FALSE /\ replaced = FALSE
  /\ block = 0 /\ tool = -1 /\ contentOpen = FALSE /\ scroll = 0
  /\ offset = 0 /\ lastTotal = 0 /\ lastCols = 0 /\ maxOffset = 0 /\ pageSize = 1 /\ held = 0

NextHistory ==
  \/ ListKey \/ ContentKey \/ Open \/ Close \/ EnterHistory \/ LeaveHistory
  \/ Replace \/ \E tools \in 0..MaxTools : Seal(tools)

NextScroll == Frame \/ Wheel

-----------------------------------------------------------------------------
(* "Indices address ConversationState.sealedBlocks (append-only, so a stored *)
(* index stays valid)": the focus names a block and a tool that are there,   *)
(* and only an open item is scrolled, as long as the transcript was not      *)
(* replaced under the view.                                                  *)
FocusAddressesABlock ==
  (history /\ ~replaced) =>
    /\ block < Len(blocks) \/ block = 0
    /\ tool # -1 => tool \in 0..(ToolCount(block) - 1)
    /\ ~contentOpen => scroll = 0

(* A scrolled window stays on its lines: content appended below at the same *)
(* width moves the bottom, not the window, which only the wheel moves and   *)
(* only the ends of the transcript stop.                                    *)
WindowHolds ==
  [][\A total \in Totals, visible \in Visibles :
       (Measure(total, visible, lastCols) /\ offset > 0 /\ total >= lastTotal)
         => held' = held \/ offset' \in {0, maxOffset'}]_vars
=============================================================================
