----------------------------- MODULE ViewPaint -----------------------------
(***************************************************************************)
(* ViewHost over TerminalRenderer: every store's change asks for a paint,  *)
(* one per tick; while the terminal is being resized none is made, and the *)
(* stores learn the size once it has settled.                              *)
(***************************************************************************)
EXTENDS Naturals

CONSTANTS
  Sizes,                      \* the sizes of the terminal
  MaxResizes, MaxChanges      \* bounds on what the user and the program do

VARIABLES
  screen, size,               \* the screen's size, the size in TerminalState
  resizing, renderPending, disposed,
  queued,                     \* immediates in flight
  dirty,                      \* history: something changed that no frame shows
  fitted, ghost,                \* history: the last frame was laid out for the screen; one was painted after the end
  resizes, changes

vars == <<screen, size, resizing, renderPending, disposed, queued, dirty, fitted, ghost, resizes, changes>>

Init ==
  /\ screen \in Sizes /\ size = screen
  /\ resizing = FALSE /\ renderPending = FALSE /\ disposed = FALSE /\ queued = 0
  /\ dirty = TRUE /\ fitted = TRUE /\ ghost = FALSE /\ resizes = 0 /\ changes = 0

(* scheduleRender: at most one immediate. *)
ScheduleRender ==
  /\ renderPending' = TRUE
  /\ queued' = queued + (IF renderPending THEN 0 ELSE 1)

(* paint: none in the middle of a resize; the rows are laid out for the size the *)
(* stores know, the grid for the screen's.                                        *)
Paint ==
  IF resizing THEN UNCHANGED <<dirty, fitted, ghost>>
  ELSE dirty' = FALSE /\ fitted' = (size = screen) /\ ghost' = (ghost \/ disposed)

RenderNow == IF disposed THEN UNCHANGED <<dirty, fitted, ghost>> ELSE Paint

-----------------------------------------------------------------------------
(* A store changes: the listeners are on until the host is disposed. *)
Change ==
  /\ ~disposed /\ changes < MaxChanges
  /\ changes' = changes + 1 /\ dirty' = TRUE /\ ScheduleRender
  /\ UNCHANGED <<screen, size, resizing, disposed, fitted, ghost, resizes>>

Immediate ==
  /\ queued > 0
  /\ queued' = queued - 1 /\ renderPending' = FALSE
  /\ RenderNow
  /\ UNCHANGED <<screen, size, resizing, disposed, resizes, changes>>
(* The clock of Application.run repaints every second, whatever happened. *)
ClockTick ==
  /\ ScheduleRender
  /\ UNCHANGED <<screen, size, resizing, disposed, dirty, fitted, ghost, resizes, changes>>

(* Each resize starts the pause again; TerminalState tells of a size that is new. *)
Resize(s) ==
  /\ ~disposed /\ resizes < MaxResizes /\ s # screen
  /\ screen' = s /\ resizing' = TRUE /\ resizes' = resizes + 1
  /\ UNCHANGED <<size, renderPending, disposed, queued, dirty, fitted, ghost, changes>>
ResizeSettles ==
  /\ resizing /\ ~disposed /\ resizing' = FALSE
  /\ size' = screen
  /\ IF size # screen THEN dirty' = TRUE /\ ScheduleRender ELSE UNCHANGED <<dirty, renderPending, queued>>
  /\ UNCHANGED <<screen, disposed, fitted, ghost, resizes, changes>>

(* Only after a failed boot: the renderer is left, its timer cleared, the host off. *)
Dispose ==
  /\ ~disposed /\ disposed' = TRUE
  /\ UNCHANGED <<screen, size, resizing, renderPending, queued, dirty, fitted, ghost, resizes, changes>>

Next ==
  \/ Change \/ Immediate \/ ClockTick \/ ResizeSettles \/ Dispose
  \/ \E s \in Sizes : Resize(s)

(* Immediates and timers run. *)
Spec == Init /\ [][Next]_vars /\ WF_vars(Immediate) /\ WF_vars(ClockTick) /\ WF_vars(ResizeSettles)

-----------------------------------------------------------------------------
(* One paint is due at a time, a frame is laid out for the screen it is painted   *)
(* on, and none is painted once the host is gone.                                 *)
PaintsSound == queued <= 1 /\ (renderPending <=> queued = 1) /\ fitted /\ ~ghost

(* Whatever changed is on the screen in the end, a paint a resize swallowed         *)
(* included, unless the host goes first.                                            *)
ChangesAreSeen == dirty ~> (~dirty \/ disposed)
=============================================================================
