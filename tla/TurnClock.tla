------------------------------ MODULE TurnClock ------------------------------
(***************************************************************************)
(* The turn clock (TurnClock.ts) and what drives it: the editor's waits    *)
(* (EditorHandler), the request layer's edges (TurnRunner, through         *)
(* RequestClockAdapter) and the tools layer's (QueryRunner, through        *)
(* ToolsClockAdapter).  A wait that the wire wins is not stopped, and      *)
(* leaves a resolver behind that a later ctrl+enter may still use.         *)
(***************************************************************************)
EXTENDS Naturals

CONSTANT MaxTime      \* bound: how long the process runs

VARIABLES
  totals, active, since,    \* the clock's state
  now,
  phase,        \* what the program does: "idle", "waiting", "requesting" or "tools"
  resolver,     \* EditorHandler: a promise to resolve is there
  elapsed       \* history: time spent in each phase; the attempt in flight apart

vars == <<totals, active, since, now, phase, resolver, elapsed>>

Roles == {"user", "tools", "claude"}
None  == "none"

Start(role) == active' = role /\ since' = now /\ UNCHANGED totals

(* Variant: a stop closes whatever is open. *)
StopAny(role, keep) ==
  /\ totals' = IF keep THEN [totals EXCEPT ![role] = @ + (now - since)] ELSE totals
  /\ active' = None /\ since' = 0

Stop(role, keep) ==
  IF active # role THEN UNCHANGED <<totals, active, since>>
  ELSE /\ totals' = IF keep THEN [totals EXCEPT ![role] = @ + (now - since)] ELSE totals
       /\ active' = None /\ since' = 0

Tick ==
  /\ now < MaxTime /\ now' = now + 1
  /\ elapsed' = IF phase = "requesting" THEN [elapsed EXCEPT !.attempt = @ + 1]
                ELSE IF phase = "tools" THEN [elapsed EXCEPT !.tools = @ + 1]
                ELSE [elapsed EXCEPT !.user = @ + 1]
  /\ UNCHANGED <<totals, active, since, phase, resolver>>

(* waitForInput *)
WaitForInput ==
  /\ phase = "idle" /\ phase' = "waiting" /\ resolver' = TRUE
  /\ Start("user") /\ UNCHANGED <<now, elapsed>>

(* #submit, also when the wait it belongs to was lost to the wire. *)
Submit ==
  /\ resolver /\ resolver' = FALSE
  /\ phase' = IF phase = "waiting" THEN "idle" ELSE phase
  /\ Stop("user", TRUE) /\ UNCHANGED <<now, elapsed>>

WireWins ==
  /\ phase = "waiting" /\ phase' = "idle"
  /\ UNCHANGED <<totals, active, since, now, resolver, elapsed>>

(* RequestClockAdapter: each attempt is a segment, kept when it succeeded. *)
RequestStarted ==
  /\ phase = "idle" /\ phase' = "requesting"
  /\ Start("claude") /\ UNCHANGED <<now, resolver, elapsed>>

RequestSettled(kept) ==
  /\ phase = "requesting" /\ phase' = "idle"
  /\ Stop("claude", kept)
  /\ elapsed' = [elapsed EXCEPT !.attempt = 0, !.claude = @ + (IF kept THEN elapsed.attempt ELSE 0)]
  /\ UNCHANGED <<now, resolver>>

(* ToolsClockAdapter *)
ToolsStarted ==
  /\ phase = "idle" /\ phase' = "tools"
  /\ Start("tools") /\ UNCHANGED <<now, resolver, elapsed>>

ToolsStopped ==
  /\ phase = "tools" /\ phase' = "idle"
  /\ Stop("tools", TRUE) /\ UNCHANGED <<now, resolver, elapsed>>

Init ==
  /\ totals = [r \in Roles |-> 0] /\ active = None /\ since = 0
  /\ now = 0 /\ phase = "idle" /\ resolver = FALSE
  /\ elapsed = [user |-> 0, tools |-> 0, claude |-> 0, attempt |-> 0]

Next ==
  \/ Tick \/ WaitForInput \/ Submit \/ WireWins \/ RequestStarted \/ ToolsStarted \/ ToolsStopped
  \/ \E kept \in BOOLEAN : RequestSettled(kept)

Spec == Init /\ [][Next]_vars

(* snapshot: the committed totals with the live segment folded in. *)
Snapshot(role) == totals[role] + (IF active = role THEN now - since ELSE 0)

-----------------------------------------------------------------------------
(* Time is charged to who elapsed it: the requests that succeeded and the      *)
(* batches, to the unit, and to the operator nothing of what ran meanwhile,  *)
(* though a wait the wire won leaves its segment open and its submit live.   *)
TimesAreTrue ==
  /\ Snapshot("claude") = elapsed.claude + elapsed.attempt
  /\ Snapshot("tools") = elapsed.tools
  /\ Snapshot("user") <= elapsed.user
=============================================================================
