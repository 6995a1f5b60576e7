----------------------------- MODULE Lifecycle -----------------------------
(***************************************************************************)
(* One process, from Application.run() to its exit: what it opens on the   *)
(* way up (watches, the bus, the screen, the sweep), the moves of its      *)
(* conversation and of its directory, what it says of itself on the bus,   *)
(* and the one clean exit its four triggers share.                         *)
(*                                                                         *)
(* Several awaits that only microtasks separate are one step: no signal,   *)
(* key or message arrives between them.                                    *)
(***************************************************************************)
EXTENDS Naturals, Sequences

CONSTANTS
  Convs, Dirs,
  Unsaid, Detached            \* the last word on a conversation, when it is not the directory it is attached at

VARIABLES
  at,                         \* where run() awaits
  exit,                       \* "no", the exit code, "forced" for the 1 of a second SIGINT, "signal"
  cleaning, sigint,           \* #cleanupStarted, #sigintReceived
  screen,                     \* "normal" or "entered"
  enabled, conn,              \* nats.enabled and the connection
  pulsing, sweeping,
  word,                       \* conversation -> the last word on the bus about it
  bound, conv, dir,           \* the serve, the session's id, the working directory
  moving, target,             \* the move under way: "no", "leaving" for target, "settling"
  open, held,                 \* kind of watch -> how many are open, whether its owner holds one
  stranded, late              \* history: left by a move that failed halfway, something was said after the detach

vars == <<at, exit, cleaning, sigint, screen, enabled, conn, pulsing, sweeping, word, bound, conv, dir, moving,
          target, open, held, stranded, late>>

Kinds  == {"config", "rules", "identity"}
(* The awaits of the boot: the prompts, the catalogue and the scratchpad; the    *)
(* identity file; the figures and the first input.                                *)
Boot   == <<"prompts", "identity", "stats", "loop">>
Nobody == "nobody"

Running   == exit = "no"
Listening == at \notin {"login", "session"}       \* the listeners are wired

-----------------------------------------------------------------------------
(* What is said on the bus.  While the connection drains, each word may still  *)
(* be sent or be dropped.                                                       *)
Publish(words) ==
  /\ word' \in CASE conn = "live"     -> {words[Len(words)]}
                 [] conn = "draining" -> {word} \cup {words[i] : i \in DOMAIN words}
                 [] OTHER             -> {word}
  /\ late' = (late \/ (cleaning /\ word' # word))

(* A watch is replaced: the one its owner holds is disposed, another opened.    *)
Repoint(kinds) ==
  /\ open' = [k \in Kinds |-> IF k \in kinds THEN (open[k] - (IF held[k] THEN 1 ELSE 0)) + 1 ELSE open[k]]
  /\ held' = [k \in Kinds |-> held[k] \/ k \in kinds]

Dispose == open' = [k \in Kinds |-> IF held[k] THEN open[k] - 1 ELSE open[k]]

Stay(code) == exit' = code /\ UNCHANGED <<at, cleaning, enabled, pulsing, sweeping, bound, conv, dir, moving, target, stranded>>

-----------------------------------------------------------------------------
(* The way up.  The watches are open before the login, which may block on a    *)
(* browser; the listeners are wired before the bus can bring them anything.     *)
Init ==
  /\ at = "login" /\ exit = "no"
  /\ cleaning = FALSE /\ sigint = FALSE /\ screen = "normal"
  /\ enabled \in BOOLEAN /\ conn = "none"
  /\ pulsing = FALSE /\ sweeping = FALSE
  /\ word = [c \in Convs |-> Unsaid]
  /\ bound = Nobody /\ conv \in Convs /\ dir \in Dirs
  /\ moving = "no" /\ target = Nobody
  /\ open = [k \in Kinds |-> IF k = "identity" THEN 0 ELSE 1]
  /\ held = [k \in Kinds |-> k # "identity"]
  /\ stranded = {} /\ late = FALSE

LogIn ==
  /\ Running /\ at = "login"
  /\ \/ at' = "session" /\ exit' = exit
     \/ at' = at /\ exit' = "1"
  /\ UNCHANGED <<cleaning, sigint, screen, enabled, conn, pulsing, sweeping, word, bound, conv, dir, moving, target,
                 open, held, stranded, late>>

(* The session is found, and every listener is wired before the bus starts. *)
ActivateSession ==
  /\ Running /\ at = "session"
  /\ \/ at' = "bus" /\ exit' = exit
     \/ at' = at /\ exit' = "1"
  /\ UNCHANGED <<cleaning, sigint, screen, enabled, conn, pulsing, sweeping, word, bound, conv, dir, moving, target,
                 open, held, stranded, late>>

(* Connected, or disabled: bound, ready, attached, on screen, sweeping.  A      *)
(* broker out of reach ends the process.                                        *)
ActivateBus ==
  /\ Running /\ at = "bus"
  /\ at' = Boot[1] /\ conn' = IF enabled THEN "live" ELSE "none"
  /\ bound' = conv /\ pulsing' = TRUE /\ sweeping' = TRUE /\ screen' = "entered"
  /\ word' = IF enabled THEN [word EXCEPT ![conv] = dir] ELSE word
  /\ UNCHANGED <<exit, cleaning, sigint, enabled, conv, dir, moving, target, open, held, stranded, late>>
Unreachable ==
  /\ Running /\ at = "bus" /\ enabled
  /\ Stay("1")
  /\ UNCHANGED <<sigint, screen, conn, word, open, held, late>>

NextStage(stage) == Boot[(CHOOSE i \in DOMAIN Boot : Boot[i] = stage) + 1]

(* Variant: stored whatever the cleanup has done. *)
StoreIdentityWatch ==
  open' = [open EXCEPT !["identity"] = @ + 1] /\ held' = [held EXCEPT !["identity"] = ~cleaning]

(* One await of the boot.  Past the read of the identity file its watch is      *)
(* handed over: kept, or disposed at once when the cleanup has begun.           *)
SetIdentityWatch ==
  IF cleaning THEN UNCHANGED <<open, held>>
  ELSE open' = [open EXCEPT !["identity"] = @ + 1] /\ held' = [held EXCEPT !["identity"] = TRUE]

BootStep(stage) ==
  /\ Running /\ at = stage /\ stage # "loop"
  /\ at' = NextStage(stage)
  /\ IF stage = "identity" THEN SetIdentityWatch \/ UNCHANGED <<open, held>> ELSE UNCHANGED <<open, held>>
  /\ UNCHANGED <<exit, cleaning, sigint, screen, enabled, conn, pulsing, sweeping, word, bound, conv, dir, moving,
                 target, stranded, late>>

(* A stage throws: the screen is left first, then the process ends. *)
BootFails ==
  /\ Running /\ \E i \in DOMAIN Boot : at = Boot[i] /\ at # "loop"
  /\ screen' = "normal" /\ Stay("1")
  /\ UNCHANGED <<sigint, conn, word, open, held, late>>

-----------------------------------------------------------------------------
(* The moves.  #rebind: the serve, then detached the old, then attached the new. *)
Rebind(previous, c) ==
  /\ bound' = c /\ conv' = c
  /\ Publish(<<[word EXCEPT ![previous] = Detached], [word EXCEPT ![previous] = Detached, ![c] = dir]>>)

NewConversation(c) ==
  /\ Running /\ screen = "entered" /\ moving = "no" /\ word[c] = Unsaid /\ c # conv
  /\ Rebind(conv, c) /\ moving' = "settling"
  /\ UNCHANGED <<at, exit, cleaning, sigint, screen, enabled, conn, pulsing, sweeping, dir, target, open, held, stranded>>

SwitchTo(c) ==
  /\ Running /\ screen = "entered" /\ moving = "no" /\ c # conv
  /\ moving' = "leaving" /\ target' = c
  /\ UNCHANGED <<at, exit, cleaning, sigint, screen, enabled, conn, pulsing, sweeping, word, bound, conv, dir, open,
                 held, stranded, late>>

(* The old one is saved and the new one loaded, then the id adopted, the        *)
(* session row written and the wire rebound. *)
Adopt ==
  /\ Running /\ moving = "leaving"
  /\ Rebind(conv, target) /\ moving' = "settling" /\ target' = Nobody
  /\ UNCHANGED <<at, exit, cleaning, sigint, screen, enabled, conn, pulsing, sweeping, dir, open, held, stranded>>
(* The save or the load throws: still the old conversation. *)
LeavingFails ==
  /\ Running /\ moving = "leaving"
  /\ moving' = "no" /\ target' = Nobody
  /\ UNCHANGED <<at, exit, cleaning, sigint, screen, enabled, conn, pulsing, sweeping, word, bound, conv, dir, open,
                 held, stranded, late>>
(* The session row throws: the id is the new one's, the wire the old one's. *)
AdoptFails ==
  /\ Running /\ moving = "leaving"
  /\ conv' = target /\ moving' = "no" /\ target' = Nobody
  /\ stranded' = stranded \cup {conv}
  /\ UNCHANGED <<at, exit, cleaning, sigint, screen, enabled, conn, pulsing, sweeping, word, bound, dir, open, held, late>>
MoveEnds ==
  /\ Running /\ moving = "settling"
  /\ moving' = "no"
  /\ UNCHANGED <<at, exit, cleaning, sigint, screen, enabled, conn, pulsing, sweeping, word, bound, conv, dir, target,
                 open, held, stranded, late>>

(* A directory change, typed or asked over the wire for this conversation. *)
Chdir(d) ==
  /\ Running /\ screen = "entered" /\ d # dir
  /\ dir' = d /\ Repoint({"config", "rules"})
  /\ Publish(<<[word EXCEPT ![conv] = d]>>)
  /\ UNCHANGED <<at, exit, cleaning, sigint, screen, enabled, conn, pulsing, sweeping, bound, conv, moving, target, stranded>>

-----------------------------------------------------------------------------
(* The way down.  #cleanup: the sweep stopped, detached said, the pulse stopped, *)
(* then the bus drained or half a second passed, the watches disposed, the       *)
(* screen left.  With no connection nothing is waited for.                       *)
Cleanup ==
  /\ cleaning' = TRUE /\ sweeping' = FALSE /\ pulsing' = FALSE
  /\ Publish(<<[word EXCEPT ![conv] = Detached]>>)
  /\ IF conn = "live"
       THEN conn' = "draining" /\ UNCHANGED <<exit, screen, open>>
       ELSE exit' = "0" /\ screen' = "normal" /\ Dispose /\ conn' = conn
  /\ UNCHANGED <<at, enabled, bound, conv, dir, moving, target, held, stranded>>

Quit    == Running /\ ~cleaning /\ screen = "entered" /\ Cleanup /\ UNCHANGED sigint
Sigterm == Running /\ ~cleaning /\ Listening /\ Cleanup /\ UNCHANGED sigint
Drain   == Running /\ ~cleaning /\ conn = "live" /\ Cleanup /\ UNCHANGED sigint

Sigint ==
  /\ Running /\ Listening /\ ~sigint
  /\ sigint' = TRUE
  /\ IF cleaning THEN UNCHANGED <<at, exit, cleaning, screen, enabled, conn, pulsing, sweeping, word, bound, conv, dir,
                                  moving, target, open, held, stranded, late>>
     ELSE Cleanup
(* The second press: out at once, the screen as it is. *)
ForceExit ==
  /\ Running /\ sigint
  /\ Stay("forced")
  /\ UNCHANGED <<sigint, screen, conn, word, open, held, late>>
(* Before the listeners are wired a signal is the system's default. *)
Killed ==
  /\ Running /\ ~Listening
  /\ Stay("signal")
  /\ UNCHANGED <<sigint, screen, conn, word, open, held, late>>

FinishCleanup ==
  /\ exit' = "0" /\ screen' = "normal" /\ Dispose
  /\ UNCHANGED <<at, cleaning, sigint, enabled, pulsing, sweeping, word, bound, conv, dir, moving, target, held, stranded, late>>
(* Variant: the drain is waited for without a bound. *)
NoTimeOut == FALSE /\ UNCHANGED vars
Drained  == Running /\ conn = "draining" /\ conn' = "closed" /\ FinishCleanup
TimesOut == Running /\ conn = "draining" /\ conn' = conn /\ FinishCleanup

Next ==
  \/ LogIn \/ ActivateSession \/ ActivateBus \/ Unreachable
  \/ \E i \in DOMAIN Boot : BootStep(Boot[i])
  \/ BootFails
  \/ \E c \in Convs : NewConversation(c) \/ SwitchTo(c)
  \/ Adopt \/ LeavingFails \/ AdoptFails \/ MoveEnds
  \/ \E d \in Dirs : Chdir(d)
  \/ Quit \/ Sigterm \/ Drain \/ Sigint \/ ForceExit \/ Killed
  \/ Drained \/ TimesOut

(* The half second is a timer of the process: it fires.  The drain is the       *)
(* broker's, and may never end.                                                 *)
Spec == Init /\ [][Next]_vars /\ WF_vars(TimesOut)

-----------------------------------------------------------------------------
(* One watch of each kind, whoever opened it and however often it was replaced,  *)
(* and none left open by a clean exit, the one handed over late included.         *)
WatchesHeld ==
  \A k \in Kinds :
    /\ open[k] <= 1
    /\ exit = "0" => open[k] = 0

(* The terminal is given back at every exit but the forced one. *)
ScreenGivenBack == exit \in {"0", "1", "signal"} => screen = "normal"

(* On the bus this process is attached to the conversation it serves, at the     *)
(* directory it is in, and to no other, between moves that did not fail halfway.  *)
AttachedWhereItIs ==
  (Running /\ conn = "live" /\ stranded = {}) =>
     /\ bound = conv /\ word[conv] = dir
     /\ \A c \in Convs \ {conv} : word[c] \in {Unsaid, Detached}

(* A clean exit is told: the last word on every conversation it was attached to   *)
(* is that it left, unless something was still said while the bus drained.        *)
DetachedAtLast ==
  (exit = "0" /\ conn \in {"draining", "closed"} /\ stranded = {} /\ ~late) =>
     \A c \in Convs : word[c] \in {Unsaid, Detached}

(* Nothing beats or sweeps once the cleanup has begun. *)
QuietOnTheWayOut == cleaning => ~pulsing /\ ~sweeping

LifecycleSound ==
  WatchesHeld /\ ScreenGivenBack /\ AttachedWhereItIs /\ DetachedAtLast /\ QuietOnTheWayOut

(* A cleanup that has begun ends the process, the broker answering or not. *)
CleanupEnds == cleaning ~> ~Running
=============================================================================
