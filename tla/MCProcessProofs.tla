---------------------------- MODULE MCProcessProofs ----------------------------
(***************************************************************************)
(* What is proved of the components that MCProcess puts beside one another,*)
(* for its own specification: a step is a step of the subject's component  *)
(* and leaves the others' state alone, so a component's inductive          *)
(* invariant is one here.                                                  *)
(***************************************************************************)
EXTENDS MCProcess, FiniteSetTheorems, WellFoundedInduction, SequenceTheorems, TLAPS

-----------------------------------------------------------------------------
(* The screen.  An immediate is in flight when a paint is due, and the      *)
(* stores know the screen's size unless a resize is under way.              *)
ViewInv ==
  /\ resizing \in BOOLEAN /\ renderPending \in BOOLEAN
  /\ queued = IF renderPending THEN 1 ELSE 0
  /\ ~resizing => size = terminal
  /\ fitted /\ fitted \in BOOLEAN /\ ~ghost /\ ghost \in BOOLEAN

LEMMA ViewInit == View!Init => ViewInv
  BY DEF View!Init, ViewInv

LEMMA ViewStepKeeps == ASSUME ViewInv, View!Next PROVE ViewInv'
<1> USE DEF ViewInv, View!ScheduleRender
<1>1. ASSUME View!Change PROVE ViewInv'
  BY <1>1 DEF View!Change
<1>2. ASSUME View!Immediate PROVE ViewInv'
  <2>1. renderPending /\ queued' = 0 /\ renderPending' = FALSE /\ UNCHANGED <<resizing, size, terminal, disposed>>
    BY <1>2 DEF View!Immediate
  <2>2. CASE disposed \/ resizing
    <3>1. UNCHANGED <<fitted, ghost>>
      BY <1>2, <2>2 DEF View!Immediate, View!RenderNow, View!Paint
    <3> QED
      BY <2>1, <3>1
  <2>3. CASE ~disposed /\ ~resizing
    <3>1. fitted' = (size = terminal) /\ ghost' = (ghost \/ disposed)
      BY <1>2, <2>3 DEF View!Immediate, View!RenderNow, View!Paint
    <3>2. fitted' = TRUE /\ ghost' = FALSE
      BY <2>3, <3>1, Zenon
    <3> QED
      BY <2>1, <3>2
  <2> QED
    BY <2>2, <2>3
<1>3. ASSUME View!ClockTick PROVE ViewInv'
  BY <1>3 DEF View!ClockTick
<1>4. ASSUME View!ResizeSettles PROVE ViewInv'
  <2>1. resizing' = FALSE /\ size' = terminal' /\ UNCHANGED <<fitted, ghost>>
    BY <1>4 DEF View!ResizeSettles
  <2>2. renderPending' \in BOOLEAN /\ queued' = IF renderPending' THEN 1 ELSE 0
    <3>1. CASE size # terminal
      BY <1>4, <3>1 DEF View!ResizeSettles
    <3>2. CASE size = terminal
      <4>1. UNCHANGED <<renderPending, queued>>
        BY <1>4, <3>2 DEF View!ResizeSettles
      <4> QED
        BY <4>1
    <3> QED
      BY <3>1, <3>2
  <2> QED
    BY <2>1, <2>2
<1>5. ASSUME View!Dispose PROVE ViewInv'
  BY <1>5 DEF View!Dispose
<1>6. ASSUME NEW s \in Sizes, View!Resize(s) PROVE ViewInv'
  BY <1>6 DEF View!Resize
<1> QED
  BY <1>1, <1>2, <1>3, <1>4, <1>5, <1>6 DEF View!Next

LEMMA ViewInvIsEnough == ViewInv => View!PaintsSound
  BY DEF ViewInv, View!PaintsSound

-----------------------------------------------------------------------------
(* The list of models.  One fetch is on the wire while a load is shared,    *)
(* and whoever asked is waiting for it or was answered by one.              *)
CatalogInv ==
  /\ cache \in {"none", "models"} /\ inFlight \in BOOLEAN /\ misses \in Nat
  /\ fetches = IF inFlight THEN 1 ELSE 0
  /\ ~after /\ after \in BOOLEAN
  /\ cache = "models" => ~inFlight
  /\ asker \in [Askers -> {"idle", "waiting", "models", "empty"}]
  /\ \A a \in Askers :
       /\ asker[a] = "waiting" => inFlight
       /\ asker[a] = "models" => cache = "models"
       /\ asker[a] = "empty" => misses > 0

LEMMA CatalogInit == ASSUME Body!InitCatalog PROVE CatalogInv
<1>1. asker = [a \in Askers |-> "idle"] /\ cache = "none" /\ inFlight = FALSE /\ fetches = 0 /\ misses = 0 /\ after = FALSE
  BY DEF Body!InitCatalog
<1> QED
  BY <1>1 DEF CatalogInv

LEMMA CatalogStepKeeps == ASSUME CatalogInv, Body!NextCatalog PROVE CatalogInv'
<1> USE DEF CatalogInv
<1>1. ASSUME Body!Fetched PROVE CatalogInv'
  <2>1. inFlight' = FALSE /\ fetches' = 0 /\ cache' = "models" /\ UNCHANGED <<misses, after>>
    BY <1>1 DEF Body!Fetched, Body!Settle
  <2>2. asker' = [a \in Askers |-> IF asker[a] = "waiting" THEN "models" ELSE asker[a]]
    BY <1>1 DEF Body!Fetched, Body!Settle
  <2> QED
    BY <2>1, <2>2
<1>2. ASSUME Body!Failed PROVE CatalogInv'
  <2>1. inFlight' = FALSE /\ fetches' = 0 /\ misses' = misses + 1 /\ UNCHANGED <<cache, after>>
    BY <1>2 DEF Body!Failed, Body!Settle
  <2>2. asker' = [a \in Askers |-> IF asker[a] = "waiting" THEN "empty" ELSE asker[a]]
    BY <1>2 DEF Body!Failed, Body!Settle
  <2>3. misses' \in Nat /\ misses' > 0
    BY <2>1
  <2>4. /\ asker' \in [Askers -> {"idle", "waiting", "models", "empty"}]
        /\ \A a \in Askers : asker'[a] # "waiting" /\ (asker'[a] = "models" => cache = "models")
    BY <2>2
  <2> QED
    BY <2>1, <2>3, <2>4
<1>3. ASSUME NEW a \in Askers, Body!List(a) PROVE CatalogInv'
  <2>1. CASE cache = "models"
    BY <1>3, <2>1 DEF Body!List
  <2>2. CASE cache = "none"
    <3>1. inFlight' = TRUE /\ fetches' = 1 /\ UNCHANGED <<cache, misses>>
      BY <1>3, <2>2 DEF Body!List, Body!Load
    <3>2. ~after' /\ after' \in BOOLEAN
      BY <1>3, <2>2 DEF Body!List, Body!Load
    <3>3. asker' = [asker EXCEPT ![a] = "waiting"]
      BY <1>3, <2>2 DEF Body!List
    <3> QED
      BY <2>2, <3>1, <3>2, <3>3
  <2> QED
    BY <2>1, <2>2
<1> QED
  BY <1>1, <1>2, <1>3 DEF Body!NextCatalog

LEMMA CatalogInvIsEnough == CatalogInv => Body!CatalogSound
  BY DEF CatalogInv, Body!CatalogSound

-----------------------------------------------------------------------------
(* What a turn tells of the world.  Unless a turn threw before its snapshot *)
(* the baseline is the checkout itself as long as the user left it alone,   *)
(* but for what the agent does while it runs; and what the trackers took    *)
(* for told was, unless a turn had no message to put it on.                 *)
BaselineHolds ==
  (previous # Body!None /\ ~slipped /\ "user" \notin touched /\ phase # "running") => previous = Body!Snapshot
ToldWhateverThePhase == ~lost => knows.cwd = lastCwd /\ knows.skills = hashes
DivergesInOne ==
  phase = "diverging" =>
    \E head, added, removed :
      delta = [repo |-> FALSE, head |-> head, added |-> added, removed |-> removed, divergence |-> FALSE]

DeltasInv ==
  /\ phase \in {"idle", "diverging", "scanning", "running"} /\ slipped \in BOOLEAN /\ lost \in BOOLEAN
  /\ phase = "idle" => delta = Body!None
  /\ knows = [skills |-> knows.skills, cwd |-> knows.cwd]
  /\ BaselineHolds /\ ToldWhateverThePhase /\ DivergesInOne
  /\ Body!DeltaIsTheUsers /\ Body!DivergenceInOneRepository

LEMMA NothingCounted == Body!Cardinality({}) = 0
<1>1. Body!Cardinality({}) = Cardinality({})
  BY Zenon DEF Body!Cardinality, Cardinality
<1> QED
  BY <1>1, FS_EmptySet

LEMMA DeltasInit == ASSUME Body!InitDeltas PROVE DeltasInv
  BY DEF Body!InitDeltas, DeltasInv, BaselineHolds, ToldWhateverThePhase, DivergesInOne,
    Body!DeltaIsTheUsers, Body!DivergenceInOneRepository

(* The world changes between the steps of a turn. *)
LEMMA WorldStepKeeps ==
  ASSUME DeltasInv,
         \/ \E who \in {"user", "agent"} : Body!Touch(who)
         \/ \E s \in Skills : Body!EditSkill(s)
         \/ \E d \in Dirs : Body!Chdir(d)
  PROVE  DeltasInv'
<1>1. /\ UNCHANGED <<previous, hashes, lastCwd, phase, delta, knows, slipped, lost>>
      /\ touched \subseteq touched'
      /\ \/ phase = "running" \/ "user" \in touched' \/ UNCHANGED <<heads, dirty, cwd>>
  BY DEF Body!Touch, Body!EditSkill, Body!Chdir
<1>2. BaselineHolds'
  BY <1>1 DEF DeltasInv, BaselineHolds, Body!Snapshot, Body!None
<1>3. Body!DeltaIsTheUsers'
  BY <1>1 DEF DeltasInv, Body!DeltaIsTheUsers, Body!None
<1> QED
  BY <1>1, <1>2, <1>3 DEF DeltasInv, ToldWhateverThePhase, DivergesInOne, Body!DivergenceInOneRepository, Body!None

LEMMA GetDeltaKeeps == ASSUME DeltasInv, Body!GetDelta PROVE DeltasInv'
<1> DEFINE d == Body!ComputeDelta(previous, Body!Snapshot)
<1>1. /\ phase = "idle" /\ phase' \in {"diverging", "scanning"}
      /\ UNCHANGED <<heads, dirty, cwd, previous, hashes, lastCwd, knows, touched, slipped, lost>>
  BY DEF Body!GetDelta
<1>2. BaselineHolds' /\ ToldWhateverThePhase'
  BY <1>1 DEF DeltasInv, BaselineHolds, ToldWhateverThePhase, Body!Snapshot, Body!None
<1>3. CASE previous = Body!None
  <2>1. phase' = "scanning" /\ delta' = Body!None
    BY <1>3 DEF Body!GetDelta
  <2> QED
    BY <1>1, <1>2, <2>1 DEF DeltasInv, DivergesInOne, Body!DeltaIsTheUsers, Body!DivergenceInOneRepository, Body!None
<1>4. CASE previous # Body!None
  <2>1. /\ delta' = IF Body!Changed(d) THEN d ELSE Body!None
        /\ phase' = IF d.head /\ ~d.repo THEN "diverging" ELSE "scanning"
    BY <1>4 DEF Body!GetDelta
  <2>2. d = [repo |-> d.repo, head |-> d.head, added |-> d.added, removed |-> d.removed, divergence |-> FALSE]
        /\ d.repo \in BOOLEAN
    BY DEF Body!ComputeDelta
  <2> HIDE DEF d
  <2>3. DivergesInOne'
    <3>1. phase' = "diverging" => delta' = d /\ d.repo = FALSE
      BY <2>1, <2>2 DEF Body!Changed
    <3> QED
      BY <2>2, <3>1 DEF DivergesInOne
  <2>4. Body!DivergenceInOneRepository'
    BY <2>1, <2>2 DEF Body!DivergenceInOneRepository, Body!None
  <2>5. ASSUME ~slipped, "user" \notin touched PROVE delta' = Body!None
    <3>1. previous = Body!Snapshot
      BY <1>1, <1>4, <2>5 DEF DeltasInv, BaselineHolds
    <3>2. d = [repo |-> FALSE, head |-> FALSE, added |-> Body!Cardinality({}), removed |-> Body!Cardinality({}),
               divergence |-> FALSE]
      BY <3>1 DEF d, Body!ComputeDelta, Body!Snapshot
    <3> QED
      BY <2>1, <3>2, NothingCounted DEF Body!Changed
  <2>6. Body!DeltaIsTheUsers'
    BY <1>1, <2>5 DEF Body!DeltaIsTheUsers, Body!None
  <2> QED
    BY <1>1, <1>2, <2>3, <2>4, <2>6 DEF DeltasInv, Body!None
<1> QED
  BY <1>3, <1>4

LEMMA GetDivergenceKeeps == ASSUME DeltasInv, Body!GetDivergence PROVE DeltasInv'
<1>1. /\ phase = "diverging" /\ phase' = "scanning" /\ delta' = [delta EXCEPT !.divergence = (cwd = current.repo)]
      /\ UNCHANGED <<heads, dirty, cwd, previous, hashes, lastCwd, knows, touched, slipped, lost>>
  BY DEF Body!GetDivergence
<1>2. PICK head, added, removed :
        delta = [repo |-> FALSE, head |-> head, added |-> added, removed |-> removed, divergence |-> FALSE]
  BY <1>1 DEF DeltasInv, DivergesInOne
<1>3. delta # Body!None /\ delta'.repo = FALSE
  BY <1>1, <1>2 DEF Body!None
<1> QED
  BY <1>1, <1>3 DEF DeltasInv, BaselineHolds, ToldWhateverThePhase, DivergesInOne, Body!DeltaIsTheUsers,
    Body!DivergenceInOneRepository, Body!Snapshot, Body!None

LEMMA ScanKeeps == ASSUME DeltasInv, Body!Scan PROVE DeltasInv'
<1>1. /\ phase = "scanning" /\ phase' = "running" /\ hashes' = Body!Present /\ lastCwd' = cwd
      /\ UNCHANGED <<heads, dirty, cwd, previous, delta, touched, slipped>>
  BY DEF Body!Scan
<1>2. lost' \in BOOLEAN /\ knows' = [skills |-> knows'.skills, cwd |-> knows'.cwd] /\ ToldWhateverThePhase'
  <2>1. CASE message
    <3>1. /\ knows' = [skills |-> IF hashes = Body!None \/ hashes = Body!Present
                                    THEN (IF knows.skills = Body!None THEN Body!Present ELSE knows.skills)
                                    ELSE Body!Present,
                       cwd |-> IF lastCwd = cwd THEN knows.cwd ELSE cwd]
          /\ lost' = lost
      BY <2>1 DEF Body!Scan
    <3> QED
      BY <1>1, <3>1 DEF DeltasInv, ToldWhateverThePhase
  <2>2. CASE ~message
    <3>1. /\ knows' = IF hashes = Body!None THEN [knows EXCEPT !.skills = Body!Present] ELSE knows
          /\ lost' = (lost \/ (hashes # Body!None /\ hashes # Body!Present) \/ lastCwd # cwd)
      BY <2>2 DEF Body!Scan
    <3>2. knows' = [skills |-> IF hashes = Body!None THEN Body!Present ELSE knows.skills, cwd |-> knows.cwd]
      BY <3>1 DEF DeltasInv
    <3>3. lost' \in BOOLEAN
      BY <3>1
    <3>4. ~lost' => ~lost /\ (hashes = Body!None \/ hashes = Body!Present) /\ lastCwd = cwd
      BY <3>1
    <3> QED
      BY <1>1, <3>2, <3>3, <3>4 DEF DeltasInv, ToldWhateverThePhase
  <2> QED
    BY <2>1, <2>2
<1> QED
  BY <1>1, <1>2 DEF DeltasInv, BaselineHolds, DivergesInOne, Body!DeltaIsTheUsers, Body!DivergenceInOneRepository,
    Body!Snapshot, Body!None

LEMMA DeltasStepKeeps == ASSUME DeltasInv, Body!NextDeltas PROVE DeltasInv'
<1>1. ASSUME Body!TakeSnapshot PROVE DeltasInv'
  BY <1>1 DEF Body!TakeSnapshot, DeltasInv, BaselineHolds, ToldWhateverThePhase, DivergesInOne, Body!DeltaIsTheUsers,
    Body!DivergenceInOneRepository, Body!Snapshot, Body!None
<1>2. ASSUME Body!TurnThrows PROVE DeltasInv'
  <2>1. /\ phase \in {"scanning", "running"} /\ phase' = "idle" /\ delta' = Body!None
        /\ slipped' \in BOOLEAN /\ (~slipped' => ~slipped /\ phase # "running")
        /\ UNCHANGED <<heads, dirty, cwd, previous, hashes, lastCwd, knows, touched, lost>>
    BY <1>2 DEF Body!TurnThrows
  <2> QED
    BY <2>1 DEF DeltasInv, BaselineHolds, ToldWhateverThePhase, DivergesInOne, Body!DeltaIsTheUsers,
      Body!DivergenceInOneRepository, Body!Snapshot, Body!None
<1> QED
  BY <1>1, <1>2, WorldStepKeeps, GetDeltaKeeps, GetDivergenceKeeps, ScanKeeps DEF Body!NextDeltas

LEMMA DeltasInvIsEnough == DeltasInv => Body!DeltasSound
  BY DEF DeltasInv, ToldWhateverThePhase, Body!DeltasSound, Body!ToldAsTracked

-----------------------------------------------------------------------------
(* The life of the process.  Each owner's watch is counted once until the   *)
(* clean exit disposes it; the identity's is handed over past its stage;    *)
(* a cleanup that still runs waits for the bus to drain; and what was said   *)
(* of the conversations is right at each stage of the connection.            *)
Early == {"login", "session", "bus"}
Stages == {"prompts", "identity", "stats", "loop"}

LifeTypes ==
  /\ at \in Early \cup Stages /\ exit \in {"no", "0", "1", "forced", "signal"}
  /\ cleaning \in BOOLEAN /\ sigint \in BOOLEAN /\ pulsing \in BOOLEAN /\ sweeping \in BOOLEAN /\ late \in BOOLEAN
  /\ screen \in {"normal", "entered"} /\ conn \in {"none", "live", "draining", "closed"}
  /\ conv \in Convs /\ dir \in Dirs /\ (moving = "leaving" => target \in Convs)
  /\ word \in [Convs -> Dirs \cup {Unsaid, Detached}]
  /\ open \in [Life!Kinds -> Int] /\ held \in [Life!Kinds -> BOOLEAN]

WatchesCounted ==
  /\ \A kind \in Life!Kinds : open[kind] = IF held[kind] /\ exit # "0" THEN 1 ELSE 0
  /\ held["identity"] => at \in {"stats", "loop"}

WaysAgree ==
  /\ screen = "entered" => at \in Stages
  /\ at \in Early => conn = "none" /\ \A c \in Convs : word[c] = Unsaid
  /\ conn \in {"draining", "closed"} => cleaning
  /\ cleaning /\ exit = "no" => conn = "draining"
  /\ Life!QuietOnTheWayOut /\ Life!ScreenGivenBack

LeftUnlessLate ==
  (conn \in {"draining", "closed"} /\ stranded = {} /\ ~late) => \A c \in Convs : word[c] \in {Unsaid, Detached}

LifeInv == LifeTypes /\ WatchesCounted /\ WaysAgree /\ Life!AttachedWhereItIs /\ LeftUnlessLate

LEMMA LifeInit == ASSUME Life!Init PROVE LifeInv
<1> USE DEF Life!Init
<1>1. LifeTypes
  <2>1. word = [c \in Convs |-> Unsaid] /\ open = [k \in Life!Kinds |-> IF k = "identity" THEN 0 ELSE 1]
        /\ held = [k \in Life!Kinds |-> k # "identity"]
    OBVIOUS
  <2>2. word \in [Convs -> Dirs \cup {Unsaid, Detached}] /\ open \in [Life!Kinds -> Int] /\ held \in [Life!Kinds -> BOOLEAN]
    BY <2>1
  <2> QED
    BY <2>2 DEF LifeTypes, Early
<1>2. WatchesCounted
  BY DEF WatchesCounted, Life!Kinds
<1>3. WaysAgree /\ Life!AttachedWhereItIs /\ LeftUnlessLate
  BY DEF WaysAgree, Early, Life!QuietOnTheWayOut, Life!ScreenGivenBack, Life!AttachedWhereItIs, LeftUnlessLate
<1> QED
  BY <1>1, <1>2, <1>3 DEF LifeInv

(* What keeps the watches, the bus and the words as they are keeps the rest, *)
(* where the ways still agree.                                               *)
LEMMA QuietStep ==
  ASSUME LifeInv, UNCHANGED <<conn, cleaning, word, bound, conv, dir, open, held, late>>,
         at' = at \/ {at, at'} \subseteq Early, exit = "no", exit' \in {"no", "1", "forced", "signal"},
         sigint' \in BOOLEAN, pulsing' = pulsing, sweeping' = sweeping,
         screen' \in {screen, "normal"}, stranded' = stranded,
         moving' = "leaving" => target' \in Convs,
         exit' \in {"1", "signal"} => screen' = "normal"
  PROVE  LifeInv'
<1>1. LifeTypes'
  BY DEF LifeInv, LifeTypes
<1>2. WatchesCounted'
  BY DEF LifeInv, WatchesCounted, Early, Stages
<1>3. WaysAgree'
  BY DEF LifeInv, WaysAgree, Early, Stages, Life!QuietOnTheWayOut, Life!ScreenGivenBack, LifeTypes
<1>4. Life!AttachedWhereItIs' /\ LeftUnlessLate'
  BY DEF LifeInv, Life!AttachedWhereItIs, Life!Running, LeftUnlessLate
<1> QED
  BY <1>1, <1>2, <1>3, <1>4 DEF LifeInv

LEMMA QuietActionsKeep ==
  ASSUME LifeInv,
         \/ Life!LogIn \/ Life!ActivateSession \/ Life!Unreachable \/ Life!BootFails
         \/ \E c \in Convs : Life!SwitchTo(c)
         \/ Life!LeavingFails \/ Life!MoveEnds \/ Life!ForceExit \/ Life!Killed \/ (cleaning /\ Life!Sigint)
  PROVE  LifeInv'
<1> USE DEF Life!Running, Life!Stay, Early
<1>1. LifeTypes /\ WaysAgree
  BY DEF LifeInv
<1>2. ASSUME Life!LogIn PROVE LifeInv'
  BY <1>1, <1>2, QuietStep DEF Life!LogIn, LifeTypes, WaysAgree, Stages
<1>3. ASSUME Life!ActivateSession PROVE LifeInv'
  BY <1>1, <1>3, QuietStep DEF Life!ActivateSession, LifeTypes, WaysAgree, Stages
<1>4. ASSUME Life!Unreachable PROVE LifeInv'
  BY <1>1, <1>4, QuietStep DEF Life!Unreachable, LifeTypes, WaysAgree, Stages
<1>5. ASSUME Life!BootFails PROVE LifeInv'
  BY <1>1, <1>5, QuietStep DEF Life!BootFails, LifeTypes
<1>6. ASSUME NEW c \in Convs, Life!SwitchTo(c) PROVE LifeInv'
  BY <1>1, <1>6, QuietStep DEF Life!SwitchTo, LifeTypes
<1>7. ASSUME Life!LeavingFails \/ Life!MoveEnds PROVE LifeInv'
  BY <1>1, <1>7, QuietStep DEF Life!LeavingFails, Life!MoveEnds, LifeTypes
<1>8. ASSUME Life!ForceExit \/ Life!Killed PROVE LifeInv'
  BY <1>1, <1>8, QuietStep DEF Life!ForceExit, Life!Killed, Life!Listening, LifeTypes, WaysAgree, Stages
<1>9. ASSUME cleaning, Life!Sigint PROVE LifeInv'
  BY <1>1, <1>9, QuietStep DEF Life!Sigint, LifeTypes
<1> QED
  BY <1>2, <1>3, <1>4, <1>5, <1>6, <1>7, <1>8, <1>9

LEMMA ActivateBusKeeps == ASSUME LifeInv, Life!ActivateBus PROVE LifeInv'
<1>1. /\ exit = "no" /\ at = "bus" /\ at' = "prompts" /\ conn' \in {"live", "none"}
      /\ word' = (IF enabled THEN [word EXCEPT ![conv] = dir] ELSE word) /\ (conn' = "live" => enabled)
      /\ bound' = conv /\ pulsing' = TRUE /\ sweeping' = TRUE /\ screen' = "entered"
      /\ UNCHANGED <<exit, cleaning, sigint, conv, dir, moving, target, open, held, stranded, late>>
  BY DEF Life!ActivateBus, Life!Running, Life!Boot
<1>2. conn = "none" /\ cleaning = FALSE /\ (\A c \in Convs : word[c] = Unsaid) /\ ~held["identity"]
  BY <1>1 DEF LifeInv, LifeTypes, WaysAgree, WatchesCounted, Early, Life!Kinds
<1>3. LifeTypes'
  BY <1>1, <1>2 DEF LifeInv, LifeTypes, Early, Stages
<1>4. WatchesCounted' /\ WaysAgree'
  BY <1>1, <1>2 DEF LifeInv, WatchesCounted, WaysAgree, Early, Stages, Life!QuietOnTheWayOut, Life!ScreenGivenBack
<1>5. Life!AttachedWhereItIs' /\ LeftUnlessLate'
  BY <1>1, <1>2 DEF LifeInv, LifeTypes, Life!AttachedWhereItIs, LeftUnlessLate
<1> QED
  BY <1>3, <1>4, <1>5 DEF LifeInv

LEMMA NextStages ==
  /\ Life!NextStage("prompts") = "identity" /\ Life!NextStage("identity") = "stats" /\ Life!NextStage("stats") = "loop"
<1>1. \A i \in DOMAIN Life!Boot : /\ Life!Boot[i] = "prompts" => i = 1
                                  /\ Life!Boot[i] = "identity" => i = 2
                                  /\ Life!Boot[i] = "stats" => i = 3
  BY DEF Life!Boot
<1>2. /\ DOMAIN Life!Boot = 1..4 /\ Life!Boot[1] = "prompts" /\ Life!Boot[2] = "identity" /\ Life!Boot[3] = "stats"
      /\ Life!Boot[4] = "loop"
  BY DEF Life!Boot
<1>3. (CHOOSE i \in DOMAIN Life!Boot : Life!Boot[i] = "prompts") = 1
  BY <1>1, <1>2
<1>4. (CHOOSE i \in DOMAIN Life!Boot : Life!Boot[i] = "identity") = 2
  BY <1>1, <1>2
<1>5. (CHOOSE i \in DOMAIN Life!Boot : Life!Boot[i] = "stats") = 3
  BY <1>1, <1>2
<1> QED
  BY <1>2, <1>3, <1>4, <1>5 DEF Life!NextStage

LEMMA BootStepKeeps == ASSUME LifeInv, NEW i \in DOMAIN Life!Boot, Life!BootStep(Life!Boot[i]) PROVE LifeInv'
<1>1. /\ exit = "no" /\ at \in {"prompts", "identity", "stats"} /\ at' \in {"identity", "stats", "loop"}
      /\ (at = "identity" => at' = "stats") /\ (at = "stats" => at' = "loop")
      /\ UNCHANGED <<exit, cleaning, sigint, screen, enabled, conn, pulsing, sweeping, word, bound, conv, dir, moving,
                     target, stranded, late>>
  BY NextStages DEF Life!BootStep, Life!Running, Life!Boot
<1>2. UNCHANGED <<open, held>> \/ (at = "identity" /\ open' = [open EXCEPT !["identity"] = @ + 1]
                                   /\ held' = [held EXCEPT !["identity"] = TRUE])
  BY DEF Life!BootStep, Life!SetIdentityWatch
<1>3. LifeTypes'
  <2>1. open' \in [Life!Kinds -> Int] /\ held' \in [Life!Kinds -> BOOLEAN]
    <3>1. open \in [Life!Kinds -> Int] /\ held \in [Life!Kinds -> BOOLEAN] /\ "identity" \in Life!Kinds
      BY DEF LifeInv, LifeTypes, Life!Kinds
    <3>2. CASE UNCHANGED <<open, held>>
      BY <3>1, <3>2
    <3>3. CASE open' = [open EXCEPT !["identity"] = @ + 1] /\ held' = [held EXCEPT !["identity"] = TRUE]
      <4>1. open' \in [Life!Kinds -> Int]
        BY <3>1, <3>3
      <4>2. held' \in [Life!Kinds -> BOOLEAN]
        BY <3>1, <3>3
      <4> QED
        BY <4>1, <4>2
    <3> QED
      BY <1>2, <3>2, <3>3
  <2> QED
    BY <1>1, <2>1 DEF LifeInv, LifeTypes, Stages
<1>4. WatchesCounted'
  BY <1>1, <1>2 DEF LifeInv, LifeTypes, WatchesCounted, Life!Kinds
<1>5. WaysAgree' /\ Life!AttachedWhereItIs' /\ LeftUnlessLate'
  BY <1>1 DEF LifeInv, WaysAgree, Early, Stages, Life!AttachedWhereItIs, LeftUnlessLate, Life!QuietOnTheWayOut,
    Life!ScreenGivenBack, Life!Running
<1> QED
  BY <1>3, <1>4, <1>5 DEF LifeInv

(* The conversation served changes, and the bus is told of both ends.        *)
LEMMA RebindKeeps ==
  ASSUME LifeInv, NEW c \in Convs, Life!Rebind(conv, c), exit = "no", moving' # "leaving",
         UNCHANGED <<at, exit, cleaning, sigint, screen, enabled, conn, pulsing, sweeping, dir, open, held, stranded>>
  PROVE  LifeInv'
<1> DEFINE left == [word EXCEPT ![conv] = Detached]
           both == [word EXCEPT ![conv] = Detached, ![c] = dir]
<1>1. /\ bound' = c /\ conv' = c
      /\ conn = "live" => word' = both
      /\ conn = "draining" => word' \in {word, left, both}
      /\ conn \in {"none", "closed"} => word' = word
      /\ late' = (late \/ (cleaning /\ word' # word))
  <2>1. Len(<<left, both>>) = 2 /\ <<left, both>>[1] = left /\ <<left, both>>[2] = both /\ DOMAIN <<left, both>> = 1..2
    OBVIOUS
  <2> HIDE DEF left, both
  <2> QED
    BY <2>1 DEF Life!Rebind, Life!Publish, left, both
<1>2. word \in [Convs -> Dirs \cup {Unsaid, Detached}] /\ conv \in Convs /\ dir \in Dirs
      /\ conn \in {"none", "live", "draining", "closed"} /\ late \in BOOLEAN /\ cleaning \in BOOLEAN
  BY DEF LifeInv, LifeTypes
<1>3. both \in [Convs -> Dirs \cup {Unsaid, Detached}] /\ left \in [Convs -> Dirs \cup {Unsaid, Detached}]
      /\ both[c] = dir /\ \A other \in Convs \ {c} : both[other] \in {word[other], Detached} /\ (other = conv => both[other] = Detached)
  BY <1>2
<1>4. word' \in [Convs -> Dirs \cup {Unsaid, Detached}] /\ late' \in BOOLEAN
  BY <1>1, <1>2, <1>3
<1>5. LifeTypes'
  BY <1>1, <1>4 DEF LifeInv, LifeTypes
<1>6. WatchesCounted'
  BY DEF LifeInv, WatchesCounted
<1>7. WaysAgree'
  BY <1>1, <1>2 DEF LifeInv, WaysAgree, Early, Stages, Life!QuietOnTheWayOut, Life!ScreenGivenBack
<1>8. Life!AttachedWhereItIs'
  <2> SUFFICES ASSUME conn = "live", stranded = {}
               PROVE  word'[c] = dir /\ \A other \in Convs \ {c} : word'[other] \in {Unsaid, Detached}
    BY <1>1 DEF Life!AttachedWhereItIs
  <2>1. \A other \in Convs \ {conv} : word[other] \in {Unsaid, Detached}
    BY DEF LifeInv, Life!AttachedWhereItIs, Life!Running
  <2> QED
    BY <1>1, <1>3, <2>1
<1>9. LeftUnlessLate'
  <2> SUFFICES ASSUME conn \in {"draining", "closed"}, stranded = {}, ~late'
               PROVE  \A any \in Convs : word'[any] \in {Unsaid, Detached}
    BY DEF LeftUnlessLate
  <2>1. cleaning = TRUE
    BY <1>2 DEF LifeInv, WaysAgree
  <2>2. ~late /\ word' = word
    BY <1>1, <2>1
  <2> QED
    BY <2>2 DEF LifeInv, LeftUnlessLate
<1> QED
  BY <1>5, <1>6, <1>7, <1>8, <1>9 DEF LifeInv

LEMMA MovesKeep ==
  ASSUME LifeInv, (\E c \in Convs : Life!NewConversation(c)) \/ Life!Adopt \/ Life!AdoptFails
  PROVE  LifeInv'
<1> USE DEF Life!Running
<1>1. ASSUME NEW c \in Convs, Life!NewConversation(c) PROVE LifeInv'
  BY <1>1, RebindKeeps DEF Life!NewConversation
<1>2. ASSUME Life!Adopt PROVE LifeInv'
  BY <1>2, RebindKeeps DEF Life!Adopt, LifeInv, LifeTypes
<1>3. ASSUME Life!AdoptFails PROVE LifeInv'
  <2>1. /\ exit = "no" /\ conv' \in Convs /\ moving' = "no" /\ stranded' # {}
        /\ UNCHANGED <<at, exit, cleaning, sigint, screen, enabled, conn, pulsing, sweeping, word, bound, dir, open, held, late>>
    BY <1>3 DEF Life!AdoptFails, LifeInv, LifeTypes
  <2>2. LifeTypes' /\ WatchesCounted' /\ WaysAgree'
    BY <2>1 DEF LifeInv, LifeTypes, WatchesCounted, WaysAgree, Life!QuietOnTheWayOut, Life!ScreenGivenBack
  <2> QED
    BY <2>1, <2>2 DEF LifeInv, Life!AttachedWhereItIs, LeftUnlessLate
<1> QED
  BY <1>1, <1>2, <1>3

LEMMA ChdirKeeps == ASSUME LifeInv, NEW d \in Dirs, Life!Chdir(d) PROVE LifeInv'
<1> DEFINE there == [word EXCEPT ![conv] = d]
<1>1. /\ exit = "no" /\ screen = "entered" /\ dir' = d
      /\ UNCHANGED <<at, exit, cleaning, sigint, screen, enabled, conn, pulsing, sweeping, bound, conv, moving, target, stranded>>
      /\ open' = [k \in Life!Kinds |-> IF k \in {"config", "rules"} THEN (open[k] - (IF held[k] THEN 1 ELSE 0)) + 1 ELSE open[k]]
      /\ held' = [k \in Life!Kinds |-> held[k] \/ k \in {"config", "rules"}]
  BY DEF Life!Chdir, Life!Running, Life!Repoint
<1>2. /\ conn = "live" => word' = there
      /\ conn = "draining" => word' \in {word, there}
      /\ conn \in {"none", "closed"} => word' = word
      /\ late' = (late \/ (cleaning /\ word' # word))
  <2>1. Len(<<there>>) = 1 /\ <<there>>[1] = there /\ DOMAIN <<there>> = {1}
    OBVIOUS
  <2> HIDE DEF there
  <2> QED
    BY <2>1 DEF Life!Chdir, Life!Publish, there
<1>3. word \in [Convs -> Dirs \cup {Unsaid, Detached}] /\ conv \in Convs
      /\ conn \in {"none", "live", "draining", "closed"} /\ late \in BOOLEAN /\ cleaning \in BOOLEAN
      /\ open \in [Life!Kinds -> Int] /\ held \in [Life!Kinds -> BOOLEAN]
  BY DEF LifeInv, LifeTypes
<1>4. word' \in [Convs -> Dirs \cup {Unsaid, Detached}] /\ late' \in BOOLEAN
  BY <1>2, <1>3
<1>5. open' \in [Life!Kinds -> Int] /\ held' \in [Life!Kinds -> BOOLEAN] /\ WatchesCounted'
  <2>1. open' \in [Life!Kinds -> Int]
    BY <1>1, <1>3
  <2>2. held' \in [Life!Kinds -> BOOLEAN]
    BY <1>1, <1>3, Zenon
  <2>3. \A kind \in Life!Kinds : held'[kind] <=> held[kind] \/ kind \in {"config", "rules"}
    BY <1>1, Zenon
  <2>4. held'["identity"] <=> held["identity"]
    BY <2>3 DEF Life!Kinds
  <2>5. \A kind \in Life!Kinds : open[kind] = IF held[kind] THEN 1 ELSE 0
    BY <1>1 DEF LifeInv, WatchesCounted
  <2>6. ASSUME NEW kind \in Life!Kinds PROVE open'[kind] = IF held'[kind] THEN 1 ELSE 0
    BY <1>1, <1>3, <2>3, <2>5
  <2> QED
    BY <1>1, <2>1, <2>2, <2>4, <2>6 DEF LifeInv, WatchesCounted
<1>6. LifeTypes'
  BY <1>1, <1>4, <1>5 DEF LifeInv, LifeTypes
<1>7. WaysAgree'
  BY <1>1 DEF LifeInv, WaysAgree, Early, Stages, Life!QuietOnTheWayOut, Life!ScreenGivenBack
<1>8. Life!AttachedWhereItIs'
  BY <1>1, <1>2, <1>3 DEF LifeInv, Life!AttachedWhereItIs, Life!Running
<1>9. LeftUnlessLate'
  <2> SUFFICES ASSUME conn \in {"draining", "closed"}, stranded = {}, ~late'
               PROVE  \A any \in Convs : word'[any] \in {Unsaid, Detached}
    BY <1>1 DEF LeftUnlessLate
  <2>1. cleaning = TRUE
    BY <1>3 DEF LifeInv, WaysAgree
  <2>2. ~late /\ word' = word
    BY <1>2, <2>1
  <2> QED
    BY <2>2 DEF LifeInv, LeftUnlessLate
<1> QED
  BY <1>5, <1>6, <1>7, <1>8, <1>9 DEF LifeInv

(* Every watch that is held is disposed, the screen left. *)
LEMMA DisposedAtExit ==
  ASSUME LifeTypes, WatchesCounted, exit = "no", exit' = "0", Life!Dispose, held' = held, at' = at
  PROVE  WatchesCounted' /\ open' \in [Life!Kinds -> Int]
<1>1. open' = [k \in Life!Kinds |-> IF held[k] THEN open[k] - 1 ELSE open[k]]
  BY DEF Life!Dispose
<1>2. \A kind \in Life!Kinds : open[kind] = IF held[kind] THEN 1 ELSE 0
  BY DEF WatchesCounted
<1> QED
  BY <1>1, <1>2 DEF LifeTypes, WatchesCounted

LEMMA CleanupKeeps ==
  ASSUME LifeInv, Life!Cleanup, exit = "no", ~cleaning, sigint' \in BOOLEAN
  PROVE  LifeInv'
<1> DEFINE left == [word EXCEPT ![conv] = Detached]
<1>1. /\ cleaning' = TRUE /\ sweeping' = FALSE /\ pulsing' = FALSE
      /\ UNCHANGED <<at, enabled, bound, conv, dir, moving, target, held, stranded>>
      /\ IF conn = "live" THEN conn' = "draining" /\ UNCHANGED <<exit, screen, open>>
                          ELSE exit' = "0" /\ screen' = "normal" /\ Life!Dispose /\ conn' = conn
  BY DEF Life!Cleanup
<1>2. conn \in {"none", "live"} /\ word \in [Convs -> Dirs \cup {Unsaid, Detached}] /\ conv \in Convs
      /\ late \in BOOLEAN
  BY DEF LifeInv, LifeTypes, WaysAgree
<1>3. word' = (IF conn = "live" THEN left ELSE word) /\ late' = late
  <2>1. Len(<<left>>) = 1 /\ <<left>>[1] = left
    OBVIOUS
  <2> HIDE DEF left
  <2>2. word' = (IF conn = "live" THEN left ELSE word) /\ late' = (late \/ (cleaning /\ word' # word))
    BY <1>2, <2>1 DEF Life!Cleanup, Life!Publish, left
  <2> QED
    BY <1>2, <2>2
<1>4. word' \in [Convs -> Dirs \cup {Unsaid, Detached}]
  BY <1>2, <1>3
<1>5. open' \in [Life!Kinds -> Int] /\ WatchesCounted'
  BY <1>1, DisposedAtExit DEF LifeInv, LifeTypes, WatchesCounted
<1>6. LifeTypes'
  BY <1>1, <1>2, <1>3, <1>4, <1>5 DEF LifeInv, LifeTypes
<1>7. WaysAgree'
  BY <1>1, <1>2, <1>3 DEF LifeInv, WaysAgree, Early, Stages, Life!QuietOnTheWayOut, Life!ScreenGivenBack
<1>8. Life!AttachedWhereItIs'
  BY <1>1, <1>2 DEF Life!AttachedWhereItIs, Life!Running
<1>9. LeftUnlessLate'
  BY <1>1, <1>2, <1>3 DEF LifeInv, LeftUnlessLate, Life!AttachedWhereItIs, Life!Running
<1> QED
  BY <1>5, <1>6, <1>7, <1>8, <1>9 DEF LifeInv

LEMMA DrainedKeeps == ASSUME LifeInv, Life!Drained \/ Life!TimesOut PROVE LifeInv'
<1>1. /\ exit = "no" /\ conn = "draining" /\ conn' \in {"draining", "closed"}
      /\ exit' = "0" /\ screen' = "normal" /\ Life!Dispose
      /\ UNCHANGED <<at, cleaning, sigint, enabled, pulsing, sweeping, word, bound, conv, dir, moving, target, held,
                     stranded, late>>
  BY DEF Life!Drained, Life!TimesOut, Life!FinishCleanup, Life!Running
<1>2. WatchesCounted' /\ open' \in [Life!Kinds -> Int]
  BY <1>1, DisposedAtExit DEF LifeInv
<1>3. LifeTypes' /\ WaysAgree'
  BY <1>1, <1>2 DEF LifeInv, LifeTypes, WaysAgree, Early, Stages, Life!QuietOnTheWayOut, Life!ScreenGivenBack
<1>4. Life!AttachedWhereItIs' /\ LeftUnlessLate'
  BY <1>1 DEF LifeInv, Life!AttachedWhereItIs, Life!Running, LeftUnlessLate
<1> QED
  BY <1>2, <1>3, <1>4 DEF LifeInv

LEMMA LifeStepKeeps == ASSUME LifeInv, Life!Next PROVE LifeInv'
<1>1. sigint \in BOOLEAN /\ cleaning \in BOOLEAN
  BY DEF LifeInv, LifeTypes
<1>2. ASSUME Life!Quit \/ Life!Sigterm \/ Life!Drain \/ (~cleaning /\ Life!Sigint) PROVE LifeInv'
  BY <1>1, <1>2, CleanupKeeps DEF Life!Quit, Life!Sigterm, Life!Drain, Life!Sigint, Life!Running
<1> QED
  BY <1>2, QuietActionsKeep, ActivateBusKeeps, BootStepKeeps, MovesKeep, ChdirKeeps, DrainedKeeps DEF Life!Next

LEMMA LifeInvIsEnough == LifeInv => Life!LifecycleSound
<1> SUFFICES ASSUME LifeInv PROVE Life!LifecycleSound
  OBVIOUS
<1>1. Life!WatchesHeld
  BY DEF LifeInv, LifeTypes, WatchesCounted, Life!WatchesHeld
<1>2. Life!DetachedAtLast
  BY DEF LifeInv, LeftUnlessLate, Life!DetachedAtLast
<1> QED
  BY <1>1, <1>2 DEF LifeInv, WaysAgree, Life!LifecycleSound

-----------------------------------------------------------------------------
(* The tools on offer.  A call's id is its place among the blocks, a        *)
(* result's that of its call; so a block that is added opens nothing but by  *)
(* itself, and what was loaded is what the results say.                      *)
Blocks ==
  [kind : {"use", "result"}, id : Nat, name : Body!Names \cup {"Skill"}, skill : Required \cup {"none"},
   outcome : {"none", "found", "unseen", "error", "text"}]

ItemsOK ==
  /\ items \in Seq(Blocks)
  /\ \A i \in DOMAIN items : items[i].kind = "result" => items[i].id \in DOMAIN items
BatchOK ==
  /\ stage \in {"calls", "running"} => \E first \in 1..Len(items) : calls = first..Len(items)
  /\ stage = "running" => DOMAIN verdict = calls
OfferOK == (stage \in {"asked", "calls"} /\ ~stirred) => offered = Tools \ config.off

OfferInv ==
  /\ stage \in {"idle", "asked", "calls", "running"} /\ stirred \in BOOLEAN
  /\ ItemsOK /\ BatchOK /\ OfferOK
  /\ Body!LoadedSkillNames = loaded
  /\ Body!SkillsFirst /\ Body!OfferedIsCallable

LEMMA OfferInit == ASSUME Body!InitOffer PROVE OfferInv
<1>1. stage = "idle" /\ items = <<>> /\ loaded = {} /\ stirred = FALSE
  BY DEF Body!InitOffer
<1>2. Body!LoadedSkillNames = {}
  BY <1>1 DEF Body!LoadedSkillNames
<1>3. ItemsOK
  <2>1. <<>> \in Seq(Blocks) /\ DOMAIN <<>> = {}
    OBVIOUS
  <2> QED
    BY <1>1, <2>1 DEF ItemsOK
<1>4. BatchOK /\ OfferOK
  BY <1>1 DEF BatchOK, OfferOK
<1> QED
  BY <1>1, <1>2, <1>3, <1>4 DEF OfferInv, Body!SkillsFirst, Body!OfferedIsCallable

LEMMA BlocksAdded ==
  ASSUME ItemsOK, NEW more \in Seq(Blocks), items' = items \o more,
         \A j \in DOMAIN more : more[j].kind = "result" => more[j].id \in DOMAIN items
  PROVE  /\ ItemsOK' /\ Len(items') = Len(items) + Len(more)
         /\ \A i \in DOMAIN items : i \in DOMAIN items' /\ items'[i] = items[i]
         /\ Body!LoadedSkillNames' = Body!LoadedSkillNames \cup
              {items[more[j].id].skill : j \in {k \in DOMAIN more :
                 more[k].kind = "result" /\ more[k].outcome = "found" /\ items[more[k].id].name = "Skill"}}
<1> DEFINE OpensNow(one) == one.kind = "result" /\ one.outcome = "found" /\ items'[one.id].name = "Skill"
           Adds(one) == one.kind = "result" /\ one.outcome = "found" /\ items[one.id].name = "Skill"
<1>1. PICK n \in Nat : n = Len(items)
  BY DEF ItemsOK
<1>2. /\ items' \in Seq(Blocks) /\ Len(items') = n + Len(more) /\ Len(more) \in Nat
      /\ DOMAIN items' = 1..(n + Len(more)) /\ DOMAIN items = 1..n /\ DOMAIN more = 1..Len(more)
      /\ \A i \in 1..n : items'[i] = items[i]
      /\ \A j \in 1..Len(more) : items'[n + j] = more[j]
      /\ \A i \in 1..n : items[i] \in Blocks
      /\ \A j \in 1..Len(more) : more[j] \in Blocks
  BY <1>1 DEF ItemsOK
<1>3. \A i \in DOMAIN items' : i \in 1..n \/ \E j \in 1..Len(more) : i = n + j
  <2>1. ASSUME NEW i \in 1..(n + Len(more)), i \notin 1..n PROVE i - n \in 1..Len(more) /\ i = n + (i - n)
    BY <1>2, <2>1
  <2> QED
    BY <1>2, <2>1
<1>4. \A i \in 1..n : items[i].kind = "result" => items[i].id \in 1..n
  BY <1>2 DEF ItemsOK
<1>5. ItemsOK'
  <2> SUFFICES ASSUME NEW i \in DOMAIN items', items'[i].kind = "result" PROVE items'[i].id \in DOMAIN items'
    BY <1>2 DEF ItemsOK
  <2>1. CASE i \in 1..n
    BY <1>2, <1>4, <2>1
  <2>2. CASE i \notin 1..n
    <3>1. PICK j \in 1..Len(more) : i = n + j
      BY <1>3, <2>2
    <3>2. items'[i] = more[j]
      BY <1>2, <3>1
    <3>3. more[j].id \in 1..n
      BY <1>2, <3>2
    <3> QED
      BY <1>2, <3>2, <3>3
  <2> QED
    BY <2>1, <2>2
<1>6. \A i \in 1..n : OpensNow(items'[i]) <=> Adds(items[i])
  BY <1>2, <1>4
<1>7. \A j \in 1..Len(more) : OpensNow(items'[n + j]) <=> Adds(more[j])
  BY <1>2
<1>8. Body!LoadedSkillNames = {items[items[i].id].skill : i \in {k \in 1..n : Adds(items[k])}}
  BY <1>2 DEF Body!LoadedSkillNames, Body!BlockOf, Body!Opens
<1>9. Body!LoadedSkillNames' = {items'[items'[i].id].skill : i \in {k \in DOMAIN items' : OpensNow(items'[k])}}
  BY DEF Body!LoadedSkillNames, Body!BlockOf, Body!Opens
<1>10. \A i \in 1..n : Adds(items[i]) => items'[items'[i].id].skill = items[items[i].id].skill
  BY <1>2, <1>4
<1>11. \A j \in 1..Len(more) : Adds(more[j]) => items'[items'[n + j].id].skill = items[more[j].id].skill
  BY <1>2
<1> HIDE DEF OpensNow, Adds
<1>12. {items'[items'[i].id].skill : i \in {k \in DOMAIN items' : OpensNow(items'[k])}}
         \subseteq {items[items[i].id].skill : i \in {k \in 1..n : Adds(items[k])}} \cup
                   {items[more[j].id].skill : j \in {k \in 1..Len(more) : Adds(more[k])}}
  <2> SUFFICES ASSUME NEW i \in DOMAIN items', OpensNow(items'[i])
               PROVE  items'[items'[i].id].skill \in {items[items[k].id].skill : k \in {m \in 1..n : Adds(items[m])}} \cup
                        {items[more[j].id].skill : j \in {m \in 1..Len(more) : Adds(more[m])}}
    OBVIOUS
  <2>1. CASE i \in 1..n
    BY <1>6, <1>10, <2>1
  <2>2. CASE i \notin 1..n
    <3>1. PICK j \in 1..Len(more) : i = n + j
      BY <1>3, <2>2
    <3> QED
      BY <1>7, <1>11, <3>1
  <2> QED
    BY <2>1, <2>2
<1>13. /\ {items[items[i].id].skill : i \in {k \in 1..n : Adds(items[k])}}
            \subseteq {items'[items'[i].id].skill : i \in {k \in DOMAIN items' : OpensNow(items'[k])}}
       /\ {items[more[j].id].skill : j \in {k \in 1..Len(more) : Adds(more[k])}}
            \subseteq {items'[items'[i].id].skill : i \in {k \in DOMAIN items' : OpensNow(items'[k])}}
  <2>1. ASSUME NEW i \in 1..n, Adds(items[i])
        PROVE  items[items[i].id].skill \in {items'[items'[k].id].skill : k \in {m \in DOMAIN items' : OpensNow(items'[m])}}
    <3>1. i \in DOMAIN items' /\ OpensNow(items'[i]) /\ items'[items'[i].id].skill = items[items[i].id].skill
      <4>1. i \in DOMAIN items'
        BY <1>2
      <4> QED
        BY <1>6, <1>10, <2>1, <4>1, Zenon
    <3> QED
      BY <3>1, Zenon
  <2>2. ASSUME NEW j \in 1..Len(more), Adds(more[j])
        PROVE  items[more[j].id].skill \in {items'[items'[k].id].skill : k \in {m \in DOMAIN items' : OpensNow(items'[m])}}
    <3>1. n + j \in DOMAIN items' /\ OpensNow(items'[n + j]) /\ items'[items'[n + j].id].skill = items[more[j].id].skill
      <4>1. n + j \in DOMAIN items'
        BY <1>2
      <4> QED
        BY <1>7, <1>11, <2>2, <4>1, Zenon
    <3> QED
      BY <3>1, Zenon
  <2> QED
    BY <2>1, <2>2, Zenon
<1>14. {items[more[j].id].skill : j \in {k \in 1..Len(more) : Adds(more[k])}} =
         {items[more[j].id].skill : j \in {k \in DOMAIN more :
            more[k].kind = "result" /\ more[k].outcome = "found" /\ items[more[k].id].name = "Skill"}}
  BY <1>2 DEF Adds
<1>15. Body!LoadedSkillNames' = Body!LoadedSkillNames \cup {items[more[j].id].skill : j \in {k \in 1..Len(more) : Adds(more[k])}}
  BY <1>8, <1>9, <1>12, <1>13, Zenon
<1>16. Len(items') = Len(items) + Len(more) /\ \A i \in DOMAIN items : i \in DOMAIN items' /\ items'[i] = items[i]
  BY <1>1, <1>2
<1> QED
  BY <1>5, <1>14, <1>15, <1>16, Zenon

LEMMA ReplyKeeps ==
  ASSUME OfferInv, NEW batch \in Seq(Body!Calls), batch # <<>>, Body!Reply(batch)
  PROVE  OfferInv'
<1> DEFINE more == [i \in DOMAIN batch |-> Body!Use(Len(items) + i, batch[i].name, batch[i].skill)]
<1>1. /\ stage = "asked" /\ stage' = "calls" /\ items' = items \o more
      /\ calls' = (Len(items) + 1)..(Len(items) + Len(batch))
      /\ UNCHANGED <<config, offered, verdict, judged, stirred, loaded>>
  BY DEF Body!Reply
<1>2. DOMAIN batch = 1..Len(batch) /\ Len(batch) \in Nat /\ Len(batch) > 0 /\ Len(items) \in Nat /\ items \in Seq(Blocks)
  BY DEF OfferInv, ItemsOK
<1>3. \A i \in DOMAIN batch : batch[i].name \in Body!Names \cup {"Skill"} /\ batch[i].skill \in Required \cup {"none"}
  <2>1. ASSUME NEW a \in Body!Calls PROVE a.name \in Body!Names \cup {"Skill"} /\ a.skill \in Required \cup {"none"}
    BY DEF Body!Calls
  <2> QED
    BY <1>2, <2>1
<1>4. \A i \in DOMAIN batch : more[i] \in Blocks /\ more[i].kind = "use"
  BY <1>2, <1>3 DEF Blocks, Body!Use
<1>5. more \in Seq(Blocks) /\ Len(more) = Len(batch) /\ DOMAIN more = DOMAIN batch
  BY <1>2, <1>4
<1> HIDE DEF more
<1>6. /\ ItemsOK' /\ Len(items') = Len(items) + Len(batch)
      /\ Body!LoadedSkillNames' = Body!LoadedSkillNames
  BY <1>1, <1>4, <1>5, BlocksAdded DEF OfferInv
<1>7. BatchOK'
  <2>1. Len(items) + 1 \in 1..Len(items') /\ calls' = (Len(items) + 1)..Len(items')
    BY <1>1, <1>2, <1>6
  <2> QED
    BY <1>1, <2>1 DEF BatchOK
<1>8. OfferOK' /\ Body!SkillsFirst' /\ Body!OfferedIsCallable'
  BY <1>1, <1>6 DEF OfferInv, OfferOK, Body!SkillsFirst, Body!OfferedIsCallable
<1> QED
  BY <1>1, <1>6, <1>7, <1>8 DEF OfferInv

LEMMA ResolveKeeps == ASSUME OfferInv, Body!Resolve PROVE OfferInv'
<1>1. PICK fits \in [calls -> BOOLEAN] :
        /\ stage = "calls" /\ stage' = "running" /\ judged' = config
        /\ verdict' = [n \in calls |-> Body!Verdict(Body!BlockOf(n).name, fits[n])]
        /\ UNCHANGED <<config, offered, items, calls, stirred, loaded>>
  BY DEF Body!Resolve
<1>2. Body!LoadedSkillNames' = Body!LoadedSkillNames
  BY <1>1 DEF Body!LoadedSkillNames, Body!BlockOf, Body!Opens
<1>3. ItemsOK' /\ BatchOK' /\ OfferOK'
  BY <1>1 DEF OfferInv, ItemsOK, BatchOK, OfferOK
<1>4. Body!SkillsFirst'
  <2> SUFFICES ASSUME NEW n \in calls, items[n].name \in Tools \ {"Skill"}, verdict'[n] = "ready"
               PROVE  config.required[items[n].name] \subseteq loaded
    BY <1>1, <1>2 DEF OfferInv, Body!SkillsFirst, Body!NameOf, Body!BlockOf
  <2>1. Body!Check(items[n].name)
    BY <1>1 DEF Body!Verdict, Body!BlockOf
  <2> QED
    BY <2>1 DEF Body!Check, OfferInv
<1>5. Body!OfferedIsCallable'
  <2> SUFFICES ASSUME ~stirred, NEW n \in calls, items[n].name \in offered, verdict'[n] = "unavailable"
               PROVE  items[n].name \in Accounted /\ ~config.account
    BY <1>1 DEF Body!OfferedIsCallable, Body!NameOf, Body!BlockOf
  <2>1. items[n].name \notin Tools \/ items[n].name \in Body!DisabledTools(config)
    BY <1>1 DEF Body!Verdict, Body!BlockOf
  <2>2. items[n].name \in Tools \ config.off
    BY <1>1 DEF OfferInv, OfferOK
  <2> QED
    BY <2>1, <2>2 DEF Body!DisabledTools
<1> QED
  BY <1>1, <1>2, <1>3, <1>4, <1>5 DEF OfferInv

LEMMA AnswerKeeps == ASSUME OfferInv, Body!Answer PROVE OfferInv'
<1> DEFINE first == Body!FirstCall
<1>1. PICK said \in [calls -> {"found", "unseen", "error", "text"}] :
        /\ stage = "running" /\ stage' = "idle"
        /\ \A n \in calls : said[n] \in Body!Outcomes(n)
        /\ items' = items \o [i \in 1..(Len(items) + 1 - first) |-> Body!Result(first + i - 1, said[first + i - 1])]
        /\ loaded' = loaded \cup {Body!BlockOf(n).skill : n \in {k \in calls : said[k] = "found"}}
        /\ UNCHANGED <<config, offered, judged, stirred>>
  BY DEF Body!Answer
<1>2. first \in 1..Len(items) /\ calls = first..Len(items) /\ Len(items) \in Nat /\ items \in Seq(Blocks)
  <2>1. PICK least \in 1..Len(items) : calls = least..Len(items)
    BY <1>1 DEF OfferInv, BatchOK
  <2>2. Len(items) \in Nat /\ items \in Seq(Blocks)
    BY DEF OfferInv, ItemsOK
  <2>3. least \in calls /\ \A m \in calls : least <= m
    BY <2>1, <2>2
  <2>4. first \in calls /\ \A m \in calls : first <= m
    BY <2>3 DEF Body!FirstCall
  <2>5. first = least
    BY <2>1, <2>2, <2>3, <2>4
  <2> QED
    BY <2>1, <2>2, <2>5
<1> HIDE DEF first
<1> DEFINE k == Len(items) + 1 - first
           more == [i \in 1..k |-> Body!Result(first + i - 1, said[first + i - 1])]
<1>3. k \in Nat /\ \A i \in 1..k : first + i - 1 \in calls /\ first + i - 1 \in DOMAIN items /\ first + i - 1 \in Nat
  BY <1>2
<1>4. \A n \in calls : n - first + 1 \in 1..k /\ first + (n - first + 1) - 1 = n
  BY <1>2
<1>5. \A i \in 1..k : more[i] \in Blocks /\ more[i].id = first + i - 1 /\ more[i].kind = "result"
                      /\ more[i].outcome = said[first + i - 1]
  BY <1>1, <1>3 DEF Blocks, Body!Result, Body!Names
<1>6. more \in Seq(Blocks) /\ DOMAIN more = 1..k /\ items' = items \o more
  BY <1>1, <1>3, <1>5
<1> HIDE DEF more, k
<1>7. /\ ItemsOK'
      /\ Body!LoadedSkillNames' = Body!LoadedSkillNames \cup
           {items[more[j].id].skill : j \in {i \in DOMAIN more :
              more[i].kind = "result" /\ more[i].outcome = "found" /\ items[more[i].id].name = "Skill"}}
  <2>1. \A j \in DOMAIN more : more[j].id \in DOMAIN items
    BY <1>3, <1>5, <1>6
  <2> QED
    BY <1>6, <2>1, BlocksAdded DEF OfferInv
<1>8. \A n \in calls : said[n] = "found" => items[n].name = "Skill"
  BY <1>1 DEF Body!Outcomes, Body!BlockOf
<1>9. {items[more[j].id].skill : j \in {i \in DOMAIN more :
         more[i].kind = "result" /\ more[i].outcome = "found" /\ items[more[i].id].name = "Skill"}}
        = {items[n].skill : n \in {m \in calls : said[m] = "found"}}
  <2>1. ASSUME NEW j \in DOMAIN more, more[j].outcome = "found"
        PROVE  more[j].id \in calls /\ said[more[j].id] = "found"
    BY <1>3, <1>5, <1>6, <2>1
  <2>2. ASSUME NEW n \in calls, said[n] = "found"
        PROVE  \E j \in DOMAIN more : more[j].kind = "result" /\ more[j].outcome = "found" /\ more[j].id = n
    BY <1>4, <1>5, <1>6, <2>2
  <2> QED
    BY <1>8, <2>1, <2>2
<1>10. Body!LoadedSkillNames' = loaded'
  BY <1>1, <1>7, <1>9 DEF OfferInv, Body!BlockOf
<1> QED
  BY <1>1, <1>7, <1>10 DEF OfferInv, BatchOK, OfferOK, Body!SkillsFirst, Body!OfferedIsCallable

LEMMA OfferStepKeeps == ASSUME OfferInv, Body!NextOffer PROVE OfferInv'
<1> USE DEF ItemsOK, BatchOK, OfferOK, Body!SkillsFirst, Body!OfferedIsCallable, Body!NameOf, Body!BlockOf
<1>1. ASSUME items' = items PROVE Body!LoadedSkillNames' = Body!LoadedSkillNames
  BY <1>1 DEF Body!LoadedSkillNames, Body!Opens
<1>2. ASSUME Body!Request PROVE OfferInv'
  BY <1>1, <1>2 DEF Body!Request, OfferInv
<1>3. ASSUME Body!NewConversation PROVE OfferInv'
  <2>1. Body!LoadedSkillNames' = {} /\ items' \in Seq(Blocks) /\ DOMAIN items' = {}
    BY <1>3 DEF Body!NewConversation, Body!LoadedSkillNames
  <2> QED
    BY <1>3, <2>1 DEF Body!NewConversation, OfferInv
<1>4. ASSUME NEW c \in Configs, Body!Reload(c) PROVE OfferInv'
  <2>1. Body!LoadedSkillNames' = Body!LoadedSkillNames
    BY <1>1, <1>4 DEF Body!Reload
  <2>2. stirred' \in BOOLEAN /\ (~stirred' => ~stirred /\ stage \notin {"asked", "calls"})
    BY <1>4 DEF Body!Reload
  <2> QED
    BY <1>4, <2>1, <2>2 DEF Body!Reload, OfferInv
<1>5. ASSUME NEW a \in Body!Calls, Body!Reply(<<a>>) PROVE OfferInv'
  <2>1. <<a>> \in Seq(Body!Calls) /\ <<a>> # <<>>
    OBVIOUS
  <2> QED
    BY <1>5, <2>1, ReplyKeeps, Zenon
<1>6. ASSUME NEW a \in Body!Calls, NEW b \in Body!Calls, Body!Reply(<<a, b>>) PROVE OfferInv'
  <2>1. <<a, b>> \in Seq(Body!Calls) /\ <<a, b>> # <<>>
    OBVIOUS
  <2> QED
    BY <1>6, <2>1, ReplyKeeps, Zenon
<1> QED
  BY <1>2, <1>3, <1>4, <1>5, <1>6, ResolveKeeps, AnswerKeeps DEF Body!NextOffer

LEMMA OfferInvIsEnough == OfferInv => Body!OfferSound
  BY DEF OfferInv, Body!OfferSound

-----------------------------------------------------------------------------
(* The logins.  They are made in order.  One in front is the entry, without *)
(* a session until it is over, and for good if it throws; one in the        *)
(* background replaces an older entry that has one, is its only one, and is  *)
(* older than the entry that took that entry's place.  The entry's refresh   *)
(* is marked while it is under way, and for good if it throws.  Who is       *)
(* served is served by a login that is over, whose directory nobody removes, *)
(* before its token dies.                                                    *)
LoginSteps == {"none", "dir", "track", "login", "lifetime", "removing", "over", "threw"}
Sessions   == [refreshAt : Int, hardExpireAt : Int, dies : Int]

LoginTypes ==
  /\ cert \in BOOLEAN /\ exited \in BOOLEAN /\ now \in Nat
  /\ entry \in Logins!Logins \cup {Logins!None} /\ newest \in Logins!Logins \cup {Logins!None}
  /\ session \in [Logins!Logins -> Sessions] /\ refreshing \subseteq Logins!Logins
  /\ login \in [Logins!Logins -> [step : LoginSteps, stale : Logins!Logins \cup {Logins!None}, at : Nat]]
  /\ waits \in [Callers -> Logins!Logins \cup {Logins!None}]
  /\ got \in [Callers -> [session : Logins!Logins \cup {Logins!None}, at : Nat]]
  /\ disk \subseteq Logins!Logins \cup {Logins!Home}

Used(n)    == login[n].step # "none"
Filled(n)  == session[n] # Logins!NoSession
Stuck(n)   == login[n].step = "threw"
Pending(m) == \E n \in Logins!Logins : login[n].stale = m /\ (Logins!InFlight(n) \/ Stuck(n))
Serves(n)  == (n = entry /\ Filled(n)) \/ \E c \in Callers : got[c].session = n

(* Logins are made in order; what is named has been made. *)
OrderOK ==
  /\ \A m, n \in Logins!Logins : m < n /\ Used(n) => Used(m)
  /\ entry # Logins!None => Used(entry)
  /\ newest # Logins!None => Used(newest)
  /\ \A n \in refreshing : Used(n)
  /\ \A n \in Logins!Logins : Filled(n) => login[n].step \in {"removing", "over", "threw"}
  /\ \A n \in Logins!Logins : login[n].step = "none" => Logins!Front(n)

FrontsOK ==
  /\ \A n \in Logins!Logins : Logins!InFlight(n) /\ Logins!Front(n) => entry = n /\ ~Filled(n)
  /\ entry # Logins!None =>
       IF Filled(entry) THEN login[entry].step = "over"
                        ELSE (Logins!InFlight(entry) \/ Stuck(entry)) /\ Logins!Front(entry)
  /\ \A c \in Callers : waits[c] # Logins!None => waits[c] = entry /\ ~Filled(entry) /\ Logins!InFlight(entry)
  /\ entry \in {Logins!None, newest}

RefreshOK(n) ==
  /\ cert /\ login[n].stale < n /\ Filled(login[n].stale) /\ login[n].stale \in refreshing
  /\ ~Filled(n) /\ entry # login[n].stale => n < newest
  /\ Filled(n) => entry # login[n].stale
  /\ \A m \in Logins!Logins : Logins!InFlight(m) /\ login[m].stale = login[n].stale => m = n
RefreshesOK == \A n \in Logins!Logins : Logins!InFlight(n) /\ ~Logins!Front(n) => RefreshOK(n)

FlagsOK == (\A n \in refreshing : Filled(n)) /\ (entry \in refreshing => Pending(entry))

DirectoriesOK ==
  /\ ~exited =>
       \A n \in Logins!Logins :
         login[n].step \in {"track", "login", "lifetime", "removing"} \/ Serves(n) => Logins!DirOf(n) \in disk
  /\ \A n \in Logins!Logins : n \in disk => n \in tracked \/ login[n].step = "track"
  /\ \A n \in Logins!Logins : login[n].step \in {"track", "removing"} => cert

TimesOK ==
  /\ \A n \in Logins!Logins : login[n].step = "lifetime" => login[n].at <= now /\ now <= login[n].at + 1
  /\ \A n \in Logins!Logins : Filled(n) => session[n].hardExpireAt <= session[n].dies
  /\ \A c \in Callers : got[c].session # Logins!None =>
       /\ login[got[c].session].step = "over" /\ Filled(got[c].session)
       /\ got[c].at < session[got[c].session].dies

LoginsInv == LoginTypes /\ OrderOK /\ FrontsOK /\ RefreshesOK /\ FlagsOK /\ DirectoriesOK /\ TimesOK

LEMMA LoginNumbers ==
  /\ Logins!Logins \subseteq Nat /\ Logins!None \notin Logins!Logins /\ Logins!Home = Logins!None
  /\ \A n \in Logins!Logins : n > 0
  BY LoginConstants DEF Logins!Logins, Logins!None, Logins!Home, Logins!LifetimesAssumption

LEMMA LoginsInit == ASSUME Logins!Init PROVE LoginsInv
<1> USE DEF Logins!Init, Logins!None, Logins!NoLogin, Logins!NoSession, Logins!Nothing, Logins!Home
<1>1. LoginTypes
  <2>1. /\ session \in [Logins!Logins -> Sessions]
        /\ login \in [Logins!Logins -> [step : LoginSteps, stale : Logins!Logins \cup {Logins!None}, at : Nat]]
    BY DEF Sessions, LoginSteps
  <2>2. /\ waits \in [Callers -> Logins!Logins \cup {Logins!None}]
        /\ got \in [Callers -> [session : Logins!Logins \cup {Logins!None}, at : Nat]]
    OBVIOUS
  <2> QED
    BY <2>1, <2>2 DEF LoginTypes
<1>2. OrderOK /\ FrontsOK
  BY DEF OrderOK, FrontsOK, Used, Filled, Logins!Front, Logins!InFlight
<1>3. RefreshesOK /\ FlagsOK /\ DirectoriesOK /\ TimesOK
  BY LoginNumbers DEF RefreshesOK, RefreshOK, FlagsOK, DirectoriesOK, TimesOK, Filled, Serves, Logins!Front, Logins!InFlight
<1> QED
  BY <1>1, <1>2, <1>3 DEF LoginsInv

LEMMA FreshIsNew ==
  ASSUME OrderOK, Logins!Room
  PROVE  /\ Logins!Fresh \in Logins!Logins /\ ~Used(Logins!Fresh)
         /\ \A n \in Logins!Logins : Used(n) <=> n < Logins!Fresh
<1> DEFINE unused == {n \in Logins!Logins : ~Used(n)}
           New(n) == login[n].step = "none" /\ \A m \in 1..(n - 1) : login[m].step # "none"
<1>1. MaxLogins \in Nat /\ Logins!Logins = 1..MaxLogins
  BY LoginConstants DEF Logins!LifetimesAssumption, Logins!Logins
<1>2. unused # {} /\ unused \subseteq Nat
  BY <1>1 DEF Logins!Room, Used
<1>3. PICK least \in unused : \A n \in unused : ~(n < least)
  <2>1. \E n \in unused : \A m \in unused : <<m, n>> \notin OpToRel(<, Nat)
    BY <1>2, NatLessThanWellFounded, WFMin
  <2> QED
    BY <1>2, <2>1 DEF OpToRel
<1>4. least \in Logins!Logins /\ New(least)
  BY <1>1, <1>3 DEF Used
<1>5. Logins!Fresh = CHOOSE n \in Logins!Logins : New(n)
  BY DEF Logins!Fresh
<1>6. Logins!Fresh \in Logins!Logins /\ New(Logins!Fresh)
  BY <1>4, <1>5
<1> HIDE DEF unused
<1> QED
  BY <1>1, <1>6 DEF OrderOK, Used

(* A login that takes a step, and nothing is filled or served.                *)
LEMMA LoginMoves ==
  ASSUME LoginTypes, NEW n \in Logins!Logins, NEW s \in LoginSteps, login' = [login EXCEPT ![n].step = s]
  PROVE  /\ login' \in [Logins!Logins -> [step : LoginSteps, stale : Logins!Logins \cup {Logins!None}, at : Nat]]
         /\ \A m \in Logins!Logins : /\ login'[m].step = IF m = n THEN s ELSE login[m].step
                                     /\ login'[m].stale = login[m].stale /\ login'[m].at = login[m].at
  BY DEF LoginTypes

(* From one await to the next: the directory made, tracked, az asked.          *)
LEMMA LoginGoesOn ==
  ASSUME LoginsInv, ~exited, NEW n \in Logins!Logins,
         UNCHANGED <<cert, entry, session, refreshing, now, waits, got, exited, newest>>,
         \/ login[n].step = "dir" /\ disk' = disk \cup {Logins!DirOf(n)} /\ tracked' = tracked
            /\ Logins!Goes(n, IF cert THEN "track" ELSE "login")
         \/ login[n].step = "track" /\ tracked' = tracked \cup {n} /\ disk' = disk /\ Logins!Goes(n, "login")
         \/ login[n].step = "login" /\ UNCHANGED <<disk, tracked>>
            /\ login' = [login EXCEPT ![n].step = "lifetime", ![n].at = now]
         \/ login[n].step = "login" /\ UNCHANGED <<disk, tracked>> /\ cert /\ Logins!Goes(n, "removing")
  PROVE  LoginsInv'
<1>1. LoginTypes /\ OrderOK /\ FrontsOK /\ RefreshesOK /\ FlagsOK /\ DirectoriesOK /\ TimesOK
  BY DEF LoginsInv
<1> DEFINE Moved(s) ==
             /\ login' \in [Logins!Logins -> [step : LoginSteps, stale : Logins!Logins \cup {Logins!None}, at : Nat]]
             /\ \A m \in Logins!Logins : /\ login'[m].step = IF m = n THEN s ELSE login[m].step
                                         /\ login'[m].stale = login[m].stale
                                         /\ login'[m].at = IF m = n /\ s = "lifetime" THEN now ELSE login[m].at
             /\ s \in {"track", "removing"} => cert
<1>2. PICK s \in {"track", "login", "lifetime", "removing"} : Moved(s)
  <2>0. ASSUME NEW s \in {"track", "login", "removing"}, Logins!Goes(n, s), s \in {"track", "removing"} => cert PROVE Moved(s)
    <3>1. s \in LoginSteps /\ s # "lifetime"
      BY DEF LoginSteps
    <3> QED
      BY <1>1, <2>0, <3>1, LoginMoves DEF Logins!Goes
  <2>1. CASE Logins!Goes(n, "track") /\ cert
    <3>1. Moved("track")
      BY <2>0, <2>1
    <3> QED
      BY <3>1
  <2>2. CASE Logins!Goes(n, "login")
    <3>1. Moved("login")
      BY <2>0, <2>2
    <3> QED
      BY <3>1
  <2>3. CASE Logins!Goes(n, "removing") /\ cert
    <3>1. Moved("removing")
      BY <2>0, <2>3
    <3> QED
      BY <3>1
  <2>4. CASE login' = [login EXCEPT ![n].step = "lifetime", ![n].at = now]
    BY <1>1, <2>4 DEF LoginTypes, LoginSteps
  <2> QED
    BY <2>1, <2>2, <2>3, <2>4
<1>3. login[n].step \in {"dir", "track", "login"}
  OBVIOUS
<1>4. \A m \in Logins!Logins : /\ Used(m)' <=> Used(m)
                               /\ Logins!InFlight(m)' <=> Logins!InFlight(m)
                               /\ Logins!Front(m)' <=> Logins!Front(m)
                               /\ Filled(m)' <=> Filled(m)
                               /\ Stuck(m)' <=> Stuck(m)
  BY <1>2, <1>3 DEF Used, Logins!InFlight, Logins!Front, Filled, Stuck
<1>5. \A m \in Logins!Logins : Serves(m)' <=> Serves(m)
  BY DEF Serves, Filled
<1>6. disk' \subseteq Logins!Logins \cup {Logins!Home}
  BY <1>1 DEF LoginTypes, Logins!DirOf
<1>7. LoginTypes'
  BY <1>1, <1>2, <1>6 DEF LoginTypes
<1>8. OrderOK'
  BY <1>1, <1>2, <1>3, <1>4 DEF OrderOK, LoginTypes, Filled, Used
<1>9. FrontsOK'
  BY <1>1, <1>2, <1>3, <1>4 DEF FrontsOK, LoginTypes, Filled
<1>10. RefreshesOK'
  BY <1>1, <1>2, <1>4 DEF RefreshesOK, RefreshOK, LoginTypes, Logins!Front, Filled
<1>11. DirectoriesOK'
  <2>1. \A m \in Logins!Logins : login'[m].step \in {"track", "removing"} => cert
    BY <1>1, <1>2 DEF DirectoriesOK
  <2>2. \A m \in Logins!Logins :
          login'[m].step \in {"track", "login", "lifetime", "removing"} \/ Serves(m) => Logins!DirOf(m) \in disk'
    BY <1>1, <1>2, <1>3 DEF DirectoriesOK
  <2>3. \A m \in Logins!Logins : m \in disk' => m \in tracked' \/ login'[m].step = "track"
    BY <1>1, <1>2, <1>3, LoginNumbers DEF DirectoriesOK, Logins!DirOf, Logins!Goes, LoginTypes
  <2> QED
    BY <1>5, <2>1, <2>2, <2>3 DEF DirectoriesOK, Logins!DirOf
<1>12. TimesOK'
  BY <1>1, <1>2, <1>3, <1>4 DEF TimesOK, LoginTypes, Filled
<1>13. FlagsOK'
  BY <1>1, <1>2, <1>4 DEF FlagsOK, Pending, LoginTypes
<1> QED
  BY <1>7, <1>8, <1>9, <1>10, <1>11, <1>12, <1>13 DEF LoginsInv

(* A login is made in front of a caller who found no session to be served.     *)
LEMMA LoginStarts ==
  ASSUME LoginsInv, ~exited, NEW c \in Callers, Logins!Login(c), entry = Logins!None \/ Filled(entry),
         UNCHANGED <<cert, disk, tracked, now, exited>>
  PROVE  LoginsInv'
<1> DEFINE f == Logins!Fresh
<1>1. LoginTypes /\ OrderOK /\ FrontsOK /\ RefreshesOK /\ FlagsOK /\ DirectoriesOK /\ TimesOK
  BY DEF LoginsInv
<1>2. /\ f \in Logins!Logins /\ ~Used(f) /\ \A n \in Logins!Logins : Used(n) <=> n < f
      /\ login' = [login EXCEPT ![f] = [step |-> "dir", stale |-> Logins!None, at |-> 0]]
      /\ entry' = f /\ newest' = f /\ waits' = [waits EXCEPT ![c] = f] /\ UNCHANGED <<session, refreshing, got>>
  BY <1>1, FreshIsNew DEF Logins!Login, Logins!Begins
<1> HIDE DEF f
<1>3. /\ login' \in [Logins!Logins -> [step : LoginSteps, stale : Logins!Logins \cup {Logins!None}, at : Nat]]
      /\ login'[f].step = "dir" /\ login'[f].stale = Logins!None
      /\ \A m \in Logins!Logins : m # f => login'[m] = login[m]
  BY <1>1, <1>2 DEF LoginTypes, LoginSteps
<1>4. \A m \in Logins!Logins : /\ Used(m)' <=> Used(m) \/ m = f
                               /\ Logins!InFlight(m)' <=> Logins!InFlight(m) \/ m = f
                               /\ Logins!Front(m)' <=> Logins!Front(m)
                               /\ Filled(m)' <=> Filled(m)
                               /\ Stuck(m)' <=> Stuck(m)
  BY <1>1, <1>2, <1>3 DEF Used, Logins!InFlight, Logins!Front, Filled, Stuck, OrderOK
<1>5. ~Logins!InFlight(f) /\ ~Filled(f) /\ Logins!Front(f)
  BY <1>1, <1>2 DEF Used, Logins!InFlight, OrderOK
<1>6. LoginTypes'
  BY <1>1, <1>2, <1>3 DEF LoginTypes
<1>7. OrderOK'
  <2>1. \A m, n \in Logins!Logins : m < n /\ Used(n)' => Used(m)'
    <3> TAKE m \in Logins!Logins, n \in Logins!Logins
    <3>1. CASE n = f
      BY <1>2, <1>4, <3>1
    <3>2. CASE n # f
      BY <1>1, <1>4, <3>2 DEF OrderOK
    <3> QED
      BY <3>1, <3>2
  <2>2. (\A n \in Logins!Logins : Filled(n) => login[n].step \in {"removing", "over", "threw"})'
    BY <1>1, <1>3, <1>4, <1>5 DEF OrderOK
  <2>3. (\A n \in Logins!Logins : login[n].step = "none" => Logins!Front(n))'
    BY <1>1, <1>3, <1>4 DEF OrderOK
  <2>4. (\A n \in refreshing : Used(n))'
    BY <1>1, <1>2, <1>4 DEF OrderOK, LoginTypes
  <2> QED
    BY <1>2, <1>4, <2>1, <2>2, <2>3, <2>4 DEF OrderOK
<1>8. FrontsOK'
  <2>1. \A n \in Logins!Logins : ~(Logins!InFlight(n) /\ Logins!Front(n))
    BY <1>1, LoginNumbers DEF FrontsOK
  <2>2. \A d \in Callers : waits[d] = Logins!None
    BY <1>1 DEF FrontsOK
  <2> QED
    BY <1>1, <1>2, <1>4, <1>5, <2>1, <2>2 DEF FrontsOK, LoginTypes
<1>9. RefreshesOK'
  <2> SUFFICES ASSUME NEW n \in Logins!Logins, Logins!InFlight(n)', ~Logins!Front(n)'
               PROVE  RefreshOK(n)'
    BY DEF RefreshesOK, RefreshOK
  <2>1. Logins!InFlight(n) /\ ~Logins!Front(n) /\ n # f /\ login'[n].stale = login[n].stale /\ Used(n)
    BY <1>3, <1>4, <1>5 DEF Used, Logins!InFlight
  <2>2. login[n].stale # Logins!None
    BY <2>1 DEF Logins!Front
  <2>3. n < f
    BY <1>2, <2>1
  <2>4. /\ cert /\ login[n].stale < n /\ Filled(login[n].stale) /\ login[n].stale \in refreshing
        /\ \A m \in Logins!Logins : Logins!InFlight(m) /\ login[m].stale = login[n].stale => m = n
    BY <1>1, <2>1 DEF RefreshesOK, RefreshOK
  <2>5. Filled(n) => f # login[n].stale
    BY <1>5, <2>4
  <2> QED
    BY <1>1, <1>2, <1>3, <1>4, <2>1, <2>2, <2>3, <2>4, <2>5 DEF LoginTypes, RefreshOK, Filled
<1>10. DirectoriesOK'
  <2>1. \A m \in Logins!Logins : Serves(m)' => Serves(m)
    BY <1>2, <1>4, <1>5 DEF Serves
  <2> QED
    BY <1>1, <1>2, <1>3, <2>1 DEF DirectoriesOK, Logins!DirOf, Used
<1>11. TimesOK'
  BY <1>1, <1>2, <1>3, <1>4 DEF TimesOK, LoginTypes, Used
<1>12. FlagsOK'
  <2>1. \A m \in refreshing : Filled(m)'
    BY <1>1, <1>2, <1>4 DEF FlagsOK, LoginTypes
  <2>2. f \notin refreshing
    BY <1>1, <1>5 DEF FlagsOK
  <2> QED
    BY <1>2, <2>1, <2>2 DEF FlagsOK, Filled
<1> QED
  BY <1>6, <1>7, <1>8, <1>9, <1>10, <1>11, <1>12 DEF LoginsInv

(* A caller joins the login that is the entry, or is answered as it was.        *)
LEMMA LoginIsShared ==
  ASSUME LoginsInv, NEW c \in Callers, Logins!Join(c), entry # Logins!None, ~Filled(entry),
         UNCHANGED <<cert, disk, tracked, now, exited>>
  PROVE  LoginsInv'
<1>1. LoginTypes /\ OrderOK /\ FrontsOK /\ RefreshesOK /\ FlagsOK /\ DirectoriesOK /\ TimesOK
  BY DEF LoginsInv
<1>2. /\ waits' = IF Logins!InFlight(entry) THEN [waits EXCEPT ![c] = entry] ELSE waits
      /\ UNCHANGED <<entry, session, refreshing, login, got, newest>>
  BY DEF Logins!Join
<1>3. /\ \A m : (Used(m)' <=> Used(m)) /\ (Filled(m)' <=> Filled(m)) /\ (Serves(m)' <=> Serves(m))
      /\ \A m : (Logins!InFlight(m)' <=> Logins!InFlight(m)) /\ (Logins!Front(m)' <=> Logins!Front(m))
      /\ \A m : (Stuck(m)' <=> Stuck(m)) /\ (Pending(m)' <=> Pending(m))
  BY <1>2 DEF Used, Filled, Serves, Stuck, Pending, Logins!InFlight, Logins!Front
<1>4. LoginTypes'
  BY <1>1, <1>2 DEF LoginTypes
<1>5. OrderOK' /\ RefreshesOK' /\ FlagsOK' /\ TimesOK'
  BY <1>1, <1>2, <1>3 DEF OrderOK, RefreshesOK, RefreshOK, FlagsOK, TimesOK
<1>6. FrontsOK'
  BY <1>1, <1>2, <1>3 DEF FrontsOK, LoginTypes
<1>7. DirectoriesOK'
  BY <1>1, <1>2, <1>3 DEF DirectoriesOK, Logins!DirOf
<1> QED
  BY <1>4, <1>5, <1>6, <1>7 DEF LoginsInv

(* A session is served, and half through its token's life a refresh begins.     *)
LEMMA SessionIsServed ==
  ASSUME LoginsInv, ~exited, NEW c \in Callers, Logins!Hit(c), entry # Logins!None, Filled(entry),
         ~(now >= session[entry].hardExpireAt), UNCHANGED <<cert, disk, tracked, now, exited>>
  PROVE  LoginsInv'
<1> DEFINE f == Logins!Fresh
<1>1. LoginTypes /\ OrderOK /\ FrontsOK /\ RefreshesOK /\ FlagsOK /\ DirectoriesOK /\ TimesOK
  BY DEF LoginsInv
<1>2. /\ got' = [got EXCEPT ![c] = [session |-> entry, at |-> now]]
      /\ UNCHANGED <<entry, session, waits, newest>>
  BY DEF Logins!Hit
<1>3. entry \in Logins!Logins /\ login[entry].step = "over"
  BY <1>1 DEF FrontsOK, LoginTypes
<1>4. now < session[entry].dies
  BY <1>1, <1>3 DEF TimesOK, LoginTypes, Sessions
<1>5. /\ got' \in [Callers -> [session : Logins!Logins \cup {Logins!None}, at : Nat]]
      /\ \A d \in Callers : got'[d] = IF d = c THEN [session |-> entry, at |-> now] ELSE got[d]
  BY <1>1, <1>2, <1>3 DEF LoginTypes
<1>6. \A m \in Logins!Logins : (Filled(m)' <=> Filled(m)) /\ (Serves(m)' => Serves(m))
  <2>1. \A m \in Logins!Logins : Filled(m)' <=> Filled(m)
    BY <1>2 DEF Filled
  <2>2. ASSUME NEW m \in Logins!Logins, NEW d \in Callers, got'[d].session = m PROVE Serves(m)
    BY <1>5, <2>2 DEF Serves
  <2> QED
    BY <1>2, <2>1, <2>2 DEF Serves
<1>7. CASE UNCHANGED <<refreshing, login>>
  <2>1. \A m : (Used(m)' <=> Used(m)) /\ (Logins!InFlight(m)' <=> Logins!InFlight(m)) /\ (Logins!Front(m)' <=> Logins!Front(m))
             /\ (Stuck(m)' <=> Stuck(m)) /\ (Pending(m)' <=> Pending(m))
    BY <1>7 DEF Used, Stuck, Pending, Logins!InFlight, Logins!Front
  <2>2. LoginTypes'
    BY <1>1, <1>2, <1>5, <1>7 DEF LoginTypes
  <2>3. OrderOK' /\ RefreshesOK' /\ FlagsOK' /\ FrontsOK'
    BY <1>1, <1>2, <1>7, <2>1 DEF OrderOK, RefreshesOK, RefreshOK, FlagsOK, FrontsOK, Filled
  <2>4. DirectoriesOK'
    BY <1>1, <1>6, <1>7 DEF DirectoriesOK, Logins!DirOf
  <2>5. TimesOK'
    BY <1>1, <1>2, <1>3, <1>4, <1>5, <1>6, <1>7 DEF TimesOK, LoginTypes
  <2> QED
    BY <2>2, <2>3, <2>4, <2>5 DEF LoginsInv
<1>8. CASE Logins!Refreshes /\ Logins!Room /\ Logins!Begins(entry) /\ refreshing' = refreshing \cup {entry}
  <2>1. /\ f \in Logins!Logins /\ ~Used(f) /\ \A n \in Logins!Logins : Used(n) <=> n < f
        /\ login' = [login EXCEPT ![f] = [step |-> "dir", stale |-> entry, at |-> 0]]
        /\ cert /\ entry \notin refreshing
    BY <1>1, <1>8, FreshIsNew DEF Logins!Begins, Logins!Refreshes
  <2> HIDE DEF f
  <2>2. /\ login' \in [Logins!Logins -> [step : LoginSteps, stale : Logins!Logins \cup {Logins!None}, at : Nat]]
        /\ login'[f].step = "dir" /\ login'[f].stale = entry
        /\ \A m \in Logins!Logins : m # f => login'[m] = login[m]
    BY <1>1, <1>3, <2>1 DEF LoginTypes, LoginSteps
  <2>3. \A m \in Logins!Logins : /\ Used(m)' <=> Used(m) \/ m = f
                                 /\ Logins!InFlight(m)' <=> Logins!InFlight(m) \/ m = f
                                 /\ Logins!Front(m)' <=> Logins!Front(m) /\ m # f
                                 /\ Stuck(m)' <=> Stuck(m)
    BY <2>1, <2>2 DEF Used, Stuck, Logins!InFlight, Logins!Front
  <2>4. ~Logins!InFlight(f) /\ ~Filled(f) /\ Used(entry) /\ entry # f
    BY <1>1, <1>3, <2>1 DEF Used, Logins!InFlight, OrderOK
  <2>5. LoginTypes'
    BY <1>1, <1>2, <1>3, <1>5, <1>8, <2>2 DEF LoginTypes
  <2>6. OrderOK'
    <3>1. \A m, n \in Logins!Logins : m < n /\ Used(n)' => Used(m)'
      <4> TAKE m \in Logins!Logins, n \in Logins!Logins
      <4>1. CASE n = f
        BY <2>1, <2>3, <4>1
      <4>2. CASE n # f
        BY <1>1, <2>3, <4>2 DEF OrderOK
      <4> QED
        BY <4>1, <4>2
    <3>2. (\A n \in Logins!Logins : Filled(n) => login[n].step \in {"removing", "over", "threw"})'
      BY <1>1, <1>6, <2>2, <2>4 DEF OrderOK
    <3>3. (\A n \in Logins!Logins : login[n].step = "none" => Logins!Front(n))'
      BY <1>1, <2>2, <2>3 DEF OrderOK
    <3>4. (\A n \in refreshing : Used(n))'
      BY <1>1, <1>3, <1>8, <2>3, <2>4 DEF OrderOK, LoginTypes
    <3>5. (entry # Logins!None => Used(entry))' /\ (newest # Logins!None => Used(newest))'
      BY <1>1, <1>2, <2>3 DEF OrderOK, LoginTypes
    <3> QED
      BY <3>1, <3>2, <3>3, <3>4, <3>5 DEF OrderOK
  <2>7. FrontsOK'
    BY <1>1, <1>2, <1>3, <1>6, <2>2, <2>3, <2>4 DEF FrontsOK, LoginTypes
  <2>8. RefreshesOK'
    <3> SUFFICES ASSUME NEW n \in Logins!Logins, Logins!InFlight(n)', ~Logins!Front(n)'
                 PROVE  RefreshOK(n)'
      BY DEF RefreshesOK, RefreshOK
    <3>0. \A m \in Logins!Logins : Logins!InFlight(m) /\ login[m].stale = entry => FALSE
      BY <1>1, <1>3, <2>1 DEF RefreshesOK, RefreshOK, Logins!Front
    <3>1. CASE n = f
      <4>1. entry < f
        BY <1>3, <2>1, <2>4
      <4> QED
        BY <1>2, <1>3, <1>6, <1>8, <2>1, <2>2, <2>3, <2>4, <3>0, <3>1, <4>1 DEF RefreshOK, Filled
    <3>2. CASE n # f
      <4>1. Logins!InFlight(n) /\ ~Logins!Front(n) /\ login'[n].stale = login[n].stale
        BY <2>2, <2>3, <3>2
      <4>2. /\ cert /\ login[n].stale < n /\ Filled(login[n].stale) /\ login[n].stale \in refreshing
            /\ ~Filled(n) /\ entry # login[n].stale => n < newest
            /\ Filled(n) => entry # login[n].stale
            /\ \A m \in Logins!Logins : Logins!InFlight(m) /\ login[m].stale = login[n].stale => m = n
        BY <1>1, <4>1 DEF RefreshesOK, RefreshOK
      <4>3. login[n].stale \in Logins!Logins
        BY <1>1, <4>2 DEF LoginTypes
      <4>4. \A m \in Logins!Logins : Logins!InFlight(m)' /\ login'[m].stale = login[n].stale => m = n
        BY <2>2, <2>3, <3>0, <4>1, <4>2
      <4> QED
        BY <1>2, <1>6, <1>8, <4>1, <4>2, <4>3, <4>4 DEF RefreshOK, Filled
    <3> QED
      BY <3>1, <3>2
  <2>9. DirectoriesOK'
    BY <1>1, <1>6, <2>1, <2>2 DEF DirectoriesOK, Logins!DirOf, Used
  <2>10. TimesOK'
    BY <1>1, <1>2, <1>3, <1>4, <1>5, <1>6, <2>2, <2>4 DEF TimesOK, LoginTypes, Used, OrderOK
  <2>11. FlagsOK'
    <3>1. \A m \in refreshing' : Filled(m)'
      BY <1>1, <1>2, <1>8 DEF FlagsOK, Filled
    <3>2. Pending(entry)'
      BY <1>2, <2>1, <2>2, <2>3 DEF Pending
    <3> QED
      BY <3>1, <3>2 DEF FlagsOK
  <2> QED
    BY <2>5, <2>6, <2>7, <2>8, <2>9, <2>10, <2>11 DEF LoginsInv
<1> QED
  BY <1>7, <1>8 DEF Logins!Hit

(* A login is over that got no session, or that got one nobody wants.           *)
LEMMA LoginIsOver ==
  ASSUME LoginsInv, ~exited, NEW n \in Logins!Logins, login[n].step \in {"login", "removing"},
         Logins!Goes(n, "over"), IF Filled(n) THEN UNCHANGED <<entry, refreshing, waits>> ELSE Logins!Failed(n),
         \/ login[n].step = "removing" /\ disk' = disk \ {n} /\ tracked' = tracked \ {n}
         \/ login[n].step = "login" /\ UNCHANGED <<disk, tracked>>,
         UNCHANGED <<cert, session, now, got, exited, newest>>
  PROVE  LoginsInv'
<1>1. LoginTypes /\ OrderOK /\ FrontsOK /\ RefreshesOK /\ FlagsOK /\ DirectoriesOK /\ TimesOK
  BY DEF LoginsInv
<1>2. /\ login' \in [Logins!Logins -> [step : LoginSteps, stale : Logins!Logins \cup {Logins!None}, at : Nat]]
      /\ \A m \in Logins!Logins : /\ login'[m].step = IF m = n THEN "over" ELSE login[m].step
                                  /\ login'[m].stale = login[m].stale /\ login'[m].at = login[m].at
  BY <1>1, LoginMoves DEF Logins!Goes, LoginSteps
<1>3. Logins!InFlight(n) /\ ~Stuck(n)
  BY DEF Logins!InFlight, Stuck
<1>4. \A m \in Logins!Logins : /\ Used(m)' <=> Used(m)
                               /\ Logins!InFlight(m)' <=> Logins!InFlight(m) /\ m # n
                               /\ Logins!Front(m)' <=> Logins!Front(m)
                               /\ Filled(m)' <=> Filled(m)
                               /\ Stuck(m)' <=> Stuck(m)
  BY <1>2, <1>3 DEF Used, Stuck, Logins!InFlight, Logins!Front, Filled
<1>5. /\ entry' = IF ~Filled(n) /\ Logins!Front(n) THEN Logins!None ELSE entry
      /\ refreshing' \subseteq refreshing
      /\ \A m \in refreshing : m \notin refreshing' => ~Logins!Front(n) /\ m = login[n].stale
      /\ waits' \in [Callers -> Logins!Logins \cup {Logins!None}]
      /\ \A c \in Callers : waits'[c] # Logins!None => waits'[c] = waits[c] /\ (waits[c] = n => Filled(n))
  BY <1>1 DEF Logins!Failed, Logins!Released, LoginTypes
<1>6. Logins!Front(n) => entry = n /\ ~Filled(n)
  BY <1>1, <1>3 DEF FrontsOK
<1>7. ~Logins!Front(n) => entry # n
  BY <1>1, <1>3, LoginNumbers DEF FrontsOK, Logins!InFlight
<1>8. LoginTypes'
  BY <1>1, <1>2, <1>5 DEF LoginTypes
<1>9. OrderOK'
  BY <1>1, <1>2, <1>4, <1>5 DEF OrderOK, LoginTypes
<1>10. FrontsOK'
  <2>1. CASE Logins!Front(n)
    <3>1. entry' = Logins!None
      BY <1>5, <1>6, <2>1
    <3>2. \A m \in Logins!Logins : ~(Logins!InFlight(m)' /\ Logins!Front(m)')
      BY <1>1, <1>4, <1>6, <2>1 DEF FrontsOK
    <3>3. \A c \in Callers : waits'[c] = Logins!None
      BY <1>1, <1>5, <1>6, <2>1 DEF FrontsOK
    <3> QED
      BY <3>1, <3>2, <3>3 DEF FrontsOK
  <2>2. CASE ~Logins!Front(n)
    <3>1. entry' = entry /\ entry # n
      BY <1>5, <1>7, <2>2
    <3>2. (\A m \in Logins!Logins : Logins!InFlight(m) /\ Logins!Front(m) => entry = m /\ ~Filled(m))'
      BY <1>1, <1>4, <3>1 DEF FrontsOK
    <3>3. (entry # Logins!None =>
             IF Filled(entry) THEN login[entry].step = "over"
                              ELSE (Logins!InFlight(entry) \/ Stuck(entry)) /\ Logins!Front(entry))'
      BY <1>1, <1>2, <1>4, <3>1 DEF FrontsOK, LoginTypes
    <3>4. (\A c \in Callers : waits[c] # Logins!None => waits[c] = entry /\ ~Filled(entry) /\ Logins!InFlight(entry))'
      BY <1>1, <1>4, <1>5, <3>1 DEF FrontsOK, LoginTypes
    <3> QED
      BY <1>1, <3>1, <3>2, <3>3, <3>4 DEF FrontsOK
  <2> QED
    BY <2>1, <2>2
<1>11. RefreshesOK'
  <2> SUFFICES ASSUME NEW k \in Logins!Logins, Logins!InFlight(k)', ~Logins!Front(k)'
               PROVE  RefreshOK(k)'
    BY DEF RefreshesOK
  <2>1. Logins!InFlight(k) /\ ~Logins!Front(k) /\ k # n /\ login'[k].stale = login[k].stale
    BY <1>2, <1>4
  <2>2. /\ cert /\ login[k].stale < k /\ Filled(login[k].stale) /\ login[k].stale \in refreshing
        /\ ~Filled(k) /\ entry # login[k].stale => k < newest
        /\ Filled(k) => entry # login[k].stale
        /\ \A m \in Logins!Logins : Logins!InFlight(m) /\ login[m].stale = login[k].stale => m = k
    BY <1>1, <2>1 DEF RefreshesOK, RefreshOK
  <2>3. login[k].stale \in Logins!Logins /\ login[k].stale # login[n].stale
    BY <1>1, <1>3, <2>1, <2>2 DEF LoginTypes
  <2>4. login[k].stale \in refreshing'
    BY <1>5, <2>2, <2>3
  <2>5. /\ entry' # login[k].stale => entry # login[k].stale
        /\ Filled(k) => entry' # login[k].stale
    BY <1>5, <1>6, <2>2, <2>3, LoginNumbers
  <2> QED
    BY <1>2, <1>4, <2>1, <2>2, <2>3, <2>4, <2>5 DEF RefreshOK, Filled
<1>12. DirectoriesOK'
  <2>1. \A m \in Logins!Logins : Serves(m)' => Serves(m)
    BY <1>4, <1>5, LoginNumbers DEF Serves
  <2>2. \A m \in Logins!Logins : login[m].step = "removing" => ~Serves(m)
    BY <1>1, LoginNumbers DEF Serves, TimesOK, FrontsOK
  <2>3. \A m \in Logins!Logins :
          login'[m].step \in {"track", "login", "lifetime", "removing"} \/ Serves(m)' => Logins!DirOf(m) \in disk'
    <3> SUFFICES ASSUME NEW m \in Logins!Logins,
                        login'[m].step \in {"track", "login", "lifetime", "removing"} \/ Serves(m)'
                 PROVE  Logins!DirOf(m) \in disk'
      OBVIOUS
    <3>1. Logins!DirOf(m) \in disk
      BY <1>1, <1>2, <2>1 DEF DirectoriesOK
    <3>2. login[n].step = "removing" => cert /\ m # n
      BY <1>1, <1>2, <2>1, <2>2 DEF DirectoriesOK
    <3> QED
      BY <3>1, <3>2 DEF Logins!DirOf
  <2>4. \A m \in Logins!Logins : m \in disk' => m \in tracked' \/ login'[m].step = "track"
    BY <1>1, <1>2 DEF DirectoriesOK
  <2>5. \A m \in Logins!Logins : login'[m].step \in {"track", "removing"} => cert'
    BY <1>1, <1>2 DEF DirectoriesOK
  <2> QED
    BY <2>3, <2>4, <2>5 DEF DirectoriesOK, Logins!DirOf
<1>13. TimesOK'
  BY <1>1, <1>2, <1>4, <1>3 DEF TimesOK, LoginTypes, Logins!InFlight
<1>14. FlagsOK'
  <2>1. \A m \in refreshing' : Filled(m)'
    BY <1>1, <1>4, <1>5 DEF FlagsOK, LoginTypes
  <2>2. ASSUME entry' \in refreshing' PROVE Pending(entry)'
    <3>1. entry' = entry /\ entry \in refreshing /\ entry # Logins!None
      BY <1>1, <1>5, <2>2, LoginNumbers DEF LoginTypes
    <3>2. PICK k \in Logins!Logins : login[k].stale = entry /\ (Logins!InFlight(k) \/ Stuck(k))
      BY <1>1, <3>1 DEF FlagsOK, Pending
    <3>3. k # n
      <4> SUFFICES ASSUME k = n PROVE FALSE
        OBVIOUS
      <4>1. ~Logins!Front(n)
        BY <3>1, <3>2 DEF Logins!Front
      <4>2. ~Filled(n)
        BY <1>1, <1>3, <3>2, <4>1 DEF RefreshesOK, RefreshOK
      <4>3. refreshing' = refreshing \ {entry}
        BY <3>2, <4>1, <4>2 DEF Logins!Failed
      <4> QED
        BY <2>2, <3>1, <4>3
    <3> QED
      BY <1>2, <1>4, <3>1, <3>2, <3>3 DEF Pending
  <2> QED
    BY <2>1, <2>2 DEF FlagsOK
<1> QED
  BY <1>8, <1>9, <1>10, <1>11, <1>12, <1>13, <1>14 DEF LoginsInv

(* A session got in front is the entry's, and is handed to all who wait for it;  *)
(* one got in the background takes the place of the one it was to replace, or is *)
(* removed.                                                                      *)
LEMMA SessionIsGot ==
  ASSUME LoginsInv, ~exited, NEW n \in Logins!Logins, NEW span \in Lifetimes, NEW told \in BOOLEAN,
         Logins!HasSession(n, span, told)
  PROVE  LoginsInv'
<1> DEFINE dies == login[n].at + span
           lifetime == IF told /\ dies > now THEN dies - now ELSE Fallback
           s == IF Logins!Front(n) \/ entry = login[n].stale THEN "over" ELSE "removing"
<1>1. LoginTypes /\ OrderOK /\ FrontsOK /\ RefreshesOK /\ FlagsOK /\ DirectoriesOK /\ TimesOK
  BY DEF LoginsInv
<1>2. /\ login[n].step = "lifetime" /\ Logins!Goes(n, s)
      /\ session' = [session EXCEPT ![n] =
           [refreshAt |-> login[n].at + (lifetime \div 2), hardExpireAt |-> login[n].at + ((3 * lifetime) \div 4), dies |-> dies]]
      /\ UNCHANGED <<cert, refreshing, disk, tracked, now, exited>>
  BY DEF Logins!HasSession, Logins!StillCurrent, Logins!Goes
<1>3. /\ Logins!Front(n) =>
           /\ got' = [c \in Callers |-> IF waits[c] = n THEN [session |-> n, at |-> now] ELSE got[c]]
           /\ waits' = Logins!Released(n) /\ UNCHANGED <<entry, newest>>
      /\ ~Logins!Front(n) =>
           /\ entry' = IF entry = login[n].stale THEN n ELSE entry
           /\ newest' = IF n > newest THEN n ELSE newest
           /\ UNCHANGED <<got, waits>>
  BY DEF Logins!HasSession, Logins!StillCurrent
<1>4. /\ login[n].at \in Nat /\ now \in Nat /\ span \in Nat /\ Fallback \in Nat /\ Fallback > 1 /\ span >= Fallback
      /\ login[n].at <= now /\ now <= login[n].at + 1
  BY <1>1, <1>2, LoginConstants DEF LoginTypes, TimesOK, Logins!LifetimesAssumption
<1>5. lifetime \in Nat /\ lifetime <= span /\ now < dies
  BY <1>4
<1>6. login[n].at + ((3 * lifetime) \div 4) <= dies
  BY <1>4, <1>5
<1>7. /\ session' \in [Logins!Logins -> Sessions] /\ Filled(n)'
      /\ session'[n].hardExpireAt <= session'[n].dies /\ now < session'[n].dies
      /\ \A m \in Logins!Logins : m # n => session'[m] = session[m]
  <2>1. [refreshAt |-> login[n].at + (lifetime \div 2), hardExpireAt |-> login[n].at + ((3 * lifetime) \div 4), dies |-> dies] \in Sessions
    BY <1>4, <1>5 DEF Sessions
  <2>2. session'[n] = [refreshAt |-> login[n].at + (lifetime \div 2), hardExpireAt |-> login[n].at + ((3 * lifetime) \div 4), dies |-> dies]
    BY <1>1, <1>2 DEF LoginTypes
  <2>3. session'[n].dies = dies /\ dies # 0
    BY <1>4, <1>5, <2>2
  <2>4. Filled(n)'
    BY <2>3 DEF Filled, Logins!NoSession
  <2> QED
    BY <1>1, <1>2, <1>5, <1>6, <2>1, <2>2, <2>3, <2>4 DEF LoginTypes
<1>8. /\ login' \in [Logins!Logins -> [step : LoginSteps, stale : Logins!Logins \cup {Logins!None}, at : Nat]]
      /\ \A m \in Logins!Logins : /\ login'[m].step = IF m = n THEN s ELSE login[m].step
                                  /\ login'[m].stale = login[m].stale /\ login'[m].at = login[m].at
  <2>1. s \in LoginSteps
    BY DEF LoginSteps
  <2> HIDE DEF s
  <2> QED
    BY <1>1, <1>2, <2>1, LoginMoves DEF Logins!Goes
<1>9. \A m \in Logins!Logins : /\ Used(m)' <=> Used(m)
                               /\ Logins!InFlight(m)' <=> Logins!InFlight(m) /\ (m # n \/ s = "removing")
                               /\ Logins!Front(m)' <=> Logins!Front(m)
                               /\ Filled(m)' <=> Filled(m) \/ m = n
                               /\ Stuck(m)' <=> Stuck(m)
  BY <1>2, <1>7, <1>8 DEF Used, Stuck, Logins!InFlight, Logins!Front, Filled
<1>10. Logins!InFlight(n) /\ ~Filled(n) /\ ~Stuck(n)
  BY <1>1, <1>2 DEF Logins!InFlight, Stuck, OrderOK
<1>11. Logins!Front(n) => entry = n
  BY <1>1, <1>10 DEF FrontsOK
<1>12. ~Logins!Front(n) => /\ entry # n /\ login[n].stale < n /\ Filled(login[n].stale) /\ cert
                           /\ login[n].stale \in Logins!Logins
                           /\ entry # login[n].stale => n < newest
                           /\ \A m \in Logins!Logins : Logins!InFlight(m) /\ login[m].stale = login[n].stale => m = n
  BY <1>1, <1>10, LoginNumbers DEF RefreshesOK, RefreshOK, FrontsOK, LoginTypes
<1>13. n # Logins!None /\ n \in Nat
  BY LoginNumbers
<1> HIDE DEF dies, lifetime
<1>14. LoginTypes'
  <2>1. entry' \in Logins!Logins \cup {Logins!None} /\ newest' \in Logins!Logins \cup {Logins!None}
    BY <1>1, <1>3 DEF LoginTypes
  <2>2. /\ waits' \in [Callers -> Logins!Logins \cup {Logins!None}]
        /\ got' \in [Callers -> [session : Logins!Logins \cup {Logins!None}, at : Nat]]
    BY <1>1, <1>3 DEF LoginTypes, Logins!Released
  <2> QED
    BY <1>1, <1>2, <1>7, <1>8, <2>1, <2>2 DEF LoginTypes
<1>15. OrderOK'
  <2>1. Used(n)
    BY <1>10 DEF Used, Logins!InFlight
  <2>2. (\A m \in Logins!Logins : Filled(m) => login[m].step \in {"removing", "over", "threw"})'
    BY <1>1, <1>8, <1>9 DEF OrderOK
  <2>3. (\A m \in refreshing : Used(m))' /\ (entry # Logins!None => Used(entry))' /\ (newest # Logins!None => Used(newest))'
    BY <1>1, <1>2, <1>3, <1>9, <2>1 DEF OrderOK, LoginTypes
  <2>4. (\A m \in Logins!Logins : login[m].step = "none" => Logins!Front(m))'
    BY <1>1, <1>8, <1>9 DEF OrderOK
  <2>5. (\A m, k \in Logins!Logins : m < k /\ Used(k) => Used(m))'
    BY <1>1, <1>9 DEF OrderOK
  <2> QED
    BY <2>2, <2>3, <2>4, <2>5 DEF OrderOK
<1>16. FrontsOK'
  <2>1. CASE Logins!Front(n)
    <3>1. \A m \in Logins!Logins : ~(Logins!InFlight(m)' /\ Logins!Front(m)')
      BY <1>1, <1>9, <1>11, <2>1 DEF FrontsOK
    <3>2. \A c \in Callers : waits'[c] = Logins!None
      BY <1>1, <1>3, <1>11, <2>1 DEF FrontsOK, Logins!Released
    <3>3. entry' = n /\ Filled(n)' /\ login'[n].step = "over"
      BY <1>3, <1>7, <1>8, <1>11, <2>1
    <3> QED
      BY <1>1, <1>3, <2>1, <3>1, <3>2, <3>3 DEF FrontsOK, Filled
  <2>2. CASE ~Logins!Front(n) /\ entry = login[n].stale
    <3>1. Filled(entry) /\ entry # Logins!None /\ entry \in Logins!Logins
      BY <1>12, <2>2, LoginNumbers
    <3>2. \A m \in Logins!Logins : ~(Logins!InFlight(m)' /\ Logins!Front(m)')
      BY <1>1, <1>9, <3>1 DEF FrontsOK
    <3>3. \A c \in Callers : waits'[c] = Logins!None
      BY <1>1, <1>3, <2>2, <3>1 DEF FrontsOK
    <3>4. entry' = n /\ Filled(n)' /\ login'[n].step = "over"
      BY <1>3, <1>7, <1>8, <2>2
    <3>5. newest' = n
      BY <1>1, <1>3, <1>12, <2>2, <3>1 DEF FrontsOK
    <3> QED
      BY <3>2, <3>3, <3>4, <3>5 DEF FrontsOK, Filled
  <2>3. CASE ~Logins!Front(n) /\ entry # login[n].stale
    <3>1. entry' = entry /\ entry # n /\ newest' = newest
      <4>1. newest \in Nat /\ n < newest
        BY <1>1, <1>12, <2>3, LoginNumbers DEF LoginTypes, Logins!None
      <4> QED
        BY <1>3, <1>12, <1>13, <2>3, <4>1
    <3>2. (\A m \in Logins!Logins : Logins!InFlight(m) /\ Logins!Front(m) => entry = m /\ ~Filled(m))'
      BY <1>1, <1>9, <2>3, <3>1 DEF FrontsOK
    <3>3. (entry # Logins!None =>
             IF Filled(entry) THEN login[entry].step = "over"
                              ELSE (Logins!InFlight(entry) \/ Stuck(entry)) /\ Logins!Front(entry))'
      BY <1>1, <1>8, <1>9, <3>1 DEF FrontsOK, LoginTypes
    <3>4. (\A c \in Callers : waits[c] # Logins!None => waits[c] = entry /\ ~Filled(entry) /\ Logins!InFlight(entry))'
      BY <1>1, <1>3, <1>9, <2>3, <3>1 DEF FrontsOK, LoginTypes
    <3> QED
      BY <1>1, <3>1, <3>2, <3>3, <3>4 DEF FrontsOK
  <2> QED
    BY <2>1, <2>2, <2>3
<1>17. RefreshesOK'
  <2> SUFFICES ASSUME NEW k \in Logins!Logins, Logins!InFlight(k)', ~Logins!Front(k)'
               PROVE  RefreshOK(k)'
    BY DEF RefreshesOK
  <2>1. Logins!InFlight(k) /\ ~Logins!Front(k) /\ login'[k].stale = login[k].stale
    BY <1>8, <1>9
  <2>2. /\ cert /\ login[k].stale < k /\ Filled(login[k].stale) /\ login[k].stale \in refreshing
        /\ ~Filled(k) /\ entry # login[k].stale => k < newest
        /\ Filled(k) => entry # login[k].stale
        /\ \A m \in Logins!Logins : Logins!InFlight(m) /\ login[m].stale = login[k].stale => m = k
    BY <1>1, <2>1 DEF RefreshesOK, RefreshOK
  <2>3. login[k].stale \in Logins!Logins
    BY <1>1, <2>2 DEF LoginTypes
  <2>4. ~Filled(k)' /\ entry' # login[k].stale => k < newest'
    <3> SUFFICES ASSUME ~Filled(k)', entry' # login[k].stale PROVE k < newest'
      OBVIOUS
    <3>1. k # n /\ ~Filled(k)
      BY <1>9
    <3>2. CASE Logins!Front(n)
      BY <1>3, <2>2, <3>1, <3>2
    <3>3. CASE ~Logins!Front(n)
      <4>1. login[k].stale # login[n].stale
        BY <1>12, <2>1, <3>1, <3>3
      <4>2. entry # login[k].stale
        BY <1>3, <3>3, <4>1
      <4>3. k < newest /\ newest \in Nat
        BY <1>1, <2>2, <3>1, <4>2, LoginNumbers DEF LoginTypes, Logins!None
      <4> QED
        BY <1>3, <1>13, <3>3, <4>3, LoginNumbers
    <3> QED
      BY <3>2, <3>3
  <2>5. /\ cert' /\ login'[k].stale < k /\ (Filled(login[k].stale))' /\ login'[k].stale \in refreshing'
    <3>1. session'[login[k].stale] # Logins!NoSession
      BY <1>7, <2>2, <2>3 DEF Filled
    <3> QED
      BY <1>2, <2>1, <2>2, <3>1 DEF Filled
  <2>6. \A m \in Logins!Logins : Logins!InFlight(m)' /\ login'[m].stale = login'[k].stale => m = k
    BY <1>8, <1>9, <2>1, <2>2
  <2>7. Filled(k)' => entry' # login[k].stale
    <3>1. n # login[k].stale
      BY <1>10, <2>2
    <3>2. k = n => entry # login[n].stale
      BY <1>8, <1>9, <2>1
    <3> QED
      BY <1>3, <1>9, <2>2, <3>1, <3>2
  <2> QED
    BY <2>1, <2>4, <2>5, <2>6, <2>7 DEF RefreshOK
<1>18. DirectoriesOK'
  <2>1. Logins!DirOf(n) \in disk
    BY <1>1, <1>2 DEF DirectoriesOK
  <2>2. \A m \in Logins!Logins : Serves(m)' => Serves(m) \/ m = n
    BY <1>3, <1>9 DEF Serves
  <2>3. \A m \in Logins!Logins :
          login'[m].step \in {"track", "login", "lifetime", "removing"} \/ Serves(m)' => Logins!DirOf(m) \in disk
    BY <1>1, <1>8, <2>1, <2>2 DEF DirectoriesOK
  <2>4. \A m \in Logins!Logins : m \in disk => m \in tracked \/ login'[m].step = "track"
    BY <1>1, <1>2, <1>8 DEF DirectoriesOK
  <2>5. \A m \in Logins!Logins : login'[m].step \in {"track", "removing"} => cert
    BY <1>1, <1>8, <1>12 DEF DirectoriesOK
  <2> QED
    BY <1>2, <2>3, <2>4, <2>5 DEF DirectoriesOK, Logins!DirOf
<1>19. TimesOK'
  <2>1. (\A m \in Logins!Logins : login[m].step = "lifetime" => login[m].at <= now /\ now <= login[m].at + 1)'
    BY <1>1, <1>2, <1>8 DEF TimesOK
  <2>2. (\A m \in Logins!Logins : Filled(m) => session[m].hardExpireAt <= session[m].dies)'
    BY <1>1, <1>7, <1>9 DEF TimesOK
  <2>3. \A c \in Callers : got'[c].session # Logins!None =>
          /\ login'[got'[c].session].step = "over" /\ Filled(got[c].session)'
          /\ got'[c].at < session'[got'[c].session].dies
    <3> TAKE c \in Callers
    <3>1. CASE Logins!Front(n) /\ waits[c] = n
      <4>1. got'[c].session = n /\ got'[c].at = now
        BY <1>3, <3>1
      <4> QED
        BY <1>7, <1>8, <3>1, <4>1 DEF Filled
    <3>2. CASE ~(Logins!Front(n) /\ waits[c] = n)
      <4>1. got'[c] = got[c]
        BY <1>3, <3>2
      <4>2. got[c].session # Logins!None => got[c].session # n /\ got[c].session \in Logins!Logins
        BY <1>1, <1>2 DEF TimesOK, LoginTypes
      <4>3. got[c].session # Logins!None => login[got[c].session].step = "over" /\ Filled(got[c].session)
                                            /\ got[c].at < session[got[c].session].dies
        BY <1>1 DEF TimesOK
      <4>4. got[c].session # Logins!None => session'[got[c].session] = session[got[c].session]
        BY <1>7, <4>2
      <4>5. got[c].session # Logins!None => login'[got[c].session].step = "over"
        BY <1>8, <4>2, <4>3
      <4> QED
        BY <4>1, <4>3, <4>4, <4>5 DEF Filled
    <3> QED
      BY <3>1, <3>2
  <2> QED
    BY <2>1, <2>2, <2>3 DEF TimesOK, Filled
<1>20. FlagsOK'
  <2>1. \A m \in refreshing : Filled(m)'
    BY <1>1, <1>9 DEF FlagsOK, LoginTypes
  <2>2. ASSUME entry' \in refreshing PROVE Pending(entry)'
    <3>1. entry' # n
      BY <1>1, <1>10, <2>2 DEF FlagsOK
    <3>2. entry' = entry /\ (~Logins!Front(n) => entry # login[n].stale)
      BY <1>3, <3>1
    <3>3. entry \in refreshing /\ entry # Logins!None
      BY <1>1, <2>2, <3>2, LoginNumbers DEF LoginTypes
    <3>4. PICK k \in Logins!Logins : login[k].stale = entry /\ (Logins!InFlight(k) \/ Stuck(k))
      BY <1>1, <3>3 DEF FlagsOK, Pending
    <3>5. k # n
      BY <3>2, <3>3, <3>4 DEF Logins!Front
    <3> QED
      BY <1>8, <1>9, <3>2, <3>4, <3>5 DEF Pending
  <2> QED
    BY <1>2, <2>1, <2>2 DEF FlagsOK
<1> QED
  BY <1>14, <1>15, <1>16, <1>17, <1>18, <1>19, <1>20 DEF LoginsInv

(* A login that throws answers whoever waits for it, and leaves its entry and the *)
(* mark of its refresh as they are.                                                *)
LEMMA LoginThrows ==
  ASSUME LoginsInv, ~exited, NEW n \in Logins!Logins, Logins!Throws(n)
  PROVE  LoginsInv'
<1>1. LoginTypes /\ OrderOK /\ FrontsOK /\ RefreshesOK /\ FlagsOK /\ DirectoriesOK /\ TimesOK
  BY DEF LoginsInv
<1>2. /\ login[n].step \in {"dir", "login", "removing"} /\ Logins!Goes(n, "threw") /\ waits' = Logins!Released(n)
      /\ UNCHANGED <<cert, entry, session, refreshing, disk, tracked, now, got, exited, newest>>
  BY DEF Logins!Throws
<1>3. /\ login' \in [Logins!Logins -> [step : LoginSteps, stale : Logins!Logins \cup {Logins!None}, at : Nat]]
      /\ \A m \in Logins!Logins : /\ login'[m].step = IF m = n THEN "threw" ELSE login[m].step
                                  /\ login'[m].stale = login[m].stale /\ login'[m].at = login[m].at
  BY <1>1, <1>2, LoginMoves DEF Logins!Goes, LoginSteps
<1>4. \A m \in Logins!Logins : /\ Used(m)' <=> Used(m)
                               /\ Logins!InFlight(m)' <=> Logins!InFlight(m) /\ m # n
                               /\ Logins!Front(m)' <=> Logins!Front(m)
                               /\ Filled(m)' <=> Filled(m)
                               /\ Stuck(m)' <=> Stuck(m) \/ m = n
  BY <1>2, <1>3 DEF Used, Stuck, Logins!InFlight, Logins!Front, Filled
<1>5. /\ Logins!InFlight(n)
      /\ \A m : Serves(m)' <=> Serves(m)
  BY <1>2 DEF Logins!InFlight, Serves, Filled
<1>6. /\ waits' \in [Callers -> Logins!Logins \cup {Logins!None}]
      /\ \A c \in Callers : waits'[c] # Logins!None => waits'[c] = waits[c] /\ waits[c] # n
  BY <1>1, <1>2 DEF Logins!Released, LoginTypes
<1>7. LoginTypes'
  BY <1>1, <1>2, <1>3, <1>6 DEF LoginTypes
<1>8. OrderOK'
  <2>1. (\A m \in Logins!Logins : Filled(m) => login[m].step \in {"removing", "over", "threw"})'
    BY <1>1, <1>3, <1>4 DEF OrderOK
  <2>2. (\A m \in Logins!Logins : login[m].step = "none" => Logins!Front(m))'
    BY <1>1, <1>3, <1>4 DEF OrderOK
  <2>3. (\A m \in refreshing : Used(m))' /\ (entry # Logins!None => Used(entry))' /\ (newest # Logins!None => Used(newest))'
    BY <1>1, <1>2, <1>4 DEF OrderOK, LoginTypes
  <2>4. (\A m, k \in Logins!Logins : m < k /\ Used(k) => Used(m))'
    BY <1>1, <1>4 DEF OrderOK
  <2> QED
    BY <2>1, <2>2, <2>3, <2>4 DEF OrderOK
<1>9. FrontsOK'
  <2>1. (\A m \in Logins!Logins : Logins!InFlight(m) /\ Logins!Front(m) => entry = m /\ ~Filled(m))'
    BY <1>1, <1>2, <1>4 DEF FrontsOK
  <2>2. (entry # Logins!None =>
           IF Filled(entry) THEN login[entry].step = "over"
                            ELSE (Logins!InFlight(entry) \/ Stuck(entry)) /\ Logins!Front(entry))'
    <3>1. entry # Logins!None /\ Filled(entry) => entry # n
      BY <1>1, <1>2 DEF FrontsOK
    <3> QED
      BY <1>1, <1>2, <1>3, <1>4, <3>1 DEF FrontsOK, LoginTypes
  <2>3. (\A c \in Callers : waits[c] # Logins!None => waits[c] = entry /\ ~Filled(entry) /\ Logins!InFlight(entry))'
    BY <1>1, <1>2, <1>4, <1>6 DEF FrontsOK, LoginTypes
  <2> QED
    BY <1>1, <1>2, <2>1, <2>2, <2>3 DEF FrontsOK
<1>10. RefreshesOK'
  <2> SUFFICES ASSUME NEW k \in Logins!Logins, Logins!InFlight(k)', ~Logins!Front(k)'
               PROVE  RefreshOK(k)'
    BY DEF RefreshesOK
  <2>1. Logins!InFlight(k) /\ ~Logins!Front(k) /\ login'[k].stale = login[k].stale
    BY <1>3, <1>4
  <2>2. RefreshOK(k)
    BY <1>1, <2>1 DEF RefreshesOK
  <2> QED
    BY <1>2, <1>3, <1>4, <2>1, <2>2 DEF RefreshOK, Filled
<1>11. FlagsOK'
  <2>1. \A m \in refreshing : Filled(m)'
    BY <1>1, <1>2 DEF FlagsOK, Filled
  <2>2. ASSUME entry \in refreshing PROVE Pending(entry)'
    <3>1. PICK k \in Logins!Logins : login[k].stale = entry /\ (Logins!InFlight(k) \/ Stuck(k))
      BY <1>1, <2>2 DEF FlagsOK, Pending
    <3>2. login'[k].stale = entry /\ (Logins!InFlight(k)' \/ Stuck(k)')
      BY <1>3, <1>4, <3>1
    <3> QED
      BY <1>2, <3>2 DEF Pending
  <2> QED
    BY <1>2, <2>1, <2>2 DEF FlagsOK
<1>12. DirectoriesOK'
  <2>1. \A m \in Logins!Logins : m \in disk => m \in tracked \/ login'[m].step = "track"
    BY <1>1, <1>2, <1>3 DEF DirectoriesOK
  <2>2. \A m \in Logins!Logins :
          login'[m].step \in {"track", "login", "lifetime", "removing"} \/ Serves(m)' => Logins!DirOf(m) \in disk
    BY <1>1, <1>3, <1>5 DEF DirectoriesOK
  <2>3. \A m \in Logins!Logins : login'[m].step \in {"track", "removing"} => cert
    BY <1>1, <1>3 DEF DirectoriesOK
  <2> QED
    BY <1>2, <2>1, <2>2, <2>3 DEF DirectoriesOK, Logins!DirOf
<1>13. TimesOK'
  <2>1. \A c \in Callers : got[c].session # Logins!None => got[c].session # n /\ got[c].session \in Logins!Logins
    BY <1>1, <1>2 DEF TimesOK, LoginTypes
  <2> QED
    BY <1>1, <1>2, <1>3, <2>1 DEF TimesOK, Filled
<1> QED
  BY <1>7, <1>8, <1>9, <1>10, <1>11, <1>12, <1>13 DEF LoginsInv

(* Time goes on, but not past what az needs to tell a token's life; and the       *)
(* exit sweeps.                                                                    *)
LEMMA LoginsAge ==
  ASSUME LoginsInv, Logins!Tick \/ Logins!Exit
  PROVE  LoginsInv'
<1>1. LoginTypes /\ OrderOK /\ FrontsOK /\ RefreshesOK /\ FlagsOK /\ DirectoriesOK /\ TimesOK
  BY DEF LoginsInv
<1>2. UNCHANGED <<cert, entry, session, refreshing, login, tracked, waits, got, newest>>
  BY DEF Logins!Tick, Logins!Exit
<1>3. /\ \A m : (Used(m)' <=> Used(m)) /\ (Filled(m)' <=> Filled(m)) /\ (Serves(m)' <=> Serves(m))
      /\ \A m : (Logins!InFlight(m)' <=> Logins!InFlight(m)) /\ (Logins!Front(m)' <=> Logins!Front(m))
      /\ \A m : (Stuck(m)' <=> Stuck(m)) /\ (Pending(m)' <=> Pending(m))
  BY <1>2 DEF Used, Filled, Serves, Stuck, Pending, Logins!InFlight, Logins!Front
<1>4. OrderOK' /\ FrontsOK' /\ RefreshesOK' /\ FlagsOK'
  BY <1>1, <1>2, <1>3 DEF OrderOK, FrontsOK, RefreshesOK, RefreshOK, FlagsOK
<1>5. CASE Logins!Tick
  <2>1. LoginTypes'
    BY <1>1, <1>2, <1>5 DEF LoginTypes, Logins!Tick
  <2>2. DirectoriesOK'
    BY <1>1, <1>2, <1>3, <1>5 DEF DirectoriesOK, Logins!DirOf, Logins!Tick
  <2>3. TimesOK'
    BY <1>1, <1>2, <1>3, <1>5 DEF TimesOK, Logins!Tick, LoginTypes
  <2> QED
    BY <1>4, <2>1, <2>2, <2>3 DEF LoginsInv
<1>6. CASE Logins!Exit
  <2>1. ~exited /\ exited' = TRUE /\ disk' \subseteq disk /\ now' = now
    BY <1>6 DEF Logins!Exit
  <2>2. LoginTypes'
    BY <1>1, <1>2, <2>1 DEF LoginTypes
  <2>3. DirectoriesOK'
    BY <1>1, <1>2, <2>1 DEF DirectoriesOK
  <2>4. TimesOK'
    BY <1>1, <1>2, <1>3, <2>1 DEF TimesOK
  <2> QED
    BY <1>4, <2>2, <2>3, <2>4 DEF LoginsInv
<1> QED
  BY <1>5, <1>6

LEMMA LoginsStepKeeps == ASSUME LoginsInv, Logins!Next PROVE LoginsInv'
<1>1. ASSUME NEW n \in Logins!Logins, Logins!Step(n) PROVE LoginsInv'
  <2>0. ~exited
    BY <1>1 DEF Logins!Step
  <2>1. CASE Logins!MakesDir(n) \/ Logins!Tracks(n) \/ Logins!LogsIn(n) \/ (cert /\ Logins!Fails(n))
    <3>1. UNCHANGED <<cert, entry, session, refreshing, now, waits, got, exited, newest>>
      BY <2>1 DEF Logins!MakesDir, Logins!Tracks, Logins!LogsIn, Logins!Fails
    <3>2. \/ login[n].step = "dir" /\ disk' = disk \cup {Logins!DirOf(n)} /\ tracked' = tracked
             /\ Logins!Goes(n, IF cert THEN "track" ELSE "login")
          \/ login[n].step = "track" /\ tracked' = tracked \cup {n} /\ disk' = disk /\ Logins!Goes(n, "login")
          \/ login[n].step = "login" /\ UNCHANGED <<disk, tracked>>
             /\ login' = [login EXCEPT ![n].step = "lifetime", ![n].at = now]
          \/ login[n].step = "login" /\ UNCHANGED <<disk, tracked>> /\ cert /\ Logins!Goes(n, "removing")
      BY <2>1 DEF Logins!MakesDir, Logins!Tracks, Logins!LogsIn, Logins!Fails
    <3> QED
      BY <2>0, <3>1, <3>2, LoginGoesOn
  <2>2. CASE Logins!Removes(n) \/ (~cert /\ Logins!Fails(n))
    <3>1. /\ login[n].step \in {"login", "removing"} /\ Logins!Goes(n, "over")
          /\ UNCHANGED <<cert, session, now, got, exited, newest>>
      BY <2>2 DEF Logins!Removes, Logins!Fails
    <3>2. \/ login[n].step = "removing" /\ disk' = disk \ {n} /\ tracked' = tracked \ {n}
          \/ login[n].step = "login" /\ UNCHANGED <<disk, tracked>>
      BY <2>2 DEF Logins!Removes, Logins!Fails
    <3>3. IF Filled(n) THEN UNCHANGED <<entry, refreshing, waits>> ELSE Logins!Failed(n)
      <4>1. login[n].step = "login" => ~Filled(n)
        BY <1>1 DEF LoginsInv, OrderOK
      <4> QED
        BY <2>2, <4>1 DEF Logins!Removes, Logins!Fails, Filled
    <3> QED
      BY <2>0, <3>1, <3>2, <3>3, LoginIsOver
  <2>3. CASE \E span \in Lifetimes, told \in BOOLEAN : Logins!HasSession(n, span, told)
    BY <2>0, <2>3, SessionIsGot
  <2>4. CASE Logins!Throws(n)
    BY <2>0, <2>4, LoginThrows
  <2>5. cert \in BOOLEAN
    BY <1>1 DEF LoginsInv, LoginTypes
  <2> QED
    BY <1>1, <2>1, <2>2, <2>3, <2>4, <2>5 DEF Logins!Step
<1>2. ASSUME NEW c \in Callers, Logins!GetSession(c) PROVE LoginsInv'
  <2>1. ~exited /\ UNCHANGED <<cert, disk, tracked, now, exited>>
    BY <1>2 DEF Logins!GetSession
  <2>2. \/ Logins!Login(c) /\ (entry = Logins!None \/ Filled(entry))
        \/ Logins!Join(c) /\ entry # Logins!None /\ ~Filled(entry)
        \/ Logins!Hit(c) /\ entry # Logins!None /\ Filled(entry) /\ ~(now >= session[entry].hardExpireAt)
    BY <1>2 DEF Logins!GetSession, Filled
  <2> QED
    BY <2>1, <2>2, LoginStarts, LoginIsShared, SessionIsServed
<1> QED
  BY <1>1, <1>2, LoginsAge DEF Logins!Next, Logins!SomeStep

LEMMA LoginsStutterKeeps == ASSUME LoginsInv, UNCHANGED Logins!vars PROVE LoginsInv'
<1> USE DEF Logins!vars
<1>1. LoginTypes' /\ TimesOK' /\ OrderOK'
  BY DEF LoginsInv, LoginTypes, TimesOK, OrderOK, Filled, Used, Logins!Front
<1>2. FrontsOK' /\ RefreshesOK' /\ FlagsOK'
  BY DEF LoginsInv, FrontsOK, RefreshesOK, RefreshOK, FlagsOK, Filled, Stuck, Pending, Logins!Front, Logins!InFlight
<1>3. DirectoriesOK'
  BY DEF LoginsInv, DirectoriesOK, Serves, Filled, Logins!DirOf
<1> QED
  BY <1>1, <1>2, <1>3 DEF LoginsInv

LEMMA LoginsInvIsEnough == ASSUME LoginsInv PROVE Logins!AzSound
<1>1. LoginTypes /\ OrderOK /\ FrontsOK /\ RefreshesOK /\ FlagsOK /\ DirectoriesOK /\ TimesOK
  BY DEF LoginsInv
<1>2. Logins!OneLogin
  BY <1>1 DEF Logins!OneLogin, FrontsOK
<1>3. Logins!OneRefresh
  BY <1>1 DEF Logins!OneRefresh, RefreshesOK, RefreshOK, Logins!Front
<1>4. Logins!DirsKept
  <2>1. ASSUME ~exited, NEW c \in Callers, got[c].session # Logins!None
        PROVE  Logins!DirOf(got[c].session) \in disk
    BY <1>1, <2>1 DEF DirectoriesOK, Serves, LoginTypes
  <2>2. ASSUME ~exited, entry # Logins!None, session[entry] # Logins!NoSession
        PROVE  Logins!DirOf(entry) \in disk
    BY <1>1, <2>2 DEF DirectoriesOK, Serves, LoginTypes, Filled
  <2>3. disk \subseteq {Logins!Home} \cup tracked \cup {n \in Logins!Logins : login[n].step = "track"}
    BY <1>1 DEF DirectoriesOK, LoginTypes
  <2> QED
    BY <2>1, <2>2, <2>3 DEF Logins!DirsKept
<1>5. Logins!AliveWhenServed
  BY <1>1 DEF Logins!AliveWhenServed, TimesOK
<1>6. Logins!OnlyThrowsStick
  BY <1>1 DEF Logins!OnlyThrowsStick, FrontsOK, FlagsOK, Filled, Stuck, Pending
<1> QED
  BY <1>2, <1>3, <1>4, <1>5, <1>6 DEF Logins!AzSound

-----------------------------------------------------------------------------
(* The type server.  A request that is pending is waited for by the tool that *)
(* made it, and a process that is not the block's says nothing to the client.  *)
(* What a process has written and nobody has read is a number of answers,       *)
(* without the header of the first when that is in the buffer: an answer is     *)
(* told by how far it is from the end.                                          *)
Text == [t : {"L", "E", "B"}, seq : Nat, need : Nat]
Kind(q, i) == IF (Len(q) - i) % 3 = 0 THEN "B" ELSE IF (Len(q) - i) % 3 = 1 THEN "E" ELSE "L"
Framed(q)  == Len(q) % 3 \in {0, 1} /\ \A i \in 1..Len(q) : q[i].t = Kind(q, i)
Narrow(q)  == \A i \in 1..Len(q) : q[i].t = "L" => q[i].need = 1

ServerTypes ==
  /\ startPromise \in BOOLEAN /\ started \in BOOLEAN /\ block \in 1..MaxBlocks
  /\ state \in [TsTools -> {"idle", "opening", "asking", "answered", "failed"}]
  /\ awaits \in [TsTools -> SUBSET Nat] /\ seq \in Nat /\ wides \in Nat
  /\ inbox \in [Server!Processes -> Seq(Nat)] /\ stdout \in [Server!Processes -> Seq(Text)]

SpawnedOK ==
  /\ spawned = IF startPromise THEN block ELSE block - 1
  /\ proc = IF startPromise THEN block ELSE Server!None
  /\ started => startPromise
  /\ ~startPromise => \A t \in TsTools : state[t] = "idle"
  /\ \A p \in Server!Processes : p > spawned => stdout[p] = <<>>

MatchOK ==
  /\ \A s \in DOMAIN unanswered : s \in 1..seq /\ unanswered[s] \in TsTools /\ s \in awaits[unanswered[s]]
  /\ \A t \in TsTools : \A s \in awaits[t] : s \in DOMAIN unanswered /\ unanswered[s] = t

PendingOK ==
  /\ ~started => DOMAIN unanswered = {}
  /\ \A t \in TsTools : ~Server!Settled(t) => awaits[t] # {}
  /\ \A t \in TsTools : state[t] = "idle" => awaits[t] = {}
  /\ \A t \in TsTools : state[t] = "opening" => \A r, s \in awaits[t] : r = s

TextOK ==
  /\ \A p \in Server!Processes : Framed(stdout[p])
  /\ wides = 0 /\ proc # Server!None =>
       /\ Narrow(stdout[proc])
       /\ Len(stdout[proc]) % 3 = 0 => buffer = <<>>
       /\ Len(stdout[proc]) % 3 = 1 =>
            buffer \in Seq(Text) /\ Len(buffer) = 2 /\ buffer[1].t = "L" /\ buffer[1].need = 1 /\ buffer[2].t = "E"

ServerInv == ServerTypes /\ SpawnedOK /\ MatchOK /\ PendingOK /\ TextOK /\ Server!AnswersAreFresh

LEMMA ServerNumbers ==
  /\ MaxBlocks \in Nat /\ MaxBlocks > 0 /\ Server!Processes = 1..MaxBlocks /\ Server!None = 0
  /\ \A t \in TsTools : Requests[t] \in Nat /\ Requests[t] > 0
  BY ServerConstants DEF Server!RequestsAssumption, Server!Processes, Server!None

LEMMA ServerInit == ASSUME Server!Init PROVE ServerInv
<1> USE ServerNumbers DEF Server!Init
<1>1. ServerTypes
  <2>1. /\ state \in [TsTools -> {"idle", "opening", "asking", "answered", "failed"}] /\ awaits \in [TsTools -> SUBSET Nat]
        /\ inbox \in [Server!Processes -> Seq(Nat)] /\ stdout \in [Server!Processes -> Seq(Text)]
    OBVIOUS
  <2>2. block \in 1..MaxBlocks /\ seq \in Nat /\ wides \in Nat
    OBVIOUS
  <2> QED
    BY <2>1, <2>2 DEF ServerTypes
<1>2. MatchOK /\ PendingOK /\ SpawnedOK
  BY DEF MatchOK, PendingOK, SpawnedOK, Server!Settled
<1>3. TextOK /\ Server!AnswersAreFresh
  BY DEF TextOK, Framed, Server!AnswersAreFresh
<1> QED
  BY <1>1, <1>2, <1>3 DEF ServerInv

(* Answers come whole.                                                          *)
LEMMA FrameAdded ==
  ASSUME NEW q \in Seq(Text), Framed(q), NEW a \in Text, NEW b \in Text, NEW c \in Text,
         a.t = "L", b.t = "E", c.t = "B"
  PROVE  /\ q \o <<a, b, c>> \in Seq(Text) /\ Framed(q \o <<a, b, c>>) /\ Len(q \o <<a, b, c>>) % 3 = Len(q) % 3
         /\ Narrow(q) /\ a.need = 1 => Narrow(q \o <<a, b, c>>)
<1> DEFINE r == q \o <<a, b, c>>
<1>1. /\ r \in Seq(Text) /\ Len(r) = Len(q) + 3 /\ Len(q) \in Nat
      /\ \A i \in 1..Len(q) : r[i] = q[i]
      /\ r[Len(q) + 1] = a /\ r[Len(q) + 2] = b /\ r[Len(q) + 3] = c
  OBVIOUS
<1> HIDE DEF r
<1>2. \A i \in 1..Len(r) : i \in 1..Len(q) \/ i = Len(q) + 1 \/ i = Len(q) + 2 \/ i = Len(q) + 3
  BY <1>1
<1>3. \A i \in 1..Len(q) : Kind(r, i) = Kind(q, i)
  BY <1>1 DEF Kind
<1>4. Kind(r, Len(q) + 1) = "L" /\ Kind(r, Len(q) + 2) = "E" /\ Kind(r, Len(q) + 3) = "B"
  BY <1>1 DEF Kind
<1>5. Len(r) % 3 = Len(q) % 3
  BY <1>1
<1>6. Framed(r)
  BY <1>1, <1>2, <1>3, <1>4, <1>5 DEF Framed
<1>7. Narrow(q) /\ a.need = 1 => Narrow(r)
  BY <1>1, <1>2 DEF Narrow
<1> QED
  BY <1>1, <1>5, <1>6, <1>7 DEF r

(* A piece is a header, or the body that is left of an answer.                  *)
LEMMA PieceTaken ==
  ASSUME NEW q \in Seq(Text), q # <<>>, Framed(q)
  PROVE  LET piece == Server!Piece(q)  r == SubSeq(q, Len(piece) + 1, Len(q)) IN
         /\ r \in Seq(Text) /\ Framed(r) /\ (Narrow(q) => Narrow(r))
         /\ piece \in Seq(Text)
         /\ \/ /\ Len(q) % 3 = 0 /\ Len(r) % 3 = 1 /\ Len(piece) = 2
               /\ piece[1] = q[1] /\ piece[1].t = "L" /\ piece[2].t = "E"
            \/ Len(q) % 3 = 1 /\ Len(r) % 3 = 0 /\ Len(piece) = 1 /\ piece[1].t = "B"
<1> DEFINE n == IF q[1].t = "L" THEN 2 ELSE 1
           piece == SubSeq(q, 1, n)
           r == SubSeq(q, n + 1, Len(q))
<1>0. Len(q) \in Nat /\ Len(q) > 0 /\ Head(q) = q[1]
  OBVIOUS
<1>1. q[1].t = Kind(q, 1)
  BY <1>0 DEF Framed
<1>2. \/ Len(q) % 3 = 0 /\ q[1].t = "L" /\ q[2].t = "E" /\ n = 2 /\ Len(q) >= 3
      \/ Len(q) % 3 = 1 /\ q[1].t = "B" /\ n = 1
  <2>1. CASE Len(q) % 3 = 0
    <3>1. Len(q) >= 3 /\ (Len(q) - 1) % 3 = 2 /\ (Len(q) - 2) % 3 = 1
      BY <1>0, <2>1
    <3>2. q[2].t = Kind(q, 2)
      BY <3>1 DEF Framed
    <3> QED
      BY <1>1, <2>1, <3>1, <3>2 DEF Kind
  <2>2. CASE Len(q) % 3 = 1
    <3>1. (Len(q) - 1) % 3 = 0
      BY <1>0, <2>2
    <3> QED
      BY <1>1, <2>2, <3>1 DEF Kind
  <2> QED
    BY <2>1, <2>2 DEF Framed
<1> HIDE DEF n
<1>3. n \in 1..Len(q)
  BY <1>0, <1>2
<1>4. piece \in Seq(Text) /\ Len(piece) = n /\ \A i \in 1..n : piece[i] = q[i]
  BY <1>0, <1>3, SubSeqProperties
<1>5. r \in Seq(Text) /\ Len(r) = Len(q) - n /\ \A i \in 1..Len(r) : r[i] = q[i + n]
  <2>1. n + 1 \in 1..(Len(q) + 1) /\ Len(q) \in n..Len(q) /\ (n + 1) - 1 = n
    BY <1>0, <1>3
  <2>2. r \in Seq(Text) /\ Len(r) = (Len(q) - (n + 1)) + 1 /\ \A i \in 1..((Len(q) - (n + 1)) + 1) : r[i] = q[((n + 1) + i) - 1]
    BY <2>1, SubSeqProperties
  <2> QED
    BY <1>0, <1>3, <2>2
<1> HIDE DEF r, piece
<1>6. \A i \in 1..Len(r) : i + n \in 1..Len(q) /\ Kind(r, i) = Kind(q, i + n)
  BY <1>0, <1>3, <1>5 DEF Kind
<1>7. Len(q) % 3 = 0 => Len(r) % 3 = 1
  <2>1. \A x \in Nat : x % 3 = 0 /\ x >= 3 => (x - 2) % 3 = 1
    OBVIOUS
  <2> QED
    BY <1>0, <1>2, <1>5, <2>1
<1>8. Len(q) % 3 = 1 => Len(r) % 3 = 0
  <2>1. \A x \in Nat : x % 3 = 1 => (x - 1) % 3 = 0
    OBVIOUS
  <2> QED
    BY <1>0, <1>2, <1>5, <2>1
<1>9. Framed(r) /\ (Narrow(q) => Narrow(r))
  BY <1>2, <1>5, <1>6, <1>7, <1>8 DEF Framed, Narrow
<1>10. Server!Piece(q) = piece /\ SubSeq(q, Len(piece) + 1, Len(q)) = r
  BY <1>0, <1>4 DEF Server!Piece, piece, r, n
<1>11. \/ /\ Len(q) % 3 = 0 /\ Len(r) % 3 = 1 /\ Len(piece) = 2
          /\ piece[1] = q[1] /\ piece[1].t = "L" /\ piece[2].t = "E"
       \/ Len(q) % 3 = 1 /\ Len(r) % 3 = 0 /\ Len(piece) = 1 /\ piece[1].t = "B"
  <2>1. CASE n = 2
    <3>1. piece[1] = q[1] /\ piece[2] = q[2]
      BY <1>4, <2>1
    <3> QED
      BY <1>2, <1>4, <1>7, <2>1, <3>1
  <2>2. CASE n = 1
    <3>1. piece[1] = q[1]
      BY <1>4, <2>2
    <3> QED
      BY <1>2, <1>4, <1>8, <2>2, <3>1
  <2> QED
    BY <1>2, <2>1, <2>2
<1>12. r \in Seq(Text) /\ Framed(r) /\ (Narrow(q) => Narrow(r)) /\ piece \in Seq(Text)
  BY <1>4, <1>5, <1>9
<1> QED
  BY <1>10, <1>11, <1>12, Zenon

(* A header alone is kept, and with its body it is an answer.                    *)
LEMMA HeaderKept ==
  ASSUME NEW text \in Seq(Text), Len(text) = 2, text[1].t = "L", text[1].need = 1, text[2].t = "E"
  PROVE  Server!ProcessBuffer(text).rest = text
<1> DEFINE ends == {i \in DOMAIN text : text[i].t = "E"}
           end == CHOOSE i \in ends : \A j \in ends : i <= j
           lengths == {i \in 1..(end - 1) : text[i].t = "L"}
           need == text[CHOOSE i \in lengths : \A j \in lengths : i <= j].need
<1>1. ends = {2}
  OBVIOUS
<1>2. end = 2
  BY <1>1
<1> HIDE DEF end
<1>3. lengths = {1}
  BY <1>2
<1>4. need = 1
  BY <1>3
<1> HIDE DEF need, lengths, ends
<1>5. ends # {} /\ lengths # {} /\ Len(text) < end + need
  BY <1>1, <1>2, <1>3, <1>4
<1> QED
  BY <1>5 DEF Server!ProcessBuffer, need, lengths, ends, end

LEMMA HeaderThenBody ==
  ASSUME NEW b \in Seq(Text), NEW c \in Seq(Text), Len(b) = 2, Len(c) = 1
  PROVE  b \o c \in Seq(Text) /\ Len(b \o c) = 3 /\ (b \o c)[1] = b[1] /\ (b \o c)[2] = b[2] /\ (b \o c)[3] = c[1]
<1> DEFINE r == b \o c
<1>1. /\ r \in Seq(Text) /\ Len(r) = Len(b) + Len(c)
      /\ \A i \in 1..(Len(b) + Len(c)) : r[i] = IF i <= Len(b) THEN b[i] ELSE c[i - Len(b)]
  BY ConcatProperties, Zenon
<1> HIDE DEF r
<1>2. Len(b) + Len(c) = 3
  OBVIOUS
<1>3. \A i \in 1..3 : r[i] = IF i <= 2 THEN b[i] ELSE c[i - 2]
  BY <1>1, <1>2
<1>4. 1 \in 1..3 /\ 2 \in 1..3 /\ 3 \in 1..3 /\ 3 - 2 = 1
  OBVIOUS
<1>5. r[1] = b[1] /\ r[2] = b[2] /\ r[3] = c[1]
  BY <1>3, <1>4
<1> QED
  BY <1>1, <1>2, <1>5 DEF r

LEMMA AnswerRead ==
  ASSUME NEW text \in Seq(Text), Len(text) = 3, text[1].t = "L", text[1].need = 1, text[2].t = "E", text[3].t = "B"
  PROVE  Server!ProcessBuffer(text).rest = <<>>
<1> DEFINE ends == {i \in DOMAIN text : text[i].t = "E"}
           end == CHOOSE i \in ends : \A j \in ends : i <= j
           lengths == {i \in 1..(end - 1) : text[i].t = "L"}
           need == text[CHOOSE i \in lengths : \A j \in lengths : i <= j].need
<1>1. ends = {2}
  OBVIOUS
<1>2. end = 2
  BY <1>1
<1> HIDE DEF end
<1>3. lengths = {1}
  BY <1>2
<1>4. need = 1
  BY <1>3
<1>5. SubSeq(text, 4, 3) = <<>>
  <2>1. Len(SubSeq(text, 4, 3)) = 0 /\ SubSeq(text, 4, 3) \in Seq(Text)
    BY SubSeqProperties
  <2> QED
    BY <2>1
<1> HIDE DEF need, lengths, ends
<1>6. ends # {} /\ lengths # {} /\ ~(Len(text) < end + need) /\ SubSeq(text, end + need + 1, Len(text)) = <<>>
  BY <1>1, <1>2, <1>3, <1>4, <1>5
<1> QED
  BY <1>6 DEF Server!ProcessBuffer, need, lengths, ends, end

(* A tool sends its requests.                                                     *)
LEMMA RequestsSent ==
  ASSUME ServerTypes, NEW t \in TsTools, NEW n \in Nat, n > 0, NEW from \in Nat, NEW to, proc' \in Server!Processes,
         Server!Sent(t, n, from, to),
         \A s \in DOMAIN to : s \in 1..from /\ to[s] \in TsTools /\ to[s] # t /\ s \in awaits[to[s]],
         \A u \in TsTools : u # t => \A s \in awaits[u] : s \in DOMAIN to /\ to[s] = u
  PROVE  /\ MatchOK' /\ seq' \in Nat /\ inbox' \in [Server!Processes -> Seq(Nat)] /\ awaits' \in [TsTools -> SUBSET Nat]
         /\ awaits'[t] # {} /\ (n = 1 => \A r, s \in awaits'[t] : r = s)
         /\ \A u \in TsTools : u # t => awaits'[u] = awaits[u]
<1> DEFINE new == (from + 1)..(from + n)
           sent == [i \in 1..n |-> from + i]
<1>1. /\ seq' = from + n
      /\ unanswered' = [s \in DOMAIN to \cup new |-> IF s \in new THEN t ELSE to[s]]
      /\ inbox' = [inbox EXCEPT ![proc'] = @ \o sent] /\ awaits' = [awaits EXCEPT ![t] = new]
  BY DEF Server!Sent
<1>2. seq' \in Nat /\ new \subseteq 1..seq' /\ new \subseteq Nat /\ (from + 1) \in new /\ (n = 1 => \A r, s \in new : r = s)
  BY <1>1
<1>3. inbox' \in [Server!Processes -> Seq(Nat)]
  <2>1. sent \in Seq(Nat)
    OBVIOUS
  <2> HIDE DEF sent
  <2>2. inbox[proc'] \o sent \in Seq(Nat)
    BY <2>1 DEF ServerTypes
  <2> QED
    BY <1>1, <2>2 DEF ServerTypes
<1>4. \A s \in DOMAIN to : s \in 1..seq' /\ s \notin new
  BY <1>1
<1> HIDE DEF new
<1>5. awaits' \in [TsTools -> SUBSET Nat] /\ awaits'[t] = new /\ \A u \in TsTools : u # t => awaits'[u] = awaits[u]
  BY <1>1, <1>2 DEF ServerTypes
<1>6. DOMAIN unanswered' = DOMAIN to \cup new /\ \A s \in DOMAIN unanswered' : unanswered'[s] = IF s \in new THEN t ELSE to[s]
  BY <1>1
<1>7. \A s \in DOMAIN unanswered' : s \in 1..seq' /\ unanswered'[s] \in TsTools /\ s \in awaits'[unanswered'[s]]
  BY <1>2, <1>4, <1>5, <1>6
<1>8. \A u \in TsTools : \A s \in awaits'[u] : s \in DOMAIN unanswered' /\ unanswered'[s] = u
  BY <1>4, <1>5, <1>6
<1>9. MatchOK'
  BY <1>7, <1>8 DEF MatchOK
<1> QED
  BY <1>2, <1>3, <1>5, <1>9

(* Requests are rejected, and who made them has failed.                           *)
LEMMA RequestsFail ==
  ASSUME ServerTypes, SpawnedOK, MatchOK, PendingOK, NEW seqs, Server!FailPending(seqs), UNCHANGED <<seq, startPromise>>,
         ~started' => DOMAIN unanswered \subseteq seqs
  PROVE  /\ MatchOK' /\ PendingOK' /\ awaits' \in [TsTools -> SUBSET Nat]
         /\ state' \in [TsTools -> {"idle", "opening", "asking", "answered", "failed"}]
         /\ ~startPromise => \A t \in TsTools : state'[t] = "idle"
<1>1. /\ unanswered' = [s \in DOMAIN unanswered \ seqs |-> unanswered[s]]
      /\ state' = [t \in TsTools |-> IF awaits[t] \cap seqs # {} /\ ~Server!Settled(t) THEN "failed" ELSE state[t]]
      /\ awaits' = [t \in TsTools |-> awaits[t] \ seqs]
  BY DEF Server!FailPending, Server!Without
<1>2. /\ DOMAIN unanswered' = DOMAIN unanswered \ seqs
      /\ \A s \in DOMAIN unanswered \ seqs : unanswered'[s] = unanswered[s]
      /\ \A t \in TsTools : awaits'[t] = awaits[t] \ seqs
  BY <1>1
<1>3. awaits' \in [TsTools -> SUBSET Nat]
  BY <1>1 DEF ServerTypes
<1>4. \A t \in TsTools : state'[t] = IF awaits[t] \cap seqs # {} /\ ~Server!Settled(t) THEN "failed" ELSE state[t]
  BY <1>1
<1>5. state' \in [TsTools -> {"idle", "opening", "asking", "answered", "failed"}]
  BY <1>1 DEF ServerTypes
<1>6. MatchOK'
  <2>1. \A s \in DOMAIN unanswered' : s \in 1..seq' /\ unanswered'[s] \in TsTools /\ s \in awaits'[unanswered'[s]]
    BY <1>2 DEF MatchOK
  <2>2. \A t \in TsTools : \A s \in awaits'[t] : s \in DOMAIN unanswered' /\ unanswered'[s] = t
    BY <1>2 DEF MatchOK
  <2> QED
    BY <2>1, <2>2 DEF MatchOK
<1>7. PendingOK'
  <2>1. ~started' => DOMAIN unanswered' = {}
    BY <1>2
  <2>2. \A t \in TsTools : state'[t] \notin {"idle", "answered", "failed"} => state'[t] = state[t] /\ awaits'[t] = awaits[t]
    BY <1>2, <1>4 DEF Server!Settled
  <2>3. \A t \in TsTools : ~(Server!Settled(t)') => awaits'[t] # {}
    BY <2>2 DEF PendingOK, Server!Settled
  <2>4. \A t \in TsTools : state'[t] = "idle" => awaits'[t] = {}
    BY <1>2, <1>4 DEF PendingOK
  <2>5. \A t \in TsTools : state'[t] = "opening" => \A r, s \in awaits'[t] : r = s
    BY <2>2 DEF PendingOK
  <2> QED
    BY <2>1, <2>3, <2>4, <2>5 DEF PendingOK
<1>8. ~startPromise => \A t \in TsTools : state'[t] = "idle"
  BY <1>4 DEF SpawnedOK, Server!Settled
<1> QED
  BY <1>3, <1>5, <1>6, <1>7, <1>8

LEMMA ToolBegins == ASSUME ServerInv, NEW t \in TsTools, Server!Begin(t) PROVE ServerInv'
<1>1. ServerTypes /\ SpawnedOK /\ MatchOK /\ PendingOK /\ TextOK /\ Server!AnswersAreFresh
  BY DEF ServerInv
<1>2. /\ state[t] = "idle" /\ startPromise' = TRUE /\ UNCHANGED <<block, stdout, deaths, wides, answers>>
      /\ IF Server!Starts
           THEN proc' = spawned + 1 /\ spawned' = spawned + 1 /\ started' = TRUE /\ buffer' = <<>>
           ELSE UNCHANGED <<proc, spawned, buffer>> /\ started' = started
  BY <1>1 DEF Server!Begin, ServerTypes
<1>3. /\ started' => /\ state' \in {[state EXCEPT ![t] = "asking"], [state EXCEPT ![t] = "opening"]}
                     /\ Server!Sent(t, IF FileOf[t] \in openFiles' THEN Requests[t] ELSE 1,
                                    IF Server!Starts THEN 0 ELSE seq, unanswered)
                     /\ FileOf[t] \in openFiles' => state' = [state EXCEPT ![t] = "asking"]
      /\ ~started' => state' = [state EXCEPT ![t] = "failed"] /\ UNCHANGED <<seq, unanswered, inbox, awaits>>
  BY DEF Server!Begin
<1>4. proc' = block /\ spawned' = block /\ block \in Server!Processes /\ proc' # Server!None /\ block \in Nat
  <2>1. block \in 1..MaxBlocks
    BY <1>1 DEF ServerTypes
  <2>2. proc' = block /\ spawned' = block
    BY <1>1, <1>2, <2>1, ServerNumbers DEF SpawnedOK, Server!Starts
  <2> QED
    BY <2>1, <2>2, ServerNumbers
<1>5. \A s \in DOMAIN unanswered : unanswered[s] # t
  BY <1>1, <1>2 DEF MatchOK, PendingOK
<1>6. /\ MatchOK' /\ PendingOK' /\ seq' \in Nat /\ inbox' \in [Server!Processes -> Seq(Nat)]
      /\ awaits' \in [TsTools -> SUBSET Nat]
      /\ state' \in [TsTools -> {"idle", "opening", "asking", "answered", "failed"}]
  <2>0. \A u \in TsTools : u # t => state'[u] = state[u]
    BY <1>1, <1>3 DEF ServerTypes
  <2>1. CASE started'
    <3> DEFINE n == IF FileOf[t] \in openFiles' THEN Requests[t] ELSE 1
               from == IF Server!Starts THEN 0 ELSE seq
    <3>1. n \in Nat /\ n > 0 /\ from \in Nat /\ Server!Sent(t, n, from, unanswered) /\ (n # 1 => state'[t] = "asking")
      BY <1>1, <1>3, <2>1, ServerNumbers DEF ServerTypes
    <3>2. \A s \in DOMAIN unanswered : s \in 1..from
      BY <1>1, ServerNumbers DEF MatchOK, PendingOK, Server!Starts
    <3>3. state'[t] \in {"asking", "opening"} /\ state' \in [TsTools -> {"idle", "opening", "asking", "answered", "failed"}]
      BY <1>1, <1>3, <2>1 DEF ServerTypes
    <3> HIDE DEF n, from
    <3>4. /\ MatchOK' /\ seq' \in Nat /\ inbox' \in [Server!Processes -> Seq(Nat)] /\ awaits' \in [TsTools -> SUBSET Nat]
          /\ awaits'[t] # {} /\ (n = 1 => \A r, s \in awaits'[t] : r = s)
          /\ \A u \in TsTools : u # t => awaits'[u] = awaits[u]
      <4>1. \A s \in DOMAIN unanswered : s \in 1..from /\ unanswered[s] \in TsTools /\ unanswered[s] # t /\ s \in awaits[unanswered[s]]
        BY <1>1, <1>5, <3>2 DEF MatchOK
      <4>2. \A u \in TsTools : u # t => \A s \in awaits[u] : s \in DOMAIN unanswered /\ unanswered[s] = u
        BY <1>1 DEF MatchOK
      <4> QED
        BY <1>1, <1>4, <3>1, <4>1, <4>2, RequestsSent
    <3>5. PendingOK'
      BY <1>1, <2>0, <2>1, <3>1, <3>3, <3>4 DEF PendingOK, Server!Settled
    <3> QED
      BY <3>3, <3>4, <3>5
  <2>2. CASE ~started'
    <3>1. state'[t] = "failed" /\ state' \in [TsTools -> {"idle", "opening", "asking", "answered", "failed"}]
      BY <1>1, <1>3, <2>2 DEF ServerTypes
    <3>2. ~started
      BY <1>1, <1>2, <2>2 DEF ServerTypes
    <3>3. UNCHANGED <<seq, unanswered, inbox, awaits>>
      BY <1>3, <2>2
    <3>4. MatchOK'
      BY <1>1, <3>3 DEF MatchOK
    <3>5. PendingOK'
      BY <1>1, <2>0, <3>1, <3>2, <3>3 DEF PendingOK, Server!Settled
    <3> QED
      BY <1>1, <3>1, <3>3, <3>4, <3>5 DEF ServerTypes
  <2> QED
    BY <2>1, <2>2
<1>7. ServerTypes'
  <2>1. started' \in BOOLEAN /\ startPromise' \in BOOLEAN
    BY <1>1, <1>2 DEF ServerTypes
  <2> QED
    BY <1>1, <1>2, <1>6, <2>1 DEF ServerTypes
<1>8. SpawnedOK'
  <2>1. \A p \in Server!Processes : p > block => stdout[p] = <<>>
    BY <1>1, <1>4, ServerNumbers DEF SpawnedOK
  <2> QED
    BY <1>2, <1>4, <2>1 DEF SpawnedOK
<1>9. TextOK'
  <2>1. CASE Server!Starts
    <3>1. stdout[block] = <<>>
      BY <1>1, <1>4, <2>1, ServerNumbers DEF SpawnedOK, Server!Starts
    <3> QED
      BY <1>1, <1>2, <1>4, <2>1, <3>1 DEF TextOK, Narrow
  <2>2. CASE ~Server!Starts
    BY <1>1, <1>2, <2>2 DEF TextOK
  <2> QED
    BY <2>1, <2>2
<1> QED
  BY <1>1, <1>2, <1>6, <1>7, <1>8, <1>9 DEF ServerInv, Server!AnswersAreFresh

(* A request times out, or its process is gone.                                    *)
LEMMA ToolIsFailed ==
  ASSUME ServerInv, (\E s \in DOMAIN unanswered : Server!TimesOut(s)) \/ (\E p \in Server!Processes : Server!Exit(p))
  PROVE  ServerInv'
<1>1. ServerTypes /\ SpawnedOK /\ MatchOK /\ PendingOK /\ TextOK /\ Server!AnswersAreFresh
  BY DEF ServerInv
<1>2. /\ UNCHANGED <<startPromise, block, proc, seq, buffer, inbox, stdout, spawned, wides, answers>>
      /\ \/ UNCHANGED <<unanswered, state, awaits, started>>
         \/ \E seqs : Server!FailPending(seqs) /\ (started' = started \/ (started' = FALSE /\ DOMAIN unanswered \subseteq seqs))
  <2>1. ASSUME NEW s \in DOMAIN unanswered, Server!TimesOut(s)
        PROVE  /\ UNCHANGED <<startPromise, block, proc, started, seq, buffer, inbox, stdout, spawned, wides, answers>>
               /\ Server!FailPending({s})
    BY <2>1 DEF Server!TimesOut, Server!server
  <2>2. ASSUME NEW p \in Server!Processes, Server!Exit(p)
        PROVE  /\ UNCHANGED <<startPromise, block, proc, seq, buffer, inbox, stdout, spawned, wides, answers>>
               /\ \/ Server!FailPending(DOMAIN unanswered) /\ started' = FALSE
                  \/ UNCHANGED <<unanswered, state, awaits, started>>
    BY <2>2 DEF Server!Exit
  <2> QED
    BY <2>1, <2>2
<1>3. /\ MatchOK' /\ PendingOK' /\ awaits' \in [TsTools -> SUBSET Nat]
      /\ state' \in [TsTools -> {"idle", "opening", "asking", "answered", "failed"}]
      /\ (~startPromise => \A t \in TsTools : state'[t] = "idle") /\ started' \in BOOLEAN /\ (started' => started)
  <2>1. CASE UNCHANGED <<unanswered, state, awaits, started>>
    <3>1. MatchOK' /\ PendingOK'
      BY <1>1, <1>2, <2>1 DEF MatchOK, PendingOK, Server!Settled
    <3> QED
      BY <1>1, <2>1, <3>1 DEF ServerTypes, SpawnedOK
  <2>2. ASSUME NEW seqs, Server!FailPending(seqs),
               started' = started \/ (started' = FALSE /\ DOMAIN unanswered \subseteq seqs)
        PROVE  /\ MatchOK' /\ PendingOK' /\ awaits' \in [TsTools -> SUBSET Nat]
               /\ state' \in [TsTools -> {"idle", "opening", "asking", "answered", "failed"}]
               /\ (~startPromise => \A t \in TsTools : state'[t] = "idle") /\ started' \in BOOLEAN /\ (started' => started)
    <3>1. ~started' => DOMAIN unanswered \subseteq seqs
      BY <1>1, <2>2 DEF PendingOK
    <3>2. started' \in BOOLEAN /\ (started' => started)
      <4>1. started \in BOOLEAN
        BY <1>1 DEF ServerTypes
      <4>2. CASE started' = started
        BY <4>1, <4>2
      <4>3. CASE started' = FALSE
        BY <4>3
      <4> QED
        BY <2>2, <4>2, <4>3
    <3> QED
      BY <1>1, <1>2, <2>2, <3>1, <3>2, RequestsFail
  <2> QED
    BY <1>2, <2>1, <2>2
<1>4. ServerTypes' /\ SpawnedOK'
  BY <1>1, <1>2, <1>3 DEF ServerTypes, SpawnedOK
<1>5. TextOK' /\ Server!AnswersAreFresh'
  BY <1>1, <1>2 DEF TextOK, Server!AnswersAreFresh
<1> QED
  BY <1>3, <1>4, <1>5 DEF ServerInv

(* A process answers.                                                               *)
LEMMA ProcessAnswers ==
  ASSUME ServerInv, NEW p \in Server!Processes, NEW wide \in BOOLEAN, Server!Answer(p, wide)
  PROVE  ServerInv'
<1> DEFINE a == Server!LengthLine(Head(inbox[p]), IF wide THEN 2 ELSE 1)
           b == Server!HeaderEnd
           c == Server!Body(Head(inbox[p]))
<1>1. ServerTypes /\ SpawnedOK /\ MatchOK /\ PendingOK /\ TextOK /\ Server!AnswersAreFresh
  BY DEF ServerInv
<1>2. /\ p = proc /\ inbox[p] # <<>>
      /\ stdout' = [stdout EXCEPT ![p] = @ \o <<a, b, c>>] /\ inbox' = [inbox EXCEPT ![p] = Tail(@)]
      /\ wides' = (IF wide THEN wides + 1 ELSE wides)
      /\ UNCHANGED <<startPromise, block, state, awaits, proc, started, seq, unanswered, openFiles, buffer, spawned, answers>>
  BY DEF Server!Answer, Server!bridge
<1>3. inbox[p] \in Seq(Nat) /\ stdout[p] \in Seq(Text) /\ wides \in Nat
  BY <1>1 DEF ServerTypes
<1>4. /\ a \in Text /\ b \in Text /\ c \in Text /\ a.t = "L" /\ b.t = "E" /\ c.t = "B" /\ (~wide => a.need = 1)
      /\ Tail(inbox[p]) \in Seq(Nat)
  <2>1. Head(inbox[p]) \in Nat /\ Tail(inbox[p]) \in Seq(Nat)
    BY <1>2, <1>3
  <2> QED
    BY <2>1 DEF Text, Server!LengthLine, Server!HeaderEnd, Server!Body
<1> HIDE DEF a, b, c
<1>5. /\ stdout[p] \o <<a, b, c>> \in Seq(Text) /\ Framed(stdout[p] \o <<a, b, c>>)
      /\ Len(stdout[p] \o <<a, b, c>>) % 3 = Len(stdout[p]) % 3
      /\ (Narrow(stdout[p]) /\ ~wide => Narrow(stdout[p] \o <<a, b, c>>))
  <2>1. Framed(stdout[p])
    BY <1>1 DEF TextOK
  <2> QED
    BY <1>3, <1>4, <2>1, FrameAdded
<1>6. ServerTypes'
  <2>1. stdout' \in [Server!Processes -> Seq(Text)] /\ inbox' \in [Server!Processes -> Seq(Nat)]
    BY <1>1, <1>2, <1>4, <1>5 DEF ServerTypes
  <2> QED
    BY <1>1, <1>2, <2>1 DEF ServerTypes
<1>7. SpawnedOK'
  <2>1. spawned = p /\ p \in Nat
    BY <1>1, <1>2, ServerNumbers DEF SpawnedOK
  <2>2. \A o \in Server!Processes : o > spawned => stdout'[o] = stdout[o]
    BY <1>2, <2>1, ServerNumbers
  <2> QED
    BY <1>1, <1>2, <2>2 DEF SpawnedOK
<1>8. MatchOK' /\ PendingOK' /\ Server!AnswersAreFresh'
  BY <1>1, <1>2 DEF MatchOK, PendingOK, Server!Settled, Server!AnswersAreFresh
<1>9. TextOK'
  <2>1. \A o \in Server!Processes : stdout'[o] = IF o = p THEN stdout[p] \o <<a, b, c>> ELSE stdout[o]
    BY <1>1, <1>2 DEF ServerTypes
  <2>2. wides' = 0 => wides = 0 /\ ~wide
    BY <1>2, <1>3
  <2>3. \A o \in Server!Processes : Framed(stdout'[o])
    BY <1>1, <1>5, <2>1 DEF TextOK
  <2>4. wides' = 0 => Narrow(stdout'[p]) /\ Len(stdout'[p]) % 3 = Len(stdout[p]) % 3
    <3>1. proc # Server!None
      BY <1>2, ServerNumbers
    <3>2. wides = 0 => Narrow(stdout[p])
      BY <1>1, <1>2, <3>1 DEF TextOK
    <3>3. stdout'[p] = stdout[p] \o <<a, b, c>>
      BY <2>1
    <3> QED
      BY <1>5, <2>2, <3>2, <3>3, Zenon
  <2> QED
    BY <1>1, <1>2, <2>2, <2>3, <2>4 DEF TextOK
<1> QED
  BY <1>6, <1>7, <1>8, <1>9 DEF ServerInv

(* An answer resolves the request it is of.                                          *)
LEMMA RequestResolved ==
  ASSUME ServerInv, NEW p \in Server!Processes, p = proc, proc' = proc, NEW s \in DOMAIN unanswered,
         Server!Resolve(s, p), UNCHANGED <<startPromise, block, started>>
  PROVE  /\ MatchOK' /\ PendingOK' /\ Server!AnswersAreFresh'
         /\ seq' \in Nat /\ inbox' \in [Server!Processes -> Seq(Nat)] /\ awaits' \in [TsTools -> SUBSET Nat]
         /\ state' \in [TsTools -> {"idle", "opening", "asking", "answered", "failed"}]
<1> DEFINE t == unanswered[s]  rest == Server!Without({s})
<1>1. ServerTypes /\ SpawnedOK /\ MatchOK /\ PendingOK
  BY DEF ServerInv
<1>2. t \in TsTools /\ s \in awaits[t] /\ started
  BY <1>1 DEF MatchOK, PendingOK
<1>3. p = block
  BY <1>1, ServerNumbers DEF SpawnedOK
<1>4. answers' = {[mine |-> s \in awaits[t], by |-> p, block |-> block]}
  BY DEF Server!Resolve
<1>5. Server!AnswersAreFresh'
  <2>1. \A a \in answers' : a.mine /\ a.by = a.block
    <3> TAKE a \in answers'
    <3>1. a = [mine |-> s \in awaits[t], by |-> p, block |-> block]
      BY <1>4
    <3> QED
      BY <1>2, <1>3, <3>1
  <2> QED
    BY <2>1 DEF Server!AnswersAreFresh
<1>6. DOMAIN rest = DOMAIN unanswered \ {s} /\ \A r \in DOMAIN unanswered \ {s} : rest[r] = unanswered[r]
  BY DEF Server!Without
<1>7. CASE state[t] = "opening"
  <2>1. state' = [state EXCEPT ![t] = "asking"] /\ Server!Sent(t, Requests[t], seq, rest)
    BY <1>7 DEF Server!Resolve
  <2>2. \A r \in awaits[t] : r = s
    BY <1>1, <1>2, <1>7 DEF PendingOK
  <2>3. \A r \in DOMAIN rest : r \in 1..seq /\ rest[r] \in TsTools /\ rest[r] # t /\ r \in awaits[rest[r]]
    BY <1>1, <1>6, <2>2 DEF MatchOK
  <2>4. \A u \in TsTools : u # t => \A r \in awaits[u] : r \in DOMAIN rest /\ rest[r] = u
    BY <1>1, <1>2, <1>6 DEF MatchOK
  <2>5. proc' \in Server!Processes /\ Requests[t] \in Nat /\ Requests[t] > 0 /\ seq \in Nat
    BY <1>1, <1>2, ServerNumbers DEF ServerTypes
  <2> HIDE DEF t, rest
  <2>6. /\ MatchOK' /\ seq' \in Nat /\ inbox' \in [Server!Processes -> Seq(Nat)] /\ awaits' \in [TsTools -> SUBSET Nat]
        /\ awaits'[t] # {} /\ \A u \in TsTools : u # t => awaits'[u] = awaits[u]
    BY <1>1, <1>2, <2>1, <2>3, <2>4, <2>5, RequestsSent
  <2>7. /\ state' \in [TsTools -> {"idle", "opening", "asking", "answered", "failed"}]
        /\ state'[t] = "asking" /\ \A u \in TsTools : u # t => state'[u] = state[u]
    BY <1>1, <1>2, <2>1 DEF ServerTypes
  <2>8. PendingOK'
    BY <1>1, <1>2, <2>6, <2>7 DEF PendingOK, Server!Settled
  <2> QED
    BY <1>5, <2>6, <2>7, <2>8
<1>8. CASE state[t] # "opening"
  <2>1. /\ unanswered' = rest /\ awaits' = [awaits EXCEPT ![t] = @ \ {s}] /\ UNCHANGED <<seq, inbox>>
        /\ state' = [state EXCEPT ![t] = IF @ = "asking" /\ awaits[t] = {s} THEN "answered" ELSE @]
    BY <1>8 DEF Server!Resolve
  <2> HIDE DEF t, rest
  <2>2. /\ awaits' \in [TsTools -> SUBSET Nat] /\ awaits'[t] = awaits[t] \ {s}
        /\ \A u \in TsTools : u # t => awaits'[u] = awaits[u]
    BY <1>1, <1>2, <2>1 DEF ServerTypes
  <2>3. /\ state' \in [TsTools -> {"idle", "opening", "asking", "answered", "failed"}]
        /\ state'[t] = IF state[t] = "asking" /\ awaits[t] = {s} THEN "answered" ELSE state[t]
        /\ \A u \in TsTools : u # t => state'[u] = state[u]
    BY <1>1, <1>2, <2>1 DEF ServerTypes
  <2>4. s \in DOMAIN unanswered /\ unanswered[s] = t
    BY DEF t
  <2>5. MatchOK'
    <3>1. \A r \in DOMAIN unanswered' : r \in 1..seq' /\ unanswered'[r] \in TsTools /\ r \in awaits'[unanswered'[r]]
      BY <1>1, <1>6, <2>1, <2>2 DEF MatchOK
    <3>2. \A u \in TsTools : \A r \in awaits'[u] : r \in DOMAIN unanswered' /\ unanswered'[r] = u
      BY <1>1, <1>6, <2>1, <2>2, <2>4 DEF MatchOK
    <3> QED
      BY <3>1, <3>2 DEF MatchOK
  <2>6. PendingOK'
    <3>1. \A u \in TsTools : ~(Server!Settled(u)') => awaits'[u] # {}
      <4> TAKE u \in TsTools
      <4>1. CASE u # t
        BY <1>1, <2>2, <2>3, <4>1 DEF PendingOK, Server!Settled
      <4>2. CASE u = t
        <5>1. state'[t] \notin {"idle", "answered", "failed"} => state[t] = "asking" /\ awaits[t] # {s}
          BY <1>1, <1>2, <1>8, <2>3 DEF ServerTypes
        <5> QED
          BY <1>2, <2>2, <4>2, <5>1 DEF Server!Settled
      <4> QED
        BY <4>1, <4>2
    <3>2. \A u \in TsTools : state'[u] = "idle" => awaits'[u] = {}
      BY <1>1, <2>2, <2>3 DEF PendingOK
    <3>3. \A u \in TsTools : state'[u] = "opening" => \A r, q \in awaits'[u] : r = q
      BY <1>1, <1>8, <2>2, <2>3 DEF PendingOK
    <3> QED
      BY <1>2, <3>1, <3>2, <3>3 DEF PendingOK
  <2> QED
    BY <1>1, <1>5, <2>1, <2>2, <2>3, <2>5, <2>6 DEF ServerTypes
<1> QED
  BY <1>7, <1>8

(* A piece of text is heard, or is a dead process's.                                  *)
LEMMA TextHeard ==
  ASSUME ServerInv, NEW p \in Server!Processes, Server!Data(p)
  PROVE  ServerInv'
<1> DEFINE q == stdout[p]
           piece == Server!Piece(q)
           r == SubSeq(q, Len(piece) + 1, Len(q))
           parsed == Server!ProcessBuffer(buffer \o piece)
<1>1. ServerTypes /\ SpawnedOK /\ MatchOK /\ PendingOK /\ TextOK /\ Server!AnswersAreFresh
  BY DEF ServerInv
<1>2. /\ q # <<>> /\ stdout' = [stdout EXCEPT ![p] = r]
      /\ UNCHANGED <<proc, startPromise, block, started, alive, spawned, deaths, wides>>
      /\ p = proc => /\ buffer' = parsed.rest
                     /\ \/ parsed.answer \in DOMAIN unanswered /\ Server!Resolve(parsed.answer, p)
                        \/ UNCHANGED <<state, awaits, unanswered, openFiles, seq, inbox, answers>>
      /\ p # proc => UNCHANGED <<buffer, state, awaits, unanswered, openFiles, seq, inbox, answers>>
  BY DEF Server!Data, Server!Hears
<1>3. q \in Seq(Text) /\ Framed(q)
  BY <1>1 DEF ServerTypes, TextOK
<1>4. /\ r \in Seq(Text) /\ Framed(r) /\ (Narrow(q) => Narrow(r)) /\ piece \in Seq(Text)
      /\ \/ /\ Len(q) % 3 = 0 /\ Len(r) % 3 = 1 /\ Len(piece) = 2
            /\ piece[1] = q[1] /\ piece[1].t = "L" /\ piece[2].t = "E"
         \/ Len(q) % 3 = 1 /\ Len(r) % 3 = 0 /\ Len(piece) = 1 /\ piece[1].t = "B"
  BY <1>2, <1>3, PieceTaken
<1>5. Len(q) \in Nat /\ Len(q) > 0
  BY <1>2, <1>3
<1>6. wides = 0 /\ p = proc =>
        /\ Len(r) % 3 = 0 => buffer' = <<>>
        /\ Len(r) % 3 = 1 =>
             buffer' \in Seq(Text) /\ Len(buffer') = 2 /\ buffer'[1].t = "L" /\ buffer'[1].need = 1 /\ buffer'[2].t = "E"
  <2> SUFFICES ASSUME wides = 0, p = proc
               PROVE  /\ Len(r) % 3 = 0 => buffer' = <<>>
                      /\ Len(r) % 3 = 1 => buffer' \in Seq(Text) /\ Len(buffer') = 2 /\ buffer'[1].t = "L"
                                           /\ buffer'[1].need = 1 /\ buffer'[2].t = "E"
    OBVIOUS
  <2>0. proc # Server!None
    BY ServerNumbers
  <2>1. /\ Narrow(q) /\ (Len(q) % 3 = 0 => buffer = <<>>)
        /\ Len(q) % 3 = 1 =>
             buffer \in Seq(Text) /\ Len(buffer) = 2 /\ buffer[1].t = "L" /\ buffer[1].need = 1 /\ buffer[2].t = "E"
    BY <1>1, <2>0 DEF TextOK
  <2>2. buffer' = parsed.rest
    BY <1>2
  <2> HIDE DEF q, r, piece
  <2>3. CASE Len(q) % 3 = 0
    <3>1. Len(r) % 3 = 1 /\ Len(piece) = 2 /\ piece[1] = q[1] /\ piece[1].t = "L" /\ piece[2].t = "E"
      BY <1>4, <2>3
    <3>2. piece[1].need = 1
      BY <1>5, <2>1, <3>1 DEF Narrow
    <3>3. buffer \o piece = piece
      BY <1>4, <2>1, <2>3
    <3>4. parsed.rest = piece
      BY <1>4, <3>1, <3>2, <3>3, HeaderKept
    <3> QED
      BY <1>4, <2>2, <3>1, <3>2, <3>4
  <2>4. CASE Len(q) % 3 = 1
    <3>1. Len(r) % 3 = 0 /\ Len(piece) = 1 /\ piece[1].t = "B" /\ piece \in Seq(Text)
      BY <1>4, <2>4
    <3>2. buffer \in Seq(Text) /\ Len(buffer) = 2 /\ buffer[1].t = "L" /\ buffer[1].need = 1 /\ buffer[2].t = "E"
      BY <2>1, <2>4
    <3> DEFINE text == buffer \o piece
    <3>3. /\ text \in Seq(Text) /\ Len(text) = 3 /\ text[1] = buffer[1] /\ text[2] = buffer[2] /\ text[3] = piece[1]
      BY <3>1, <3>2, HeaderThenBody
    <3> HIDE DEF text
    <3>4. Server!ProcessBuffer(text).rest = <<>>
      BY <3>1, <3>2, <3>3, AnswerRead
    <3> QED
      BY <2>2, <3>1, <3>4 DEF text
  <2> QED
    BY <1>4, <2>3, <2>4
<1>7. /\ MatchOK' /\ PendingOK' /\ Server!AnswersAreFresh'
      /\ seq' \in Nat /\ inbox' \in [Server!Processes -> Seq(Nat)] /\ awaits' \in [TsTools -> SUBSET Nat]
      /\ state' \in [TsTools -> {"idle", "opening", "asking", "answered", "failed"}]
  <2>1. CASE UNCHANGED <<state, awaits, unanswered, openFiles, seq, inbox, answers>>
    <3>1. MatchOK' /\ PendingOK' /\ Server!AnswersAreFresh'
      BY <1>1, <1>2, <2>1 DEF MatchOK, PendingOK, Server!Settled, Server!AnswersAreFresh
    <3> QED
      BY <1>1, <2>1, <3>1 DEF ServerTypes
  <2>2. CASE p = proc /\ parsed.answer \in DOMAIN unanswered /\ Server!Resolve(parsed.answer, p)
    <3> HIDE DEF parsed
    <3> QED
      BY <1>2, <2>2, RequestResolved
  <2> QED
    BY <1>2, <2>1, <2>2
<1> HIDE DEF q, r, piece, parsed
<1>8. \A o \in Server!Processes : stdout'[o] = IF o = p THEN r ELSE stdout[o]
  BY <1>1, <1>2 DEF ServerTypes
<1>9. ServerTypes'
  <2>1. stdout' \in [Server!Processes -> Seq(Text)]
    BY <1>1, <1>2, <1>4 DEF ServerTypes
  <2> QED
    BY <1>1, <1>2, <1>7, <2>1 DEF ServerTypes
<1>10. SpawnedOK'
  <2>1. ~(p > spawned)
    BY <1>1, <1>2 DEF SpawnedOK, q
  <2>2. ~startPromise => \A t \in TsTools : state'[t] = "idle"
    <3>1. ~startPromise => p # proc
      BY <1>1, ServerNumbers DEF SpawnedOK
    <3> QED
      BY <1>1, <1>2, <3>1 DEF SpawnedOK
  <2> QED
    BY <1>1, <1>2, <1>8, <2>1, <2>2 DEF SpawnedOK
<1>11. TextOK'
  <2>1. \A o \in Server!Processes : Framed(stdout'[o])
    BY <1>1, <1>4, <1>8 DEF TextOK
  <2>2. CASE p = proc
    <3>1. stdout'[proc] = r /\ proc' = proc /\ wides' = wides
      BY <1>2, <1>8, <2>2
    <3>2. wides = 0 => Narrow(q)
      <4>1. proc # Server!None
        BY <2>2, ServerNumbers
      <4> QED
        BY <1>1, <2>2, <4>1 DEF TextOK, q
    <3> QED
      BY <1>4, <1>6, <2>1, <2>2, <3>1, <3>2 DEF TextOK
  <2>3. CASE p # proc
    <3>1. proc # Server!None => proc \in Server!Processes
      BY <1>1, ServerNumbers DEF SpawnedOK, ServerTypes
    <3>2. proc # Server!None => stdout'[proc] = stdout[proc]
      BY <1>8, <2>3, <3>1
    <3> QED
      BY <1>1, <1>2, <2>1, <2>3, <3>2 DEF TextOK
  <2> QED
    BY <2>2, <2>3
<1> QED
  BY <1>7, <1>9, <1>10, <1>11 DEF ServerInv

LEMMA BlockIsOver == ASSUME ServerInv, Server!BlockEnded PROVE ServerInv'
<1>1. ServerTypes /\ SpawnedOK /\ MatchOK /\ PendingOK /\ TextOK /\ Server!AnswersAreFresh
  BY DEF ServerInv
<1>2. /\ block < MaxBlocks /\ block' = block + 1 /\ ~startPromise' /\ startPromise' \in BOOLEAN
      /\ proc' = Server!None /\ ~started' /\ started' \in BOOLEAN
      /\ unanswered' = <<>> /\ inbox' = [p \in Server!Processes |-> <<>>]
      /\ state' = [t \in TsTools |-> "idle"] /\ awaits' = [t \in TsTools |-> {}]
      /\ UNCHANGED <<seq, buffer, stdout, spawned, wides, answers>> /\ \E t \in TsTools : state[t] # "idle"
  BY DEF Server!BlockEnded
<1>3. ServerTypes'
  <2>1. /\ state' \in [TsTools -> {"idle", "opening", "asking", "answered", "failed"}] /\ awaits' \in [TsTools -> SUBSET Nat]
        /\ inbox' \in [Server!Processes -> Seq(Nat)]
    BY <1>2
  <2>2. block' \in 1..MaxBlocks
    BY <1>1, <1>2, ServerNumbers DEF ServerTypes
  <2> QED
    BY <1>1, <1>2, <2>1, <2>2 DEF ServerTypes
<1>4. SpawnedOK'
  <2>1. startPromise /\ spawned = block /\ block \in Nat
    BY <1>1, <1>2 DEF SpawnedOK, ServerTypes
  <2> QED
    BY <1>1, <1>2, <2>1 DEF SpawnedOK
<1>5. MatchOK' /\ PendingOK'
  BY <1>2 DEF MatchOK, PendingOK, Server!Settled
<1>6. TextOK' /\ Server!AnswersAreFresh'
  BY <1>1, <1>2 DEF TextOK, Server!AnswersAreFresh
<1> QED
  BY <1>3, <1>4, <1>5, <1>6 DEF ServerInv

LEMMA ServerStepKeeps == ASSUME ServerInv, Server!Next PROVE ServerInv'
  BY ToolBegins, ToolIsFailed, ProcessAnswers, TextHeard, BlockIsOver DEF Server!Next

LEMMA ServerStutterKeeps == ASSUME ServerInv, UNCHANGED Server!vars PROVE ServerInv'
<1> USE DEF Server!vars, Server!bridge, Server!server
<1>1. ServerTypes' /\ SpawnedOK' /\ MatchOK'
  BY DEF ServerInv, ServerTypes, SpawnedOK, MatchOK
<1>2. PendingOK' /\ TextOK' /\ Server!AnswersAreFresh'
  BY DEF ServerInv, PendingOK, TextOK, Server!Settled, Server!AnswersAreFresh
<1> QED
  BY <1>1, <1>2 DEF ServerInv

LEMMA ServerInvIsEnough == ASSUME ServerInv PROVE Server!TypeServerSound
<1>1. ServerTypes /\ SpawnedOK /\ MatchOK /\ PendingOK /\ TextOK /\ Server!AnswersAreFresh
  BY DEF ServerInv
<1>2. Server!NobodyIsLeft
  <2>1. started => startPromise /\ proc # Server!None
    BY <1>1, ServerNumbers DEF SpawnedOK, ServerTypes
  <2>2. \A t \in TsTools : ~Server!Settled(t) => awaits[t] # {} /\ awaits[t] \subseteq DOMAIN unanswered
    BY <1>1 DEF MatchOK, PendingOK
  <2>3. \A s \in DOMAIN unanswered : s \in awaits[unanswered[s]] /\ s <= seq
    BY <1>1 DEF MatchOK, ServerTypes
  <2> QED
    BY <1>1, <2>1, <2>2, <2>3 DEF Server!NobodyIsLeft, PendingOK
<1>3. Server!OneServerABlock
  BY <1>1, ServerNumbers DEF Server!OneServerABlock, SpawnedOK, ServerTypes
<1>4. Server!FramesAlign
  BY <1>1 DEF Server!FramesAlign, TextOK
<1> QED
  BY <1>1, <1>2, <1>3, <1>4 DEF Server!TypeServerSound

-----------------------------------------------------------------------------
(* The request.  It is a function of the options and the conversation, so the *)
(* invariant is that it was made of them, and all the rest is about what that *)
(* function does: it marks the points of a set in a copy of the conversation,  *)
(* then puts into one message what goes with this request only.               *)

(* Sequences as functions on 1..n, of whatever values. *)
Rows(n, f) == n \in Nat /\ \E S : f \in [1..n -> S]

LEMMA RowsAreSeq ==
  ASSUME NEW n, NEW f, Rows(n, f)
  PROVE n \in Nat /\ Len(f) = n /\ DOMAIN f = 1..n /\ f = [i \in 1..n |-> f[i]]
<1>1. PICK S : f \in [1..n -> S]
  BY DEF Rows
<1>2. f \in Seq(S)
  BY <1>1, SeqDef DEF Rows
<1>3. DOMAIN f = 1..n /\ f = [i \in 1..n |-> f[i]] /\ n \in Nat
  BY <1>1 DEF Rows
<1>4. DOMAIN f = 1..Len(f) /\ Len(f) \in Nat
  BY <1>2, LenProperties
<1>5. Len(f) = n
  BY <1>3, <1>4
<1> QED
  BY <1>3, <1>5

LEMMA SeqIsRows == ASSUME NEW f, Body!IsSeq(f) PROVE Rows(Len(f), f)
  BY LenProperties DEF Rows, Body!IsSeq

LEMMA RowsOf == ASSUME NEW n \in Nat, NEW f, DOMAIN f = 1..n, f = [i \in DOMAIN f |-> f[i]] PROVE Rows(n, f)
<1>1. f \in [1..n -> {f[i] : i \in 1..n}]
  OBVIOUS
<1> QED
  BY <1>1 DEF Rows

(* One place changed. *)
Put(f, k, x) == [f EXCEPT ![k] = x]

LEMMA RowsChanged ==
  ASSUME NEW n, NEW f, Rows(n, f), NEW k \in 1..n, NEW x
  PROVE /\ Rows(n, Put(f, k, x)) /\ Put(f, k, x)[k] = x /\ \A i \in 1..n : i # k => Put(f, k, x)[i] = f[i]
        /\ Put(f, k, x) = [i \in 1..n |-> IF i = k THEN x ELSE f[i]]
<1> DEFINE g == Put(f, k, x)
<1>1. PICK S : f \in [1..n -> S] /\ n \in Nat
  BY DEF Rows
<1>2. g \in [1..n -> S \cup {x}] /\ g[k] = x /\ \A i \in 1..n : i # k => g[i] = f[i]
  BY <1>1 DEF Put
<1>3. g = [i \in 1..n |-> IF i = k THEN x ELSE f[i]]
  BY <1>1 DEF Put
<1> QED
  BY <1>1, <1>2, <1>3 DEF Rows

(* The greatest and the least of a set of places, and with them the last and  *)
(* the first message of the user, which depend on the roles alone.             *)
LEMMA LeastOf == ASSUME NEW S \in SUBSET Nat, S # {} PROVE \E least \in S : \A n \in S : least <= n
<1>1. \E least \in S : \A n \in S : <<n, least>> \notin OpToRel(<, Nat)
  BY NatLessThanWellFounded, WFMin
<1>2. PICK least \in S : \A n \in S : <<n, least>> \notin OpToRel(<, Nat)
  BY <1>1
<1>3. ASSUME NEW n \in S PROVE least <= n
  <2>1. n \in Nat /\ least \in Nat /\ ~(n < least)
    BY <1>2 DEF OpToRel
  <2> QED
    BY <2>1
<1> QED
  BY <1>2, <1>3

LEMMA MaxIsGreatest ==
  ASSUME NEW n \in Nat, NEW S \in SUBSET (1..n), S # {}
  PROVE Body!Seqs!Max(S) \in S
<1>1. PICK least \in {n - k : k \in S} : \A m \in {n - k : k \in S} : least <= m
  <2>1. {n - k : k \in S} \in SUBSET Nat /\ {n - k : k \in S} # {}
    <3>1. \A k \in S : n - k \in Nat
      OBVIOUS
    <3> QED
      BY <3>1
  <2> QED
    BY <2>1, LeastOf
<1>2. n - least \in S /\ \A k \in S : n - least >= k
  <2>1. PICK k \in S : least = n - k
    BY <1>1
  <2>2. n - least = k
    BY <2>1
  <2>3. ASSUME NEW i \in S PROVE n - least >= i
    <3>1. least <= n - i
      BY <1>1
    <3> QED
      BY <2>1, <3>1
  <2> QED
    BY <2>2, <2>3
<1> QED
  BY <1>2 DEF Body!Seqs!Max

LEMMA MinIsLeast ==
  ASSUME NEW n \in Nat, NEW S \in SUBSET (1..n), S # {}
  PROVE Body!Seqs!Min(S) \in S
<1>1. \E least \in S : \A m \in S : least <= m
  BY LeastOf
<1> QED
  BY <1>1 DEF Body!Seqs!Min

UsersIn(c) == {i \in 1..Len(c) : c[i].role = "user"}

LEMMA UsersFound ==
  ASSUME NEW c, Len(c) \in Nat
  PROVE Body!LastUser(c) \in 0..Len(c) /\ Body!FirstUser(c) \in 0..Len(c)
<1>1. /\ Body!LastUser(c) = IF UsersIn(c) # {} THEN Body!Seqs!Max(UsersIn(c)) ELSE 0
      /\ Body!FirstUser(c) = IF UsersIn(c) # {} THEN Body!Seqs!Min(UsersIn(c)) ELSE 0
  BY DEF Body!LastUser, Body!FirstUser, UsersIn, Body!Seqs!SelectLastInSeq, Body!Seqs!SelectInSeq
<1>2. UsersIn(c) \in SUBSET (1..Len(c))
  BY DEF UsersIn
<1>3. CASE UsersIn(c) = {}
  BY <1>1, <1>3
<1>4. CASE UsersIn(c) # {}
  <2>1. Body!Seqs!Max(UsersIn(c)) \in UsersIn(c) /\ Body!Seqs!Min(UsersIn(c)) \in UsersIn(c)
    BY <1>2, <1>4, MaxIsGreatest, MinIsLeast
  <2> QED
    BY <1>1, <1>2, <1>4, <2>1
<1> QED
  BY <1>3, <1>4

LEMMA UsersByRole ==
  ASSUME NEW c, NEW d, Len(c) = Len(d), \A i \in 1..Len(c) : c[i].role = d[i].role
  PROVE Body!LastUser(c) = Body!LastUser(d) /\ Body!FirstUser(c) = Body!FirstUser(d)
<1>1. UsersIn(c) = UsersIn(d)
  BY DEF UsersIn
<1>2. ASSUME NEW x PROVE /\ Body!LastUser(x) = IF UsersIn(x) # {} THEN Body!Seqs!Max(UsersIn(x)) ELSE 0
                         /\ Body!FirstUser(x) = IF UsersIn(x) # {} THEN Body!Seqs!Min(UsersIn(x)) ELSE 0
  BY DEF Body!LastUser, Body!FirstUser, UsersIn, Body!Seqs!SelectLastInSeq, Body!Seqs!SelectInSeq
<1> QED
  BY <1>1, <1>2

(* Blocks copied, those of a set of points marked; a conversation so copied.      *)
Thought == {"thinking", "redacted_thinking"}
Copy(blocks, i, ttl, points) ==
  [j \in 1..Len(blocks) |-> IF <<i, j>> \in points THEN Body!Cached(blocks[j], ttl) ELSE blocks[j]]
MarkedBy(m, c, ttl, points) ==
  /\ Rows(Len(c), m)
  /\ \A i \in 1..Len(c) : \E bare : m[i] = [role |-> c[i].role, bare |-> bare, blocks |-> Copy(c[i].blocks, i, ttl, points)]

LEMMA CopyIsRows ==
  ASSUME NEW blocks, Rows(Len(blocks), blocks), NEW i, NEW ttl, NEW points
  PROVE /\ Rows(Len(blocks), Copy(blocks, i, ttl, points)) /\ Len(Copy(blocks, i, ttl, points)) = Len(blocks)
        /\ (\A j \in 1..Len(blocks) : <<i, j>> \notin points) => Copy(blocks, i, ttl, points) = blocks
<1> DEFINE copy == Copy(blocks, i, ttl, points)
<1>1. Len(blocks) \in Nat /\ blocks = [j \in 1..Len(blocks) |-> blocks[j]]
  BY RowsAreSeq
<1>2. DOMAIN copy = 1..Len(blocks) /\ copy = [j \in DOMAIN copy |-> copy[j]]
  BY DEF Copy
<1>3. Rows(Len(blocks), copy)
  <2> HIDE DEF copy
  <2> QED
    BY <1>1, <1>2, RowsOf
<1>4. (\A j \in 1..Len(blocks) : <<i, j>> \notin points) => copy = blocks
  BY <1>1 DEF Copy
<1> QED
  BY <1>3, <1>4, RowsAreSeq

LEMMA MarkedKeepsShape ==
  ASSUME NEW m, NEW c, NEW ttl, NEW points, MarkedBy(m, c, ttl, points)
  PROVE /\ Len(m) = Len(c) /\ DOMAIN m = 1..Len(c) /\ Len(c) \in Nat
        /\ \A i \in 1..Len(c) : m[i].role = c[i].role /\ m[i].blocks = Copy(c[i].blocks, i, ttl, points)
<1>1. Len(m) = Len(c) /\ DOMAIN m = 1..Len(c) /\ Len(c) \in Nat
  BY RowsAreSeq DEF MarkedBy
<1>2. ASSUME NEW i \in 1..Len(c) PROVE m[i].role = c[i].role /\ m[i].blocks = Copy(c[i].blocks, i, ttl, points)
  <2>1. PICK bare : m[i] = [role |-> c[i].role, bare |-> bare, blocks |-> Copy(c[i].blocks, i, ttl, points)]
    BY DEF MarkedBy
  <2> QED
    BY <2>1
<1> QED
  BY <1>1, <1>2

LEMMA ConversationShape ==
  ASSUME NEW c, Body!IsConversation(c)
  PROVE /\ Rows(Len(c), c) /\ Len(c) \in Nat /\ DOMAIN c = 1..Len(c)
        /\ \A i \in 1..Len(c) : /\ Body!IsMessage(c[i]) /\ Rows(Len(c[i].blocks), c[i].blocks)
                                /\ Len(c[i].blocks) \in Nat /\ DOMAIN c[i].blocks = 1..Len(c[i].blocks)
                                /\ c[i] = [role |-> c[i].role, bare |-> c[i].bare, blocks |-> c[i].blocks]
                                /\ \A j \in 1..Len(c[i].blocks) : Body!IsBlock(c[i].blocks[j])
<1>1. Rows(Len(c), c)
  BY SeqIsRows DEF Body!IsConversation
<1>2. Len(c) \in Nat /\ DOMAIN c = 1..Len(c)
  BY <1>1, RowsAreSeq
<1>3. ASSUME NEW i \in 1..Len(c)
      PROVE /\ Body!IsMessage(c[i]) /\ Rows(Len(c[i].blocks), c[i].blocks)
            /\ Len(c[i].blocks) \in Nat /\ DOMAIN c[i].blocks = 1..Len(c[i].blocks)
            /\ c[i] = [role |-> c[i].role, bare |-> c[i].bare, blocks |-> c[i].blocks]
            /\ \A j \in 1..Len(c[i].blocks) : Body!IsBlock(c[i].blocks[j])
  <2>1. Body!IsMessage(c[i])
    BY <1>2 DEF Body!IsConversation
  <2>2. Rows(Len(c[i].blocks), c[i].blocks)
    BY <2>1, SeqIsRows DEF Body!IsMessage
  <2>3. Len(c[i].blocks) \in Nat /\ DOMAIN c[i].blocks = 1..Len(c[i].blocks)
    BY <2>2, RowsAreSeq
  <2> QED
    BY <2>1, <2>2, <2>3 DEF Body!IsMessage
<1> QED
  BY <1>1, <1>2, <1>3

LEMMA LastBlockMarked ==
  ASSUME NEW c, Body!IsConversation(c), NEW i \in 1..Len(c), NEW ttl
  PROVE \E spot \in 0..Len(c[i].blocks) :
          /\ spot # 0 => c[i].blocks[spot].kind \notin Thought
          /\ Body!AddCacheControlToLastBlock(c[i], ttl) =
               [role |-> c[i].role, bare |-> FALSE, blocks |-> Copy(c[i].blocks, i, ttl, {<<i, spot>>})]
<1> DEFINE blocks == c[i].blocks
           found == {j \in 1..Len(blocks) : blocks[j].kind \notin Thought}
           spot == IF found # {} THEN Body!Seqs!Max(found) ELSE 0
           marked == IF spot = 0 THEN blocks ELSE [blocks EXCEPT ![spot] = Body!Cached(blocks[spot], ttl)]
<1>1. /\ Rows(Len(blocks), blocks) /\ Len(blocks) \in Nat
      /\ c[i] = [role |-> c[i].role, bare |-> c[i].bare, blocks |-> blocks]
  BY ConversationShape
<1>2. spot \in 0..Len(blocks) /\ (spot # 0 => spot \in found)
  <2>1. found \in SUBSET (1..Len(blocks))
    OBVIOUS
  <2>2. CASE found = {}
    BY <1>1, <2>2
  <2>3. CASE found # {}
    <3>1. Body!Seqs!Max(found) \in found
      BY <1>1, <2>1, <2>3, MaxIsGreatest
    <3> QED
      BY <2>1, <2>3, <3>1
  <2> QED
    BY <2>2, <2>3
<1>3. Body!AddCacheControlToLastBlock(c[i], ttl) = [c[i] EXCEPT !.bare = FALSE, !.blocks = marked]
  BY DEF Body!AddCacheControlToLastBlock, Body!Seqs!SelectLastInSeq, Thought
<1> HIDE DEF spot
<1>4. marked = Copy(blocks, i, ttl, {<<i, spot>>})
  <2>1. blocks = [j \in 1..Len(blocks) |-> blocks[j]]
    BY <1>1, RowsAreSeq
  <2>2. CASE spot = 0
    <3>1. \A j \in 1..Len(blocks) : <<i, j>> \notin {<<i, spot>>}
      BY <2>2
    <3> QED
      BY <1>1, <2>2, <3>1, CopyIsRows
  <2>3. CASE spot # 0
    <3>1. spot \in 1..Len(blocks)
      BY <1>1, <1>2, <2>3
    <3>2. marked = [j \in 1..Len(blocks) |-> IF j = spot THEN Body!Cached(blocks[spot], ttl) ELSE blocks[j]]
      <4>1. marked = Put(blocks, spot, Body!Cached(blocks[spot], ttl))
        BY <2>3 DEF Put
      <4> HIDE DEF marked, blocks
      <4> QED
        BY <1>1, <3>1, <4>1, RowsChanged
    <3>3. \A j : <<i, j>> \in {<<i, spot>>} <=> j = spot
      OBVIOUS
    <3> HIDE DEF marked, blocks
    <3> QED
      BY <3>2, <3>3 DEF Copy
  <2> QED
    BY <2>2, <2>3
<1>5. Body!AddCacheControlToLastBlock(c[i], ttl) = [role |-> c[i].role, bare |-> FALSE, blocks |-> marked]
  <2> HIDE DEF marked
  <2> QED
    BY <1>1, <1>3
<1> QED
  BY <1>2, <1>4, <1>5

(* The moving breakpoint is one point of the last user message, or none.         *)
MovingMark(c, ttl, spot) ==
  LET u == Body!LastUser(c)   m == Body!CacheLastUserMessage(c, ttl) IN
  /\ MarkedBy(m, c, ttl, {<<u, spot>>})
  /\ (u # 0 /\ spot \in 1..Len(c[u].blocks)) => c[u].blocks[spot].kind \notin Thought
  /\ \A i \in 1..Len(c) : i # u => m[i] = c[i]

LEMMA LastUserMarked == ASSUME NEW c, Body!IsConversation(c), NEW ttl PROVE \E spot \in Nat : MovingMark(c, ttl, spot)
<1> DEFINE u == Body!LastUser(c)
           m == Body!CacheLastUserMessage(c, ttl)
<1>1. /\ Rows(Len(c), c) /\ Len(c) \in Nat
      /\ \A i \in 1..Len(c) : /\ Rows(Len(c[i].blocks), c[i].blocks) /\ Len(c[i].blocks) \in Nat
                              /\ c[i] = [role |-> c[i].role, bare |-> c[i].bare, blocks |-> c[i].blocks]
  BY ConversationShape
<1>2. u \in 0..Len(c)
  BY <1>1, UsersFound
<1>3. m = IF u = 0 THEN c ELSE [c EXCEPT ![u] = Body!AddCacheControlToLastBlock(c[u], ttl)]
  BY DEF Body!CacheLastUserMessage
<1> HIDE DEF u, m
<1>4. ASSUME NEW spot, NEW i \in 1..Len(c), i # u, m[i] = c[i]
      PROVE \E bare : m[i] = [role |-> c[i].role, bare |-> bare, blocks |-> Copy(c[i].blocks, i, ttl, {<<u, spot>>})]
  <2> DEFINE points == {<<u, spot>>}
  <2>1. \A j \in 1..Len(c[i].blocks) : <<i, j>> \notin points
    BY <1>4
  <2>2. Copy(c[i].blocks, i, ttl, points) = c[i].blocks
    <3> DEFINE blocks == c[i].blocks
    <3>1. Rows(Len(blocks), blocks)
      BY <1>1
    <3>2. \A j \in 1..Len(blocks) : <<i, j>> \notin points
      BY <2>1
    <3> HIDE DEF points, blocks
    <3>3. Copy(blocks, i, ttl, points) = blocks
      BY <3>1, <3>2, CopyIsRows
    <3> QED
      BY <3>3 DEF blocks
  <2> QED
    BY <1>1, <1>4, <2>2
<1>5. CASE u = 0
  <2>1. m = c
    BY <1>3, <1>5
  <2>2. MarkedBy(m, c, ttl, {<<u, 0>>})
    <3>1. \A i \in 1..Len(c) : \E bare :
            m[i] = [role |-> c[i].role, bare |-> bare, blocks |-> Copy(c[i].blocks, i, ttl, {<<u, 0>>})]
      <4>1. ASSUME NEW i \in 1..Len(c)
            PROVE \E bare : m[i] = [role |-> c[i].role, bare |-> bare, blocks |-> Copy(c[i].blocks, i, ttl, {<<u, 0>>})]
        <5>1. i # u /\ m[i] = c[i]
          BY <1>5, <2>1
        <5> QED
          BY <1>4, <5>1
      <4> QED
        BY <4>1
    <3> QED
      BY <1>1, <2>1, <3>1 DEF MarkedBy
  <2>3. MovingMark(c, ttl, 0)
    BY <1>5, <2>1, <2>2 DEF u, m, MovingMark
  <2> QED
    BY <2>3
<1>6. CASE u # 0
  <2>1. u \in 1..Len(c)
    BY <1>1, <1>2, <1>6
  <2>2. PICK spot \in 0..Len(c[u].blocks) :
          /\ spot # 0 => c[u].blocks[spot].kind \notin Thought
          /\ Body!AddCacheControlToLastBlock(c[u], ttl) =
               [role |-> c[u].role, bare |-> FALSE, blocks |-> Copy(c[u].blocks, u, ttl, {<<u, spot>>})]
    BY <2>1, LastBlockMarked
  <2>3. spot \in Nat
    BY <1>1, <2>1, <2>2
  <2>4. /\ Rows(Len(c), m) /\ m[u] = Body!AddCacheControlToLastBlock(c[u], ttl)
        /\ \A i \in 1..Len(c) : i # u => m[i] = c[i]
    <3>1. m = Put(c, u, Body!AddCacheControlToLastBlock(c[u], ttl))
      BY <1>3, <1>6 DEF Put
    <3> QED
      BY <1>1, <2>1, <3>1, RowsChanged
  <2>5. MarkedBy(m, c, ttl, {<<u, spot>>})
    BY <1>4, <2>2, <2>4 DEF MarkedBy
  <2>6. MovingMark(c, ttl, spot)
    BY <1>6, <2>2, <2>4, <2>5 DEF u, m, MovingMark
  <2> QED
    BY <2>3, <2>6
<1> QED
  BY <1>5, <1>6

(* The fixed one is the last of the reminders that lead, where it is a reminder.  *)
Prefixed(m, count, f) ==
  f # 0 /\ count > 0 /\ ~m[f].bare /\ count <= Len(m[f].blocks) /\ m[f].blocks[count].kind = "reminder"

LEMMA PrefixMarked ==
  ASSUME NEW c, Body!IsConversation(c), NEW ttl, NEW points, NEW m, MarkedBy(m, c, ttl, points), NEW count \in Nat
  PROVE LET f == Body!FirstUser(c)   new == IF Prefixed(m, count, f) THEN {<<f, count>>} ELSE {} IN
        MarkedBy(Body!CacheClaudeMdPrefix(m, count, ttl), c, ttl, points \cup new)
<1> DEFINE f == Body!FirstUser(c)
           d == Body!CacheClaudeMdPrefix(m, count, ttl)
<1>1. /\ Len(c) \in Nat
      /\ \A i \in 1..Len(c) : /\ Rows(Len(c[i].blocks), c[i].blocks) /\ Len(c[i].blocks) \in Nat
                              /\ \A j \in 1..Len(c[i].blocks) : Body!IsBlock(c[i].blocks[j])
  BY ConversationShape
<1>2. f \in 0..Len(c)
  BY <1>1, UsersFound
<1>3. /\ Rows(Len(c), m) /\ Len(m) = Len(c)
      /\ \A i \in 1..Len(c) : m[i].role = c[i].role /\ m[i].blocks = Copy(c[i].blocks, i, ttl, points)
  <2>1. Rows(Len(c), m)
    BY DEF MarkedBy
  <2> QED
    BY <2>1, MarkedKeepsShape
<1>4. Body!FirstUser(m) = f
  BY <1>3, UsersByRole
<1>5. d = IF Prefixed(m, count, f) THEN [m EXCEPT ![f] = [m[f] EXCEPT !.blocks = [m[f].blocks EXCEPT ![count] = Body!Cached(m[f].blocks[count], ttl)]]] ELSE m
  BY <1>4 DEF Body!CacheClaudeMdPrefix, Prefixed
<1> HIDE DEF f, d
<1>6. CASE ~Prefixed(m, count, f)
  <2>1. d = m /\ points \cup {} = points
    BY <1>5, <1>6
  <2> QED
    BY <1>6, <2>1 DEF d, f
<1>7. CASE Prefixed(m, count, f)
  <2> DEFINE blocks == c[f].blocks
             own == Copy(blocks, f, ttl, points)
             more == points \cup {<<f, count>>}
             marked == [own EXCEPT ![count] = Body!Cached(own[count], ttl)]
  <2>1. f \in 1..Len(c)
    BY <1>1, <1>2, <1>7 DEF Prefixed
  <2>2. PICK bare : m[f] = [role |-> c[f].role, bare |-> bare, blocks |-> own]
    BY <2>1 DEF MarkedBy
  <2>3. Rows(Len(blocks), own) /\ Len(own) = Len(blocks) /\ m[f].blocks = own
    BY <1>1, <1>3, <2>1, CopyIsRows
  <2>4. count \in 1..Len(blocks)
    BY <1>1, <1>7, <2>1, <2>3 DEF Prefixed
  <2>5. Rows(Len(c), d) /\ d[f] = [m[f] EXCEPT !.blocks = marked] /\ \A i \in 1..Len(c) : i # f => d[i] = m[i]
    <3>1. d = Put(m, f, [m[f] EXCEPT !.blocks = marked])
      BY <1>5, <1>7, <2>3 DEF Put
    <3> HIDE DEF marked
    <3> QED
      BY <1>3, <2>1, <3>1, RowsChanged
  <2>6. d[f] = [role |-> c[f].role, bare |-> bare, blocks |-> marked]
    <3> HIDE DEF marked, own
    <3> QED
      BY <2>2, <2>5
  <2>7. marked = Copy(blocks, f, ttl, more)
    <3>1. Body!IsBlock(blocks[count])
      BY <1>1, <2>1, <2>4
    <3>2. Body!Cached(own[count], ttl) = Body!Cached(blocks[count], ttl)
      BY <2>4, <3>1 DEF Copy, Body!IsBlock, Body!Block, Body!Cached
    <3>3. marked = [j \in 1..Len(blocks) |-> IF j = count THEN Body!Cached(blocks[count], ttl) ELSE own[j]]
      <4>1. marked = Put(own, count, Body!Cached(blocks[count], ttl))
        BY <3>2 DEF Put
      <4> HIDE DEF marked, own, blocks
      <4> QED
        BY <2>3, <2>4, <4>1, RowsChanged
    <3>4. \A j : <<f, j>> \in more <=> (j = count \/ <<f, j>> \in points)
      OBVIOUS
    <3>5. \A j \in 1..Len(blocks) : own[j] = IF <<f, j>> \in points THEN Body!Cached(blocks[j], ttl) ELSE blocks[j]
      BY DEF Copy
    <3> HIDE DEF marked, own, blocks, more
    <3> QED
      BY <3>3, <3>4, <3>5 DEF Copy
  <2>8. ASSUME NEW i \in 1..Len(c)
        PROVE \E some : d[i] = [role |-> c[i].role, bare |-> some, blocks |-> Copy(c[i].blocks, i, ttl, more)]
    <3>1. CASE i = f
      <4> HIDE DEF marked
      <4> QED
        BY <2>6, <2>7, <3>1
    <3>2. CASE i # f
      <4>1. \A j : <<i, j>> \in more <=> <<i, j>> \in points
        BY <3>2
      <4>2. Copy(c[i].blocks, i, ttl, more) = Copy(c[i].blocks, i, ttl, points)
        <5> HIDE DEF more
        <5> QED
          BY <4>1 DEF Copy
      <4> QED
        BY <2>5, <3>2, <4>2 DEF MarkedBy
    <3> QED
      BY <3>1, <3>2
  <2>9. MarkedBy(d, c, ttl, more)
    <3> HIDE DEF marked, more
    <3> QED
      BY <2>5, <2>8 DEF MarkedBy
  <2> QED
    BY <1>7, <2>9 DEF d, f
<1> QED
  BY <1>6, <1>7

-----------------------------------------------------------------------------
(* What is injected.  The recursion has a solution, by a least length without one; *)
(* the stored blocks stay one piece of it, all else is unmarked and sent once.      *)
Placing(blocks, ephemeral, p) ==
  /\ p = [n \in 0..Len(ephemeral) |-> p[n]] /\ p[0] = blocks
  /\ \A n \in 1..Len(ephemeral) : p[n] = Body!Place(p[n - 1], ephemeral[n])

Solves(g, n, blocks, ephemeral) ==
  g = [k \in 0..n |-> IF k = 0 THEN blocks ELSE Body!Place(g[k - 1], ephemeral[k])]

LEMMA PlacingExists ==
  ASSUME NEW blocks, NEW ephemeral, Len(ephemeral) \in Nat
  PROVE \A n \in 0..Len(ephemeral) : \E g : Solves(g, n, blocks, ephemeral)
<1> USE DEF Solves
<1> DEFINE Good(n) == \E g : Solves(g, n, blocks, ephemeral)
           bad == {n \in 0..Len(ephemeral) : ~Good(n)}
<1>1. Good(0)
  <2> DEFINE g == [k \in 0..0 |-> blocks]
  <2>1. g = [k \in 0..0 |-> IF k = 0 THEN blocks ELSE Body!Place(g[k - 1], ephemeral[k])]
    OBVIOUS
  <2> QED
    BY <2>1
<1>2. ASSUME NEW n \in 1..Len(ephemeral), Good(n - 1) PROVE Good(n)
  <2>1. PICK g : g = [k \in 0..(n - 1) |-> IF k = 0 THEN blocks ELSE Body!Place(g[k - 1], ephemeral[k])]
    BY <1>2
  <2> DEFINE h == [k \in 0..n |-> IF k = n THEN Body!Place(g[n - 1], ephemeral[n]) ELSE g[k]]
  <2>2. \A k \in 0..(n - 1) : g[k] = IF k = 0 THEN blocks ELSE Body!Place(g[k - 1], ephemeral[k])
    BY <2>1
  <2>3. ASSUME NEW k \in 0..n PROVE h[k] = IF k = 0 THEN blocks ELSE Body!Place(h[k - 1], ephemeral[k])
    <3>1. CASE k = n
      <4>1. h[n] = Body!Place(g[n - 1], ephemeral[n]) /\ h[n - 1] = g[n - 1] /\ n # 0
        OBVIOUS
      <4> HIDE DEF h
      <4> QED
        BY <3>1, <4>1
    <3>2. CASE k # n
      <4>1. k \in 0..(n - 1) /\ h[k] = g[k] /\ (k # 0 => h[k - 1] = g[k - 1])
        BY <3>2
      <4> HIDE DEF h
      <4> QED
        BY <2>2, <4>1
    <3> QED
      BY <3>1, <3>2
  <2>4. h = [k \in 0..n |-> h[k]]
    OBVIOUS
  <2>5. h = [k \in 0..n |-> IF k = 0 THEN blocks ELSE Body!Place(h[k - 1], ephemeral[k])]
    <3> HIDE DEF h
    <3> QED
      BY <2>3, <2>4
  <2> QED
    BY <2>5
<1>3. bad = {}
  <2>1. SUFFICES ASSUME bad # {} PROVE FALSE
    OBVIOUS
  <2> HIDE DEF Good
  <2>2. PICK n \in bad : \A k \in bad : n <= k
    <3>1. bad \in SUBSET Nat
      OBVIOUS
    <3> QED
      BY <2>1, <3>1, LeastOf
  <2>3. n # 0
    BY <1>1, <2>2
  <2>4. n \in 1..Len(ephemeral) /\ n - 1 \in 0..Len(ephemeral) /\ n - 1 \notin bad
    BY <2>2, <2>3
  <2>5. Good(n - 1)
    BY <2>4
  <2> QED
    BY <1>2, <2>2, <2>4, <2>5
<1> QED
  BY <1>3

LEMMA PlacingIsChosen ==
  ASSUME NEW blocks, NEW ephemeral, Len(ephemeral) \in Nat
  PROVE LET Placed[n \in 0..Len(ephemeral)] == IF n = 0 THEN blocks ELSE Body!Place(Placed[n - 1], ephemeral[n])
        IN Placing(blocks, ephemeral, Placed)
<1> DEFINE Placed[n \in 0..Len(ephemeral)] == IF n = 0 THEN blocks ELSE Body!Place(Placed[n - 1], ephemeral[n])
<1>1. \E g : g = [k \in 0..Len(ephemeral) |-> IF k = 0 THEN blocks ELSE Body!Place(g[k - 1], ephemeral[k])]
  <2>1. Len(ephemeral) \in 0..Len(ephemeral)
    OBVIOUS
  <2>2. \E g : Solves(g, Len(ephemeral), blocks, ephemeral)
    BY <2>1, PlacingExists
  <2> QED
    BY <2>2 DEF Solves
<1>2. Placed = [k \in 0..Len(ephemeral) |-> IF k = 0 THEN blocks ELSE Body!Place(Placed[k - 1], ephemeral[k])]
  BY <1>1, Zenon
<1> HIDE DEF Placed
<1>3. \A n \in 0..Len(ephemeral) : Placed[n] = IF n = 0 THEN blocks ELSE Body!Place(Placed[n - 1], ephemeral[n])
  BY <1>2
<1>4. Placed = [n \in 0..Len(ephemeral) |-> Placed[n]]
  BY <1>2
<1>5. 0 \in 0..Len(ephemeral) /\ \A n \in 1..Len(ephemeral) : n \in 0..Len(ephemeral) /\ n # 0
  OBVIOUS
<1>6. Placing(blocks, ephemeral, Placed)
  BY <1>3, <1>4, <1>5 DEF Placing
<1> QED
  BY <1>6 DEF Placed

Piece(sent, own, n, texts) ==
  /\ n \in Nat
  /\ \A j \in 1..Len(own) : n + j \in 1..Len(sent) /\ sent[n + j] = own[j]
  /\ \A j \in 1..Len(sent) : j - n \in 1..Len(own) \/ (sent[j].cache = "no" /\ sent[j].of \in texts)

LEMMA PlaceKeepsPiece ==
  ASSUME NEW X, NEW own \in Seq(X), NEW sent \in Seq(X), NEW n, NEW texts, Piece(sent, own, n, texts),
         NEW e, e.text \in texts, Body!Block("reminder", e.text) \in X
  PROVE /\ Body!Place(sent, e) \in Seq(X)
        /\ Piece(Body!Place(sent, e), own, IF e.position = "leading" THEN n + 1 ELSE n, texts)
<1> DEFINE added == Body!Block("reminder", e.text)
           d == Body!Place(sent, e)
<1>1. added.cache = "no" /\ added.of \in texts /\ added \in X
  BY DEF Body!Block
<1> HIDE DEF added
<1>2. Len(sent) \in Nat /\ Len(own) \in Nat
  BY LenProperties
<1>3. CASE e.position = "leading"
  <2>1. d = <<added>> \o sent
    BY <1>3 DEF added, Body!Place
  <2>2. <<added>> \in Seq(X) /\ Len(<<added>>) = 1 /\ <<added>>[1] = added
    BY <1>1
  <2>3. /\ d \in Seq(X) /\ Len(d) = Len(sent) + 1
        /\ \A j \in 1..Len(d) : d[j] = IF j <= 1 THEN added ELSE sent[j - 1]
    BY <2>1, <2>2, ConcatProperties
  <2> HIDE DEF d
  <2>4. ASSUME NEW j \in 1..Len(own) PROVE n + 1 + j \in 1..Len(d) /\ d[n + 1 + j] = own[j]
    <3>1. n + j \in 1..Len(sent) /\ sent[n + j] = own[j] /\ n \in Nat
      BY DEF Piece
    <3>2. n + 1 + j \in 1..Len(d) /\ (n + 1 + j) - 1 = n + j /\ ~(n + 1 + j <= 1)
      BY <1>2, <2>3, <3>1
    <3> QED
      BY <2>3, <3>1, <3>2
  <2>5. ASSUME NEW j \in 1..Len(d) PROVE j - (n + 1) \in 1..Len(own) \/ (d[j].cache = "no" /\ d[j].of \in texts)
    <3>1. CASE j = 1
      BY <1>1, <2>3, <3>1
    <3>2. CASE j # 1
      <4>1. j - 1 \in 1..Len(sent) /\ d[j] = sent[j - 1] /\ n \in Nat
        BY <1>2, <2>3, <3>2 DEF Piece
      <4>2. (j - 1) - n = j - (n + 1)
        BY <4>1
      <4> QED
        BY <4>1, <4>2 DEF Piece
    <3> QED
      BY <3>1, <3>2
  <2>6. Piece(d, own, n + 1, texts)
    BY <2>4, <2>5 DEF Piece
  <2> QED
    BY <1>3, <2>3, <2>6 DEF d
<1>4. CASE e.position # "leading"
  <2>1. d = Append(sent, added)
    BY <1>4 DEF added, Body!Place
  <2>2. /\ d \in Seq(X) /\ Len(d) = Len(sent) + 1 /\ d[Len(sent) + 1] = added
        /\ \A j \in 1..Len(sent) : d[j] = sent[j]
    BY <1>1, <2>1, AppendProperties
  <2> HIDE DEF d
  <2>3. ASSUME NEW j \in 1..Len(own) PROVE n + j \in 1..Len(d) /\ d[n + j] = own[j]
    <3>1. n + j \in 1..Len(sent) /\ sent[n + j] = own[j]
      BY DEF Piece
    <3> QED
      BY <1>2, <2>2, <3>1
  <2>4. ASSUME NEW j \in 1..Len(d) PROVE j - n \in 1..Len(own) \/ (d[j].cache = "no" /\ d[j].of \in texts)
    <3>1. CASE j = Len(sent) + 1
      BY <1>1, <2>2, <3>1
    <3>2. CASE j # Len(sent) + 1
      <4>1. j \in 1..Len(sent) /\ d[j] = sent[j]
        BY <1>2, <2>2, <3>2
      <4> QED
        BY <4>1 DEF Piece
    <3> QED
      BY <3>1, <3>2
  <2>5. Piece(d, own, n, texts)
    BY <2>3, <2>4 DEF Piece
  <2> QED
    BY <1>4, <2>2, <2>5 DEF d
<1> QED
  BY <1>3, <1>4

LEMMA PlacingKeepsPiece ==
  ASSUME NEW own, Rows(Len(own), own), NEW ephemeral, Len(ephemeral) \in Nat, NEW p, Placing(own, ephemeral, p)
  PROVE LET sent == p[Len(ephemeral)] IN
        /\ Rows(Len(sent), sent)
        /\ \E n \in 0..Len(ephemeral) : Piece(sent, own, n, {ephemeral[k].text : k \in 1..Len(ephemeral)})
<1> DEFINE texts == {ephemeral[k].text : k \in 1..Len(ephemeral)}
           X == {own[j] : j \in 1..Len(own)} \cup {Body!Block("reminder", text) : text \in texts}
           Good(n) == p[n] \in Seq(X) /\ \E lead \in 0..n : Piece(p[n], own, lead, texts)
           bad == {n \in 0..Len(ephemeral) : ~Good(n)}
<1>1. own \in Seq(X) /\ Len(own) \in Nat
  <2>1. Len(own) \in Nat /\ own = [j \in 1..Len(own) |-> own[j]]
    BY RowsAreSeq
  <2>2. own \in [1..Len(own) -> X]
    BY <2>1
  <2> HIDE DEF X
  <2> QED
    BY <2>1, <2>2, SeqDef
<1>2. Good(0)
  <2>1. p[0] = own
    BY DEF Placing
  <2>2. Piece(own, own, 0, texts)
    BY <1>1 DEF Piece
  <2> QED
    BY <1>1, <2>1, <2>2
<1>3. ASSUME NEW n \in 1..Len(ephemeral), Good(n - 1) PROVE Good(n)
  <2>1. p[n] = Body!Place(p[n - 1], ephemeral[n])
    BY DEF Placing
  <2>2. PICK lead \in 0..(n - 1) : Piece(p[n - 1], own, lead, texts)
    BY <1>3
  <2>3. ephemeral[n].text \in texts /\ Body!Block("reminder", ephemeral[n].text) \in X
    OBVIOUS
  <2>4. p[n - 1] \in Seq(X)
    BY <1>3
  <2> HIDE DEF X, texts
  <2>5. /\ p[n] \in Seq(X)
        /\ Piece(p[n], own, IF ephemeral[n].position = "leading" THEN lead + 1 ELSE lead, texts)
    BY <1>1, <2>1, <2>2, <2>3, <2>4, PlaceKeepsPiece
  <2>6. (IF ephemeral[n].position = "leading" THEN lead + 1 ELSE lead) \in 0..n
    OBVIOUS
  <2> QED
    BY <2>5, <2>6
<1>4. bad = {}
  <2> HIDE DEF Good
  <2>1. SUFFICES ASSUME bad # {} PROVE FALSE
    OBVIOUS
  <2>2. PICK n \in bad : \A k \in bad : n <= k
    <3>1. bad \in SUBSET Nat
      OBVIOUS
    <3> QED
      BY <2>1, <3>1, LeastOf
  <2>3. n # 0
    BY <1>2, <2>2
  <2>4. n \in 1..Len(ephemeral) /\ n - 1 \in 0..Len(ephemeral) /\ n - 1 \notin bad
    BY <2>2, <2>3
  <2>5. Good(n - 1)
    BY <2>4
  <2> QED
    BY <1>3, <2>2, <2>4, <2>5
<1>5. Good(Len(ephemeral))
  <2> HIDE DEF Good
  <2> QED
    BY <1>4
<1>6. Rows(Len(p[Len(ephemeral)]), p[Len(ephemeral)])
  <2>1. p[Len(ephemeral)] \in Seq(X)
    BY <1>5
  <2> HIDE DEF X
  <2> QED
    BY <2>1, LenProperties DEF Rows
<1> QED
  BY <1>5, <1>6

-----------------------------------------------------------------------------
(* The messages as sent: the copy with its points, in one message shifted by n.    *)
Points(o, c, spot) ==
  {<<Body!LastUser(c), spot>>}
  \cup IF Prefixed(Body!CacheLastUserMessage(c, Body!Lifetime(o.ttl)), o.reminders, Body!FirstUser(c))
         THEN {<<Body!FirstUser(c), o.reminders>>} ELSE {}
OnceTexts(o) == {o.ephemeral[k].text : k \in 1..Len(o.ephemeral)}
Own(o, c, spot, i) == Copy(c[i].blocks, i, Body!Lifetime(o.ttl), Points(o, c, spot))
Sent(o, c, spot, n) ==
  LET d == Body!BuildRequestParams(o, c).messages IN
  /\ Rows(Len(c), d) /\ n \in 0..Len(o.ephemeral)
  /\ \A i \in 1..Len(c) :
       /\ Rows(Len(d[i].blocks), d[i].blocks)
       /\ IF i = Body!LastUser(c) THEN Piece(d[i].blocks, Own(o, c, spot, i), n, OnceTexts(o))
          ELSE d[i].blocks = Own(o, c, spot, i)

LEMMA MessagesSent ==
  ASSUME NEW o, o.reminders \in Nat, Len(o.ephemeral) \in Nat, NEW c, Body!IsConversation(c),
         NEW spot \in Nat, MovingMark(c, Body!Lifetime(o.ttl), spot)
  PROVE \E n \in 0..Len(o.ephemeral) : Sent(o, c, spot, n)
<1> DEFINE ttl == Body!Lifetime(o.ttl)
           u == Body!LastUser(c)
           first == Body!CacheLastUserMessage(c, ttl)
           m == Body!CacheClaudeMdPrefix(first, o.reminders, ttl)
           points == Points(o, c, spot)
           d == Body!BuildRequestParams(o, c).messages
           own == m[u].blocks
           Placed[n \in 0..Len(o.ephemeral)] == IF n = 0 THEN own ELSE Body!Place(Placed[n - 1], o.ephemeral[n])
           sent == Placed[Len(o.ephemeral)]
<1>1. /\ Len(c) \in Nat
      /\ \A i \in 1..Len(c) : Rows(Len(c[i].blocks), c[i].blocks)
  BY ConversationShape
<1>2. MarkedBy(m, c, ttl, points)
  <2>1. MarkedBy(first, c, ttl, {<<u, spot>>})
    BY DEF MovingMark
  <2> QED
    BY <2>1, PrefixMarked DEF Points
<1>3. d = Body!Inject(m, o.ephemeral)
  BY DEF Body!BuildRequestParams
<1> HIDE DEF m, points, ttl
<1>4. /\ Rows(Len(c), m) /\ Len(m) = Len(c)
      /\ \A i \in 1..Len(c) : m[i].role = c[i].role /\ m[i].blocks = Copy(c[i].blocks, i, ttl, points)
  <2>1. Rows(Len(c), m)
    BY <1>2 DEF MarkedBy
  <2> QED
    BY <1>2, <2>1, MarkedKeepsShape
<1>5. Body!LastUser(m) = u /\ u \in 0..Len(c)
  BY <1>1, <1>4, UsersByRole, UsersFound
<1>6. d = IF u = 0 THEN m ELSE [m EXCEPT ![u] = [m[u] EXCEPT !.blocks = sent]]
  BY <1>3, <1>5 DEF Body!Inject
<1>7. Placing(own, o.ephemeral, Placed)
  BY PlacingIsChosen
<1> HIDE DEF d, u, Placed
<1>8. ASSUME NEW i \in 1..Len(c) PROVE Rows(Len(m[i].blocks), m[i].blocks) /\ m[i].blocks = Own(o, c, spot, i)
  <2>1. m[i].blocks = Own(o, c, spot, i)
    BY <1>4 DEF Own, ttl, points
  <2>2. Rows(Len(Own(o, c, spot, i)), Own(o, c, spot, i))
    <3> DEFINE blocks == c[i].blocks
    <3>1. Rows(Len(blocks), blocks)
      BY <1>1
    <3> HIDE DEF blocks
    <3>2. Rows(Len(blocks), Copy(blocks, i, ttl, points)) /\ Len(Copy(blocks, i, ttl, points)) = Len(blocks)
      BY <3>1, CopyIsRows
    <3> QED
      BY <3>2 DEF Own, ttl, points, blocks
  <2> QED
    BY <2>1, <2>2
<1>9. CASE u = 0
  <2>1. d = m /\ 0 \in 0..Len(o.ephemeral)
    BY <1>6, <1>9
  <2>2. \A i \in 1..Len(c) : i # u
    BY <1>9
  <2>3. Sent(o, c, spot, 0)
    BY <1>4, <1>8, <2>1, <2>2 DEF Sent, d, u
  <2> QED
    BY <2>1, <2>3
<1>10. CASE u # 0
  <2>1. u \in 1..Len(c)
    BY <1>1, <1>5, <1>10
  <2>2. Rows(Len(own), own)
    BY <1>8, <2>1
  <2>3. Rows(Len(sent), sent) /\ \E n \in 0..Len(o.ephemeral) : Piece(sent, own, n, OnceTexts(o))
    <3> HIDE DEF own
    <3> QED
      BY <1>7, <2>2, PlacingKeepsPiece DEF OnceTexts
  <2>4. PICK n \in 0..Len(o.ephemeral) : Piece(sent, own, n, OnceTexts(o))
    BY <2>3
  <2>5. Rows(Len(c), d) /\ d[u] = [m[u] EXCEPT !.blocks = sent] /\ \A i \in 1..Len(c) : i # u => d[i] = m[i]
    <3> HIDE DEF sent
    <3>1. d = Put(m, u, [m[u] EXCEPT !.blocks = sent])
      BY <1>6, <1>10 DEF Put
    <3> QED
      BY <1>4, <2>1, <3>1, RowsChanged
  <2>6. d[u].blocks = sent
    <3> HIDE DEF sent
    <3>1. PICK bare : m[u] = [role |-> c[u].role, bare |-> bare, blocks |-> Copy(c[u].blocks, u, ttl, points)]
      BY <1>2, <2>1 DEF MarkedBy
    <3> QED
      BY <2>5, <3>1
  <2>7. ASSUME NEW i \in 1..Len(c)
        PROVE /\ Rows(Len(d[i].blocks), d[i].blocks)
              /\ IF i = u THEN Piece(d[i].blocks, Own(o, c, spot, i), n, OnceTexts(o)) ELSE d[i].blocks = Own(o, c, spot, i)
    <3> HIDE DEF sent
    <3>1. CASE i = u
      BY <1>8, <2>3, <2>4, <2>6, <3>1
    <3>2. CASE i # u
      BY <1>8, <2>5, <3>2
    <3> QED
      BY <3>1, <3>2
  <2>8. Sent(o, c, spot, n)
    BY <2>5, <2>7 DEF Sent, d, u
  <2> QED
    BY <2>8
<1> QED
  BY <1>9, <1>10

-----------------------------------------------------------------------------
(* At most one mark in the tools, one in the prompts and two in the messages.       *)
LEMMA Counted == ASSUME NEW S PROVE Body!Cardinality(S) = Cardinality(S)
  BY Zenon DEF Body!Cardinality, Cardinality

LEMMA AtMostOne == ASSUME NEW a, NEW S \in SUBSET {a} PROVE Body!Cardinality(S) \in Nat /\ Body!Cardinality(S) <= 1
<1>1. IsFiniteSet({a}) /\ Cardinality({a}) = 1
  BY FS_Singleton
<1>2. IsFiniteSet(S) /\ Cardinality(S) <= 1
  BY <1>1, FS_Subset
<1> QED
  BY <1>2, FS_CardinalityType, Counted

LEMMA AtMostTwo == ASSUME NEW a, NEW b, NEW S \in SUBSET {a, b} PROVE Body!Cardinality(S) \in Nat /\ Body!Cardinality(S) <= 2
<1> DEFINE both == {a} \cup {b}
<1>1. IsFiniteSet({a}) /\ Cardinality({a}) = 1
  BY FS_Singleton
<1>2. IsFiniteSet(both) /\ (Cardinality(both) = Cardinality({a}) \/ Cardinality(both) = Cardinality({a}) + 1)
  BY <1>1, FS_AddElement
<1>3. S \subseteq both
  OBVIOUS
<1> HIDE DEF both
<1>4. IsFiniteSet(S) /\ Cardinality(S) <= Cardinality(both)
  BY <1>2, <1>3, FS_Subset
<1>5. Cardinality(S) \in Nat /\ Cardinality(both) \in Nat
  BY <1>2, <1>4, FS_CardinalityType
<1>6. Cardinality(S) <= 2
  BY <1>1, <1>2, <1>4, <1>5
<1>7. Body!Cardinality(S) = Cardinality(S)
  BY Counted
<1> QED
  BY <1>5, <1>6, <1>7

Plain(entries) == Rows(Len(entries), entries) /\ \A i \in 1..Len(entries) : Body!IsBlock(entries[i])

LEMMA ListedIsPlain ==
  ASSUME NEW kind, NEW s, Body!IsSeq(s)
  PROVE Plain([i \in DOMAIN s |-> Body!Block(kind, s[i])])
<1> DEFINE entries == [i \in DOMAIN s |-> Body!Block(kind, s[i])]
<1>1. DOMAIN s = 1..Len(s) /\ Len(s) \in Nat
  BY SeqIsRows, RowsAreSeq
<1>2. DOMAIN entries = 1..Len(s) /\ entries = [i \in DOMAIN entries |-> entries[i]]
  BY <1>1
<1>3. \A i \in 1..Len(s) : Body!IsBlock(entries[i])
  BY <1>1 DEF Body!IsBlock, Body!Block
<1> HIDE DEF entries
<1>4. Rows(Len(s), entries) /\ Len(entries) = Len(s)
  BY <1>1, <1>2, RowsOf, RowsAreSeq
<1> QED
  BY <1>3, <1>4 DEF Plain, entries

LEMMA RowsJoined ==
  ASSUME NEW a, NEW b, Rows(Len(a), a), Rows(Len(b), b)
  PROVE /\ Rows(Len(a \o b), a \o b)
        /\ \A i \in 1..Len(a \o b) : (\E j \in 1..Len(a) : (a \o b)[i] = a[j]) \/ (\E j \in 1..Len(b) : (a \o b)[i] = b[j])
<1>1. PICK A : a \in [1..Len(a) -> A] /\ Len(a) \in Nat
  BY DEF Rows
<1>2. PICK B : b \in [1..Len(b) -> B] /\ Len(b) \in Nat
  BY DEF Rows
<1>3. a \in Seq(A \cup B) /\ b \in Seq(A \cup B)
  <2>1. a \in [1..Len(a) -> A \cup B] /\ b \in [1..Len(b) -> A \cup B]
    BY <1>1, <1>2
  <2> QED
    BY <1>1, <1>2, <2>1, SeqDef
<1>4. /\ a \o b \in Seq(A \cup B) /\ Len(a \o b) = Len(a) + Len(b)
      /\ \A i \in 1..(Len(a) + Len(b)) : (a \o b)[i] = IF i <= Len(a) THEN a[i] ELSE b[i - Len(a)]
  BY <1>3, ConcatProperties
<1>5. Rows(Len(a \o b), a \o b)
  BY <1>4, LenProperties DEF Rows
<1>6. ASSUME NEW i \in 1..Len(a \o b)
      PROVE (\E j \in 1..Len(a) : (a \o b)[i] = a[j]) \/ (\E j \in 1..Len(b) : (a \o b)[i] = b[j])
  <2>1. CASE i <= Len(a)
    BY <1>1, <1>2, <1>4, <2>1
  <2>2. CASE ~(i <= Len(a))
    <3>1. i - Len(a) \in 1..Len(b) /\ (a \o b)[i] = b[i - Len(a)]
      BY <1>1, <1>2, <1>4, <2>2
    <3> QED
      BY <3>1
  <2> QED
    BY <2>1, <2>2
<1> QED
  BY <1>5, <1>6

LEMMA PlainJoined == ASSUME NEW a, NEW b, Plain(a), Plain(b) PROVE Plain(a \o b)
  BY RowsJoined DEF Plain

LEMMA BlockMarked ==
  ASSUME NEW b, Body!IsBlock(b), NEW ttl
  PROVE /\ b.cache = "no" /\ Body!Unmarked(b) = b
        /\ Body!Cached(b, ttl).cache = ttl /\ Body!Cached(b, ttl).kind = b.kind /\ Body!Unmarked(Body!Cached(b, ttl)) = b
<1>1. \E kind, of : b = [kind |-> kind, of |-> of, cache |-> "no"]
  BY DEF Body!IsBlock, Body!Block
<1>2. PICK kind, of : b = [kind |-> kind, of |-> of, cache |-> "no"]
  BY <1>1
<1>3. Body!Cached(b, ttl) = [kind |-> kind, of |-> of, cache |-> ttl]
  BY <1>2 DEF Body!Cached
<1>4. Body!Unmarked(b) = b /\ Body!Unmarked(Body!Cached(b, ttl)) = b
  BY <1>2, <1>3 DEF Body!Unmarked
<1> QED
  BY <1>2, <1>3, <1>4

LEMMA OnlyLastMarked ==
  ASSUME NEW entries, Plain(entries), NEW ttl
  PROVE LET d == Body!CacheLast(entries, ttl) IN
        Body!Marks(d) \subseteq {Len(entries)} /\ \A i \in Body!Marks(d) : d[i].cache = ttl
<1> DEFINE d == Body!CacheLast(entries, ttl)
<1>1. Len(entries) \in Nat /\ DOMAIN entries = 1..Len(entries) /\ Rows(Len(entries), entries)
  BY RowsAreSeq DEF Plain
<1>2. \A i \in 1..Len(entries) : entries[i].cache = "no" /\ Body!Cached(entries[i], ttl).cache = ttl
  BY BlockMarked DEF Plain
<1>3. CASE entries = <<>>
  <2>1. d = entries
    BY <1>3 DEF Body!CacheLast
  <2> QED
    BY <1>1, <1>2, <2>1 DEF Body!Marks
<1>4. CASE entries # <<>>
  <2>1. d = [entries EXCEPT ![Len(entries)] = Body!Cached(entries[Len(entries)], ttl)]
    BY <1>4 DEF Body!CacheLast
  <2> HIDE DEF d
  <2>2. DOMAIN d = 1..Len(entries)
    BY <1>1, <2>1
  <2>3. \A i \in 1..Len(entries) : d[i] = IF i = Len(entries) THEN Body!Cached(entries[i], ttl) ELSE entries[i]
    BY <1>1, <2>1
  <2> QED
    BY <1>2, <2>2, <2>3 DEF Body!Marks, d
<1> QED
  BY <1>3, <1>4

LEMMA MarkIsAPoint ==
  ASSUME NEW o, NEW c, Body!IsConversation(c), NEW spot, NEW i \in 1..Len(c), NEW j \in 1..Len(c[i].blocks)
  PROVE LET b == Own(o, c, spot, i)[j] IN
        /\ Len(Own(o, c, spot, i)) = Len(c[i].blocks) /\ DOMAIN Own(o, c, spot, i) = 1..Len(c[i].blocks)
        /\ IF <<i, j>> \in Points(o, c, spot) THEN b.cache = Body!Lifetime(o.ttl) /\ b.kind = c[i].blocks[j].kind
           ELSE b.cache = "no"
<1> DEFINE blocks == c[i].blocks
<1>1. Rows(Len(blocks), blocks) /\ Body!IsBlock(blocks[j]) /\ Len(blocks) \in Nat
  BY ConversationShape
<1>2. Own(o, c, spot, i)[j] = IF <<i, j>> \in Points(o, c, spot) THEN Body!Cached(blocks[j], Body!Lifetime(o.ttl)) ELSE blocks[j]
  BY DEF Own, Copy
<1>3. Len(Own(o, c, spot, i)) = Len(blocks) /\ DOMAIN Own(o, c, spot, i) = 1..Len(blocks)
  <2> HIDE DEF blocks
  <2>1. Len(Copy(blocks, i, Body!Lifetime(o.ttl), Points(o, c, spot))) = Len(blocks)
    BY <1>1, CopyIsRows
  <2>2. DOMAIN Copy(blocks, i, Body!Lifetime(o.ttl), Points(o, c, spot)) = 1..Len(blocks)
    BY DEF Copy
  <2> QED
    BY <2>1, <2>2 DEF Own, blocks
<1>4. /\ Body!Cached(blocks[j], Body!Lifetime(o.ttl)).cache = Body!Lifetime(o.ttl)
      /\ Body!Cached(blocks[j], Body!Lifetime(o.ttl)).kind = blocks[j].kind
      /\ blocks[j].cache = "no"
  BY <1>1, BlockMarked
<1> QED
  BY <1>2, <1>3, <1>4

LEMMA UnmarkedIsStored ==
  ASSUME NEW o, NEW c, Body!IsConversation(c), NEW spot, NEW i \in 1..Len(c)
  PROVE \A j \in 1..Len(c[i].blocks) : Body!Unmarked(Own(o, c, spot, i)[j]) = c[i].blocks[j]
<1> TAKE j \in 1..Len(c[i].blocks)
<1> DEFINE b == c[i].blocks[j]
<1>1. Body!IsBlock(b)
  BY ConversationShape
<1>2. Own(o, c, spot, i)[j] \in {Body!Cached(b, Body!Lifetime(o.ttl)), b}
  BY DEF Own, Copy
<1> HIDE DEF b
<1>3. Body!Unmarked(Own(o, c, spot, i)[j]) = b
  BY <1>1, <1>2, BlockMarked
<1> QED
  BY <1>3 DEF b

LEMMA FourAtMost ==
  ASSUME options \in Options, Body!IsConversation(conversation), request = Body!BuildRequestParams(options, conversation)
  PROVE Body!FourBreakpoints
<1> DEFINE o == options
           c == conversation
           ttl == Body!Lifetime(o.ttl)
           u == Body!LastUser(c)
           f == Body!FirstUser(c)
           d == request.messages
           tools == [i \in DOMAIN o.serverTools |-> Body!Block("server", o.serverTools[i])]
                    \o [i \in DOMAIN o.tools |-> Body!ToWireTool(o.tools[i])]
           system == <<Body!Block("text", "prefix")>> \o [i \in DOMAIN o.prompts |-> Body!Block("text", o.prompts[i])]
<1>1. Body!IsOptions(o)
  BY RequestConstants DEF Body!RequestAssumption
<1>2. Plain(tools)
  BY <1>1, ListedIsPlain, PlainJoined DEF Body!ToWireTool, Body!IsOptions
<1>3. Plain(system)
  <2>1. Plain(<<Body!Block("text", "prefix")>>)
    <3> DEFINE e == <<Body!Block("text", "prefix")>>
    <3>1. Len(e) = 1 /\ DOMAIN e = 1..1 /\ e = [i \in DOMAIN e |-> e[i]]
      OBVIOUS
    <3>2. Body!IsBlock(e[1])
      BY DEF Body!IsBlock, Body!Block
    <3> HIDE DEF e
    <3>3. Rows(1, e)
      BY <3>1, RowsOf
    <3> QED
      BY <3>1, <3>2, <3>3 DEF Plain, e
  <2> QED
    BY <1>1, <2>1, ListedIsPlain, PlainJoined DEF Body!IsOptions
<1> HIDE DEF tools, system
<1>4. request.tools = Body!CacheLast(tools, o.ttl) /\ request.system = Body!CacheLast(system, o.ttl)
  BY DEF Body!BuildRequestParams, tools, system
<1>5. /\ Body!Marks(request.tools) \in SUBSET {Len(tools)} /\ \A i \in Body!Marks(request.tools) : request.tools[i].cache = o.ttl
      /\ Body!Marks(request.system) \in SUBSET {Len(system)} /\ \A i \in Body!Marks(request.system) : request.system[i].cache = o.ttl
  BY <1>2, <1>3, <1>4, OnlyLastMarked
<1>6. PICK spot \in Nat : MovingMark(c, ttl, spot)
  BY LastUserMarked
<1>7. PICK n \in 0..Len(o.ephemeral) : Sent(o, c, spot, n)
  <2>1. o.reminders \in Nat /\ Len(o.ephemeral) \in Nat
    BY <1>1, SeqIsRows, RowsAreSeq DEF Body!IsOptions
  <2> QED
    BY <1>6, <2>1, MessagesSent
<1> DEFINE shift == IF f = u THEN n ELSE 0
           two == {<<u, n + spot>>, <<f, shift + o.reminders>>}
<1>8. ASSUME NEW i \in 1..Len(c), NEW j \in Body!Marks(d[i].blocks)
      PROVE <<i, j>> \in two /\ d[i].blocks[j].cache = ttl
  <2>1. Rows(Len(c), d) /\ Rows(Len(d[i].blocks), d[i].blocks) /\ Len(c[i].blocks) \in Nat
    BY <1>7, ConversationShape DEF Sent
  <2>2. j \in 1..Len(d[i].blocks) /\ d[i].blocks[j].cache # "no" /\ j \in Nat
    BY <2>1, RowsAreSeq DEF Body!Marks
  <2>3. ASSUME NEW k \in 1..Len(c[i].blocks), d[i].blocks[j] = Own(o, c, spot, i)[k]
        PROVE <<i, k>> \in Points(o, c, spot) /\ d[i].blocks[j].cache = ttl
    BY <2>2, <2>3, MarkIsAPoint
  <2>4. ASSUME NEW k \in Nat, <<i, k>> \in Points(o, c, spot)
        PROVE <<i, k>> = <<u, spot>> \/ <<i, k>> = <<f, o.reminders>>
    BY <2>4 DEF Points
  <2>5. CASE i = u
    <3>1. Piece(d[i].blocks, Own(o, c, spot, i), n, OnceTexts(o))
      BY <1>7, <2>5 DEF Sent
    <3>2. Len(Own(o, c, spot, i)) = Len(c[i].blocks)
      <4> DEFINE blocks == c[i].blocks
      <4>1. Rows(Len(blocks), blocks)
        BY ConversationShape
      <4> HIDE DEF blocks
      <4>2. Len(Copy(blocks, i, ttl, Points(o, c, spot))) = Len(blocks)
        BY <4>1, CopyIsRows
      <4> QED
        BY <4>2 DEF Own, blocks
    <3>3. j - n \in 1..Len(c[i].blocks)
      BY <2>2, <3>1, <3>2 DEF Piece
    <3>4. d[i].blocks[j] = Own(o, c, spot, i)[j - n]
      <4>1. d[i].blocks[n + (j - n)] = Own(o, c, spot, i)[j - n] /\ n + (j - n) = j
        BY <2>2, <3>1, <3>2, <3>3 DEF Piece
      <4> QED
        BY <4>1
    <3>5. <<i, j - n>> \in Points(o, c, spot) /\ d[i].blocks[j].cache = ttl
      BY <2>3, <3>3, <3>4
    <3>6. j - n \in Nat
      BY <2>1, <3>3
    <3>7. <<i, j - n>> = <<u, spot>> \/ <<i, j - n>> = <<f, o.reminders>>
      BY <2>4, <3>5, <3>6
    <3>8. CASE j - n = spot
      BY <2>2, <2>5, <3>5, <3>8
    <3>9. CASE i = f /\ j - n = o.reminders
      BY <2>2, <2>5, <3>5, <3>9
    <3> QED
      BY <3>7, <3>8, <3>9
  <2>6. CASE i # u
    <3>1. d[i].blocks = Own(o, c, spot, i)
      BY <1>7, <2>6 DEF Sent
    <3>2. j \in 1..Len(c[i].blocks)
      <4>1. j \in DOMAIN Own(o, c, spot, i)
        BY <3>1 DEF Body!Marks
      <4> QED
        BY <4>1 DEF Own, Copy
    <3>3. <<i, j>> \in Points(o, c, spot) /\ d[i].blocks[j].cache = ttl
      BY <2>3, <3>1, <3>2
    <3>4. i = f /\ j = o.reminders
      BY <2>2, <2>4, <2>6, <3>3
    <3>5. shift = 0 /\ o.reminders \in Nat
      BY <1>1, <2>6, <3>4 DEF Body!IsOptions
    <3> QED
      BY <3>3, <3>4, <3>5
  <2> QED
    BY <2>5, <2>6
<1>9. DOMAIN d = 1..Len(c)
  BY <1>7, RowsAreSeq DEF Sent
<1>10. Body!MarksIn(d) \in SUBSET two /\ \A p \in Body!MarksIn(d) : d[p[1]].blocks[p[2]].cache = ttl
  <2>1. ASSUME NEW p \in Body!MarksIn(d) PROVE p \in two /\ d[p[1]].blocks[p[2]].cache = ttl
    <3>1. PICK i \in 1..Len(c) : \E j \in Body!Marks(d[i].blocks) : p = <<i, j>>
      BY <1>9 DEF Body!MarksIn
    <3> QED
      BY <1>8, <3>1
  <2> QED
    BY <2>1
<1>11. /\ Body!Cardinality(Body!Marks(request.tools)) \in Nat /\ Body!Cardinality(Body!Marks(request.tools)) <= 1
       /\ Body!Cardinality(Body!Marks(request.system)) \in Nat /\ Body!Cardinality(Body!Marks(request.system)) <= 1
       /\ Body!Cardinality(Body!MarksIn(d)) \in Nat /\ Body!Cardinality(Body!MarksIn(d)) <= 2
  BY <1>5, <1>10, AtMostOne, AtMostTwo
<1>12. o.ttl # "unset" => ttl = o.ttl
  BY DEF Body!Lifetime
<1> QED
  BY <1>5, <1>10, <1>11, <1>12 DEF Body!FourBreakpoints

(* Each of the request's properties, of any options and conversation.             *)
LEMMA RequestMade ==
  ASSUME NEW o \in Options
  PROVE /\ Body!IsOptions(o) /\ o.reminders \in Nat /\ Len(o.ephemeral) \in Nat /\ DOMAIN o.ephemeral = 1..Len(o.ephemeral)
        /\ Body!Lifetime(o.ttl) # "no"
<1>1. Body!IsOptions(o)
  BY RequestConstants DEF Body!RequestAssumption
<1> QED
  BY <1>1, SeqIsRows, RowsAreSeq DEF Body!IsOptions, Body!Lifetime

LEMMA PrefixIsPinned ==
  ASSUME options \in Options, Body!IsConversation(conversation), request = Body!BuildRequestParams(options, conversation)
  PROVE Body!PrefixPinned
<1> DEFINE o == options
           c == conversation
           ttl == Body!Lifetime(o.ttl)
           u == Body!LastUser(c)
           f == Body!FirstUser(c)
           blocks == c[f].blocks
           sent == request.messages[f].blocks
           pinned == o.reminders \in DOMAIN blocks /\ blocks[o.reminders].kind = "reminder" /\ ~c[f].bare
<1>1. o.reminders \in Nat /\ Len(o.ephemeral) \in Nat /\ ttl # "no"
  BY RequestMade
<1>2. SUFFICES ASSUME f # 0, f # u PROVE Body!Marks(sent) = IF pinned THEN {o.reminders} ELSE {}
  BY DEF Body!PrefixPinned
<1>3. PICK spot \in Nat : MovingMark(c, ttl, spot)
  BY LastUserMarked
<1>4. PICK n \in 0..Len(o.ephemeral) : Sent(o, c, spot, n)
  BY <1>1, <1>3, MessagesSent
<1>5. f \in 1..Len(c) /\ Len(blocks) \in Nat /\ DOMAIN blocks = 1..Len(blocks)
  <2>1. Len(c) \in Nat /\ f \in 0..Len(c)
    BY ConversationShape, UsersFound
  <2>2. f \in 1..Len(c)
    BY <1>2, <2>1
  <2> QED
    BY <2>2, ConversationShape
<1>6. sent = Own(o, c, spot, f)
  BY <1>2, <1>4, <1>5 DEF Sent
<1>7. Prefixed(Body!CacheLastUserMessage(c, ttl), o.reminders, f) <=> pinned
  <2>1. Body!CacheLastUserMessage(c, ttl)[f] = c[f]
    BY <1>2, <1>3, <1>5 DEF MovingMark
  <2> QED
    BY <1>1, <1>2, <1>5, <2>1 DEF Prefixed
<1>8. ASSUME NEW j \in 1..Len(blocks) PROVE <<f, j>> \in Points(o, c, spot) <=> pinned /\ j = o.reminders
  BY <1>2, <1>7 DEF Points
<1>9. DOMAIN sent = 1..Len(blocks)
  BY <1>6 DEF Own, Copy
<1>10. ASSUME NEW j \in 1..Len(blocks) PROVE j \in Body!Marks(sent) <=> pinned /\ j = o.reminders
  <2>1. IF <<f, j>> \in Points(o, c, spot) THEN sent[j].cache = ttl ELSE sent[j].cache = "no"
    <3>1. IF <<f, j>> \in Points(o, c, spot) THEN Own(o, c, spot, f)[j].cache = ttl ELSE Own(o, c, spot, f)[j].cache = "no"
      BY <1>5, MarkIsAPoint
    <3> QED
      BY <1>6, <3>1
  <2>2. j \in Body!Marks(sent) <=> sent[j].cache # "no"
    BY <1>9 DEF Body!Marks
  <2> QED
    BY <1>1, <1>8, <2>1, <2>2
<1> QED
  BY <1>5, <1>9, <1>10 DEF Body!Marks

LEMMA RemindersLeaveTheCache ==
  ASSUME options \in Options, Body!IsConversation(conversation), request = Body!BuildRequestParams(options, conversation)
  PROVE Body!RemindersLeaveTheCacheAlone
<1> DEFINE o == options
           c == conversation
           ttl == Body!Lifetime(o.ttl)
           u == Body!LastUser(c)
           bare == [o EXCEPT !.ephemeral = <<>>]
           plain == Body!BuildRequestParams(bare, c).messages
           d == request.messages
<1>1. o.reminders \in Nat /\ Len(o.ephemeral) \in Nat /\ DOMAIN o.ephemeral = 1..Len(o.ephemeral) /\ Body!IsOptions(o)
  BY RequestMade
<1>2. bare.reminders = o.reminders /\ bare.ttl = o.ttl /\ bare.ephemeral = <<>>
  BY <1>1 DEF Body!IsOptions
<1>3. PICK spot \in Nat : MovingMark(c, ttl, spot)
  BY LastUserMarked
<1>4. PICK n \in 0..Len(o.ephemeral) : Sent(o, c, spot, n)
  BY <1>1, <1>3, MessagesSent
<1> HIDE DEF bare
<1>5. PICK zero \in 0..Len(bare.ephemeral) : Sent(bare, c, spot, zero)
  <2>1. bare.reminders \in Nat /\ Len(bare.ephemeral) \in Nat
    BY <1>1, <1>2
  <2>2. MovingMark(c, Body!Lifetime(bare.ttl), spot)
    BY <1>2, <1>3
  <2> QED
    BY <2>1, <2>2, MessagesSent
<1>6. zero = 0 /\ OnceTexts(bare) = {}
  BY <1>2, <1>5 DEF OnceTexts
<1>7. ASSUME NEW i \in 1..Len(c) PROVE Own(bare, c, spot, i) = Own(o, c, spot, i)
  BY <1>2 DEF Own, Points
<1>8. ASSUME NEW i \in 1..Len(c)
      PROVE plain[i].blocks = Own(o, c, spot, i) /\ DOMAIN plain[i].blocks = 1..Len(c[i].blocks)
            /\ Len(Own(o, c, spot, i)) = Len(c[i].blocks)
  <2> DEFINE own == Own(o, c, spot, i)
  <2>1. /\ Rows(Len(plain[i].blocks), plain[i].blocks)
        /\ IF i = u THEN Piece(plain[i].blocks, own, 0, {}) ELSE plain[i].blocks = own
    BY <1>5, <1>6, <1>7 DEF Sent
  <2>2. Rows(Len(own), own) /\ Len(own) = Len(c[i].blocks)
    <3> DEFINE blocks == c[i].blocks
    <3>1. Rows(Len(blocks), blocks)
      BY ConversationShape
    <3> HIDE DEF blocks
    <3>2. Rows(Len(blocks), Copy(blocks, i, ttl, Points(o, c, spot))) /\ Len(Copy(blocks, i, ttl, Points(o, c, spot))) = Len(blocks)
      BY <3>1, CopyIsRows
    <3> QED
      BY <3>2 DEF Own, blocks
  <2> HIDE DEF own
  <2>3. ASSUME i = u PROVE plain[i].blocks = own
    <3> DEFINE sent == plain[i].blocks
    <3>1. Piece(sent, own, 0, {}) /\ Rows(Len(sent), sent)
      BY <2>1, <2>3
    <3> HIDE DEF sent
    <3>2. Len(sent) \in Nat /\ Len(own) \in Nat /\ sent = [j \in 1..Len(sent) |-> sent[j]] /\ own = [j \in 1..Len(own) |-> own[j]]
      BY <2>2, <3>1, RowsAreSeq
    <3>3. ASSUME NEW j \in 1..Len(own) PROVE j \in 1..Len(sent) /\ sent[j] = own[j]
      <4>1. 0 + j = j
        OBVIOUS
      <4>2. 0 + j \in 1..Len(sent) /\ sent[0 + j] = own[j]
        BY <3>1 DEF Piece
      <4> QED
        BY <4>1, <4>2
    <3>4. ASSUME NEW j \in 1..Len(sent) PROVE j \in 1..Len(own)
      <4>1. j - 0 = j
        OBVIOUS
      <4>2. j - 0 \in 1..Len(own)
        BY <3>1 DEF Piece
      <4> QED
        BY <4>1, <4>2
    <3>5. 1..Len(sent) = 1..Len(own)
      BY <3>3, <3>4
    <3>6. sent = own
      BY <3>2, <3>3, <3>5
    <3> QED
      BY <3>6 DEF sent
  <2>4. plain[i].blocks = own
    BY <2>1, <2>3
  <2>5. DOMAIN own = 1..Len(c[i].blocks)
    BY <2>2, RowsAreSeq
  <2> QED
    BY <2>2, <2>4, <2>5 DEF own
<1>9. DOMAIN d = DOMAIN c
  <2>1. DOMAIN d = 1..Len(c)
    BY <1>4, RowsAreSeq DEF Sent
  <2> QED
    BY <2>1, ConversationShape
<1>10. ASSUME NEW i \in DOMAIN c
       PROVE LET sent == d[i].blocks   own == plain[i].blocks
                 Late(added) == added.cache = "no" /\ \E k \in DOMAIN o.ephemeral : added.of = o.ephemeral[k].text
             IN /\ [j \in DOMAIN own |-> Body!Unmarked(own[j])] = c[i].blocks
                /\ \A j \in Body!Marks(own) : own[j].kind \notin Thought
                /\ \E m \in 0..Len(o.ephemeral) :
                     /\ \A j \in DOMAIN own : m + j \in DOMAIN sent /\ sent[m + j] = own[j]
                     /\ \A j \in DOMAIN sent : j - m \in DOMAIN own \/ Late(sent[j])
  <2> DEFINE sent == d[i].blocks
             own == plain[i].blocks
             Late(added) == added.cache = "no" /\ \E k \in DOMAIN o.ephemeral : added.of = o.ephemeral[k].text
  <2>1. i \in 1..Len(c)
    BY ConversationShape
  <2>2. own = Own(o, c, spot, i) /\ DOMAIN own = 1..Len(c[i].blocks) /\ Len(own) = Len(c[i].blocks)
    BY <1>8, <2>1
  <2>3. /\ Rows(Len(sent), sent)
        /\ IF i = u THEN Piece(sent, own, n, OnceTexts(o)) ELSE sent = own
    BY <1>4, <2>1, <2>2 DEF Sent
  <2>4. DOMAIN sent = 1..Len(sent)
    BY <2>3, RowsAreSeq
  <2>5. Rows(Len(c[i].blocks), c[i].blocks) /\ c[i].blocks = [j \in 1..Len(c[i].blocks) |-> c[i].blocks[j]]
    BY <2>1, ConversationShape, RowsAreSeq
  <2> HIDE DEF own, sent
  <2>6. ASSUME NEW j \in 1..Len(c[i].blocks) PROVE Body!Unmarked(own[j]) = c[i].blocks[j]
    <3>1. Body!Unmarked(Own(o, c, spot, i)[j]) = c[i].blocks[j]
      BY <2>1, UnmarkedIsStored
    <3> QED
      BY <2>2, <3>1
  <2>7. [j \in DOMAIN own |-> Body!Unmarked(own[j])] = c[i].blocks
    BY <2>2, <2>5, <2>6
  <2>8. ASSUME NEW j \in Body!Marks(own) PROVE own[j].kind \notin Thought
    <3>1. j \in 1..Len(c[i].blocks) /\ own[j].cache # "no"
      BY <2>2 DEF Body!Marks
    <3>2. <<i, j>> \in Points(o, c, spot) /\ own[j].kind = c[i].blocks[j].kind
      BY <2>1, <2>2, <3>1, MarkIsAPoint
    <3>3. CASE i = u /\ j = spot
      BY <1>3, <2>1, <3>1, <3>2, <3>3 DEF MovingMark
    <3>4. CASE ~(i = u /\ j = spot)
      <4> DEFINE m == Body!CacheLastUserMessage(c, ttl)
                 f == Body!FirstUser(c)
      <4>1. Prefixed(m, o.reminders, f) /\ i = f /\ j = o.reminders
        BY <3>2, <3>4 DEF Points
      <4>2. m[i].blocks = Copy(c[i].blocks, i, ttl, {<<u, spot>>})
        <5>1. MarkedBy(m, c, ttl, {<<u, spot>>})
          BY <1>3 DEF MovingMark
        <5> HIDE DEF m
        <5> QED
          BY <2>1, <5>1, MarkedKeepsShape
      <4>3. m[i].blocks[j] = c[i].blocks[j]
        BY <3>1, <3>4, <4>2 DEF Copy
      <4>4. c[i].blocks[j].kind = "reminder"
        BY <4>1, <4>3 DEF Prefixed
      <4> QED
        BY <3>2, <4>4 DEF Thought
    <3> QED
      BY <3>3, <3>4
  <2>9. \E m \in 0..Len(o.ephemeral) :
          /\ \A j \in DOMAIN own : m + j \in DOMAIN sent /\ sent[m + j] = own[j]
          /\ \A j \in DOMAIN sent : j - m \in DOMAIN own \/ Late(sent[j])
    <3>1. CASE i = u
      <4>1. \A j \in DOMAIN own : n + j \in DOMAIN sent /\ sent[n + j] = own[j]
        BY <2>2, <2>3, <2>4, <3>1 DEF Piece
      <4>2. \A j \in DOMAIN sent : j - n \in DOMAIN own \/ Late(sent[j])
        <5>1. \A x \in OnceTexts(o) : \E k \in DOMAIN o.ephemeral : x = o.ephemeral[k].text
          BY <1>1 DEF OnceTexts
        <5>2. ASSUME NEW j \in DOMAIN sent PROVE j - n \in DOMAIN own \/ (sent[j].cache = "no" /\ sent[j].of \in OnceTexts(o))
          BY <2>2, <2>3, <2>4, <3>1 DEF Piece
        <5> QED
          BY <5>1, <5>2
      <4> QED
        BY <4>1, <4>2
    <3>2. CASE i # u
      <4>1. sent = own /\ 0 \in 0..Len(o.ephemeral)
        BY <1>1, <2>3, <3>2
      <4>2. \A j \in DOMAIN own : 0 + j = j /\ j - 0 = j
        BY <2>2
      <4> HIDE DEF Late
      <4> QED
        BY <4>1, <4>2
    <3> QED
      BY <3>1, <3>2
  <2> QED
    BY <2>7, <2>8, <2>9 DEF own, sent
<1> QED
  BY <1>9, <1>10 DEF Body!RemindersLeaveTheCacheAlone, Thought, bare

LEMMA OptionsDoAgree ==
  ASSUME options \in Options, request = Body!BuildRequestParams(options, conversation)
  PROVE Body!OptionsAgree
<1> DEFINE o == options
           cleared == IF Body!ResolveCapabilities(o.betas)["management"] THEN <<"clear_thinking", "clear_tool_uses">> ELSE <<>>
           compacted == IF o.compact THEN <<"compact">> ELSE <<>>
<1>1. Body!IsOptions(o)
  BY RequestMade
<1>2. /\ request.thinking = o.thinking /\ request.effort = IF o.thinking THEN o.effort ELSE "none"
      /\ request.headers = {b \in DOMAIN o.betas : o.betas[b]} \cup (IF o.compact THEN {"compact"} ELSE {})
      /\ request.edits = cleared \o compacted
  BY DEF Body!BuildRequestParams, Body!Edits
<1>3. "compact" \in request.headers <=> o.compact
  BY <1>1, <1>2 DEF Body!IsOptions
<1>4. "compact" \in Body!Seqs!ToSet(cleared \o compacted) <=> o.compact
  <2> DEFINE X == {"clear_thinking", "clear_tool_uses", "compact"}
  <2>1. cleared \in Seq(X) /\ compacted \in Seq(X)
    <3>1. <<"clear_thinking", "clear_tool_uses">> \in Seq(X) /\ <<"compact">> \in Seq(X) /\ <<>> \in Seq(X)
      OBVIOUS
    <3> HIDE DEF X
    <3> QED
      BY <3>1
  <2>2. \A i \in 1..Len(cleared) : cleared[i] # "compact"
    OBVIOUS
  <2>3. IF o.compact THEN Len(compacted) = 1 /\ compacted[1] = "compact" ELSE Len(compacted) = 0
    OBVIOUS
  <2> HIDE DEF cleared, compacted, X
  <2>4. /\ Len(cleared) \in Nat /\ Len(compacted) \in Nat
        /\ DOMAIN (cleared \o compacted) = 1..(Len(cleared) + Len(compacted))
        /\ \A i \in 1..(Len(cleared) + Len(compacted)) :
             (cleared \o compacted)[i] = IF i <= Len(cleared) THEN cleared[i] ELSE compacted[i - Len(cleared)]
    BY <2>1, ConcatProperties, LenProperties
  <2>5. CASE o.compact
    <3> DEFINE n == Len(cleared)
    <3>1. (cleared \o compacted)[n + 1] = "compact" /\ n + 1 \in DOMAIN (cleared \o compacted)
      <4>1. n \in Nat /\ Len(compacted) = 1 /\ compacted[1] = "compact"
        BY <2>3, <2>4, <2>5
      <4> HIDE DEF n
      <4>2. n + 1 \in 1..(n + 1) /\ ~(n + 1 <= n) /\ n + 1 - n = 1
        BY <4>1
      <4>3. DOMAIN (cleared \o compacted) = 1..(n + 1)
        BY <2>4, <4>1 DEF n
      <4>4. (cleared \o compacted)[n + 1] = compacted[n + 1 - n]
        <5>1. n + 1 \in 1..(n + Len(compacted))
          BY <4>1, <4>2
        <5>2. (cleared \o compacted)[n + 1] = IF n + 1 <= n THEN cleared[n + 1] ELSE compacted[n + 1 - n]
          BY <2>4, <5>1 DEF n
        <5> QED
          BY <4>2, <5>2
      <4> QED
        BY <4>1, <4>2, <4>3, <4>4
    <3> QED
      BY <2>5, <3>1 DEF Body!Seqs!ToSet
  <2>6. CASE ~o.compact
    <3>1. \A i \in DOMAIN (cleared \o compacted) : (cleared \o compacted)[i] # "compact"
      BY <2>2, <2>3, <2>4, <2>6
    <3> QED
      BY <2>6, <3>1 DEF Body!Seqs!ToSet
  <2> QED
    BY <2>5, <2>6
<1> QED
  BY <1>2, <1>3, <1>4 DEF Body!OptionsAgree

BodyInv ==
  /\ options \in Options /\ Body!IsConversation(conversation)
  /\ request = Body!BuildRequestParams(options, conversation)

LEMMA BodyInit == ASSUME Body!Init PROVE BodyInv
  BY RequestConstants DEF Body!Init, Body!RequestAssumption, BodyInv

LEMMA RowsIsSeq == ASSUME NEW n, NEW f, Rows(n, f) PROVE Body!IsSeq(f)
<1>1. n \in Nat /\ DOMAIN f = 1..n /\ f = [i \in 1..n |-> f[i]]
  BY RowsAreSeq
<1>2. f \in [1..n -> {f[i] : i \in 1..n}]
  BY <1>1
<1> QED
  BY <1>1, <1>2, SeqDef DEF Body!IsSeq

LEMMA BodyStepKeeps == ASSUME BodyInv, Body!Next PROVE BodyInv'
<1>1. PICK reply \in Body!Replies : Body!Grow(reply)
  BY DEF Body!Next
<1>2. Body!IsConversation(reply)
  <2> DEFINE use == <<Body!Block("thinking", "t"), Body!Block("tool_use", "u")>>
             result == <<Body!Block("tool_result", "r")>>
             said == [role |-> "assistant", bare |-> FALSE, blocks |-> use]
             back == [role |-> "user", bare |-> FALSE, blocks |-> result]
  <2>1. reply = <<said, back>>
    BY DEF Body!Replies
  <2>2. Body!IsSeq(use) /\ \A j \in DOMAIN use : Body!IsBlock(use[j])
    <3>1. DOMAIN use = 1..2 /\ use = [j \in DOMAIN use |-> use[j]] /\ Body!IsBlock(use[1]) /\ Body!IsBlock(use[2])
      BY DEF Body!IsBlock, Body!Block
    <3> HIDE DEF use
    <3>2. Rows(2, use)
      BY <3>1, RowsOf
    <3> QED
      BY <3>1, <3>2, RowsIsSeq
  <2>3. Body!IsSeq(result) /\ \A j \in DOMAIN result : Body!IsBlock(result[j])
    <3>1. DOMAIN result = 1..1 /\ result = [j \in DOMAIN result |-> result[j]] /\ Body!IsBlock(result[1])
      BY DEF Body!IsBlock, Body!Block
    <3> HIDE DEF result
    <3>2. Rows(1, result)
      BY <3>1, RowsOf
    <3> QED
      BY <3>1, <3>2, RowsIsSeq
  <2> HIDE DEF use, result
  <2>4. Body!IsMessage(said) /\ Body!IsMessage(back)
    BY <2>2, <2>3 DEF Body!IsMessage
  <2> HIDE DEF said, back
  <2>5. DOMAIN reply = 1..2 /\ reply = [i \in DOMAIN reply |-> reply[i]] /\ reply[1] = said /\ reply[2] = back
    BY <2>1
  <2>6. Rows(2, reply)
    BY <2>5, RowsOf
  <2> QED
    BY <2>4, <2>5, <2>6, RowsIsSeq DEF Body!IsConversation
<1>3. Body!IsConversation(conversation \o reply)
  <2>1. /\ Rows(Len(conversation), conversation) /\ \A i \in 1..Len(conversation) : Body!IsMessage(conversation[i])
        /\ Rows(Len(reply), reply) /\ \A i \in 1..Len(reply) : Body!IsMessage(reply[i])
    BY <1>2, ConversationShape DEF BodyInv
  <2> DEFINE c == conversation \o reply
  <2>2. Rows(Len(c), c) /\ \A i \in 1..Len(c) : Body!IsMessage(c[i])
    BY <2>1, RowsJoined
  <2> HIDE DEF c
  <2>3. Body!IsSeq(c) /\ DOMAIN c = 1..Len(c)
    BY <2>2, RowsIsSeq, RowsAreSeq
  <2>4. Body!IsConversation(c)
    BY <2>2, <2>3 DEF Body!IsConversation
  <2> QED
    BY <2>4 DEF c
<1> QED
  BY <1>1, <1>3 DEF BodyInv, Body!Grow

LEMMA BodyInvIsEnough == ASSUME BodyInv PROVE Body!RequestSound
  BY FourAtMost, RemindersLeaveTheCache, PrefixIsPinned, OptionsDoAgree DEF BodyInv, Body!RequestSound

-----------------------------------------------------------------------------
(* Who is not the subject stands still, and what is known of it with it.     *)
LEMMA OthersStandStill ==
  /\ ViewInv /\ UNCHANGED view => ViewInv'
  /\ CatalogInv /\ UNCHANGED catalog => CatalogInv'
  /\ DeltasInv /\ UNCHANGED deltas => DeltasInv'
  /\ LifeInv /\ UNCHANGED life => LifeInv'
  /\ OfferInv /\ UNCHANGED offer => OfferInv'
<1>1. ViewInv /\ UNCHANGED view => ViewInv'
  BY DEF ViewInv, view
<1>2. CatalogInv /\ UNCHANGED catalog => CatalogInv'
  BY DEF CatalogInv, catalog
<1>3. DeltasInv /\ UNCHANGED deltas => DeltasInv'
  BY DEF DeltasInv, deltas, BaselineHolds, ToldWhateverThePhase, DivergesInOne,
    Body!DeltaIsTheUsers, Body!DivergenceInOneRepository, Body!Snapshot, Body!Changed, Body!None
<1>4. LifeInv /\ UNCHANGED life => LifeInv'
  BY DEF LifeInv, life, LifeTypes, WatchesCounted, WaysAgree, Life!AttachedWhereItIs, Life!Running, LeftUnlessLate,
    Life!QuietOnTheWayOut, Life!ScreenGivenBack
<1>5. OfferInv /\ UNCHANGED offer => OfferInv'
  <2> SUFFICES ASSUME OfferInv, UNCHANGED offer PROVE OfferInv'
    OBVIOUS
  <2>1. UNCHANGED <<config, stage, offered, items, calls, verdict, judged, stirred, loaded>>
    BY DEF offer
  <2>2. ItemsOK' /\ BatchOK' /\ OfferOK'
    BY <2>1 DEF OfferInv, ItemsOK, BatchOK, OfferOK
  <2>3. Body!LoadedSkillNames' = Body!LoadedSkillNames
    BY <2>1 DEF Body!LoadedSkillNames, Body!Opens, Body!BlockOf
  <2>4. Body!SkillsFirst' /\ Body!OfferedIsCallable'
    BY <2>1, <2>3 DEF OfferInv, Body!SkillsFirst, Body!OfferedIsCallable, Body!NameOf, Body!BlockOf
  <2> QED
    BY <2>1, <2>2, <2>3, <2>4 DEF OfferInv
<1> QED
  BY <1>1, <1>2, <1>3, <1>4, <1>5

(* For any conversations, directories, screens, files and skills, and any number  *)
(* of moves, failures, resizes and changes: each watch is held once until the one  *)
(* clean exit gives back the screen, the watches and the place on the bus; what    *)
(* the model is told of the world is what changed; a list of models is asked for   *)
(* once; and a frame fits the screen it is painted on.                             *)
(* [runApp, ConversationMover, GitStateMonitor, ModelCatalog, TerminalRenderer]     *)
THEOREM ProcessAlwaysSound == Spec => []ProcessSound
<1> DEFINE Inv == LifeInv /\ DeltasInv /\ CatalogInv /\ ViewInv
<1>1. Init => Inv
  BY LifeInit, DeltasInit, CatalogInit, ViewInit DEF Init
<1>2. Inv /\ [Next]_all => Inv'
  <2> SUFFICES ASSUME Inv, [Next]_all PROVE Inv'
    OBVIOUS
  <2> USE DEF Next, all, LifeStep, ViewStep, CatalogStep, DeltasStep, OfferStep, BodyStep, ServerStep, LoginsStep
  <2>1. (Life!Next \/ UNCHANGED life) /\ (Body!NextDeltas \/ UNCHANGED deltas)
    OBVIOUS
  <2>2. (Body!NextCatalog \/ UNCHANGED catalog) /\ (View!Next \/ UNCHANGED view)
    OBVIOUS
  <2>3. LifeInv' /\ DeltasInv'
    BY <2>1, LifeStepKeeps, DeltasStepKeeps, OthersStandStill
  <2>4. CatalogInv' /\ ViewInv'
    BY <2>2, CatalogStepKeeps, ViewStepKeeps, OthersStandStill
  <2> QED
    BY <2>3, <2>4
<1>3. Inv => ProcessSound
  BY LifeInvIsEnough, DeltasInvIsEnough, CatalogInvIsEnough, ViewInvIsEnough DEF ProcessSound
<1> QED
  BY <1>1, <1>2, <1>3, PTL DEF Spec

(* For any tools, skills, configurations, callers and tokens, any number of blocks, *)
(* calls, logins, reloads and mishaps: no tool runs before its skills are loaded;   *)
(* nobody waits on a server that is gone, and an answer is for who asked, of the    *)
(* block's own server; there is one login for all who wait, also where logins throw,  *)
(* and none of those who wait waits for one that is over; nothing but a login that    *)
(* threw keeps an entry from being logged in for again; no older session takes a      *)
(* newer one's place, and what is handed out is alive and has its directory.          *)
(* [ToolRegistry, SkillGate, TsServerBridge, TsServerClient, AzSessionCache]          *)
THEOREM CallsAlwaysSound == Spec => []CallsSound
<1> DEFINE Inv == OfferInv /\ ServerInv /\ LoginsInv
<1>1. Init => Inv
  BY OfferInit, ServerInit, LoginsInit DEF Init
<1>2. Inv /\ [Next]_all => Inv'
  <2> SUFFICES ASSUME Inv, [Next]_all PROVE Inv'
    OBVIOUS
  <2>1. (Body!NextOffer \/ UNCHANGED offer) /\ (Server!Next \/ UNCHANGED server) /\ (Logins!Next \/ UNCHANGED logins)
    BY DEF Next, all, LifeStep, ViewStep, CatalogStep, DeltasStep, OfferStep, BodyStep, ServerStep, LoginsStep
  <2>2. UNCHANGED server => UNCHANGED Server!vars
    BY DEF server, Server!vars, Server!bridge, Server!server
  <2>3. UNCHANGED logins => UNCHANGED Logins!vars
    BY DEF logins, Logins!vars
  <2>4. OfferInv'
    BY <2>1, OfferStepKeeps, OthersStandStill
  <2>5. ServerInv' /\ LoginsInv'
    BY <2>1, <2>2, <2>3, ServerStepKeeps, ServerStutterKeeps, LoginsStepKeeps, LoginsStutterKeeps
  <2> QED
    BY <2>4, <2>5
<1>3. Inv => CallsSound
  BY OfferInvIsEnough, ServerInvIsEnough, LoginsInvIsEnough DEF CallsSound
<1> QED
  BY <1>1, <1>2, <1>3, PTL DEF Spec

(* For any options and conversations: a request has four cache breakpoints at most,  *)
(* of the lifetime asked for; the prefix's stays where it is as the conversation     *)
(* grows; what is sent once leaves the stored blocks and their marks in one piece;   *)
(* no option is sent without the one it needs.                                       *)
(* [buildRequestParams, cacheLastUserMessage, cacheClaudeMdPrefix]                    *)
THEOREM RequestsAlwaysSound == Spec => []RequestsSound
<1> DEFINE Inv == subject = "body" => BodyInv
<1>1. Init => Inv
  BY BodyInit DEF Init
<1>2. Inv /\ [Next]_all => Inv'
  <2> SUFFICES ASSUME Inv, [Next]_all PROVE Inv'
    OBVIOUS
  <2>1. UNCHANGED subject /\ (subject = "body" => Body!Next \/ UNCHANGED body)
    BY DEF Next, all, LifeStep, ViewStep, CatalogStep, DeltasStep, OfferStep, BodyStep, ServerStep, LoginsStep
  <2>2. BodyInv /\ UNCHANGED body => BodyInv'
    BY DEF BodyInv, body
  <2> QED
    BY <2>1, <2>2, BodyStepKeeps
<1>3. Inv => RequestsSound
  BY BodyInvIsEnough DEF RequestsSound
<1> QED
  BY <1>1, <1>2, <1>3, PTL DEF Spec
=============================================================================
