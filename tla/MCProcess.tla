----------------------------- MODULE MCProcess -----------------------------
(***************************************************************************)
(* What a process does around its turns, one part at a time: its way up,   *)
(* its moves and its one clean exit; the tools it offers and the request   *)
(* it builds; what it tells the model of the world; the list of models;    *)
(* the screen; the type server and the logins its tools share.  A          *)
(* behaviour is that of the subject chosen at the start, the others stand  *)
(* still.                                                                  *)
(***************************************************************************)
EXTENDS Integers, Sequences, FiniteSets

CONSTANTS
  Convs, Dirs, Unsaid, Detached,
  Sizes, MaxResizes, MaxChanges,
  Askers, MaxFailures,
  Files, Skills, MaxTouches,
  Tools, Stranger, Accounted, Required, Configs, MaxCalls, MaxReloads,
  Options, Conversations,
  TsTools, FileOf, Requests, MaxBlocks, MaxMishaps,
  Callers, Lifetimes, Fallback, MaxNow, MaxLogins

VARIABLES
  subject,
  at, exit, cleaning, sigint, screen, enabled, conn, pulsing, sweeping, word, bound, conv, dir, moving, target, open, held,
  stranded, late,
  terminal, size, resizing, renderPending, disposed, queued, unpainted, fitted, ghost, resizes, changes,
  cache, inFlight, fetches, asker, misses, after,
  heads, dirty, skills, cwd, previous, current, hashes, lastCwd, phase, delta, message, knows, touched, slipped, lost, touches,
  config, stage, offered, items, calls, verdict, judged, reloads, stirred, loaded,
  options, conversation, request,
  startPromise, block, state, awaits, proc, started, seq, unanswered, openFiles, buffer, alive, inbox, stdout,
  spawned, deaths, wides, answers,
  cert, entry, session, refreshing, login, disk, tracked, now, waits, got, exited, newest

-----------------------------------------------------------------------------
(* Offers: a tool behind one skill or two, disabled or not; one whose account   *)
(* comes and goes; Skill itself named among the gated, a mistake.               *)
Gate(edit, az) == [Skill |-> {"s1"}, Edit |-> edit, AzCli |-> az]
SomeConfigs ==
  {[off |-> {}, required |-> Gate({"s1"}, {}), account |-> FALSE],
   [off |-> {"Edit"}, required |-> Gate({}, {}), account |-> TRUE],
   [off |-> {}, required |-> Gate({"s1", "s2"}, {"s1"}), account |-> TRUE]}

(* Requests: empty, bare, led by reminders, ending in thinking, compacted.       *)
Block(kind, of)   == [kind |-> kind, of |-> of, cache |-> "no"]
Msg(role, blocks) == [role |-> role, bare |-> FALSE, blocks |-> blocks]
Reminders(n)      == [i \in 1..n |-> Block("reminder", <<"md", "hour">>[i])]
SomeConversations ==
  {<<>>, <<[role |-> "user", bare |-> TRUE, blocks |-> <<Block("text", "a")>>]>>,
   <<Msg("user", Append(Reminders(2), Block("text", "a")))>>, <<Msg("user", Reminders(1))>>,
   <<Msg("user", <<Block("text", "a")>>), Msg("assistant", <<Block("thinking", "t")>>)>>,
   <<Msg("assistant", <<Block("compaction", "k")>>), Msg("user", Append(Reminders(2), Block("thinking", "t")))>>}
Once(text, position) == [text |-> text, position |-> position]
SomeOptions ==
  {[tools |-> t, serverTools |-> <<"search">>, prompts |-> p, reminders |-> r, ephemeral |-> e, ttl |-> l, thinking |-> h,
    effort |-> "high", compact |-> h, betas |-> b] :
     t \in {<<>>, <<"Edit">>}, p \in {<<>>, <<"p">>}, r \in 0..3, l \in {"1h", "unset"}, h \in BOOLEAN,
     e \in {<<>>, <<Once("git", "trailing")>>, <<Once("cwd", "leading"), Once("git", "trailing"), Once("x", "leading")>>},
     b \in {<<>>, [management |-> TRUE, scope |-> FALSE]}}

(* The type server: diagnostics, two requests, and a hover about one file. *)
SameFile     == [diagnostics |-> "f", hover |-> "f"]
SomeRequests == [diagnostics |-> 2, hover |-> 1]

-----------------------------------------------------------------------------
Life    == INSTANCE Lifecycle
View    == INSTANCE ViewPaint WITH screen <- terminal, dirty <- unpainted
Body    == INSTANCE RequestBuilder WITH Unknown <- Stranger, Skills <- Required, Catalogued <- Skills
Server  == INSTANCE TypeServer WITH Tools <- TsTools, pending <- unanswered, waits <- awaits
Logins  == INSTANCE AzSessions

ASSUME ServerConstants == Server!RequestsAssumption
ASSUME LoginConstants == Logins!LifetimesAssumption
ASSUME RequestConstants == Body!RequestAssumption

life    == <<at, exit, cleaning, sigint, screen, enabled, conn, pulsing, sweeping, word, bound, conv, dir, moving, target,
             open, held, stranded, late>>
view    == <<terminal, size, resizing, renderPending, disposed, queued, unpainted, fitted, ghost, resizes, changes>>
catalog == <<cache, inFlight, fetches, asker, misses, after>>
deltas  == <<heads, dirty, skills, cwd, previous, current, hashes, lastCwd, phase, delta, message, knows, touched, slipped,
             lost, touches>>
offer   == <<config, stage, offered, items, calls, verdict, judged, reloads, stirred, loaded>>
body    == <<options, conversation, request>>
server  == <<startPromise, block, state, awaits, proc, started, seq, unanswered, openFiles, buffer, alive, inbox, stdout,
             spawned, deaths, wides, answers>>
logins  == <<cert, entry, session, refreshing, login, disk, tracked, now, waits, got, exited, newest>>
all     == <<subject, life, view, catalog, deltas, offer, body, server, logins>>

Init ==
  /\ subject \in {"life", "view", "catalog", "deltas", "offer", "body", "server", "logins"}
  /\ IF subject = "body" THEN Body!Init
     ELSE options = <<>> /\ conversation = <<>> /\ request = <<>>
  /\ Life!Init /\ View!Init /\ Body!InitCatalog /\ Body!InitDeltas /\ Body!InitOffer /\ Server!Init /\ Logins!Init
  /\ subject # "life"   => enabled = FALSE /\ conv = (CHOOSE c \in Convs : TRUE) /\ dir = (CHOOSE d \in Dirs : TRUE)
  /\ subject # "view"   => terminal = CHOOSE s \in Sizes : TRUE
  /\ subject # "deltas" => skills = [s \in Skills |-> 0] /\ cwd = CHOOSE d \in Dirs : TRUE
  /\ subject # "offer"  => config = CHOOSE c \in Configs : TRUE
  /\ subject # "logins" => cert = FALSE

LifeStep    == subject = "life" /\ Life!Next /\ UNCHANGED <<view, catalog, deltas, offer, body, server, logins>>
ViewStep    == subject = "view" /\ View!Next /\ UNCHANGED <<life, catalog, deltas, offer, body, server, logins>>
CatalogStep == subject = "catalog" /\ Body!NextCatalog /\ UNCHANGED <<life, view, deltas, offer, body, server, logins>>
DeltasStep  == subject = "deltas" /\ Body!NextDeltas /\ UNCHANGED <<life, view, catalog, offer, body, server, logins>>
OfferStep   == subject = "offer" /\ Body!NextOffer /\ UNCHANGED <<life, view, catalog, deltas, body, server, logins>>
BodyStep    == subject = "body" /\ Body!Next /\ UNCHANGED <<life, view, catalog, deltas, offer, server, logins>>
ServerStep  == subject = "server" /\ Server!Next /\ UNCHANGED <<life, view, catalog, deltas, offer, body, logins>>
LoginsStep  == subject = "logins" /\ Logins!Next /\ UNCHANGED <<life, view, catalog, deltas, offer, body, server>>

Next ==
  /\ UNCHANGED subject
  /\ \/ LifeStep \/ ViewStep \/ CatalogStep \/ DeltasStep
     \/ OfferStep \/ BodyStep \/ ServerStep \/ LoginsStep

(* The fairness of the components' own specifications. *)
Spec ==
  /\ Init /\ [][Next]_all
  /\ WF_Life!vars(subject = "life" /\ Life!TimesOut)
  /\ WF_View!vars(subject = "view" /\ View!Immediate)
  /\ WF_View!vars(subject = "view" /\ View!ClockTick)
  /\ WF_View!vars(subject = "view" /\ View!ResizeSettles)
  /\ WF_Server!vars(subject = "server" /\ Server!TimerFires)
  /\ WF_Logins!vars(subject = "logins" /\ Logins!SomeStep)

-----------------------------------------------------------------------------
(* What the process holds it gives back, what it says of itself and of the world   *)
(* is so, a list of models is asked for once, a frame fits its screen.             *)
ProcessSound == Life!LifecycleSound /\ Body!DeltasSound /\ Body!CatalogSound /\ View!PaintsSound

(* A call runs with what it needs: its tool on offer, the skills behind it loaded; *)
(* and those who share a process or a login share it without a mix-up: an answer   *)
(* is for who asked and of the server of its block, a session is alive when it is  *)
(* handed out and its directory there, and a login that fails is in nobody's way   *)
(* unless it threw.                                                                *)
CallsSound == Body!OfferSound /\ Server!TypeServerSound /\ Logins!AzSound

(* What a request carries is what it was made of: the blocks as they are stored,   *)
(* and the breakpoints where the cache finds them again.                           *)
RequestsSound == subject = "body" => Body!RequestSound

(* What has begun ends: a cleanup, a paint, a tool of the type server, and the     *)
(* wait for a session, which comes or is an error.                                 *)
ProcessSettles ==
  /\ subject = "life"   => Life!CleanupEnds
  /\ subject = "view"   => View!ChangesAreSeen
  /\ subject = "server" => Server!ToolsSettle
  /\ subject = "logins" => Logins!CallersAnswered
=============================================================================
