--------------------------- MODULE RequestBuilder ---------------------------
(***************************************************************************)
(* What a request carries.                                                 *)
(*                                                                         *)
(* Its body, Init and Next: buildRequestParams makes it from the durable   *)
(* options and a clone of the conversation, and above all decides where    *)
(* its cache breakpoints fall.  A block is [kind, of, cache], cache "no"   *)
(* or the lifetime asked for, "unset" leaving it to the API; a message is  *)
(* [role, bare, blocks], bare for a content that is a plain string.        *)
(*                                                                         *)
(* The tools it offers and which calls of the reply may run, InitOffer and *)
(* NextOffer: the tools the configuration disables, those that need an     *)
(* account, and those that need skills loaded earlier in the conversation. *)
(* The configuration is read again at the request and at each call, and    *)
(* may change between.                                                     *)
(*                                                                         *)
(* What it tells the model of the world it did not see change, InitDeltas  *)
(* and NextDeltas: the git state since its own last snapshot, the skills   *)
(* since the last scan, the directory since the last turn.  Read in this   *)
(* order before the query, between the awaits of which anybody may change  *)
(* anything.                                                               *)
(*                                                                         *)
(* The models on offer, InitCatalog and NextCatalog: ModelCatalog.list is  *)
(* fetched once for all who ask while it is under way, kept once it has    *)
(* come, asked again after a failure.                                      *)
(***************************************************************************)
EXTENDS Integers, Sequences, FiniteSets
Seqs == INSTANCE SequencesExt

CONSTANTS
  Options,                    \* the options of a request, see Init
  Conversations               \* the conversations requests are made of

VARIABLES
  options,                    \* [tools, serverTools, prompts, reminders, ephemeral, ttl, thinking, effort, compact, betas]
  conversation,
  request

vars == <<options, conversation, request>>

Block(kind, of)      == [kind |-> kind, of |-> of, cache |-> "no"]
Cached(block, ttl)   == [block EXCEPT !.cache = ttl]
LastUser(messages)   == Seqs!SelectLastInSeq(messages, LAMBDA msg : msg.role = "user")
FirstUser(messages)  == Seqs!SelectInSeq(messages, LAMBDA msg : msg.role = "user")

(* Records as they come: unmarked, in sequences. *)
IsSeq(s)         == s \in Seq({s[i] : i \in DOMAIN s})
IsBlock(b)       == b = Block(b.kind, b.of)
IsMessage(msg)   == /\ msg = [role |-> msg.role, bare |-> msg.bare, blocks |-> msg.blocks]
                    /\ IsSeq(msg.blocks) /\ \A j \in DOMAIN msg.blocks : IsBlock(msg.blocks[j])
IsConversation(c) == IsSeq(c) /\ \A i \in DOMAIN c : IsMessage(c[i])
IsOptions(o) ==
  /\ {"tools", "serverTools", "prompts", "reminders", "ephemeral", "ttl", "thinking", "effort", "compact", "betas"} \subseteq DOMAIN o
  /\ IsSeq(o.tools) /\ IsSeq(o.serverTools) /\ IsSeq(o.prompts) /\ IsSeq(o.ephemeral)
  /\ o.reminders \in Nat /\ o.compact \in BOOLEAN /\ o.ttl # "no" /\ "compact" \notin DOMAIN o.betas
RequestAssumption == (\A o \in Options : IsOptions(o)) /\ (\A c \in Conversations : IsConversation(c))

-----------------------------------------------------------------------------
(* Variant: on the last block, whatever it is. *)
AddCacheControlToAnyBlock(msg, ttl) ==
  LET at == Len(msg.blocks) IN
  [msg EXCEPT !.bare = FALSE, !.blocks = IF at = 0 THEN @ ELSE [msg.blocks EXCEPT ![at] = Cached(msg.blocks[at], ttl)]]

(* The moving breakpoint, on the last block that is not thinking. *)
AddCacheControlToLastBlock(msg, ttl) ==
  LET at == Seqs!SelectLastInSeq(msg.blocks, LAMBDA b : b.kind \notin {"thinking", "redacted_thinking"}) IN
  [msg EXCEPT !.bare = FALSE, !.blocks = IF at = 0 THEN @ ELSE [msg.blocks EXCEPT ![at] = Cached(msg.blocks[at], ttl)]]

CacheLastUserMessage(messages, ttl) ==
  LET i == LastUser(messages) IN
  IF i = 0 THEN messages ELSE [messages EXCEPT ![i] = AddCacheControlToLastBlock(@, ttl)]

(* The fixed one, on the last of the reminders that lead the first user message. *)
CacheClaudeMdPrefix(messages, count, ttl) ==
  LET i == FirstUser(messages) IN
  IF i # 0 /\ count > 0 /\ ~messages[i].bare /\ count <= Len(messages[i].blocks) /\ messages[i].blocks[count].kind = "reminder"
    THEN [messages EXCEPT ![i].blocks[count] = Cached(@, ttl)]
    ELSE messages

(* What goes with this request only: before the head of the last user message,   *)
(* or behind its breakpoint.                                                      *)
Place(blocks, e) ==
  IF e.position = "leading" THEN <<Block("reminder", e.text)>> \o blocks ELSE Append(blocks, Block("reminder", e.text))

Inject(messages, ephemeral) ==
  LET i == LastUser(messages)
      Placed[n \in 0..Len(ephemeral)] == IF n = 0 THEN messages[i].blocks ELSE Place(Placed[n - 1], ephemeral[n])
  IN IF i = 0 THEN messages ELSE [messages EXCEPT ![i].blocks = Placed[Len(ephemeral)]]

CacheLast(entries, ttl) == IF entries = <<>> THEN entries ELSE [entries EXCEPT ![Len(entries)] = Cached(@, ttl)]
ToWireTool(name)        == Block("tool", name)
Lifetime(ttl)           == IF ttl = "unset" THEN "1h" ELSE ttl

ResolveCapabilities(betas) == [b \in {"management", "scope", "tooluse"} |-> b \in DOMAIN betas /\ betas[b]]
Edits(o) ==
  (IF ResolveCapabilities(o.betas)["management"] THEN <<"clear_thinking", "clear_tool_uses">> ELSE <<>>)
  \o (IF o.compact THEN <<"compact">> ELSE <<>>)

BuildRequestParams(o, c) ==
  LET marked == CacheClaudeMdPrefix(CacheLastUserMessage(c, Lifetime(o.ttl)), o.reminders, Lifetime(o.ttl)) IN
  [messages |-> Inject(marked, o.ephemeral),
   tools    |-> CacheLast([i \in DOMAIN o.serverTools |-> Block("server", o.serverTools[i])]
                          \o [i \in DOMAIN o.tools |-> ToWireTool(o.tools[i])], o.ttl),
   system   |-> CacheLast(<<Block("text", "prefix")>> \o [i \in DOMAIN o.prompts |-> Block("text", o.prompts[i])], o.ttl),
   edits    |-> Edits(o),
   scope    |-> ResolveCapabilities(o.betas)["scope"],
   thinking |-> o.thinking,
   effort   |-> IF o.thinking THEN o.effort ELSE "none",
   headers  |-> {b \in DOMAIN o.betas : o.betas[b]} \cup (IF o.compact THEN {"compact"} ELSE {})]

-----------------------------------------------------------------------------
Init ==
  /\ options \in Options /\ conversation \in Conversations
  /\ request = BuildRequestParams(options, conversation)

(* The next request of the same query: the conversation has grown. *)
Grow(reply) ==
  /\ Len(conversation) < 4
  /\ conversation' = conversation \o reply
  /\ request' = BuildRequestParams(options, conversation')
  /\ UNCHANGED options

Replies == {<<[role |-> "assistant", bare |-> FALSE, blocks |-> <<Block("thinking", "t"), Block("tool_use", "u")>>],
              [role |-> "user", bare |-> FALSE, blocks |-> <<Block("tool_result", "r")>>]>>}
Next == \E reply \in Replies : Grow(reply)
Spec == Init /\ [][Next]_vars

-----------------------------------------------------------------------------
Unmarked(block) == [block EXCEPT !.cache = "no"]
Marks(blocks)   == {i \in DOMAIN blocks : blocks[i].cache # "no"}
MarksIn(msgs)   == UNION {{<<i, j>> : j \in Marks(msgs[i].blocks)} : i \in DOMAIN msgs}

(* The API takes four breakpoints, of one lifetime where one is asked for: a request *)
(* has one for the tools, one for the prompts and two in its messages at the most.    *)
FourBreakpoints ==
  LET used == {request.tools[i].cache : i \in Marks(request.tools)} \cup {request.system[i].cache : i \in Marks(request.system)}
              \cup {request.messages[at[1]].blocks[at[2]].cache : at \in MarksIn(request.messages)}
  IN /\ Cardinality(Marks(request.tools)) + Cardinality(Marks(request.system)) + Cardinality(MarksIn(request.messages)) <= 4
     /\ options.ttl # "unset" => used \subseteq {options.ttl}

(* What is sent once does not move a breakpoint: it stands before and behind the      *)
(* stored blocks, unmarked; these are sent in one piece, marked where they would be    *)
(* without it, and all that trails is behind the moving breakpoint.                    *)
RemindersLeaveTheCacheAlone ==
  LET plain == BuildRequestParams([options EXCEPT !.ephemeral = <<>>], conversation).messages
      Once(block) == block.cache = "no" /\ \E k \in DOMAIN options.ephemeral : block.of = options.ephemeral[k].text
  IN /\ DOMAIN request.messages = DOMAIN conversation
     /\ \A i \in DOMAIN conversation :
          LET sent == request.messages[i].blocks   own == plain[i].blocks IN
          /\ [j \in DOMAIN own |-> Unmarked(own[j])] = conversation[i].blocks
          /\ \A j \in Marks(own) : own[j].kind \notin {"thinking", "redacted_thinking"}
          /\ \E n \in 0..Len(options.ephemeral) :
               /\ \A j \in DOMAIN own : n + j \in DOMAIN sent /\ sent[n + j] = own[j]
               /\ \A j \in DOMAIN sent : j - n \in DOMAIN own \/ Once(sent[j])

(* The breakpoint of the prefix stays where it is as the conversation grows. *)
PrefixPinned ==
  LET i == FirstUser(conversation) IN
  (i # 0 /\ i # LastUser(conversation)) =>
     Marks(request.messages[i].blocks) =
       IF options.reminders \in DOMAIN conversation[i].blocks /\ conversation[i].blocks[options.reminders].kind = "reminder"
          /\ ~conversation[i].bare
         THEN {options.reminders} ELSE {}

(* An option the API refuses without another is not sent without it. *)
OptionsAgree ==
  /\ ~request.thinking => request.effort = "none"
  /\ "compact" \in request.headers <=> "compact" \in Seqs!ToSet(request.edits)

RequestSound == FourBreakpoints /\ RemindersLeaveTheCacheAlone /\ PrefixPinned /\ OptionsAgree

-----------------------------------------------------------------------------
(* The tools on offer. *)
CONSTANTS
  Tools,                      \* the registered tools, "Skill" one of them
  Unknown,                    \* a name the model makes up
  Accounted,                  \* the tools that need an account
  Skills,
  Configs,                    \* [off, required, account], required a function on Tools
  MaxCalls, MaxReloads        \* bounds on the calls and on the reloads

VARIABLES
  config,
  stage,                      \* "idle", "asked", "calls", "running"
  offered,                    \* the tools of the last request
  items,                      \* the blocks of the conversation: [kind, id, name, skill, outcome]
  calls,                      \* the ids of the batch; a call's id is its place in items, no other has it
  verdict,                    \* id -> "unavailable", "rejected", "ready"
  judged,                     \* the configuration the verdicts were given under
  reloads,
  stirred,                    \* history: the configuration changed between the request and the verdicts
  loaded                      \* history: the skills whose text came back in this conversation

offerVars == <<config, stage, offered, items, calls, verdict, judged, reloads, stirred, loaded>>

Names  == Tools \cup {Unknown}
Use(n, name, skill)  == [kind |-> "use", id |-> n, name |-> name, skill |-> skill, outcome |-> "none"]
Result(n, outcome)   == [kind |-> "result", id |-> n, name |-> Unknown, skill |-> "none", outcome |-> outcome]
BlockOf(n) == items[n]

-----------------------------------------------------------------------------
(* loadedSkillNames: read off the whole history each time.  A result opens the  *)
(* gate when it is no error and says the skill was found, in text that parses.  *)
Opens(block) == block.kind = "result" /\ block.outcome = "found" /\ BlockOf(block.id).name = "Skill"
LoadedSkillNames == {BlockOf(items[i].id).skill : i \in {j \in DOMAIN items : Opens(items[j])}}

(* SkillGateProvider.check: Skill itself is never behind the gate. *)
Check(name) == name = "Skill" \/ config.required[name] \subseteq LoadedSkillNames

(* ConfigDisabledToolsProvider: without an account its tools are disabled too. *)
DisabledTools(c) == c.off \cup (IF c.account THEN {} ELSE Accounted)

(* ToolRegistry.resolve; fits: the input is what the schema asks. *)
Verdict(name, fits) ==
  IF name \notin Tools \/ name \in DisabledTools(config) THEN "unavailable"
  ELSE IF ~Check(name) \/ ~fits THEN "rejected"
  ELSE "ready"

-----------------------------------------------------------------------------
InitOffer ==
  /\ config \in Configs
  /\ stage = "idle" /\ offered = {} /\ items = <<>>
  /\ calls = {} /\ verdict = <<>> /\ judged = config
  /\ reloads = 0 /\ stirred = FALSE /\ loaded = {}

(* DurableConfigFactory: the request leaves out what is disabled by name. *)
Request ==
  /\ stage = "idle" /\ stage' = "asked"
  /\ offered' = Tools \ config.off /\ stirred' = FALSE
  /\ UNCHANGED <<config, items, calls, verdict, judged, reloads, loaded>>

(* The reply calls one or two tools; a call of Skill names a skill.  Every call so *)
(* far has had its result.                                                           *)
Reply(batch) ==
  /\ stage = "asked" /\ stage' = "calls"
  /\ Len(items) + 2 * Len(batch) <= 2 * MaxCalls
  /\ items' = items \o [i \in DOMAIN batch |-> Use(Len(items) + i, batch[i].name, batch[i].skill)]
  /\ calls' = (Len(items) + 1)..(Len(items) + Len(batch))
  /\ UNCHANGED <<config, offered, verdict, judged, reloads, stirred, loaded>>

(* The whole batch is resolved before any of it runs. *)
Resolve ==
  /\ stage = "calls" /\ stage' = "running"
  /\ \E fits \in [calls -> BOOLEAN] : verdict' = [n \in calls |-> Verdict(BlockOf(n).name, fits[n])]
  /\ judged' = config
  /\ UNCHANGED <<config, offered, items, calls, reloads, stirred, loaded>>

(* The results: only a call that ran can have loaded anything.  "unseen" when the *)
(* skill does not exist, or its long text is kept aside and a reference sent.       *)
Outcomes(n) ==
  IF verdict[n] # "ready" THEN {"error"}
  ELSE IF BlockOf(n).name = "Skill" THEN {"found", "unseen", "error"} ELSE {"text"}
FirstCall == CHOOSE n \in calls : \A m \in calls : n <= m
Answer ==
  /\ stage = "running" /\ stage' = "idle"
  /\ \E said \in [calls -> {"found", "unseen", "error", "text"}] :
       /\ \A n \in calls : said[n] \in Outcomes(n)
       /\ items' = items \o [i \in 1..(Len(items) + 1 - FirstCall) |-> Result(FirstCall + i - 1, said[FirstCall + i - 1])]
       /\ loaded' = loaded \cup {BlockOf(n).skill : n \in {k \in calls : said[k] = "found"}}
  /\ calls' = {} /\ verdict' = <<>>
  /\ UNCHANGED <<config, offered, judged, reloads, stirred>>

(* An edit of the configuration lands, at any time. *)
Reload(c) ==
  /\ reloads < MaxReloads /\ c # config
  /\ config' = c /\ reloads' = reloads + 1
  /\ stirred' = (stirred \/ stage \in {"asked", "calls"})
  /\ UNCHANGED <<stage, offered, items, calls, verdict, judged, loaded>>

(* Another conversation, with nothing loaded yet. *)
NewConversation ==
  /\ stage = "idle" /\ items # <<>>
  /\ items' = <<>> /\ loaded' = {}
  /\ UNCHANGED <<config, stage, offered, calls, verdict, judged, reloads, stirred>>

Calls == [name : Names \ {"Skill"}, skill : {"none"}] \cup [name : {"Skill"}, skill : Skills]
NextOffer ==
  \/ Request \/ Resolve \/ Answer \/ NewConversation
  \/ \E a \in Calls : Reply(<<a>>) \/ \E b \in Calls : Reply(<<a, b>>)
  \/ \E c \in Configs : Reload(c)

SpecOffer == InitOffer /\ [][NextOffer]_offerVars

-----------------------------------------------------------------------------
NameOf(n) == BlockOf(n).name

(* No call runs before the skills its tool asks for have come back in this        *)
(* conversation, those called for beside it in the same batch not counting.  A      *)
(* skill sent back as a reference, not found or failed opens nothing; one that       *)
(* came back opens its tools for good.                                             *)
SkillsFirst ==
  /\ LoadedSkillNames = loaded
  /\ stage = "running" => \A n \in calls :
       (NameOf(n) \in Tools \ {"Skill"} /\ verdict[n] = "ready") => judged.required[NameOf(n)] \subseteq loaded

(* What was offered is there to be called unless the configuration changed in      *)
(* between - or the tool lacks its account, which the offer does not look at.      *)
OfferedIsCallable ==
  (stage = "running" /\ ~stirred) => \A n \in calls :
    (NameOf(n) \in offered /\ verdict[n] = "unavailable") => (NameOf(n) \in Accounted /\ ~judged.account)

OfferSound == SkillsFirst /\ OfferedIsCallable

-----------------------------------------------------------------------------
(* What a turn tells of the world. *)
CONSTANTS
  Dirs,                       \* each a checkout of a repository of its own
  Files,
  Catalogued,                 \* the skills a scan may find
  MaxTouches                  \* bound on what changes

VARIABLES
  heads, dirty,               \* directory -> commit, changed files
  skills,                     \* skill -> the hash of its file, 0 when there is none
  cwd,
  previous, current,          \* GitStateMonitor's baseline, the snapshot a delta is made from
  hashes, lastCwd,            \* SkillCatalogueTracker's and CwdTracker's
  phase,                      \* "idle", "diverging", "scanning", "running", "snapshot"
  delta,                      \* the git delta of this turn
  message,                    \* this turn has a message to put the reminders on
  knows,                      \* history: the skills and the directory the model was last told of
  touched, slipped, lost,     \* history: who changed the checkout since the baseline; a turn threw before its
                              \* snapshot; a delta that was counted as told and was not
  touches

deltaVars == <<heads, dirty, skills, cwd, previous, current, hashes, lastCwd, phase, delta, message, knows, touched, slipped,
          lost, touches>>

None == [none |-> TRUE]
Nowhere == "unknown"

Snapshot == [repo |-> cwd, head |-> heads[cwd], files |-> dirty[cwd]]

(* gitDelta.ts: the fields that differ. *)
ComputeDelta(from, to) ==
  [repo |-> from.repo # to.repo, head |-> from.head # to.head,
   added |-> Cardinality(to.files \ from.files), removed |-> Cardinality(from.files \ to.files),
   divergence |-> FALSE]
Changed(d) == d.repo \/ d.head \/ d.added > 0 \/ d.removed > 0

InitDeltas ==
  /\ heads = [d \in Dirs |-> 1] /\ dirty = [d \in Dirs |-> {}]
  /\ skills \in [Catalogued -> {0, 1}] /\ cwd \in Dirs
  /\ previous = None /\ current = None /\ hashes = None /\ lastCwd = Nowhere
  /\ phase = "idle" /\ delta = None /\ message = FALSE
  /\ knows = [skills |-> None, cwd |-> Nowhere]
  /\ touched = {} /\ slipped = FALSE /\ lost = FALSE /\ touches = 0

-----------------------------------------------------------------------------
(* The world: commits and edits in the checkout, by the user at any time, by the  *)
(* agent while it runs; the files of the skills; a move of the session.            *)
Touch(who) ==
  /\ touches < MaxTouches /\ touches' = touches + 1
  /\ who = "agent" => phase = "running"
  /\ \/ heads' = [heads EXCEPT ![cwd] = @ + 1] /\ dirty' = [dirty EXCEPT ![cwd] = {}]
     \/ \E f \in Files : dirty' = [dirty EXCEPT ![cwd] = @ \cup {f}] /\ heads' = heads
  /\ <<heads, dirty>> # <<heads', dirty'>>
  /\ touched' = touched \cup {who}
  /\ UNCHANGED <<skills, cwd, previous, current, hashes, lastCwd, phase, delta, message, knows, slipped, lost>>

EditSkill(s) ==
  /\ touches < MaxTouches /\ touches' = touches + 1
  /\ \E hash \in {0, 1, 2} \ {skills[s]} : skills' = [skills EXCEPT ![s] = hash]
  /\ UNCHANGED <<heads, dirty, cwd, previous, current, hashes, lastCwd, phase, delta, message, knows, touched, slipped, lost>>

Chdir(d) ==
  /\ touches < MaxTouches /\ touches' = touches + 1 /\ d # cwd
  /\ cwd' = d /\ touched' = touched \cup {"user"}
  /\ UNCHANGED <<heads, dirty, skills, previous, current, hashes, lastCwd, phase, delta, message, knows, slipped, lost>>

-----------------------------------------------------------------------------
(* GitStateMonitor.getDelta, on a turn that begins. *)
GetDelta ==
  /\ phase = "idle"
  /\ message' \in BOOLEAN
  /\ IF previous = None THEN phase' = "scanning" /\ delta' = None /\ current' = None
     ELSE LET d == ComputeDelta(previous, Snapshot) IN
          /\ delta' = IF Changed(d) THEN d ELSE None
          /\ phase' = IF d.head /\ ~d.repo THEN "diverging" ELSE "scanning"
          /\ current' = IF d.head /\ ~d.repo THEN Snapshot ELSE None
  /\ UNCHANGED <<heads, dirty, skills, cwd, previous, hashes, lastCwd, knows, touched, slipped, lost, touches>>

(* rev-list runs where the session is by then; a commit it does not know gives none. *)
GetDivergence ==
  /\ phase = "diverging" /\ phase' = "scanning"
  /\ delta' = [delta EXCEPT !.divergence = cwd = current.repo]
  /\ current' = None
  /\ UNCHANGED <<heads, dirty, skills, cwd, previous, hashes, lastCwd, message, knows, touched, slipped, lost, touches>>

(* Both scans record what they saw as told; the reminders go with the message. *)
Present == [s \in {x \in Catalogued : skills[x] # 0} |-> skills[s]]
Scan ==
  /\ phase = "scanning" /\ phase' = "running"
  /\ hashes' = Present /\ lastCwd' = cwd
  /\ IF message
       THEN knows' = [skills |-> IF hashes = None \/ hashes = Present THEN (IF knows.skills = None THEN Present ELSE knows.skills)
                                 ELSE Present,
                      cwd |-> IF lastCwd = cwd THEN knows.cwd ELSE cwd] /\ lost' = lost
       ELSE /\ knows' = IF hashes = None THEN [knows EXCEPT !.skills = Present] ELSE knows
            /\ lost' = (lost \/ (hashes # None /\ hashes # Present) \/ lastCwd # cwd)
  /\ UNCHANGED <<heads, dirty, skills, cwd, previous, current, delta, message, touched, slipped, touches>>

(* The query is over: what stands now is the next turn's baseline, whoever made it. *)
TakeSnapshot ==
  /\ phase = "running" /\ phase' = "idle"
  /\ previous' = Snapshot /\ touched' = {} /\ slipped' = FALSE
  /\ delta' = None /\ message' = FALSE
  /\ UNCHANGED <<heads, dirty, skills, cwd, current, hashes, lastCwd, knows, lost, touches>>

(* The turn throws: in the scan, or before the snapshot is taken. *)
TurnThrows ==
  /\ phase \in {"scanning", "running"} /\ phase' = "idle"
  /\ slipped' = (slipped \/ phase = "running")
  /\ delta' = None /\ message' = FALSE
  /\ UNCHANGED <<heads, dirty, skills, cwd, previous, current, hashes, lastCwd, knows, touched, lost, touches>>

NextDeltas ==
  \/ \E who \in {"user", "agent"} : Touch(who)
  \/ \E s \in Catalogued : EditSkill(s)
  \/ \E d \in Dirs : Chdir(d)
  \/ GetDelta \/ GetDivergence \/ Scan \/ TakeSnapshot \/ TurnThrows

SpecDeltas == InitDeltas /\ [][NextDeltas]_deltaVars

-----------------------------------------------------------------------------
(* The agent's own changes are never reported back to it as somebody else's, as    *)
(* long as the last turn took its snapshot.                                         *)
DeltaIsTheUsers == (delta # None /\ ~slipped) => "user" \in touched

(* Counts of commits are given within one repository only. *)
DivergenceInOneRepository == (delta # None /\ delta.divergence) => ~delta.repo

(* The model has been told of every skill and of the directory as the trackers      *)
(* believe it has, unless a turn without a message took a delta with it.              *)
ToldAsTracked ==
  (phase = "running" /\ ~lost) => knows.cwd = lastCwd /\ knows.skills = hashes

DeltasSound == DeltaIsTheUsers /\ DivergenceInOneRepository /\ ToldAsTracked

-----------------------------------------------------------------------------
(* The models on offer. *)
CONSTANTS
  Askers,
  MaxFailures                 \* bound on the fetches that fail

VARIABLES
  cache, inFlight,            \* "none" or "models"; a load is shared
  fetches,                    \* fetches on the wire
  asker,                      \* asker -> "idle", "waiting", "models", "empty"
  misses, after               \* history: fetches that failed; a fetch was begun once the list was there

catalogVars == <<cache, inFlight, fetches, asker, misses, after>>

InitCatalog ==
  /\ cache = "none" /\ inFlight = FALSE /\ fetches = 0
  /\ asker = [a \in Askers |-> "idle"] /\ misses = 0 /\ after = FALSE

Load == inFlight' = TRUE /\ fetches' = fetches + (IF inFlight THEN 0 ELSE 1) /\ after' = (after \/ cache # "none")

List(a) ==
  /\ asker[a] # "waiting"
  /\ IF cache = "models" THEN asker' = [asker EXCEPT ![a] = "models"] /\ UNCHANGED <<inFlight, fetches, after>>
     ELSE asker' = [asker EXCEPT ![a] = "waiting"] /\ Load
  /\ UNCHANGED <<cache, misses>>

(* The load ends for all who wait on it: the list kept, or an empty one not kept. *)
Settle(answer) ==
  /\ inFlight /\ inFlight' = FALSE /\ fetches' = fetches - 1
  /\ asker' = [a \in Askers |-> IF asker[a] = "waiting" THEN answer ELSE asker[a]]
Fetched == Settle("models") /\ cache' = "models" /\ UNCHANGED <<misses, after>>
Failed  == misses < MaxFailures /\ Settle("empty") /\ misses' = misses + 1 /\ UNCHANGED <<cache, after>>

NextCatalog == Fetched \/ Failed \/ \E a \in Askers : List(a)
SpecCatalog == InitCatalog /\ [][NextCatalog]_catalogVars

-----------------------------------------------------------------------------
(* One request serves everyone, none is made once the list is known, nobody       *)
(* waits on nothing, and an empty answer is a failure's.                           *)
CatalogSound ==
  /\ fetches <= 1 /\ ~after
  /\ \A a \in Askers :
       /\ asker[a] = "waiting" => inFlight
       /\ asker[a] = "models" => cache = "models"
       /\ asker[a] = "empty" => misses > 0
=============================================================================
