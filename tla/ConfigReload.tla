---------------------------- MODULE ConfigReload ----------------------------
(***************************************************************************)
(* The configuration over a session: the home file and the local file of   *)
(* the working directory, merged, validated, held; watched, reloaded after *)
(* a pause and re-pointed by a move; and what the user is told of it: the   *)
(* notices, the model in the status line, the prompts that follow the       *)
(* directory.                                                              *)
(***************************************************************************)
EXTENDS Naturals
LOCAL INSTANCE SequencesExt

CONSTANTS
  Dirs, Home,                 \* the local files, named by their directory, and the home file
  Contents, Readings,         \* ConfigFiles' contents and what they are read as
  Overrides,                  \* the models that may be selected over the configured one
  MaxEdits                    \* bound on the edits

VARIABLES
  files, made,                \* path -> content; the directories whose .claude exists
  watched, pending,           \* the paths under watch, a reload is scheduled
  cwd, config, override,
  phase,                      \* "unwatched", "login", "idle", "running", "saving"
  shown,                      \* the model in the status line
  believed,                   \* what the notices say: [default, outside, off]
  jobs, prompts,              \* the reloads of the prompts under way, oldest first; whose prompts are held
  edits,
  blind, deaf, unseen, crossed  \* history: an unwatched edit not read yet; a change nobody listened to; a change
                                \* the status line missed; two reloads that ended out of order

vars == <<files, made, watched, pending, cwd, config, override, phase, shown, believed, jobs, prompts, edits,
          blind, deaf, unseen, crossed>>

Paths == Dirs \cup {Home}

-----------------------------------------------------------------------------
(* What the files of a directory give, by the table of ConfigFiles. *)
Reading(fs, d)  == (CHOOSE r \in Readings : r[1] = fs[Home] /\ r[2] = fs[d])[3]
Readable(fs, d) == Reading(fs, d).fits /\ ~Reading(fs, d).warns
Read(fs, d)     == Reading(fs, d).config

Effective(o, c) == IF o = "none" THEN c.model ELSE o
Told(c)         == [default |-> c.default, outside |-> c.outside, off |-> c.off]

-----------------------------------------------------------------------------
(* Booted on files that are JSON; at boot one that is not only adds a warning.     *)
Init ==
  /\ cwd \in Dirs
  /\ files \in {f \in [Paths -> UNION {Contents[p] : p \in Paths}] : \A p \in Paths : f[p] \in Contents[p]}
  /\ Readable(files, cwd)
  /\ made = {d \in Dirs : files[d].kind # "absent"}
  /\ watched = {} /\ pending = FALSE
  /\ config = Read(files, cwd) /\ override = "none"
  /\ phase = "unwatched" /\ shown = "none" /\ believed = Told(config)
  /\ jobs = <<>> /\ prompts = cwd
  /\ edits = 0 /\ blind = FALSE /\ deaf = FALSE /\ unseen = FALSE /\ crossed = FALSE

(* ConfigReloader.reload: what does not parse or fit changes nothing, nor does   *)
(* what is the same.  apply tells the listeners, once they are wired.             *)
(* ConfigChangeCoordinator: the notices always, the status line between turns.    *)
Listeners(c) ==
  IF phase \in {"unwatched", "login"}
    THEN deaf' = TRUE /\ UNCHANGED <<shown, believed, unseen>>
    ELSE /\ believed' = Told(c) /\ deaf' = FALSE
         /\ IF phase = "idle" THEN shown' = Effective(override, c) /\ unseen' = FALSE
            ELSE shown' = shown /\ unseen' = (unseen \/ phase = "saving")

Reload(fs, d) ==
  /\ blind' = FALSE
  /\ IF Readable(fs, d) /\ Read(fs, d) # config
       THEN config' = Read(fs, d) /\ Listeners(Read(fs, d))
       ELSE UNCHANGED <<config, shown, believed, deaf, unseen>>

(* NodeDirectoryWatcher: the directories that exist when the watch begins. *)
Watchable(d, there) == {Home} \cup ({d} \cap there)

Wire ==
  /\ phase = "unwatched" /\ phase' = "login"
  /\ watched' = Watchable(cwd, made)
  /\ UNCHANGED <<files, made, pending, cwd, config, override, shown, believed, jobs, prompts, edits, blind, deaf, unseen, crossed>>

(* Logged in: the listeners are wired, and the boot shows the model. *)
Listen ==
  /\ phase = "login" /\ phase' = "idle" /\ shown' = Effective(override, config)
  /\ UNCHANGED <<files, made, watched, pending, cwd, config, override, believed, jobs, prompts, edits, blind, deaf, unseen, crossed>>

(* Somebody writes or deletes a file; of a write in two parts the first is torn. *)
Edit(p, content) ==
  /\ edits < MaxEdits /\ files[p] # content
  /\ edits' = edits + 1
  /\ files' = [files EXCEPT ![p] = content]
  /\ made' = made \cup ({p} \cap Dirs)
  /\ pending' = (pending \/ p \in watched)
  /\ blind' = (blind \/ (p \notin watched /\ p \in {Home, cwd}))
  /\ UNCHANGED <<watched, cwd, config, override, phase, shown, believed, jobs, prompts, deaf, unseen, crossed>>

Fires ==
  /\ pending /\ pending' = FALSE
  /\ Reload(files, cwd)
  /\ UNCHANGED <<files, made, watched, cwd, override, phase, jobs, prompts, edits, crossed>>

(* WorkingDirectoryMoveHandler: the watch re-pointed, the configuration reloaded *)
(* at once, the prompts in their own time.                                        *)
Chdir(d) ==
  /\ phase \in {"idle", "running", "saving"} /\ d # cwd /\ Len(jobs) < 2
  /\ cwd' = d /\ watched' = Watchable(d, made)
  /\ Reload(files, d)
  /\ jobs' = Append(jobs, d) /\ crossed' = (crossed /\ jobs # <<>>)
  /\ UNCHANGED <<files, made, pending, override, phase, prompts, edits>>

PromptsRead(i) ==
  /\ prompts' = jobs[i] /\ jobs' = RemoveAt(jobs, i)
  /\ crossed' = (crossed \/ (i = Len(jobs) /\ i > 1))
  /\ UNCHANGED <<files, made, watched, pending, cwd, config, override, phase, shown, believed, edits, blind, deaf, unseen>>

-----------------------------------------------------------------------------
(* The turns, as the status line sees them, and the selection of a model. *)
Show == shown' = Effective(override, config) /\ unseen' = FALSE

StartTurn == phase = "idle" /\ phase' = "running" /\ Show
EndTurn   == phase = "running" /\ phase' = "saving" /\ Show
SaveDone  == phase = "saving" /\ phase' = "idle" /\ UNCHANGED <<shown, unseen>>
Throws    == phase = "running" /\ phase' = "idle" /\ shown' = shown /\ unseen' = TRUE
Turn ==
  /\ StartTurn \/ EndTurn \/ SaveDone \/ Throws
  /\ UNCHANGED <<files, made, watched, pending, cwd, config, override, believed, jobs, prompts, edits, blind, deaf, crossed>>

Select(o) ==
  /\ phase \in {"idle", "running", "saving"} /\ o # override
  /\ override' = o /\ shown' = Effective(o, config) /\ unseen' = FALSE
  /\ UNCHANGED <<files, made, watched, pending, cwd, config, phase, believed, jobs, prompts, edits, blind, deaf, crossed>>

Next ==
  \/ Wire \/ Listen \/ Fires \/ Turn
  \/ \E p \in Paths : \E content \in Contents[p] : Edit(p, content)
  \/ \E d \in Dirs : Chdir(d)
  \/ \E i \in DOMAIN jobs : PromptsRead(i)
  \/ \E o \in Overrides : Select(o)

(* The pause is a timer: it ends. *)
Spec == Init /\ [][Next]_vars /\ WF_vars(Fires)

-----------------------------------------------------------------------------
(* What is held is what the files of this directory say, whenever they say       *)
(* something valid, no reload is due, and no edit fell where nothing watches.     *)
HeldAsWritten == (~pending /\ ~blind /\ Readable(files, cwd)) => config = Read(files, cwd)

(* A file half written or wrong takes no part of the rest with it: what is held   *)
(* is always what whole files said.                                                *)
HeldWhole == \E r \in Readings : r[3].fits /\ ~r[3].warns /\ config = r[3].config

(* Whoever follows the notices believes what is in force. *)
BelievedAsHeld == ~deaf => believed = Told(config)

(* Between turns the status line shows the model of the next request. *)
ShownAsHeld == (phase = "idle" /\ ~unseen) => shown = Effective(override, config)

(* The prompts are those of the directory, once their reloads are done. *)
PromptsFollow == (jobs = <<>> /\ ~crossed) => prompts = cwd

ConfigSound == HeldAsWritten /\ HeldWhole /\ BelievedAsHeld /\ ShownAsHeld /\ PromptsFollow
EditsLand   == pending ~> ~pending
=============================================================================
