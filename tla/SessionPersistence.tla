-------------------------- MODULE SessionPersistence --------------------------
(***************************************************************************)
(* A conversation in memory, its file, and what the bus was told of it.    *)
(* ConversationSession saves whole snapshots, most of them in the          *)
(* background and several at a time; ConvChangePublisher publishes behind  *)
(* each save what its count watermark has not passed; the process moves to *)
(* other conversations, dies and restarts.                                 *)
(*                                                                         *)
(* A row stands for a message with its identity, which a merge into it     *)
(* keeps.  The loop's other states are TurnCoordinator.tla's subject.      *)
(***************************************************************************)
EXTENDS Integers, Sequences, SequencesExt

CONSTANTS
  Conv,         \* conversation ids
  MaxRows,      \* bound on the rows of a conversation
  MaxMinted,    \* bound on the rows of a behaviour
  MaxMixed,     \* bound on the rows of a behaviour that leaves its first conversation
  MaxSaves,     \* bound on the saves in flight
  MaxCrashes    \* bound on the crashes of a behaviour

ASSUME ConstantsAssumption ==
  /\ Conv # {} /\ {MaxRows, MaxMinted, MaxMixed, MaxSaves, MaxCrashes} \subseteq Nat
  /\ MaxMixed <= MaxMinted

VARIABLES
  at,           \* where the loop is: "idle", "requesting", "tooling", "closing", "saving"
  conv,         \* session.id
  rows,         \* Conversation.#items
  switching,    \* the conversation a switch is on its way to, and how far it is
  saves,        \* the saves in flight, oldest first
  disk,         \* the files, << >> for none
  published,    \* ConvChangePublisher.#published
  changes,      \* history: the rows published, each with the id it was published under
  minted,       \* how many rows were pushed
  crashes       \* how often the process died

memVars == << conv, rows, minted >>
busVars == << published, changes >>
vars == << at, memVars, switching, saves, disk, busVars, crashes >>

Role(kind) == IF kind \in {"prompt", "results"} THEN "user" ELSE "assistant"
Kind == {"prompt", "tools", "answer", "corrupt", "results"}
(* healed: pushed by the heal on load, without an identity.                *)
Row == [id : 1 .. MaxMinted, home : Conv, kind : Kind, healed : BOOLEAN]
Save == [file : Conv, content : Seq(Row), then : {"flush", "turn", "switch"}, landed : BOOLEAN]

TypeOK ==
  /\ at \in {"idle", "requesting", "tooling", "closing", "saving"}
  /\ at = "saving" <=> \E k \in DOMAIN saves : saves[k].then = "turn"
  /\ conv \in Conv
  /\ rows \in Seq(Row) /\ Len(rows) <= MaxRows
  /\ switching.stage \in {"no", "saving", "loading"}
  /\ saves \in Seq(Save) /\ Len(saves) <= MaxSaves
  /\ disk \in [Conv -> Seq(Row)]
  /\ published \in 0 .. MaxRows
  /\ minted \in 0 .. MaxMinted
  /\ crashes \in 0 .. MaxCrashes

NotSwitching == [stage |-> "no"]

Init ==
  /\ at = "idle"
  /\ conv \in Conv
  /\ rows = << >> /\ saves = << >> /\ switching = NotSwitching
  /\ disk = [c \in Conv |-> << >>]
  /\ published = 0 /\ changes = {}
  /\ minted = 0 /\ crashes = 0

NewRow(kind, healed) == [id |-> minted + 1, home |-> conv, kind |-> kind, healed |-> healed]

(* Conversation.push: two user messages in a row become one row.           *)
MergesWith(kind) == rows # << >> /\ Role(Last(rows).kind) = "user" /\ Role(kind) = "user"
Pushed(kind) == IF MergesWith(kind) THEN rows ELSE Append(rows, NewRow(kind, FALSE))
Mixed == \E c \in Conv \ {conv} : disk[c] # << >>
CanPush(kind) ==
  MergesWith(kind) \/ (Len(rows) < MaxRows /\ minted < IF Mixed THEN MaxMixed ELSE MaxMinted)
Push(kind) ==
  /\ CanPush(kind)
  /\ rows' = Pushed(kind)
  /\ minted' = IF MergesWith(kind) THEN minted ELSE minted + 1
  /\ UNCHANGED conv

(* saveConversation: path and content are taken at the call.               *)
StartSaves(contents, then) ==
  /\ Len(saves) + Len(contents) <= MaxSaves
  /\ saves' = saves \o
       [k \in DOMAIN contents |-> [file |-> conv, content |-> contents[k], then |-> then, landed |-> FALSE]]
StartSave(content, then) == StartSaves(<< content >>, then)

-----------------------------------------------------------------------------
(* A turn.                                                                 *)

(* A prompt is pushed, and the summary of the request saves in the         *)
(* background; a resumed turn pushes nothing.                              *)
Submit(resume) ==
  /\ at = "idle"
  /\ at' = "requesting"
  /\ IF resume THEN rows # << >> /\ Role(Last(rows).kind) = "user" /\ UNCHANGED memVars
     ELSE Push("prompt")
  /\ StartSave(rows', "flush")
  /\ UNCHANGED << switching, disk, busVars, crashes >>

(* A reply, saved in the background as turn_content arrives.               *)
Reply(kind) ==
  /\ at = "requesting"
  /\ Push(kind)
  /\ StartSave(rows', "flush")
  /\ at' = IF kind = "tools" THEN "tooling" ELSE "closing"
  /\ UNCHANGED << switching, disk, busVars, crashes >>

(* A reply that asks for tools and has none is taken out again, but behind *)
(* the save of its turn_content, which starts as the message is sent; the  *)
(* request goes out again, with a summary and its save, unless the query   *)
(* was cancelled.  The reply that the loop gives up on is an answer.       *)
CorruptReply ==
  /\ at = "requesting"
  /\ CanPush("corrupt")
  /\ \/ at' = "requesting" /\ StartSaves(<< Pushed("corrupt"), rows >>, "flush")
     \/ at' = "closing" /\ StartSave(Pushed("corrupt"), "flush")
  /\ minted' = minted + 1
  /\ UNCHANGED << conv, rows, switching, disk, busVars, crashes >>

(* The results of the batch, saved with the summary of the next request if *)
(* the query goes on.                                                      *)
Results ==
  /\ at = "tooling"
  /\ Push("results")
  /\ \/ at' = "requesting" /\ StartSave(rows', "flush")
     \/ at' = "closing" /\ UNCHANGED saves
  /\ UNCHANGED << switching, disk, busVars, crashes >>

(* The request fails or is cancelled.                                      *)
Fails ==
  /\ at = "requesting"
  /\ at' = "closing"
  /\ UNCHANGED << memVars, switching, saves, disk, busVars, crashes >>

(* What runTurn does before its save throws.                               *)
TurnThrows ==
  /\ at = "closing"
  /\ at' = "idle"
  /\ UNCHANGED << memVars, switching, saves, disk, busVars, crashes >>

(* runTurn awaits a save of its own.                                       *)
Closes ==
  /\ at = "closing"
  /\ at' = "saving"
  /\ StartSave(rows, "turn")
  /\ UNCHANGED << memVars, switching, disk, busVars, crashes >>

-----------------------------------------------------------------------------
(* The saves.                                                              *)

(* The temporary file is renamed over the file, in any order of the saves. *)
Lands(k) ==
  /\ ~saves[k].landed
  /\ disk' = [disk EXCEPT ![saves[k].file] = saves[k].content]
  /\ saves' = [saves EXCEPT ![k].landed = TRUE]
  /\ UNCHANGED << at, memVars, switching, busVars, crashes >>

(* ConvChangePublisher.flush: the rows past the watermark, under the id of *)
(* the moment; a row without identity is passed over.                      *)
Flush(c) ==
  /\ changes' = changes \cup {<< c, rows[k] >> : k \in {i \in published + 1 .. Len(rows) : ~rows[i].healed}}
  /\ published' = Len(rows)

(* Variant: a background save publishes under the id it was started with.  *)
ContinuesAsStarted(save) ==
  CASE save.then = "flush" -> Flush(save.file) /\ UNCHANGED << at, switching >>
    [] save.then = "turn" -> Flush(conv) /\ at' = "idle" /\ UNCHANGED switching
    [] save.then = "switch" -> switching' = [switching EXCEPT !.stage = "loading"] /\ UNCHANGED << at, busVars >>

(* What stands behind a save: a flush, the end of the turn, or the rest of *)
(* a switch.                                                               *)
Continues(save) ==
  CASE save.then = "flush" -> Flush(conv) /\ UNCHANGED << at, switching >>
    [] save.then = "turn" -> Flush(conv) /\ at' = "idle" /\ UNCHANGED switching
    [] save.then = "switch" -> switching' = [switching EXCEPT !.stage = "loading"] /\ UNCHANGED << at, busVars >>

Settles(k) ==
  /\ saves[k].landed
  /\ Continues(saves[k])
  /\ saves' = RemoveAt(saves, k)
  /\ UNCHANGED << memVars, disk, crashes >>

(* Variant: the turn waits on for a save that was rejected.                *)
SaveFailsUnheard(k) ==
  /\ ~saves[k].landed
  /\ saves' = RemoveAt(saves, k)
  /\ switching' = IF saves[k].then = "switch" THEN NotSwitching ELSE switching
  /\ UNCHANGED << at, memVars, disk, busVars, crashes >>

(* A save that rejects is logged; it ends the turn or the switch.          *)
SaveFails(k) ==
  /\ ~saves[k].landed
  /\ saves' = RemoveAt(saves, k)
  /\ at' = IF saves[k].then = "turn" THEN "idle" ELSE at
  /\ switching' = IF saves[k].then = "switch" THEN NotSwitching ELSE switching
  /\ UNCHANGED << memVars, disk, busVars, crashes >>

-----------------------------------------------------------------------------
(* Moves between conversations, and restarts.                              *)

(* Keys that move are served in the editor phase.                          *)
MayMove == at \in {"idle", "closing", "saving"} /\ switching = NotSwitching

(* healDanglingToolUse on what the file holds: an unanswered batch gets a  *)
(* row of results.                                                         *)
Healed(content, c) ==
  IF content # << >> /\ Last(content).kind = "tools"
  THEN Append(content, [id |-> minted + 1, home |-> c, kind |-> "results", healed |-> TRUE])
  ELSE content

(* Variants: the heal is left to the request; a conversation without a     *)
(* file leaves the loaded one in memory.                                   *)
LoadUnhealed(c) ==
  /\ conv' = c /\ rows' = disk[c] /\ UNCHANGED minted

LoadKeeping(c) ==
  /\ conv' = c
  /\ rows' = IF disk[c] = << >> THEN rows ELSE Healed(disk[c], c)
  /\ minted' = IF rows' # rows /\ Len(rows') > Len(disk[c]) THEN minted + 1 ELSE minted

(* #loadHistoryForId.                                                      *)
Load(c) ==
  /\ conv' = c
  /\ rows' = Healed(disk[c], c)
  /\ Len(rows') <= MaxRows
  /\ minted' = IF rows' = disk[c] THEN minted ELSE minted + 1
  /\ minted' <= MaxMinted

(* /new, under an id that has no file.                                     *)
NewSession(c) ==
  /\ MayMove
  /\ disk[c] = << >> /\ c # conv /\ \A k \in DOMAIN saves : saves[k].file # c
  /\ conv' = c /\ rows' = << >>
  /\ UNCHANGED << at, switching, saves, disk, busVars, minted, crashes >>

SwitchTo(c) ==
  /\ MayMove
  /\ c # conv /\ minted <= MaxMixed
  /\ switching' = [stage |-> "saving", to |-> c]
  /\ StartSave(rows, "switch")
  /\ UNCHANGED << at, memVars, disk, busVars, crashes >>

Adopt ==
  /\ switching.stage = "loading"
  /\ Load(switching.to)
  /\ switching' = NotSwitching
  /\ UNCHANGED << at, saves, disk, busVars, crashes >>

(* The process dies and is started on a conversation.                      *)
Restart(c) ==
  /\ crashes < MaxCrashes
  /\ crashes' = crashes + 1
  /\ Load(c)
  /\ at' = "idle" /\ saves' = << >> /\ switching' = NotSwitching /\ published' = 0
  /\ UNCHANGED << disk, changes >>

Purpose == {"flush", "turn", "switch"}
SaveStep(then) == \E k \in DOMAIN saves : saves[k].then = then /\ (Lands(k) \/ Settles(k) \/ SaveFails(k))

TurnStep ==
  \/ \E kind \in {"tools", "answer"} : Reply(kind)
  \/ CorruptReply \/ Results \/ Fails \/ TurnThrows \/ Closes

Next ==
  \/ \E resume \in BOOLEAN : Submit(resume)
  \/ TurnStep
  \/ \E then \in Purpose : SaveStep(then)
  \/ \E c \in Conv : NewSession(c) \/ SwitchTo(c) \/ Restart(c)
  \/ Adopt

Spec == Init /\ [][Next]_vars

(* The loop goes on, and the file system gets around to each kind of save; *)
(* whether a reply comes is not this module's question.                    *)
FairSpec == Spec /\ WF_vars(Closes \/ TurnThrows) /\ \A then \in Purpose : WF_vars(SaveStep(then))
-----------------------------------------------------------------------------
(* Safety.                                                                 *)

(* No conversation's rows reach another's file: not through a save that    *)
(* was in flight across a move, not through what a load leaves behind.     *)
OwnRowsOnly == \A c \in Conv : \A k \in DOMAIN disk[c] : disk[c][k].home = c

(* The rows under a conversation's id are that conversation's own, whatever    *)
(* saves overlapped (ConversationSession.#persist).                            *)
RowsSound == TypeOK /\ OwnRowsOnly

(* What is published as a conversation's is that conversation's, although  *)
(* a flush may run behind a move that its save was started before.         *)
PublishedAtHome == \A x \in changes : x[2].home = x[1]

(* The loop never waits for input on an unanswered batch.                  *)
TipAnswered == at = "idle" /\ rows # << >> => Last(rows).kind # "tools"

(* A turn that is over gives the loop back, whatever becomes of its save.  *)
LoopComesBack == at = "closing" ~> at = "idle"

-----------------------------------------------------------------------------
(* What the code says of itself and does not hold.                         *)

Holds(content, row) == \E k \in DOMAIN content : content[k].id = row.id

(* What is published is on disk.                                           *)
PublishedIsPersisted == [][\A x \in changes' \ changes : Holds(disk[x[1]], x[2])]_vars

(* A row of the conversation that its file holds stays in it: no save puts *)
(* back what an older one had captured.                                    *)
SavedStaysSaved ==
  [][\A k \in DOMAIN rows : Holds(disk[conv], rows[k]) => Holds(disk'[conv], rows[k])]_vars

(* The count watermark covers only rows that were published, apart from    *)
(* those without identity.                                                 *)
CoveredIsPublished ==
  \A k \in DOMAIN rows :
    k <= published /\ ~rows[k].healed => \E x \in changes : x[1] = conv /\ x[2].id = rows[k].id

(* A flush publishes rows that are new to the bus.                         *)
NothingPublishedTwice == [][\A k \in published + 1 .. published' : << conv, rows[k] >> \notin changes]_vars

(* A row that removeLast took out was never written.                       *)
RemovedNeverCommitted == \A c \in Conv : \A k \in DOMAIN disk[c] : disk[c][k].kind # "corrupt"

=============================================================================
