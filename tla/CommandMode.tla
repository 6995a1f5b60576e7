----------------------------- MODULE CommandMode -----------------------------
(***************************************************************************)
(* What the primary view's keys do beside typing: CommandModeState and the *)
(* AttachmentStore in it, CommandKeyHandler, CommandIntentExecutor (whose  *)
(* clipboard reads land later), and EditorHandler's wait and submit, under *)
(* the two handler chains of the primary presentation.                     *)
(***************************************************************************)
EXTENDS Integers, Sequences, FiniteSets
LOCAL INSTANCE SequencesExt

CONSTANTS
  Items,      \* what the clipboard can hold; an item stands for its hash or its path
  MaxReads,   \* bound: clipboard reads under way
  MaxAdds     \* bound: attachments added in a run

VARIABLES
  phase,      \* PrimaryViewState.phase: "editor" or "streaming"
  commandMode, previewMode, context,
  cdEditor, cdError, modelEditor,   \* whether each is present
  knownModels,                      \* the catalogue: "unasked", "loading", "known"
  attachments, selectedIndex,       \* the store; selectedIndex counts from 0, -1 for none
  reading,    \* clipboard reads under way, each with what it will find
  typed,      \* whether the editor holds text
  resolve,    \* EditorHandler's #resolve: "none", "awaited", or "lost" when the wire won the wait
  added, removed, sent,             \* history: attachments added, removed, submitted
  cancels     \* history: whether the last key cancelled the running turn

modes == <<commandMode, previewMode, context, cdEditor, cdError, modelEditor>>
store == <<attachments, selectedIndex>>
tally == <<added, removed, sent>>
vars  == <<phase, modes, knownModels, store, reading, typed, resolve, tally, cancels>>

Contexts == {"root", "model", "modelEdit", "cd", "cdEdit"}
NoCancel == cancels' = FALSE

-----------------------------------------------------------------------------
(* AttachmentStore *)
Add(item) ==
  \/ /\ \E i \in DOMAIN attachments : attachments[i] = item     \* 'duplicate'
     /\ UNCHANGED <<store, added>>
  \/ /\ ~\E i \in DOMAIN attachments : attachments[i] = item
     /\ attachments' = Append(attachments, item)
     /\ selectedIndex' = Len(attachments)
     /\ added' = added + 1

InRange == selectedIndex >= 0 /\ selectedIndex < Len(attachments)

(* Variant: the selection is left where it was. *)
RemoveSelectedOnly ==
  IF InRange
  THEN /\ attachments' = RemoveAt(attachments, selectedIndex + 1)
       /\ removed' = removed + 1 /\ UNCHANGED selectedIndex
  ELSE UNCHANGED <<store, removed>>

RemoveSelected ==
  IF InRange
  THEN /\ attachments' = RemoveAt(attachments, selectedIndex + 1)
       /\ selectedIndex' = IF selectedIndex > Len(attachments) - 2 THEN Len(attachments) - 2 ELSE selectedIndex
       /\ removed' = removed + 1
  ELSE UNCHANGED <<store, removed>>

TakeAttachments == attachments' = <<>> /\ selectedIndex' = -1

Select(delta) ==
  /\ UNCHANGED attachments
  /\ selectedIndex' = IF attachments # <<>> /\ selectedIndex + delta \in 0..(Len(attachments) - 1)
                      THEN selectedIndex + delta ELSE selectedIndex

-----------------------------------------------------------------------------
(* CommandModeState: where each command leads. *)
Show(mode, ctx, preview, cd, err, model) ==
  /\ commandMode' = mode /\ context' = ctx /\ previewMode' = preview
  /\ cdEditor' = cd /\ cdError' = err /\ modelEditor' = model
GoTo(ctx) == Show(TRUE, ctx, previewMode, cdEditor, cdError, modelEditor)

(* ctrl+/ : toggleCommandMode.  Leaving resets the context, not the preview. *)
Toggle ==
  /\ IF commandMode THEN Show(FALSE, "root", previewMode, FALSE, FALSE, FALSE)
                    ELSE Show(TRUE, context, previewMode, cdEditor, cdError, modelEditor)
  /\ NoCancel
  /\ UNCHANGED <<phase, knownModels, store, reading, typed, resolve, tally>>

(* escape: one level out of command mode, and only outside it the turn. *)
Escape ==
  /\ \/ /\ commandMode /\ NoCancel
        /\ \/ context = "cdEdit" /\ Show(TRUE, "cd", previewMode, FALSE, FALSE, modelEditor)
           \/ context = "modelEdit" /\ Show(TRUE, "model", previewMode, cdEditor, cdError, FALSE)
           \/ context \in {"cd", "model"} /\ GoTo("root")
           \/ context = "root" /\ Show(FALSE, "root", FALSE, FALSE, FALSE, FALSE)
     \/ /\ ~commandMode /\ phase = "streaming"
        /\ cancels' = TRUE
        /\ UNCHANGED modes
  /\ UNCHANGED <<phase, knownModels, store, reading, typed, resolve, tally>>

(* togglePreview: only with an attachment selected. *)
TogglePreview ==
  Show(TRUE, "root", IF selectedIndex >= 0 THEN ~previewMode ELSE previewMode, cdEditor, cdError, modelEditor)

(* Keys bound in the root context. *)
RootKey ==
  /\ commandMode /\ context = "root" /\ NoCancel
  /\ \/ /\ Len(reading) < MaxReads                       \* t, f, i: the read starts
        /\ \E item \in Items : reading' = Append(reading, item)
        /\ UNCHANGED <<modes, store, tally>>
     \/ /\ RemoveSelected                                \* d
        /\ UNCHANGED <<modes, reading, added, sent>>
     \/ /\ TogglePreview                                \* p
        /\ UNCHANGED <<store, reading, tally>>
     \/ /\ \E delta \in {-1, 1} : Select(delta)          \* left, right
        /\ UNCHANGED <<modes, reading, tally>>
     \/ /\ Show(TRUE, "cd", previewMode, FALSE, FALSE, modelEditor)     \* c
        /\ UNCHANGED <<store, reading, tally>>
     \/ /\ GoTo("model")                                 \* m
        /\ UNCHANGED <<store, reading, tally>>
  /\ UNCHANGED <<phase, knownModels, typed, resolve>>

(* cd and model sub-menus, and the editors they open. *)
MenuKey ==
  /\ commandMode /\ NoCancel
  /\ \/ /\ context = "cd"                                \* d: openCdEditor
        /\ Show(TRUE, "cdEdit", previewMode, TRUE, FALSE, modelEditor)
        /\ UNCHANGED knownModels
     \/ /\ context = "model"                             \* m: openModelEditor, then the catalogue
        /\ Show(TRUE, "modelEdit", previewMode, cdEditor, cdError, TRUE)
        /\ knownModels' = "loading"
  /\ UNCHANGED <<phase, store, reading, typed, resolve, tally>>

EditCd == Show(TRUE, context, previewMode, cdEditor, FALSE, modelEditor)   \* an edit clears the error

(* enter: the chdir decides; a model name is always accepted. *)
SubmitCd ==
  \/ Show(TRUE, "cd", previewMode, FALSE, FALSE, modelEditor)
  \/ Show(TRUE, "cdEdit", previewMode, TRUE, TRUE, modelEditor)
SubmitModel == Show(TRUE, "model", previewMode, cdEditor, cdError, FALSE)

EditKey ==
  /\ commandMode /\ NoCancel
  /\ \/ context = "cdEdit" /\ (EditCd \/ SubmitCd)
     \/ context = "modelEdit" /\ SubmitModel
  /\ UNCHANGED <<phase, knownModels, store, reading, typed, resolve, tally>>

-----------------------------------------------------------------------------
(* A clipboard read ends, in any order: it lands in the store, or finds    *)
(* nothing or fails and leaves no trace.                                   *)
ReadLands ==
  \E i \in DOMAIN reading :
    /\ reading' = RemoveAt(reading, i)
    /\ \/ added < MaxAdds /\ Add(reading[i])
       \/ UNCHANGED <<store, added>>
    /\ NoCancel
    /\ UNCHANGED <<phase, modes, knownModels, typed, resolve, removed, sent>>

CatalogueLands ==
  /\ knownModels = "loading" /\ knownModels' = "known" /\ NoCancel
  /\ UNCHANGED <<phase, modes, store, reading, typed, resolve, tally>>

-----------------------------------------------------------------------------
(* EditorHandler: typing reaches the editor only outside command mode. *)
TypeText ==
  /\ phase = "editor" /\ ~commandMode /\ NoCancel
  /\ typed' \in BOOLEAN
  /\ UNCHANGED <<phase, modes, knownModels, store, reading, resolve, tally>>

(* ctrl+enter, in command mode or not.  With nothing to send it submits    *)
(* only to resume a turn; with no one waiting it keeps what it has.        *)
Submit ==
  /\ phase = "editor" /\ NoCancel
  /\ resolve # "none"
  /\ \/ /\ ~typed /\ attachments = <<>>                  \* the conversation ends on a user message
        /\ UNCHANGED <<store, sent>>
     \/ /\ typed \/ attachments # <<>>
        /\ sent' = sent + Len(attachments)
        /\ TakeAttachments
  /\ resolve' = "none"
  /\ UNCHANGED <<phase, modes, knownModels, reading, typed, added, removed>>

(* Application's loop: it waits (the editor is reset), the wire may win the *)
(* wait, and a turn takes the view until it ends.                           *)
WaitForInput ==
  /\ phase = "editor" /\ resolve = "none"
  /\ resolve' = "awaited" /\ typed' = FALSE /\ NoCancel
  /\ UNCHANGED <<phase, modes, knownModels, store, reading, tally>>

WireWins ==
  /\ phase = "editor" /\ resolve = "awaited"
  /\ resolve' = "lost" /\ NoCancel
  /\ UNCHANGED <<phase, modes, knownModels, store, reading, typed, tally>>

TurnStarts ==
  /\ phase = "editor" /\ resolve # "awaited"
  /\ phase' = "streaming" /\ NoCancel
  /\ UNCHANGED <<modes, knownModels, store, reading, typed, resolve, tally>>

TurnEnds ==
  /\ phase = "streaming"
  /\ phase' = "editor" /\ resolve' = "awaited" /\ typed' = FALSE /\ NoCancel
  /\ UNCHANGED <<modes, knownModels, store, reading, tally>>

Init ==
  /\ phase = "editor" /\ commandMode = FALSE /\ previewMode = FALSE /\ context = "root"
  /\ cdEditor = FALSE /\ cdError = FALSE /\ modelEditor = FALSE /\ knownModels = "unasked"
  /\ attachments = <<>> /\ selectedIndex = -1 /\ reading = <<>>
  /\ typed = FALSE /\ resolve = "none"
  /\ added = 0 /\ removed = 0 /\ sent = 0 /\ cancels = FALSE

Next ==
  \/ Toggle \/ Escape \/ RootKey \/ MenuKey \/ EditKey
  \/ ReadLands \/ CatalogueLands
  \/ TypeText \/ Submit \/ WaitForInput \/ WireWins \/ TurnStarts \/ TurnEnds

Spec == Init /\ [][Next]_vars

-----------------------------------------------------------------------------
(* The flags, the context and the editors are set by a dozen methods that  *)
(* do not look at each other: an editor is there exactly in its own        *)
(* context, an error only beside the path editor, and closed command mode  *)
(* always reopens at the root.                                             *)
ModesAgree ==
  /\ cdEditor <=> context = "cdEdit"
  /\ modelEditor <=> context = "modelEdit"
  /\ cdError => context = "cdEdit"
  /\ ~commandMode => context = "root"

(* The selection always names an attachment while there is one, whatever   *)
(* order reads land in and the user removes in; two reads of one thing     *)
(* leave one attachment; and an attachment that was added is in the store, *)
(* was removed by the user, or went out with a submission, exactly once.   *)
AttachmentsAccounted ==
  /\ IF attachments = <<>> THEN selectedIndex = -1 ELSE InRange
  /\ IsInjective(attachments)
  /\ added = Len(attachments) + removed + sent

CommandModeSound == ModesAgree /\ AttachmentsAccounted
=============================================================================
