------------------------------ MODULE FlatText ------------------------------
(***************************************************************************)
(* What a text editor promises, whatever it stores: a text with a caret in *)
(* it, seen as what stands before the caret and what stands after it.  A   *)
(* key of one kind touches one side only.                                  *)
(***************************************************************************)
LOCAL INSTANCE Naturals
LOCAL INSTANCE Sequences
LOCAL INSTANCE SequencesExt

VARIABLES
  before,  \* the text left of the caret
  after,   \* the text right of it
  kind     \* what the last key asked for

Init == before = <<>> /\ after = <<>> /\ kind = "none"

(* Typing adds the typed text at the caret and leaves the caret behind it. *)
Insert ==
  /\ kind' = "insert"
  /\ \E n \in 1..Len(before' \o after') :
       LET typed == SubSeq(before' \o after', Len(before) + 1, Len(before) + n) IN
       /\ before' \o after' = before \o typed \o after
       /\ IsPrefix(before \o typed, before')

EraseLeft  == kind' = "eraseLeft" /\ after' = after /\ IsPrefix(before', before)

EraseRight == kind' = "eraseRight" /\ before' = before /\ IsSuffix(after', after)

Move       == kind' = "move" /\ before' \o after' = before \o after

Clear      == kind' = "clear" /\ before' = <<>> /\ after' = <<>>

Next == Insert \/ EraseLeft \/ EraseRight \/ Move \/ Clear

Spec == Init /\ [][Next]_<<before, after, kind>>
=============================================================================
