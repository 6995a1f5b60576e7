---------------------- MODULE SessionPersistenceProofs ----------------------
(***************************************************************************)
(* That saves in flight, moves, loads and restarts never mix two           *)
(* conversations, for every number of conversations, rows, saves and       *)
(* crashes.  Rows reach a file through a save's content, and the bus       *)
(* through what is in memory when the save settles, so IndInv says of both *)
(* whose rows they are; it adds who waits for which save, and that memory  *)
(* ends in an unanswered batch only while its tools run.                   *)
(***************************************************************************)
EXTENDS SessionPersistence, SequenceTheorems, TLAPS

(* Whose rows a sequence holds. *)
AllOf(content, c) == \A i \in 1 .. Len(content) : content[i].home = c

Has(s, then)  == \E k \in 1 .. Len(s) : s[k].then = then
Kept(s)       == \A k \in 1 .. Len(s) : AllOf(s[k].content, s[k].file)
(* One save at most has the turn waiting for it, and one a switch. *)
OneWaiter(s)  == \A j, k \in 1 .. Len(s) : (s[j].then = s[k].then /\ s[j].then # "flush") => j = k

MemoryOK ==
  /\ conv \in Conv
  /\ rows \in Seq(Row) /\ Len(rows) <= MaxRows /\ AllOf(rows, conv)
  /\ minted \in 0 .. MaxMinted
  /\ (rows # << >> /\ rows[Len(rows)].kind = "tools") => at = "tooling"

SavesOK == saves \in Seq(Save) /\ Len(saves) <= MaxSaves /\ Kept(saves) /\ OneWaiter(saves)

WaitersOK ==
  /\ at \in {"idle", "requesting", "tooling", "closing", "saving"}
  /\ at = "saving" <=> Has(saves, "turn")
  /\ switching \in {NotSwitching} \cup [stage : {"saving", "loading"}, to : Conv]
  /\ Has(saves, "switch") => switching.stage = "saving"

DiskOK == disk \in [Conv -> Seq(Row)] /\ \A c \in Conv : AllOf(disk[c], c)

BusOK == published \in 0 .. MaxRows /\ crashes \in 0 .. MaxCrashes /\ PublishedAtHome

IndInv == MemoryOK /\ SavesOK /\ WaitersOK /\ DiskOK /\ BusOK

-----------------------------------------------------------------------------
(* What the helpers of the module return.                                  *)

LEMMA Consts ==
  /\ MaxRows \in Nat /\ MaxMinted \in Nat /\ MaxMixed \in Nat /\ MaxSaves \in Nat /\ MaxCrashes \in Nat
  /\ MaxMixed <= MaxMinted /\ Conv # {}
  BY ConstantsAssumption

LEMMA RemoveAtProperties ==
  ASSUME NEW S, NEW s \in Seq(S), NEW k \in 1 .. Len(s)
  PROVE  /\ RemoveAt(s, k) \in Seq(S)
         /\ Len(RemoveAt(s, k)) = Len(s) - 1
         /\ \A i \in 1 .. Len(s) - 1 : RemoveAt(s, k)[i] = IF i < k THEN s[i] ELSE s[i + 1]
<1> DEFINE front == SubSeq(s, 1, k - 1)
           back  == SubSeq(s, k + 1, Len(s))
<1>1. front \in Seq(S) /\ Len(front) = k - 1 /\ \A i \in 1 .. k - 1 : front[i] = s[i]
  BY SubSeqProperties
<1>2. back \in Seq(S) /\ Len(back) = Len(s) - k /\ \A i \in 1 .. Len(s) - k : back[i] = s[k + i]
  BY SubSeqProperties
<1>3. RemoveAt(s, k) = front \o back
  BY DEF RemoveAt
<1> HIDE DEF front, back
<1>4. Len(front) + Len(back) = Len(s) - 1
  BY <1>1, <1>2
<1>5. /\ front \o back \in Seq(S)
      /\ Len(front \o back) = Len(s) - 1
      /\ \A i \in 1 .. Len(s) - 1 : (front \o back)[i] = IF i < k THEN front[i] ELSE back[i - (k - 1)]
  <2>1. /\ front \o back \in Seq(S)
        /\ Len(front \o back) = Len(front) + Len(back)
        /\ \A i \in 1 .. Len(front) + Len(back) :
             (front \o back)[i] = IF i <= Len(front) THEN front[i] ELSE back[i - Len(front)]
    BY <1>1, <1>2, ConcatProperties
  <2>2. Len(front) = k - 1 /\ \A i \in Int : i <= k - 1 <=> i < k
    BY <1>1
  <2> QED
    BY <1>4, <2>1, <2>2
<1>6. ASSUME NEW i \in 1 .. Len(s) - 1
      PROVE  (front \o back)[i] = IF i < k THEN s[i] ELSE s[i + 1]
  <2>1. CASE i < k
    BY <1>1, <1>5, <2>1
  <2>2. CASE ~(i < k)
    <3>1. i - (k - 1) \in 1 .. Len(s) - k /\ k + (i - (k - 1)) = i + 1
      BY <2>2
    <3> QED
      BY <1>2, <1>5, <2>2, <3>1
  <2> QED
    BY <2>1, <2>2
<1> QED
  BY <1>3, <1>5, <1>6

(* The saves StartSaves starts. *)
NewSaves(contents, c, then) ==
  [k \in DOMAIN contents |-> [file |-> c, content |-> contents[k], then |-> then, landed |-> FALSE]]

LEMMA NewSavesProperties ==
  ASSUME NEW c \in Conv, NEW then \in Purpose, NEW contents \in Seq(Seq(Row))
  PROVE  /\ NewSaves(contents, c, then) \in Seq(Save)
         /\ Len(NewSaves(contents, c, then)) = Len(contents)
         /\ \A k \in 1 .. Len(contents) :
              LET save == NewSaves(contents, c, then)[k] IN
              save.file = c /\ save.content = contents[k] /\ save.then = then
<1>1. DOMAIN contents = 1 .. Len(contents) /\ Len(contents) \in Nat
  OBVIOUS
<1>2. \A k \in 1 .. Len(contents) : contents[k] \in Seq(Row)
  OBVIOUS
<1>3. NewSaves(contents, c, then) \in [1 .. Len(contents) -> Save]
  BY <1>1, <1>2 DEF Save, Purpose, NewSaves
<1> QED
  BY <1>1, <1>3 DEF NewSaves

LEMMA Started ==
  ASSUME NEW s \in Seq(Save), NEW c \in Conv, NEW then \in Purpose, NEW contents \in Seq(Seq(Row)),
         \A k \in 1 .. Len(contents) : AllOf(contents[k], c),
         Kept(s), OneWaiter(s),
         then # "flush" => (Len(contents) = 1 /\ ~Has(s, then))
  PROVE  LET t == s \o NewSaves(contents, c, then) IN
         /\ t \in Seq(Save) /\ Len(t) = Len(s) + Len(contents)
         /\ Kept(t) /\ OneWaiter(t)
         /\ \A w \in Purpose : w # then => (Has(t, w) <=> Has(s, w))
         /\ Len(contents) > 0 => Has(t, then)
<1> DEFINE new == NewSaves(contents, c, then)
           t   == s \o new
<1>1. /\ new \in Seq(Save) /\ Len(new) = Len(contents)
      /\ \A k \in 1 .. Len(contents) : new[k].file = c /\ new[k].content = contents[k] /\ new[k].then = then
  BY NewSavesProperties
<1> HIDE DEF new
<1>2. /\ t \in Seq(Save) /\ Len(t) = Len(s) + Len(contents)
      /\ \A k \in 1 .. Len(t) : t[k] = IF k <= Len(s) THEN s[k] ELSE new[k - Len(s)]
  BY <1>1, ConcatProperties
<1> HIDE DEF t
<1>3. \A k \in 1 .. Len(t) : k > Len(s) => (k - Len(s)) \in 1 .. Len(contents)
  BY <1>2
<1>4. \A k \in 1 .. Len(t) : k <= Len(s) => k \in 1 .. Len(s) /\ t[k] = s[k]
  BY <1>2
<1>5. ASSUME NEW k \in 1 .. Len(t), k > Len(s)
      PROVE  t[k] = new[k - Len(s)]
  <2>1. ~(k <= Len(s))
    BY <1>2, <1>5
  <2> QED
    BY <1>2, <2>1
<1>6. \A k \in 1 .. Len(t) : k > Len(s) =>
         t[k].file = c /\ t[k].content = contents[k - Len(s)] /\ t[k].then = then
  BY <1>1, <1>3, <1>5
<1>7. 1 .. Len(s) \subseteq 1 .. Len(t)
  BY <1>2
<1>8. ASSUME NEW k \in 1 .. Len(t)
      PROVE  AllOf(t[k].content, t[k].file)
  <2>1. CASE k <= Len(s)
    BY <1>4, <2>1 DEF Kept
  <2>2. CASE k > Len(s)
    <3>1. AllOf(contents[k - Len(s)], c)
      BY <1>3, <2>2
    <3> QED
      BY <1>6, <2>2, <3>1
  <2> QED
    BY <1>2, <2>1, <2>2
<1>9. OneWaiter(t)
  <2> SUFFICES ASSUME NEW j \in 1 .. Len(t), NEW k \in 1 .. Len(t), t[j].then = t[k].then, t[j].then # "flush"
               PROVE  j = k
    BY DEF OneWaiter
  <2>1. CASE j <= Len(s) /\ k <= Len(s)
    BY <1>4, <2>1 DEF OneWaiter
  <2>2. CASE j > Len(s) /\ k > Len(s)
    <3>1. then # "flush" /\ Len(contents) = 1
      BY <1>6, <2>2
    <3> QED
      BY <1>2, <2>2, <3>1
  <2>3. CASE j <= Len(s) /\ k > Len(s)
    BY <1>4, <1>6, <2>3 DEF Has
  <2>4. CASE j > Len(s) /\ k <= Len(s)
    BY <1>4, <1>6, <2>4 DEF Has
  <2> QED
    BY <1>2, <2>1, <2>2, <2>3, <2>4
<1>10. ASSUME NEW w \in Purpose, w # then
       PROVE  Has(t, w) <=> Has(s, w)
  <2>1. Has(t, w) => Has(s, w)
    <3> SUFFICES ASSUME NEW k \in 1 .. Len(t), t[k].then = w
                 PROVE  Has(s, w)
      BY DEF Has
    <3>1. k <= Len(s)
      BY <1>2, <1>6, <1>10
    <3> QED
      BY <1>4, <3>1 DEF Has
  <2>2. Has(s, w) => Has(t, w)
    <3> SUFFICES ASSUME NEW k \in 1 .. Len(s), s[k].then = w
                 PROVE  Has(t, w)
      BY DEF Has
    <3>1. k \in 1 .. Len(t) /\ t[k] = s[k]
      BY <1>4, <1>7
    <3> QED
      BY <3>1 DEF Has
  <2> QED
    BY <2>1, <2>2
<1>11. Len(contents) > 0 => Has(t, then)
  <2> SUFFICES ASSUME Len(contents) > 0
               PROVE  Len(t) \in 1 .. Len(t) /\ t[Len(t)].then = then
    BY DEF Has
  <2>1. Len(t) \in 1 .. Len(t) /\ Len(t) > Len(s)
    BY <1>2
  <2> QED
    BY <1>6, <2>1
<1> QED
  BY <1>2, <1>8, <1>9, <1>10, <1>11 DEF t, new, Kept

LEMMA Removed ==
  ASSUME NEW s \in Seq(Save), NEW k \in 1 .. Len(s), Kept(s), OneWaiter(s)
  PROVE  /\ RemoveAt(s, k) \in Seq(Save) /\ Len(RemoveAt(s, k)) <= Len(s)
         /\ Kept(RemoveAt(s, k)) /\ OneWaiter(RemoveAt(s, k))
         /\ \A w \in Purpose : w # s[k].then => (Has(RemoveAt(s, k), w) <=> Has(s, w))
         /\ s[k].then # "flush" => ~Has(RemoveAt(s, k), s[k].then)
<1> DEFINE t == RemoveAt(s, k)
<1>1. /\ t \in Seq(Save) /\ Len(t) = Len(s) - 1
      /\ \A i \in 1 .. Len(s) - 1 : t[i] = IF i < k THEN s[i] ELSE s[i + 1]
  BY RemoveAtProperties
<1> HIDE DEF t
<1>2. \A i \in 1 .. Len(t) : \E j \in 1 .. Len(s) : t[i] = s[j] /\ j # k /\ j = IF i < k THEN i ELSE i + 1
  BY <1>1
<1>3. \A j \in 1 .. Len(s) : j # k => \E i \in 1 .. Len(t) : t[i] = s[j]
  <2> SUFFICES ASSUME NEW j \in 1 .. Len(s), j # k
               PROVE  \E i \in 1 .. Len(t) : t[i] = s[j]
    OBVIOUS
  <2>1. CASE j < k
    <3>1. j \in 1 .. Len(t) /\ t[j] = s[j]
      BY <1>1, <2>1
    <3> QED
      BY <3>1
  <2>2. CASE j > k
    <3>1. j - 1 \in 1 .. Len(t) /\ t[j - 1] = s[j]
      BY <1>1, <2>2
    <3> QED
      BY <3>1
  <2> QED
    BY <2>1, <2>2
<1>4. Kept(t)
  BY <1>2 DEF Kept
<1>5. OneWaiter(t)
  <2> SUFFICES ASSUME NEW i \in 1 .. Len(t), NEW j \in 1 .. Len(t), t[i].then = t[j].then, t[i].then # "flush"
               PROVE  i = j
    BY DEF OneWaiter
  <2>1. PICK m \in 1 .. Len(s) : t[i] = s[m] /\ m = IF i < k THEN i ELSE i + 1
    BY <1>2
  <2>2. PICK n \in 1 .. Len(s) : t[j] = s[n] /\ n = IF j < k THEN j ELSE j + 1
    BY <1>2
  <2>3. m = n
    BY <2>1, <2>2 DEF OneWaiter
  <2> QED
    BY <1>1, <2>1, <2>2, <2>3
<1>6. ASSUME NEW w \in Purpose, w # s[k].then
      PROVE  Has(t, w) <=> Has(s, w)
  <2>1. Has(t, w) => Has(s, w)
    BY <1>2 DEF Has
  <2>2. Has(s, w) => Has(t, w)
    BY <1>3, <1>6 DEF Has
  <2> QED
    BY <2>1, <2>2
<1>7. s[k].then # "flush" => ~Has(t, s[k].then)
  BY <1>2 DEF Has, OneWaiter
<1> QED
  BY <1>1, <1>4, <1>5, <1>6, <1>7 DEF t

LEMMA Replaced ==
  ASSUME NEW s \in Seq(Save), NEW k \in 1 .. Len(s), Kept(s), OneWaiter(s),
         NEW u \in Save, u.file = s[k].file, u.content = s[k].content, u.then = s[k].then
  PROVE  LET t == [s EXCEPT ![k] = u] IN
         /\ t \in Seq(Save) /\ Len(t) = Len(s)
         /\ Kept(t) /\ OneWaiter(t)
         /\ \A w \in Purpose : Has(t, w) <=> Has(s, w)
<1> DEFINE t == [s EXCEPT ![k] = u]
<1>1. t \in Seq(Save) /\ Len(t) = Len(s)
  OBVIOUS
<1>2. \A i \in 1 .. Len(s) : t[i].file = s[i].file /\ t[i].content = s[i].content /\ t[i].then = s[i].then
  OBVIOUS
<1> HIDE DEF t
<1>3. Kept(t) /\ OneWaiter(t)
  BY <1>1, <1>2 DEF Kept, OneWaiter
<1>4. \A w \in Purpose : Has(t, w) <=> Has(s, w)
  BY <1>1, <1>2 DEF Has
<1> QED
  BY <1>1, <1>3, <1>4 DEF t

LEMMA LandedProperties ==
  ASSUME NEW save \in Save
  PROVE  /\ [save EXCEPT !.landed = TRUE] \in Save
         /\ [save EXCEPT !.landed = TRUE].file = save.file
         /\ [save EXCEPT !.landed = TRUE].content = save.content
         /\ [save EXCEPT !.landed = TRUE].then = save.then
  BY DEF Save

LEMMA AppendOwn ==
  ASSUME NEW s \in Seq(Row), NEW c \in Conv, AllOf(s, c), NEW row \in Row, row.home = c
  PROVE  /\ Append(s, row) \in Seq(Row) /\ Len(Append(s, row)) = Len(s) + 1 /\ Append(s, row) # << >>
         /\ AllOf(Append(s, row), c)
         /\ Append(s, row)[Len(Append(s, row))] = row
<1> DEFINE t == Append(s, row)
<1>1. /\ t \in Seq(Row) /\ t # << >> /\ Len(t) = Len(s) + 1
      /\ \A i \in 1 .. Len(s) : t[i] = s[i]
      /\ t[Len(s) + 1] = row
  BY AppendProperties
<1> HIDE DEF t
<1>2. ASSUME NEW i \in 1 .. Len(t)
      PROVE  t[i].home = c
  <2>1. i \in 1 .. Len(s) \/ i = Len(s) + 1
    BY <1>1
  <2> QED
    BY <1>1, <2>1 DEF AllOf
<1>3. AllOf(t, c)
  BY <1>2 DEF AllOf
<1> QED
  BY <1>1, <1>3 DEF t

(* A row pushed on a conversation's rows is that conversation's. *)
LEMMA PushedProperties ==
  ASSUME MemoryOK, NEW kind \in Kind, CanPush(kind)
  PROVE  /\ Pushed(kind) \in Seq(Row) /\ Len(Pushed(kind)) <= MaxRows /\ AllOf(Pushed(kind), conv)
         /\ ~MergesWith(kind) => minted + 1 \in 0 .. MaxMinted
         /\ Pushed(kind) # << >> /\ (Pushed(kind)[Len(Pushed(kind))].kind = "tools" => kind = "tools")
<1> USE DEF MemoryOK
<1>1. CASE MergesWith(kind)
  <2>1. Pushed(kind) = rows /\ rows # << >> /\ Role(rows[Len(rows)].kind) = "user"
    BY <1>1 DEF Pushed, MergesWith, Last
  <2> QED
    BY <1>1, <2>1 DEF Role
<1>2. CASE ~MergesWith(kind)
  <2>1. Len(rows) < MaxRows /\ minted < MaxMinted
    BY <1>2, Consts DEF CanPush
  <2>2. NewRow(kind, FALSE) \in Row /\ NewRow(kind, FALSE).home = conv /\ NewRow(kind, FALSE).kind = kind
    BY <2>1, Consts DEF NewRow, Row
  <2>3. Pushed(kind) = Append(rows, NewRow(kind, FALSE))
    BY <1>2 DEF Pushed
  <2>4. /\ Pushed(kind) \in Seq(Row) /\ Len(Pushed(kind)) = Len(rows) + 1 /\ Pushed(kind) # << >>
        /\ AllOf(Pushed(kind), conv)
        /\ Pushed(kind)[Len(Pushed(kind))].kind = kind
    BY <2>2, <2>3, AppendOwn
  <2>5. Len(rows) + 1 <= MaxRows /\ minted + 1 \in 0 .. MaxMinted
    BY <2>1, Consts
  <2> QED
    BY <2>4, <2>5
<1> QED
  BY <1>1, <1>2

(* A load answers the batch it finds at the tip. *)
LEMMA HealedProperties ==
  ASSUME DiskOK, minted \in 0 .. MaxMinted, NEW c \in Conv, Load(c)
  PROVE  /\ conv' = c /\ rows' \in Seq(Row) /\ Len(rows') <= MaxRows /\ AllOf(rows', c)
         /\ minted' \in 0 .. MaxMinted
         /\ rows' # << >> => rows'[Len(rows')].kind # "tools"
<1> DEFINE results == [id |-> minted + 1, home |-> c, kind |-> "results", healed |-> TRUE]
<1>1. disk[c] \in Seq(Row) /\ AllOf(disk[c], c)
  BY DEF DiskOK
<1>2. CASE disk[c] # << >> /\ Last(disk[c]).kind = "tools"
  <2>1. rows' = Append(disk[c], results)
    BY <1>2 DEF Load, Healed
  <2>2. rows' # disk[c]
    BY <1>1, <2>1
  <2>3. minted' = minted + 1 /\ minted' <= MaxMinted /\ Len(rows') <= MaxRows
    BY <2>2 DEF Load
  <2>4. results \in Row /\ results.home = c /\ results.kind = "results"
    BY <2>3, Consts DEF Row, Kind
  <2> HIDE DEF results
  <2>5. rows' \in Seq(Row) /\ AllOf(rows', c) /\ rows'[Len(rows')] = results
    BY <1>1, <2>1, <2>4, AppendOwn
  <2> QED
    BY <2>3, <2>4, <2>5, Consts DEF Load
<1>3. CASE ~(disk[c] # << >> /\ Last(disk[c]).kind = "tools")
  <2>1. rows' = disk[c] /\ minted' = minted /\ conv' = c /\ Len(rows') <= MaxRows
    BY <1>3 DEF Load, Healed
  <2> QED
    BY <1>1, <1>3, <2>1 DEF Last
<1> QED
  BY <1>2, <1>3

LEMMA SavesStart ==
  ASSUME SavesOK, conv \in Conv, NEW contents \in Seq(Seq(Row)), NEW then \in Purpose,
         \A k \in 1 .. Len(contents) : AllOf(contents[k], conv),
         then # "flush" => (Len(contents) = 1 /\ ~Has(saves, then)),
         StartSaves(contents, then)
  PROVE  /\ SavesOK'
         /\ \A w \in Purpose : w # then => (Has(saves', w) <=> Has(saves, w))
         /\ Len(contents) > 0 => Has(saves', then)
<1>1. saves' = saves \o NewSaves(contents, conv, then) /\ Len(saves) + Len(contents) <= MaxSaves
  BY DEF StartSaves, NewSaves
<1>2. LET t == saves \o NewSaves(contents, conv, then) IN
      /\ t \in Seq(Save) /\ Len(t) = Len(saves) + Len(contents)
      /\ Kept(t) /\ OneWaiter(t)
      /\ \A w \in Purpose : w # then => (Has(t, w) <=> Has(saves, w))
      /\ Len(contents) > 0 => Has(t, then)
  BY Started DEF SavesOK
<1> QED
  BY <1>1, <1>2 DEF SavesOK

LEMMA OneSaveStarts ==
  ASSUME SavesOK, conv \in Conv, NEW content \in Seq(Row), AllOf(content, conv), NEW then \in Purpose,
         then # "flush" => ~Has(saves, then),
         StartSave(content, then)
  PROVE  /\ SavesOK'
         /\ \A w \in Purpose : w # then => (Has(saves', w) <=> Has(saves, w))
         /\ Has(saves', then)
<1> DEFINE contents == << content >>
<1>1. /\ contents \in Seq(Seq(Row)) /\ Len(contents) = 1 /\ Len(contents) > 0
      /\ \A k \in 1 .. Len(contents) : AllOf(contents[k], conv)
  OBVIOUS
<1>2. StartSaves(contents, then)
  BY DEF StartSave
<1> HIDE DEF contents
<1> QED
  BY <1>1, <1>2, SavesStart

-----------------------------------------------------------------------------
(* The steps.                                                              *)

LEMMA InitIndInv == Init => IndInv
<1> SUFFICES ASSUME Init
             PROVE  IndInv
  OBVIOUS
<1>1. MemoryOK
  BY Consts DEF Init, MemoryOK, AllOf
<1>2. SavesOK
  BY Consts DEF Init, SavesOK, Kept, OneWaiter
<1>3. WaitersOK
  BY DEF Init, WaitersOK, Has
<1>4. DiskOK
  BY DEF Init, DiskOK, AllOf
<1>5. BusOK
  BY Consts DEF Init, BusOK, PublishedAtHome
<1> QED
  BY <1>1, <1>2, <1>3, <1>4, <1>5 DEF IndInv

LEMMA PushStep ==
  ASSUME MemoryOK, NEW kind \in Kind, Push(kind), kind = "tools" => at' = "tooling"
  PROVE  MemoryOK' /\ conv' = conv
<1>1. CanPush(kind) /\ rows' = Pushed(kind) /\ conv' = conv
      /\ minted' = IF MergesWith(kind) THEN minted ELSE minted + 1
  BY DEF Push
<1> QED
  BY <1>1, PushedProperties DEF MemoryOK

LEMMA SubmitStep == ASSUME IndInv, NEW resume \in BOOLEAN, Submit(resume) PROVE IndInv'
<1>1. MemoryOK' /\ conv' = conv
  <2>1. CASE resume
    BY <2>1 DEF Submit, IndInv, MemoryOK, memVars, Role, Last
  <2>2. CASE ~resume
    BY <2>2, PushStep DEF Submit, IndInv, Kind
  <2> QED
    BY <2>1, <2>2
<1>2. /\ SavesOK'
      /\ \A w \in Purpose : w # "flush" => (Has(saves', w) <=> Has(saves, w))
  <2>1. rows' \in Seq(Row) /\ AllOf(rows', conv) /\ conv \in Conv
    BY <1>1 DEF MemoryOK
  <2> QED
    BY <2>1, OneSaveStarts DEF Submit, IndInv, Purpose
<1>3. WaitersOK'
  BY <1>2 DEF Submit, IndInv, WaitersOK, Purpose
<1>4. DiskOK' /\ BusOK'
  BY DEF Submit, IndInv, DiskOK, BusOK, PublishedAtHome, busVars
<1> QED
  BY <1>1, <1>2, <1>3, <1>4 DEF IndInv

LEMMA ReplyStep == ASSUME IndInv, NEW kind \in {"tools", "answer"}, Reply(kind) PROVE IndInv'
<1>1. MemoryOK' /\ conv' = conv
  BY PushStep DEF Reply, IndInv, Kind
<1>2. /\ SavesOK'
      /\ \A w \in Purpose : w # "flush" => (Has(saves', w) <=> Has(saves, w))
  <2>1. rows' \in Seq(Row) /\ AllOf(rows', conv) /\ conv \in Conv
    BY <1>1 DEF MemoryOK
  <2> QED
    BY <2>1, OneSaveStarts DEF Reply, IndInv, Purpose
<1>3. WaitersOK'
  BY <1>2 DEF Reply, IndInv, WaitersOK, Purpose
<1>4. DiskOK' /\ BusOK'
  BY DEF Reply, IndInv, DiskOK, BusOK, PublishedAtHome, busVars
<1> QED
  BY <1>1, <1>2, <1>3, <1>4 DEF IndInv

(* The save of a reply that is taken out again captures it all the same. *)
LEMMA CorruptReplyStep == ASSUME IndInv, CorruptReply PROVE IndInv'
<1>1. ~MergesWith("corrupt")
  BY DEF MergesWith, Role
<1>2. /\ Pushed("corrupt") \in Seq(Row) /\ AllOf(Pushed("corrupt"), conv)
      /\ minted + 1 \in 0 .. MaxMinted
  BY <1>1, PushedProperties DEF CorruptReply, IndInv, Kind
<1>3. conv \in Conv /\ rows \in Seq(Row) /\ AllOf(rows, conv)
  BY DEF IndInv, MemoryOK
<1>4. MemoryOK'
  BY <1>2 DEF CorruptReply, IndInv, MemoryOK
<1>5. /\ SavesOK'
      /\ \A w \in Purpose : w # "flush" => (Has(saves', w) <=> Has(saves, w))
  <2>1. CASE at' = "requesting" /\ StartSaves(<< Pushed("corrupt"), rows >>, "flush")
    <3> DEFINE contents == << Pushed("corrupt"), rows >>
    <3>1. contents \in Seq(Seq(Row)) /\ \A k \in 1 .. Len(contents) : AllOf(contents[k], conv)
      <4>1. contents \in Seq(Seq(Row)) /\ Len(contents) = 2 /\ contents[1] = Pushed("corrupt") /\ contents[2] = rows
        BY <1>2, <1>3
      <4> HIDE DEF contents
      <4>2. \A k \in 1 .. Len(contents) : k = 1 \/ k = 2
        BY <4>1
      <4> QED
        BY <1>2, <1>3, <4>1, <4>2
    <3>2. StartSaves(contents, "flush")
      BY <2>1
    <3> HIDE DEF contents
    <3> QED
      BY <1>3, <3>1, <3>2, SavesStart DEF IndInv, Purpose
  <2>2. CASE at' = "closing" /\ StartSave(Pushed("corrupt"), "flush")
    BY <1>2, <1>3, <2>2, OneSaveStarts DEF IndInv, Purpose
  <2> QED
    BY <2>1, <2>2 DEF CorruptReply
<1>6. WaitersOK'
  BY <1>5 DEF CorruptReply, IndInv, WaitersOK, Purpose
<1>7. DiskOK' /\ BusOK'
  BY DEF CorruptReply, IndInv, DiskOK, BusOK, PublishedAtHome, busVars
<1> QED
  BY <1>4, <1>5, <1>6, <1>7 DEF IndInv

LEMMA ResultsStep == ASSUME IndInv, Results PROVE IndInv'
<1>1. MemoryOK' /\ conv' = conv
  BY PushStep DEF Results, IndInv, Kind
<1>2. /\ SavesOK'
      /\ \A w \in Purpose : w # "flush" => (Has(saves', w) <=> Has(saves, w))
  <2>1. rows' \in Seq(Row) /\ AllOf(rows', conv) /\ conv \in Conv
    BY <1>1 DEF MemoryOK
  <2>2. CASE at' = "requesting" /\ StartSave(rows', "flush")
    BY <2>1, <2>2, OneSaveStarts DEF IndInv, Purpose
  <2>3. CASE at' = "closing" /\ UNCHANGED saves
    BY <2>3 DEF IndInv, SavesOK
  <2> QED
    BY <2>2, <2>3 DEF Results
<1>3. WaitersOK'
  BY <1>2 DEF Results, IndInv, WaitersOK, Purpose
<1>4. DiskOK' /\ BusOK'
  BY DEF Results, IndInv, DiskOK, BusOK, PublishedAtHome, busVars
<1> QED
  BY <1>1, <1>2, <1>3, <1>4 DEF IndInv

LEMMA EndsStep == ASSUME IndInv, Fails \/ TurnThrows PROVE IndInv'
<1> USE DEF Fails, TurnThrows, memVars, busVars
<1>1. MemoryOK' /\ SavesOK'
  BY DEF IndInv, MemoryOK, SavesOK
<1>2. WaitersOK'
  BY DEF IndInv, WaitersOK
<1>3. DiskOK' /\ BusOK'
  BY DEF IndInv, DiskOK, BusOK, PublishedAtHome
<1> QED
  BY <1>1, <1>2, <1>3 DEF IndInv

LEMMA ClosesStep == ASSUME IndInv, Closes PROVE IndInv'
<1>1. MemoryOK'
  BY DEF Closes, IndInv, MemoryOK, memVars
<1>2. /\ SavesOK' /\ Has(saves', "turn")
      /\ Has(saves', "switch") <=> Has(saves, "switch")
  BY OneSaveStarts DEF Closes, IndInv, MemoryOK, WaitersOK, Purpose
<1>3. WaitersOK'
  BY <1>2 DEF Closes, IndInv, WaitersOK
<1>4. DiskOK' /\ BusOK'
  BY DEF Closes, IndInv, DiskOK, BusOK, PublishedAtHome, busVars
<1> QED
  BY <1>1, <1>2, <1>3, <1>4 DEF IndInv

LEMMA LandsStep == ASSUME IndInv, NEW k \in DOMAIN saves, Lands(k) PROVE IndInv'
<1>1. k \in 1 .. Len(saves) /\ saves[k] \in Save /\ AllOf(saves[k].content, saves[k].file)
  BY DEF IndInv, SavesOK, Kept
<1>2. saves' = [saves EXCEPT ![k] = [saves[k] EXCEPT !.landed = TRUE]]
  BY DEF Lands
<1>3. SavesOK' /\ \A w \in Purpose : Has(saves', w) <=> Has(saves, w)
  <2> DEFINE u == [saves[k] EXCEPT !.landed = TRUE]
  <2>1. u \in Save /\ u.file = saves[k].file /\ u.content = saves[k].content /\ u.then = saves[k].then
    BY <1>1, LandedProperties
  <2>2. saves' = [saves EXCEPT ![k] = u]
    BY <1>2
  <2> HIDE DEF u
  <2>3. saves \in Seq(Save) /\ Len(saves) <= MaxSaves /\ Kept(saves) /\ OneWaiter(saves)
    BY DEF IndInv, SavesOK
  <2>4. LET t == [saves EXCEPT ![k] = u] IN
        /\ t \in Seq(Save) /\ Len(t) = Len(saves)
        /\ Kept(t) /\ OneWaiter(t)
        /\ \A w \in Purpose : Has(t, w) <=> Has(saves, w)
    BY <1>1, <2>1, <2>3, Replaced
  <2> QED
    BY <2>2, <2>3, <2>4 DEF SavesOK
<1>4. MemoryOK' /\ BusOK'
  BY DEF Lands, IndInv, MemoryOK, BusOK, PublishedAtHome, memVars, busVars
<1>5. WaitersOK'
  BY <1>3 DEF Lands, IndInv, WaitersOK, Purpose
<1>6. DiskOK'
  <2>1. saves[k].file \in Conv /\ saves[k].content \in Seq(Row)
    BY <1>1 DEF Save
  <2>2. disk' = [disk EXCEPT ![saves[k].file] = saves[k].content]
    BY DEF Lands
  <2> QED
    BY <1>1, <2>1, <2>2 DEF IndInv, DiskOK
<1> QED
  BY <1>3, <1>4, <1>5, <1>6 DEF IndInv

(* A flush publishes what is in memory, under its own id. *)
LEMMA FlushStep == ASSUME IndInv, Flush(conv), crashes' = crashes PROVE BusOK'
<1>1. published' \in 0 .. MaxRows
  BY Consts DEF Flush, IndInv, MemoryOK
<1>2. ASSUME NEW x \in changes' PROVE x[2].home = x[1]
  <2>1. CASE x \in changes
    BY <2>1 DEF IndInv, BusOK, PublishedAtHome
  <2>2. CASE x \notin changes
    <3>1. PICK k \in published + 1 .. Len(rows) : x = << conv, rows[k] >>
      BY <2>2 DEF Flush
    <3>2. k \in 1 .. Len(rows)
      BY <3>1 DEF IndInv, BusOK, MemoryOK
    <3> QED
      BY <3>1, <3>2 DEF IndInv, MemoryOK, AllOf
  <2> QED
    BY <2>1, <2>2
<1> QED
  BY <1>1, <1>2 DEF BusOK, PublishedAtHome, IndInv

LEMMA InFlight ==
  ASSUME IndInv, NEW k \in DOMAIN saves
  PROVE  k \in 1 .. Len(saves) /\ saves[k].then \in Purpose /\ Has(saves, saves[k].then)
<1>1. saves \in Seq(Save)
  BY DEF IndInv, SavesOK
<1>2. k \in 1 .. Len(saves) /\ saves[k] \in Save
  BY <1>1
<1>3. saves[k].then \in Purpose
  BY <1>2 DEF Save, Purpose
<1> QED
  BY <1>2, <1>3 DEF Has

LEMMA SettlesStep == ASSUME IndInv, NEW k \in DOMAIN saves, Settles(k) PROVE IndInv'
<1>1. k \in 1 .. Len(saves) /\ saves[k].then \in Purpose /\ Has(saves, saves[k].then)
  BY InFlight
<1>2. /\ SavesOK'
      /\ \A w \in Purpose : w # saves[k].then => (Has(saves', w) <=> Has(saves, w))
      /\ saves[k].then # "flush" => ~Has(saves', saves[k].then)
  BY <1>1, Removed, Consts DEF Settles, IndInv, SavesOK
<1>3. Continues(saves[k]) /\ UNCHANGED << memVars, disk, crashes >>
  BY DEF Settles
<1>4. DiskOK'
  BY <1>3 DEF IndInv, DiskOK
<1>5. CASE saves[k].then = "flush"
  <2>1. Flush(conv) /\ UNCHANGED << at, switching >>
    BY <1>3, <1>5 DEF Continues
  <2>2. BusOK'
    BY <1>3, <2>1, FlushStep
  <2>3. MemoryOK' /\ WaitersOK'
    BY <1>2, <1>3, <1>5, <2>1 DEF IndInv, MemoryOK, WaitersOK, memVars, Purpose
  <2> QED
    BY <1>2, <1>4, <2>2, <2>3 DEF IndInv
<1>6. CASE saves[k].then = "turn"
  <2>1. Flush(conv) /\ at' = "idle" /\ UNCHANGED switching
    BY <1>3, <1>6 DEF Continues
  <2>2. BusOK'
    BY <1>3, <2>1, FlushStep
  <2>3. at = "saving"
    BY <1>1, <1>6 DEF IndInv, WaitersOK
  <2>4. MemoryOK' /\ WaitersOK'
    BY <1>2, <1>3, <1>6, <2>1, <2>3 DEF IndInv, MemoryOK, WaitersOK, memVars, Purpose
  <2> QED
    BY <1>2, <1>4, <2>2, <2>4 DEF IndInv
<1>7. CASE saves[k].then = "switch"
  <2>1. switching' = [switching EXCEPT !.stage = "loading"] /\ UNCHANGED << at, busVars >>
    BY <1>3, <1>7 DEF Continues
  <2>2. switching \in [stage : {"saving", "loading"}, to : Conv]
    BY <1>1, <1>7 DEF IndInv, WaitersOK, NotSwitching
  <2>3. switching' \in [stage : {"saving", "loading"}, to : Conv]
    BY <2>1, <2>2
  <2>4. BusOK' /\ MemoryOK' /\ WaitersOK'
    BY <1>2, <1>3, <1>7, <2>1, <2>3 DEF IndInv, BusOK, PublishedAtHome, busVars, MemoryOK, WaitersOK, memVars, Purpose
  <2> QED
    BY <1>2, <1>4, <2>4 DEF IndInv
<1> QED
  BY <1>1, <1>5, <1>6, <1>7 DEF Purpose

LEMMA SaveFailsStep == ASSUME IndInv, NEW k \in DOMAIN saves, SaveFails(k) PROVE IndInv'
<1>1. k \in 1 .. Len(saves) /\ saves[k].then \in Purpose /\ Has(saves, saves[k].then)
  BY InFlight
<1>2. /\ SavesOK'
      /\ \A w \in Purpose : w # saves[k].then => (Has(saves', w) <=> Has(saves, w))
      /\ saves[k].then # "flush" => ~Has(saves', saves[k].then)
  BY <1>1, Removed, Consts DEF SaveFails, IndInv, SavesOK
<1>3. MemoryOK'
  BY <1>1 DEF SaveFails, IndInv, MemoryOK, WaitersOK, memVars
<1>4. WaitersOK'
  BY <1>1, <1>2 DEF SaveFails, IndInv, WaitersOK, Purpose
<1>5. DiskOK' /\ BusOK'
  BY DEF SaveFails, IndInv, DiskOK, BusOK, PublishedAtHome, busVars
<1> QED
  BY <1>2, <1>3, <1>4, <1>5 DEF IndInv

LEMMA NewSessionStep == ASSUME IndInv, NEW c \in Conv, NewSession(c) PROVE IndInv'
<1> USE DEF NewSession, busVars
<1>1. MemoryOK'
  BY Consts DEF IndInv, MemoryOK, AllOf
<1>2. SavesOK' /\ WaitersOK'
  BY DEF IndInv, SavesOK, WaitersOK
<1>3. DiskOK' /\ BusOK'
  BY DEF IndInv, DiskOK, BusOK, PublishedAtHome
<1> QED
  BY <1>1, <1>2, <1>3 DEF IndInv

LEMMA SwitchToStep == ASSUME IndInv, NEW c \in Conv, SwitchTo(c) PROVE IndInv'
<1>1. switching = NotSwitching
  BY DEF SwitchTo, MayMove
<1>2. ~Has(saves, "switch")
  BY <1>1 DEF IndInv, WaitersOK, NotSwitching
<1>3. MemoryOK'
  BY DEF SwitchTo, IndInv, MemoryOK, memVars
<1>4. SavesOK' /\ (Has(saves', "turn") <=> Has(saves, "turn"))
  BY <1>2, OneSaveStarts DEF SwitchTo, IndInv, MemoryOK, Purpose
<1>5. WaitersOK'
  <2>1. switching' = [stage |-> "saving", to |-> c]
    BY DEF SwitchTo
  <2>2. switching' \in [stage : {"saving", "loading"}, to : Conv] /\ switching'.stage = "saving"
    BY <2>1
  <2> QED
    BY <1>4, <2>2 DEF SwitchTo, IndInv, WaitersOK
<1>6. DiskOK' /\ BusOK'
  BY DEF SwitchTo, IndInv, DiskOK, BusOK, PublishedAtHome, busVars
<1> QED
  BY <1>3, <1>4, <1>5, <1>6 DEF IndInv

LEMMA AdoptStep == ASSUME IndInv, Adopt PROVE IndInv'
<1>1. switching.stage = "loading" /\ switching.to \in Conv
  BY DEF Adopt, IndInv, WaitersOK, NotSwitching
<1>2. MemoryOK'
  BY <1>1, HealedProperties DEF Adopt, IndInv, MemoryOK
<1>3. SavesOK' /\ WaitersOK'
  BY <1>1 DEF Adopt, IndInv, SavesOK, WaitersOK
<1>4. DiskOK' /\ BusOK'
  BY DEF Adopt, IndInv, DiskOK, BusOK, PublishedAtHome, busVars
<1> QED
  BY <1>2, <1>3, <1>4 DEF IndInv

LEMMA RestartStep == ASSUME IndInv, NEW c \in Conv, Restart(c) PROVE IndInv'
<1>1. MemoryOK'
  BY HealedProperties DEF Restart, IndInv, MemoryOK
<1>2. SavesOK'
  BY Consts DEF Restart, SavesOK, Kept, OneWaiter
<1>3. WaitersOK'
  BY DEF Restart, WaitersOK, Has
<1>4. DiskOK' /\ BusOK'
  BY Consts DEF Restart, IndInv, DiskOK, BusOK, PublishedAtHome
<1> QED
  BY <1>1, <1>2, <1>3, <1>4 DEF IndInv

LEMMA StutterStep == ASSUME IndInv, UNCHANGED vars PROVE IndInv'
<1> USE DEF vars, memVars, busVars
<1>1. MemoryOK' /\ SavesOK'
  BY DEF IndInv, MemoryOK, SavesOK
<1>2. WaitersOK' /\ DiskOK' /\ BusOK'
  BY DEF IndInv, WaitersOK, DiskOK, BusOK, PublishedAtHome
<1> QED
  BY <1>1, <1>2 DEF IndInv

LEMMA NextIndInv == IndInv /\ [Next]_vars => IndInv'
<1> SUFFICES ASSUME IndInv, [Next]_vars
             PROVE  IndInv'
  OBVIOUS
<1>1. ASSUME NEW resume \in BOOLEAN, Submit(resume) PROVE IndInv'
  BY <1>1, SubmitStep
<1>2. CASE TurnStep
  BY <1>2, ReplyStep, CorruptReplyStep, ResultsStep, EndsStep, ClosesStep DEF TurnStep
<1>3. ASSUME NEW then \in Purpose, SaveStep(then) PROVE IndInv'
  BY <1>3, LandsStep, SettlesStep, SaveFailsStep DEF SaveStep
<1>4. ASSUME NEW c \in Conv, NewSession(c) \/ SwitchTo(c) \/ Restart(c) PROVE IndInv'
  BY <1>4, NewSessionStep, SwitchToStep, RestartStep
<1>5. CASE Adopt
  BY <1>5, AdoptStep
<1>6. CASE UNCHANGED vars
  BY <1>6, StutterStep
<1> QED
  BY <1>1, <1>2, <1>3, <1>4, <1>5, <1>6 DEF Next

(* Every turn, save, move and restart keeps it: what a save captured, whose    *)
(* file it is for and who waits for it fit together whatever overlaps.         *)
THEOREM Invariance == Spec => []IndInv
<1>1. Init => IndInv
  BY InitIndInv
<1>2. IndInv /\ [Next]_vars => IndInv'
  BY NextIndInv
<1> QED
  BY <1>1, <1>2, PTL DEF Spec

-----------------------------------------------------------------------------
LEMMA IndInvRowsSound == IndInv => RowsSound
<1> SUFFICES ASSUME IndInv
             PROVE  RowsSound
  OBVIOUS
<1>1. at = "saving" <=> \E k \in DOMAIN saves : saves[k].then = "turn"
  <2>1. DOMAIN saves = 1 .. Len(saves)
    BY DEF IndInv, SavesOK
  <2> QED
    BY <2>1 DEF IndInv, WaitersOK, Has
<1>2. switching.stage \in {"no", "saving", "loading"}
  BY DEF IndInv, WaitersOK, NotSwitching
<1>3. TypeOK
  BY <1>1, <1>2 DEF TypeOK, IndInv, MemoryOK, SavesOK, WaitersOK, DiskOK, BusOK
<1>4. OwnRowsOnly
  <2> SUFFICES ASSUME NEW c \in Conv, NEW k \in DOMAIN disk[c]
               PROVE  disk[c][k].home = c
    BY DEF OwnRowsOnly
  <2>1. disk[c] \in Seq(Row) /\ AllOf(disk[c], c)
    BY DEF IndInv, DiskOK
  <2>2. k \in 1 .. Len(disk[c])
    BY <2>1
  <2> QED
    BY <2>1, <2>2 DEF AllOf
<1> QED
  BY <1>3, <1>4 DEF RowsSound

LEMMA IndInvTipAnswered == IndInv => TipAnswered
  BY DEF IndInv, MemoryOK, TipAnswered, Last

(* Every file holds rows of its own conversation only, whatever saves were in *)
(* flight across a move, failed, or were cut off by a death (#persist).       *)
THEOREM RowsStayHome == Spec => []RowsSound
<1>1. IndInv => RowsSound
  BY IndInvRowsSound
<1> QED
  BY <1>1, Invariance, PTL

(* What the bus was told of a conversation is that conversation's, although a *)
(* flush runs behind a save that may be another's (ConvChangePublisher.flush). *)
THEOREM PublicationStaysHome == Spec => []PublishedAtHome
<1>1. IndInv => PublishedAtHome
  BY DEF IndInv, BusOK
<1> QED
  BY <1>1, Invariance, PTL

(* The loop never waits for input on an unanswered batch: a turn answers what *)
(* it asked for, and a load heals what it finds (healDanglingToolUse).        *)
THEOREM BatchesAreAnswered == Spec => []TipAnswered
<1>1. IndInv => TipAnswered
  BY IndInvTipAnswered
<1> QED
  BY <1>1, Invariance, PTL
=============================================================================
