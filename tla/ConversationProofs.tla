------------------------- MODULE ConversationProofs -------------------------
(***************************************************************************)
(* The block level of the conversation, for every set of tool_use ids and  *)
(* every bound: what is stored is kept as MessageLog promises, what is     *)
(* sent is accepted, the cached prefix stays, and what was typed is there  *)
(* once.                                                                   *)
(***************************************************************************)
EXTENDS Conversation, HistoryProofs, FiniteSetTheorems, WellFoundedInduction

(* A message of blocks that is in order: its answers lead, its stamp is in *)
(* place, and its blocks are those its side may write.                     *)
UserKinds == {"text"} \cup Reminders \cup Results
ReplyKinds == {"text", "use", "compaction"}

ResultsFirst(blocks) ==
  \A j, k \in DOMAIN blocks : j < k /\ IsResult(blocks[k]) => IsResult(blocks[j])

ItemOK(m) ==
  /\ m \in Item /\ ~m.plain
  /\ ResultsFirst(m.blocks)
  /\ StampInPlace(m.blocks)
  /\ m.role = "user" => \A b \in ToSet(m.blocks) : b.kind \in UserKinds
  /\ m.role = "assistant" =>
       \A b \in ToSet(m.blocks) : /\ b.kind \in ReplyKinds
                                  /\ b.kind = "compaction" => m.blocks = << b >>

-----------------------------------------------------------------------------
(* Sequences of blocks. *)

LEMMA ConcatShape ==
  ASSUME NEW S, NEW x \in Seq(S), NEW y \in Seq(S)
  PROVE  /\ x \o y \in Seq(S)
         /\ Len(x \o y) = Len(x) + Len(y)
         /\ DOMAIN (x \o y) = 1 .. Len(x) + Len(y)
         /\ \A i \in 1 .. Len(x) : (x \o y)[i] = x[i]
         /\ \A i \in 1 .. Len(y) : (x \o y)[Len(x) + i] = y[i]
         /\ \A k \in 1 .. Len(x) + Len(y) :
              k \in 1 .. Len(x) \/ (k > Len(x) /\ k - Len(x) \in 1 .. Len(y))
  <1> DEFINE z == x \o y
  <1>1. /\ z \in Seq(S) /\ Len(z) = Len(x) + Len(y)
        /\ \A i \in 1 .. Len(x) + Len(y) : z[i] = IF i <= Len(x) THEN x[i] ELSE y[i - Len(x)]
    BY ConcatProperties
  <1>2. Len(x) \in Nat /\ Len(y) \in Nat /\ DOMAIN z = 1 .. Len(x) + Len(y)
    BY <1>1, LenProperties
  <1> HIDE DEF z
  <1>3. \A i \in 1 .. Len(x) : z[i] = x[i]
    BY <1>1, <1>2
  <1>4. ASSUME NEW i \in 1 .. Len(y) PROVE z[Len(x) + i] = y[i]
    <2>1. Len(x) + i \in 1 .. Len(x) + Len(y) /\ ~(Len(x) + i <= Len(x)) /\ (Len(x) + i) - Len(x) = i
      BY <1>2
    <2>2. QED
      BY <1>1, <2>1
  <1>5. \A k \in 1 .. Len(x) + Len(y) :
          k \in 1 .. Len(x) \/ (k > Len(x) /\ k - Len(x) \in 1 .. Len(y))
    BY <1>2
  <1>6. QED
    BY <1>1, <1>2, <1>3, <1>4, <1>5 DEF z

LEMMA ElementsOf ==
  ASSUME NEW S, NEW x \in Seq(S)
  PROVE  ToSet(x) = {x[i] : i \in 1 .. Len(x)} /\ ToSet(x) \subseteq S
  BY LenProperties DEF ToSet

LEMMA ConcatElements ==
  ASSUME NEW S, NEW x \in Seq(S), NEW y \in Seq(S)
  PROVE  ToSet(x \o y) = ToSet(x) \cup ToSet(y)
  <1> DEFINE z == x \o y
  <1>1. /\ z \in Seq(S) /\ Len(z) = Len(x) + Len(y)
        /\ \A i \in 1 .. Len(x) : z[i] = x[i]
        /\ \A i \in 1 .. Len(y) : z[Len(x) + i] = y[i]
        /\ \A k \in 1 .. Len(x) + Len(y) :
             k \in 1 .. Len(x) \/ (k > Len(x) /\ k - Len(x) \in 1 .. Len(y))
    BY ConcatShape
  <1>2. Len(x) \in Nat /\ Len(y) \in Nat
    BY LenProperties
  <1> HIDE DEF z
  <1>3. ToSet(z) = {z[k] : k \in 1 .. Len(x) + Len(y)}
    BY <1>1, ElementsOf
  <1>4. ToSet(x) = {x[i] : i \in 1 .. Len(x)} /\ ToSet(y) = {y[i] : i \in 1 .. Len(y)}
    BY ElementsOf
  <1>5. ASSUME NEW k \in 1 .. Len(x) + Len(y) PROVE z[k] \in ToSet(x) \cup ToSet(y)
    <2>1. CASE k \in 1 .. Len(x)
      BY <1>1, <1>4, <2>1
    <2>2. CASE k > Len(x) /\ k - Len(x) \in 1 .. Len(y)
      <3>1. k = Len(x) + (k - Len(x))
        BY <1>2
      <3>2. z[k] = y[k - Len(x)]
        BY <1>1, <2>2, <3>1
      <3>3. QED
        BY <1>4, <2>2, <3>2
    <2>3. QED
      BY <1>1, <2>1, <2>2
  <1>6. \A i \in 1 .. Len(x) : x[i] \in ToSet(z)
    <2> SUFFICES ASSUME NEW i \in 1 .. Len(x) PROVE x[i] \in ToSet(z)
      OBVIOUS
    <2>1. i \in 1 .. Len(x) + Len(y) /\ z[i] = x[i]
      BY <1>1, <1>2
    <2>2. QED
      BY <1>3, <2>1
  <1>7. \A i \in 1 .. Len(y) : y[i] \in ToSet(z)
    <2> SUFFICES ASSUME NEW i \in 1 .. Len(y) PROVE y[i] \in ToSet(z)
      OBVIOUS
    <2>1. Len(x) + i \in 1 .. Len(x) + Len(y) /\ z[Len(x) + i] = y[i]
      BY <1>1, <1>2
    <2>2. QED
      BY <1>3, <2>1
  <1>8. ToSet(z) = ToSet(x) \cup ToSet(y)
    BY <1>3, <1>4, <1>5, <1>6, <1>7
  <1>9. QED
    BY <1>8 DEF z

LEMMA SingleBlock ==
  ASSUME NEW b
  PROVE  ToSet(<< b >>) = {b} /\ Len(<< b >>) = 1 /\ << b >> # << >> /\ << b >>[1] = b
  <1>1. DOMAIN << b >> = 1 .. 1 /\ Len(<< b >>) = 1 /\ << b >>[1] = b
    OBVIOUS
  <1>2. QED
    BY <1>1 DEF ToSet

LEMMA NoBlocks == ToSet(<< >>) = {} /\ Len(<< >>) = 0
  BY DEF ToSet

(* Order survives when nothing that must lead is put behind, and when only *)
(* answers are put in front.                                               *)
LEMMA OrderBehind ==
  ASSUME NEW x \in Seq(Block), NEW y \in Seq(Block), ResultsFirst(x), StampInPlace(x),
         \A b \in ToSet(y) : ~IsResult(b) /\ b.kind # "stamp"
  PROVE  ResultsFirst(x \o y) /\ StampInPlace(x \o y)
  <1> DEFINE z == x \o y
  <1>1. /\ DOMAIN z = 1 .. Len(x) + Len(y) /\ Len(z) = Len(x) + Len(y)
        /\ \A i \in 1 .. Len(x) : z[i] = x[i]
        /\ \A i \in 1 .. Len(y) : z[Len(x) + i] = y[i]
        /\ \A k \in 1 .. Len(x) + Len(y) :
             k \in 1 .. Len(x) \/ (k > Len(x) /\ k - Len(x) \in 1 .. Len(y))
    BY ConcatShape
  <1>2. Len(x) \in Nat /\ Len(y) \in Nat /\ DOMAIN x = 1 .. Len(x) /\ DOMAIN y = 1 .. Len(y)
    BY LenProperties
  <1> HIDE DEF z
  <1>3. ASSUME NEW k \in 1 .. Len(x) + Len(y), IsResult(z[k]) \/ z[k].kind = "stamp"
        PROVE  k \in 1 .. Len(x)
    <2> SUFFICES ASSUME k > Len(x), k - Len(x) \in 1 .. Len(y) PROVE FALSE
      BY <1>1
    <2>1. k = Len(x) + (k - Len(x))
      BY <1>2
    <2>2. z[k] = y[k - Len(x)]
      BY <1>1, <2>1
    <2>3. QED
      BY <1>2, <1>3, <2>2 DEF ToSet
  <1>4. ASSUME NEW j \in 1 .. Len(x) + Len(y), NEW k \in 1 .. Len(x) + Len(y), j < k, IsResult(z[k])
        PROVE  IsResult(z[j])
    <2>1. k \in 1 .. Len(x)
      BY <1>3, <1>4
    <2>2. j \in 1 .. Len(x)
      BY <1>2, <1>4, <2>1
    <2>3. QED
      BY <1>1, <1>2, <1>4, <2>1, <2>2 DEF ResultsFirst
  <1>5. ASSUME NEW j \in 1 .. Len(x) + Len(y), z[j].kind = "stamp"
        PROVE  /\ \A k \in 1 .. Len(x) + Len(y) : z[k].kind = "stamp" => k = j
               /\ \A k \in 1 .. j : ~IsContent(z[k])
               /\ j < Len(x) + Len(y) /\ IsContent(z[j + 1])
    <2>1. j \in 1 .. Len(x) /\ z[j] = x[j]
      BY <1>1, <1>3, <1>5
    <2>2. /\ \A k \in 1 .. Len(x) : x[k].kind = "stamp" => k = j
          /\ \A k \in 1 .. j : ~IsContent(x[k])
          /\ j < Len(x) /\ IsContent(x[j + 1])
      BY <1>2, <1>5, <2>1 DEF StampInPlace
    <2>3. ASSUME NEW k \in 1 .. Len(x) + Len(y), z[k].kind = "stamp" PROVE k = j
      <3>1. k \in 1 .. Len(x)
        BY <1>3, <2>3
      <3>2. QED
        BY <1>1, <2>2, <2>3, <3>1
    <2>4. ASSUME NEW k \in 1 .. j PROVE ~IsContent(z[k])
      <3>1. k \in 1 .. Len(x)
        BY <1>2, <2>1
      <3>2. z[k] = x[k]
        BY <1>1, <3>1
      <3>3. QED
        BY <2>2, <3>2
    <2>5. j + 1 \in 1 .. Len(x) /\ j < Len(x) + Len(y)
      BY <1>2, <2>1, <2>2
    <2>6. z[j + 1] = x[j + 1]
      BY <1>1, <2>5
    <2>7. QED
      BY <2>2, <2>3, <2>4, <2>5, <2>6
  <1>6. ResultsFirst(z)
    BY <1>1, <1>4 DEF ResultsFirst
  <1>7. StampInPlace(z)
    BY <1>1, <1>5 DEF StampInPlace
  <1>8. QED
    BY <1>6, <1>7 DEF z

LEMMA OrderInFront ==
  ASSUME NEW x \in Seq(Block), NEW y \in Seq(Block), ResultsFirst(y), StampInPlace(y),
         \A b \in ToSet(x) : IsResult(b)
  PROVE  ResultsFirst(x \o y) /\ StampInPlace(x \o y)
  <1> DEFINE z == x \o y
             n == Len(x)
  <1>1. /\ DOMAIN z = 1 .. n + Len(y) /\ Len(z) = n + Len(y)
        /\ \A i \in 1 .. n : z[i] = x[i]
        /\ \A i \in 1 .. Len(y) : z[n + i] = y[i]
        /\ \A k \in 1 .. n + Len(y) : k \in 1 .. n \/ (k > n /\ k - n \in 1 .. Len(y))
    BY ConcatShape
  <1>2. n \in Nat /\ Len(y) \in Nat /\ DOMAIN x = 1 .. n /\ DOMAIN y = 1 .. Len(y)
    BY LenProperties
  <1> HIDE DEF z, n
  <1>3. ASSUME NEW k \in 1 .. n PROVE IsResult(z[k]) /\ z[k].kind # "stamp" /\ ~IsContent(z[k])
    <2>1. IsResult(z[k])
      BY <1>1, <1>2 DEF ToSet
    <2>2. QED
      BY <2>1 DEF IsContent, IsResult, Results
  <1>4. ASSUME NEW k \in 1 .. n + Len(y), k > n PROVE k - n \in 1 .. Len(y) /\ z[k] = y[k - n]
    <2>1. k - n \in 1 .. Len(y) /\ k = n + (k - n)
      BY <1>2, <1>4
    <2>2. QED
      BY <1>1, <2>1
  <1>5. ASSUME NEW j \in 1 .. n + Len(y), NEW k \in 1 .. n + Len(y), j < k, IsResult(z[k])
        PROVE  IsResult(z[j])
    <2>1. CASE j \in 1 .. n
      BY <1>3, <2>1
    <2>2. CASE j > n
      <3>1. k > n /\ j - n < k - n
        BY <1>2, <1>5, <2>2
      <3>2. /\ j - n \in 1 .. Len(y) /\ z[j] = y[j - n]
            /\ k - n \in 1 .. Len(y) /\ z[k] = y[k - n]
        BY <1>4, <2>2, <3>1
      <3>3. QED
        BY <1>2, <1>5, <3>1, <3>2 DEF ResultsFirst
    <2>3. QED
      BY <1>1, <2>1, <2>2
  <1>6. ASSUME NEW j \in 1 .. n + Len(y), z[j].kind = "stamp"
        PROVE  /\ \A k \in 1 .. n + Len(y) : z[k].kind = "stamp" => k = j
               /\ \A k \in 1 .. j : ~IsContent(z[k])
               /\ j < n + Len(y) /\ IsContent(z[j + 1])
    <2>1. j > n
      BY <1>1, <1>3, <1>6
    <2>2. j - n \in 1 .. Len(y) /\ z[j] = y[j - n]
      BY <1>4, <2>1
    <2>3. /\ \A k \in 1 .. Len(y) : y[k].kind = "stamp" => k = j - n
          /\ \A k \in 1 .. j - n : ~IsContent(y[k])
          /\ j - n < Len(y) /\ IsContent(y[(j - n) + 1])
      BY <1>2, <1>6, <2>2 DEF StampInPlace
    <2>4. ASSUME NEW k \in 1 .. n + Len(y), z[k].kind = "stamp" PROVE k = j
      <3>1. k > n
        BY <1>1, <1>3, <2>4
      <3>2. k - n \in 1 .. Len(y) /\ z[k] = y[k - n]
        BY <1>4, <3>1
      <3>3. k - n = j - n
        BY <2>3, <2>4, <3>2
      <3>4. QED
        BY <1>2, <3>3
    <2>5. ASSUME NEW k \in 1 .. j PROVE ~IsContent(z[k])
      <3>1. CASE k \in 1 .. n
        BY <1>3, <3>1
      <3>2. CASE k > n
        <4>1. k \in 1 .. n + Len(y) /\ k - n \in 1 .. j - n
          BY <1>2, <3>2
        <4>2. z[k] = y[k - n]
          BY <1>4, <3>2, <4>1
        <4>3. QED
          BY <2>3, <4>1, <4>2
      <3>3. QED
        BY <1>2, <3>1, <3>2
    <2>6. j + 1 \in 1 .. n + Len(y) /\ j + 1 > n /\ (j + 1) - n = (j - n) + 1 /\ j < n + Len(y)
      BY <1>2, <2>1, <2>3
    <2>7. z[j + 1] = y[(j - n) + 1]
      BY <1>4, <2>6
    <2>8. QED
      BY <2>3, <2>4, <2>5, <2>6, <2>7
  <1>7. ResultsFirst(z)
    BY <1>1, <1>5 DEF ResultsFirst
  <1>8. StampInPlace(z)
    BY <1>1, <1>6 DEF StampInPlace
  <1>9. QED
    BY <1>7, <1>8 DEF z

LEMMA OnlyResults ==
  ASSUME NEW x \in Seq(Block), \A b \in ToSet(x) : IsResult(b)
  PROVE  ResultsFirst(x) /\ StampInPlace(x)
  <1>1. \A k \in DOMAIN x : IsResult(x[k]) /\ x[k].kind # "stamp"
    BY DEF ToSet, IsResult, Results
  <1>2. QED
    BY <1>1 DEF ResultsFirst, StampInPlace

LEMMA NeitherResultsNorStamps ==
  ASSUME NEW x \in Seq(Block), \A b \in ToSet(x) : ~IsResult(b) /\ b.kind # "stamp"
  PROVE  ResultsFirst(x) /\ StampInPlace(x)
  <1>1. \A k \in DOMAIN x : ~IsResult(x[k]) /\ x[k].kind # "stamp"
    BY DEF ToSet
  <1>2. QED
    BY <1>1 DEF ResultsFirst, StampInPlace

(* The answers to a set of ids. *)
LEMMA AnswersShape ==
  ASSUME NEW kind \in Results, NEW ids \in SUBSET ToolId, IsFiniteSet(ids)
  PROVE  /\ Answers(kind, ids) \in Seq(Block)
         /\ ToSet(Answers(kind, ids)) = {[kind |-> kind, id |-> t] : t \in ids}
         /\ Answers(kind, ids) = << >> <=> ids = {}
         /\ \A b \in ToSet(Answers(kind, ids)) : IsResult(b)
  <1> DEFINE n == Cardinality(ids)
             order == SetToSeq(ids)
             s == Answers(kind, ids)
  <1>1. n \in Nat /\ ExistsBijection(1 .. n, ids)
    BY FS_CardinalityType
  <1>2. PICK f \in Bijection(1 .. n, ids) : TRUE
    BY <1>1 DEF ExistsBijection
  <1>3. f \in [1 .. n -> ids] /\ IsInjective(f)
    BY <1>2 DEF Bijection, Injection, IsInjective
  <1>4. order \in [1 .. n -> ids] /\ IsInjective(order)
    BY <1>3 DEF SetToSeq
  <1> HIDE DEF order, n
  <1>5. order \in Injection(1 .. n, ids)
    BY <1>4 DEF Injection, IsInjective
  <1>6. IsFiniteSet(1 .. n) /\ Cardinality(1 .. n) = n
    BY <1>1, FS_Interval
  <1>7. order \in Surjection(1 .. n, ids)
    BY <1>5, <1>6, FS_Injection DEF n
  <1>8. s = [i \in 1 .. n |-> [kind |-> kind, id |-> order[i]]]
    BY DEF Answers, order, n
  <1> HIDE DEF s
  <1>9. \A t \in ToolId : [kind |-> kind, id |-> t] \in Block
    BY DEF Block
  <1>10. s \in [1 .. n -> Block]
    BY <1>4, <1>8, <1>9
  <1>11. s \in Seq(Block) /\ DOMAIN s = 1 .. n
    BY <1>1, <1>10, SeqDef
  <1>12. ToSet(s) = {[kind |-> kind, id |-> t] : t \in ids}
    BY <1>4, <1>7, <1>8, <1>11 DEF ToSet, Surjection
  <1>13. s = << >> <=> ids = {}
    <2>1. n = 0 <=> ids = {}
      BY FS_EmptySet DEF n
    <2>2. Len(s) = n
      BY <1>1, <1>11, LenProperties
    <2>3. QED
      BY <1>11, <2>1, <2>2, EmptySeq
  <1>14. \A b \in ToSet(s) : IsResult(b)
    BY <1>12 DEF IsResult
  <1>15. QED
    BY <1>11, <1>12, <1>13, <1>14 DEF s

-----------------------------------------------------------------------------
(* A message of blocks seen as a message of History: only which blocks it  *)
(* holds matters, not their order.                                         *)

IdsIn(S, kinds) == {b.id : b \in {e \in S : e.kind \in kinds}}
HasWords(S) == \E b \in S : b.kind \notin Results \cup {"use"}

LEMMA ItemParts ==
  ASSUME NEW m \in Item
  PROVE  /\ m.role \in {"user", "assistant"} /\ m.plain \in BOOLEAN /\ m.blocks \in Seq(Block)
         /\ m = [role |-> m.role, plain |-> m.plain, blocks |-> m.blocks]
         /\ ToSet(m.blocks) \subseteq Block
  <1>1. m.role \in {"user", "assistant"} /\ m.plain \in BOOLEAN /\ m.blocks \in Seq(Block)
    BY DEF Item
  <1>2. m = [role |-> m.role, plain |-> m.plain, blocks |-> m.blocks]
    BY DEF Item
  <1>3. ToSet(m.blocks) \subseteq Block
    BY <1>1, ElementsOf
  <1>4. QED
    BY <1>1, <1>2, <1>3

LEMMA IdsByElements ==
  ASSUME NEW m \in Item, NEW kinds
  PROVE  IdsOf(m, kinds) = IdsIn(ToSet(m.blocks), kinds)
  <1>1. IdsOf(m, kinds) \subseteq IdsIn(ToSet(m.blocks), kinds)
    BY DEF IdsOf, IdsIn, ToSet
  <1>2. IdsIn(ToSet(m.blocks), kinds) \subseteq IdsOf(m, kinds)
    BY DEF IdsOf, IdsIn, ToSet
  <1>3. QED
    BY <1>1, <1>2

LEMMA ViewByElements ==
  ASSUME NEW m \in Item
  PROVE  LET S == ToSet(m.blocks)
         IN  AsMessage(m) = [role |-> m.role, text |-> HasWords(S), uses |-> IdsIn(S, {"use"}),
                             results |-> IdsIn(S, Results), healed |-> IdsIn(S, {"synthetic"})]
  <1> DEFINE S == ToSet(m.blocks)
             words == \E i \in DOMAIN m.blocks : m.blocks[i].kind \notin Results \cup {"use"}
  <1>1. words <=> HasWords(S)
    BY DEF HasWords, ToSet
  <1>2. words = HasWords(S)
    BY <1>1 DEF HasWords
  <1>3. /\ IdsOf(m, {"use"}) = IdsIn(S, {"use"})
        /\ IdsOf(m, Results) = IdsIn(S, Results)
        /\ IdsOf(m, {"synthetic"}) = IdsIn(S, {"synthetic"})
    BY IdsByElements
  <1>4. AsMessage(m) = [role |-> m.role, text |-> words, uses |-> IdsOf(m, {"use"}),
                        results |-> IdsOf(m, Results), healed |-> IdsOf(m, {"synthetic"})]
    BY DEF AsMessage
  <1>5. QED
    BY <1>2, <1>3, <1>4

LEMMA IdsType ==
  ASSUME NEW m \in Item
  PROVE  /\ IdsOf(m, {"use"}) \in SUBSET ToolId
         /\ IdsOf(m, Results) \in SUBSET ToolId
         /\ IdsOf(m, {"synthetic"}) \in SUBSET ToolId
  <1>1. m.blocks \in Seq(Block) /\ \A i \in DOMAIN m.blocks : m.blocks[i] \in Block
    BY ItemParts, LenProperties
  <1>2. \A b \in Block : b.kind \in {"use"} \cup Results => b.id \in ToolId
    BY DEF Block, Results, Reminders, Compactions
  <1>3. QED
    BY <1>1, <1>2 DEF IdsOf, Results

LEMMA IdsFinite ==
  ASSUME NEW m \in Item, NEW kinds
  PROVE  IsFiniteSet(IdsOf(m, kinds))
  <1> DEFINE D == {j \in DOMAIN m.blocks : m.blocks[j].kind \in kinds}
             f == [i \in D |-> m.blocks[i].id]
  <1>1. DOMAIN m.blocks = 1 .. Len(m.blocks) /\ Len(m.blocks) \in Nat
    BY ItemParts, LenProperties
  <1>2. IsFiniteSet(1 .. Len(m.blocks))
    BY <1>1, FS_Interval
  <1>3. IsFiniteSet(D)
    <2>1. D \in SUBSET (1 .. Len(m.blocks))
      BY <1>1
    <2>2. QED
      BY <1>2, <2>1, FS_Subset
  <1>4. f \in Surjection(D, IdsOf(m, kinds))
    BY DEF Surjection, IdsOf
  <1> HIDE DEF D, f
  <1>5. QED
    BY <1>3, <1>4, FS_Surjection

LEMMA ViewType ==
  ASSUME NEW m, ItemOK(m)
  PROVE  /\ AsMessage(m) \in Message
         /\ AsMessage(m).role = m.role
         /\ AsMessage(m).text <=> HasWords(ToSet(m.blocks))
         /\ AsMessage(m).uses = IdsOf(m, {"use"})
         /\ AsMessage(m).results = IdsOf(m, Results)
         /\ m.role = "user" => AsMessage(m).uses = {}
         /\ m.role = "assistant" => AsMessage(m).results = {}
  <1> DEFINE S == ToSet(m.blocks)
  <1>1. m \in Item /\ m.role \in {"user", "assistant"}
    BY ItemParts DEF ItemOK
  <1>2. AsMessage(m) = [role |-> m.role, text |-> HasWords(S), uses |-> IdsIn(S, {"use"}),
                        results |-> IdsIn(S, Results), healed |-> IdsIn(S, {"synthetic"})]
    BY <1>1, ViewByElements
  <1>3. /\ IdsIn(S, {"use"}) = IdsOf(m, {"use"}) /\ IdsIn(S, {"use"}) \in SUBSET ToolId
        /\ IdsIn(S, Results) = IdsOf(m, Results) /\ IdsIn(S, Results) \in SUBSET ToolId
        /\ IdsIn(S, {"synthetic"}) \in SUBSET ToolId
    BY <1>1, IdsByElements, IdsType
  <1>4. HasWords(S) \in BOOLEAN
    BY DEF HasWords
  <1>5. m.role = "user" => IdsIn(S, {"use"}) = {}
    BY DEF ItemOK, IdsIn, UserKinds, Reminders, Results
  <1>6. m.role = "assistant" => IdsIn(S, Results) = {}
    BY DEF ItemOK, IdsIn, ReplyKinds, Results
  <1> HIDE DEF S
  <1>7. AsMessage(m) \in Message
    BY <1>1, <1>2, <1>3, <1>4 DEF Message, Role
  <1>8. QED
    BY <1>2, <1>3, <1>5, <1>6, <1>7 DEF S

LEMMA IdsOfUnion ==
  ASSUME NEW S, NEW T, NEW kinds
  PROVE  IdsIn(S \cup T, kinds) = IdsIn(S, kinds) \cup IdsIn(T, kinds)
  BY DEF IdsIn

LEMMA UserType ==
  ASSUME NEW blocks \in Seq(Block)
  PROVE  /\ User(blocks) \in Item /\ Assistant(blocks) \in Item
         /\ User(blocks).role = "user" /\ ~User(blocks).plain /\ User(blocks).blocks = blocks
         /\ Assistant(blocks).role = "assistant" /\ ~Assistant(blocks).plain
         /\ Assistant(blocks).blocks = blocks
  BY DEF User, Assistant, Item

LEMMA MergeFields ==
  ASSUME NEW t1 \in BOOLEAN, NEW u1, NEW r1, NEW h1, NEW t2 \in BOOLEAN, NEW u2, NEW r2, NEW h2
  PROVE  Merge([role |-> "user", text |-> t1, uses |-> u1, results |-> r1, healed |-> h1],
               [role |-> "user", text |-> t2, uses |-> u2, results |-> r2, healed |-> h2])
           = [role |-> "user", text |-> t1 \/ t2, uses |-> u1, results |-> r1 \cup r2, healed |-> h1 \cup h2]
  <1> DEFINE t == t1 \/ t2
             m == [role |-> "user", text |-> t1, uses |-> u1, results |-> r1, healed |-> h1]
             n == [role |-> "user", text |-> t2, uses |-> u2, results |-> r2, healed |-> h2]
             a == [m EXCEPT !.text = t]
             b == [a EXCEPT !.results = r1 \cup r2]
  <1>1. Merge(m, n) = [b EXCEPT !.healed = h1 \cup h2]
    BY DEF Merge
  <1> HIDE DEF t
  <1>2. a = [role |-> "user", text |-> t, uses |-> u1, results |-> r1, healed |-> h1]
    OBVIOUS
  <1> HIDE DEF a
  <1>3. b = [role |-> "user", text |-> t, uses |-> u1, results |-> r1 \cup r2, healed |-> h1]
    BY <1>2
  <1> HIDE DEF b
  <1>4. [b EXCEPT !.healed = h1 \cup h2]
          = [role |-> "user", text |-> t, uses |-> u1, results |-> r1 \cup r2, healed |-> h1 \cup h2]
    BY <1>3
  <1>5. QED
    BY <1>1, <1>4 DEF m, n, t

(* What is put before or behind a user's blocks is merged into its view. *)
LEMMA ConcatView ==
  ASSUME NEW x \in Seq(Block), NEW y \in Seq(Block),
         \A b \in ToSet(y) : b.kind # "use"
  PROVE  /\ AsMessage(User(x \o y)) = Merge(AsMessage(User(x)), AsMessage(User(y)))
         /\ AsMessage(User(y \o x)) = Merge(AsMessage(User(x)), AsMessage(User(y)))
  <1> DEFINE S == ToSet(x)
             T == ToSet(y)
             U == S \cup T
  <1>1. /\ x \o y \in Seq(Block) /\ ToSet(x \o y) = U
        /\ y \o x \in Seq(Block) /\ ToSet(y \o x) = U
    BY ConcatShape, ConcatElements
  <1>2. /\ User(x) \in Item /\ User(y) \in Item /\ User(x \o y) \in Item /\ User(y \o x) \in Item
        /\ User(x).blocks = x /\ User(y).blocks = y
        /\ User(x \o y).blocks = x \o y /\ User(y \o x).blocks = y \o x
        /\ User(x).role = "user" /\ User(y).role = "user"
        /\ User(x \o y).role = "user" /\ User(y \o x).role = "user"
    BY <1>1, UserType
  <1> DEFINE V(bs) == [role |-> "user", text |-> HasWords(bs), uses |-> IdsIn(bs, {"use"}),
                      results |-> IdsIn(bs, Results), healed |-> IdsIn(bs, {"synthetic"})]
  <1>3. /\ AsMessage(User(x)) = V(S) /\ AsMessage(User(y)) = V(T)
        /\ AsMessage(User(x \o y)) = V(U) /\ AsMessage(User(y \o x)) = V(U)
    BY <1>1, <1>2, ViewByElements
  <1>4. /\ IdsIn(U, {"use"}) = IdsIn(S, {"use"})
        /\ IdsIn(U, Results) = IdsIn(S, Results) \cup IdsIn(T, Results)
        /\ IdsIn(U, {"synthetic"}) = IdsIn(S, {"synthetic"}) \cup IdsIn(T, {"synthetic"})
    <2>1. IdsIn(T, {"use"}) = {}
      BY DEF IdsIn
    <2>2. \A kinds : IdsIn(U, kinds) = IdsIn(S, kinds) \cup IdsIn(T, kinds)
      BY IdsOfUnion
    <2>3. QED
      BY <2>1, <2>2
  <1>5. HasWords(U) = (HasWords(S) \/ HasWords(T))
    BY DEF HasWords
  <1> HIDE DEF S, T, U
  <1>6. Merge(V(S), V(T)) = V(U)
    <2>1. HasWords(S) \in BOOLEAN /\ HasWords(T) \in BOOLEAN
      BY DEF HasWords
    <2>2. QED
      BY <1>4, <1>5, <2>1, MergeFields
  <1>7. QED
    BY <1>3, <1>6

(* The messages that are written. *)
LEMMA WrittenView ==
  ASSUME NEW blocks \in Seq(Block), NEW S, S = ToSet(blocks)
  PROVE  /\ AsMessage(User(blocks)) =
              [role |-> "user", text |-> HasWords(S), uses |-> IdsIn(S, {"use"}),
               results |-> IdsIn(S, Results), healed |-> IdsIn(S, {"synthetic"})]
         /\ AsMessage(Assistant(blocks)) =
              [role |-> "assistant", text |-> HasWords(S), uses |-> IdsIn(S, {"use"}),
               results |-> IdsIn(S, Results), healed |-> IdsIn(S, {"synthetic"})]
  <1>1. /\ User(blocks) \in Item /\ User(blocks).role = "user" /\ User(blocks).blocks = blocks
        /\ Assistant(blocks) \in Item /\ Assistant(blocks).role = "assistant"
        /\ Assistant(blocks).blocks = blocks
    BY UserType
  <1>2. QED
    BY <1>1, ViewByElements

LEMMA IdsWitness ==
  ASSUME NEW S, NEW kinds, NEW b \in S, b.kind \in kinds
  PROVE  b.id \in IdsIn(S, kinds)
  BY DEF IdsIn

LEMMA HealedField ==
  ASSUME NEW role, NEW text, NEW uses, NEW results, NEW healed
  PROVE  [[role |-> role, text |-> text, uses |-> uses, results |-> results, healed |-> {}]
            EXCEPT !.healed = healed]
         = [role |-> role, text |-> text, uses |-> uses, results |-> results, healed |-> healed]
  OBVIOUS

LEMMA SyntheticFields ==
  ASSUME NEW ids
  PROVE  Synthetic(ids) = [role |-> "user", text |-> FALSE, uses |-> {}, results |-> ids, healed |-> ids]
  <1> DEFINE no == FALSE
             m == [role |-> "user", text |-> no, uses |-> {}, results |-> ids, healed |-> {}]
  <1>1. Synthetic(ids) = [m EXCEPT !.healed = ids]
    BY DEF Synthetic, UserMessage
  <1> HIDE DEF no
  <1>2. [m EXCEPT !.healed = ids] =
          [role |-> "user", text |-> no, uses |-> {}, results |-> ids, healed |-> ids]
    BY HealedField
  <1>3. QED
    BY <1>1, <1>2 DEF no

LEMMA AnswersView ==
  ASSUME NEW ids \in SUBSET ToolId, IsFiniteSet(ids)
  PROVE  /\ AsMessage(User(Answers("result", ids))) = UserMessage(FALSE, ids)
         /\ AsMessage(User(Answers("synthetic", ids))) = Synthetic(ids)
  <1>1. ASSUME NEW kind \in Results
        PROVE  AsMessage(User(Answers(kind, ids))) =
                 [role |-> "user", text |-> FALSE, uses |-> {}, results |-> ids,
                  healed |-> IF kind = "synthetic" THEN ids ELSE {}]
    <2> DEFINE S == {[kind |-> kind, id |-> t] : t \in ids}
    <2>1. Answers(kind, ids) \in Seq(Block) /\ S = ToSet(Answers(kind, ids))
      BY AnswersShape
    <2>2. AsMessage(User(Answers(kind, ids))) =
            [role |-> "user", text |-> HasWords(S), uses |-> IdsIn(S, {"use"}),
             results |-> IdsIn(S, Results), healed |-> IdsIn(S, {"synthetic"})]
      BY <2>1, WrittenView
    <2>3. HasWords(S) = FALSE
      BY DEF HasWords
    <2>4. IdsIn(S, {"use"}) = {}
      BY DEF IdsIn, Results
    <2>5. IdsIn(S, Results) = ids
      <3>1. ASSUME NEW t \in ids PROVE t \in IdsIn(S, Results)
        <4> DEFINE b == [kind |-> kind, id |-> t]
        <4>1. b \in S /\ b.kind \in Results /\ b.id = t
          OBVIOUS
        <4> HIDE DEF b, S
        <4>2. QED
          BY <4>1, IdsWitness
      <3>2. ids \subseteq IdsIn(S, Results)
        BY <3>1
      <3>3. IdsIn(S, Results) \subseteq ids
        BY DEF IdsIn
      <3>4. QED
        BY <3>2, <3>3
    <2>6. IdsIn(S, {"synthetic"}) = IF kind = "synthetic" THEN ids ELSE {}
      <3>1. CASE kind = "synthetic"
        <4>1. ASSUME NEW t \in ids PROVE t \in IdsIn(S, {"synthetic"})
          <5> DEFINE b == [kind |-> kind, id |-> t]
          <5>1. b \in S /\ b.kind \in {"synthetic"} /\ b.id = t
            BY <3>1
          <5> HIDE DEF b, S
          <5>2. QED
            BY <5>1, IdsWitness
        <4>2. ids \subseteq IdsIn(S, {"synthetic"})
          BY <4>1
        <4>3. IdsIn(S, {"synthetic"}) \subseteq ids
          BY DEF IdsIn
        <4>4. QED
          BY <3>1, <4>2, <4>3
      <3>2. CASE kind # "synthetic"
        BY <3>2 DEF IdsIn
      <3>3. QED
        BY <3>1, <3>2
    <2> HIDE DEF S
    <2>7. QED
      BY <2>2, <2>3, <2>4, <2>5, <2>6
  <1>2. /\ AsMessage(User(Answers("result", ids))) =
             [role |-> "user", text |-> FALSE, uses |-> {}, results |-> ids, healed |-> {}]
        /\ AsMessage(User(Answers("synthetic", ids))) =
             [role |-> "user", text |-> FALSE, uses |-> {}, results |-> ids, healed |-> ids]
    BY <1>1 DEF Results
  <1>3. QED
    BY <1>2, SyntheticFields DEF UserMessage

LEMMA WordsView ==
  ASSUME NEW blocks \in Seq(Block), NEW text \in Block, text.kind = "text", text \in ToSet(blocks),
         \A b \in ToSet(blocks) : b.kind \in {"text", "standing", "delta"}
  PROVE  AsMessage(User(blocks)) = UserMessage(TRUE, {}) /\ ItemOK(User(blocks))
  <1> DEFINE S == ToSet(blocks)
  <1>1. HasWords(S) = TRUE
    BY DEF HasWords, Results
  <1>2. IdsIn(S, {"use"}) = {} /\ IdsIn(S, Results) = {} /\ IdsIn(S, {"synthetic"}) = {}
    BY DEF IdsIn, Results
  <1>3. AsMessage(User(blocks)) =
          [role |-> "user", text |-> HasWords(S), uses |-> IdsIn(S, {"use"}),
           results |-> IdsIn(S, Results), healed |-> IdsIn(S, {"synthetic"})]
    BY WrittenView
  <1>4. AsMessage(User(blocks)) = UserMessage(TRUE, {})
    BY <1>1, <1>2, <1>3 DEF UserMessage
  <1>5. \A b \in S : ~IsResult(b) /\ b.kind # "stamp" /\ b.kind \in UserKinds
    BY DEF IsResult, Results, UserKinds, Reminders
  <1>6. ResultsFirst(blocks) /\ StampInPlace(blocks)
    BY <1>5, NeitherResultsNorStamps
  <1>7. /\ User(blocks) \in Item /\ User(blocks).role = "user" /\ ~User(blocks).plain
        /\ User(blocks).blocks = blocks
    BY UserType
  <1>8. ItemOK(User(blocks))
    BY <1>5, <1>6, <1>7 DEF ItemOK
  <1>9. QED
    BY <1>4, <1>8

LEMMA AnswersOK ==
  ASSUME NEW kind \in Results, NEW ids \in SUBSET ToolId, IsFiniteSet(ids)
  PROVE  ItemOK(User(Answers(kind, ids)))
  <1> DEFINE s == Answers(kind, ids)
  <1>1. s \in Seq(Block) /\ \A b \in ToSet(s) : IsResult(b)
    BY AnswersShape
  <1> HIDE DEF s
  <1>2. ResultsFirst(s) /\ StampInPlace(s)
    BY <1>1, OnlyResults
  <1>3. User(s) \in Item /\ User(s).role = "user" /\ ~User(s).plain /\ User(s).blocks = s
    BY <1>1, UserType
  <1>4. QED
    BY <1>1, <1>2, <1>3 DEF ItemOK, IsResult, UserKinds, s

-----------------------------------------------------------------------------
(* A history of items, and the same history as messages. *)

Messages(c) == [i \in DOMAIN c |-> AsMessage(c[i])]

ItemsOK(c) == c \in Seq(Item) /\ \A i \in 1 .. Len(c) : ItemOK(c[i])

(* The first message begins with the standing reminders. *)
StandingFirst(c) == c # << >> => c[1].blocks # << >> /\ c[1].blocks[1] = B("standing")

(* Items that are there stay; only a user's tip changes, while it is one. *)
TipChanged(c, p) ==
  /\ Len(p) = Len(c)
  /\ c[Len(c)].role = "user" /\ p[Len(c)].role = "user"

KeepsPast(c, p) ==
  /\ Len(c) <= Len(p)
  /\ \A i \in 1 .. Len(c) : p[i] = c[i] \/ (i = Len(c) /\ TipChanged(c, p))

LEMMA MessagesShape ==
  ASSUME NEW c, ItemsOK(c)
  PROVE  /\ Messages(c) \in Seq(Message)
         /\ Len(Messages(c)) = Len(c) /\ Len(c) \in Nat
         /\ \A i \in 1 .. Len(c) : Messages(c)[i] = AsMessage(c[i])
         /\ c = << >> <=> Messages(c) = << >>
         /\ \A role : EndsWith(Messages(c), role) <=> EndsWith(c, role)
         /\ c # << >> => Len(c) \in 1 .. Len(c) /\ ItemOK(Tip(c)) /\ Tip(Messages(c)) = AsMessage(Tip(c))
  <1> DEFINE h == Messages(c)
  <1>1. c \in Seq(Item) /\ DOMAIN c = 1 .. Len(c) /\ Len(c) \in Nat
    BY LenProperties DEF ItemsOK
  <1>2. \A i \in 1 .. Len(c) : AsMessage(c[i]) \in Message /\ AsMessage(c[i]).role = c[i].role
    BY ViewType DEF ItemsOK
  <1>3. h \in [1 .. Len(c) -> Message] /\ \A i \in 1 .. Len(c) : h[i] = AsMessage(c[i])
    BY <1>1, <1>2 DEF Messages
  <1>4. h \in Seq(Message) /\ Len(h) = Len(c)
    <2>1. h \in Seq(Message)
      BY <1>1, <1>3, SeqDef
    <2>2. DOMAIN h = 1 .. Len(c)
      BY <1>3
    <2>3. QED
      BY <1>1, <2>1, <2>2, LenProperties
  <1>5. c = << >> <=> h = << >>
    BY <1>1, <1>4, EmptySeq
  <1> HIDE DEF h
  <1>6. c # << >> => Len(c) \in 1 .. Len(c)
    BY <1>1, EmptySeq
  <1>7. c # << >> => Tip(h) = AsMessage(Tip(c)) /\ Tip(h).role = Tip(c).role /\ ItemOK(Tip(c))
    BY <1>2, <1>3, <1>4, <1>6 DEF Tip, ItemsOK
  <1>8. \A role : EndsWith(h, role) <=> EndsWith(c, role)
    BY <1>5, <1>7 DEF EndsWith
  <1>9. QED
    BY <1>1, <1>3, <1>4, <1>5, <1>6, <1>7, <1>8 DEF h

LEMMA ItemAppended ==
  ASSUME NEW c, ItemsOK(c), NEW m, ItemOK(m)
  PROVE  /\ ItemsOK(Append(c, m))
         /\ Len(Append(c, m)) = Len(c) + 1
         /\ Append(c, m)[Len(c) + 1] = m /\ Tip(Append(c, m)) = m
         /\ \A i \in 1 .. Len(c) : Append(c, m)[i] = c[i]
         /\ Messages(Append(c, m)) = Append(Messages(c), AsMessage(m))
         /\ KeepsPast(c, Append(c, m))
  <1> DEFINE p == Append(c, m)
             h == Messages(c)
             g == Append(h, AsMessage(m))
  <1>1. c \in Seq(Item) /\ m \in Item /\ Len(c) \in Nat
    BY LenProperties DEF ItemsOK, ItemOK
  <1>2. /\ p \in Seq(Item) /\ Len(p) = Len(c) + 1
        /\ \A i \in 1 .. Len(c) : p[i] = c[i]
        /\ p[Len(c) + 1] = m
    BY <1>1, AppendProperties
  <1>3. h \in Seq(Message) /\ Len(h) = Len(c) /\ \A i \in 1 .. Len(c) : h[i] = AsMessage(c[i])
    BY MessagesShape
  <1>4. /\ g \in Seq(Message) /\ Len(g) = Len(h) + 1
        /\ \A i \in 1 .. Len(h) : g[i] = h[i]
        /\ g[Len(h) + 1] = AsMessage(m)
    BY <1>3, ViewType, AppendProperties
  <1> HIDE DEF p, h, g
  <1>5. \A i \in 1 .. Len(c) + 1 : i \in 1 .. Len(c) \/ i = Len(c) + 1
    BY <1>1
  <1>6. ItemsOK(p)
    BY <1>1, <1>2, <1>5 DEF ItemsOK
  <1>7. /\ Messages(p) \in Seq(Message) /\ Len(Messages(p)) = Len(c) + 1
        /\ \A i \in 1 .. Len(c) + 1 : Messages(p)[i] = AsMessage(p[i])
    BY <1>2, <1>6, MessagesShape
  <1>8. \A i \in 1 .. Len(c) + 1 : Messages(p)[i] = g[i]
    BY <1>2, <1>3, <1>4, <1>5, <1>7
  <1>9. Messages(p) = g
    BY <1>3, <1>4, <1>7, <1>8, SeqEqual
  <1>10. KeepsPast(c, p)
    BY <1>1, <1>2 DEF KeepsPast
  <1>11. Tip(p) = m
    BY <1>2 DEF Tip
  <1>12. QED
    BY <1>2, <1>6, <1>9, <1>10, <1>11 DEF p, g, h

LEMMA TipReplaced ==
  ASSUME NEW c, ItemsOK(c), EndsWith(c, "user"), NEW m, ItemOK(m), m.role = "user"
  PROVE  LET p == [c EXCEPT ![Len(c)] = m]
         IN  /\ ItemsOK(p) /\ Len(p) = Len(c) /\ p # << >>
             /\ Tip(p) = m /\ EndsWith(p, "user")
             /\ \A i \in 1 .. Len(c) : p[i] = IF i = Len(c) THEN m ELSE c[i]
             /\ Messages(p) = WithTip(Messages(c), AsMessage(m))
             /\ KeepsPast(c, p)
  <1> DEFINE p == [c EXCEPT ![Len(c)] = m]
             h == Messages(c)
             g == WithTip(h, AsMessage(m))
  <1>1. c \in Seq(Item) /\ m \in Item /\ Len(c) \in Nat /\ Len(c) \in 1 .. Len(c) /\ c # << >>
    BY MessagesShape DEF ItemsOK, ItemOK, EndsWith
  <1>2. /\ p \in Seq(Item) /\ Len(p) = Len(c)
        /\ \A i \in 1 .. Len(c) : p[i] = IF i = Len(c) THEN m ELSE c[i]
    BY <1>1, ExceptSeq
  <1>3. /\ h \in Seq(Message) /\ h # << >> /\ Len(h) = Len(c)
        /\ \A i \in 1 .. Len(c) : h[i] = AsMessage(c[i])
    BY <1>1, MessagesShape
  <1>4. AsMessage(m) \in Message
    BY ViewType
  <1>5. /\ g \in Seq(Message) /\ Len(g) = Len(h) /\ Tip(g) = AsMessage(m)
        /\ \A i \in 1 .. Len(h) - 1 : g[i] = h[i]
    BY <1>3, <1>4, WithTipShape
  <1> HIDE DEF p, h, g
  <1>6. ItemsOK(p)
    BY <1>1, <1>2 DEF ItemsOK
  <1>7. /\ Messages(p) \in Seq(Message) /\ Len(Messages(p)) = Len(c)
        /\ \A i \in 1 .. Len(c) : Messages(p)[i] = AsMessage(p[i])
    BY <1>2, <1>6, MessagesShape
  <1>8. \A i \in 1 .. Len(c) : Messages(p)[i] = g[i]
    <2> SUFFICES ASSUME NEW i \in 1 .. Len(c) PROVE Messages(p)[i] = g[i]
      OBVIOUS
    <2>1. CASE i = Len(c)
      BY <1>2, <1>3, <1>5, <1>7, <2>1 DEF Tip
    <2>2. CASE i # Len(c)
      <3>1. i \in 1 .. Len(h) - 1
        BY <1>1, <1>3, <2>2
      <3>2. QED
        BY <1>2, <1>3, <1>5, <1>7, <2>2, <3>1
    <2>3. QED
      BY <2>1, <2>2
  <1>9. Messages(p) = g
    BY <1>3, <1>5, <1>7, <1>8, SeqEqual
  <1>10. KeepsPast(c, p)
    BY <1>1, <1>2 DEF KeepsPast, TipChanged, EndsWith, Tip
  <1>11. p # << >> /\ Tip(p) = m /\ EndsWith(p, "user")
    <2>1. p # << >>
      BY <1>1, <1>2, EmptySeq
    <2>2. QED
      BY <1>1, <1>2, <2>1 DEF Tip, EndsWith
  <1>12. QED
    BY <1>2, <1>6, <1>9, <1>10, <1>11 DEF p, g, h

(* What a message may be merged into keeps what was first. *)
LEMMA FirstOfConcat ==
  ASSUME NEW x \in Seq(Block), NEW y \in Seq(Block), x # << >>
  PROVE  x \o y # << >> /\ (x \o y)[1] = x[1]
  <1>1. Len(x) \in Nat \ {0} /\ Len(y) \in Nat /\ 1 \in 1 .. Len(x)
    BY LenProperties, EmptySeq
  <1>2. /\ x \o y \in Seq(Block) /\ Len(x \o y) = Len(x) + Len(y)
        /\ \A i \in 1 .. Len(x) : (x \o y)[i] = x[i]
    BY ConcatShape
  <1>3. Len(x \o y) # 0
    BY <1>1, <1>2
  <1>4. QED
    BY <1>1, <1>2, <1>3, EmptySeq

LEMMA ItemMerged ==
  ASSUME NEW x \in Seq(Block), NEW y \in Seq(Block), ItemOK(User(x)), ItemOK(User(y)),
         ResultsFirst(x \o y), StampInPlace(x \o y)
  PROVE  ItemOK(User(x \o y))
  <1>1. x \o y \in Seq(Block) /\ ToSet(x \o y) = ToSet(x) \cup ToSet(y)
    BY ConcatShape, ConcatElements
  <1>2. /\ User(x).role = "user" /\ User(x).blocks = x
        /\ User(y).role = "user" /\ User(y).blocks = y
        /\ User(x \o y) \in Item /\ User(x \o y).role = "user" /\ ~User(x \o y).plain
        /\ User(x \o y).blocks = x \o y
    BY <1>1, UserType
  <1>3. \A b \in ToSet(x \o y) : b.kind \in UserKinds
    BY <1>1, <1>2 DEF ItemOK
  <1>4. QED
    BY <1>2, <1>3 DEF ItemOK

(* A user's item is its blocks. *)
LEMMA UserItem ==
  ASSUME NEW m, ItemOK(m), m.role = "user"
  PROVE  m = User(m.blocks) /\ m.blocks \in Seq(Block)
  <1>1. m = [role |-> m.role, plain |-> m.plain, blocks |-> m.blocks] /\ m.blocks \in Seq(Block)
    BY ItemParts DEF ItemOK
  <1>2. m.plain = FALSE
    BY ItemParts DEF ItemOK
  <1>3. QED
    BY <1>1, <1>2 DEF User

LEMMA PushItemIsPush ==
  ASSUME NEW c, ItemsOK(c), NEW m, ItemOK(m),
         EndsWith(c, "user") /\ m.role = "user" =>
           \A b \in ToSet(m.blocks) : ~IsResult(b) /\ b.kind # "stamp"
  PROVE  LET p == PushItem(c, m)
         IN  /\ ItemsOK(p) /\ p # << >> /\ EndsWith(p, m.role) /\ KeepsPast(c, p)
             /\ Messages(p) = Push(Messages(c), AsMessage(m))
             /\ c # << >> /\ StandingFirst(c) => StandingFirst(p)
             /\ c = << >> => p = << m >>
  <1> DEFINE p == PushItem(c, m)
             h == Messages(c)
  <1>0. /\ AsMessage(m).role = m.role /\ Len(c) \in Nat
        /\ \A role : EndsWith(h, role) <=> EndsWith(c, role)
    BY ViewType, MessagesShape
  <1>1. CASE m.role = "user" /\ EndsWith(c, "user")
    <2> DEFINE x == Tip(c).blocks
               y == m.blocks
               n == User(x \o y)
    <2>1. c # << >> /\ ItemOK(Tip(c)) /\ Tip(c).role = "user" /\ Tip(h) = AsMessage(Tip(c))
      BY <1>1, MessagesShape DEF EndsWith
    <2>2. Tip(c) = User(x) /\ x \in Seq(Block) /\ m = User(y) /\ y \in Seq(Block)
      BY <1>1, <2>1, UserItem
    <2>3. p = [c EXCEPT ![Len(c)] = n]
      BY <1>1 DEF PushItem, Tip
    <2>4. ResultsFirst(x) /\ StampInPlace(x) /\ \A b \in ToSet(y) : ~IsResult(b) /\ b.kind # "stamp"
      BY <1>1, <2>1 DEF ItemOK
    <2>5. \A b \in ToSet(y) : b.kind # "use"
      BY <1>1 DEF ItemOK, UserKinds, Reminders, Results
    <2>6. ResultsFirst(x \o y) /\ StampInPlace(x \o y)
      BY <2>2, <2>4, OrderBehind
    <2>7. ItemOK(User(x)) /\ ItemOK(User(y))
      BY <2>1, <2>2
    <2>8. ItemOK(n)
      BY <2>2, <2>6, <2>7, ItemMerged
    <2>9. AsMessage(n) = Merge(AsMessage(User(x)), AsMessage(User(y)))
      BY <2>2, <2>5, ConcatView
    <2>10. x \o y \in Seq(Block)
      BY <2>2, ConcatShape
    <2>11. StandingFirst(c) /\ Len(c) = 1 => x # << >> /\ x[1] = B("standing")
      BY <2>1 DEF StandingFirst, Tip
    <2>12. StandingFirst(c) /\ Len(c) = 1 => x \o y # << >> /\ (x \o y)[1] = B("standing")
      BY <2>2, <2>11, FirstOfConcat
    <2>13. /\ ItemsOK(p) /\ Len(p) = Len(c) /\ p # << >> /\ EndsWith(p, "user")
           /\ \A i \in 1 .. Len(c) : p[i] = IF i = Len(c) THEN n ELSE c[i]
           /\ Messages(p) = WithTip(h, AsMessage(n))
           /\ KeepsPast(c, p)
      <3>1. n.role = "user"
        BY DEF User
      <3> DEFINE q == [c EXCEPT ![Len(c)] = n]
      <3> HIDE DEF n
      <3>2. /\ ItemsOK(q) /\ Len(q) = Len(c) /\ q # << >>
            /\ Tip(q) = n /\ EndsWith(q, "user")
            /\ \A i \in 1 .. Len(c) : q[i] = IF i = Len(c) THEN n ELSE c[i]
            /\ Messages(q) = WithTip(h, AsMessage(n))
            /\ KeepsPast(c, q)
        BY <1>1, <2>8, <3>1, TipReplaced
      <3>3. p = q
        BY <2>3
      <3> HIDE DEF p, q
      <3>4. QED
        BY <3>2, <3>3
    <2>15. StandingFirst(c) => StandingFirst(p)
      <3> SUFFICES ASSUME StandingFirst(c) PROVE p[1].blocks # << >> /\ p[1].blocks[1] = B("standing")
        BY DEF StandingFirst
      <3>1. n.blocks = x \o y
        BY DEF User
      <3>2. 1 \in 1 .. Len(c)
        BY <2>1, MessagesShape
      <3> HIDE DEF n, p
      <3>3. CASE Len(c) = 1
        BY <2>12, <2>13, <3>1, <3>2, <3>3
      <3>4. CASE Len(c) # 1
        BY <2>1, <2>13, <3>2, <3>4 DEF StandingFirst
      <3>5. QED
        BY <3>3, <3>4
    <2>16. Push(h, AsMessage(m)) = WithTip(h, AsMessage(n))
      BY <1>0, <1>1, <2>1, <2>2, <2>9 DEF Push
    <2> HIDE DEF p, n, x, y
    <2>17. QED
      BY <1>1, <2>1, <2>13, <2>15, <2>16 DEF p
  <1>2. CASE ~(m.role = "user" /\ EndsWith(c, "user"))
    <2>1. p = Append(c, m)
      BY <1>2 DEF PushItem
    <2>2. /\ ItemsOK(p)
          /\ Len(p) = Len(c) + 1
          /\ p[Len(c) + 1] = m /\ Tip(p) = m
          /\ \A i \in 1 .. Len(c) : p[i] = c[i]
          /\ Messages(p) = Append(h, AsMessage(m))
          /\ KeepsPast(c, p)
      BY <2>1, ItemAppended
    <2>3. Push(h, AsMessage(m)) = Append(h, AsMessage(m))
      BY <1>0, <1>2 DEF Push
    <2>4. p # << >>
      BY <2>1, AppendProperties DEF ItemsOK, ItemOK
    <2>5. c # << >> /\ StandingFirst(c) => StandingFirst(p)
      <3>1. c # << >> => 1 \in 1 .. Len(c)
        BY MessagesShape
      <3> HIDE DEF p
      <3>2. QED
        BY <2>2, <3>1 DEF StandingFirst
    <2>6. c = << >> => p = << m >>
      BY <2>1
    <2> HIDE DEF p
    <2>7. QED
      BY <2>2, <2>3, <2>4, <2>5, <2>6 DEF EndsWith, p
  <1>3. QED
    BY <1>1, <1>2

(* The answers a heal writes are those History counts as missing. *)
LEMMA MissingIsUnanswered ==
  ASSUME NEW a, ItemOK(a), NEW answered
  PROVE  LET ids == AsMessage(a).uses \ answered
         IN  /\ ids \in SUBSET ToolId /\ IsFiniteSet(ids)
             /\ MissingAnswers(a, answered) = Answers("synthetic", ids)
             /\ MissingAnswers(a, answered) = << >> <=> ids = {}
  <1> DEFINE ids == AsMessage(a).uses \ answered
  <1>1. a \in Item /\ AsMessage(a).uses = IdsOf(a, {"use"})
    BY ViewType DEF ItemOK
  <1>2. IdsOf(a, {"use"}) \in SUBSET ToolId /\ IsFiniteSet(IdsOf(a, {"use"}))
    BY <1>1, IdsType, IdsFinite
  <1>3. ids \in SUBSET IdsOf(a, {"use"})
    BY <1>1
  <1>4. ids \in SUBSET ToolId /\ IsFiniteSet(ids)
    BY <1>2, <1>3, FS_Subset
  <1>5. MissingAnswers(a, answered) = Answers("synthetic", ids)
    BY <1>1 DEF MissingAnswers
  <1> HIDE DEF ids
  <1>6. Answers("synthetic", ids) = << >> <=> ids = {}
    BY <1>4, AnswersShape DEF Results
  <1>7. QED
    BY <1>4, <1>5, <1>6 DEF ids

(* The heal of the items is the heal of the messages. *)
LEMMA HealIsHeal ==
  ASSUME NEW c, ItemsOK(c), StandingFirst(c)
  PROVE  /\ ItemsOK(Heal(c)) /\ StandingFirst(Heal(c)) /\ KeepsPast(c, Heal(c))
         /\ Messages(Heal(c)) = HealDanglingToolUse(Messages(c))
         /\ c # << >> => Heal(c) # << >>
         /\ EndsWith(c, "user") => EndsWith(Heal(c), "user") /\ Len(Heal(c)) = Len(c)
         /\ Unanswered(Messages(c)) = {} => Heal(c) = c
  <1> DEFINE h == Messages(c)
             g == Heal(c)
             n == Len(c)
  <1>0. /\ h \in Seq(Message) /\ Len(h) = n /\ n \in Nat
        /\ \A i \in 1 .. n : h[i] = AsMessage(c[i]) /\ ItemOK(c[i]) /\ h[i].role = c[i].role
        /\ \A role : EndsWith(h, role) <=> EndsWith(c, role)
        /\ c = << >> <=> h = << >>
        /\ c # << >> => n \in 1 .. n /\ ItemOK(Tip(c)) /\ Tip(h) = AsMessage(Tip(c)) /\ ~Tip(c).plain
    BY MessagesShape, ViewType DEF ItemsOK, ItemOK
  <1>1. CASE EndsWith(c, "assistant")
    <2> DEFINE ids == Tip(h).uses
               owed == MissingAnswers(Tip(c), {})
               m == User(owed)
    <2>1. c # << >> /\ ~EndsWith(c, "user") /\ ItemOK(Tip(c)) /\ Tip(h) = AsMessage(Tip(c))
      BY <1>0, <1>1 DEF EndsWith
    <2>2. /\ ids \in SUBSET ToolId /\ IsFiniteSet(ids)
          /\ owed = Answers("synthetic", ids) /\ (owed = << >> <=> ids = {})
      <3>1. ids = AsMessage(Tip(c)).uses \ {}
        BY <2>1
      <3>2. QED
        BY <2>1, <3>1, MissingIsUnanswered
    <2>3. Unanswered(h) = ids
      <3>1. HealAnchor(h) = Len(h)
        BY <1>0, <1>1, <2>1 DEF HealAnchor
      <3>2. Len(h) # 0
        BY <1>0, <2>1
      <3>3. QED
        BY <1>0, <3>1, <3>2 DEF Unanswered, Tip
    <2>4. CASE ids = {}
      <3>1. g = c
        BY <1>1, <2>1, <2>2, <2>4 DEF Heal
      <3>2. HealDanglingToolUse(h) = h
        BY <2>3, <2>4 DEF HealDanglingToolUse
      <3>3. KeepsPast(c, c)
        BY <1>0 DEF KeepsPast
      <3>4. QED
        BY <2>1, <3>1, <3>2, <3>3
    <2>5. CASE ids # {}
      <3>1. g = PushItem(c, m)
        BY <1>1, <2>2, <2>5 DEF Heal
      <3>2. HealDanglingToolUse(h) = Push(h, Synthetic(ids))
        BY <2>3, <2>5 DEF HealDanglingToolUse
      <3> HIDE DEF ids, owed
      <3>3. AsMessage(User(Answers("synthetic", ids))) = Synthetic(ids)
        BY <2>2, AnswersView
      <3>4. AsMessage(m) = Synthetic(ids)
        BY <2>2, <3>3
      <3>5. ItemOK(User(Answers("synthetic", ids)))
        BY <2>2, AnswersOK DEF Results
      <3>6. ItemOK(m)
        BY <2>2, <3>5
      <3> HIDE DEF m
      <3>7. LET p == PushItem(c, m)
            IN  /\ ItemsOK(p) /\ p # << >> /\ KeepsPast(c, p)
                /\ Messages(p) = Push(h, AsMessage(m))
                /\ c # << >> /\ StandingFirst(c) => StandingFirst(p)
        BY <2>1, <3>6, PushItemIsPush
      <3>8. Unanswered(h) # {}
        BY <2>3, <2>5 DEF ids
      <3> HIDE DEF g, h
      <3>9. QED
        BY <2>1, <3>1, <3>2, <3>4, <3>7, <3>8 DEF g, h
    <2>6. QED
      BY <2>4, <2>5
  <1>2. CASE EndsWith(c, "user") /\ n > 1 /\ c[n - 1].role = "assistant"
    <2> DEFINE a == c[n - 1]
               answered == IdsOf(Tip(c), Results)
               ids == AsMessage(a).uses \ answered
               missing == MissingAnswers(a, answered)
               x == Tip(c).blocks
    <2>1. c # << >> /\ ~EndsWith(c, "assistant") /\ ItemOK(Tip(c)) /\ Tip(c).role = "user" /\ ~Tip(c).plain
      BY <1>0, <1>2 DEF EndsWith
    <2>2. n - 1 \in 1 .. n /\ ItemOK(a) /\ h[n - 1] = AsMessage(a) /\ h[n - 1].role = "assistant"
      BY <1>0, <1>2
    <2>3. answered = Tip(h).results
      BY <1>0, <2>1, ViewType
    <2>4. /\ ids \in SUBSET ToolId /\ IsFiniteSet(ids)
          /\ missing = Answers("synthetic", ids) /\ (missing = << >> <=> ids = {})
      BY <2>2, MissingIsUnanswered
    <2>5. Unanswered(h) = ids
      <3>1. HealAnchor(h) = n - 1
        BY <1>0, <1>2, <2>1, <2>2 DEF HealAnchor
      <3>2. n - 1 # 0 /\ n - 1 < Len(h)
        BY <1>0, <1>2
      <3>3. QED
        BY <2>2, <2>3, <3>1, <3>2 DEF Unanswered
    <2>6. g = IF missing # << >> THEN [c EXCEPT ![n] = HealedReply(missing, Tip(c))] ELSE c
      BY <1>2, <2>1 DEF Heal
    <2>7. CASE ids = {}
      <3>1. g = c
        BY <2>4, <2>6, <2>7
      <3>2. HealDanglingToolUse(h) = h
        BY <2>5, <2>7 DEF HealDanglingToolUse
      <3>3. KeepsPast(c, c)
        BY <1>0 DEF KeepsPast
      <3>4. QED
        BY <1>2, <2>1, <3>1, <3>2, <3>3
    <2>8. CASE ids # {}
      <3> DEFINE y == Answers("synthetic", ids)
                 m == User(y \o x)
      <3>1. Tip(c) = User(x) /\ x \in Seq(Block)
        BY <2>1, UserItem
      <3>2. y \in Seq(Block) /\ \A b \in ToSet(y) : IsResult(b)
        BY <2>4, AnswersShape DEF Results
      <3>3. AsMessage(User(y)) = Synthetic(ids) /\ ItemOK(User(y))
        BY <2>4, AnswersView, AnswersOK DEF Results
      <3>4. g = [c EXCEPT ![n] = m]
        BY <2>1, <2>4, <2>6, <2>8 DEF HealedReply
      <3>5. HealDanglingToolUse(h) = WithTip(h, Merge(Tip(h), Synthetic(ids)))
        <4>1. HealDanglingToolUse(h) = Push(h, Synthetic(ids))
          BY <2>5, <2>8 DEF HealDanglingToolUse
        <4>2. Synthetic(ids).role = "user"
          BY SyntheticFields
        <4>3. QED
          BY <1>0, <1>2, <4>1, <4>2 DEF Push
      <3> HIDE DEF y, x, ids, missing, answered, a
      <3>6. AsMessage(m) = Merge(AsMessage(User(x)), AsMessage(User(y)))
        <4>1. \A b \in ToSet(y) : b.kind # "use"
          BY <3>2 DEF IsResult, Results
        <4>2. QED
          BY <3>1, <3>2, <4>1, ConcatView
      <3>7. ItemOK(User(x))
        BY <2>1, <3>1
      <3>8. ResultsFirst(y \o x) /\ StampInPlace(y \o x)
        <4>1. ResultsFirst(x) /\ StampInPlace(x)
          BY <2>1 DEF ItemOK, x
        <4>2. QED
          BY <3>1, <3>2, <4>1, OrderInFront
      <3>9. ItemOK(m)
        BY <3>1, <3>2, <3>3, <3>7, <3>8, ItemMerged
      <3>10. m.role = "user"
        BY DEF User
      <3> DEFINE q == [c EXCEPT ![Len(c)] = m]
      <3> HIDE DEF m
      <3>11. /\ ItemsOK(q) /\ Len(q) = Len(c) /\ q # << >> /\ EndsWith(q, "user")
             /\ \A i \in 1 .. Len(c) : q[i] = IF i = Len(c) THEN m ELSE c[i]
             /\ Messages(q) = WithTip(h, AsMessage(m))
             /\ KeepsPast(c, q)
        BY <1>2, <3>9, <3>10, TipReplaced
      <3>12. g = q
        BY <3>4
      <3> HIDE DEF q, g
      <3>13. StandingFirst(q)
        <4>1. 1 \in 1 .. Len(c) /\ 1 # Len(c)
          BY <1>0, <1>2
        <4>2. QED
          BY <2>1, <3>11, <4>1 DEF StandingFirst
      <3>14. Messages(q) = HealDanglingToolUse(h)
        BY <1>0, <2>1, <3>1, <3>3, <3>5, <3>6, <3>11
      <3>15. Unanswered(h) # {}
        BY <2>5, <2>8 DEF ids, answered, a
      <3> HIDE DEF h
      <3>16. QED
        BY <3>11, <3>12, <3>13, <3>14, <3>15 DEF g, h
    <2>9. QED
      BY <2>7, <2>8
  <1>3. CASE ~EndsWith(c, "assistant") /\ ~(EndsWith(c, "user") /\ n > 1 /\ c[n - 1].role = "assistant")
    <2>1. g = c
      BY <1>3 DEF Heal
    <2>2. Unanswered(h) = {}
      <3>1. n > 1 => h[n - 1].role = c[n - 1].role
        BY <1>0
      <3>2. HealAnchor(h) = 0
        BY <1>0, <1>3, <3>1 DEF HealAnchor
      <3>3. QED
        BY <3>2 DEF Unanswered
    <2>3. KeepsPast(c, c)
      BY <1>0 DEF KeepsPast
    <2>4. QED
      BY <2>1, <2>2, <2>3 DEF HealDanglingToolUse
  <1>4. QED
    BY <1>1, <1>2, <1>3

-----------------------------------------------------------------------------
(* The first and the last place of a sequence that pass a test.            *)

LEMMA LeastElement ==
  ASSUME NEW I \in SUBSET Nat, I # {}
  PROVE  Min(I) \in I /\ \A y \in I : Min(I) <= y
  <1>1. \E x \in I : \A y \in I : ~ (<< y, x >> \in OpToRel(<, Nat))
    BY NatLessThanWellFounded, WFMin
  <1>2. PICK x \in I : \A y \in I : ~ (<< y, x >> \in OpToRel(<, Nat))
    BY <1>1
  <1>3. \A y \in I : x <= y
    <2> SUFFICES ASSUME NEW y \in I PROVE x <= y
      OBVIOUS
    <2>1. x \in Nat /\ y \in Nat
      OBVIOUS
    <2>2. ~(y < x)
      BY <1>2, <2>1 DEF OpToRel
    <2>3. QED
      BY <2>1, <2>2
  <1>4. QED
    BY <1>3 DEF Min

LEMMA GreatestElement ==
  ASSUME NEW n \in Nat, NEW I \in SUBSET (1 .. n), I # {}
  PROVE  Max(I) \in I /\ \A y \in I : y <= Max(I)
  <1> DEFINE J == {n - i : i \in I}
  <1>1. J \in SUBSET Nat /\ J # {}
    <2>1. \A i \in I : n - i \in Nat
      OBVIOUS
    <2>2. J # {}
      OBVIOUS
    <2>3. QED
      BY <2>1, <2>2
  <1> HIDE DEF J
  <1>2. Min(J) \in J /\ \A y \in J : Min(J) <= y
    BY <1>1, LeastElement
  <1>3. PICK x \in I : n - x = Min(J)
    BY <1>2 DEF J
  <1>4. \A y \in I : y <= x
    <2> SUFFICES ASSUME NEW y \in I PROVE y <= x
      OBVIOUS
    <2>1. n - y \in J
      BY DEF J
    <2>2. n - x <= n - y
      BY <1>2, <1>3, <2>1
    <2>3. QED
      BY <2>2
  <1>5. QED
    BY <1>4 DEF Max

LEMMA LeadingShape ==
  ASSUME NEW x \in Seq(Block)
  PROVE  /\ Leading(x) \in 0 .. Len(x)
         /\ \A k \in 1 .. Leading(x) : ~IsContent(x[k])
         /\ Leading(x) < Len(x) => IsContent(x[Leading(x) + 1])
  <1> DEFINE I == {i \in 1 .. Len(x) : IsContent(x[i])}
             first == SelectInSeq(x, IsContent)
             L == Leading(x)
  <1>1. Len(x) \in Nat
    BY LenProperties
  <1>2. first = IF I # {} THEN Min(I) ELSE 0
    BY DEF SelectInSeq
  <1>3. L = IF first = 0 THEN Len(x) ELSE first - 1
    BY DEF Leading
  <1>4. CASE I = {}
    <2>1. L = Len(x)
      BY <1>2, <1>3, <1>4
    <2>2. \A k \in 1 .. Len(x) : ~IsContent(x[k])
      BY <1>4
    <2>3. QED
      BY <1>1, <2>1, <2>2
  <1>5. CASE I # {}
    <2> DEFINE m == Min(I)
    <2>1. m \in I /\ \A y \in I : m <= y
      <3>1. I \in SUBSET Nat
        BY <1>1
      <3> HIDE DEF I
      <3>2. QED
        BY <1>5, <3>1, LeastElement
    <2>2. first = m
      BY <1>2, <1>5
    <2> HIDE DEF m, first, L
    <2>3. m \in 1 .. Len(x) /\ IsContent(x[m])
      BY <2>1
    <2>4. L = m - 1
      BY <1>1, <1>3, <2>2, <2>3
    <2>5. \A k \in 1 .. L : ~IsContent(x[k])
      <3> SUFFICES ASSUME NEW k \in 1 .. L, IsContent(x[k]) PROVE FALSE
        OBVIOUS
      <3>1. k \in I /\ k < m
        BY <1>1, <2>3, <2>4
      <3>2. QED
        BY <1>1, <2>1, <2>3, <3>1
    <2>6. L \in 0 .. Len(x) /\ L + 1 = m
      BY <1>1, <2>3, <2>4
    <2>7. QED
      BY <2>3, <2>5, <2>6 DEF L
  <1>6. QED
    BY <1>4, <1>5

(* Where the blocks are after one was put in, or taken out. *)
LEMMA InsertShape ==
  ASSUME NEW x \in Seq(Block), NEW e \in Block, NEW i \in 1 .. Len(x)
  PROVE  /\ InsertAt(x, i, e) \in Seq(Block)
         /\ Len(InsertAt(x, i, e)) = Len(x) + 1
         /\ \A k \in 1 .. i - 1 : InsertAt(x, i, e)[k] = x[k]
         /\ InsertAt(x, i, e)[i] = e
         /\ \A k \in i + 1 .. Len(x) + 1 : InsertAt(x, i, e)[k] = x[k - 1]
  <1> DEFINE n == Len(x)
             before == SubSeq(x, 1, i - 1)
             mid == before \o << e >>
             behind == SubSeq(x, i, n)
             z == InsertAt(x, i, e)
  <1>1. n \in Nat /\ i \in Int /\ 1 <= i /\ i <= n /\ \A k \in 1 .. n : x[k] \in Block
    BY LenProperties
  <1> HIDE DEF n
  <1>2. \A k \in 1 .. i - 1 : x[k] \in Block
    BY <1>1
  <1>3. /\ before \in Seq(Block)
        /\ Len(before) = IF 1 <= i - 1 THEN (i - 1) - 1 + 1 ELSE 0
        /\ \A k \in 1 .. (i - 1) - 1 + 1 : before[k] = x[1 + k - 1]
    BY <1>1, <1>2, SubSeqProperties
  <1>4. \A k \in i .. n : x[k] \in Block
    BY <1>1
  <1>5. /\ behind \in Seq(Block)
        /\ Len(behind) = IF i <= n THEN n - i + 1 ELSE 0
        /\ \A k \in 1 .. n - i + 1 : behind[k] = x[i + k - 1]
    BY <1>1, <1>4, SubSeqProperties
  <1> HIDE DEF before, behind
  <1>6. << e >> \in Seq(Block) /\ Len(<< e >>) = 1 /\ << e >>[1] = e
    OBVIOUS
  <1>7. /\ mid \in Seq(Block) /\ Len(mid) = Len(before) + Len(<< e >>)
        /\ \A k \in 1 .. Len(before) + Len(<< e >>) :
             mid[k] = IF k <= Len(before) THEN before[k] ELSE << e >>[k - Len(before)]
    BY <1>3, <1>6, ConcatProperties
  <1>8. Len(before) = i - 1 /\ Len(mid) = i
    BY <1>1, <1>3, <1>6, <1>7
  <1>9. \A k \in 1 .. i - 1 : mid[k] = x[k]
    BY <1>1, <1>3, <1>6, <1>7, <1>8
  <1>10. mid[i] = e
    <2>1. i \in 1 .. Len(before) + Len(<< e >>) /\ ~(i <= Len(before)) /\ i - Len(before) = 1
      BY <1>1, <1>6, <1>8
    <2>2. QED
      BY <1>6, <1>7, <2>1
  <1>11. z = mid \o behind
    BY DEF InsertAt, before, behind, n
  <1> HIDE DEF mid, z
  <1>12. /\ z \in Seq(Block) /\ Len(z) = Len(mid) + Len(behind)
         /\ \A k \in 1 .. Len(mid) + Len(behind) :
              z[k] = IF k <= Len(mid) THEN mid[k] ELSE behind[k - Len(mid)]
    <2>1. mid \in Seq(Block) /\ behind \in Seq(Block)
      BY <1>5, <1>7
    <2>2. QED
      BY <1>11, <2>1, ConcatProperties
  <1>13. Len(z) = n + 1
    BY <1>1, <1>5, <1>8, <1>12
  <1>14. \A k \in 1 .. i - 1 : z[k] = x[k]
    BY <1>1, <1>5, <1>8, <1>9, <1>12
  <1>15. z[i] = e
    BY <1>1, <1>5, <1>8, <1>10, <1>12
  <1>16. ASSUME NEW k \in i + 1 .. n + 1 PROVE z[k] = x[k - 1]
    <2>1. /\ k \in 1 .. Len(mid) + Len(behind) /\ ~(k <= Len(mid))
          /\ k - Len(mid) \in 1 .. n - i + 1 /\ i + (k - Len(mid)) - 1 = k - 1
      BY <1>1, <1>5, <1>8
    <2>2. z[k] = behind[k - Len(mid)]
      BY <1>12, <2>1
    <2>3. behind[k - Len(mid)] = x[i + (k - Len(mid)) - 1]
      BY <1>5, <2>1
    <2>4. QED
      BY <2>1, <2>2, <2>3
  <1>17. QED
    BY <1>12, <1>13, <1>14, <1>15, <1>16 DEF z, n

LEMMA RemoveShape ==
  ASSUME NEW x \in Seq(Block), NEW i \in 1 .. Len(x)
  PROVE  /\ RemoveAt(x, i) \in Seq(Block)
         /\ Len(RemoveAt(x, i)) = Len(x) - 1
         /\ \A k \in 1 .. i - 1 : RemoveAt(x, i)[k] = x[k]
         /\ \A k \in i .. Len(x) - 1 : RemoveAt(x, i)[k] = x[k + 1]
  <1> DEFINE n == Len(x)
             before == SubSeq(x, 1, i - 1)
             behind == SubSeq(x, i + 1, n)
             z == RemoveAt(x, i)
  <1>1. n \in Nat /\ i \in Int /\ 1 <= i /\ i <= n /\ \A k \in 1 .. n : x[k] \in Block
    BY LenProperties
  <1> HIDE DEF n
  <1>2. \A k \in 1 .. i - 1 : x[k] \in Block
    BY <1>1
  <1>3. /\ before \in Seq(Block)
        /\ Len(before) = IF 1 <= i - 1 THEN (i - 1) - 1 + 1 ELSE 0
        /\ \A k \in 1 .. (i - 1) - 1 + 1 : before[k] = x[1 + k - 1]
    BY <1>1, <1>2, SubSeqProperties
  <1>4. \A k \in i + 1 .. n : x[k] \in Block
    BY <1>1
  <1>5. /\ behind \in Seq(Block)
        /\ Len(behind) = IF i + 1 <= n THEN n - (i + 1) + 1 ELSE 0
        /\ \A k \in 1 .. n - (i + 1) + 1 : behind[k] = x[(i + 1) + k - 1]
    BY <1>1, <1>4, SubSeqProperties
  <1> HIDE DEF before, behind
  <1>6. z = before \o behind
    BY DEF RemoveAt, before, behind, n
  <1> HIDE DEF z
  <1>7. /\ z \in Seq(Block) /\ Len(z) = Len(before) + Len(behind)
        /\ \A k \in 1 .. Len(before) + Len(behind) :
             z[k] = IF k <= Len(before) THEN before[k] ELSE behind[k - Len(before)]
    BY <1>3, <1>5, <1>6, ConcatProperties
  <1>8. Len(before) = i - 1 /\ Len(behind) = n - i
    BY <1>1, <1>3, <1>5
  <1>9. Len(z) = n - 1
    BY <1>1, <1>7, <1>8
  <1>10. \A k \in 1 .. i - 1 : z[k] = x[k]
    BY <1>1, <1>3, <1>7, <1>8
  <1>11. ASSUME NEW k \in i .. n - 1 PROVE z[k] = x[k + 1]
    <2>1. /\ k \in 1 .. Len(before) + Len(behind) /\ ~(k <= Len(before))
          /\ k - Len(before) \in 1 .. n - (i + 1) + 1 /\ (i + 1) + (k - Len(before)) - 1 = k + 1
      BY <1>1, <1>8
    <2>2. z[k] = behind[k - Len(before)]
      BY <1>7, <2>1
    <2>3. behind[k - Len(before)] = x[(i + 1) + (k - Len(before)) - 1]
      BY <1>5, <2>1
    <2>4. QED
      BY <2>1, <2>2, <2>3
  <1>12. QED
    BY <1>7, <1>9, <1>10, <1>11 DEF z, n

(* A stamp that is in its place is taken out and put back. *)
LEMMA StampStays ==
  ASSUME NEW x \in Seq(Block), StampInPlace(x), NEW j \in 1 .. Len(x), x[j].kind = "stamp"
  PROVE  Stamped(x) = x
  <1> DEFINE n == Len(x)
             stamp == B("stamp")
             I == {i \in 1 .. n : x[i] = stamp}
             y == RemoveAt(x, j)
             z == InsertAt(y, j, stamp)
  <1>1. n \in Nat /\ DOMAIN x = 1 .. n /\ \A i \in 1 .. n : x[i] \in Block
    BY LenProperties
  <1>2. /\ \A k \in 1 .. n : x[k].kind = "stamp" => k = j
        /\ \A k \in 1 .. j : ~IsContent(x[k])
        /\ j < n /\ IsContent(x[j + 1])
    BY <1>1 DEF StampInPlace
  <1>3. \A b \in Block : b.kind = "stamp" <=> b = stamp
    BY DEF Block, B, Reminders, Results, Compactions
  <1>4. stamp \in Block /\ stamp.kind = "stamp"
    BY DEF Block, B, Reminders
  <1> HIDE DEF stamp
  <1>5. I = {j}
    BY <1>1, <1>2, <1>3
  <1>6. RemoveFirst(x, stamp) = y
    <2>1. \E i \in 1 .. Len(x) : x[i] = stamp
      BY <1>1, <1>3
    <2>2. SelectInSeq(x, LAMBDA v : v = stamp) = Min(I)
      BY <1>5 DEF SelectInSeq
    <2>3. Min(I) = j
      <3>1. I \in SUBSET Nat /\ I # {}
        BY <1>1, <1>5
      <3> HIDE DEF I
      <3>2. QED
        BY <1>5, <3>1, LeastElement
    <2>4. QED
      BY <2>1, <2>2, <2>3 DEF RemoveFirst
  <1>7. /\ y \in Seq(Block) /\ Len(y) = n - 1
        /\ \A k \in 1 .. j - 1 : y[k] = x[k]
        /\ \A k \in j .. n - 1 : y[k] = x[k + 1]
    BY RemoveShape
  <1> HIDE DEF y
  <1>8. j \in 1 .. Len(y) /\ j - 1 < Len(y)
    BY <1>1, <1>2, <1>7
  <1>9. Leading(y) = j - 1
    <2>1. /\ Leading(y) \in 0 .. Len(y)
          /\ \A k \in 1 .. Leading(y) : ~IsContent(y[k])
          /\ Leading(y) < Len(y) => IsContent(y[Leading(y) + 1])
      BY <1>7, LeadingShape
    <2>2. IsContent(y[j])
      BY <1>1, <1>2, <1>7, <1>8
    <2>3. ~(j <= Leading(y))
      BY <2>1, <2>2
    <2>4. CASE Leading(y) < j - 1
      <3>1. Leading(y) + 1 \in 1 .. j - 1 /\ Leading(y) < Len(y)
        BY <1>1, <1>7, <1>8, <2>1, <2>4
      <3>2. IsContent(x[Leading(y) + 1])
        BY <1>7, <2>1, <3>1
      <3>3. QED
        BY <1>2, <3>1, <3>2
    <2>5. QED
      BY <1>1, <1>7, <2>1, <2>3, <2>4
  <1>10. Stamped(x) = z
    <2>1. Leading(y) # Len(y) /\ Leading(y) + 1 = j
      <3>1. j \in Nat /\ Len(y) \in Nat
        BY <1>1, <1>7, <1>8
      <3>2. \A l \in Int : l = j - 1 => l # Len(y) /\ l + 1 = j
        BY <1>8, <3>1
      <3>3. QED
        BY <1>9, <3>1, <3>2
    <2>2. QED
      BY <1>6, <2>1 DEF Stamped, stamp
  <1>11. /\ z \in Seq(Block) /\ Len(z) = Len(y) + 1
         /\ \A k \in 1 .. j - 1 : z[k] = y[k]
         /\ z[j] = stamp
         /\ \A k \in j + 1 .. Len(y) + 1 : z[k] = y[k - 1]
    BY <1>4, <1>7, <1>8, InsertShape
  <1> HIDE DEF z
  <1>12. ASSUME NEW k \in 1 .. Len(z) PROVE z[k] = x[k]
    <2>1. CASE k < j
      BY <1>1, <1>7, <1>11, <2>1
    <2>2. CASE k = j
      BY <1>1, <1>3, <1>11, <2>2
    <2>3. CASE k > j
      <3>1. k \in j + 1 .. Len(y) + 1 /\ k - 1 \in j .. n - 1 /\ (k - 1) + 1 = k
        BY <1>1, <1>7, <1>11, <2>3
      <3>2. z[k] = y[k - 1] /\ y[k - 1] = x[(k - 1) + 1]
        BY <1>7, <1>11, <3>1
      <3>3. QED
        BY <3>1, <3>2
    <2>4. QED
      BY <1>1, <1>11, <2>1, <2>2, <2>3
  <1>13. z = x
    <2>1. Len(z) = Len(x)
      BY <1>1, <1>7, <1>11
    <2>2. QED
      BY <1>11, <1>12, <2>1, SeqEqual
  <1>14. QED
    BY <1>10, <1>13

(* A first stamp goes between what leads and what was said. *)
LEMMA StampPut ==
  ASSUME NEW x \in Seq(Block), \A k \in 1 .. Len(x) : x[k].kind # "stamp",
         Leading(x) # Len(x)
  PROVE  LET i == Leading(x) + 1
         IN  /\ i \in 1 .. Len(x) /\ IsContent(x[i]) /\ \A k \in 1 .. i - 1 : ~IsContent(x[k])
             /\ Stamped(x) = InsertAt(x, i, B("stamp"))
  <1> DEFINE i == Leading(x) + 1
  <1>1. /\ Leading(x) \in 0 .. Len(x)
        /\ \A k \in 1 .. Leading(x) : ~IsContent(x[k])
        /\ Leading(x) < Len(x) => IsContent(x[i])
    BY LeadingShape
  <1>2. Len(x) \in Nat
    BY LenProperties
  <1>3. RemoveFirst(x, B("stamp")) = x
    <2>1. \A k \in 1 .. Len(x) : x[k] # B("stamp")
      BY DEF B
    <2>2. QED
      BY <2>1 DEF RemoveFirst
  <1>4. Stamped(x) = InsertAt(x, i, B("stamp"))
    BY <1>3 DEF Stamped
  <1>5. i \in 1 .. Len(x) /\ i - 1 = Leading(x)
    BY <1>1, <1>2
  <1>6. QED
    BY <1>1, <1>2, <1>4, <1>5

LEMMA NothingToStamp ==
  ASSUME NEW x \in Seq(Block), \A k \in 1 .. Len(x) : x[k].kind # "stamp",
         Leading(x) = Len(x)
  PROVE  Stamped(x) = x
  <1>1. RemoveFirst(x, B("stamp")) = x
    <2>1. \A k \in 1 .. Len(x) : x[k] # B("stamp")
      BY DEF B
    <2>2. QED
      BY <2>1 DEF RemoveFirst
  <1>2. QED
    BY <1>1 DEF Stamped

(* Stamping a user's blocks changes neither what they say nor what leads   *)
(* them.                                                                   *)
LEMMA StampedKeeps ==
  ASSUME NEW x \in Seq(Block), x # << >>, ItemOK(User(x))
  PROVE  LET z == Stamped(x)
         IN  /\ z \in Seq(Block) /\ z # << >> /\ ItemOK(User(z))
             /\ AsMessage(User(z)) = AsMessage(User(x))
             /\ x[1] = B("standing") => z[1] = B("standing")
             /\ Stamped(x) = x \/ \A k \in 1 .. Len(x) : x[k].kind # "stamp"
  <1> DEFINE n == Len(x)
             stamp == B("stamp")
             i == Leading(x) + 1
             z == InsertAt(x, i, stamp)
  <1>1. /\ n \in Nat \ {0} /\ DOMAIN x = 1 .. n /\ \A k \in 1 .. n : x[k] \in Block
    BY LenProperties, EmptySeq
  <1>2. /\ User(x).role = "user" /\ User(x).blocks = x
        /\ ResultsFirst(x) /\ StampInPlace(x)
        /\ \A b \in ToSet(x) : b.kind \in UserKinds
    BY UserType DEF ItemOK
  <1>3. CASE Stamped(x) = x
    BY <1>3
  <1>4. CASE Stamped(x) # x
    <2>1. \A k \in 1 .. n : x[k].kind # "stamp"
      BY <1>2, <1>4, StampStays
    <2>2. Leading(x) # n
      BY <1>4, <2>1, NothingToStamp
    <2>3. /\ i \in 1 .. n /\ IsContent(x[i]) /\ \A k \in 1 .. i - 1 : ~IsContent(x[k])
          /\ Stamped(x) = z
      BY <2>1, <2>2, StampPut
    <2>4. stamp \in Block /\ stamp.kind = "stamp"
      BY DEF Block, B, Reminders
    <2> HIDE DEF stamp, i
    <2>5. /\ z \in Seq(Block) /\ Len(z) = n + 1
          /\ \A k \in 1 .. i - 1 : z[k] = x[k]
          /\ z[i] = stamp
          /\ \A k \in i + 1 .. n + 1 : z[k] = x[k - 1]
      BY <2>3, <2>4, InsertShape
    <2> HIDE DEF z
    <2>6. DOMAIN z = 1 .. n + 1 /\ z # << >>
      BY <1>1, <2>5, LenProperties, EmptySeq
    <2>7. ASSUME NEW k \in 1 .. n + 1
          PROVE  \/ k < i /\ k \in 1 .. n /\ z[k] = x[k]
                 \/ k = i /\ z[k] = stamp
                 \/ k > i /\ k - 1 \in 1 .. n /\ z[k] = x[k - 1]
      BY <1>1, <2>3, <2>5
    <2>8. \A k \in 1 .. n : IsResult(x[k]) => k < i
      <3> SUFFICES ASSUME NEW k \in 1 .. n, IsResult(x[k]), ~(k < i) PROVE FALSE
        OBVIOUS
      <3>1. CASE k = i
        BY <2>3, <3>1 DEF IsContent
      <3>2. CASE i < k
        BY <1>1, <1>2, <2>3, <3>2 DEF ResultsFirst, IsContent
      <3>3. QED
        BY <1>1, <2>3, <3>1, <3>2
    <2>9. ~IsResult(stamp) /\ ~IsContent(stamp)
      BY <2>4 DEF IsResult, IsContent, IsReminder, Results, Reminders
    <2>10. \A k \in 1 .. n + 1 : IsResult(z[k]) => k < i
      <3> SUFFICES ASSUME NEW k \in 1 .. n + 1, IsResult(z[k]), ~(k < i) PROVE FALSE
        OBVIOUS
      <3>1. k > i /\ k - 1 \in 1 .. n /\ z[k] = x[k - 1]
        BY <2>7, <2>9
      <3>2. k - 1 < i
        BY <2>8, <3>1
      <3>3. QED
        BY <2>3, <3>1, <3>2
    <2>11. ResultsFirst(z)
      <3> SUFFICES ASSUME NEW j \in 1 .. n + 1, NEW k \in 1 .. n + 1, j < k, IsResult(z[k])
                   PROVE  IsResult(z[j])
        BY <2>6 DEF ResultsFirst
      <3>1. k < i /\ j < i
        BY <2>3, <2>10
      <3>2. /\ j \in 1 .. n /\ k \in 1 .. n /\ z[j] = x[j] /\ z[k] = x[k]
        BY <1>1, <2>3, <2>5, <3>1
      <3>3. QED
        BY <1>1, <1>2, <3>2 DEF ResultsFirst
    <2>12. \A k \in 1 .. n + 1 : z[k].kind = "stamp" => k = i
      BY <2>1, <2>7
    <2>13. \A k \in 1 .. i : ~IsContent(z[k])
      BY <1>1, <2>3, <2>5, <2>9
    <2>14. i < n + 1 /\ IsContent(z[i + 1])
      <3>1. i + 1 \in i + 1 .. n + 1 /\ (i + 1) - 1 = i
        BY <1>1, <2>3
      <3>2. z[i + 1] = x[i]
        BY <2>5, <3>1
      <3>3. QED
        BY <1>1, <2>3, <3>2
    <2>15. StampInPlace(z)
      <3> SUFFICES ASSUME NEW j \in 1 .. n + 1, z[j].kind = "stamp"
                   PROVE  /\ \A k \in 1 .. n + 1 : z[k].kind = "stamp" => k = j
                          /\ \A k \in 1 .. j : ~IsContent(z[k])
                          /\ j < n + 1 /\ IsContent(z[j + 1])
        BY <2>5, <2>6 DEF StampInPlace
      <3>1. j = i
        BY <2>12
      <3>2. QED
        BY <2>12, <2>13, <2>14, <3>1
    <2>16. ToSet(z) = ToSet(x) \cup {stamp}
      <3>1. ToSet(z) = {z[k] : k \in 1 .. n + 1} /\ ToSet(x) = {x[k] : k \in 1 .. n}
        BY <2>5, ElementsOf
      <3>2. \A k \in 1 .. n + 1 : z[k] \in ToSet(x) \cup {stamp}
        BY <2>7, <3>1
      <3>3. ASSUME NEW k \in 1 .. n PROVE x[k] \in ToSet(z)
        <4>1. CASE k < i
          <5>1. k \in 1 .. n + 1 /\ z[k] = x[k]
            BY <1>1, <2>3, <2>5, <4>1
          <5>2. QED
            BY <3>1, <5>1
        <4>2. CASE ~(k < i)
          <5>1. k + 1 \in i + 1 .. n + 1 /\ k + 1 \in 1 .. n + 1 /\ (k + 1) - 1 = k
            BY <1>1, <2>3, <4>2
          <5>2. z[k + 1] = x[k]
            BY <2>5, <5>1
          <5>3. QED
            BY <3>1, <5>1, <5>2
        <4>3. QED
          BY <4>1, <4>2
      <3>4. stamp \in ToSet(z)
        <4>1. i \in 1 .. n + 1
          BY <1>1, <2>3
        <4>2. QED
          BY <2>5, <3>1, <4>1
      <3>5. QED
        BY <3>1, <3>2, <3>3, <3>4
    <2> DEFINE S == ToSet(x)
               T == ToSet(z)
    <2>17. /\ IdsIn(T, {"use"}) = IdsIn(S, {"use"})
           /\ IdsIn(T, Results) = IdsIn(S, Results)
           /\ IdsIn(T, {"synthetic"}) = IdsIn(S, {"synthetic"})
      <3>1. \A kinds : "stamp" \notin kinds => IdsIn(T, kinds) = IdsIn(S, kinds)
        BY <2>4, <2>16 DEF IdsIn
      <3>2. "stamp" \notin {"use"} /\ "stamp" \notin Results /\ "stamp" \notin {"synthetic"}
        BY DEF Results
      <3>3. QED
        BY <3>1, <3>2
    <2>18. HasWords(T) = HasWords(S)
      <3>1. x[i] \in S
        BY <2>3, ElementsOf
      <3>2. x[i].kind \notin Results \cup {"use"}
        BY <1>2, <2>3, <3>1 DEF IsContent, IsResult, UserKinds, Reminders, Results
      <3>3. HasWords(S) /\ HasWords(T)
        BY <2>16, <3>1, <3>2 DEF HasWords
      <3>4. QED
        BY <3>3 DEF HasWords
    <2>19. AsMessage(User(z)) = AsMessage(User(x))
      <3>1. AsMessage(User(z)) =
              [role |-> "user", text |-> HasWords(T), uses |-> IdsIn(T, {"use"}),
               results |-> IdsIn(T, Results), healed |-> IdsIn(T, {"synthetic"})]
        BY <2>5, WrittenView
      <3>2. AsMessage(User(x)) =
              [role |-> "user", text |-> HasWords(S), uses |-> IdsIn(S, {"use"}),
               results |-> IdsIn(S, Results), healed |-> IdsIn(S, {"synthetic"})]
        BY WrittenView
      <3> HIDE DEF S, T
      <3>3. QED
        BY <2>17, <2>18, <3>1, <3>2
    <2>20. ItemOK(User(z))
      <3>1. /\ User(z) \in Item /\ User(z).role = "user" /\ ~User(z).plain /\ User(z).blocks = z
        BY <2>5, UserType
      <3>2. \A b \in ToSet(z) : b.kind \in UserKinds
        BY <1>2, <2>4, <2>16 DEF UserKinds, Reminders
      <3>3. QED
        BY <2>11, <2>15, <3>1, <3>2 DEF ItemOK
    <2>21. x[1] = B("standing") => z[1] = B("standing")
      <3> SUFFICES ASSUME x[1] = B("standing") PROVE z[1] = x[1]
        OBVIOUS
      <3>1. ~IsContent(x[1])
        BY DEF B, IsContent, IsReminder, Reminders
      <3>2. i # 1
        BY <2>3, <3>1
      <3>3. 1 \in 1 .. i - 1
        BY <1>1, <2>3, <3>2
      <3>4. QED
        BY <2>5, <3>3
    <2>22. QED
      BY <2>1, <2>3, <2>5, <2>6, <2>19, <2>20, <2>21
  <1>5. QED
    BY <1>3, <1>4

LEMMA WrittenTip ==
  ASSUME NEW m, ItemOK(m), m.role = "user", NEW new
  PROVE  [m EXCEPT !.plain = FALSE, !.blocks = new] = User(new)
  <1> DEFINE no == FALSE
             plain == m.plain
             blocks == m.blocks
             n == [m EXCEPT !.plain = no]
  <1>1. m = [role |-> "user", plain |-> plain, blocks |-> blocks]
    BY ItemParts DEF ItemOK
  <1>2. User(new) = [role |-> "user", plain |-> no, blocks |-> new]
    BY DEF User
  <1> HIDE DEF no, plain, blocks
  <1>3. n = [role |-> "user", plain |-> no, blocks |-> blocks]
    BY <1>1
  <1> HIDE DEF n
  <1>4. [n EXCEPT !.blocks = new] = [role |-> "user", plain |-> no, blocks |-> new]
    BY <1>3
  <1>5. QED
    BY <1>2, <1>4 DEF no, n

LEMMA StampTipKeeps ==
  ASSUME NEW c, ItemsOK(c), StandingFirst(c), EndsWith(c, "user"), Tip(c).blocks # << >>
  PROVE  LET p == StampTip(c)
         IN  /\ ItemsOK(p) /\ StandingFirst(p) /\ EndsWith(p, "user") /\ KeepsPast(c, p)
             /\ Len(p) = Len(c) /\ Messages(p) = Messages(c)
  <1> DEFINE p == StampTip(c)
             x == Tip(c).blocks
             z == Stamped(x)
             m == User(z)
  <1>1. /\ c # << >> /\ Len(c) \in Nat /\ Len(c) \in 1 .. Len(c)
        /\ ItemOK(Tip(c)) /\ Tip(c).role = "user" /\ Tip(c) = c[Len(c)]
    BY MessagesShape DEF EndsWith, Tip
  <1>2. Tip(c) = User(x) /\ x \in Seq(Block)
    BY <1>1, UserItem
  <1>3. ItemOK(User(x))
    BY <1>1, <1>2
  <1>4. /\ z \in Seq(Block) /\ z # << >> /\ ItemOK(m)
        /\ AsMessage(m) = AsMessage(User(x))
        /\ x[1] = B("standing") => z[1] = B("standing")
    BY <1>2, <1>3, StampedKeeps
  <1>5. m.role = "user" /\ m.blocks = z
    BY DEF User
  <1>6. CASE z = x
    <2>1. p = c
      BY <1>6 DEF StampTip
    <2>2. KeepsPast(c, c)
      BY <1>1 DEF KeepsPast
    <2>3. QED
      BY <2>1, <2>2
  <1>7. CASE z # x
    <2> DEFINE q == [c EXCEPT ![Len(c)] = m]
    <2>1. p = WithTip(c, [Tip(c) EXCEPT !.plain = FALSE, !.blocks = z])
      BY <1>1, <1>7 DEF StampTip
    <2>2. [Tip(c) EXCEPT !.plain = FALSE, !.blocks = z] = m
      BY <1>1, WrittenTip
    <2>3. p = q
      BY <2>1, <2>2 DEF WithTip
    <2> HIDE DEF m, z, x, p
    <2>4. /\ ItemsOK(q) /\ Len(q) = Len(c) /\ q # << >> /\ EndsWith(q, "user")
          /\ \A i \in 1 .. Len(c) : q[i] = IF i = Len(c) THEN m ELSE c[i]
          /\ Messages(q) = WithTip(Messages(c), AsMessage(m))
          /\ KeepsPast(c, q)
      BY <1>4, <1>5, TipReplaced
    <2> HIDE DEF q
    <2>5. StandingFirst(q)
      <3>1. 1 \in 1 .. Len(c)
        BY <1>1
      <3>2. CASE Len(c) = 1
        BY <1>1, <1>4, <1>5, <2>4, <3>1, <3>2 DEF StandingFirst, x
      <3>3. CASE Len(c) # 1
        BY <1>1, <2>4, <3>1, <3>3 DEF StandingFirst
      <3>4. QED
        BY <3>2, <3>3
    <2>6. WithTip(Messages(c), AsMessage(m)) = Messages(c)
      <3> DEFINE h == Messages(c)
                 a == AsMessage(m)
      <3>1. /\ h \in Seq(Message) /\ Len(h) = Len(c) /\ h # << >>
            /\ Tip(h) = a /\ a \in Message
        BY <1>1, <1>2, <1>4, MessagesShape, ViewType
      <3> HIDE DEF h, a
      <3>2. /\ WithTip(h, a) \in Seq(Message) /\ Len(WithTip(h, a)) = Len(h)
            /\ Tip(WithTip(h, a)) = a
            /\ \A i \in 1 .. Len(h) - 1 : WithTip(h, a)[i] = h[i]
        BY <3>1, WithTipShape
      <3>3. \A i \in 1 .. Len(h) : WithTip(h, a)[i] = h[i]
        BY <1>1, <3>1, <3>2 DEF Tip
      <3>4. WithTip(h, a) = h
        BY <3>1, <3>2, <3>3, SeqEqual
      <3>5. QED
        BY <3>4 DEF h, a
    <2>7. QED
      BY <2>3, <2>4, <2>5, <2>6 DEF p
  <1>8. QED
    BY <1>6, <1>7

-----------------------------------------------------------------------------
(* What is sent. *)

(* A history as it is kept between steps. *)
Kept(c) ==
  /\ ItemsOK(c) /\ StandingFirst(c)
  /\ WellKept(Messages(c)) /\ TipFillable(Messages(c))

LEMMA KeepsPastThenTip ==
  ASSUME NEW c, ItemsOK(c), NEW d, ItemsOK(d), NEW e, KeepsPast(c, d), KeepsPast(d, e), Len(e) = Len(d)
  PROVE  KeepsPast(c, e)
  <1>1. Len(c) \in Nat /\ Len(d) \in Nat /\ Len(c) <= Len(d)
    BY MessagesShape DEF KeepsPast
  <1>2. ASSUME NEW i \in 1 .. Len(c)
        PROVE  e[i] = c[i] \/ (i = Len(c) /\ TipChanged(c, e))
    <2>1. i \in 1 .. Len(d)
      BY <1>1
    <2>2. d[i] = c[i] \/ (i = Len(c) /\ TipChanged(c, d))
      BY DEF KeepsPast
    <2>3. e[i] = d[i] \/ (i = Len(d) /\ TipChanged(d, e))
      BY <2>1 DEF KeepsPast
    <2>4. CASE d[i] = c[i] /\ i = Len(d) /\ TipChanged(d, e)
      <3>1. Len(c) = Len(d) /\ i = Len(c)
        BY <1>1, <2>4
      <3>2. QED
        BY <2>4, <3>1 DEF TipChanged
    <2>5. CASE i = Len(c) /\ TipChanged(c, d)
      BY <2>3, <2>5 DEF TipChanged
    <2>6. QED
      BY <2>2, <2>3, <2>4, <2>5
  <1>3. QED
    BY <1>1, <1>2 DEF KeepsPast

(* A message that says something has a block. *)
LEMMA SaysSomething ==
  ASSUME NEW m, ItemOK(m),
         AsMessage(m).text \/ AsMessage(m).uses # {} \/ AsMessage(m).results # {}
  PROVE  m.blocks # << >>
  <1> SUFFICES ASSUME m.blocks = << >> PROVE FALSE
    OBVIOUS
  <1>1. ToSet(m.blocks) = {}
    BY NoBlocks
  <1>2. m \in Item
    BY DEF ItemOK
  <1>3. IdsOf(m, {"use"}) = {} /\ IdsOf(m, Results) = {}
    <2>1. \A kinds : IdsOf(m, kinds) = {}
      BY <1>1, <1>2, IdsByElements DEF IdsIn
    <2>2. QED
      BY <2>1
  <1>4. ~HasWords(ToSet(m.blocks))
    BY <1>1 DEF HasWords
  <1>5. QED
    BY <1>3, <1>4, ViewType

(* Before each request the history is healed, stamped, and then accepted.  *)
LEMMA SentHistory ==
  ASSUME NEW c, Kept(c), EndsWith(c, "user")
  PROVE  LET s == StampTip(Heal(c))
         IN  /\ Kept(s) /\ EndsWith(s, "user") /\ KeepsPast(c, s)
             /\ Messages(s) = HealDanglingToolUse(Messages(c))
             /\ RequestOK(Messages(s))
             /\ Tip(Heal(c)).blocks # << >>
  <1> DEFINE h == Messages(c)
             d == Heal(c)
             s == StampTip(d)
  <1>1. /\ ItemsOK(d) /\ StandingFirst(d) /\ KeepsPast(c, d) /\ EndsWith(d, "user")
        /\ Messages(d) = HealDanglingToolUse(h)
    BY HealIsHeal DEF Kept
  <1>2. h \in Seq(Message) /\ EndsWith(h, "user") /\ WellKept(h) /\ TipFillable(h)
    BY MessagesShape DEF Kept
  <1> HIDE DEF d, h
  <1>3. /\ RequestOK(HealDanglingToolUse(h))
        /\ WellKept(HealDanglingToolUse(h)) /\ TipFillable(HealDanglingToolUse(h))
    BY <1>2, HealMakesRequestOK
  <1>4. Tip(d).blocks # << >>
    <2> DEFINE g == Messages(d)
    <2>1. /\ Len(g) = Len(d) /\ Len(d) \in 1 .. Len(d) /\ ItemOK(Tip(d)) /\ Tip(g) = AsMessage(Tip(d))
      BY <1>1, MessagesShape DEF EndsWith
    <2>2. NonEmptyUpTo(g, Len(g))
      BY <1>1, <1>3 DEF RequestOK
    <2>3. Tip(g).text \/ Tip(g).uses # {} \/ Tip(g).results # {}
      BY <2>1, <2>2 DEF NonEmptyUpTo, Tip
    <2>4. QED
      BY <2>1, <2>3, SaysSomething
  <1>5. /\ ItemsOK(s) /\ StandingFirst(s) /\ EndsWith(s, "user") /\ KeepsPast(d, s)
        /\ Len(s) = Len(d) /\ Messages(s) = Messages(d)
    BY <1>1, <1>4, StampTipKeeps
  <1> HIDE DEF s
  <1>6. KeepsPast(c, s)
    BY <1>1, <1>5, KeepsPastThenTip DEF Kept
  <1>7. QED
    BY <1>1, <1>3, <1>4, <1>5, <1>6 DEF Kept, d, h, s

NeverCompacted(c) == \A i \in 1 .. Len(c) : ~HasSummary(c[i])

LEMMA WholeHistory ==
  ASSUME NEW c, NeverCompacted(c)
  PROVE  TrimToLastCompaction(c) = c
  <1>1. {i \in 1 .. Len(c) : HasSummary(c[i])} = {}
    BY DEF NeverCompacted
  <1>2. SelectLastInSeq(c, HasSummary) = 0
    BY <1>1 DEF SelectLastInSeq
  <1>3. QED
    BY <1>2 DEF TrimToLastCompaction

(* What travels when compaction is off. *)
Converted(m) == [m EXCEPT !.blocks = [j \in DOMAIN @ |-> AsText(@[j])]]

LEMMA NothingToConvert ==
  ASSUME NEW m \in Item, ~HasSummary(m)
  PROVE  Converted(m) = m
  <1> DEFINE blocks == m.blocks
             new == [j \in DOMAIN m.blocks |-> AsText(m.blocks[j])]
  <1>1. \A j \in DOMAIN blocks : AsText(blocks[j]) = blocks[j]
    BY DEF HasSummary, Compactions, AsText
  <1>2. blocks = [j \in DOMAIN blocks |-> blocks[j]]
    BY ItemParts, LenProperties
  <1>3. new = blocks
    BY <1>1, <1>2
  <1>4. Converted(m) = [m EXCEPT !.blocks = new]
    BY DEF Converted
  <1> HIDE DEF new
  <1>5. [m EXCEPT !.blocks = new] = m
    BY <1>3 DEF Item
  <1>6. QED
    BY <1>4, <1>5

LEMMA UncompactedRequest ==
  ASSUME NEW c, Kept(c), c # << >>, NeverCompacted(c), NEW on \in BOOLEAN
  PROVE  RequestFrom(c, on) = c
  <1>1. /\ c \in Seq(Item) /\ Len(c) \in Nat /\ 1 \in 1 .. Len(c) /\ DOMAIN c = 1 .. Len(c)
        /\ \A i \in 1 .. Len(c) : c[i] \in Item /\ ~HasSummary(c[i])
    BY MessagesShape, LenProperties DEF Kept, ItemsOK, ItemOK, NeverCompacted
  <1>2. TrimToLastCompaction(c) = c
    BY WholeHistory
  <1>3. ConvertCompactionBlocks(c) = c
    <2>1. ConvertCompactionBlocks(c) = [i \in 1 .. Len(c) |-> Converted(c[i])]
      BY <1>1 DEF ConvertCompactionBlocks, Converted
    <2>2. c = [i \in 1 .. Len(c) |-> c[i]]
      BY <1>1
    <2>3. \A i \in 1 .. Len(c) : Converted(c[i]) = c[i]
      BY <1>1, NothingToConvert
    <2>4. QED
      BY <2>1, <2>2, <2>3
  <1>4. c[1].role = "user" /\ IsReminder(c[1].blocks[1])
    <2>1. Messages(c) # << >> /\ Messages(c)[1].role = "user" /\ Messages(c)[1] = AsMessage(c[1])
      BY <1>1, MessagesShape DEF Kept, WellKept, Alternates
    <2>2. c[1].role = "user"
      BY <1>1, <2>1, ViewType DEF Kept, ItemsOK
    <2>3. c[1].blocks[1] = B("standing")
      BY DEF Kept, StandingFirst
    <2>4. QED
      BY <2>2, <2>3 DEF IsReminder, B, Reminders
  <1>5. EnsureReminders(c) = c
    <2> DEFINE IsUser(m) == m.role = "user"
               I == {i \in 1 .. Len(c) : IsUser(c[i])}
    <2>1. I \in SUBSET Nat /\ 1 \in I /\ \A i \in I : 1 <= i
      BY <1>1, <1>4
    <2>2. SelectInSeq(c, IsUser) = Min(I)
      BY <2>1 DEF SelectInSeq
    <2> HIDE DEF I
    <2>3. Min(I) = 1
      <3>1. Min(I) \in I /\ \A y \in I : Min(I) <= y
        BY <2>1, LeastElement
      <3>2. PICK k \in I : k = Min(I)
        BY <3>1
      <3>3. k \in Nat /\ 1 <= k /\ k <= 1
        BY <2>1, <3>1, <3>2
      <3>4. QED
        BY <3>2, <3>3
    <2>4. QED
      BY <1>4, <2>2, <2>3 DEF EnsureReminders
  <1>6. QED
    BY <1>2, <1>3, <1>5 DEF RequestFrom

(* An accepted request, and a history whose end it mirrors. *)
Accepted(r) ==
  /\ \A i \in DOMAIN r : ResultsFirst(r[i].blocks)
  /\ EndsWith(r, "user")
  /\ \A i \in DOMAIN r : r[i].blocks # << >>
  /\ IdsOf(r[1], Results) = {}
  /\ \A i \in 1 .. Len(r) - 1 :
       /\ r[i].role # r[i + 1].role
       /\ IdsOf(r[i], {"use"}) = IdsOf(r[i + 1], Results)

Mirrors(n, m) ==
  /\ n.role = m.role
  /\ IdsOf(n, {"use"}) = IdsOf(m, {"use"})
  /\ IdsOf(n, Results) = IdsOf(m, Results)
  /\ n.blocks # << >>
  /\ ResultsFirst(n.blocks)

LEMMA MirrorIsAccepted ==
  ASSUME NEW c, Kept(c), RequestOK(Messages(c)), NEW first \in 1 .. Len(c),
         IdsOf(c[first], Results) = {},
         NEW r \in Seq(Item), Len(r) = Len(c) - first + 1,
         \A k \in 1 .. Len(r) : Mirrors(r[k], c[first + k - 1])
  PROVE  Accepted(r)
  <1> DEFINE h == Messages(c)
             n == Len(c)
             m == Len(r)
  <1>1. /\ n \in Nat /\ Len(h) = n /\ DOMAIN r = 1 .. m /\ m \in Nat /\ m = n - first + 1 /\ 1 <= m
        /\ \A i \in 1 .. n : /\ h[i].role = c[i].role
                             /\ h[i].uses = IdsOf(c[i], {"use"})
                             /\ h[i].results = IdsOf(c[i], Results)
    <2>1. n \in Nat /\ Len(h) = n /\ \A i \in 1 .. n : h[i] = AsMessage(c[i]) /\ ItemOK(c[i])
      BY MessagesShape DEF Kept, ItemsOK
    <2>2. \A i \in 1 .. n : /\ h[i].role = c[i].role
                            /\ h[i].uses = IdsOf(c[i], {"use"})
                            /\ h[i].results = IdsOf(c[i], Results)
      BY <2>1, ViewType
    <2>3. DOMAIN r = 1 .. m /\ m \in Nat
      BY LenProperties
    <2>4. m = n - first + 1 /\ 1 <= m
      BY <2>1, <2>3
    <2>5. QED
      BY <2>1, <2>2, <2>3, <2>4
  <1>2. /\ EndsWith(h, "user") /\ h # << >> /\ h[n].role = "user"
        /\ \A i \in 1 .. n - 1 : /\ h[i].role # h[i + 1].role
                                 /\ h[i].uses = h[i + 1].results
    <2>1. /\ EndsWith(h, "user") /\ h # << >> /\ h[n].role = "user"
          /\ \A i \in 1 .. n - 1 : h[i].role # h[i + 1].role
      BY <1>1 DEF RequestOK, Alternates, EndsWith, Tip
    <2>2. \A i \in 1 .. n - 1 : h[i].uses \subseteq h[i + 1].results /\ h[i + 1].results \subseteq h[i].uses
      BY <1>1 DEF RequestOK, AnsweredUpTo, NoOrphanResult
    <2>3. QED
      BY <2>1, <2>2
  <1> HIDE DEF h, n, m
  <1>3. \A k \in 1 .. m : /\ first + k - 1 \in 1 .. n
                          /\ r[k].role = h[first + k - 1].role
                          /\ IdsOf(r[k], {"use"}) = h[first + k - 1].uses
                          /\ IdsOf(r[k], Results) = h[first + k - 1].results
                          /\ r[k].blocks # << >> /\ ResultsFirst(r[k].blocks)
    <2> SUFFICES ASSUME NEW k \in 1 .. m
                 PROVE  /\ first + k - 1 \in 1 .. n
                        /\ r[k].role = h[first + k - 1].role
                        /\ IdsOf(r[k], {"use"}) = h[first + k - 1].uses
                        /\ IdsOf(r[k], Results) = h[first + k - 1].results
                        /\ r[k].blocks # << >> /\ ResultsFirst(r[k].blocks)
      OBVIOUS
    <2>1. first + k - 1 \in 1 .. n
      BY <1>1 DEF n
    <2>2. Mirrors(r[k], c[first + k - 1])
      BY DEF m
    <2>3. QED
      BY <1>1, <2>1, <2>2 DEF Mirrors
  <1>4. r # << >> /\ Tip(r).role = "user"
    <2>1. m \in 1 .. m /\ first + m - 1 = n
      BY <1>1
    <2>2. r[m].role = "user"
      BY <1>2, <1>3, <2>1
    <2>3. r # << >>
      BY <1>1, EmptySeq DEF m
    <2>4. QED
      BY <2>2, <2>3 DEF Tip, m
  <1>5. IdsOf(r[1], Results) = {}
    <2>1. 1 \in 1 .. m /\ first + 1 - 1 = first /\ first \in 1 .. n
      BY <1>1 DEF n
    <2>2. h[first].results = IdsOf(c[first], Results)
      BY <1>1, <2>1
    <2>3. QED
      BY <1>3, <2>1, <2>2
  <1>6. ASSUME NEW i \in 1 .. m - 1
        PROVE  /\ r[i].role # r[i + 1].role
               /\ IdsOf(r[i], {"use"}) = IdsOf(r[i + 1], Results)
    <2> DEFINE l == first + i - 1
    <2>1. i \in 1 .. m /\ i + 1 \in 1 .. m /\ l \in 1 .. n - 1 /\ first + (i + 1) - 1 = l + 1
      BY <1>1 DEF n
    <2>2. /\ r[i].role = h[l].role /\ IdsOf(r[i], {"use"}) = h[l].uses
          /\ r[i + 1].role = h[l + 1].role /\ IdsOf(r[i + 1], Results) = h[l + 1].results
      BY <1>3, <2>1
    <2>3. h[l].role # h[l + 1].role /\ h[l].uses = h[l + 1].results
      BY <1>2, <2>1
    <2>4. QED
      BY <2>2, <2>3
  <1>7. QED
    BY <1>1, <1>3, <1>4, <1>5, <1>6 DEF Accepted, EndsWith, m

(* A message of an accepted history mirrors itself. *)
LEMMA MirrorsItself ==
  ASSUME NEW c, Kept(c), RequestOK(Messages(c)), NEW i \in 1 .. Len(c)
  PROVE  Mirrors(c[i], c[i])
  <1>1. /\ Len(Messages(c)) = Len(c) /\ Messages(c)[i] = AsMessage(c[i]) /\ ItemOK(c[i])
    BY MessagesShape DEF Kept, ItemsOK
  <1>2. AsMessage(c[i]).text \/ AsMessage(c[i]).uses # {} \/ AsMessage(c[i]).results # {}
    BY <1>1 DEF RequestOK, NonEmptyUpTo
  <1>3. c[i].blocks # << >>
    BY <1>1, <1>2, SaysSomething
  <1>4. QED
    BY <1>1, <1>3 DEF Mirrors, ItemOK

(* With a compaction the request starts at the last one, and the message   *)
(* behind it may gain the standing reminders.                              *)
LEMMA LastCompaction ==
  ASSUME NEW c, Kept(c), EndsWith(c, "user"), ~NeverCompacted(c)
  PROVE  \E last \in 1 .. Len(c) - 1 :
           /\ TrimToLastCompaction(c) = SubSeq(c, last, Len(c))
           /\ c[last].role = "assistant" /\ c[last].blocks = << B("compaction") >>
           /\ \A i \in last + 1 .. Len(c) : ~HasSummary(c[i])
  <1> DEFINE n == Len(c)
             I == {i \in 1 .. n : HasSummary(c[i])}
             last == SelectLastInSeq(c, HasSummary)
  <1>1. n \in Nat /\ \A i \in 1 .. n : ItemOK(c[i])
    BY MessagesShape DEF Kept, ItemsOK
  <1>2. I # {} /\ I \in SUBSET (1 .. n)
    BY DEF NeverCompacted
  <1>3. last = Max(I)
    BY <1>2 DEF SelectLastInSeq
  <1>4. Max(I) \in I /\ \A y \in I : y <= Max(I)
    <2> HIDE DEF I, n
    <2>1. QED
      BY <1>1, <1>2, GreatestElement
  <1> HIDE DEF last
  <1>5. last \in 1 .. n /\ HasSummary(c[last]) /\ \A i \in last + 1 .. n : ~HasSummary(c[i])
    <2>1. last \in 1 .. n /\ HasSummary(c[last])
      BY <1>3, <1>4
    <2>2. ASSUME NEW i \in last + 1 .. n, HasSummary(c[i]) PROVE FALSE
      <3>1. i \in I /\ i > last
        BY <1>1, <2>1, <2>2
      <3>2. i <= last
        BY <1>3, <1>4, <3>1
      <3>3. QED
        BY <1>1, <2>1, <3>1, <3>2
    <2>3. QED
      BY <2>1, <2>2
  <1>6. PICK j \in DOMAIN c[last].blocks : c[last].blocks[j].kind \in Compactions
    BY <1>5 DEF HasSummary
  <1> DEFINE b == c[last].blocks[j]
  <1>7. ItemOK(c[last]) /\ c[last] \in Item /\ b \in ToSet(c[last].blocks) /\ b \in Block
    BY <1>1, <1>5, ItemParts DEF ItemOK, ToSet
  <1>8. c[last].role = "assistant" /\ b.kind = "compaction" /\ c[last].blocks = << b >>
    <2>1. c[last].role \in {"user", "assistant"}
      BY <1>7, ItemParts
    <2>2. c[last].role # "user"
      BY <1>6, <1>7 DEF ItemOK, UserKinds, Reminders, Results, Compactions
    <2>3. b.kind = "compaction"
      BY <1>6, <1>7, <2>1, <2>2 DEF ItemOK, ReplyKinds, Compactions
    <2>4. QED
      BY <1>7, <2>1, <2>2, <2>3 DEF ItemOK
  <1>9. b = B("compaction")
    BY <1>7, <1>8 DEF Block, B, Results, Reminders
  <1>10. last # n
    BY <1>8 DEF EndsWith, Tip
  <1>11. TrimToLastCompaction(c) = SubSeq(c, last, n) /\ last \in 1 .. n - 1
    <2>1. last # 0
      BY <1>1, <1>5
    <2>2. TrimToLastCompaction(c) = SubSeq(c, last, n)
      BY <2>1 DEF TrimToLastCompaction, last
    <2>3. QED
      BY <1>1, <1>5, <1>10, <2>2
  <1>12. QED
    BY <1>5, <1>8, <1>9, <1>11

(* The standing reminders in front of a message that answers nothing. *)
LEMMA FramedMirrors ==
  ASSUME NEW m, ItemOK(m), m.role = "user", m.blocks # << >>, IdsOf(m, Results) = {}
  PROVE  LET n == User(<< B("standing") >> \o m.blocks)
         IN  n \in Item /\ Mirrors(n, m)
  <1> DEFINE x == << B("standing") >>
             z == x \o m.blocks
             n == User(z)
  <1>1. m \in Item /\ m.blocks \in Seq(Block)
    BY ItemParts DEF ItemOK
  <1>2. B("standing") \in Block /\ B("standing").kind = "standing"
    BY DEF B, Block, Reminders
  <1>3. x \in Seq(Block) /\ ToSet(x) = {B("standing")} /\ x # << >>
    BY <1>2, SingleBlock
  <1> HIDE DEF x
  <1>4. z \in Seq(Block) /\ ToSet(z) = ToSet(x) \cup ToSet(m.blocks) /\ z # << >>
    BY <1>1, <1>3, ConcatShape, ConcatElements, FirstOfConcat
  <1>5. n \in Item /\ n.role = "user" /\ n.blocks = z
    BY <1>4, UserType
  <1>6. IdsOf(n, {"use"}) = IdsOf(m, {"use"}) /\ IdsOf(n, Results) = IdsOf(m, Results)
    <2> HIDE DEF z, n
    <2>1. /\ IdsOf(n, {"use"}) = IdsIn(ToSet(z), {"use"}) /\ IdsOf(n, Results) = IdsIn(ToSet(z), Results)
          /\ IdsOf(m, {"use"}) = IdsIn(ToSet(m.blocks), {"use"})
          /\ IdsOf(m, Results) = IdsIn(ToSet(m.blocks), Results)
      BY <1>1, <1>5, IdsByElements
    <2>2. \A kinds : "standing" \notin kinds => IdsIn(ToSet(z), kinds) = IdsIn(ToSet(m.blocks), kinds)
      BY <1>2, <1>3, <1>4 DEF IdsIn
    <2>3. "standing" \notin {"use"} /\ "standing" \notin Results
      BY DEF Results
    <2>4. QED
      BY <2>1, <2>2, <2>3
  <1>7. ResultsFirst(z)
    <2>1. \A k \in DOMAIN z : ~IsResult(z[k])
      <3>1. IdsOf(n, Results) = {}
        BY <1>6
      <3>2. QED
        BY <1>5, <3>1 DEF IdsOf, IsResult
    <2>2. QED
      BY <2>1 DEF ResultsFirst
  <1>8. Mirrors(n, m)
    BY <1>4, <1>5, <1>6, <1>7 DEF Mirrors
  <1>9. QED
    BY <1>5, <1>8 DEF x

LEMMA ReplyMirrors ==
  ASSUME NEW m \in Item, m.role = "assistant", m.blocks = << B("compaction") >>,
         NEW n \in {m, Converted(m)}
  PROVE  n \in Item /\ Mirrors(n, m) /\ IdsOf(m, {"use"}) = {} /\ IdsOf(m, Results) = {}
  <1>1. \E b \in {B("compaction"), B("text")} : n.blocks = << b >>
    <2> DEFINE new == [j \in DOMAIN m.blocks |-> AsText(m.blocks[j])]
    <2>1. DOMAIN m.blocks = 1 .. 1 /\ m.blocks[1] = B("compaction")
      OBVIOUS
    <2>2. AsText(B("compaction")) = B("text")
      BY DEF AsText, B
    <2>3. new = << B("text") >>
      <3>1. new = [j \in 1 .. 1 |-> B("text")]
        BY <2>1, <2>2
      <3>2. QED
        BY <3>1
    <2> HIDE DEF new
    <2>4. Converted(m).blocks = new
      BY DEF Converted, Item, new
    <2>5. QED
      BY <2>3, <2>4
  <1>2. PICK b \in {B("compaction"), B("text")} : n.blocks = << b >>
    BY <1>1
  <1>3. b \in Block /\ ~IsResult(b) /\ b.kind # "use"
    BY DEF B, Block, Compactions, IsResult, Results, NoId
  <1>4. n.role = "assistant" /\ n \in Item
    <2>1. << b >> \in Seq(Block)
      BY <1>3
    <2>2. Converted(m) = [m EXCEPT !.blocks = Converted(m).blocks]
      BY DEF Converted, Item
    <2>3. CASE n = m
      BY <2>3
    <2>4. CASE n = Converted(m)
      <3>1. n = [m EXCEPT !.blocks = << b >>]
        BY <1>2, <2>2, <2>4
      <3> DEFINE new == << b >>
      <3>2. new \in Seq(Block) /\ n = [m EXCEPT !.blocks = new]
        BY <2>1, <3>1
      <3> HIDE DEF new
      <3>3. QED
        BY <3>2 DEF Item
    <2>5. QED
      BY <2>3, <2>4
  <1>5. ToSet(n.blocks) = {b} /\ ToSet(m.blocks) = {B("compaction")}
    BY <1>2, SingleBlock
  <1>6. /\ IdsOf(n, {"use"}) = {} /\ IdsOf(n, Results) = {}
        /\ IdsOf(m, {"use"}) = {} /\ IdsOf(m, Results) = {}
    <2>1. /\ IdsOf(n, {"use"}) = IdsIn({b}, {"use"}) /\ IdsOf(n, Results) = IdsIn({b}, Results)
          /\ IdsOf(m, {"use"}) = IdsIn({B("compaction")}, {"use"})
          /\ IdsOf(m, Results) = IdsIn({B("compaction")}, Results)
      BY <1>4, <1>5, IdsByElements
    <2>2. IdsIn({b}, {"use"}) = {} /\ IdsIn({b}, Results) = {}
      BY <1>3 DEF IdsIn, IsResult
    <2>3. IdsIn({B("compaction")}, {"use"}) = {} /\ IdsIn({B("compaction")}, Results) = {}
      BY DEF IdsIn, B, Results
    <2>4. QED
      BY <2>1, <2>2, <2>3
  <1>7. ResultsFirst(n.blocks) /\ n.blocks # << >>
    <2>1. \A k \in DOMAIN n.blocks : ~IsResult(n.blocks[k])
      BY <1>3, <1>5 DEF ToSet
    <2>2. QED
      BY <1>2, <2>1 DEF ResultsFirst
  <1>8. QED
    BY <1>4, <1>6, <1>7 DEF Mirrors

(* The slice from the last compaction, as it was or converted. *)
LEMMA SliceShape ==
  ASSUME NEW c, Kept(c), NEW last \in 1 .. Len(c) - 1,
         \A i \in last + 1 .. Len(c) : ~HasSummary(c[i]),
         NEW on \in BOOLEAN
  PROVE  LET s == SubSeq(c, last, Len(c))
             t == IF on THEN s ELSE ConvertCompactionBlocks(s)
         IN  /\ t \in Seq(Item) /\ Len(t) = Len(c) - last + 1
             /\ t[1] \in {c[last], Converted(c[last])}
             /\ \A k \in 2 .. Len(c) - last + 1 : t[k] = c[last + k - 1]
  <1> DEFINE n == Len(c)
             m == n - last + 1
             s == SubSeq(c, last, n)
             v == ConvertCompactionBlocks(s)
  <1>1. n \in Nat /\ \A i \in 1 .. n : c[i] \in Item
    BY MessagesShape DEF Kept, ItemsOK, ItemOK
  <1>2. /\ last \in Int /\ 1 <= last /\ last < n /\ m \in Nat /\ 1 \in 1 .. m /\ 2 \in 1 .. m
        /\ \A k \in 1 .. m : last + k - 1 \in 1 .. n
    BY <1>1
  <1>3. /\ s \in Seq(Item) /\ Len(s) = m
        /\ \A k \in 1 .. m : s[k] = c[last + k - 1]
    <2>1. \A i \in last .. n : c[i] \in Item
      BY <1>1
    <2> HIDE DEF n
    <2>2. /\ s \in Seq(Item)
          /\ Len(s) = IF last <= n THEN n - last + 1 ELSE 0
          /\ \A k \in 1 .. n - last + 1 : s[k] = c[last + k - 1]
      BY <1>1, <1>2, <2>1, SubSeqProperties
    <2>3. QED
      BY <1>1, <1>2, <2>2
  <1> HIDE DEF s, n
  <1>4. s[1] = c[last] /\ \A k \in 2 .. m : s[k] = c[last + k - 1] /\ ~HasSummary(s[k]) /\ k \in 1 .. m
    <2>1. s[1] = c[last + 1 - 1] /\ last + 1 - 1 = last
      BY <1>2, <1>3
    <2>2. \A k \in 2 .. m : k \in 1 .. m /\ last + k - 1 \in last + 1 .. n
      BY <1>1, <1>2
    <2>3. QED
      BY <1>3, <2>1, <2>2 DEF n
  <1> HIDE DEF m
  <1>5. /\ v \in Seq(Item) /\ Len(v) = m
        /\ v[1] = Converted(c[last])
        /\ \A k \in 2 .. m : v[k] = c[last + k - 1]
    <2>1. DOMAIN v = 1 .. m /\ \A k \in 1 .. m : v[k] = Converted(s[k])
      BY <1>3 , LenProperties DEF ConvertCompactionBlocks, Converted
    <2>2. \A k \in 2 .. m : s[k] \in Item /\ Converted(s[k]) = s[k]
      BY <1>3, <1>4, NothingToConvert, ElementOfSeq
    <2>3. v[1] = Converted(c[last])
      BY <1>2, <1>4, <2>1
    <2>4. \A k \in 2 .. m : v[k] = c[last + k - 1]
      BY <1>4, <2>1, <2>2
    <2>5. Converted(c[last]) \in Item
      <3> DEFINE a == c[last]
                 new == [j \in DOMAIN a.blocks |-> AsText(a.blocks[j])]
      <3>1. a \in Item /\ a.blocks \in Seq(Block)
        BY <1>1, <1>2, ItemParts
      <3>2. \A b \in Block : AsText(b) \in Block
        BY DEF AsText, B, Block, NoId
      <3>3. DOMAIN a.blocks = 1 .. Len(a.blocks) /\ Len(a.blocks) \in Nat /\ \A j \in DOMAIN a.blocks : a.blocks[j] \in Block
        BY <3>1, LenProperties
      <3>4. new \in [1 .. Len(a.blocks) -> Block]
        BY <3>2, <3>3
      <3>5. new \in Seq(Block)
        BY <3>3, <3>4, SeqDef
      <3>6. Converted(a) = [a EXCEPT !.blocks = new]
        BY DEF Converted
      <3> HIDE DEF a, new
      <3>7. Converted(a) \in Item
        BY <3>1, <3>5, <3>6 DEF Item
      <3>8. QED
        BY <3>7 DEF a
    <2>6. \A k \in 1 .. m : v[k] \in Item
      <3> SUFFICES ASSUME NEW k \in 1 .. m PROVE v[k] \in Item
        OBVIOUS
      <3>1. k = 1 \/ k \in 2 .. m
        BY <1>2
      <3>2. QED
        BY <2>1, <2>2, <2>3, <2>5, <3>1
    <2>7. v = [k \in 1 .. m |-> v[k]]
      BY <2>1 DEF ConvertCompactionBlocks
    <2> HIDE DEF v
    <2>8. v \in [1 .. m -> Item]
      BY <2>6, <2>7
    <2>9. v \in Seq(Item)
      BY <1>2, <2>8, SeqDef
    <2>10. Len(v) = m
      BY <1>2, <2>1, <2>9, LenProperties
    <2>11. QED
      BY <2>3, <2>4, <2>9, <2>10
  <1>6. QED
    BY <1>3, <1>4, <1>5 DEF s, n, m

LEMMA CompactedRequest ==
  ASSUME NEW c, Kept(c), EndsWith(c, "user"), RequestOK(Messages(c)), ~NeverCompacted(c),
         NEW on \in BOOLEAN
  PROVE  /\ RequestFrom(c, on) \in Seq(Item) /\ Accepted(RequestFrom(c, on))
         /\ TrimToLastCompaction(c) # c
  <1> DEFINE n == Len(c)
             r == RequestFrom(c, on)
  <1>1. n \in Nat /\ \A i \in 1 .. n : ItemOK(c[i]) /\ c[i] \in Item
    BY MessagesShape DEF Kept, ItemsOK, ItemOK
  <1>2. PICK last \in 1 .. n - 1 :
          /\ TrimToLastCompaction(c) = SubSeq(c, last, n)
          /\ c[last].role = "assistant" /\ c[last].blocks = << B("compaction") >>
          /\ \A i \in last + 1 .. n : ~HasSummary(c[i])
    BY LastCompaction
  <1> DEFINE m == n - last + 1
             s == SubSeq(c, last, n)
             t == IF on THEN s ELSE ConvertCompactionBlocks(s)
  <1>3. /\ t \in Seq(Item) /\ Len(t) = m
        /\ t[1] \in {c[last], Converted(c[last])}
        /\ \A k \in 2 .. m : t[k] = c[last + k - 1]
    BY <1>2, SliceShape
  <1>4. r = EnsureReminders(t)
    BY <1>2 DEF RequestFrom
  <1> HIDE DEF r, t, n
  <1>5. /\ last \in 1 .. n /\ last + 1 \in 1 .. n /\ m \in Nat /\ 2 \in 1 .. m /\ 1 \in 1 .. m
        /\ 2 \in 2 .. m
        /\ last + 2 - 1 = last + 1 /\ last + 1 - 1 = last
    BY <1>1
  <1>6. /\ t[1] \in Item /\ Mirrors(t[1], c[last])
        /\ IdsOf(c[last], {"use"}) = {} /\ IdsOf(c[last], Results) = {}
    BY <1>1, <1>2, <1>3, <1>5, ReplyMirrors
  <1>7. t[1].role = "assistant" /\ t[2] = c[last + 1]
    BY <1>2, <1>3, <1>5, <1>6 DEF Mirrors
  <1>8. /\ c[last + 1].role = "user" /\ IdsOf(c[last + 1], Results) = {}
        /\ c[last + 1].blocks # << >> /\ ItemOK(c[last + 1])
    <2> DEFINE h == Messages(c)
    <2>1. /\ Len(h) = n /\ h[last] = AsMessage(c[last]) /\ h[last + 1] = AsMessage(c[last + 1])
          /\ ItemOK(c[last + 1]) /\ ItemOK(c[last]) /\ c[last + 1].role \in {"user", "assistant"}
      BY <1>1, <1>5, MessagesShape, ItemParts DEF Kept, n
    <2>2. last \in 1 .. Len(h) - 1
      BY <1>1, <2>1
    <2>3. h[last].role # h[last + 1].role /\ h[last + 1].results \subseteq h[last].uses
      BY <2>2 DEF RequestOK, Alternates, NoOrphanResult
    <2>4. c[last + 1].role = "user"
      BY <1>2, <2>1, <2>3, ViewType
    <2>5. h[last].uses = {}
      BY <1>6, <2>1, ViewType
    <2>6. IdsOf(c[last + 1], Results) = {}
      BY <2>1, <2>3, <2>5, ViewType
    <2>7. Mirrors(c[last + 1], c[last + 1])
      BY <1>5, MirrorsItself DEF n
    <2>8. QED
      BY <2>1, <2>4, <2>6, <2>7 DEF Mirrors
  <1> DEFINE framed == User(<< B("standing") >> \o c[last + 1].blocks)
  <1>9. framed \in Item /\ Mirrors(framed, c[last + 1])
    BY <1>8, FramedMirrors
  <1>10. r = t \/ r = [t EXCEPT ![2] = framed]
    <2> DEFINE IsUser(q) == q.role = "user"
               I == {i \in 1 .. Len(t) : IsUser(t[i])}
               first == SelectInSeq(t, IsUser)
    <2>1. I \in SUBSET Nat /\ 2 \in I /\ 1 \notin I
      BY <1>1, <1>3, <1>5, <1>7, <1>8
    <2>2. first = Min(I)
      BY <2>1 DEF SelectInSeq
    <2>3. Min(I) = 2
      <3> HIDE DEF I
      <3>1. Min(I) \in I /\ \A y \in I : Min(I) <= y
        BY <2>1, LeastElement
      <3>2. PICK k \in I : k = Min(I)
        BY <3>1
      <3>3. k \in Nat /\ k <= 2 /\ k # 1 /\ k # 0
        <4>1. 0 \notin I
          BY DEF I
        <4>2. QED
          BY <2>1, <3>1, <3>2, <4>1
      <3>4. k = 2
        BY <3>3
      <3>5. QED
        BY <3>2, <3>4
    <2>4. r = IF first = 0 \/ IsReminder(t[first].blocks[1]) THEN t
              ELSE [t EXCEPT ![first] = User(<< B("standing") >> \o t[first].blocks)]
      BY <1>4 DEF EnsureReminders
    <2> HIDE DEF I, first
    <2>5. first = 2
      BY <2>2, <2>3
    <2>6. r = t \/ r = [t EXCEPT ![2] = User(<< B("standing") >> \o t[2].blocks)]
      BY <2>4, <2>5
    <2>7. QED
      BY <1>7, <2>6
  <1> HIDE DEF framed
  <1>11. /\ r \in Seq(Item) /\ Len(r) = m
         /\ r[1] = t[1] /\ r[2] \in {c[last + 1], framed}
         /\ \A k \in 3 .. m : r[k] = c[last + k - 1]
    <2>1. \A k \in 3 .. m : k \in 2 .. m /\ k \in 1 .. m /\ k # 2
      BY <1>5
    <2>2. CASE r = t
      BY <1>3, <1>7, <2>1, <2>2
    <2>3. CASE r = [t EXCEPT ![2] = framed]
      <3>1. /\ r \in Seq(Item) /\ Len(r) = m
            /\ \A k \in 1 .. m : r[k] = IF k = 2 THEN framed ELSE t[k]
        BY <1>3, <1>5, <1>9, <2>3, ExceptSeq
      <3>2. QED
        BY <1>3, <1>5, <2>1, <3>1
    <2>4. QED
      BY <1>10, <2>2, <2>3
  <1>12. ASSUME NEW k \in 1 .. Len(r) PROVE Mirrors(r[k], c[last + k - 1])
    <2>1. k = 1 \/ k = 2 \/ k \in 3 .. m
      BY <1>5, <1>11
    <2>2. CASE k = 1
      BY <1>5, <1>6, <1>11, <2>2
    <2>3. CASE k = 2
      <3>1. Mirrors(c[last + 1], c[last + 1])
        BY <1>5, MirrorsItself DEF n
      <3>2. QED
        BY <1>5, <1>9, <1>11, <2>3, <3>1
    <2>4. CASE k \in 3 .. m
      <3>1. last + k - 1 \in 1 .. Len(c)
        BY <1>1, <2>4 DEF n
      <3>2. Mirrors(c[last + k - 1], c[last + k - 1])
        BY <3>1, MirrorsItself
      <3>3. QED
        BY <1>11, <2>4, <3>2
    <2>5. QED
      BY <2>1, <2>2, <2>3, <2>4
  <1>13. Accepted(r)
    <2>1. last \in 1 .. Len(c) /\ Len(r) = Len(c) - last + 1
      BY <1>5, <1>11 DEF n
    <2>2. QED
      BY <1>6, <1>11, <1>12, <2>1, MirrorIsAccepted
  <1>14. TrimToLastCompaction(c) # c
    <2>1. s[1] = c[last]
      <3>1. t[1] = s[1] \/ ~on
        BY DEF t
      <3>2. \A i \in last .. n : c[i] \in Item
        BY <1>1
      <3>3. \A k \in 1 .. n - last + 1 : s[k] = c[last + k - 1]
        BY <1>1, <1>5, <3>2, SubSeqProperties
      <3>4. QED
        BY <1>5, <3>3
    <2>2. c[1].role = "user"
      <3>1. c # << >> /\ Messages(c) # << >> /\ 1 \in 1 .. n /\ Messages(c)[1] = AsMessage(c[1])
        BY MessagesShape DEF Kept, EndsWith, n
      <3>2. QED
        BY <1>1, <3>1, ViewType DEF RequestOK, Alternates
    <2>3. QED
      BY <1>2, <2>1, <2>2 DEF n
  <1>15. QED
    BY <1>11, <1>13, <1>14 DEF r

(* Whatever is cut, what is sent is accepted; without a compaction it is   *)
(* the whole history.                                                      *)
LEMMA RequestSent ==
  ASSUME NEW c, Kept(c), EndsWith(c, "user"), RequestOK(Messages(c)), NEW on \in BOOLEAN
  PROVE  /\ RequestFrom(c, on) \in Seq(Item) /\ Accepted(RequestFrom(c, on))
         /\ NeverCompacted(c) => RequestFrom(c, on) = c
         /\ TrimToLastCompaction(c) = c => NeverCompacted(c)
  <1>1. CASE ~NeverCompacted(c)
    BY <1>1, CompactedRequest
  <1>2. CASE NeverCompacted(c)
    <2>1. c # << >> /\ c \in Seq(Item) /\ Len(c) \in Nat /\ 1 \in 1 .. Len(c)
      BY MessagesShape DEF EndsWith, Kept, ItemsOK
    <2>2. RequestFrom(c, on) = c
      BY <1>2, <2>1, UncompactedRequest
    <2>3. IdsOf(c[1], Results) = {}
      <3>1. Messages(c) # << >> /\ Messages(c)[1] = AsMessage(c[1]) /\ ItemOK(c[1])
        BY <2>1, MessagesShape DEF Kept, ItemsOK
      <3>2. QED
        BY <3>1, ViewType DEF RequestOK, NoOrphanResult
    <2>4. \A k \in 1 .. Len(c) : Mirrors(c[k], c[1 + k - 1])
      <3> SUFFICES ASSUME NEW k \in 1 .. Len(c) PROVE Mirrors(c[k], c[1 + k - 1])
        OBVIOUS
      <3>1. 1 + k - 1 = k
        OBVIOUS
      <3>2. QED
        BY <3>1, MirrorsItself
    <2>5. Len(c) = Len(c) - 1 + 1
      BY <2>1
    <2>6. Accepted(c)
      BY <2>1, <2>3, <2>4, <2>5, MirrorIsAccepted
    <2>7. QED
      BY <1>2, <2>1, <2>2, <2>6
  <1>3. QED
    BY <1>1, <1>2

-----------------------------------------------------------------------------
(* The steps, under the settings the program runs with: the caller passes  *)
(* an array of blocks or resumes, and a compaction ends its reply.         *)
OwnSettings ==
  /\ Inputs \subseteq {"array", "none"}
  /\ CompactModes \subseteq {"no", "pause"}

LEMMA FramedShape ==
  ASSUME NEW input, input # "string", NEW delta \in BOOLEAN, typed \in Nat
  PROVE  LET m == Framed(input, delta)
         IN  /\ ItemOK(m) /\ m.role = "user" /\ AsMessage(m) = UserMessage(TRUE, {})
             /\ \A b \in ToSet(m.blocks) : ~IsResult(b) /\ b.kind # "stamp"
             /\ items = << >> => m.blocks # << >> /\ m.blocks[1] = B("standing")
  <1> DEFINE fresh == ~ \E i \in DOMAIN items : items[i].role = "user"
             first == IF fresh THEN << B("standing") >> ELSE << >>
             second == IF delta THEN << B("delta") >> ELSE << >>
             text == Typed(typed + 1)
             lead == first \o second
             last == << text >>
             x == lead \o last
             m == Framed(input, delta)
  <1>1. /\ B("standing") \in Block /\ B("delta") \in Block /\ text \in Block
        /\ B("standing").kind = "standing" /\ B("delta").kind = "delta" /\ text.kind = "text"
    BY DEF B, Block, Typed, Reminders
  <1>2. first \in Seq(Block) /\ second \in Seq(Block) /\ last \in Seq(Block)
    BY <1>1
  <1>3. /\ ToSet(first) \subseteq {B("standing")} /\ ToSet(second) \subseteq {B("delta")}
        /\ ToSet(last) = {text}
    BY SingleBlock, NoBlocks
  <1>4. m = User(x)
    BY DEF Framed
  <1> HIDE DEF first, second, text, last
  <1>5. lead \in Seq(Block) /\ ToSet(lead) = ToSet(first) \cup ToSet(second)
    BY <1>2, ConcatShape, ConcatElements
  <1> HIDE DEF lead
  <1>6. x \in Seq(Block) /\ ToSet(x) = ToSet(lead) \cup ToSet(last)
    BY <1>2, <1>5, ConcatShape, ConcatElements
  <1> HIDE DEF x, m
  <1>7. text \in ToSet(x) /\ \A b \in ToSet(x) : b.kind \in {"text", "standing", "delta"}
    BY <1>1, <1>3, <1>5, <1>6
  <1>8. AsMessage(User(x)) = UserMessage(TRUE, {}) /\ ItemOK(User(x))
    BY <1>1, <1>6, <1>7, WordsView
  <1>9. m.role = "user" /\ m.blocks = x
    BY <1>4, <1>6, UserType
  <1>10. \A b \in ToSet(x) : ~IsResult(b) /\ b.kind # "stamp"
    BY <1>7 DEF IsResult, Results
  <1>11. items = << >> => x # << >> /\ x[1] = B("standing")
    <2> SUFFICES ASSUME items = << >> PROVE x # << >> /\ x[1] = B("standing")
      OBVIOUS
    <2>1. fresh
      OBVIOUS
    <2>2. first # << >> /\ first[1] = B("standing")
      BY <2>1 DEF first
    <2>3. lead # << >> /\ lead[1] = first[1]
      BY <1>2, <2>2, FirstOfConcat DEF lead
    <2>4. x # << >> /\ x[1] = lead[1]
      BY <1>2, <1>5, <2>3, FirstOfConcat DEF x
    <2>5. QED
      BY <2>2, <2>3, <2>4
  <1>12. QED
    BY <1>4, <1>8, <1>9, <1>10, <1>11 DEF m

LEMMA UseSeqsType ==
  ASSUME NEW uses \in UseSeqs
  PROVE  uses \in Seq(ToolId) /\ Len(uses) \in Nat /\ ToSet(uses) \in SUBSET ToolId
  <1>1. PICK ids \in SUBSET ToolId : IsFiniteSet(ids) /\ uses \in SetToSeqs(ids)
    BY DEF UseSeqs
  <1>2. Cardinality(ids) \in Nat
    BY <1>1, FS_CardinalityType
  <1>3. uses \in [1 .. Cardinality(ids) -> ids]
    BY <1>1 DEF SetToSeqs
  <1>4. uses \in [1 .. Cardinality(ids) -> ToolId]
    BY <1>1, <1>3
  <1>5. uses \in Seq(ToolId)
    BY <1>2, <1>4, SeqDef
  <1>6. QED
    BY <1>5, LenProperties, ElementsOf

LEMMA OneOrNone ==
  ASSUME NEW b \in Block, NEW cond \in BOOLEAN
  PROVE  LET x == IF cond THEN << b >> ELSE << >>
         IN  x \in Seq(Block) /\ ToSet(x) = IF cond THEN {b} ELSE {}
  <1>1. << b >> \in Seq(Block) /\ << >> \in Seq(Block) /\ ToSet(<< b >>) = {b} /\ ToSet(<< >>) = {}
    BY SingleBlock, NoBlocks
  <1>2. CASE cond
    BY <1>1, <1>2
  <1>3. CASE ~cond
    BY <1>1, <1>3
  <1>4. QED
    BY <1>2, <1>3

(* A reply is either a compaction and nothing else, or text and tool_uses. *)
LEMMA ReplyShape ==
  ASSUME NEW mode \in {"no", "pause"}, NEW text \in BOOLEAN, NEW uses \in UseSeqs,
         mode = "pause" => ~text /\ uses = << >>
  PROVE  LET blocks == ReplyBlocks(mode, text, uses)
             words == mode = "pause" \/ text
             ids == ToSet(uses)
         IN  /\ blocks \in Seq(Block) /\ ItemOK(Assistant(blocks))
             /\ AsMessage(Assistant(blocks)) = AssistantMessage(words, ids)
             /\ IdsOf(Assistant(blocks), {"use"}) = ids
             /\ blocks # << >> <=> words \/ ids # {}
             /\ uses # << >> => ids # {}
             /\ \A n \in Nat \ {0} : Typed(n) \notin ToSet(blocks)
  <1> DEFINE first == IF mode \in {"pause", "inline"} THEN << B("compaction") >>
                      ELSE IF mode = "failed" THEN << B("failed") >> ELSE << >>
             second == IF text THEN << B("text") >> ELSE << >>
             third == [i \in 1 .. Len(uses) |-> [kind |-> "use", id |-> uses[i]]]
             paused == mode = "pause"
             lead == first \o second
             x == lead \o third
             words == mode = "pause" \/ text
             ids == ToSet(uses)
             Asked == {[kind |-> "use", id |-> t] : t \in ids}
  <1>1. x = ReplyBlocks(mode, text, uses)
    BY DEF ReplyBlocks
  <1>2. uses \in Seq(ToolId) /\ Len(uses) \in Nat /\ ids \in SUBSET ToolId
    BY UseSeqsType
  <1>3. ids = {uses[i] : i \in 1 .. Len(uses)}
    BY <1>2, ElementsOf
  <1>4. /\ B("compaction") \in Block /\ B("text") \in Block
        /\ B("compaction").kind = "compaction" /\ B("text").kind = "text"
    BY DEF B, Block, Compactions, NoId
  <1>5. first \in Seq(Block) /\ ToSet(first) = IF mode = "pause" THEN {B("compaction")} ELSE {}
    <2>1. first = IF paused THEN << B("compaction") >> ELSE << >>
      OBVIOUS
    <2> HIDE DEF first
    <2>2. paused \in BOOLEAN
      OBVIOUS
    <2> HIDE DEF paused
    <2>3. first \in Seq(Block) /\ ToSet(first) = IF paused THEN {B("compaction")} ELSE {}
      BY <1>4, <2>1, <2>2, OneOrNone
    <2>4. QED
      BY <2>3 DEF paused
  <1>6. second \in Seq(Block) /\ ToSet(second) = IF text THEN {B("text")} ELSE {}
    BY <1>4, OneOrNone
  <1>7. third \in Seq(Block) /\ ToSet(third) = Asked
    <2>1. \A i \in 1 .. Len(uses) : uses[i] \in ToolId
      BY <1>2, ElementOfSeq
    <2>2. \A t \in ToolId : [kind |-> "use", id |-> t] \in Block
      BY DEF Block
    <2>3. third \in [1 .. Len(uses) -> Block]
      BY <2>1, <2>2
    <2>4. third \in Seq(Block) /\ DOMAIN third = 1 .. Len(uses)
      BY <1>2, <2>3, SeqDef
    <2>5. ToSet(third) = Asked
      BY <1>3, <2>4 DEF ToSet
    <2>6. QED
      BY <2>4, <2>5
  <1>8. mode = "pause" => second = << >> /\ third = << >> /\ ids = {}
    <2> SUFFICES ASSUME mode = "pause" PROVE second = << >> /\ third = << >> /\ ids = {}
      OBVIOUS
    <2>1. ~text /\ uses = << >> /\ Len(uses) = 0
      OBVIOUS
    <2>2. ids = {}
      BY <2>1, NoBlocks
    <2>3. Len(third) = 0
      BY <2>1
    <2>4. QED
      BY <1>7, <2>1, <2>2, <2>3, EmptySeq
  <1>9. first = IF mode = "pause" THEN << B("compaction") >> ELSE << >>
    OBVIOUS
  <1> HIDE DEF first, second, third, ids
  <1>10. lead \in Seq(Block) /\ ToSet(lead) = ToSet(first) \cup ToSet(second)
    BY <1>5, <1>6, ConcatShape, ConcatElements
  <1>11. mode = "pause" => lead = << B("compaction") >>
    BY <1>5, <1>8, <1>9, ConcatEmptySeq
  <1> HIDE DEF lead
  <1>12. x \in Seq(Block) /\ ToSet(x) = ToSet(lead) \cup ToSet(third)
    BY <1>7, <1>10, ConcatShape, ConcatElements
  <1>13. mode = "pause" => x = << B("compaction") >>
    BY <1>8, <1>10, <1>11, ConcatEmptySeq
  <1> HIDE DEF x
  <1> DEFINE S == ToSet(x)
  <1>14. \A b \in S : \/ b = B("compaction") /\ mode = "pause"
                      \/ b = B("text") /\ text
                      \/ b \in Asked
    BY <1>5, <1>6, <1>7, <1>10, <1>12
  <1>15. \A b \in S : ~IsResult(b) /\ b.kind # "stamp" /\ b.kind \in ReplyKinds
    BY <1>4, <1>14 DEF IsResult, Results, ReplyKinds
  <1>16. ResultsFirst(x) /\ StampInPlace(x)
    BY <1>12, <1>15, NeitherResultsNorStamps
  <1>17. \A b \in S : b.kind = "compaction" => x = << b >>
    BY <1>4, <1>13, <1>14
  <1>18. ItemOK(Assistant(x))
    <2>1. /\ Assistant(x) \in Item /\ Assistant(x).role = "assistant" /\ ~Assistant(x).plain
          /\ Assistant(x).blocks = x
      BY <1>12, UserType
    <2>2. QED
      BY <1>15, <1>16, <1>17, <2>1 DEF ItemOK
  <1>19. HasWords(S) = words
    <2>1. words => HasWords(S)
      BY <1>4, <1>5, <1>6, <1>10, <1>12 DEF HasWords, Results
    <2>2. HasWords(S) => words
      BY <1>14 DEF HasWords
    <2>3. HasWords(S) \in BOOLEAN /\ words \in BOOLEAN
      BY DEF HasWords
    <2>4. QED
      BY <2>1, <2>2, <2>3
  <1>20. IdsIn(S, {"use"}) = ids
    <2>1. ASSUME NEW t \in ids PROVE t \in IdsIn(S, {"use"})
      <3> DEFINE b == [kind |-> "use", id |-> t]
      <3>1. b \in Asked /\ b.kind \in {"use"} /\ b.id = t
        OBVIOUS
      <3>2. b \in S
        BY <1>7, <1>12, <3>1
      <3> HIDE DEF b, S
      <3>3. QED
        BY <3>1, <3>2, IdsWitness
    <2>2. IdsIn(S, {"use"}) \subseteq ids
      BY <1>4, <1>14 DEF IdsIn
    <2>3. QED
      BY <2>1, <2>2
  <1>21. IdsIn(S, Results) = {} /\ IdsIn(S, {"synthetic"}) = {}
    BY <1>15 DEF IdsIn, IsResult, Results
  <1>22. AsMessage(Assistant(x)) = AssistantMessage(words, ids)
    <2>1. AsMessage(Assistant(x)) =
            [role |-> "assistant", text |-> HasWords(S), uses |-> IdsIn(S, {"use"}),
             results |-> IdsIn(S, Results), healed |-> IdsIn(S, {"synthetic"})]
      BY <1>12, WrittenView
    <2> HIDE DEF S, words
    <2>2. QED
      BY <1>19, <1>20, <1>21, <2>1 DEF AssistantMessage
  <1>23. IdsOf(Assistant(x), {"use"}) = ids
    <2>1. Assistant(x) \in Item /\ Assistant(x).blocks = x
      BY <1>12, UserType
    <2>2. QED
      BY <1>20, <2>1, IdsByElements
  <1>24. x # << >> <=> words \/ ids # {}
    <2>1. x # << >> => S # {}
      <3> SUFFICES ASSUME x # << >> PROVE S # {}
        OBVIOUS
      <3>1. 1 \in DOMAIN x
        BY <1>12, LenProperties, EmptySeq
      <3>2. QED
        BY <3>1 DEF ToSet
    <2>2. S # {} => words \/ ids # {}
      BY <1>14
    <2>3. words \/ ids # {} => S # {}
      BY <1>19, <1>20 DEF HasWords, IdsIn
    <2>4. x = << >> => S = {}
      BY NoBlocks
    <2>5. QED
      BY <2>1, <2>2, <2>3, <2>4
  <1>25. uses # << >> => ids # {}
    BY <1>2, <1>3, EmptySeq
  <1>26. \A n \in Nat \ {0} : Typed(n) \notin S
    BY <1>14 DEF Typed, B, NoId
  <1>27. QED
    BY <1>1, <1>12, <1>18, <1>22, <1>23, <1>24, <1>25, <1>26 DEF ids

-----------------------------------------------------------------------------
(* The inductive invariant: the history is kept; a reply is awaited only   *)
(* for a history that is accepted; and until a compaction the latest       *)
(* request is the history, or the history up to what was added since.      *)
StageOK ==
  /\ stage = "sending" => EndsWith(items, "user") /\ RequestOK(Messages(items)) /\ request # << >>
  /\ stage = "acting" => EndsWith(items, "assistant") /\ IdsOf(Tip(items), {"use"}) # {}
  /\ request # << >> => Accepted(request)

Covers(c, r) ==
  \/ r = c /\ RequestOK(Messages(c))
  \/ Len(r) < Len(c) /\ \A i \in 1 .. Len(r) : r[i] = c[i]

RequestKept == NeverCompacted(items) /\ request # << >> => Covers(items, request)

IndInv == TypeOK /\ Kept(items) /\ StageOK /\ RequestKept

(* What PrefixIsStable says of one step. *)
PrefixStep ==
  request # << >> /\ TrimToLastCompaction(items') = items' /\ request' # request
    => /\ Len(request) <= Len(request')
       /\ \A i \in DOMAIN request : i < Len(request') => request'[i] = request[i]

LEMMA NeverCompactedBefore ==
  ASSUME NEW c, ItemsOK(c), NEW d, ItemsOK(d), KeepsPast(c, d), NeverCompacted(d)
  PROVE  NeverCompacted(c)
  <1>1. \A m : ItemOK(m) /\ m.role = "user" => ~HasSummary(m)
    BY DEF ItemOK, HasSummary, UserKinds, Reminders, Results, Compactions, ToSet
  <1>2. Len(c) \in Nat /\ Len(d) \in Nat /\ Len(c) <= Len(d)
    BY MessagesShape DEF KeepsPast
  <1>3. ASSUME NEW i \in 1 .. Len(c) PROVE ~HasSummary(c[i])
    <2>1. CASE d[i] = c[i]
      BY <1>2, <2>1 DEF NeverCompacted
    <2>2. CASE i = Len(c) /\ TipChanged(c, d)
      BY <1>1, <2>2 DEF TipChanged, ItemsOK
    <2>3. QED
      BY <2>1, <2>2 DEF KeepsPast
  <1>4. QED
    BY <1>3 DEF NeverCompacted

(* What was sent is still there in a history that has grown. *)
LEMMA RequestCarries ==
  ASSUME IndInv, NEW d, ItemsOK(d), KeepsPast(items, d), NeverCompacted(d), request # << >>
  PROVE  /\ Len(request) <= Len(d)
         /\ \A i \in DOMAIN request : i < Len(d) => d[i] = request[i]
  <1>1. /\ Len(items) \in Nat /\ Len(d) \in Nat /\ Len(items) <= Len(d)
        /\ DOMAIN request = 1 .. Len(request) /\ Len(request) \in Nat
    BY MessagesShape, LenProperties DEF IndInv, Kept, TypeOK, KeepsPast
  <1>2. Covers(items, request)
    BY NeverCompactedBefore DEF IndInv, Kept, RequestKept
  <1>3. \A i \in 1 .. Len(items) : d[i] = items[i] \/ (i = Len(items) /\ Len(d) = Len(items))
    BY DEF KeepsPast, TipChanged
  <1>4. CASE request = items
    <2>1. Len(request) = Len(items)
      BY <1>4
    <2>2. ASSUME NEW i \in DOMAIN request, i < Len(d) PROVE d[i] = request[i]
      <3>1. i \in 1 .. Len(items) /\ ~(i = Len(items) /\ Len(d) = Len(items))
        BY <1>1, <2>1, <2>2
      <3>2. d[i] = items[i]
        BY <1>3, <3>1
      <3>3. QED
        BY <1>4, <3>2
    <2>3. QED
      BY <1>1, <2>1, <2>2
  <1>5. CASE Len(request) < Len(items) /\ \A i \in 1 .. Len(request) : request[i] = items[i]
    BY <1>1, <1>3, <1>5
  <1>6. QED
    BY <1>2, <1>4, <1>5 DEF Covers

LEMMA RequestStays ==
  ASSUME IndInv, NEW d, ItemsOK(d), KeepsPast(items, d), NeverCompacted(d), request # << >>,
         RequestOK(Messages(items)) => d = items \/ Len(items) < Len(d)
  PROVE  Covers(d, request)
  <1>1. /\ Len(items) \in Nat /\ Len(d) \in Nat /\ Len(items) <= Len(d)
        /\ DOMAIN request = 1 .. Len(request) /\ Len(request) \in Nat
    BY MessagesShape, LenProperties DEF IndInv, Kept, TypeOK, KeepsPast
  <1>2. Covers(items, request)
    BY NeverCompactedBefore DEF IndInv, Kept, RequestKept
  <1>3. \A i \in 1 .. Len(items) : d[i] = items[i] \/ (i = Len(items) /\ Len(d) = Len(items))
    BY DEF KeepsPast, TipChanged
  <1>4. CASE request = items /\ RequestOK(Messages(items))
    <2>1. CASE d = items
      BY <1>4, <2>1 DEF Covers
    <2>2. CASE Len(items) < Len(d)
      <3>1. Len(request) = Len(items)
        BY <1>4
      <3>2. ASSUME NEW i \in 1 .. Len(request) PROVE request[i] = d[i]
        <4>1. i \in 1 .. Len(items) /\ Len(d) # Len(items)
          BY <1>1, <2>2, <3>1
        <4>2. d[i] = items[i]
          BY <1>3, <4>1
        <4>3. QED
          BY <1>4, <4>2
      <3>3. Len(request) < Len(d)
        BY <2>2, <3>1
      <3>4. QED
        BY <3>2, <3>3 DEF Covers
    <2>3. QED
      BY <1>4, <2>1, <2>2
  <1>5. CASE Len(request) < Len(items) /\ \A i \in 1 .. Len(request) : request[i] = items[i]
    BY <1>1, <1>3, <1>5 DEF Covers
  <1>6. QED
    BY <1>2, <1>4, <1>5 DEF Covers

(* A request that leaves. *)
LEMMA SendKeeps ==
  ASSUME IndInv, NEW c, Kept(c), EndsWith(c, "user"), KeepsPast(items, c),
         NEW on \in BOOLEAN, Send(c, on), typed' \in Nat, announced' \in Nat
  PROVE  /\ IndInv' /\ PrefixStep
         /\ Messages(items') = HealDanglingToolUse(Messages(c)) /\ RequestOK(Messages(items'))
  <1> DEFINE s == StampTip(Heal(c))
             r == RequestFrom(s, on)
  <1>1. items' = s /\ request' = r /\ stage' = "sending"
    BY DEF Send
  <1>2. /\ Kept(s) /\ EndsWith(s, "user") /\ KeepsPast(c, s)
        /\ Messages(s) = HealDanglingToolUse(Messages(c))
        /\ RequestOK(Messages(s))
    BY SentHistory
  <1>3. ItemsOK(items) /\ ItemsOK(c)
    BY DEF IndInv, Kept
  <1>4. Len(s) = Len(c)
    <2>1. ItemsOK(Heal(c)) /\ StandingFirst(Heal(c)) /\ EndsWith(Heal(c), "user") /\ Len(Heal(c)) = Len(c)
      BY HealIsHeal DEF Kept
    <2>2. Len(Messages(s)) = Len(s) /\ Len(Messages(c)) = Len(c) /\ Len(Messages(Heal(c))) = Len(Heal(c))
      BY <1>2, <1>3, <2>1, MessagesShape DEF Kept
    <2>3. Messages(Heal(c)) = HealDanglingToolUse(Messages(c))
      BY HealIsHeal DEF Kept
    <2>4. QED
      BY <1>2, <2>1, <2>2, <2>3
  <1> HIDE DEF s, r
  <1>5. KeepsPast(items, s)
    BY <1>2, <1>3, <1>4, KeepsPastThenTip
  <1>6. /\ r \in Seq(Item) /\ Accepted(r)
        /\ NeverCompacted(s) => r = s
        /\ TrimToLastCompaction(s) = s => NeverCompacted(s)
    BY <1>2, RequestSent DEF r
  <1>7. r # << >>
    BY <1>6 DEF Accepted, EndsWith
  <1>8. s \in Seq(Item)
    BY <1>2 DEF Kept, ItemsOK
  <1>9. TypeOK'
    BY <1>1, <1>6, <1>8 DEF TypeOK
  <1>10. Kept(items') /\ StageOK'
    BY <1>1, <1>2, <1>6, <1>7 DEF StageOK
  <1>11. RequestKept'
    BY <1>1, <1>2, <1>6 DEF RequestKept, Covers
  <1>12. PrefixStep
    <2> SUFFICES ASSUME request # << >>, NeverCompacted(s)
                 PROVE  /\ Len(request) <= Len(s)
                        /\ \A i \in DOMAIN request : i < Len(s) => s[i] = request[i]
      BY <1>1, <1>6 DEF PrefixStep
    <2>1. ItemsOK(s)
      BY <1>2 DEF Kept
    <2>2. QED
      BY <1>5, <2>1, RequestCarries
  <1>13. QED
    BY <1>1, <1>2, <1>9, <1>10, <1>11, <1>12 DEF IndInv

-----------------------------------------------------------------------------
(* The history is a MessageLog.  MessageLog has History's operators under  *)
(* names of its own; the first lemma says that they are the same.          *)
LEMMA SameOperators ==
  /\ \A h : Log!HealDanglingToolUse(h) = HealDanglingToolUse(h)
  /\ \A h : Log!Unanswered(h) = Unanswered(h)
  /\ \A h : Log!RequestOK(h) = RequestOK(h)
  /\ \A h, m : Log!Push(h, m) = Push(h, m)
  /\ \A text, ids : Log!UserMessage(text, ids) = UserMessage(text, ids)
  /\ \A text, ids : Log!AssistantMessage(text, ids) = AssistantMessage(text, ids)
  <1>1. \A text, ids : Log!UserMessage(text, ids) = UserMessage(text, ids)
    BY DEF Log!UserMessage, UserMessage
  <1>2. \A text, ids : Log!AssistantMessage(text, ids) = AssistantMessage(text, ids)
    BY DEF Log!AssistantMessage, AssistantMessage
  <1>3. \A h, m : Log!Push(h, m) = Push(h, m)
    BY DEF Log!Push, Push, Log!EndsWith, EndsWith, Log!WithTip, WithTip, Log!Merge, Merge, Log!Tip, Tip
  <1>4. \A h : Log!Unanswered(h) = Unanswered(h)
    BY DEF Log!Unanswered, Unanswered, Log!HealAnchor, HealAnchor, Log!EndsWith, EndsWith, Log!Tip, Tip
  <1>5. \A ids : Log!Synthetic(ids) = Synthetic(ids)
    BY <1>1 DEF Log!Synthetic, Synthetic
  <1>6. \A h : Log!HealDanglingToolUse(h) = HealDanglingToolUse(h)
    BY <1>3, <1>4, <1>5 DEF Log!HealDanglingToolUse, HealDanglingToolUse
  <1>7. \A h : Log!RequestOK(h) = RequestOK(h)
    BY DEF Log!RequestOK, RequestOK, Log!EndsWith, EndsWith, Log!Tip, Tip, Log!Alternates, Alternates,
           Log!NoOrphanResult, NoOrphanResult, Log!AnsweredUpTo, AnsweredUpTo, Log!NonEmptyUpTo, NonEmptyUpTo
  <1>8. QED
    BY <1>1, <1>2, <1>3, <1>4, <1>6, <1>7

LogStep ==
  \/ Log!LogNext
  \/ Messages(items') = Messages(items) /\ (stage' = "sending") = (stage = "sending")

LEMMA UsersStep ==
  ASSUME stage # "sending", NEW text \in BOOLEAN, NEW push \in BOOLEAN,
         NEW results \in SUBSET ToolId, results \subseteq Unanswered(Messages(items)),
         NEW g, g = IF push THEN Push(Messages(items), UserMessage(text, results)) ELSE Messages(items),
         \/ stage' = "sending" /\ Messages(items') = HealDanglingToolUse(g) /\ RequestOK(Messages(items'))
         \/ stage' # "sending" /\ Messages(items') = g
  PROVE  LogStep
  <1> DEFINE send == stage' = "sending"
  <1>1. Log!Users(text, results, push, send)
    BY SameOperators DEF Log!Users, Messages
  <1>2. send \in BOOLEAN
    OBVIOUS
  <1>3. QED
    BY <1>1, <1>2 DEF Log!LogNext, LogStep

LEMMA RepliesStep ==
  ASSUME stage = "sending", stage' # "sending", NEW text \in BOOLEAN, NEW uses \in SUBSET ToolId,
         Messages(items') = IF text \/ uses # {} THEN Push(Messages(items), AssistantMessage(text, uses))
                            ELSE Messages(items)
  PROVE  LogStep
  <1>1. Log!Replies(text, uses)
    BY SameOperators DEF Log!Replies, Messages
  <1>2. QED
    BY <1>1 DEF Log!LogNext, LogStep

LEMMA RecoversStep ==
  ASSUME stage' # "sending", Messages(items') = HealDanglingToolUse(Messages(items))
  PROVE  LogStep
  <1>1. Log!Recovers
    BY SameOperators DEF Log!Recovers, Messages
  <1>2. QED
    BY <1>1 DEF Log!LogNext, LogStep

-----------------------------------------------------------------------------
(* The actions, one by one.                                                *)

(* What a step must show. *)
StepKept == IndInv' /\ PrefixStep /\ LogStep

LEMMA OpenKeeps ==
  ASSUME IndInv, OwnSettings, NEW input \in Inputs, NEW delta \in BOOLEAN, NEW on \in BOOLEAN,
         Open(input, delta, on)
  PROVE  StepKept
  <1> DEFINE h == Messages(items)
  <1>1. /\ stage = "idle" /\ typed \in Nat /\ announced \in Nat /\ Kept(items)
        /\ ItemsOK(items) /\ h \in Seq(Message)
    BY MessagesShape DEF Open, IndInv, TypeOK, Kept
  <1>2. announced' \in Nat
    BY <1>1 DEF Open
  <1>3. CASE input = "none" /\ EndsWith(items, "user") /\ Send(items, on) /\ UNCHANGED typed
    <2>1. KeepsPast(items, items)
      BY <1>1, MessagesShape DEF KeepsPast
    <2>2. /\ IndInv' /\ PrefixStep
          /\ Messages(items') = HealDanglingToolUse(h) /\ RequestOK(Messages(items'))
      BY <1>1, <1>2, <1>3, <2>1, SendKeeps
    <2>3. stage' = "sending"
      BY <1>3 DEF Send
    <2> DEFINE push == FALSE
    <2>4. h = IF push THEN Push(h, UserMessage(FALSE, {})) ELSE h
      OBVIOUS
    <2>5. push \in BOOLEAN /\ FALSE \in BOOLEAN /\ {} \in SUBSET ToolId /\ {} \subseteq Unanswered(h)
      OBVIOUS
    <2> HIDE DEF push, h
    <2>6. LogStep
      BY <1>1, <2>2, <2>3, <2>4, <2>5, UsersStep DEF h
    <2>7. QED
      BY <2>2, <2>6 DEF StepKept
  <1>4. CASE input # "none" /\ Send(PushItem(items, Framed(input, delta)), on) /\ typed' = typed + 1
    <2> DEFINE m == Framed(input, delta)
               d == PushItem(items, m)
    <2>1. input # "string"
      BY DEF OwnSettings
    <2>2. /\ ItemOK(m) /\ m.role = "user" /\ AsMessage(m) = UserMessage(TRUE, {})
          /\ \A b \in ToSet(m.blocks) : ~IsResult(b) /\ b.kind # "stamp"
          /\ items = << >> => m.blocks # << >> /\ m.blocks[1] = B("standing")
      BY <1>1, <2>1, FramedShape
    <2> HIDE DEF m
    <2>3. /\ ItemsOK(d) /\ d # << >> /\ EndsWith(d, "user") /\ KeepsPast(items, d)
          /\ Messages(d) = Push(h, UserMessage(TRUE, {}))
          /\ items # << >> /\ StandingFirst(items) => StandingFirst(d)
          /\ items = << >> => d = << m >>
      BY <1>1, <2>2, PushItemIsPush
    <2> HIDE DEF d
    <2>4. StandingFirst(d)
      BY <1>1, <2>2, <2>3 DEF Kept, StandingFirst
    <2>5. WellKept(Messages(d)) /\ TipFillable(Messages(d))
      <3> DEFINE n == UserMessage(TRUE, {})
      <3>1. n \in Message /\ n.role = "user" /\ n.uses = {} /\ n.results = {} /\ n.text
        BY MessageType DEF UserMessage
      <3>2. WellKept(h) /\ TipFillable(h)
        BY <1>1 DEF Kept
      <3> HIDE DEF n, h
      <3>3. WellKept(Push(h, n)) /\ TipFillable(Push(h, n))
        BY <1>1, <3>1, <3>2, PushUserKeeps
      <3>4. QED
        BY <2>3, <3>3 DEF n
    <2>6. Kept(d)
      BY <2>3, <2>4, <2>5 DEF Kept
    <2>7. typed' \in Nat
      BY <1>1, <1>4
    <2>8. /\ IndInv' /\ PrefixStep
          /\ Messages(items') = HealDanglingToolUse(Messages(d)) /\ RequestOK(Messages(items'))
      BY <1>2, <1>4, <2>3, <2>6, <2>7, SendKeeps DEF d, m
    <2>9. stage' = "sending"
      BY <1>4 DEF Send
    <2> DEFINE push == TRUE
               g == Messages(d)
    <2>10. g = IF push THEN Push(h, UserMessage(TRUE, {})) ELSE h
      BY <2>3
    <2>11. push \in BOOLEAN /\ TRUE \in BOOLEAN /\ {} \in SUBSET ToolId /\ {} \subseteq Unanswered(h)
      OBVIOUS
    <2> HIDE DEF push, h, g
    <2>12. LogStep
      BY <1>1, <2>8, <2>9, <2>10, <2>11, UsersStep DEF h, g
    <2>13. QED
      BY <2>8, <2>12 DEF StepKept
  <1>5. QED
    BY <1>3, <1>4 DEF Open

LEMMA FailsKeeps ==
  ASSUME IndInv, Fails
  PROVE  StepKept
  <1> DEFINE text == FALSE
  <1>1. /\ stage = "sending" /\ stage' = "idle"
        /\ items' = items /\ request' = request /\ typed' = typed /\ announced' = announced
    BY DEF Fails
  <1>2. IndInv'
    BY <1>1 DEF IndInv, TypeOK, StageOK, RequestKept
  <1>3. PrefixStep
    BY <1>1 DEF PrefixStep
  <1>4. Messages(items') = IF text \/ {} # {} THEN Push(Messages(items), AssistantMessage(text, {}))
                           ELSE Messages(items)
    BY <1>1
  <1>5. text \in BOOLEAN /\ {} \in SUBSET ToolId
    OBVIOUS
  <1> HIDE DEF text
  <1>6. LogStep
    BY <1>1, <1>4, <1>5, RepliesStep
  <1>7. QED
    BY <1>2, <1>3, <1>6 DEF StepKept

(* A step that adds to the history and sends nothing. *)
LEMMA AddingKeeps ==
  ASSUME IndInv, NEW d, Kept(d), KeepsPast(items, d),
         RequestOK(Messages(items)) => d = items \/ Len(items) < Len(d),
         items' = d, UNCHANGED << request, typed, announced >>, stage' \in {"idle", "acting"},
         stage' = "acting" => EndsWith(d, "assistant") /\ IdsOf(Tip(d), {"use"}) # {}
  PROVE  IndInv' /\ PrefixStep
  <1>1. request' = request /\ typed' = typed /\ announced' = announced /\ ItemsOK(d) /\ d \in Seq(Item)
    BY DEF Kept, ItemsOK
  <1>2. TypeOK'
    BY <1>1 DEF IndInv, TypeOK
  <1>3. StageOK'
    BY <1>1 DEF IndInv, StageOK
  <1>4. NeverCompacted(d) /\ request # << >> => Covers(d, request)
    BY <1>1, RequestStays
  <1>5. RequestKept'
    BY <1>1, <1>4 DEF RequestKept
  <1>6. PrefixStep
    BY <1>1 DEF PrefixStep
  <1>7. QED
    BY <1>2, <1>3, <1>5, <1>6 DEF IndInv

LEMMA ReplyKeeps ==
  ASSUME IndInv, OwnSettings, NEW mode \in CompactModes, NEW text \in BOOLEAN, NEW uses \in UseSeqs,
         NEW stop \in {"tool_use", "other"}, Reply(mode, text, uses, stop)
  PROVE  StepKept
  <1> DEFINE h == Messages(items)
             blocks == ReplyBlocks(mode, text, uses)
             m == Assistant(blocks)
             words == mode = "pause" \/ text
             ids == ToSet(uses)
             d == IF blocks = << >> THEN items ELSE PushItem(items, m)
  <1>1. /\ stage = "sending" /\ stage' = IF stop = "tool_use" THEN "acting" ELSE "idle"
        /\ mode = "pause" => ~text /\ uses = << >>
        /\ stop = "tool_use" => uses # << >>
        /\ items' = d /\ UNCHANGED << request, typed, announced >>
    BY DEF Reply
  <1>2. mode \in {"no", "pause"}
    BY DEF OwnSettings
  <1>3. /\ blocks \in Seq(Block) /\ ItemOK(m)
        /\ AsMessage(m) = AssistantMessage(words, ids)
        /\ IdsOf(m, {"use"}) = ids
        /\ blocks # << >> <=> words \/ ids # {}
        /\ uses # << >> => ids # {}
    BY <1>1, <1>2, ReplyShape
  <1>4. m.role = "assistant" /\ words \in BOOLEAN /\ ids \in SUBSET ToolId
    BY UseSeqsType DEF Assistant
  <1> HIDE DEF words, ids, blocks
  <1>5. /\ Kept(items) /\ ItemsOK(items) /\ h \in Seq(Message) /\ RequestOK(h) /\ WellKept(h)
        /\ items # << >> /\ Len(items) \in Nat /\ Len(h) = Len(items)
    BY <1>1, MessagesShape DEF IndInv, StageOK, Kept, EndsWith
  <1>6. stage' \in {"idle", "acting"} /\ stage' # "sending"
    BY <1>1
  <1>7. CASE blocks = << >>
    <2>1. d = items /\ ~words /\ ids = {} /\ stage' # "acting"
      BY <1>1, <1>3, <1>7
    <2>2. KeepsPast(items, items)
      BY <1>5 DEF KeepsPast
    <2>3. IndInv' /\ PrefixStep
      BY <1>1, <1>5, <1>6, <2>1, <2>2, AddingKeeps
    <2>4. Messages(items') = IF words \/ ids # {} THEN Push(h, AssistantMessage(words, ids)) ELSE h
      BY <1>1, <2>1
    <2>5. LogStep
      BY <1>1, <1>4, <1>6, <2>4, RepliesStep
    <2>6. QED
      BY <2>3, <2>5 DEF StepKept
  <1>8. CASE blocks # << >>
    <2>1. d = PushItem(items, m) /\ (words \/ ids # {})
      BY <1>3, <1>8
    <2> HIDE DEF m, d
    <2>2. /\ ItemsOK(d) /\ d # << >> /\ EndsWith(d, "assistant") /\ KeepsPast(items, d)
          /\ Messages(d) = Push(h, AssistantMessage(words, ids))
          /\ StandingFirst(items) => StandingFirst(d)
      <3>1. ~(m.role = "user")
        BY <1>4
      <3>2. QED
        BY <1>3, <1>4, <1>5, <2>1, <3>1, PushItemIsPush
    <2>3. Tip(d) = m
      <3>1. d = Append(items, m)
        BY <1>4, <2>1 DEF PushItem
      <3>2. QED
        BY <1>3, <1>5, <3>1, ItemAppended
    <2> HIDE DEF h
    <2>4. /\ Messages(d) = Append(h, AssistantMessage(words, ids))
          /\ WellKept(Messages(d)) /\ TipFillable(Messages(d))
      BY <1>4, <1>5, <2>1, <2>2, PushReplyKeeps
    <2>5. Kept(d)
      BY <1>5, <2>2, <2>4 DEF Kept
    <2>6. Len(items) < Len(d)
      <3>1. Len(Messages(d)) = Len(d)
        BY <2>2, MessagesShape
      <3>2. AssistantMessage(words, ids) \in Message
        BY <1>4, MessageType
      <3>3. Len(Messages(d)) = Len(h) + 1
        BY <1>5, <2>4, <3>2
      <3>4. QED
        BY <1>5, <3>1, <3>3
    <2>7. stage' = "acting" => EndsWith(d, "assistant") /\ IdsOf(Tip(d), {"use"}) # {}
      BY <1>1, <1>3, <2>2, <2>3
    <2>8. IndInv' /\ PrefixStep
      BY <1>1, <1>6, <2>2, <2>5, <2>6, <2>7, AddingKeeps
    <2>9. Messages(items') = IF words \/ ids # {} THEN Push(h, AssistantMessage(words, ids)) ELSE h
      BY <1>1, <2>1, <2>2
    <2>10. LogStep
      BY <1>1, <1>4, <1>6, <2>9, RepliesStep DEF h
    <2>11. QED
      BY <2>8, <2>10 DEF StepKept
  <1>9. QED
    BY <1>7, <1>8

LEMMA EmptyToolUseKeeps ==
  ASSUME IndInv, NEW on \in BOOLEAN, EmptyToolUse(on)
  PROVE  StepKept
  <1>1. /\ stage = "sending" /\ Send(items, on) /\ typed' = typed /\ announced' = announced
        /\ Kept(items) /\ EndsWith(items, "user") /\ RequestOK(Messages(items))
        /\ typed \in Nat /\ announced \in Nat /\ ItemsOK(items)
    BY DEF EmptyToolUse, IndInv, StageOK, TypeOK, Kept
  <1>2. KeepsPast(items, items)
    BY <1>1, MessagesShape DEF KeepsPast
  <1>3. /\ IndInv' /\ PrefixStep
        /\ Messages(items') = HealDanglingToolUse(Messages(items))
    BY <1>1, <1>2, SendKeeps
  <1>4. HealDanglingToolUse(Messages(items)) = Messages(items)
    BY <1>1, MessagesShape, AcceptedOwesNothing
  <1>5. stage' = "sending"
    BY <1>1 DEF Send
  <1>6. LogStep
    BY <1>1, <1>3, <1>4, <1>5 DEF LogStep
  <1>7. QED
    BY <1>3, <1>6 DEF StepKept

LEMMA DeliverKeeps ==
  ASSUME IndInv, NEW skipped \in SUBSET ToolId, NEW on \in BOOLEAN, Deliver(skipped, on)
  PROVE  StepKept
  <1> DEFINE h == Messages(items)
             uses == IdsOf(Tip(items), {"use"})
             given == uses \ skipped
             m == User(Answers("result", given))
             n == UserMessage(FALSE, given)
             d == PushItem(items, m)
  <1>1. /\ stage = "acting"
        /\ \/ Send(d, on)
           \/ items' = d /\ stage' = "idle" /\ UNCHANGED request
        /\ typed' = typed /\ announced' = announced
    BY DEF Deliver
  <1>2. /\ Kept(items) /\ ItemsOK(items) /\ EndsWith(items, "assistant") /\ uses # {}
        /\ typed \in Nat /\ announced \in Nat /\ stage # "sending"
    BY <1>1 DEF IndInv, StageOK, TypeOK, Kept
  <1>3. /\ h \in Seq(Message) /\ Len(h) = Len(items) /\ Len(items) \in Nat /\ Len(items) \in 1 .. Len(items)
        /\ ItemOK(Tip(items)) /\ Tip(items) \in Item /\ Tip(h) = AsMessage(Tip(items))
        /\ h # << >> /\ items # << >> /\ WellKept(h) /\ TipFillable(h)
    <2>1. h \in Seq(Message) /\ Len(h) = Len(items) /\ Len(items) \in Nat /\ items # << >> /\ items \in Seq(Item)
      BY <1>2, MessagesShape DEF EndsWith, ItemsOK
    <2>2. Len(items) \in 1 .. Len(items)
      BY <2>1, EmptySeq
    <2>3. h[Len(items)] = AsMessage(items[Len(items)]) /\ ItemOK(items[Len(items)])
      BY <1>2, <2>2, MessagesShape DEF ItemsOK
    <2>4. h # << >>
      BY <2>1, <2>2
    <2>5. QED
      BY <1>2, <2>1, <2>2, <2>3, <2>4 DEF Tip, Kept, ItemOK
  <1>4. Tip(h).uses = uses /\ EndsWith(h, "assistant") /\ ~EndsWith(items, "user")
    BY <1>2, <1>3, ViewType DEF EndsWith
  <1>5. given \in SUBSET ToolId /\ IsFiniteSet(given)
    <2>1. uses \in SUBSET ToolId /\ IsFiniteSet(uses)
      BY <1>3, IdsType, IdsFinite
    <2> HIDE DEF uses
    <2>2. QED
      BY <2>1, FS_Subset
  <1>6. ItemOK(m) /\ AsMessage(m) = n /\ m.role = "user"
    <2>1. ItemOK(m)
      BY <1>5, AnswersOK DEF Results
    <2>2. AsMessage(m) = n
      BY <1>5, AnswersView
    <2>3. QED
      BY <2>1, <2>2 DEF User
  <1>7. n \in Message /\ n.role = "user" /\ n.uses = {} /\ n.results = given
    BY <1>5, MessageType DEF UserMessage
  <1>8. given \subseteq Tip(h).uses
    BY <1>4
  <1> HIDE DEF given, m, n, d
  <1>9. /\ ItemsOK(d) /\ EndsWith(d, "user") /\ KeepsPast(items, d)
        /\ Messages(d) = Push(h, n) /\ (StandingFirst(items) => StandingFirst(d))
    BY <1>2, <1>3, <1>4, <1>6, PushItemIsPush DEF d
  <1>10. Len(items) < Len(d)
    <2>1. d = Append(items, m)
      BY <1>4 DEF d, PushItem
    <2>2. QED
      BY <1>2, <1>3, <1>6, <2>1, ItemAppended
  <1>11. Kept(d)
    <2> HIDE DEF h
    <2>1. WellKept(Push(h, n)) /\ TipFillable(Push(h, n))
      BY <1>2, <1>3, <1>4, <1>7, <1>8, PushUserKeeps
    <2>2. QED
      BY <1>2, <1>9, <2>1 DEF Kept
  <1>12. given \subseteq Unanswered(h)
    <2>1. HealAnchor(h) = Len(h) /\ Len(h) # 0
      BY <1>3, <1>4 DEF HealAnchor, EndsWith
    <2>2. Unanswered(h) = Tip(h).uses
      BY <1>3, <2>1 DEF Unanswered, Tip
    <2>3. QED
      BY <1>8, <2>2
  <1> DEFINE push == TRUE
             g == Messages(d)
  <1>13. g = IF push THEN Push(h, UserMessage(FALSE, given)) ELSE h
    BY <1>9 DEF n
  <1>14. push \in BOOLEAN /\ FALSE \in BOOLEAN
    OBVIOUS
  <1> HIDE DEF push, g
  <1>15. CASE Send(d, on)
    <2>1. /\ IndInv' /\ PrefixStep
          /\ Messages(items') = HealDanglingToolUse(g) /\ RequestOK(Messages(items'))
      BY <1>1, <1>2, <1>9, <1>11, <1>15, SendKeeps DEF g
    <2>2. stage' = "sending"
      BY <1>15 DEF Send
    <2>3. LogStep
      BY <1>2, <1>5, <1>12, <1>13, <1>14, <2>1, <2>2, UsersStep
    <2>4. QED
      BY <2>1, <2>3 DEF StepKept
  <1>16. CASE items' = d /\ stage' = "idle" /\ UNCHANGED request
    <2>1. IndInv' /\ PrefixStep
      BY <1>1, <1>9, <1>10, <1>11, <1>16, AddingKeeps
    <2>2. LogStep
      BY <1>2, <1>5, <1>12, <1>13, <1>14, <1>16, UsersStep DEF g
    <2>3. QED
      BY <2>1, <2>2 DEF StepKept
  <1>17. QED
    BY <1>1, <1>15, <1>16

LEMMA ReloadKeeps ==
  ASSUME IndInv, Reload
  PROVE  StepKept
  <1> DEFINE h == Messages(items)
             d == Heal(items)
  <1>1. items' = d /\ stage' = "idle" /\ UNCHANGED << request, typed, announced >>
    BY DEF Reload
  <1>2. Kept(items) /\ ItemsOK(items) /\ StandingFirst(items) /\ h \in Seq(Message) /\ WellKept(h) /\ TipFillable(h)
    BY MessagesShape DEF IndInv, Kept
  <1>3. /\ ItemsOK(d) /\ StandingFirst(d) /\ KeepsPast(items, d)
        /\ Messages(d) = HealDanglingToolUse(h)
        /\ Unanswered(h) = {} => d = items
    BY <1>2, HealIsHeal
  <1> HIDE DEF h, d
  <1>4. WellKept(Messages(d)) /\ TipFillable(Messages(d))
    BY <1>2, <1>3, HealKeeps
  <1>5. Kept(d)
    BY <1>3, <1>4 DEF Kept
  <1>6. RequestOK(h) => d = items
    BY <1>2, <1>3, AcceptedOwesNothing
  <1>7. IndInv' /\ PrefixStep
    BY <1>1, <1>3, <1>5, <1>6, AddingKeeps DEF h
  <1>8. LogStep
    BY <1>1, <1>3, RecoversStep DEF h
  <1>9. QED
    BY <1>7, <1>8 DEF StepKept

-----------------------------------------------------------------------------
LEMMA InitIndInv == Init => IndInv
  <1> SUFFICES ASSUME Init PROVE IndInv
    OBVIOUS
  <1> DEFINE c == << >>
  <1>1. items = c /\ request = c /\ stage = "idle" /\ typed = 0 /\ announced = 0
    BY DEF Init
  <1>2. c \in Seq(Item) /\ Len(c) = 0 /\ c \in Seq(Message)
    OBVIOUS
  <1>3. Messages(c) = << >>
    BY DEF Messages
  <1>4. WellKept(Messages(c)) /\ TipFillable(Messages(c))
    BY <1>3 DEF WellKept, TipFillable, Alternates, SidesKept, NoOrphanResult, AnsweredUpTo, NonEmptyUpTo
  <1>5. Kept(items)
    BY <1>1, <1>2, <1>4 DEF Kept, ItemsOK, StandingFirst
  <1>6. QED
    BY <1>1, <1>2, <1>5 DEF IndInv, TypeOK, StageOK, RequestKept

LEMMA StepKeeps ==
  ASSUME OwnSettings, IndInv, [Next]_vars
  PROVE  IndInv' /\ (PrefixStep \/ UNCHANGED vars) /\ LogStep
  <1>1. CompactEnabled \subseteq BOOLEAN
    BY ParametersAssumption
  <1>2. ASSUME NEW input \in Inputs, NEW delta \in BOOLEAN, NEW on \in CompactEnabled,
               Open(input, delta, on)
        PROVE  StepKept
    BY <1>1, <1>2, OpenKeeps
  <1>3. ASSUME Fails PROVE StepKept
    BY <1>3, FailsKeeps
  <1>4. ASSUME NEW mode \in CompactModes, NEW text \in BOOLEAN, NEW uses \in UseSeqs,
               NEW stop \in {"tool_use", "other"}, Reply(mode, text, uses, stop)
        PROVE  StepKept
    BY <1>4, ReplyKeeps
  <1>5. ASSUME NEW on \in CompactEnabled, EmptyToolUse(on)
        PROVE  StepKept
    BY <1>1, <1>5, EmptyToolUseKeeps
  <1>6. ASSUME NEW skipped \in SUBSET ToolId, NEW on \in CompactEnabled, Deliver(skipped, on)
        PROVE  StepKept
    BY <1>1, <1>6, DeliverKeeps
  <1>7. ASSUME Reload PROVE StepKept
    BY <1>7, ReloadKeeps
  <1>8. CASE UNCHANGED vars
    <2>1. items' = items /\ stage' = stage /\ request' = request /\ typed' = typed /\ announced' = announced
      BY <1>8 DEF vars
    <2>2. IndInv'
      BY <2>1 DEF IndInv, TypeOK, StageOK, RequestKept
    <2>3. LogStep
      BY <2>1 DEF LogStep
    <2>4. QED
      BY <1>8, <2>2, <2>3
  <1>9. CASE Next
    <2>1. StepKept
      BY <1>2, <1>3, <1>4, <1>5, <1>6, <1>7, <1>9 DEF Next
    <2>2. QED
      BY <2>1 DEF StepKept
  <1>10. QED
    BY <1>8, <1>9

LEMMA InductiveInvariant ==
  ASSUME OwnSettings
  PROVE  Spec => []IndInv
  <1>1. IndInv /\ [Next]_vars => IndInv'
    BY StepKeeps
  <1>2. QED
    BY <1>1, InitIndInv, PTL DEF Spec

(* Every request is accepted, its answers lead, and in the history each    *)
(* stamp is where it was put.                                              *)
LEMMA IndInvIsSound == IndInv => ConversationSound
  <1> SUFFICES ASSUME IndInv PROVE ConversationSound
    OBVIOUS
  <1>1. request # << >> => Accepted(request)
    BY DEF IndInv, StageOK
  <1>2. request \in Seq(Item) /\ items \in Seq(Item) /\ TypeOK
    BY DEF IndInv, TypeOK
  <1>3. ResultsLead
    <2>1. CASE request = << >>
      BY <2>1 DEF ResultsLead
    <2>2. CASE request # << >>
      BY <1>1, <2>2 DEF ResultsLead, Accepted, ResultsFirst
    <2>3. QED
      BY <2>1, <2>2
  <1>4. RequestAccepted
    BY <1>1, <1>3 DEF RequestAccepted, IndInv, StageOK, Accepted
  <1>5. StampsInPlace
    BY <1>2, LenProperties DEF StampsInPlace, IndInv, Kept, ItemsOK, ItemOK
  <1>6. QED
    BY <1>2, <1>3, <1>4, <1>5 DEF ConversationSound

(* Whatever is healed, merged, stamped, cut at a compaction or injected,   *)
(* each request is one the API accepts, answers lead the message they are  *)
(* in, and each stamp in the history stands between what leads its message *)
(* and what was said. [QueryRunner.run, TurnRunner.run, Conversation]      *)
THEOREM ConversationAlwaysSound ==
  ASSUME OwnSettings
  PROVE  Spec => []ConversationSound
  <1>1. IndInv => ConversationSound
    BY IndInvIsSound
  <1>2. QED
    BY <1>1, InductiveInvariant, PTL

(* Until a compaction a request repeats the one before it; only what was   *)
(* its last message may have changed while it was the last.                *)
THEOREM PrefixStaysStable ==
  ASSUME OwnSettings
  PROVE  Spec => PrefixIsStable
  <1>1. IndInv /\ [Next]_vars => [PrefixStep]_vars
    BY StepKeeps
  <1>2. QED
    BY <1>1, InductiveInvariant, PTL DEF Spec, PrefixIsStable, PrefixStep

(* The blocks implement the message log that QueryRunner implements too.   *)
THEOREM ConversationImplementsLog ==
  ASSUME OwnSettings
  PROVE  Spec => KeepsLog
  <1>1. Init => Log!LogInit
    BY DEF Init, Log!LogInit
  <1>2. IndInv /\ [Next]_vars => [Log!LogNext]_(Log!logVars)
    BY StepKeeps DEF LogStep, Log!logVars, Messages
  <1>3. QED
    BY <1>1, <1>2, InductiveInvariant, PTL DEF Spec, KeepsLog, Log!LogSpec

-----------------------------------------------------------------------------
(* What was typed is kept.  A block is looked for in a message, then in    *)
(* the history.                                                            *)
Never(b, x) == \A k \in DOMAIN x : x[k] # b
Once(b, x) == \E j \in DOMAIN x : x[j] = b /\ \A k \in DOMAIN x : x[k] = b => k = j

LEMMA NeverByElements ==
  ASSUME NEW x, NEW b, b \notin ToSet(x)
  PROVE  Never(b, x)
  BY DEF Never, ToSet

LEMMA OnceConcat ==
  ASSUME NEW x \in Seq(Block), NEW y \in Seq(Block), NEW b
  PROVE  /\ Never(b, x) /\ Never(b, y) => Never(b, x \o y)
         /\ Never(b, x) /\ Once(b, y) => Once(b, x \o y)
         /\ Once(b, x) /\ Never(b, y) => Once(b, x \o y)
  <1> DEFINE z == x \o y
             n == Len(x)
             m == Len(y)
  <1>1. /\ DOMAIN z = 1 .. n + m
        /\ \A i \in 1 .. n : z[i] = x[i]
        /\ \A i \in 1 .. m : z[n + i] = y[i]
        /\ \A k \in 1 .. n + m : k \in 1 .. n \/ (k > n /\ k - n \in 1 .. m)
    BY ConcatShape
  <1>2. n \in Nat /\ m \in Nat /\ DOMAIN x = 1 .. n /\ DOMAIN y = 1 .. m
    BY LenProperties
  <1> HIDE DEF z, n, m
  <1>3. \A k \in DOMAIN z : \/ k \in DOMAIN x /\ z[k] = x[k]
                            \/ k - n \in DOMAIN y /\ z[k] = y[k - n] /\ k \notin DOMAIN x
    <2> SUFFICES ASSUME NEW k \in 1 .. n + m
                 PROVE  \/ k \in 1 .. n /\ z[k] = x[k]
                        \/ k - n \in 1 .. m /\ z[k] = y[k - n] /\ k \notin 1 .. n
      BY <1>1, <1>2
    <2>1. CASE k \in 1 .. n
      BY <1>1, <2>1
    <2>2. CASE k > n /\ k - n \in 1 .. m
      <3>1. n + (k - n) = k /\ k \notin 1 .. n
        BY <1>2, <2>2
      <3>2. z[n + (k - n)] = y[k - n]
        BY <1>1, <2>2
      <3>3. QED
        BY <2>2, <3>1, <3>2
    <2>3. QED
      BY <1>1, <2>1, <2>2
  <1>4. Never(b, x) /\ Never(b, y) => Never(b, z)
    BY <1>3 DEF Never
  <1>5. ASSUME Never(b, x), Once(b, y) PROVE Once(b, z)
    <2>1. PICK j \in DOMAIN y : y[j] = b /\ \A k \in DOMAIN y : y[k] = b => k = j
      BY <1>5 DEF Once
    <2>2. n + j \in DOMAIN z /\ z[n + j] = b
      BY <1>1, <1>2, <2>1
    <2>3. ASSUME NEW k \in DOMAIN z, z[k] = b PROVE k = n + j
      <3>1. k - n \in DOMAIN y /\ y[k - n] = b
        BY <1>3, <1>5, <2>3 DEF Never
      <3>2. k - n = j
        BY <2>1, <3>1
      <3>3. k \in Int /\ j \in Int
        BY <1>1, <1>2
      <3>4. QED
        BY <1>2, <3>2, <3>3
    <2>4. QED
      BY <2>2, <2>3 DEF Once
  <1>6. ASSUME Once(b, x), Never(b, y) PROVE Once(b, z)
    <2>1. PICK j \in DOMAIN x : x[j] = b /\ \A k \in DOMAIN x : x[k] = b => k = j
      BY <1>6 DEF Once
    <2>2. j \in DOMAIN z /\ z[j] = b
      BY <1>1, <1>2, <2>1
    <2>3. \A k \in DOMAIN z : z[k] = b => k = j
      BY <1>3, <1>6, <2>1 DEF Never
    <2>4. QED
      BY <2>2, <2>3 DEF Once
  <1>7. QED
    BY <1>4, <1>5, <1>6 DEF z

LEMMA OnceInsert ==
  ASSUME NEW x \in Seq(Block), NEW e \in Block, NEW i \in 1 .. Len(x), NEW b, b # e
  PROVE  /\ Never(b, x) => Never(b, InsertAt(x, i, e))
         /\ Once(b, x) => Once(b, InsertAt(x, i, e))
  <1> DEFINE z == InsertAt(x, i, e)
             n == Len(x)
  <1>1. /\ z \in Seq(Block) /\ Len(z) = n + 1
        /\ \A k \in 1 .. i - 1 : z[k] = x[k]
        /\ z[i] = e
        /\ \A k \in i + 1 .. n + 1 : z[k] = x[k - 1]
    BY InsertShape
  <1>2. n \in Nat /\ i \in 1 .. n /\ DOMAIN x = 1 .. n /\ DOMAIN z = 1 .. n + 1
    BY <1>1, LenProperties
  <1> HIDE DEF z, n
  <1> DEFINE From(k) == IF k < i THEN k ELSE k - 1
  <1>3. \A k \in 1 .. n + 1 : k # i => From(k) \in 1 .. n /\ z[k] = x[From(k)]
    <2> SUFFICES ASSUME NEW k \in 1 .. n + 1, k # i PROVE From(k) \in 1 .. n /\ z[k] = x[From(k)]
      OBVIOUS
    <2>1. CASE k < i
      <3>1. k \in 1 .. i - 1 /\ From(k) = k
        BY <1>2, <2>1
      <3>2. QED
        BY <1>1, <1>2, <3>1
    <2>2. CASE ~(k < i)
      <3>1. k \in i + 1 .. n + 1 /\ From(k) = k - 1
        BY <1>2, <2>2
      <3>2. QED
        BY <1>1, <1>2, <3>1
    <2>3. QED
      BY <2>1, <2>2
  <1>4. Never(b, x) => Never(b, z)
    BY <1>1, <1>2, <1>3 DEF Never
  <1>5. ASSUME Once(b, x) PROVE Once(b, z)
    <2>1. PICK j \in 1 .. n : x[j] = b /\ \A k \in 1 .. n : x[k] = b => k = j
      BY <1>2, <1>5 DEF Once
    <2> DEFINE to == IF j < i THEN j ELSE j + 1
    <2>2. to \in 1 .. n + 1 /\ to # i /\ From(to) = j
      BY <1>2
    <2>3. z[to] = b
      BY <1>3, <2>1, <2>2
    <2>4. ASSUME NEW k \in 1 .. n + 1, z[k] = b PROVE k = to
      <3>1. k # i
        BY <1>1, <2>4
      <3>2. From(k) = j
        BY <1>3, <2>1, <2>4, <3>1
      <3>3. QED
        BY <1>2, <3>1, <3>2
    <2> HIDE DEF to
    <2>5. QED
      BY <1>2, <2>2, <2>3, <2>4 DEF Once
  <1>6. QED
    BY <1>4, <1>5 DEF z

(* What stands where a user's text stood, and what is said of the history. *)
TextsKept(x, y) ==
  \A n \in Nat : /\ Never(Typed(n), x) => Never(Typed(n), y)
                 /\ Once(Typed(n), x) => Once(Typed(n), y)

OnceIn(b, c) ==
  \E i \in 1 .. Len(c) : /\ Once(b, c[i].blocks)
                         /\ \A k \in 1 .. Len(c) : k # i => Never(b, c[k].blocks)
NeverIn(b, c) == \A i \in 1 .. Len(c) : Never(b, c[i].blocks)

(* n messages were typed, and each is there once. *)
TypedKept(c, n) ==
  /\ \A k \in Nat : k > n => NeverIn(Typed(k), c)
  /\ \A k \in 1 .. n : OnceIn(Typed(k), c)
  /\ \A i \in 1 .. Len(c) : c[i].role = "user" => Never(Typed(0), c[i].blocks)

LEMMA StampedKeepsTexts ==
  ASSUME NEW x \in Seq(Block), ItemOK(User(x))
  PROVE  TextsKept(x, Stamped(x))
  <1>1. Stamped(x) = x \/ \A k \in 1 .. Len(x) : x[k].kind # "stamp"
    <2>1. CASE x = << >>
      BY <2>1
    <2>2. CASE x # << >>
      BY <2>2, StampedKeeps
    <2>3. QED
      BY <2>1, <2>2
  <1>2. CASE Stamped(x) = x
    BY <1>2 DEF TextsKept
  <1>3. CASE Stamped(x) # x
    <2>1. \A k \in 1 .. Len(x) : x[k].kind # "stamp"
      BY <1>1, <1>3
    <2>2. Leading(x) # Len(x)
      BY <1>3, <2>1, NothingToStamp
    <2> DEFINE i == Leading(x) + 1
    <2>3. i \in 1 .. Len(x) /\ Stamped(x) = InsertAt(x, i, B("stamp"))
      BY <2>1, <2>2, StampPut
    <2>4. B("stamp") \in Block /\ \A n : Typed(n) # B("stamp")
      BY DEF B, Block, Typed, Reminders
    <2> HIDE DEF i
    <2>5. ASSUME NEW n \in Nat
          PROVE  /\ Never(Typed(n), x) => Never(Typed(n), InsertAt(x, i, B("stamp")))
                 /\ Once(Typed(n), x) => Once(Typed(n), InsertAt(x, i, B("stamp")))
      BY <2>3, <2>4, OnceInsert
    <2>6. QED
      BY <2>3, <2>5 DEF TextsKept
  <1>4. QED
    BY <1>2, <1>3

(* A history p that differs from c in its last message only, which is new  *)
(* or stands where c's tip stood; x is what was there before.              *)
Succeeds(p, c, x) ==
  /\ Len(p) \in Nat /\ Len(p) > 0 /\ Len(c) \in {Len(p), Len(p) - 1}
  /\ \A i \in 1 .. Len(p) - 1 : p[i] = c[i]
  /\ IF Len(c) = Len(p) THEN x = Tip(c).blocks ELSE x = << >>

LEMMA TipHolds ==
  ASSUME NEW c, NEW p, NEW x, Succeeds(p, c, x), NEW b
  PROVE  LET y == Tip(p).blocks
         IN  /\ NeverIn(b, c) => Never(b, x)
             /\ NeverIn(b, c) /\ Never(b, y) => NeverIn(b, p)
             /\ NeverIn(b, c) /\ Once(b, y) => OnceIn(b, p)
             /\ OnceIn(b, c) /\ (Never(b, x) => Never(b, y)) /\ (Once(b, x) => Once(b, y)) => OnceIn(b, p)
  <1> DEFINE l == Len(p)
             y == Tip(p).blocks
  <1>1. /\ l \in Nat /\ l \in 1 .. l /\ Len(c) \in {l, l - 1} /\ y = p[l].blocks
        /\ \A i \in 1 .. l : i # l => i \in 1 .. Len(c) /\ p[i] = c[i]
        /\ \A i \in 1 .. Len(c) : i \in 1 .. l /\ (i = l => Len(c) = l)
    BY DEF Succeeds, Tip
  <1>2. Len(c) = l => x = c[l].blocks
    BY DEF Succeeds, Tip
  <1>3. Len(c) # l => x = << >> /\ Never(b, x)
    BY DEF Succeeds, Never
  <1> HIDE DEF l, y
  <1>4. NeverIn(b, c) => Never(b, x)
    BY <1>1, <1>2, <1>3 DEF NeverIn
  <1>5. NeverIn(b, c) /\ Never(b, y) => NeverIn(b, p)
    BY <1>1 DEF NeverIn, l
  <1>6. ASSUME NeverIn(b, c), Once(b, y) PROVE OnceIn(b, p)
    <2>1. \A k \in 1 .. l : k # l => Never(b, p[k].blocks)
      BY <1>1, <1>6 DEF NeverIn
    <2>2. Once(b, p[l].blocks)
      BY <1>1, <1>6
    <2>3. QED
      BY <1>1, <2>1, <2>2 DEF OnceIn, l
  <1>7. ASSUME OnceIn(b, c), Never(b, x) => Never(b, y), Once(b, x) => Once(b, y) PROVE OnceIn(b, p)
    <2>1. PICK i \in 1 .. Len(c) : /\ Once(b, c[i].blocks)
                                   /\ \A k \in 1 .. Len(c) : k # i => Never(b, c[k].blocks)
      BY <1>7 DEF OnceIn
    <2>2. i \in 1 .. l /\ l \in 1 .. l
      BY <1>1
    <2>3. CASE i = l
      <3>1. Len(c) = l /\ Once(b, x)
        BY <1>1, <1>2, <2>1, <2>3
      <3>2. Once(b, p[i].blocks)
        BY <1>1, <1>7, <2>3, <3>1
      <3>3. \A k \in 1 .. l : k # i => Never(b, p[k].blocks)
        BY <1>1, <2>1, <2>3
      <3>4. QED
        BY <2>2, <3>2, <3>3 DEF OnceIn, l
    <2>4. CASE i # l
      <3>1. Never(b, x)
        <4>1. CASE Len(c) = l
          BY <1>1, <1>2, <2>1, <2>4, <4>1
        <4>2. CASE Len(c) # l
          BY <1>3, <4>2
        <4>3. QED
          BY <4>1, <4>2
      <3>2. Never(b, p[l].blocks)
        BY <1>1, <1>7, <3>1
      <3>3. Once(b, p[i].blocks)
        BY <1>1, <2>1, <2>2, <2>4
      <3>4. \A k \in 1 .. l : k # i => Never(b, p[k].blocks)
        BY <1>1, <2>1, <3>2
      <3>5. QED
        BY <2>2, <3>3, <3>4 DEF OnceIn, l
    <2>5. QED
      BY <2>3, <2>4
  <1>8. QED
    BY <1>4, <1>5, <1>6, <1>7 DEF y

(* A tip that keeps the texts it had. *)
LEMMA TipKeepsTyped ==
  ASSUME NEW c, NEW p, NEW x, Succeeds(p, c, x), NEW n \in Nat, TypedKept(c, n),
         \A k \in Nat \ {0} : /\ Never(Typed(k), x) => Never(Typed(k), Tip(p).blocks)
                              /\ Once(Typed(k), x) => Once(Typed(k), Tip(p).blocks),
         Tip(p).role = "user" => Never(Typed(0), Tip(p).blocks)
  PROVE  TypedKept(p, n)
  <1>1. ASSUME NEW k \in Nat, k > n PROVE NeverIn(Typed(k), p)
    <2>1. NeverIn(Typed(k), c) /\ k \in Nat \ {0}
      BY <1>1 DEF TypedKept
    <2>2. Never(Typed(k), x)
      BY <2>1, TipHolds
    <2>3. Never(Typed(k), Tip(p).blocks)
      BY <2>1, <2>2
    <2>4. QED
      BY <2>1, <2>3, TipHolds
  <1>2. ASSUME NEW k \in 1 .. n PROVE OnceIn(Typed(k), p)
    <2>1. OnceIn(Typed(k), c) /\ k \in Nat \ {0}
      BY <1>2 DEF TypedKept
    <2>2. QED
      BY <2>1, TipHolds
  <1>3. ASSUME NEW i \in 1 .. Len(p), p[i].role = "user" PROVE Never(Typed(0), p[i].blocks)
    <2>1. CASE i = Len(p)
      BY <1>3, <2>1 DEF Tip
    <2>2. CASE i # Len(p)
      <3>1. i \in 1 .. Len(p) - 1 /\ i \in 1 .. Len(c) /\ p[i] = c[i]
        BY <2>2 DEF Succeeds
      <3>2. QED
        BY <1>3, <3>1 DEF TypedKept
    <2>3. QED
      BY <2>1, <2>2
  <1>4. QED
    BY <1>1, <1>2, <1>3 DEF TypedKept

(* A user's tip that gains the text that was typed last. *)
LEMMA TipGainsTyped ==
  ASSUME NEW c, NEW p, NEW x, Succeeds(p, c, x), NEW n \in Nat, TypedKept(c, n),
         \A k \in Nat : k # n + 1 => /\ Never(Typed(k), x) => Never(Typed(k), Tip(p).blocks)
                                     /\ Once(Typed(k), x) => Once(Typed(k), Tip(p).blocks),
         Never(Typed(n + 1), x) => Once(Typed(n + 1), Tip(p).blocks),
         Never(Typed(0), x)
  PROVE  TypedKept(p, n + 1)
  <1>1. ASSUME NEW k \in Nat, k > n + 1 PROVE NeverIn(Typed(k), p)
    <2>1. NeverIn(Typed(k), c) /\ k # n + 1
      BY <1>1 DEF TypedKept
    <2>2. Never(Typed(k), x)
      BY <2>1, TipHolds
    <2>3. Never(Typed(k), Tip(p).blocks)
      BY <2>1, <2>2
    <2>4. QED
      BY <2>1, <2>3, TipHolds
  <1>2. ASSUME NEW k \in 1 .. n + 1 PROVE OnceIn(Typed(k), p)
    <2>1. CASE k = n + 1
      <3>1. NeverIn(Typed(n + 1), c)
        BY DEF TypedKept
      <3>2. Once(Typed(n + 1), Tip(p).blocks)
        BY <3>1, TipHolds
      <3>3. QED
        BY <2>1, <3>1, <3>2, TipHolds
    <2>2. CASE k # n + 1
      <3>1. OnceIn(Typed(k), c) /\ k \in Nat
        BY <2>2 DEF TypedKept
      <3>2. QED
        BY <2>2, <3>1, TipHolds
    <2>3. QED
      BY <2>1, <2>2
  <1>3. ASSUME NEW i \in 1 .. Len(p), p[i].role = "user" PROVE Never(Typed(0), p[i].blocks)
    <2>1. CASE i = Len(p)
      <3>1. 0 \in Nat /\ 0 # n + 1
        OBVIOUS
      <3>2. Never(Typed(0), Tip(p).blocks)
        BY <3>1
      <3>3. QED
        BY <2>1, <3>2 DEF Tip
    <2>2. CASE i # Len(p)
      <3>1. i \in 1 .. Len(p) - 1 /\ i \in 1 .. Len(c) /\ p[i] = c[i]
        BY <2>2 DEF Succeeds
      <3>2. QED
        BY <1>3, <3>1 DEF TypedKept
    <2>3. QED
      BY <2>1, <2>2
  <1>4. QED
    BY <1>1, <1>2, <1>3 DEF TypedKept

LEMMA Appended ==
  ASSUME NEW c, ItemsOK(c), NEW m, ItemOK(m)
  PROVE  Succeeds(Append(c, m), c, << >>) /\ Tip(Append(c, m)) = m
  <1>1. /\ Len(Append(c, m)) = Len(c) + 1 /\ Tip(Append(c, m)) = m
        /\ \A i \in 1 .. Len(c) : Append(c, m)[i] = c[i]
    BY ItemAppended
  <1>2. Len(c) \in Nat
    BY MessagesShape
  <1>3. QED
    BY <1>1, <1>2 DEF Succeeds

LEMMA Replaced ==
  ASSUME NEW c, ItemsOK(c), EndsWith(c, "user"), NEW m, ItemOK(m), m.role = "user"
  PROVE  LET p == [c EXCEPT ![Len(c)] = m]
         IN  Succeeds(p, c, Tip(c).blocks) /\ Tip(p) = m
  <1> DEFINE p == [c EXCEPT ![Len(c)] = m]
  <1>1. /\ Len(p) = Len(c) /\ Tip(p) = m
        /\ \A i \in 1 .. Len(c) : p[i] = IF i = Len(c) THEN m ELSE c[i]
    BY TipReplaced
  <1>2. Len(c) \in Nat /\ Len(c) # 0
    BY MessagesShape, EmptySeq DEF EndsWith, ItemsOK
  <1> HIDE DEF p
  <1>3. Succeeds(p, c, Tip(c).blocks)
    BY <1>1, <1>2 DEF Succeeds
  <1>4. QED
    BY <1>1, <1>3 DEF p

(* Answers are nobody's words. *)
LEMMA AnswersHoldNoText ==
  ASSUME NEW kind \in Results, NEW ids \in SUBSET ToolId, IsFiniteSet(ids), NEW n
  PROVE  Never(Typed(n), Answers(kind, ids))
  <1>1. \A b \in ToSet(Answers(kind, ids)) : IsResult(b)
    BY AnswersShape
  <1>2. ~IsResult(Typed(n))
    BY DEF IsResult, Typed, Results
  <1>3. QED
    BY <1>1, <1>2, NeverByElements

(* A message without words leaves what was typed alone. *)
LEMMA AppendKeepsTyped ==
  ASSUME NEW c, ItemsOK(c), NEW n \in Nat, TypedKept(c, n), NEW m, ItemOK(m),
         \A k \in Nat \ {0} : Never(Typed(k), m.blocks),
         m.role = "user" => Never(Typed(0), m.blocks)
  PROVE  TypedKept(Append(c, m), n)
  <1> DEFINE p == Append(c, m)
             x == << >>
  <1>1. Succeeds(p, c, x) /\ Tip(p) = m
    BY Appended
  <1>2. \A b : ~Once(b, x)
    BY DEF Once
  <1> HIDE DEF p, x
  <1>3. \A k \in Nat \ {0} : /\ Never(Typed(k), x) => Never(Typed(k), Tip(p).blocks)
                             /\ Once(Typed(k), x) => Once(Typed(k), Tip(p).blocks)
    BY <1>1, <1>2
  <1>4. TypedKept(p, n)
    BY <1>1, <1>3, TipKeepsTyped
  <1>5. QED
    BY <1>4 DEF p

LEMMA ReplaceKeepsTyped ==
  ASSUME NEW c, ItemsOK(c), EndsWith(c, "user"), NEW n \in Nat, TypedKept(c, n),
         NEW m, ItemOK(m), m.role = "user", TextsKept(Tip(c).blocks, m.blocks)
  PROVE  TypedKept([c EXCEPT ![Len(c)] = m], n)
  <1> DEFINE p == [c EXCEPT ![Len(c)] = m]
             x == Tip(c).blocks
  <1>1. Succeeds(p, c, x) /\ Tip(p) = m
    BY Replaced
  <1>2. Never(Typed(0), x)
    <2>1. Len(c) \in 1 .. Len(c) /\ c[Len(c)].role = "user"
      BY MessagesShape DEF EndsWith, Tip
    <2>2. QED
      BY <2>1 DEF TypedKept, Tip
  <1> HIDE DEF p, x
  <1>3. \A k \in Nat : /\ Never(Typed(k), x) => Never(Typed(k), Tip(p).blocks)
                       /\ Once(Typed(k), x) => Once(Typed(k), Tip(p).blocks)
    BY <1>1 DEF TextsKept, x
  <1>4. Never(Typed(0), Tip(p).blocks)
    BY <1>2, <1>3
  <1>5. TypedKept(p, n)
    BY <1>1, <1>3, <1>4, TipKeepsTyped
  <1>6. QED
    BY <1>5 DEF p

LEMMA HealKeepsTyped ==
  ASSUME NEW c, ItemsOK(c), NEW n \in Nat, TypedKept(c, n)
  PROVE  TypedKept(Heal(c), n)
  <1>0. /\ Len(c) \in Nat
        /\ c # << >> => Len(c) \in 1 .. Len(c) /\ ItemOK(Tip(c)) /\ ~Tip(c).plain
        /\ \A i \in 1 .. Len(c) : ItemOK(c[i])
    BY MessagesShape DEF ItemsOK, ItemOK
  <1>1. CASE EndsWith(c, "assistant") /\ MissingAnswers(Tip(c), {}) # << >>
    <2> DEFINE ids == AsMessage(Tip(c)).uses \ {}
               y == Answers("synthetic", ids)
               m == User(y)
    <2>1. c # << >> /\ ItemOK(Tip(c)) /\ ~EndsWith(c, "user")
      BY <1>0, <1>1 DEF EndsWith
    <2>2. ids \in SUBSET ToolId /\ IsFiniteSet(ids) /\ MissingAnswers(Tip(c), {}) = y
      BY <2>1, MissingIsUnanswered
    <2>3. Heal(c) = PushItem(c, m)
      BY <1>1, <2>2 DEF Heal
    <2>4. Heal(c) = Append(c, m)
      BY <2>1, <2>3 DEF PushItem
    <2> HIDE DEF ids
    <2>5. ItemOK(m) /\ m.blocks = y /\ \A k : Never(Typed(k), y)
      BY <2>2, AnswersOK, AnswersHoldNoText DEF Results, User
    <2> HIDE DEF m, y
    <2>6. TypedKept(Append(c, m), n)
      BY <2>5, AppendKeepsTyped
    <2>7. QED
      BY <2>4, <2>6
  <1>2. CASE /\ EndsWith(c, "user") /\ Len(c) > 1 /\ c[Len(c) - 1].role = "assistant"
             /\ MissingAnswers(c[Len(c) - 1], IdsOf(Tip(c), Results)) # << >>
    <2> DEFINE a == c[Len(c) - 1]
               answered == IdsOf(Tip(c), Results)
               ids == AsMessage(a).uses \ answered
               x == Tip(c).blocks
               y == Answers("synthetic", ids)
               m == User(y \o x)
    <2>1. c # << >> /\ ItemOK(Tip(c)) /\ Tip(c).role = "user" /\ ~Tip(c).plain /\ ItemOK(a)
          /\ ~EndsWith(c, "assistant")
      BY <1>0, <1>2 DEF EndsWith
    <2>2. ids \in SUBSET ToolId /\ IsFiniteSet(ids) /\ MissingAnswers(a, answered) = y
      BY <2>1, MissingIsUnanswered
    <2>3. Heal(c) = [c EXCEPT ![Len(c)] = m]
      BY <1>2, <2>1, <2>2 DEF Heal, HealedReply
    <2>4. Tip(c) = User(x) /\ x \in Seq(Block) /\ ItemOK(User(x))
      BY <2>1, UserItem
    <2> HIDE DEF ids, a, answered
    <2>5. /\ y \in Seq(Block) /\ (\A b \in ToSet(y) : IsResult(b)) /\ ItemOK(User(y))
          /\ \A k : Never(Typed(k), y)
      BY <2>2, AnswersShape, AnswersOK, AnswersHoldNoText DEF Results
    <2> HIDE DEF y
    <2>6. ResultsFirst(y \o x) /\ StampInPlace(y \o x)
      BY <2>1, <2>4, <2>5, OrderInFront DEF ItemOK
    <2> HIDE DEF x
    <2>7. ItemOK(m) /\ m.role = "user" /\ m.blocks = y \o x
      BY <2>4, <2>5, <2>6, ItemMerged DEF User
    <2>8. TextsKept(x, y \o x)
      BY <2>4, <2>5, OnceConcat DEF TextsKept
    <2>9. TextsKept(Tip(c).blocks, m.blocks)
      BY <2>7, <2>8 DEF x
    <2> HIDE DEF m
    <2>10. TypedKept([c EXCEPT ![Len(c)] = m], n)
      BY <1>2, <2>7, <2>9, ReplaceKeepsTyped
    <2>11. QED
      BY <2>3, <2>10
  <1>3. Heal(c) = c \/ (EndsWith(c, "assistant") /\ MissingAnswers(Tip(c), {}) # << >>)
        \/ (/\ EndsWith(c, "user") /\ Len(c) > 1 /\ c[Len(c) - 1].role = "assistant"
            /\ MissingAnswers(c[Len(c) - 1], IdsOf(Tip(c), Results)) # << >>)
    BY <1>0 DEF Heal, EndsWith
  <1>4. QED
    BY <1>1, <1>2, <1>3

LEMMA StampTipKeepsTyped ==
  ASSUME NEW c, ItemsOK(c), EndsWith(c, "user"), NEW n \in Nat, TypedKept(c, n),
         Tip(c).blocks # << >>
  PROVE  TypedKept(StampTip(c), n)
  <1> DEFINE x == Tip(c).blocks
             z == Stamped(x)
             m == User(z)
  <1>1. ItemOK(Tip(c)) /\ Tip(c).role = "user" /\ c # << >>
    BY MessagesShape DEF EndsWith
  <1>2. Tip(c) = User(x) /\ x \in Seq(Block) /\ ItemOK(User(x))
    BY <1>1, UserItem
  <1>3. ItemOK(m) /\ m.role = "user" /\ m.blocks = z
    BY <1>2, StampedKeeps DEF User
  <1>4. TextsKept(x, z)
    BY <1>2, StampedKeepsTexts
  <1>5. CASE z = x
    <2>1. StampTip(c) = c
      BY <1>5 DEF StampTip
    <2>2. QED
      BY <2>1
  <1>6. CASE z # x
    <2>1. StampTip(c) = WithTip(c, [Tip(c) EXCEPT !.plain = FALSE, !.blocks = z])
      BY <1>1, <1>6 DEF StampTip
    <2>2. [Tip(c) EXCEPT !.plain = FALSE, !.blocks = z] = m
      BY <1>1, WrittenTip
    <2>3. StampTip(c) = [c EXCEPT ![Len(c)] = m]
      BY <2>1, <2>2 DEF WithTip
    <2> HIDE DEF m, z
    <2>4. TypedKept([c EXCEPT ![Len(c)] = m], n)
      BY <1>3, <1>4, ReplaceKeepsTyped
    <2>5. QED
      BY <2>3, <2>4
  <1>7. QED
    BY <1>5, <1>6

LEMMA SentKeepsTyped ==
  ASSUME NEW c, Kept(c), EndsWith(c, "user"), NEW n \in Nat, TypedKept(c, n)
  PROVE  TypedKept(StampTip(Heal(c)), n)
  <1> DEFINE d == Heal(c)
  <1>1. ItemsOK(d) /\ EndsWith(d, "user")
    BY HealIsHeal DEF Kept
  <1>2. Tip(d).blocks # << >>
    BY SentHistory
  <1>3. TypedKept(d, n)
    BY HealKeepsTyped DEF Kept
  <1> HIDE DEF d
  <1>4. TypedKept(StampTip(d), n)
    BY <1>1, <1>2, <1>3, StampTipKeepsTyped
  <1>5. QED
    BY <1>4 DEF d

(* An opening message holds what was typed, once, and no other text. *)
LEMMA FramedHoldsText ==
  ASSUME NEW input, input # "string", NEW delta \in BOOLEAN, typed \in Nat
  PROVE  LET x == Framed(input, delta).blocks
         IN  /\ Once(Typed(typed + 1), x)
             /\ \A k \in Nat : k # typed + 1 => Never(Typed(k), x)
  <1> DEFINE fresh == ~ \E i \in DOMAIN items : items[i].role = "user"
             first == IF fresh THEN << B("standing") >> ELSE << >>
             second == IF delta THEN << B("delta") >> ELSE << >>
             text == Typed(typed + 1)
             lead == first \o second
             last == << text >>
             x == lead \o last
             m == Framed(input, delta)
  <1>1. /\ B("standing") \in Block /\ B("delta") \in Block /\ text \in Block
        /\ \A k : Typed(k) # B("standing") /\ Typed(k) # B("delta")
        /\ \A k \in Nat : k # typed + 1 => Typed(k) # text
    BY DEF B, Block, Typed, Reminders
  <1>2. first \in Seq(Block) /\ second \in Seq(Block) /\ last \in Seq(Block)
    BY <1>1
  <1>3. ToSet(first) \subseteq {B("standing")} /\ ToSet(second) \subseteq {B("delta")}
    BY SingleBlock, NoBlocks
  <1>4. m.blocks = x
    BY DEF Framed, User
  <1>5. DOMAIN last = 1 .. 1 /\ last[1] = text
    OBVIOUS
  <1> HIDE DEF first, second, text, last
  <1>6. lead \in Seq(Block) /\ ToSet(lead) = ToSet(first) \cup ToSet(second)
    BY <1>2, ConcatShape, ConcatElements
  <1> HIDE DEF lead
  <1>7. \A k : Never(Typed(k), lead)
    BY <1>1, <1>3, <1>6, NeverByElements
  <1>8. Once(text, last)
    BY <1>5 DEF Once
  <1>9. \A k \in Nat : k # typed + 1 => Never(Typed(k), last)
    BY <1>1, <1>5 DEF Never
  <1>10. Once(text, x)
    BY <1>2, <1>6, <1>7, <1>8, OnceConcat DEF text
  <1>11. \A k \in Nat : k # typed + 1 => Never(Typed(k), x)
    BY <1>2, <1>6, <1>7, <1>9, OnceConcat
  <1> HIDE DEF x, m
  <1>12. QED
    BY <1>4, <1>10, <1>11 DEF m, text

(* Pushed on its own or merged into a message that waits, it is there. *)
LEMMA PushGainsTyped ==
  ASSUME NEW c, ItemsOK(c), NEW n \in Nat, TypedKept(c, n),
         NEW m, ItemOK(m), m.role = "user",
         \A b \in ToSet(m.blocks) : ~IsResult(b) /\ b.kind # "stamp",
         Once(Typed(n + 1), m.blocks), \A k \in Nat : k # n + 1 => Never(Typed(k), m.blocks)
  PROVE  TypedKept(PushItem(c, m), n + 1)
  <1>1. CASE EndsWith(c, "user")
    <2> DEFINE x == Tip(c).blocks
               y == m.blocks
               new == User(x \o y)
               p == [c EXCEPT ![Len(c)] = new]
    <2>1. ItemOK(Tip(c)) /\ Tip(c).role = "user" /\ Len(c) \in 1 .. Len(c)
      BY <1>1, MessagesShape DEF EndsWith
    <2>2. /\ Tip(c) = User(x) /\ x \in Seq(Block) /\ m = User(y) /\ y \in Seq(Block)
          /\ ItemOK(User(x)) /\ ItemOK(User(y))
      BY <2>1, UserItem
    <2>3. PushItem(c, m) = p
      BY <1>1 DEF PushItem, Tip
    <2>4. ResultsFirst(x \o y) /\ StampInPlace(x \o y)
      BY <2>1, <2>2, OrderBehind DEF ItemOK
    <2>5. ItemOK(new) /\ new.role = "user" /\ new.blocks = x \o y
      BY <2>2, <2>4, ItemMerged DEF User
    <2>6. Never(Typed(0), x)
      BY <2>1 DEF TypedKept, Tip
    <2> HIDE DEF new
    <2>7. Succeeds(p, c, x) /\ Tip(p) = new
      BY <1>1, <2>5, Replaced
    <2> HIDE DEF p, x, y
    <2>8. \A k \in Nat : k # n + 1 => /\ Never(Typed(k), x) => Never(Typed(k), Tip(p).blocks)
                                      /\ Once(Typed(k), x) => Once(Typed(k), Tip(p).blocks)
      BY <2>2, <2>5, <2>7, OnceConcat DEF y
    <2>9. Never(Typed(n + 1), x) => Once(Typed(n + 1), Tip(p).blocks)
      BY <2>2, <2>5, <2>7, OnceConcat DEF y
    <2>10. TypedKept(p, n + 1)
      BY <2>6, <2>7, <2>8, <2>9, TipGainsTyped
    <2>11. QED
      BY <2>3, <2>10
  <1>2. CASE ~EndsWith(c, "user")
    <2> DEFINE x == << >>
               p == Append(c, m)
    <2>1. Succeeds(p, c, x) /\ Tip(p) = m
      BY Appended
    <2>2. \A b : Never(b, x) /\ ~Once(b, x)
      BY DEF Never, Once
    <2>3. PushItem(c, m) = p
      BY <1>2 DEF PushItem
    <2> HIDE DEF p, x
    <2>4. \A k \in Nat : k # n + 1 => /\ Never(Typed(k), x) => Never(Typed(k), Tip(p).blocks)
                                      /\ Once(Typed(k), x) => Once(Typed(k), Tip(p).blocks)
      BY <2>1, <2>2
    <2>5. TypedKept(p, n + 1)
      BY <2>1, <2>2, <2>4, TipGainsTyped
    <2>6. QED
      BY <2>3, <2>5
  <1>3. QED
    BY <1>1, <1>2

TypedInv == IndInv /\ TypedKept(items, typed)

LEMMA OpenKeepsTyped ==
  ASSUME TypedInv, OwnSettings, NEW input \in Inputs, NEW delta \in BOOLEAN, NEW on \in BOOLEAN,
         Open(input, delta, on)
  PROVE  TypedKept(items', typed')
  <1>1. /\ typed \in Nat /\ Kept(items) /\ ItemsOK(items) /\ WellKept(Messages(items))
        /\ TipFillable(Messages(items)) /\ Messages(items) \in Seq(Message) /\ TypedKept(items, typed)
    BY MessagesShape DEF TypedInv, IndInv, TypeOK, Kept
  <1>2. CASE input = "none" /\ EndsWith(items, "user") /\ Send(items, on) /\ UNCHANGED typed
    <2>1. items' = StampTip(Heal(items)) /\ typed' = typed
      BY <1>2 DEF Send
    <2>2. TypedKept(StampTip(Heal(items)), typed)
      BY <1>1, <1>2, SentKeepsTyped
    <2>3. QED
      BY <2>1, <2>2
  <1>3. CASE input # "none" /\ Send(PushItem(items, Framed(input, delta)), on) /\ typed' = typed + 1
    <2> DEFINE m == Framed(input, delta)
               d == PushItem(items, m)
               n == UserMessage(TRUE, {})
               h == Messages(items)
    <2>1. input # "string"
      BY DEF OwnSettings
    <2>2. /\ ItemOK(m) /\ m.role = "user" /\ AsMessage(m) = n
          /\ \A b \in ToSet(m.blocks) : ~IsResult(b) /\ b.kind # "stamp"
          /\ items = << >> => m.blocks # << >> /\ m.blocks[1] = B("standing")
      BY <1>1, <2>1, FramedShape
    <2>3. Once(Typed(typed + 1), m.blocks) /\ \A k \in Nat : k # typed + 1 => Never(Typed(k), m.blocks)
      BY <1>1, <2>1, FramedHoldsText
    <2>4. n \in Message /\ n.role = "user" /\ n.uses = {} /\ n.results = {} /\ n.text
      BY MessageType DEF UserMessage
    <2> HIDE DEF m, n, h
    <2>5. /\ ItemsOK(d) /\ d # << >> /\ EndsWith(d, "user") /\ Messages(d) = Push(h, n)
          /\ items # << >> /\ StandingFirst(items) => StandingFirst(d)
          /\ items = << >> => d = << m >>
      BY <1>1, <2>2, PushItemIsPush DEF h
    <2>6. TypedKept(d, typed + 1)
      BY <1>1, <2>2, <2>3, PushGainsTyped
    <2> HIDE DEF d
    <2>7. StandingFirst(d)
      BY <1>1, <2>2, <2>5 DEF Kept, StandingFirst
    <2>8. WellKept(Push(h, n)) /\ TipFillable(Push(h, n))
      BY <1>1, <2>4, PushUserKeeps DEF h
    <2>9. Kept(d)
      BY <2>5, <2>7, <2>8 DEF Kept
    <2>10. items' = StampTip(Heal(d)) /\ typed' = typed + 1
      BY <1>3 DEF Send, d, m
    <2>11. typed + 1 \in Nat
      BY <1>1
    <2>12. TypedKept(StampTip(Heal(d)), typed + 1)
      BY <2>5, <2>6, <2>9, <2>11, SentKeepsTyped
    <2>13. QED
      BY <2>10, <2>12
  <1>4. QED
    BY <1>2, <1>3 DEF Open

LEMMA ReplyKeepsTyped ==
  ASSUME TypedInv, OwnSettings, NEW mode \in CompactModes, NEW text \in BOOLEAN, NEW uses \in UseSeqs,
         NEW stop \in {"tool_use", "other"}, Reply(mode, text, uses, stop)
  PROVE  TypedKept(items', typed')
  <1> DEFINE blocks == ReplyBlocks(mode, text, uses)
             m == Assistant(blocks)
  <1>1. /\ mode = "pause" => ~text /\ uses = << >>
        /\ items' = IF blocks = << >> THEN items ELSE PushItem(items, m)
        /\ typed' = typed
    BY DEF Reply
  <1>2. mode \in {"no", "pause"}
    BY DEF OwnSettings
  <1>3. ItemOK(m) /\ \A k \in Nat \ {0} : Typed(k) \notin ToSet(blocks)
    BY <1>1, <1>2, ReplyShape
  <1>4. m.role = "assistant" /\ m.blocks = blocks
    BY DEF Assistant
  <1>5. typed \in Nat /\ ItemsOK(items) /\ TypedKept(items, typed)
    BY DEF TypedInv, IndInv, TypeOK, Kept
  <1>6. PushItem(items, m) = Append(items, m)
    BY <1>4 DEF PushItem
  <1> HIDE DEF blocks, m
  <1>7. \A k \in Nat \ {0} : Never(Typed(k), m.blocks)
    BY <1>3, <1>4, NeverByElements
  <1>8. TypedKept(Append(items, m), typed)
    BY <1>3, <1>4, <1>5, <1>7, AppendKeepsTyped
  <1>9. QED
    BY <1>1, <1>5, <1>6, <1>8

LEMMA DeliverKeepsTyped ==
  ASSUME TypedInv, NEW skipped \in SUBSET ToolId, NEW on \in BOOLEAN, Deliver(skipped, on), IndInv'
  PROVE  TypedKept(items', typed')
  <1> DEFINE h == Messages(items)
             uses == IdsOf(Tip(items), {"use"})
             given == uses \ skipped
             n == UserMessage(FALSE, given)
             m == User(Answers("result", given))
             d == PushItem(items, m)
  <1>1. /\ stage = "acting" /\ typed' = typed
        /\ Send(d, on) \/ items' = d
    BY DEF Deliver
  <1>2. /\ Kept(items) /\ ItemsOK(items) /\ EndsWith(items, "assistant") /\ ItemOK(Tip(items)) /\ Tip(items) \in Item
        /\ uses # {} /\ typed \in Nat /\ TypedKept(items, typed) /\ ~EndsWith(items, "user")
        /\ h \in Seq(Message) /\ EndsWith(h, "assistant") /\ Tip(h) = AsMessage(Tip(items))
    <2>1. Kept(items) /\ ItemsOK(items) /\ EndsWith(items, "assistant") /\ uses # {} /\ typed \in Nat /\ TypedKept(items, typed)
      BY <1>1 DEF TypedInv, IndInv, StageOK, TypeOK, Kept
    <2>2. /\ ItemOK(Tip(items)) /\ h \in Seq(Message) /\ EndsWith(h, "assistant") /\ Tip(h) = AsMessage(Tip(items))
      BY <2>1, MessagesShape DEF EndsWith
    <2>3. QED
      BY <2>1, <2>2 DEF EndsWith, ItemOK
  <1>3. given \in SUBSET ToolId /\ IsFiniteSet(given)
    <2>1. uses \in SUBSET ToolId /\ IsFiniteSet(uses)
      BY <1>2, IdsType, IdsFinite
    <2> HIDE DEF uses
    <2>2. QED
      BY <2>1, FS_Subset
  <1>4. given \subseteq Tip(h).uses /\ Tip(h).uses # {}
    BY <1>2, ViewType
  <1> HIDE DEF given
  <1>5. /\ ItemOK(m) /\ m.role = "user" /\ AsMessage(m) = n
        /\ \A k : Never(Typed(k), m.blocks)
    <2>1. ItemOK(m) /\ \A k : Never(Typed(k), Answers("result", given))
      BY <1>3, AnswersOK, AnswersHoldNoText DEF Results
    <2>2. AsMessage(m) = n
      BY <1>3, AnswersView
    <2>3. QED
      BY <2>1, <2>2 DEF User
  <1>6. n \in Message /\ n.role = "user" /\ n.uses = {} /\ n.results = given
    BY <1>3, MessageType DEF UserMessage
  <1>7. d = Append(items, m)
    BY <1>2 DEF PushItem
  <1> HIDE DEF m, n, h
  <1>8. TypedKept(d, typed)
    BY <1>2, <1>5, <1>7, AppendKeepsTyped
  <1>9. /\ ItemsOK(d) /\ EndsWith(d, "user")
        /\ Messages(d) = Push(h, n) /\ (StandingFirst(items) => StandingFirst(d))
    BY <1>2, <1>5, PushItemIsPush DEF h, EndsWith
  <1> HIDE DEF d
  <1>10. Kept(d)
    <2>1. WellKept(h) /\ TipFillable(h) /\ StandingFirst(items)
      BY <1>2 DEF Kept, h
    <2>2. WellKept(Push(h, n)) /\ TipFillable(Push(h, n))
      BY <1>2, <1>4, <1>6, <2>1, PushUserKeeps
    <2>3. QED
      BY <1>9, <2>1, <2>2 DEF Kept
  <1>11. CASE Send(d, on)
    <2>1. items' = StampTip(Heal(d))
      BY <1>11 DEF Send
    <2>2. TypedKept(StampTip(Heal(d)), typed)
      BY <1>2, <1>8, <1>9, <1>10, SentKeepsTyped
    <2>3. QED
      BY <1>1, <2>1, <2>2
  <1>12. CASE items' = d
    BY <1>1, <1>8, <1>12
  <1>13. QED
    BY <1>1, <1>11, <1>12

LEMMA StepKeepsTyped ==
  ASSUME OwnSettings, TypedInv, [Next]_vars
  PROVE  TypedInv'
  <1>1. IndInv /\ IndInv' /\ CompactEnabled \subseteq BOOLEAN
    BY StepKeeps, ParametersAssumption DEF TypedInv
  <1>2. /\ typed \in Nat /\ Kept(items) /\ ItemsOK(items) /\ TypedKept(items, typed)
    BY DEF TypedInv, IndInv, TypeOK, Kept
  <1>3. ASSUME NEW input \in Inputs, NEW delta \in BOOLEAN, NEW on \in CompactEnabled,
               Open(input, delta, on)
        PROVE  TypedKept(items', typed')
    BY <1>1, <1>3, OpenKeepsTyped
  <1>4. ASSUME NEW mode \in CompactModes, NEW text \in BOOLEAN, NEW uses \in UseSeqs,
               NEW stop \in {"tool_use", "other"}, Reply(mode, text, uses, stop)
        PROVE  TypedKept(items', typed')
    BY <1>4, ReplyKeepsTyped
  <1>5. ASSUME NEW on \in CompactEnabled, EmptyToolUse(on)
        PROVE  TypedKept(items', typed')
    <2>1. EndsWith(items, "user") /\ items' = StampTip(Heal(items)) /\ typed' = typed
      BY <1>1, <1>5 DEF EmptyToolUse, Send, IndInv, StageOK
    <2>2. TypedKept(StampTip(Heal(items)), typed)
      BY <1>2, <2>1, SentKeepsTyped
    <2>3. QED
      BY <2>1, <2>2
  <1>6. ASSUME NEW skipped \in SUBSET ToolId, NEW on \in CompactEnabled, Deliver(skipped, on)
        PROVE  TypedKept(items', typed')
    BY <1>1, <1>6, DeliverKeepsTyped
  <1>7. ASSUME Reload PROVE TypedKept(items', typed')
    <2>1. items' = Heal(items) /\ typed' = typed
      BY <1>7 DEF Reload
    <2>2. TypedKept(Heal(items), typed)
      BY <1>2, HealKeepsTyped
    <2>3. QED
      BY <2>1, <2>2
  <1>8. ASSUME Fails \/ UNCHANGED vars PROVE TypedKept(items', typed')
    <2>1. items' = items /\ typed' = typed
      BY <1>8 DEF Fails, vars
    <2>2. QED
      BY <1>2, <2>1
  <1>9. TypedKept(items', typed')
    BY <1>3, <1>4, <1>5, <1>6, <1>7, <1>8 DEF Next
  <1>10. QED
    BY <1>1, <1>9 DEF TypedInv

LEMMA TypedInvIsKept == TypedInv => TypedTextKept
  <1> SUFFICES ASSUME TypedInv PROVE TypedTextKept
    OBVIOUS
  <1>1. /\ typed \in Nat /\ items \in Seq(Item) /\ DOMAIN items = 1 .. Len(items)
        /\ \A i \in 1 .. Len(items) : items[i] \in Item
    BY LenProperties DEF TypedInv, IndInv, TypeOK
  <1>2. TypedKept(items, typed)
    BY DEF TypedInv
  <1>3. ASSUME NEW n \in 1 .. typed
        PROVE  \E place \in PlacesOf(Typed(n), items) : PlacesOf(Typed(n), items) = {place}
    <2> DEFINE b == Typed(n)
               Places == PlacesOf(b, items)
    <2>1. PICK i \in 1 .. Len(items) : /\ Once(b, items[i].blocks)
                                       /\ \A k \in 1 .. Len(items) : k # i => Never(b, items[k].blocks)
      BY <1>2 DEF TypedKept, OnceIn
    <2>2. PICK j \in DOMAIN items[i].blocks :
            items[i].blocks[j] = b /\ \A k \in DOMAIN items[i].blocks : items[i].blocks[k] = b => k = j
      BY <2>1 DEF Once
    <2> HIDE DEF b
    <2>3. << i, j >> \in Places
      BY <1>1, <2>2 DEF PlacesOf
    <2>4. ASSUME NEW place \in Places PROVE place = << i, j >>
      <3>1. PICK k \in DOMAIN items : \E l \in DOMAIN items[k].blocks :
              items[k].blocks[l] = b /\ place = << k, l >>
        BY DEF PlacesOf
      <3>2. k = i
        BY <1>1, <2>1, <3>1 DEF Never
      <3>3. QED
        BY <2>2, <3>1, <3>2
    <2> HIDE DEF Places
    <2>5. Places = {<< i, j >>}
      BY <2>3, <2>4
    <2>6. QED
      BY <2>3, <2>5 DEF Places, b
  <1>4. ASSUME NEW i \in DOMAIN items, NEW j \in DOMAIN items[i].blocks,
               items[i].role = "user", items[i].blocks[j].kind = "text"
        PROVE  items[i].blocks[j].id \in 1 .. typed
    <2> DEFINE b == items[i].blocks[j]
    <2>1. b \in Block
      BY <1>1, ItemParts, ElementOfSeq
    <2>2. b.id \in Nat /\ b = Typed(b.id)
      BY <1>4, <2>1 DEF Block, Typed, Reminders, Results, Compactions
    <2>3. b.id # 0
      BY <1>1, <1>2, <1>4, <2>2 DEF TypedKept, Never
    <2>4. ~(b.id > typed)
      BY <1>1, <1>2, <2>2 DEF TypedKept, NeverIn, Never
    <2> HIDE DEF b
    <2>5. b.id \in 1 .. typed
      BY <1>1, <2>2, <2>3, <2>4
    <2>6. QED
      BY <2>5 DEF b
  <1>5. QED
    BY <1>3, <1>4 DEF TypedTextKept

(* What the user typed is in the history exactly once, at every point of   *)
(* every query, and no other text is a user's.                             *)
(* [Conversation.push, healDanglingToolUse, the stamp in TurnRunner.run]   *)
THEOREM TypedTextAlwaysKept ==
  ASSUME OwnSettings
  PROVE  Spec => []TypedTextKept
  <1>1. Init => TypedInv
    <2> SUFFICES ASSUME Init PROVE TypedKept(items, typed)
      BY InitIndInv DEF TypedInv
    <2>1. Len(items) = 0 /\ typed = 0
      BY DEF Init
    <2>2. QED
      BY <2>1 DEF TypedKept, NeverIn
  <1>2. TypedInv /\ [Next]_vars => TypedInv'
    BY StepKeepsTyped
  <1>3. TypedInv => TypedTextKept
    BY TypedInvIsKept
  <1>4. QED
    BY <1>1, <1>2, <1>3, PTL DEF Spec
=============================================================================
