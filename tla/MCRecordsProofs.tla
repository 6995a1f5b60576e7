---------------------------- MODULE MCRecordsProofs ----------------------------
(***************************************************************************)
(* What is proved of the stores that MCRecords puts beside one another, for *)
(* its own specification: the sweep of the history index, the migrations    *)
(* of a schema, and the memory store.                                       *)
(***************************************************************************)
EXTENDS MCRecords, FiniteSetTheorems, WellFoundedInduction, SequenceTheorems, TLAPS

-----------------------------------------------------------------------------
(* Of numbers. *)
LEMMA LeastOf == ASSUME NEW S \in SUBSET Nat, S # {} PROVE \E least \in S : \A n \in S : least <= n
<1>1. \E least \in S : \A n \in S : <<n, least>> \notin OpToRel(<, Nat)
  BY NatLessThanWellFounded, WFMin
<1>2. PICK least \in S : \A n \in S : <<n, least>> \notin OpToRel(<, Nat)
  BY <1>1
<1>3. ASSUME NEW n \in S PROVE least <= n
  <2>1. n \in Nat /\ least \in Nat /\ ~(n < least)
    BY <1>2 DEF OpToRel
  <2> QED
    BY <2>1
<1> QED
  BY <1>2, <1>3

LEMMA GreatestOf ==
  ASSUME NEW n \in Nat, NEW S \in SUBSET (1..n), S # {} PROVE \E greatest \in S : \A m \in S : greatest >= m
<1> DEFINE bounds == {b \in Nat : \A m \in S : m <= b}
<1>1. n \in bounds
  OBVIOUS
<1>2. PICK least \in bounds : \A b \in bounds : least <= b
  BY <1>1, LeastOf
<1>3. least \in S
  <2> SUFFICES ASSUME least \notin S PROVE FALSE
    OBVIOUS
  <2>1. least > 0
    <3>1. PICK m : m \in S
      OBVIOUS
    <3>2. m \in 1..n
      BY <3>1
    <3> QED
      BY <1>2, <3>1, <3>2
  <2>2. least - 1 \in bounds
    BY <1>2, <2>1
  <2> QED
    BY <1>2, <2>2
<1> QED
  BY <1>2, <1>3

LEMMA CardinalityIsOne == \A S : Kept!Cardinality(S) = Cardinality(S) /\ Index!Cardinality(S) = Cardinality(S)
  BY DEF Kept!Cardinality, Index!Cardinality, Cardinality

-----------------------------------------------------------------------------
(* The sweep.  What is collapsed is of a batch, and a batch is of rows that  *)
(* are there: so the links say of every row whether its words were touched.  *)
Terms == UNION {Index!Tokenize(text) : text \in Texts}

SweepTypes ==
  /\ messages \in Seq(Texts) /\ blocksFts \in Seq(SUBSET Terms) /\ Len(blocksFts) = Len(messages)
  /\ batch \in [Processes -> SUBSET Index!Rows]

SweepInv == SweepTypes /\ Index!UnfoldedIndexed /\ Index!DeletesMatch

LEMMA SweepInit == ASSUME Index!Init PROVE SweepInv
<1> USE DEF Index!Init
<1>1. SweepTypes
  BY DEF SweepTypes, Index!Rows
<1>2. Index!UnfoldedIndexed /\ Index!DeletesMatch
  BY DEF Index!UnfoldedIndexed, Index!DeletesMatch, Index!Rows
<1> QED
  BY <1>1, <1>2 DEF SweepInv

LEMMA InsertKeeps == ASSUME SweepInv, NEW text \in Texts, Index!Insert(text) PROVE SweepInv'
<1> USE DEF SweepInv, SweepTypes, Index!Insert, Index!Rows
<1>1. Index!Tokenize(text) \in SUBSET Terms
  BY DEF Terms
<1>2. /\ messages' \in Seq(Texts) /\ blocksFts' \in Seq(SUBSET Terms) /\ Len(messages') = Len(messages) + 1
      /\ Len(blocksFts') = Len(messages')
      /\ \A row \in 1..Len(messages) : messages'[row] = messages[row] /\ blocksFts'[row] = blocksFts[row]
      /\ messages'[Len(messages) + 1] = text /\ blocksFts'[Len(messages) + 1] = Index!Tokenize(text)
  BY <1>1
<1>3. DOMAIN messages = 1..Len(messages) /\ DOMAIN messages' = 1..(Len(messages) + 1)
  BY <1>2
<1>4. SweepTypes'
  BY <1>2, <1>3
<1>5. Index!UnfoldedIndexed'
  <2> SUFFICES ASSUME NEW row \in 1..(Len(messages) + 1), row \notin DOMAIN duplicates
               PROVE  blocksFts'[row] = Index!Tokenize(messages'[row])
    BY <1>3 DEF Index!UnfoldedIndexed
  <2>1. CASE row \in 1..Len(messages)
    BY <1>2, <1>3, <2>1 DEF Index!UnfoldedIndexed
  <2>2. CASE row = Len(messages) + 1
    BY <1>2, <2>2
  <2> QED
    BY <2>1, <2>2
<1>6. Index!DeletesMatch'
  BY DEF Index!DeletesMatch
<1> QED
  BY <1>4, <1>5, <1>6

LEMMA ReadKeeps == ASSUME SweepInv, NEW p \in Processes, Index!ReadBatch(p) PROVE SweepInv'
<1> USE DEF SweepInv, SweepTypes, Index!ReadBatch, Index!Rows, Index!store
<1>1. Index!NextBatch(p) \subseteq DOMAIN messages
  BY DEF Index!NextBatch
<1>2. SweepTypes'
  BY <1>1
<1>3. Index!UnfoldedIndexed' /\ Index!DeletesMatch'
  BY DEF Index!UnfoldedIndexed, Index!DeletesMatch
<1> QED
  BY <1>2, <1>3

(* A row that is collapsed gets a link or has one; the others keep their      *)
(* words.  Text that is not what was indexed is a row's that had been folded. *)
LEMMA DeduplicateKeeps == ASSUME SweepInv, NEW p \in Processes, Index!Deduplicate(p) PROVE SweepInv'
<1> USE DEF SweepInv, SweepTypes, Index!Rows
<1> DEFINE collapsed == {items[p][i] : i \in Index!Copies(p)}
<1>1. collapsed \subseteq DOMAIN messages
  BY DEF Index!Copies
<1>2. PICK canonicalOf \in {Index!Folds(p)} :
        /\ DOMAIN canonicalOf = collapsed /\ duplicates' = Index!Linked(duplicates, canonicalOf)
        /\ blocksFts' = [row \in DOMAIN messages |->
                           IF row \in collapsed THEN Index!Collapse(row, canonicalOf[row]) ELSE blocksFts[row]]
        /\ again' = again \cup (collapsed \cap DOMAIN duplicates)
        /\ misdeleted' = misdeleted \cup {row \in collapsed : blocksFts[row] # Index!Tokenize(messages[row])}
        /\ UNCHANGED <<messages, batch>>
  BY DEF Index!Deduplicate
<1> HIDE DEF collapsed
<1>3. DOMAIN messages = 1..Len(messages) /\ DOMAIN blocksFts = 1..Len(messages)
  OBVIOUS
<1>4. \A row \in DOMAIN messages : blocksFts'[row] \in SUBSET Terms
  <2>1. \A row \in DOMAIN messages : Index!Tokenize(messages[row]) \in SUBSET Terms
    BY DEF Terms
  <2>2. \A row \in DOMAIN messages : Index!Collapse(row, canonicalOf[row]) \subseteq Index!Tokenize(messages[row])
    BY DEF Index!Collapse
  <2> QED
    BY <1>2, <1>3, <2>1, <2>2
<1>5. SweepTypes'
  <2>1. blocksFts' \in Seq(SUBSET Terms) /\ Len(blocksFts') = Len(messages)
    <3>1. blocksFts' \in [1..Len(messages) -> SUBSET Terms]
      BY <1>2, <1>3, <1>4
    <3> QED
      BY <3>1, Len(messages) \in Nat
  <2> QED
    BY <1>2, <2>1
<1>6. (DOMAIN duplicates)' = DOMAIN duplicates \cup collapsed
  BY <1>2 DEF Index!Linked
<1>7. Index!UnfoldedIndexed'
  BY <1>2, <1>3, <1>6 DEF Index!UnfoldedIndexed
<1>8. Index!DeletesMatch'
  BY <1>1, <1>2, <1>6 DEF Index!UnfoldedIndexed, Index!DeletesMatch
<1> QED
  BY <1>5, <1>7, <1>8

LEMMA SweepStepKeeps == ASSUME SweepInv, Index!Next PROVE SweepInv'
<1> USE DEF SweepInv, SweepTypes, Index!Rows, Index!UnfoldedIndexed, Index!DeletesMatch, Index!store, Index!lease
<1>1. ASSUME NEW p \in Processes, Index!Pass(p) PROVE SweepInv'
  <2>1. ASSUME Index!Acquire(p) PROVE SweepInv'
    BY <2>1 DEF Index!Acquire
  <2>2. ASSUME Index!Release(p) PROVE SweepInv'
    BY <2>2 DEF Index!Release, Index!Ends
  <2> QED
    BY <1>1, <2>1, <2>2, ReadKeeps, DeduplicateKeeps DEF Index!Pass
<1>2. ASSUME Index!LeaseRunsOut PROVE SweepInv'
  BY <1>2 DEF Index!LeaseRunsOut
<1>3. ASSUME NEW p \in Processes, NEW as, Index!Stops(p, as) PROVE SweepInv'
  BY <1>3 DEF Index!Stops, Index!Ends
<1> QED
  BY <1>1, <1>2, <1>3, InsertKeeps DEF Index!Next

-----------------------------------------------------------------------------
(* The sweep while no two passes overlapped. *)
LEMMA MinIsLeast ==
  ASSUME NEW S \in SUBSET Nat, S # {} PROVE Index!Min(S) \in S /\ \A n \in S : Index!Min(S) <= n
  BY LeastOf DEF Index!Min

LEMMA MaxIsGreatest ==
  ASSUME NEW n \in Nat, NEW S \in SUBSET (1..n), S # {} PROVE Index!Max(S) \in S /\ \A m \in S : Index!Max(S) >= m
  BY GreatestOf DEF Index!Max

(* A row without a link is its own canonical. *)
LEMMA UnlinkedIsCanonical ==
  ASSUME NEW links, NEW row, row \notin DOMAIN links, Index!Cardinality(DOMAIN links) \in Nat
  PROVE  Index!ResolveCanonical(links, row) = row
<1> DEFINE n == Index!Cardinality(DOMAIN links)
           Hop(f) == [k \in 0..n |-> IF k = 0 THEN row ELSE IF f[k - 1] \in DOMAIN links THEN links[f[k - 1]] ELSE f[k - 1]]
           hop == CHOOSE f : f = Hop(f)
<1>1. Index!ResolveCanonical(links, row) = hop[n]
  BY DEF Index!ResolveCanonical
<1> HIDE DEF n
<1>2. n \in Nat
  BY DEF n
<1>3. [k \in 0..n |-> row] = Hop([k \in 0..n |-> row])
  BY <1>2
<1>4. hop = Hop(hop)
  BY <1>3
<1> HIDE DEF hop
<1>5. \A k \in 0..n : hop[k] = row
  <2> DEFINE astray == {k \in 0..n : hop[k] # row}
  <2> SUFFICES ASSUME astray # {} PROVE FALSE
    OBVIOUS
  <2>1. PICK k \in astray : \A other \in astray : k <= other
    <3>1. astray \subseteq Nat
      BY <1>2
    <3> HIDE DEF astray
    <3> QED
      BY <3>1, LeastOf
  <2>2. k \in 0..n /\ k # 0
    BY <1>2, <1>4, <2>1
  <2>3. k - 1 \in 0..n /\ k - 1 \notin astray
    BY <1>2, <2>1, <2>2
  <2> QED
    BY <1>2, <1>4, <2>1, <2>2, <2>3
<1> QED
  BY <1>1, <1>2, <1>5

-----------------------------------------------------------------------------
(* Which rows of G a row of it is merged with, and whether it has to fold when *)
(* those of B are new.                                                        *)
Closed(text, G, S) == \A a \in S, b \in G : Index!AreCandidates(text[a], text[b]) => b \in S
Reached(text, G, d) == {e \in G : \A S \in SUBSET G : d \in S /\ Closed(text, G, S) => e \in S}
MustFold(text, G, B, d) == d \in B /\ \E e \in Reached(text, G, d) : e \notin B \/ e < d

(* The rows of G one after another, those of B last and in their order. *)
Arranged(seq, G, B) ==
  /\ seq \in Seq(G)
  /\ \A i, j \in DOMAIN seq : seq[i] = seq[j] => i = j
  /\ \A row \in G : \E i \in DOMAIN seq : seq[i] = row
  /\ \A i, j \in DOMAIN seq : i < j /\ seq[i] \in B => seq[j] \in B /\ seq[i] < seq[j]

LEMMA FindIsLeast ==
  ASSUME NEW n \in Nat, NEW texts, DOMAIN texts = 1..n, NEW i \in 1..n
  PROVE  /\ Index!Find(texts, i) \in Reached(texts, 1..n, i)
         /\ \A j \in Reached(texts, 1..n, i) : Index!Find(texts, i) <= j
<1>1. Index!Find(texts, i) = Index!Min(Reached(texts, 1..n, i))
  BY DEF Index!Find, Reached, Closed
<1>2. Reached(texts, 1..n, i) \in SUBSET Nat /\ i \in Reached(texts, 1..n, i)
  BY DEF Reached
<1> QED
  BY <1>1, <1>2, MinIsLeast

LEMMA RootIsRoot ==
  ASSUME NEW n \in Nat, NEW texts, DOMAIN texts = 1..n, NEW i \in 1..n
  PROVE  LET root == Index!Find(texts, i)
         IN root \in 1..n /\ root <= i /\ Index!Find(texts, root) = root
<1> DEFINE root == Index!Find(texts, i)
<1>1. root \in Reached(texts, 1..n, i) /\ \A j \in Reached(texts, 1..n, i) : root <= j
  BY FindIsLeast
<1> HIDE DEF root
<1>2. root \in 1..n /\ i \in Reached(texts, 1..n, i)
  BY <1>1 DEF Reached
<1>3. Reached(texts, 1..n, root) \subseteq Reached(texts, 1..n, i) /\ root \in Reached(texts, 1..n, root)
  BY <1>1, <1>2 DEF Reached
<1>4. Index!Find(texts, root) \in Reached(texts, 1..n, root) /\ Index!Find(texts, root) <= root
  BY <1>2, <1>3, FindIsLeast
<1>5. Index!Find(texts, root) \in 1..n /\ root <= Index!Find(texts, root)
  BY <1>1, <1>3, <1>4 DEF Reached
<1> QED
  BY <1>1, <1>2, <1>4, <1>5 DEF root

(* Reaching is by the rows, whatever their places. *)
LEMMA ReachedByPlace ==
  ASSUME NEW G, NEW B, NEW text, NEW seq, Arranged(seq, G, B), NEW i \in DOMAIN seq, NEW j \in DOMAIN seq,
         NEW texts, \A k \in DOMAIN seq : texts[k] = text[seq[k]]
  PROVE  j \in Reached(texts, DOMAIN seq, i) <=> seq[j] \in Reached(text, G, seq[i])
<1>1. \A k \in DOMAIN seq : seq[k] \in G
  BY DEF Arranged
<1>2. ASSUME j \in Reached(texts, DOMAIN seq, i) PROVE seq[j] \in Reached(text, G, seq[i])
  <2> SUFFICES ASSUME NEW S \in SUBSET G, seq[i] \in S, Closed(text, G, S) PROVE seq[j] \in S
    BY <1>1 DEF Reached
  <2> DEFINE places == {k \in DOMAIN seq : seq[k] \in S}
  <2>1. i \in places /\ Closed(texts, DOMAIN seq, places)
    BY <1>1 DEF Closed
  <2> QED
    BY <1>2, <2>1 DEF Reached
<1>3. ASSUME seq[j] \in Reached(text, G, seq[i]) PROVE j \in Reached(texts, DOMAIN seq, i)
  <2> SUFFICES ASSUME NEW S \in SUBSET DOMAIN seq, i \in S, Closed(texts, DOMAIN seq, S) PROVE j \in S
    BY DEF Reached
  <2> DEFINE taken == {seq[k] : k \in S}
  <2>1. taken \in SUBSET G /\ seq[i] \in taken
    BY <1>1
  <2>2. Closed(text, G, taken)
    <3> SUFFICES ASSUME NEW a \in S, NEW b \in G, Index!AreCandidates(text[seq[a]], text[b]) PROVE b \in taken
      BY DEF Closed
    <3>1. PICK k \in DOMAIN seq : seq[k] = b
      BY DEF Arranged
    <3>2. k \in S
      BY <3>1 DEF Closed
    <3> QED
      BY <3>1, <3>2
  <2>3. seq[j] \in taken
    BY <1>3, <2>1, <2>2 DEF Reached
  <2> QED
    BY <2>3 DEF Arranged
<1> QED
  BY <1>2, <1>3

TextsOf(texts, text, seq) == DOMAIN texts = DOMAIN seq /\ \A k \in DOMAIN seq : texts[k] = text[seq[k]]
Settles(root, text, G, B, seq, i) ==
  /\ root # i <=> MustFold(text, G, B, seq[i])
  /\ root # i => seq[root] < seq[i] \/ seq[root] \notin B

LEMMA FoldsAreDue ==
  ASSUME NEW G, NEW B, G \subseteq Nat, NEW text, NEW seq, Arranged(seq, G, B), NEW i \in DOMAIN seq, seq[i] \in B,
         NEW texts, TextsOf(texts, text, seq)
  PROVE  Settles(Index!Find(texts, i), text, G, B, seq, i)
<1> USE DEF TextsOf, Settles
<1> DEFINE root == Index!Find(texts, i)
<1>1. DOMAIN seq = 1..Len(seq) /\ Len(seq) \in Nat
  BY DEF Arranged
<1>2. /\ root \in Reached(texts, DOMAIN seq, i) /\ root \in DOMAIN seq /\ root <= i
      /\ \A j \in Reached(texts, DOMAIN seq, i) : root <= j
  BY <1>1, FindIsLeast, RootIsRoot
<1> HIDE DEF root
<1>3. \A j \in DOMAIN seq : j \in Reached(texts, DOMAIN seq, i) <=> seq[j] \in Reached(text, G, seq[i])
  BY ReachedByPlace
<1>4. root # i => seq[root] < seq[i] \/ seq[root] \notin B
  BY <1>1, <1>2 DEF Arranged
<1>5. ASSUME root # i PROVE MustFold(text, G, B, seq[i])
  BY <1>2, <1>3, <1>4, <1>5 DEF MustFold
<1>6. ASSUME MustFold(text, G, B, seq[i]) PROVE root # i
  <2>1. PICK e \in Reached(text, G, seq[i]) : e \notin B \/ e < seq[i]
    BY <1>6 DEF MustFold
  <2>2. PICK j \in DOMAIN seq : seq[j] = e
    BY DEF Arranged, Reached
  <2>3. j < i
    <3>1. seq[i] \in Nat /\ seq[j] \in Nat
      <4>1. seq[i] \in G /\ seq[j] \in G
        BY DEF Arranged
      <4> QED
        BY <4>1
    <3>2. ~(i < j) /\ i # j
      BY <2>1, <2>2, <3>1 DEF Arranged
    <3> QED
      BY <1>1, <3>2
  <2>4. root <= j
    BY <1>2, <1>3, <2>1, <2>2
  <2> QED
    BY <1>1, <1>2, <2>3, <2>4
<1> QED
  BY <1>4, <1>5, <1>6 DEF root

(* More rows, and more of them new, leave nothing that folds unfolded. *)
LEMMA FoldsStayDue ==
  ASSUME NEW text, NEW G, NEW B, NEW d, MustFold(text, G, B, d),
         B \subseteq G,
         NEW text2, NEW G2, NEW B2, G \subseteq G2, B \subseteq B2, (G \ B) \cap B2 = {}, \A u \in G : text2[u] = text[u]
  PROVE  MustFold(text2, G2, B2, d)
<1>1. PICK e \in Reached(text, G, d) : e \notin B \/ e < d
  BY DEF MustFold
<1>2. e \in Reached(text2, G2, d)
  <2> SUFFICES ASSUME NEW S \in SUBSET G2, d \in S, Closed(text2, G2, S) PROVE e \in S
    BY DEF Reached
  <2>1. Closed(text, G, S \cap G)
    BY DEF Closed
  <2>2. d \in G
    BY DEF Reached, MustFold
  <2> QED
    BY <2>1, <2>2 DEF Reached
<1> QED
  BY <1>1, <1>2 DEF MustFold, Reached

-----------------------------------------------------------------------------
(* As long as no two passes overlapped.  Due is what is past the watermark,   *)
(* Ahead what a pass that begins now would take of it.                        *)
Folded == DOMAIN duplicates
Due    == {row \in Index!Rows : row > watermark /\ messages[row] # <<>>}
Ahead  == {row \in Due : Index!Cardinality({earlier \in Due : earlier <= row}) <= BatchSize}
Compared(text, banded, B) ==
  {row \in banded : \E other \in B : LshBuckets[text[row]] \cap LshBuckets[text[other]] # {}} \cup B
DueToFold(text, banded, B, d) == MustFold(text, Compared(text, banded, B), B, d)
Swept(p) == pc[p] \in {"collapsing", "releasing"}

PassTypes ==
  /\ watermark \in Nat
  /\ pc \in [Processes -> {"waiting", "reading", "collapsing", "releasing", "dead"}]
  /\ resume \in [Processes -> Nat]
  /\ items = [p \in Processes |-> items[p]]

OneAtATime ==
  /\ \A p, q \in Processes : Index!Running(p) /\ Index!Running(q) => p = q
  /\ \A p \in Processes : Index!Running(p) => resume[p] = watermark

(* A row with buckets is no duplicate; a duplicate that is past the watermark, *)
(* as a pass that threw leaves it, folds again in any pass to come.            *)
BandsOK ==
  /\ bands \subseteq Index!Rows /\ bands \cap Folded = {}
  /\ \A row \in bands : row <= watermark \/ row \in Ahead

FoldedOK ==
  /\ Folded \subseteq Index!Rows
  /\ \A d \in Folded : duplicates[d] < d /\ (d > watermark => DueToFold(messages, bands, Ahead, d))

TakenOK(p) ==
  Swept(p) =>
    /\ batch[p] \subseteq Ahead
    /\ \A row \in bands : row <= watermark \/ row \in batch[p]
    /\ \A d \in Folded : d > watermark => d \in batch[p] /\ (pc[p] = "collapsing" => DueToFold(messages, bands, batch[p], d))

ItemsOfPass(p) == pc[p] = "collapsing" => Arranged(items[p], Compared(messages, bands, batch[p]), batch[p])

(* A word that was taken out with a duplicate is with a row that no pass which *)
(* is under way, and none to come, folds without folding the duplicate again.  *)
Keeps(row, y, word) ==
  /\ row \in Index!Rows \ Folded /\ word \in Index!Tokenize(messages[row])
  /\ y <= watermark => row <= watermark
  /\ \A p \in Processes : pc[p] = "releasing" /\ y > watermark => \E b \in batch[p] : row <= b
WordsKept ==
  \A y \in Folded : \A word \in Index!Tokenize(messages[y]) : word \in blocksFts[y] \/ \E row \in Index!Rows : Keeps(row, y, word)

Undisturbed ==
  /\ PassTypes /\ OneAtATime /\ BandsOK /\ FoldedOK /\ WordsKept
  /\ \A p \in Processes : TakenOK(p) /\ ItemsOfPass(p)

Calm == overlaps \in Nat /\ (overlaps = 0 => Undisturbed)

LEMMA CalmInit == ASSUME Index!Init PROVE Calm
<1> USE DEF Index!Init
<1>1. DOMAIN duplicates = {}
  OBVIOUS
<1>2. PassTypes /\ OneAtATime
  BY DEF PassTypes, OneAtATime, Index!Running
<1>3. BandsOK /\ FoldedOK /\ WordsKept
  BY <1>1 DEF BandsOK, FoldedOK, WordsKept, Folded
<1>4. \A p \in Processes : TakenOK(p) /\ ItemsOfPass(p)
  BY DEF TakenOK, ItemsOfPass, Swept
<1> QED
  BY <1>2, <1>3, <1>4 DEF Calm, Undisturbed

LEMMA CalmIsEnough == ASSUME SweepInv, Calm PROVE Index!WordsStayFindable /\ Index!CanonicalsSettled
<1> SUFFICES ASSUME overlaps = 0
             PROVE  /\ \A row \in Index!Rows : \A word \in Index!Tokenize(messages[row]) :
                         \E r \in (Index!Rows \ Folded) \cup {row} : word \in blocksFts[r]
                    /\ bands \cap Folded = {} /\ \A row \in Folded : duplicates[row] < row
  BY DEF Index!WordsStayFindable, Index!CanonicalsSettled, Folded
<1>1. Undisturbed
  BY DEF Calm
<1>2. bands \cap Folded = {} /\ \A row \in Folded : duplicates[row] < row
  BY <1>1 DEF Undisturbed, BandsOK, FoldedOK
<1>3. \A row \in Index!Rows \ Folded : blocksFts[row] = Index!Tokenize(messages[row])
  BY DEF SweepInv, Index!UnfoldedIndexed, Folded
<1>4. ASSUME NEW row \in Index!Rows, NEW word \in Index!Tokenize(messages[row])
      PROVE  \E r \in (Index!Rows \ Folded) \cup {row} : word \in blocksFts[r]
  BY <1>1, <1>3 DEF Undisturbed, WordsKept, Keeps
<1> QED
  BY <1>2, <1>4

(* A message comes behind all others: what is ahead stays ahead, and what had to *)
(* fold has to.                                                               *)
LEMMA InsertLeavesCalm == ASSUME SweepInv, Calm, NEW text \in Texts, Index!Insert(text) PROVE Calm'
<1> SUFFICES ASSUME overlaps = 0 PROVE Undisturbed'
  BY DEF Calm, Index!Insert
<1> DEFINE last == Len(messages) + 1
<1>1. /\ messages' = Append(messages, text) /\ blocksFts' = Append(blocksFts, Index!Tokenize(text))
      /\ UNCHANGED <<bands, duplicates, watermark, pc, resume, batch, items>>
  BY DEF Index!Insert, Index!lease
<1>2. /\ Index!Rows = 1..Len(messages) /\ Index!Rows' = 1..last /\ Len(messages) \in Nat
      /\ \A row \in Index!Rows : messages'[row] = messages[row] /\ blocksFts'[row] = blocksFts[row]
  BY <1>1 DEF SweepInv, SweepTypes, Index!Rows
<1>3. Undisturbed
  BY DEF Calm
<1>4. Due \subseteq Due' /\ \A row \in Due, earlier \in Due' : earlier <= row => earlier \in Due
  BY <1>1, <1>2 DEF Due
<1>5. Ahead \subseteq Ahead'
  <2> SUFFICES ASSUME NEW row \in Ahead PROVE row \in Ahead'
    OBVIOUS
  <2>1. {earlier \in Due' : earlier <= row} = {earlier \in Due : earlier <= row}
    BY <1>4 DEF Ahead
  <2> QED
    BY <1>4, <2>1 DEF Ahead
<1>6. /\ bands \subseteq Index!Rows /\ Folded \subseteq Index!Rows /\ Ahead \subseteq Index!Rows /\ Folded' = Folded
      /\ watermark \in Nat /\ \A row \in Ahead' : row \in Nat /\ row > watermark
  BY <1>1, <1>2, <1>3 DEF Undisturbed, BandsOK, FoldedOK, PassTypes, Ahead, Due, Folded
<1>7. ASSUME NEW B, NEW C, B \subseteq Ahead, B \subseteq C, C \subseteq Ahead', NEW d, DueToFold(messages, bands, B, d),
             \A row \in bands : row <= watermark \/ row \in B
      PROVE  DueToFold(messages', bands', C, d)
  <2> DEFINE G == Compared(messages, bands, B)
  <2>1. G \subseteq bands \cup B /\ \A row \in G : messages'[row] = messages[row]
    BY <1>2, <1>6, <1>7 DEF Compared
  <2>2. G \subseteq Compared(messages', bands', C)
    BY <1>1, <1>2, <1>6, <1>7 DEF Compared
  <2>3. B \subseteq G
    BY DEF Compared
  <2> HIDE DEF G
  <2>4. (G \ B) \cap C = {}
    <3> SUFFICES ASSUME NEW row \in G \ B, row \in C PROVE FALSE
      OBVIOUS
    <3>1. row \in bands /\ row <= watermark
      BY <1>7, <2>1
    <3>2. row \in Nat /\ row > watermark
      BY <1>6, <1>7
    <3> QED
      BY <1>6, <3>1, <3>2
  <2>5. MustFold(messages, G, B, d)
    BY <1>7 DEF DueToFold, G
  <2> QED
    BY <1>7, <2>1, <2>2, <2>3, <2>4, <2>5, FoldsStayDue DEF DueToFold
<1>8. PassTypes' /\ OneAtATime'
  BY <1>1, <1>3 DEF Undisturbed, PassTypes, OneAtATime, Index!Running
<1>9. BandsOK'
  BY <1>1, <1>2, <1>3, <1>5, <1>6 DEF Undisturbed, BandsOK
<1>10. FoldedOK'
  <2> SUFFICES ASSUME NEW d \in Folded, d > watermark PROVE DueToFold(messages', bands', Ahead', d)
    BY <1>1, <1>2, <1>3, <1>6 DEF Undisturbed, FoldedOK
  <2>1. DueToFold(messages, bands, Ahead, d)
    BY <1>3 DEF Undisturbed, FoldedOK
  <2>2. \A row \in bands : row <= watermark \/ row \in Ahead
    BY <1>3 DEF Undisturbed, BandsOK
  <2> QED
    BY <1>5, <1>7, <2>1, <2>2
<1>11. ASSUME NEW p \in Processes PROVE TakenOK(p)' /\ ItemsOfPass(p)'
  <2> USE DEF Swept
  <2>1. TakenOK(p) /\ ItemsOfPass(p)
    BY <1>3 DEF Undisturbed
  <2>2. ASSUME NEW d, DueToFold(messages, bands, batch[p], d), Swept(p) PROVE DueToFold(messages', bands', batch[p], d)
    BY <1>5, <1>7, <2>1, <2>2 DEF TakenOK
  <2>3. TakenOK(p)'
    BY <1>1, <1>5, <1>6, <2>1, <2>2 DEF TakenOK
  <2>4. ItemsOfPass(p)'
    <3> SUFFICES ASSUME pc[p] = "collapsing" PROVE Arranged(items[p], Compared(messages', bands', batch[p]), batch[p])
      BY <1>1 DEF ItemsOfPass
    <3>1. batch[p] \subseteq Index!Rows
      BY <1>6, <2>1 DEF TakenOK
    <3>2. Compared(messages', bands', batch[p]) = Compared(messages, bands, batch[p])
      <4>1. bands' = bands /\ \A row \in bands \cup batch[p] : messages'[row] = messages[row]
        BY <1>1, <1>2, <1>6, <3>1
      <4> QED
        BY <4>1 DEF Compared
    <3> QED
      BY <2>1, <3>2 DEF ItemsOfPass
  <2> QED
    BY <2>3, <2>4
<1>12. WordsKept'
  <2> SUFFICES ASSUME NEW y \in Folded, NEW word \in Index!Tokenize(messages[y])
               PROVE  word \in blocksFts[y] \/ \E row \in Index!Rows' : Keeps(row, y, word)'
    BY <1>2, <1>6 DEF WordsKept
  <2>1. CASE word \in blocksFts[y]
    BY <2>1
  <2>2. ASSUME NEW row \in Index!Rows, Keeps(row, y, word) PROVE row \in Index!Rows' /\ Keeps(row, y, word)'
    BY <1>1, <1>2, <1>6, <2>2 DEF Keeps
  <2> QED
    BY <1>3, <2>1, <2>2 DEF Undisturbed, WordsKept
<1> QED
  BY <1>8, <1>9, <1>10, <1>11, <1>12 DEF Undisturbed

LEMMA AcquireLeavesCalm == ASSUME Calm, NEW p \in Processes, Index!Acquire(p) PROVE Calm'
<1> USE DEF Index!Acquire, Index!store
<1>1. overlaps' \in Nat /\ (overlaps' = 0 => overlaps = 0 /\ \A q \in Processes : ~Index!Running(q))
  BY DEF Calm
<1> SUFFICES ASSUME overlaps = 0, \A q \in Processes : ~Index!Running(q) PROVE Undisturbed'
  BY <1>1 DEF Calm
<1>2. Undisturbed
  BY DEF Calm
<1>3. PassTypes' /\ OneAtATime'
  BY <1>2 DEF Undisturbed, PassTypes, OneAtATime, Index!Running
<1>4. pc[p] = "waiting" /\ pc'[p] = "reading" /\ \A q \in Processes \ {p} : pc'[q] = pc[q]
  BY <1>2 DEF Undisturbed, PassTypes
<1>5. Ahead' = Ahead
  BY DEF Ahead, Due, Index!Rows
<1>6. BandsOK' /\ FoldedOK'
  BY <1>2, <1>5 DEF Undisturbed, BandsOK, FoldedOK, Folded, Index!Rows
<1>7. WordsKept'
  BY <1>2, <1>4 DEF Undisturbed, WordsKept, Keeps, Folded, Index!Rows
<1>8. \A q \in Processes : TakenOK(q)' /\ ItemsOfPass(q)'
  BY <1>2, <1>4, <1>5 DEF Undisturbed, TakenOK, ItemsOfPass, Swept, Folded
<1> QED
  BY <1>3, <1>6, <1>7, <1>8 DEF Undisturbed

LEMMA StopLeavesCalm == ASSUME Calm, NEW p \in Processes, NEW as \in {"waiting", "dead"}, Index!Stops(p, as) PROVE Calm'
<1> USE DEF Index!Stops, Index!Ends, Index!store, Index!lease
<1> SUFFICES ASSUME overlaps = 0 PROVE Undisturbed'
  BY DEF Calm
<1>1. Undisturbed
  BY DEF Calm
<1>2. pc'[p] = as /\ \A q \in Processes \ {p} : pc'[q] = pc[q] /\ resume'[q] = resume[q] /\ batch'[q] = batch[q] /\ items'[q] = items[q]
  BY <1>1 DEF Undisturbed, PassTypes
<1>3. PassTypes' /\ OneAtATime'
  BY <1>1, <1>2 DEF Undisturbed, PassTypes, OneAtATime, Index!Running
<1>4. Ahead' = Ahead
  BY DEF Ahead, Due, Index!Rows
<1>5. BandsOK' /\ FoldedOK'
  BY <1>1, <1>4 DEF Undisturbed, BandsOK, FoldedOK, Folded, Index!Rows
<1>6. WordsKept'
  <2>1. ASSUME NEW row, NEW y, NEW word, Keeps(row, y, word) PROVE Keeps(row, y, word)'
    <3>1. ASSUME NEW q \in Processes, pc'[q] = "releasing" PROVE pc[q] = "releasing" /\ batch'[q] = batch[q]
      BY <1>2, <3>1
    <3> QED
      BY <2>1, <3>1 DEF Keeps, Folded, Index!Rows
  <2> QED
    BY <1>1, <2>1 DEF Undisturbed, WordsKept, Folded, Index!Rows
<1>7. \A q \in Processes : TakenOK(q)' /\ ItemsOfPass(q)'
  BY <1>1, <1>2, <1>4 DEF Undisturbed, TakenOK, ItemsOfPass, Swept, Folded
<1> QED
  BY <1>3, <1>5, <1>6, <1>7 DEF Undisturbed

(* Two orders, one after the other. *)
LEMMA OrdersArrange ==
  ASSUME NEW C, NEW B, IsFiniteSet(C), IsFiniteSet(B), C \cap B = {},
         NEW old \in Index!Orders(C), NEW fresh \in Index!Orders(B), Index!Ascending(fresh)
  PROVE  Arranged(old \o fresh, C \cup B, B)
<1> DEFINE m == Cardinality(C)
           n == Cardinality(B)
           seq == old \o fresh
<1>1. m \in Nat /\ n \in Nat
  BY FS_CardinalityType
<1>2. /\ old \in [1..m -> C] /\ fresh \in [1..n -> B]
      /\ \A i, j \in 1..m : old[i] = old[j] => i = j
      /\ \A i, j \in 1..n : fresh[i] = fresh[j] => i = j
      /\ \A row \in C : \E i \in 1..m : old[i] = row
      /\ \A row \in B : \E i \in 1..n : fresh[i] = row
  BY CardinalityIsOne DEF Index!Orders, Index!Bijection, Index!Injection, Index!Surjection, Index!IsInjective
<1>3. \A i, j \in 1..n : i < j => fresh[i] < fresh[j]
  BY <1>2 DEF Index!Ascending
<1> HIDE DEF m, n
<1>4. old \in Seq(C) /\ fresh \in Seq(B) /\ Len(old) = m /\ Len(fresh) = n
  BY <1>1, <1>2
<1>5. /\ seq \in Seq(C \cup B) /\ DOMAIN seq = 1..(m + n)
      /\ \A i \in 1..(m + n) : seq[i] = IF i <= m THEN old[i] ELSE fresh[i - m]
  BY <1>1, <1>4
<1> HIDE DEF seq
<1>6. \A i \in 1..(m + n) : (i <= m => seq[i] \in C) /\ (i > m => seq[i] \in B /\ i - m \in 1..n)
  BY <1>1, <1>2, <1>5
<1>7. \A i, j \in DOMAIN seq : seq[i] = seq[j] => i = j
  BY <1>1, <1>2, <1>5, <1>6
<1>8. \A row \in C \cup B : \E i \in DOMAIN seq : seq[i] = row
  <2>1. ASSUME NEW row \in C PROVE \E i \in DOMAIN seq : seq[i] = row
    BY <1>1, <1>2, <1>5
  <2>2. ASSUME NEW row \in B PROVE \E i \in DOMAIN seq : seq[i] = row
    <3>1. PICK i \in 1..n : fresh[i] = row
      BY <1>2
    <3>2. m + i \in 1..(m + n) /\ seq[m + i] = row
      BY <1>1, <1>5, <3>1
    <3> QED
      BY <1>5, <3>2
  <2> QED
    BY <2>1, <2>2
<1>9. \A i, j \in DOMAIN seq : i < j /\ seq[i] \in B => seq[j] \in B /\ seq[i] < seq[j]
  <2> SUFFICES ASSUME NEW i \in 1..(m + n), NEW j \in 1..(m + n), i < j, seq[i] \in B PROVE seq[j] \in B /\ seq[i] < seq[j]
    BY <1>5
  <2>1. i > m /\ j > m
    BY <1>1, <1>6
  <2>2. i - m \in 1..n /\ j - m \in 1..n /\ i - m < j - m
    BY <1>1, <1>6, <2>1
  <2> QED
    BY <1>1, <1>3, <1>5, <1>6, <2>1, <2>2
<1> QED
  BY <1>5, <1>7, <1>8, <1>9 DEF Arranged, seq

LEMMA ReadLeavesCalm == ASSUME SweepInv, Calm, NEW p \in Processes, Index!ReadBatch(p) PROVE Calm'
<1> SUFFICES ASSUME overlaps = 0 PROVE Undisturbed'
  BY DEF Calm, Index!ReadBatch
<1>1. Undisturbed
  BY DEF Calm
<1>2. Index!NextBatch(p) = Ahead
  <2>1. resume[p] = watermark
    BY <1>1 DEF Undisturbed, OneAtATime, Index!Running, Index!ReadBatch
  <2> QED
    BY <2>1 DEF Index!NextBatch, Ahead, Due
<1>3. PICK old \in Index!Orders(Index!Candidates(Ahead)), fresh \in Index!Orders(Ahead) :
        Index!Ascending(fresh) /\ items' = [items EXCEPT ![p] = old \o fresh]
  BY <1>2 DEF Index!ReadBatch
<1>4. /\ pc[p] = "reading" /\ batch' = [batch EXCEPT ![p] = Ahead]
      /\ pc' = [pc EXCEPT ![p] = IF Ahead = {} THEN "releasing" ELSE "collapsing"]
      /\ UNCHANGED <<messages, blocksFts, bands, duplicates, watermark, resume>>
  <2>1. batch'[p] = Ahead
    BY <1>2 DEF Index!ReadBatch, SweepInv, SweepTypes
  <2> QED
    BY <1>2, <2>1 DEF Index!ReadBatch, Index!store, Index!lease
<1>5. Arranged(old \o fresh, Compared(messages, bands, Ahead), Ahead)
  <2>1. IsFiniteSet(Index!Rows)
    BY FS_Interval DEF SweepInv, SweepTypes, Index!Rows
  <2>2. IsFiniteSet(Index!Candidates(Ahead)) /\ IsFiniteSet(Ahead)
    BY <1>1, <2>1, FS_Subset DEF Undisturbed, BandsOK, Index!Candidates, Ahead, Due
  <2>3. Index!Candidates(Ahead) \cap Ahead = {} /\ Index!Candidates(Ahead) \cup Ahead = Compared(messages, bands, Ahead)
    BY DEF Index!Candidates, Compared
  <2> QED
    BY <1>3, <2>2, <2>3, OrdersArrange
<1>6. \A q \in Processes \ {p} : ~Index!Running(q) /\ pc'[q] = pc[q] /\ batch'[q] = batch[q] /\ items'[q] = items[q]
  BY <1>1, <1>3, <1>4 DEF Undisturbed, PassTypes, OneAtATime, Index!Running, SweepInv, SweepTypes
<1>7. /\ pc'[p] = (IF Ahead = {} THEN "releasing" ELSE "collapsing")
      /\ batch'[p] = Ahead /\ items'[p] = old \o fresh
  BY <1>1, <1>3, <1>4 DEF Undisturbed, PassTypes, SweepInv, SweepTypes
<1>8. PassTypes' /\ OneAtATime'
  BY <1>1, <1>3, <1>4 DEF Undisturbed, PassTypes, OneAtATime, Index!Running
<1>9. Ahead' = Ahead
  BY <1>4 DEF Ahead, Due, Index!Rows
<1>10. BandsOK' /\ FoldedOK'
  BY <1>1, <1>4, <1>9 DEF Undisturbed, BandsOK, FoldedOK, Folded, Index!Rows
<1>11. \A d \in Folded : d > watermark => d \in Ahead
  BY <1>1 DEF Undisturbed, FoldedOK, DueToFold, MustFold
<1>12. ASSUME NEW q \in Processes PROVE TakenOK(q)' /\ ItemsOfPass(q)'
  <2>1. CASE q = p
    <3>1. TakenOK(p)'
      BY <1>1, <1>4, <1>7, <1>9, <1>11 DEF Undisturbed, BandsOK, FoldedOK, TakenOK, Folded
    <3>2. ItemsOfPass(p)'
      BY <1>4, <1>5, <1>7 DEF ItemsOfPass
    <3> QED
      BY <2>1, <3>1, <3>2
  <2>2. CASE q # p
    BY <1>6, <2>2 DEF TakenOK, ItemsOfPass, Swept, Index!Running
  <2> QED
    BY <2>1, <2>2
<1>13. WordsKept'
  <2>1. ASSUME NEW row, NEW y \in Folded, NEW word, Keeps(row, y, word) PROVE Keeps(row, y, word)'
    <3>1. ASSUME NEW q \in Processes, pc'[q] = "releasing", y > watermark PROVE FALSE
      BY <1>6, <1>7, <1>11, <3>1 DEF Index!Running
    <3> QED
      BY <1>4, <2>1, <3>1 DEF Keeps, Folded, Index!Rows
  <2> QED
    BY <1>1, <1>4, <2>1 DEF Undisturbed, WordsKept, Folded, Index!Rows
<1> QED
  BY <1>8, <1>10, <1>12, <1>13 DEF Undisturbed

LEMMA ReleaseLeavesCalm == ASSUME SweepInv, Calm, NEW p \in Processes, Index!Release(p) PROVE Calm'
<1> USE DEF Index!Release, Index!Ends, Index!store
<1> SUFFICES ASSUME overlaps = 0 PROVE Undisturbed'
  BY DEF Calm
<1>1. Undisturbed
  BY DEF Calm
<1>2. /\ \A q \in Processes \ {p} : ~Index!Running(q) /\ pc'[q] = pc[q]
      /\ pc[p] = "releasing" /\ resume[p] = watermark /\ pc'[p] = "waiting"
  BY <1>1 DEF Undisturbed, PassTypes, OneAtATime, Index!Running
<1>3. TakenOK(p) /\ Swept(p)
  BY <1>1 DEF Undisturbed, Swept
<1>4. Index!Rows \subseteq Nat /\ Ahead \subseteq Index!Rows /\ \A row \in Ahead : row > watermark
  BY DEF SweepInv, SweepTypes, Index!Rows, Ahead, Due
<1>5. /\ watermark \in Nat /\ watermark' \in Nat /\ watermark <= watermark'
      /\ \A b \in batch[p] : b \in Nat /\ b <= watermark'
      /\ batch[p] = {} => watermark' = watermark
  <2>1. CASE batch[p] = {}
    BY <1>1, <1>2, <2>1 DEF Undisturbed, PassTypes
  <2>2. CASE batch[p] # {}
    <3>1. watermark' = Index!Max(batch[p])
      BY <2>2
    <3>2. batch[p] \in SUBSET (1..Len(messages)) /\ Len(messages) \in Nat
      BY <1>3, <1>4 DEF TakenOK, SweepInv, SweepTypes, Index!Rows
    <3>3. watermark' \in batch[p] /\ \A b \in batch[p] : b <= watermark'
      BY <2>2, <3>1, <3>2, MaxIsGreatest
    <3>4. watermark \in Nat
      BY <1>1 DEF Undisturbed, PassTypes
    <3>5. \A b \in batch[p] : b \in Nat /\ b > watermark
      BY <1>3, <1>4 DEF TakenOK
    <3> QED
      BY <2>2, <3>3, <3>4, <3>5
  <2> QED
    BY <2>1, <2>2
<1>6. PassTypes' /\ OneAtATime'
  BY <1>1, <1>2, <1>5 DEF Undisturbed, PassTypes, OneAtATime, Index!Running
<1>7. BandsOK'
  <2>1. ASSUME NEW row \in bands PROVE row <= watermark'
    <3>1. row \in Nat
      BY <1>1, <1>4 DEF Undisturbed, BandsOK
    <3> QED
      BY <1>3, <1>5, <3>1 DEF TakenOK
  <2> QED
    BY <1>1, <2>1 DEF Undisturbed, BandsOK, Folded, Index!Rows
<1>8. ASSUME NEW d \in Folded PROVE d \in Nat /\ d <= watermark'
  <2>1. d \in Nat
    BY <1>1, <1>4 DEF Undisturbed, FoldedOK
  <2> QED
    BY <1>3, <1>5, <2>1 DEF TakenOK
<1>9. FoldedOK'
  <2>1. ASSUME NEW d \in Folded PROVE ~(d > watermark')
    BY <1>5, <1>8
  <2> QED
    BY <1>1, <2>1 DEF Undisturbed, FoldedOK, Folded, Index!Rows
<1>10. \A q \in Processes : TakenOK(q)' /\ ItemsOfPass(q)'
  BY <1>2 DEF TakenOK, ItemsOfPass, Swept, Index!Running
<1>11. WordsKept'
  <2>1. ASSUME NEW row, NEW y \in Folded, NEW word, Keeps(row, y, word) PROVE Keeps(row, y, word)'
    <3>1. ASSUME NEW q \in Processes, pc'[q] = "releasing" PROVE FALSE
      BY <1>2, <3>1 DEF Index!Running
    <3>2. row \in Nat /\ y \in Nat
      BY <1>4, <1>8, <2>1 DEF Keeps
    <3>3. row <= watermark'
      <4>1. CASE y <= watermark
        BY <1>5, <2>1, <3>2, <4>1 DEF Keeps
      <4>2. CASE y > watermark
        BY <1>2, <1>5, <2>1, <3>2, <4>2 DEF Keeps
      <4> QED
        BY <1>5, <3>2, <4>1, <4>2
    <3> QED
      BY <2>1, <3>1, <3>3 DEF Keeps, Folded, Index!Rows
  <2> QED
    BY <1>1, <2>1 DEF Undisturbed, WordsKept, Folded, Index!Rows
<1> QED
  BY <1>6, <1>7, <1>9, <1>10, <1>11 DEF Undisturbed

LEMMA NothingIsEmpty == ASSUME NEW f \in [1..0 -> {}] PROVE f = <<>>
<1>1. f \in Seq({})
  BY SeqDef
<1>2. Len(f) = 0
  BY <1>1
<1> QED
  BY <1>1, <1>2, EmptySeq

(* What a pass folds that no other overlapped: what has to, and each into a row  *)
(* in front of it that stays.                                                  *)
LEMMA FoldsAre ==
  ASSUME SweepInv, Undisturbed, NEW p \in Processes, pc[p] = "collapsing"
  PROVE  /\ {items[p][i] : i \in Index!Copies(p)} = {d \in batch[p] : DueToFold(messages, bands, batch[p], d)}
         /\ DOMAIN Index!Folds(p) = {items[p][i] : i \in Index!Copies(p)}
         /\ \A d \in DOMAIN Index!Folds(p) :
              LET c == Index!Folds(p)[d] IN c \in Index!Rows \ Folded /\ c \notin DOMAIN Index!Folds(p) /\ c < d
<1> DEFINE seq     == items[p]
           G       == Compared(messages, bands, batch[p])
           n       == Len(seq)
           texts   == [i \in DOMAIN seq |-> messages[seq[i]]]
           Root(i) == Index!Find(texts, i)
           copies  == {i \in 1..n : Root(i) # i /\ seq[i] \in batch[p]}
<1>1. Arranged(seq, G, batch[p])
  BY DEF Undisturbed, ItemsOfPass
<1>2. DOMAIN seq = 1..n /\ n \in Nat /\ (\A i \in 1..n : seq[i] \in G) /\ (\A i, j \in 1..n : seq[i] = seq[j] => i = j)
  BY <1>1 DEF Arranged
<1>3. /\ batch[p] \subseteq Ahead /\ (\A row \in bands : row <= watermark \/ row \in batch[p])
      /\ \A d \in Folded : d > watermark => d \in batch[p] /\ DueToFold(messages, bands, batch[p], d)
  BY DEF Undisturbed, TakenOK, Swept
<1>4. Index!Rows \subseteq Nat /\ Ahead \subseteq Index!Rows /\ (\A row \in Ahead : row > watermark) /\ IsFiniteSet(Index!Rows)
  BY FS_Interval DEF SweepInv, SweepTypes, Index!Rows, Ahead, Due
<1>5. bands \subseteq Index!Rows /\ bands \cap Folded = {} /\ Folded \subseteq Index!Rows /\ watermark \in Nat
  BY DEF Undisturbed, BandsOK, FoldedOK, PassTypes
<1>6. G \subseteq bands \cup batch[p] /\ batch[p] \subseteq G /\ G \subseteq Nat
  BY <1>3, <1>4, <1>5 DEF Compared
<1>7. Index!Copies(p) = copies /\ \A i \in 1..n : Index!Roots(p)[i] = Root(i)
  BY <1>2 DEF Index!Copies, Index!Roots, Index!NearDuplicateClusters
<1> HIDE DEF G
<1>8. \A i \in 1..n : Root(i) \in 1..n /\ Root(i) <= i /\ Root(Root(i)) = Root(i)
  BY <1>2, RootIsRoot
<1>9. ASSUME NEW i \in DOMAIN seq, seq[i] \in batch[p]
      PROVE  /\ Root(i) # i <=> DueToFold(messages, bands, batch[p], seq[i])
             /\ Root(i) # i => seq[Root(i)] < seq[i] \/ seq[Root(i)] \notin batch[p]
  <2>1. G \subseteq Nat
    BY <1>6
  <2> DEFINE B == batch[p]
  <2>2. Arranged(seq, G, B) /\ seq[i] \in B
    BY <1>1, <1>9
  <2> HIDE DEF B, seq, texts
  <2>3. Settles(Root(i), messages, G, B, seq, i)
    <3>1. TextsOf(texts, messages, seq)
      BY DEF texts, TextsOf
    <3> QED
      BY <2>1, <2>2, <3>1, FoldsAreDue
  <2> USE DEF B
  <2>4. DueToFold(messages, bands, batch[p], seq[i]) <=> MustFold(messages, G, batch[p], seq[i])
    BY DEF DueToFold, G
  <2> QED
    BY <2>3, <2>4 DEF Settles
<1>10. ASSUME NEW i \in 1..n, seq[i] \in batch[p]
      PROVE  /\ Root(i) # i <=> DueToFold(messages, bands, batch[p], seq[i])
             /\ Root(i) # i => seq[Root(i)] < seq[i] \/ seq[Root(i)] \notin batch[p]
  BY <1>2, <1>10, <1>9
<1> HIDE DEF Root, n, texts
<1>11. {seq[i] : i \in copies} = {d \in batch[p] : DueToFold(messages, bands, batch[p], d)}
  <2>1. ASSUME NEW d \in batch[p], DueToFold(messages, bands, batch[p], d) PROVE \E i \in copies : seq[i] = d
    <3>1. PICK i \in 1..n : seq[i] = d
      BY <1>1, <1>2, <1>6 DEF Arranged
    <3> QED
      BY <1>10, <2>1, <3>1
  <2> QED
    BY <1>10, <2>1
(* The root of a cluster is no duplicate, before and within the pass. *)
<1>12. ASSUME NEW i \in copies
       PROVE  /\ Root(i) \in 1..n /\ seq[Root(i)] \in Index!Rows \ Folded /\ seq[Root(i)] < seq[i]
              /\ \A j \in copies : seq[j] # seq[Root(i)]
  <2> DEFINE c == seq[Root(i)]
  <2>1. i \in 1..n /\ Root(i) \in 1..n /\ Root(Root(i)) = Root(i) /\ c \in G /\ seq[i] \in batch[p]
    BY <1>2, <1>8
  <2>2. \A j \in copies : seq[j] # c
    BY <1>2, <2>1
  <2>3. c \in batch[p] => ~DueToFold(messages, bands, batch[p], c)
    BY <1>10, <2>1
  <2>4. c \in Index!Rows \ Folded
    BY <1>3, <1>4, <1>5, <1>6, <2>1, <2>3
  <2>5. c < seq[i]
    <3>1. CASE c \in batch[p]
      BY <1>10, <2>1, <3>1
    <3>2. CASE c \notin batch[p]
      <4>1. c \in bands /\ c <= watermark
        BY <1>3, <1>6, <2>1, <3>2
      <4>2. c \in Nat /\ watermark \in Nat
        BY <1>4, <1>5, <4>1
      <4>3. seq[i] \in Nat /\ seq[i] > watermark
        BY <1>3, <1>4, <2>1
      <4> HIDE DEF c, seq
      <4> QED
        BY <4>1, <4>2, <4>3
    <3> QED
      BY <3>1, <3>2
  <2> QED
    BY <2>1, <2>2, <2>4, <2>5
(* After the clusters up to a place, so much is folded. *)
<1> DEFINE original(row) == seq[Root(CHOOSE i \in 1..n : seq[i] = row)]
           sofar(k) == {seq[i] : i \in {j \in copies : Root(j) <= k}}
           upto(k)  == [row \in sofar(k) |-> original(row)]
<1>13. \A i \in 1..n : original(seq[i]) = seq[Root(i)]
  BY <1>2
<1> HIDE DEF original
<1>14. ASSUME NEW k \in 1..n PROVE Index!FoldCluster(p, upto(k - 1), k) = upto(k)
  <2> DEFINE links     == Index!Linked(duplicates, upto(k - 1))
             canonical == Index!ResolveCanonical(links, seq[k])
             cluster   == {seq[i] : i \in {j \in copies : Root(j) = k}}
  <2>1. Index!FoldCluster(p, upto(k - 1), k) =
          IF canonical \in DOMAIN links THEN upto(k - 1) ELSE Index!Linked(upto(k - 1), [row \in cluster |-> canonical])
    <3>1. cluster = {seq[i] : i \in {j \in Index!Copies(p) : Index!Roots(p)[j] = k}}
      BY <1>7
    <3> QED
      BY <3>1 DEF Index!FoldCluster
  <2>2. sofar(k) = sofar(k - 1) \cup cluster
    <3>1. \A i \in copies : Root(i) <= k <=> (Root(i) <= k - 1 \/ Root(i) = k)
      BY <1>8
    <3> QED
      BY <3>1
  <2>3. DOMAIN links = Folded \cup sofar(k - 1)
    BY DEF Index!Linked, Folded
  <2>4. CASE cluster = {}
    <3>1. sofar(k) = sofar(k - 1) /\ upto(k) = upto(k - 1)
      BY <2>2, <2>4
    <3>2. Index!Linked(upto(k - 1), [row \in cluster |-> canonical]) = upto(k - 1)
      BY <2>4 DEF Index!Linked
    <3> QED
      BY <2>1, <3>1, <3>2
  <2>5. CASE cluster # {}
    <3>1. PICK i \in copies : Root(i) = k
      BY <2>5
    <3>2. seq[k] \notin Folded \cup sofar(k - 1)
      BY <1>12, <3>1
    <3>3. Index!Cardinality(DOMAIN links) \in Nat
      <4>1. Folded \cup sofar(k - 1) \subseteq Index!Rows
        BY <1>3, <1>4, <1>5
      <4> QED
        BY <1>4, <2>3, <4>1, FS_Subset, FS_CardinalityType, CardinalityIsOne
    <3>4. canonical = seq[k]
      BY <2>3, <3>2, <3>3, UnlinkedIsCanonical
    <3>5. \A row \in cluster : original(row) = seq[k]
      BY <1>13
    <3> HIDE DEF canonical, links, sofar, cluster
    <3>6. Index!Linked(upto(k - 1), [row \in cluster |-> seq[k]]) = [row \in sofar(k) |-> original(row)]
      BY <2>2, <3>5 DEF Index!Linked
    <3> QED
      BY <2>1, <2>3, <3>2, <3>4, <3>6
  <2> QED
    BY <2>4, <2>5
<1> DEFINE Upto(f) == [k \in 0..n |-> IF k = 0 THEN <<>> ELSE Index!FoldCluster(p, f[k - 1], k)]
           folds   == CHOOSE f : f = Upto(f)
<1>15. Index!Folds(p) = folds[n]
  BY DEF Index!Folds, n
<1>16. upto(0) = <<>>
  <2>1. sofar(0) = {}
    BY <1>8
  <2> HIDE DEF sofar
  <2>2. upto(0) \in [1..0 -> {}]
    BY <2>1
  <2> QED
    BY <2>2, NothingIsEmpty
<1>17. [k \in 0..n |-> upto(k)] = Upto([k \in 0..n |-> upto(k)])
  <2>1. ASSUME NEW k \in 0..n
        PROVE  upto(k) = IF k = 0 THEN <<>> ELSE Index!FoldCluster(p, [l \in 0..n |-> upto(l)][k - 1], k)
    <3>1. CASE k = 0
      BY <1>16, <3>1
    <3>2. CASE k # 0
      <4>1. k \in 1..n /\ k - 1 \in 0..n
        BY <1>2, <3>2
      <4> HIDE DEF upto
      <4>2. [l \in 0..n |-> upto(l)][k - 1] = upto(k - 1)
        BY <4>1
      <4> QED
        BY <1>14, <3>2, <4>1, <4>2
    <3> QED
      BY <3>1, <3>2
  <2> QED
    BY <2>1
<1>18. folds = Upto(folds)
  BY <1>17
<1> HIDE DEF folds, upto
<1>19. \A k \in 0..n : folds[k] = upto(k)
  <2> DEFINE astray == {k \in 0..n : folds[k] # upto(k)}
  <2> SUFFICES ASSUME astray # {} PROVE FALSE
    OBVIOUS
  <2>1. PICK k \in astray : \A other \in astray : k <= other
    <3>1. astray \subseteq Nat
      BY <1>2
    <3> HIDE DEF astray
    <3> QED
      BY <3>1, LeastOf
  <2>2. k \in 0..n /\ k # 0
    BY <1>2, <1>16, <1>18, <2>1
  <2>3. k \in 1..n /\ k - 1 \in 0..n /\ k - 1 \notin astray
    BY <1>2, <2>1, <2>2
  <2>4. folds[k] = Index!FoldCluster(p, folds[k - 1], k) /\ folds[k - 1] = upto(k - 1)
    BY <1>18, <2>2, <2>3
  <2> QED
    BY <1>14, <2>1, <2>3, <2>4
<1>20. Index!Folds(p) = upto(n)
  BY <1>2, <1>15, <1>19
<1>21. sofar(n) = {seq[i] : i \in copies}
  BY <1>2, <1>8
<1>22. DOMAIN Index!Folds(p) = {seq[i] : i \in copies} /\ \A i \in copies : Index!Folds(p)[seq[i]] = seq[Root(i)]
  BY <1>13, <1>20, <1>21 DEF upto
<1> QED
  BY <1>7, <1>11, <1>12, <1>22

LEMMA DeduplicateLeavesCalm == ASSUME SweepInv, Calm, NEW p \in Processes, Index!Deduplicate(p) PROVE Calm'
<1> SUFFICES ASSUME overlaps = 0 PROVE Undisturbed'
  BY DEF Calm, Index!Deduplicate
<1>1. Undisturbed
  BY DEF Calm
<1> DEFINE C == {d \in batch[p] : DueToFold(messages, bands, batch[p], d)}
           f == Index!Folds(p)
<1>2. /\ pc[p] = "collapsing" /\ pc' = [pc EXCEPT ![p] = "releasing"] /\ items' = [items EXCEPT ![p] = <<>>]
      /\ UNCHANGED <<messages, watermark, resume, batch, overlaps>>
  BY DEF Index!Deduplicate, Index!lease
<1>3. /\ DOMAIN f = C /\ {items[p][i] : i \in Index!Copies(p)} = C
      /\ \A d \in C : f[d] \in Index!Rows \ Folded /\ f[d] \notin C /\ f[d] < d
  BY <1>1, <1>2, FoldsAre
<1> HIDE DEF f
<1>4. /\ duplicates' = Index!Linked(duplicates, f)
      /\ blocksFts' = [row \in Index!Rows |-> IF row \in C THEN Index!Collapse(row, f[row]) ELSE blocksFts[row]]
      /\ bands' = (bands \ C) \cup (batch[p] \ C)
  BY <1>3 DEF Index!Deduplicate, f
<1>5. /\ Folded' = Folded \cup C
      /\ \A d \in Folded : duplicates'[d] = duplicates[d]
      /\ \A d \in C \ Folded : duplicates'[d] = f[d]
  BY <1>3, <1>4 DEF Index!Linked, Folded
<1> HIDE DEF C
<1>6. /\ batch[p] \subseteq Ahead /\ (\A row \in bands : row <= watermark \/ row \in batch[p])
      /\ C \subseteq batch[p] /\ \A d \in C : DueToFold(messages, bands, batch[p], d)
  BY <1>1, <1>2 DEF Undisturbed, TakenOK, Swept, C
<1>7. /\ Index!Rows \subseteq Nat /\ Ahead \subseteq Index!Rows /\ (\A row \in Ahead : row > watermark) /\ watermark \in Nat
      /\ bands \subseteq Index!Rows /\ bands \cap Folded = {} /\ Folded \subseteq Index!Rows
      /\ Index!Rows' = Index!Rows /\ Ahead' = Ahead
  BY <1>1, <1>2 DEF SweepInv, SweepTypes, Index!Rows, Ahead, Due, Undisturbed, BandsOK, FoldedOK, PassTypes
<1>8. ASSUME NEW d \in Folded \ C PROVE d <= watermark
  <2>1. ~(d > watermark)
    BY <1>1, <1>2, <1>8 DEF Undisturbed, TakenOK, Swept, C
  <2>2. d \in Nat
    BY <1>7
  <2> QED
    BY <1>7, <2>1, <2>2
<1>9. \A row \in batch[p] : row \in Nat /\ row > watermark /\ ~(row <= watermark)
  <2> SUFFICES ASSUME NEW row \in batch[p] PROVE row \in Nat /\ row > watermark /\ ~(row <= watermark)
    OBVIOUS
  <2>1. row \in Nat /\ row > watermark
    BY <1>6, <1>7
  <2> QED
    BY <1>7, <2>1
<1>10. \A q \in Processes \ {p} : ~Index!Running(q) /\ pc'[q] = pc[q]
  BY <1>1, <1>2 DEF Undisturbed, PassTypes, OneAtATime, Index!Running
<1>11. pc'[p] = "releasing"
  BY <1>1, <1>2 DEF Undisturbed, PassTypes
<1>12. PassTypes' /\ OneAtATime'
  <2>1. items' = [q \in Processes |-> items'[q]]
    BY <1>1, <1>2 DEF Undisturbed, PassTypes
  <2> QED
    BY <1>1, <1>2, <1>10, <2>1 DEF Undisturbed, PassTypes, OneAtATime, Index!Running
<1>13. BandsOK'
  <2>1. ASSUME NEW row \in bands' PROVE row \in Index!Rows /\ row \notin Folded' /\ (row <= watermark \/ row \in Ahead)
    <3>1. row \notin C /\ (row \in bands \/ row \in batch[p])
      BY <1>4
    <3>2. row \notin Folded
      BY <1>7, <1>8, <1>9, <3>1
    <3> QED
      BY <1>5, <1>6, <1>7, <3>1, <3>2
  <2> QED
    BY <1>2, <1>7, <2>1 DEF BandsOK
<1>14. FoldedOK'
  <2>1. ASSUME NEW d \in Folded' PROVE d \in Index!Rows /\ duplicates'[d] < d
    BY <1>1, <1>3, <1>5, <1>6, <1>7 DEF Undisturbed, FoldedOK
  <2>2. ASSUME NEW d \in Folded', d > watermark PROVE DueToFold(messages, bands', Ahead, d)
    <3> DEFINE G == Compared(messages, bands, batch[p])
    <3>1. d \in C
      <4>1. d \in Nat
        BY <1>7, <2>1
      <4> QED
        BY <1>5, <1>7, <1>8, <2>2, <4>1
    <3>2. G \subseteq Compared(messages, bands', Ahead)
      BY <1>4, <1>6 DEF Compared
    <3>3. (G \ batch[p]) \cap Ahead = {}
      <4> SUFFICES ASSUME NEW row \in G \ batch[p], row \in Ahead PROVE FALSE
        OBVIOUS
      <4>1. row \in bands /\ row <= watermark
        BY <1>6 DEF Compared
      <4>2. row \in Nat /\ row > watermark
        BY <1>7
      <4> QED
        BY <1>7, <4>1, <4>2
    <3>4. batch[p] \subseteq G
      BY DEF Compared
    <3>5. MustFold(messages, G, batch[p], d)
      BY <1>6, <3>1 DEF DueToFold
    <3> HIDE DEF G
    <3> QED
      BY <1>6, <3>2, <3>3, <3>4, <3>5, FoldsStayDue DEF DueToFold
  <2> QED
    BY <1>2, <1>7, <2>1, <2>2 DEF FoldedOK
<1>15. ASSUME NEW q \in Processes PROVE TakenOK(q)' /\ ItemsOfPass(q)'
  <2>1. CASE q = p
    <3>1. \A row \in bands' : row <= watermark \/ row \in batch[p]
      BY <1>4, <1>6
    <3>2. \A d \in Folded' : d > watermark => d \in batch[p]
      <4> SUFFICES ASSUME NEW d \in Folded', d > watermark PROVE d \in batch[p]
        OBVIOUS
      <4>1. d \in Nat
        BY <1>5, <1>6, <1>7
      <4> QED
        BY <1>5, <1>6, <1>7, <1>8, <4>1
    <3> QED
      BY <1>2, <1>6, <1>7, <1>11, <2>1, <3>1, <3>2 DEF TakenOK, ItemsOfPass
  <2>2. CASE q # p
    BY <1>10, <2>2 DEF TakenOK, ItemsOfPass, Swept, Index!Running
  <2> QED
    BY <2>1, <2>2
<1>16. WordsKept'
  <2> SUFFICES ASSUME NEW y \in Folded', NEW word \in Index!Tokenize(messages[y])
               PROVE  word \in blocksFts'[y] \/ \E row \in Index!Rows : Keeps(row, y, word)'
    BY <1>2, <1>7 DEF WordsKept, Index!Tokenize
  <2>1. CASE y \in C
    <3>1. PICK c \in Index!Rows \ Folded : c = f[y]
      BY <1>3, <2>1
    <3>2. blocksFts'[y] = Index!Tokenize(messages[y]) \ Index!Tokenize(messages[c])
      BY <1>4, <1>6, <1>7, <2>1, <3>1 DEF Index!Collapse
    <3>3. ASSUME word \in Index!Tokenize(messages[c]) PROVE Keeps(c, y, word)'
      <4>1. c \notin C /\ c < y /\ y \in batch[p]
        BY <1>3, <1>6, <2>1, <3>1
      <4>2. c \in Nat /\ y \in Nat /\ ~(y <= watermark) /\ c <= y
        BY <1>7, <1>9, <4>1
      <4>3. \A q \in Processes : pc'[q] = "releasing" => \E b \in batch[q] : c <= b
        BY <1>10, <4>1, <4>2 DEF Index!Running
      <4>4. Index!Tokenize(messages[c])' = Index!Tokenize(messages[c])
        BY <1>2 DEF Index!Tokenize
      <4> QED
        BY <1>2, <1>5, <1>7, <3>3, <4>1, <4>2, <4>3, <4>4 DEF Keeps
    <3> QED
      BY <3>2, <3>3
  <2>2. CASE y \notin C
    <3>1. y \in Folded /\ y <= watermark /\ y \in Nat /\ blocksFts'[y] = blocksFts[y]
      BY <1>4, <1>5, <1>7, <1>8, <2>2
    <3>2. ASSUME NEW row \in Index!Rows, Keeps(row, y, word) PROVE Keeps(row, y, word)'
      <4>1. row \notin C
        BY <1>6, <1>9, <3>1, <3>2 DEF Keeps
      <4>2. ~(y > watermark)
        BY <1>7, <3>1
      <4> QED
        BY <1>2, <1>5, <1>7, <3>1, <3>2, <4>1, <4>2 DEF Keeps, Index!Tokenize
    <3> QED
      BY <1>1, <3>1, <3>2 DEF Undisturbed, WordsKept
  <2> QED
    BY <2>1, <2>2
<1> QED
  BY <1>12, <1>13, <1>14, <1>15, <1>16 DEF Undisturbed

LEMMA OthersLeaveCalm == ASSUME Calm, Index!LeaseRunsOut \/ UNCHANGED sweeps PROVE Calm'
<1>1. UNCHANGED <<messages, blocksFts, bands, duplicates, watermark, pc, resume, batch, items, overlaps>>
  BY DEF Index!LeaseRunsOut, sweeps, Index!store
<1>2. Ahead' = Ahead
  BY <1>1 DEF Ahead, Due, Index!Rows
<1>3. ASSUME Undisturbed PROVE Undisturbed'
  <2>1. PassTypes' /\ OneAtATime'
    BY <1>1, <1>3 DEF Undisturbed, PassTypes, OneAtATime, Index!Running
  <2>2. BandsOK' /\ FoldedOK'
    BY <1>1, <1>2, <1>3 DEF Undisturbed, BandsOK, FoldedOK, Folded, Index!Rows
  <2>3. WordsKept'
    BY <1>1, <1>3 DEF Undisturbed, WordsKept, Keeps, Folded, Index!Rows
  <2>4. \A p \in Processes : TakenOK(p)' /\ ItemsOfPass(p)'
    BY <1>1, <1>2, <1>3 DEF Undisturbed, TakenOK, ItemsOfPass, Swept, Folded
  <2> QED
    BY <2>1, <2>2, <2>3, <2>4 DEF Undisturbed
<1> QED
  BY <1>1, <1>3 DEF Calm

LEMMA CalmStepKeeps == ASSUME SweepInv, Calm, Index!Next \/ UNCHANGED sweeps PROVE Calm'
<1>1. ASSUME NEW p \in Processes, Index!Pass(p) PROVE Calm'
  BY <1>1, AcquireLeavesCalm, ReadLeavesCalm, DeduplicateLeavesCalm, ReleaseLeavesCalm DEF Index!Pass
<1> QED
  BY <1>1, InsertLeavesCalm, StopLeavesCalm, OthersLeaveCalm DEF Index!Next

-----------------------------------------------------------------------------
(* The schema.  The migrations that took effect are the first ones of the    *)
(* list; who migrates has yet to do a run of them that ends with its build's *)
(* last and leaves no gap; who has the store open has nothing left to do.    *)
Builds == 1..3
Done   == Len(applied)

SchemaTypes ==
  /\ applied \in Seq(Nat) /\ Done \in 0..3
  /\ build \in [Openers -> Builds]
  /\ opening \in [Openers -> {"closed", "migrating", "open", "refused", "failed"}]
  /\ pending \in [Openers -> SUBSET Builds]

OpenersOK ==
  \A p \in Openers :
    /\ opening[p] = "open" => build[p] <= Done
    /\ opening[p] = "migrating" => \E first \in 1..(Done + 1) : first <= build[p] /\ pending[p] = first..build[p]

SchemaInv == SchemaTypes /\ Kept!AppliedOnceInOrder /\ OpenersOK /\ Kept!RefusedOverAMajor

LEMMA TheMigrations ==
  /\ Len(Kept!Shipped) = 3 /\ DOMAIN Kept!Shipped = Builds
  /\ Kept!Shipped[1].version = 1000 /\ Kept!Shipped[2].version = 1001 /\ Kept!Shipped[3].version = 2000
  BY DEF Kept!Shipped, Kept!HistoryMigrations, Kept!Step, Kept!SchemaVersion, Builds

LEMMA TheVersion ==
  ASSUME SchemaTypes, Kept!AppliedOnceInOrder
  PROVE  /\ userVersion = IF Done = 0 THEN 0 ELSE Kept!Shipped[Done].version
         /\ \A i \in Builds : Kept!Shipped[i].version > userVersion <=> i > Done
<1>1. userVersion = IF Done = 0 THEN 0 ELSE Kept!Shipped[Done].version
  <2>1. CASE applied = <<>>
    BY <2>1 DEF Kept!AppliedOnceInOrder, SchemaTypes, Done
  <2>2. CASE applied # <<>>
    <3>1. Done \in DOMAIN applied /\ Done # 0
      BY <2>2 DEF SchemaTypes, Done
    <3>2. applied[Done] = Kept!Shipped[Done].version
      BY <3>1 DEF Kept!AppliedOnceInOrder
    <3>3. userVersion = applied[Done]
      BY <2>2 DEF Kept!AppliedOnceInOrder, Kept!Last, Done
    <3> QED
      BY <3>1, <3>2, <3>3
  <2> QED
    BY <2>1, <2>2
<1>2. Done \in {0, 1, 2, 3}
  BY DEF SchemaTypes
<1> QED
  BY <1>1, <1>2, TheMigrations DEF Builds

LEMMA SchemaInit == ASSUME Kept!InitSchema PROVE SchemaInv
<1> USE DEF Kept!InitSchema
<1>1. SchemaTypes /\ Done = 0
  BY TheMigrations DEF SchemaTypes, Builds, Done
<1>2. Kept!AppliedOnceInOrder
  BY DEF Kept!AppliedOnceInOrder
<1>3. OpenersOK /\ Kept!RefusedOverAMajor
  BY DEF OpenersOK, Kept!RefusedOverAMajor
<1> QED
  BY <1>1, <1>2, <1>3 DEF SchemaInv

(* The version only grows, so who was refused stays so.                      *)
LEMMA MajorsGrow ==
  /\ Kept!MajorOf(0) = 0 /\ Kept!MajorOf(1000) = 1 /\ Kept!MajorOf(1001) = 1 /\ Kept!MajorOf(2000) = 2
  BY DEF Kept!MajorOf

LEMMA OpenKeeps == ASSUME SchemaInv, NEW p \in Openers, Kept!Open(p) PROVE SchemaInv'
<1> USE DEF SchemaInv
<1> DEFINE todo == {i \in 1..build[p] : Kept!Shipped[i].version > userVersion}
           newer == Kept!MajorOf(userVersion) > Kept!MajorOf(Kept!Target(p))
<1>1. /\ opening[p] = "closed"
      /\ pending' = [pending EXCEPT ![p] = IF newer THEN {} ELSE todo]
      /\ opening' = [opening EXCEPT ![p] = IF newer THEN "refused" ELSE IF todo = {} THEN "open" ELSE "migrating"]
      /\ UNCHANGED <<userVersion, tables, build, failures, applied>>
  BY DEF Kept!Open
<1>2. build[p] \in Builds /\ Done \in 0..3
  BY DEF SchemaTypes
<1>3. todo = (Done + 1)..build[p]
  <2>1. \A i \in 1..build[p] : i \in todo <=> i > Done
    BY <1>2, TheVersion DEF Builds
  <2>2. \A i : i \in todo <=> i \in (Done + 1)..build[p]
    BY <1>2, <2>1 DEF Builds
  <2> QED
    BY <2>2
<1> HIDE DEF todo
<1>4. todo \in SUBSET Builds /\ (todo = {} <=> build[p] <= Done)
  <2>1. \A i \in todo : i \in Builds /\ Done < build[p]
    BY <1>2, <1>3 DEF Builds
  <2>2. Done < build[p] => Done + 1 \in todo
    BY <1>2, <1>3 DEF Builds
  <2> QED
    BY <1>2, <2>1, <2>2 DEF Builds
<1>5. SchemaTypes'
  BY <1>1, <1>4 DEF SchemaTypes, Done
<1>6. Kept!AppliedOnceInOrder'
  BY <1>1 DEF Kept!AppliedOnceInOrder
<1>7. OpenersOK'
  <2> SUFFICES ASSUME NEW q \in Openers
               PROVE  /\ opening'[q] = "open" => build[q] <= Done
                      /\ opening'[q] = "migrating" =>
                           \E first \in 1..(Done + 1) : first <= build[q] /\ pending'[q] = first..build[q]
    BY <1>1 DEF OpenersOK, Done
  <2>1. CASE q = p
    <3>1. opening'[p] = "open" => todo = {}
      BY <1>1 DEF SchemaTypes
    <3>2. opening'[p] = "migrating" => todo # {} /\ pending'[p] = todo
      BY <1>1 DEF SchemaTypes
    <3>3. Done + 1 \in 1..(Done + 1)
      BY <1>2
    <3> QED
      BY <1>2, <1>3, <1>4, <2>1, <3>1, <3>2, <3>3 DEF Builds
  <2>2. CASE q # p
    BY <1>1, <2>2 DEF SchemaTypes, OpenersOK
  <2> QED
    BY <2>1, <2>2
<1>8. Kept!RefusedOverAMajor'
  BY <1>1 DEF Kept!RefusedOverAMajor, Kept!Target, SchemaTypes
<1> QED
  BY <1>5, <1>6, <1>7, <1>8

LEMMA ApplyKeeps == ASSUME SchemaInv, NEW p \in Openers, Kept!Apply(p) PROVE SchemaInv'
<1> USE DEF SchemaInv
<1>1. PICK first \in 1..(Done + 1) : first <= build[p] /\ pending[p] = first..build[p]
  BY DEF OpenersOK, Kept!Apply
<1>2. build[p] \in Builds /\ Done \in 0..3 /\ first \in Builds
  BY <1>1 DEF SchemaTypes, Builds
<1>3. Kept!Min(pending[p]) = first
  BY <1>1, <1>2 DEF Kept!Min, Builds
<1> DEFINE version == Kept!Shipped[first].version
<1>4. /\ opening[p] = "migrating"
      /\ IF version > userVersion
           THEN /\ userVersion' = version
                /\ tables' = tables \cup Kept!Shipped[first].creates
                /\ applied' = Append(applied, version)
           ELSE UNCHANGED <<userVersion, tables, applied>>
      /\ pending' = [pending EXCEPT ![p] = pending[p] \ {first}]
      /\ opening' = [opening EXCEPT ![p] = IF pending[p] = {first} THEN "open" ELSE opening[p]]
      /\ UNCHANGED <<build, failures>>
  BY <1>3 DEF Kept!Apply, Kept!IsNew
<1>5. version > userVersion <=> first = Done + 1
  BY <1>1, <1>2, TheVersion DEF Builds
<1>6. version \in Nat
  BY <1>2, TheMigrations DEF Builds
<1>7. /\ applied' \in Seq(Nat) /\ Done' = (IF first = Done + 1 THEN Done + 1 ELSE Done)
      /\ Done' \in 0..3 /\ first <= Done' /\ Done <= Done'
  <2>1. CASE first = Done + 1
    <3>1. applied' = Append(applied, version)
      BY <1>4, <1>5, <2>1
    <3>2. applied' \in Seq(Nat) /\ Len(applied') = Len(applied) + 1
      BY <1>6, <3>1 DEF SchemaTypes
    <3> QED
      BY <1>2, <2>1, <3>2 DEF Done, Builds
  <2>2. CASE first # Done + 1
    BY <1>1, <1>2, <1>4, <1>5, <2>2 DEF Done, SchemaTypes
  <2> QED
    BY <2>1, <2>2
<1>8. SchemaTypes'
  <2>1. opening' \in [Openers -> {"closed", "migrating", "open", "refused", "failed"}]
    BY <1>4 DEF SchemaTypes
  <2>2. pending' \in [Openers -> SUBSET Builds] /\ build' = build
    BY <1>4 DEF SchemaTypes
  <2> QED
    BY <1>7, <2>1, <2>2 DEF SchemaTypes
<1>9. Kept!AppliedOnceInOrder'
  <2>1. CASE first = Done + 1
    <3>1. applied' = Append(applied, version) /\ userVersion' = version /\ tables' = tables \cup Kept!Shipped[first].creates
      BY <1>4, <1>5, <2>1
    <3>2. applied \in Seq(Nat) /\ DOMAIN applied = 1..Done /\ DOMAIN applied' = 1..(Done + 1) /\ applied' \in Seq(Nat)
      BY <1>6, <1>7, <3>1 DEF SchemaTypes, Done
    <3>3. \A i \in 1..(Done + 1) : applied'[i] = Kept!Shipped[i].version
      <4>1. \A i \in 1..Done : applied'[i] = applied[i] /\ applied[i] = Kept!Shipped[i].version
        BY <3>1, <3>2 DEF Kept!AppliedOnceInOrder, Done
      <4>2. applied'[Done + 1] = version
        BY <3>1, <3>2 DEF Done
      <4> QED
        BY <1>2, <2>1, <4>1, <4>2
    <3>4. applied' = [i \in DOMAIN applied' |-> Kept!Shipped[i].version]
      BY <3>2, <3>3
    <3>5. applied' # <<>> /\ Kept!Last(applied') = version
      BY <1>2, <2>1, <3>2, <3>3 DEF Kept!Last, Done
    <3>6. tables' = UNION {Kept!Shipped[i].creates : i \in DOMAIN applied'}
      <4>1. 1..(Done + 1) = (1..Done) \cup {Done + 1}
        BY <1>2
      <4> QED
        BY <2>1, <3>1, <3>2, <4>1 DEF Kept!AppliedOnceInOrder
    <3> QED
      BY <3>1, <3>4, <3>5, <3>6 DEF Kept!AppliedOnceInOrder
  <2>2. CASE first # Done + 1
    BY <1>4, <1>5, <2>2 DEF Kept!AppliedOnceInOrder
  <2> QED
    BY <2>1, <2>2
<1>10. OpenersOK'
  <2> SUFFICES ASSUME NEW q \in Openers
               PROVE  /\ opening'[q] = "open" => build[q] <= Done'
                      /\ opening'[q] = "migrating" =>
                           \E least \in 1..(Done' + 1) : least <= build[q] /\ pending'[q] = least..build[q]
    BY <1>4 DEF OpenersOK
  <2>1. CASE q = p
    <3>1. pending'[p] = (first + 1)..build[p]
      BY <1>1, <1>2, <1>4 DEF SchemaTypes, Builds
    <3>2. CASE first = build[p]
      BY <1>1, <1>2, <1>4, <1>7, <2>1, <3>2 DEF SchemaTypes, Builds
    <3>3. CASE first # build[p]
      <4>1. first + 1 <= build[p] /\ first + 1 \in 1..(Done' + 1) /\ build[p] \in pending[p]
        BY <1>1, <1>2, <1>7, <3>3 DEF Builds
      <4>2. opening'[p] = "migrating"
        BY <1>4, <3>3, <4>1 DEF SchemaTypes
      <4> QED
        BY <2>1, <3>1, <4>1, <4>2
    <3> QED
      BY <3>2, <3>3
  <2>2. CASE q # p
    <3>1. opening'[q] = opening[q] /\ pending'[q] = pending[q] /\ build[q] \in Builds
      BY <1>4, <2>2 DEF SchemaTypes
    <3> QED
      BY <1>2, <1>7, <3>1 DEF OpenersOK, Builds
  <2> QED
    BY <2>1, <2>2
<1>11. Kept!RefusedOverAMajor'
  <2> SUFFICES ASSUME NEW q \in Openers, opening'[q] = "refused"
               PROVE  Kept!MajorOf(userVersion') > Kept!MajorOf(Kept!Target(q))
    BY <1>4 DEF Kept!RefusedOverAMajor, Kept!Target
  <2>1. opening[q] = "refused"
    BY <1>4 DEF SchemaTypes
  <2>2. Kept!MajorOf(userVersion) > Kept!MajorOf(Kept!Target(q))
    BY <2>1 DEF Kept!RefusedOverAMajor
  <2>3. Kept!MajorOf(Kept!Target(q)) \in Nat /\ Kept!MajorOf(userVersion) \in Nat
    <3>1. Kept!Target(q) \in {1000, 1001, 2000}
      BY TheMigrations DEF Kept!Target, SchemaTypes, Builds
    <3>2. userVersion \in {0, 1000, 1001, 2000}
      BY <1>2, TheVersion, TheMigrations
    <3> QED
      BY <3>1, <3>2, MajorsGrow
  <2>4. Kept!MajorOf(userVersion') \in Nat /\ Kept!MajorOf(userVersion') >= Kept!MajorOf(userVersion)
    <3>1. CASE first = Done + 1
      <4>1. userVersion' = Kept!Shipped[Done + 1].version
        BY <1>4, <1>5, <3>1
      <4> QED
        BY <1>2, <3>1, <4>1, TheVersion, TheMigrations, MajorsGrow DEF Builds
    <3>2. CASE first # Done + 1
      BY <1>4, <1>5, <2>3, <3>2
    <3> QED
      BY <3>1, <3>2
  <2> QED
    BY <2>2, <2>3, <2>4
<1> QED
  BY <1>8, <1>9, <1>10, <1>11

LEMMA SchemaStepKeeps == ASSUME SchemaInv, Kept!NextSchema PROVE SchemaInv'
<1> USE DEF SchemaInv, SchemaTypes, Done
<1>1. ASSUME NEW p \in Openers, Kept!Fails(p) PROVE SchemaInv'
  BY <1>1 DEF Kept!Fails, Kept!AppliedOnceInOrder, OpenersOK, Kept!RefusedOverAMajor, Kept!Target
<1>2. ASSUME NEW p \in Openers, NEW next \in 1..Len(Kept!Shipped), Kept!Close(p, next) PROVE SchemaInv'
  <2>1. next \in Builds
    BY TheMigrations DEF Builds
  <2> QED
    BY <1>2, <2>1 DEF Kept!Close, Kept!AppliedOnceInOrder, OpenersOK, Kept!RefusedOverAMajor, Kept!Target
<1> QED
  BY <1>1, <1>2, OpenKeeps, ApplyKeeps DEF Kept!NextSchema

LEMMA SchemaInvIsEnough == ASSUME SchemaInv PROVE Kept!SchemaSound
<1>1. Kept!OpenIsUsable
  <2> SUFFICES ASSUME NEW p \in Openers, opening[p] = "open"
               PROVE  UNION {Kept!Shipped[i].creates : i \in 1..build[p]} \subseteq tables
    BY DEF Kept!OpenIsUsable
  <2>1. build[p] <= Done /\ build[p] \in Builds
    BY DEF SchemaInv, SchemaTypes, OpenersOK
  <2>2. 1..build[p] \subseteq DOMAIN applied
    BY <2>1 DEF SchemaInv, SchemaTypes, Done, Builds
  <2> QED
    BY <2>2 DEF SchemaInv, Kept!AppliedOnceInOrder
<1> QED
  BY <1>1 DEF SchemaInv, Kept!SchemaSound

-----------------------------------------------------------------------------
(* The memories.  The map and the table are each other's inverse; an id that *)
(* was written is in the map or in the archive; and rows, although numbers   *)
(* are used again, stay within how many were ever written.                   *)
Wrote == Cardinality(DOMAIN written)

MemoryTypes ==
  /\ Wrote \in Nat /\ DOMAIN written = 1..Wrote
  /\ DOMAIN memories \subseteq 1..Wrote
  /\ DOMAIN memoryIndex \cup DOMAIN archive = DOMAIN written /\ DOMAIN memoryIndex \cap DOMAIN archive = {}

MapOK ==
  /\ \A id \in DOMAIN written : written[id].id = id
  /\ \A id \in DOMAIN archive : archive[id] = written[id]
  /\ \A id \in DOMAIN memoryIndex : memoryIndex[id] \in DOMAIN memories /\ memories[memoryIndex[id]] = written[id]
  /\ \A row \in DOMAIN memories : memories[row].id \in DOMAIN memoryIndex /\ memoryIndex[memories[row].id] = row

CountsOK == Cardinality(DOMAIN memories) + Cardinality(DOMAIN archive) = Wrote

MemoryInv == MemoryTypes /\ MapOK /\ CountsOK

LEMMA MemoryFinite ==
  ASSUME MemoryTypes
  PROVE  /\ IsFiniteSet(DOMAIN memories) /\ IsFiniteSet(DOMAIN archive) /\ IsFiniteSet(DOMAIN written)
         /\ Cardinality(DOMAIN memories) \in Nat /\ Cardinality(DOMAIN archive) \in Nat
<1>1. IsFiniteSet(1..Wrote)
  BY FS_Interval DEF MemoryTypes
<1>2. DOMAIN memories \subseteq 1..Wrote /\ DOMAIN archive \subseteq 1..Wrote /\ DOMAIN written = 1..Wrote
  BY DEF MemoryTypes
<1> QED
  BY <1>1, <1>2, FS_Subset, FS_CardinalityType

LEMMA MemoryInit == ASSUME Kept!Init PROVE MemoryInv
<1>1. DOMAIN written = {} /\ DOMAIN memories = {} /\ DOMAIN archive = {} /\ DOMAIN memoryIndex = {}
  BY DEF Kept!Init
<1>2. Wrote = 0 /\ 1..0 = {}
  BY <1>1, FS_EmptySet DEF Wrote
<1>3. MemoryTypes /\ MapOK
  BY <1>1, <1>2 DEF MemoryTypes, MapOK
<1>4. CountsOK
  BY <1>1, <1>2, FS_EmptySet DEF CountsOK
<1> QED
  BY <1>3, <1>4 DEF MemoryInv

(* A new row's number is none that is taken.                                  *)
LEMMA NextIsNew ==
  ASSUME MemoryTypes
  PROVE  Kept!NextRowid \in 1..(Wrote + 1) /\ Kept!NextRowid \notin DOMAIN memories
<1>1. CASE DOMAIN memories = {}
  BY <1>1 DEF Kept!NextRowid, MemoryTypes
<1>2. CASE DOMAIN memories # {}
  <2>5. Kept!Max(DOMAIN memories) \in DOMAIN memories /\ \A row \in DOMAIN memories : Kept!Max(DOMAIN memories) >= row
    BY <1>2, GreatestOf DEF Kept!Max, MemoryTypes
  <2>6. Kept!NextRowid = Kept!Max(DOMAIN memories) + 1
    BY <1>2 DEF Kept!NextRowid
  <2> QED
    BY <2>5, <2>6 DEF MemoryTypes
<1> QED
  BY <1>1, <1>2

LEMMA WriteKeeps == ASSUME MemoryInv, NEW type, NEW words, Kept!Write(type, words) PROVE MemoryInv'
<1> DEFINE id == Wrote + 1
           row == Kept!NextRowid
           new == Kept!Memory(id, type, words)
<1>1. /\ memories' = Kept!Extended(memories, row, new)
      /\ memoryIndex' = Kept!Extended(memoryIndex, id, row)
      /\ written' = Kept!Extended(written, id, new)
      /\ UNCHANGED archive
  BY CardinalityIsOne DEF Kept!Write, Wrote
<1>2. new.id = id
  BY DEF Kept!Memory
<1> HIDE DEF new
<1>3. row \in 1..(Wrote + 1) /\ row \notin DOMAIN memories
  BY NextIsNew DEF MemoryInv
<1> HIDE DEF row
<1>4. Wrote \in Nat /\ id \notin DOMAIN written /\ DOMAIN written = 1..Wrote
  BY DEF MemoryInv, MemoryTypes
<1>5. id \notin DOMAIN archive /\ id \notin DOMAIN memoryIndex
  BY <1>4 DEF MemoryInv, MemoryTypes
<1>6. /\ DOMAIN written' = DOMAIN written \cup {id} /\ DOMAIN memories' = DOMAIN memories \cup {row}
      /\ DOMAIN memoryIndex' = DOMAIN memoryIndex \cup {id} /\ DOMAIN archive' = DOMAIN archive
  BY <1>1 DEF Kept!Extended
<1>7. /\ \A i \in DOMAIN written : written'[i] = written[i]
      /\ \A r \in DOMAIN memories : memories'[r] = memories[r]
      /\ \A i \in DOMAIN memoryIndex : memoryIndex'[i] = memoryIndex[i]
      /\ written'[id] = new /\ memories'[row] = new /\ memoryIndex'[id] = row
  BY <1>1, <1>3, <1>4, <1>5 DEF Kept!Extended
<1>8. Wrote' = id /\ Wrote' \in Nat /\ DOMAIN written' = 1..Wrote'
  <2>1. IsFiniteSet(DOMAIN written)
    BY MemoryFinite DEF MemoryInv
  <2>2. Cardinality(DOMAIN written \cup {id}) = Cardinality(DOMAIN written) + 1
    BY <1>4, <2>1, FS_AddElement
  <2>3. Wrote' = id
    BY <1>6, <2>2 DEF Wrote
  <2> QED
    BY <1>4, <1>6, <2>3
<1>9. MemoryTypes'
  <2>1. DOMAIN memories' \subseteq 1..Wrote'
    BY <1>3, <1>4, <1>6, <1>8 DEF MemoryInv, MemoryTypes
  <2>2. DOMAIN memoryIndex' \cup DOMAIN archive' = DOMAIN written' /\ DOMAIN memoryIndex' \cap DOMAIN archive' = {}
    BY <1>5, <1>6 DEF MemoryInv, MemoryTypes
  <2> QED
    BY <1>8, <2>1, <2>2 DEF MemoryTypes
<1> HIDE DEF id
<1>10. MapOK'
  <2>1. DOMAIN archive \subseteq DOMAIN written /\ DOMAIN memoryIndex \subseteq DOMAIN written
    BY DEF MemoryInv, MemoryTypes
  <2>2. \A i \in DOMAIN written' : written'[i].id = i
    BY <1>2, <1>6, <1>7 DEF MemoryInv, MapOK
  <2>3. \A i \in DOMAIN archive' : archive'[i] = written'[i]
    BY <1>1, <1>7, <2>1 DEF MemoryInv, MapOK
  <2>4. \A i \in DOMAIN memoryIndex' : memoryIndex'[i] \in DOMAIN memories' /\ memories'[memoryIndex'[i]] = written'[i]
    BY <1>6, <1>7, <2>1 DEF MemoryInv, MapOK
  <2>5. \A r \in DOMAIN memories' : memories'[r].id \in DOMAIN memoryIndex' /\ memoryIndex'[memories'[r].id] = r
    BY <1>2, <1>6, <1>7 DEF MemoryInv, MapOK
  <2> QED
    BY <2>2, <2>3, <2>4, <2>5 DEF MapOK
<1>11. CountsOK'
  <2>1. Cardinality(DOMAIN memories') = Cardinality(DOMAIN memories) + 1
    BY <1>3, <1>6, MemoryFinite, FS_AddElement DEF MemoryInv
  <2> QED
    BY <1>4, <1>6, <1>8, <2>1, MemoryFinite DEF CountsOK, MemoryInv, id
<1> QED
  BY <1>9, <1>10, <1>11 DEF MemoryInv

LEMMA DeleteKeeps == ASSUME MemoryInv, NEW id \in DOMAIN memoryIndex, Kept!Delete(id) PROVE MemoryInv'
<1> DEFINE row == memoryIndex[id]
<1>1. row \in DOMAIN memories /\ memories[row] = written[id] /\ written[id].id = id
  BY DEF MemoryInv, MemoryTypes, MapOK
<1>2. Kept!ById(id) = {memories[row]}
  BY <1>1 DEF Kept!ById
<1>3. /\ archive' = Kept!Extended(archive, id, memories[row])
      /\ memories' = [r \in DOMAIN memories \ {row} |-> memories[r]]
      /\ memoryIndex' = [i \in DOMAIN memoryIndex \ {id} |-> memoryIndex[i]]
      /\ UNCHANGED written
  <2>1. (CHOOSE m \in Kept!ById(id) : TRUE) = memories[row]
    BY <1>2
  <2> QED
    BY <2>1 DEF Kept!Delete, Kept!Restrict
<1> HIDE DEF row
<1>4. id \in DOMAIN written /\ id \notin DOMAIN archive
  BY DEF MemoryInv, MemoryTypes
<1>5. /\ DOMAIN archive' = DOMAIN archive \cup {id} /\ DOMAIN memories' = DOMAIN memories \ {row}
      /\ DOMAIN memoryIndex' = DOMAIN memoryIndex \ {id} /\ DOMAIN written' = DOMAIN written
  BY <1>3 DEF Kept!Extended
<1>6. /\ archive'[id] = written[id] /\ \A i \in DOMAIN archive : archive'[i] = archive[i]
      /\ \A r \in DOMAIN memories' : memories'[r] = memories[r]
      /\ \A i \in DOMAIN memoryIndex' : memoryIndex'[i] = memoryIndex[i]
  BY <1>1, <1>3, <1>4 DEF Kept!Extended
<1>7. MemoryTypes'
  BY <1>4, <1>5 DEF MemoryInv, MemoryTypes, Wrote
<1>8. MapOK'
  <2>1. \A i \in DOMAIN archive' : archive'[i] = written'[i]
    BY <1>3, <1>5, <1>6 DEF MemoryInv, MapOK
  <2>2. \A i \in DOMAIN memoryIndex' : memoryIndex'[i] \in DOMAIN memories' /\ memories'[memoryIndex'[i]] = written'[i]
    <3> SUFFICES ASSUME NEW i \in DOMAIN memoryIndex, i # id
                 PROVE  memoryIndex[i] \in DOMAIN memories' /\ memories'[memoryIndex[i]] = written[i]
      BY <1>3, <1>5, <1>6
    <3>1. i \in DOMAIN written /\ memoryIndex[i] \in DOMAIN memories /\ memories[memoryIndex[i]] = written[i] /\ written[i].id = i
      BY DEF MemoryInv, MemoryTypes, MapOK
    <3>2. memoryIndex[i] # row
      BY <1>1, <3>1
    <3> QED
      BY <1>5, <1>6, <3>1, <3>2
  <2>3. \A r \in DOMAIN memories' : memories'[r].id \in DOMAIN memoryIndex' /\ memoryIndex'[memories'[r].id] = r
    <3> SUFFICES ASSUME NEW r \in DOMAIN memories, r # row
                 PROVE  memories[r].id \in DOMAIN memoryIndex' /\ memoryIndex'[memories[r].id] = r
      BY <1>5, <1>6
    <3>1. memories[r].id \in DOMAIN memoryIndex /\ memoryIndex[memories[r].id] = r
      BY DEF MemoryInv, MapOK
    <3>2. memories[r].id # id
      BY <3>1 DEF row
    <3> QED
      BY <1>5, <1>6, <3>1, <3>2
  <2> QED
    BY <1>3, <2>1, <2>2, <2>3 DEF MemoryInv, MapOK
<1>9. CountsOK'
  <2>1. Cardinality(DOMAIN memories \ {row}) = Cardinality(DOMAIN memories) - 1
    BY <1>1, MemoryFinite, FS_RemoveElement DEF MemoryInv
  <2>2. Cardinality(DOMAIN archive \cup {id}) = Cardinality(DOMAIN archive) + 1
    BY <1>4, MemoryFinite, FS_AddElement DEF MemoryInv
  <2>3. Cardinality(DOMAIN memories') + Cardinality(DOMAIN archive') = Wrote
    BY <1>5, <2>1, <2>2, MemoryFinite DEF MemoryInv, CountsOK
  <2> QED
    BY <1>5, <2>3 DEF CountsOK, Wrote
<1> QED
  BY <1>7, <1>8, <1>9 DEF MemoryInv

LEMMA MemoryStepKeeps == ASSUME MemoryInv, Kept!Next PROVE MemoryInv'
<1>1. ASSUME NEW of, NEW cwd, Kept!AppendSession(of, cwd) PROVE MemoryInv'
  BY <1>1 DEF Kept!AppendSession, MemoryInv, MemoryTypes, MapOK, CountsOK, Wrote
<1> QED
  BY <1>1, WriteKeeps, DeleteKeeps DEF Kept!Next

LEMMA MemoryInvIsEnough == ASSUME MemoryInv PROVE Kept!StoreSound
<1>1. \A id \in DOMAIN memoryIndex : Kept!Read(id) = {written[id]} /\ id \in DOMAIN written /\ id \notin DOMAIN archive
  BY DEF MemoryInv, MemoryTypes, MapOK, Kept!Read, Kept!ById
<1>2. \A id \in DOMAIN archive : Kept!Read(id) = {}
  BY DEF MemoryInv, MemoryTypes, Kept!Read, Kept!ById
<1>3. Kept!NothingForgotten
  <2>1. \A id \in DOMAIN written : id \in DOMAIN archive \/ id \in DOMAIN memoryIndex
    BY DEF MemoryInv, MemoryTypes
  <2>2. {memories[row].id : row \in DOMAIN memories} = DOMAIN memoryIndex
    <3>1. \A id \in DOMAIN memoryIndex : memoryIndex[id] \in DOMAIN memories /\ memories[memoryIndex[id]].id = id
      BY <1>1 DEF MemoryInv, MapOK
    <3> QED
      BY <3>1 DEF MemoryInv, MapOK
  <2> QED
    BY <1>1, <1>2, <2>1, <2>2 DEF Kept!NothingForgotten, MemoryInv, MapOK
<1>4. Kept!SearchFindsTheLiving
  <2>1. ASSUME NEW row \in DOMAIN memories
        PROVE  memories[row] \in Kept!Read(memories[row].id) /\ memories[row].id \notin DOMAIN archive
    <3>1. memories[row].id \in DOMAIN memoryIndex /\ memoryIndex[memories[row].id] = row
      BY DEF MemoryInv, MapOK
    <3>2. memories[row] = written[memories[row].id]
      BY <3>1 DEF MemoryInv, MapOK
    <3> QED
      BY <1>1, <3>1, <3>2
  <2>2. Kept!Cardinality(DOMAIN memories) + Kept!Cardinality(DOMAIN archive) = Kept!Cardinality(DOMAIN written)
    BY CardinalityIsOne DEF MemoryInv, CountsOK, Wrote
  <2> QED
    BY <2>1, <2>2 DEF Kept!SearchFindsTheLiving, Kept!Search
<1> QED
  BY <1>3, <1>4 DEF Kept!StoreSound

-----------------------------------------------------------------------------
LEMMA StoresStandStill ==
  /\ SweepInv /\ UNCHANGED sweeps => SweepInv'
  /\ SchemaInv /\ UNCHANGED schema => SchemaInv'
  /\ MemoryInv /\ UNCHANGED memory => MemoryInv'
<1>1. SweepInv /\ UNCHANGED sweeps => SweepInv'
  BY DEF sweeps, SweepInv, SweepTypes, Index!Rows, Index!UnfoldedIndexed, Index!DeletesMatch
<1>2. SchemaInv /\ UNCHANGED schema => SchemaInv'
  BY DEF schema, SchemaInv, SchemaTypes, Done, Kept!AppliedOnceInOrder, OpenersOK, Kept!RefusedOverAMajor, Kept!Target
<1>3. MemoryInv /\ UNCHANGED memory => MemoryInv'
  BY DEF memory, MemoryInv, MemoryTypes, MapOK, CountsOK, Wrote
<1> QED
  BY <1>1, <1>2, <1>3

(* For any texts, hashes, builds, openers and memories, any number of processes,   *)
(* passes, faults and overlaps: the words of a message are touched only when it is *)
(* folded, and text is deleted from the mirror that is not there only when a pass   *)
(* goes over its row again; as long as no two passes overlapped, whatever threw or  *)
(* died and was made again, no word of a message is lost to search, and a folded row *)
(* leads to an earlier one and can be matched no more; a migration takes effect once *)
(* and in order, whoever has the store open finds its tables; an id reads back what  *)
(* was written under it, alive or archived, and a search finds only the living.      *)
(* [SqliteHistorySweeper, dedup.ts, migrate.ts, SqliteMemoryEngine]                   *)
THEOREM StoresAlwaysHold == Spec => []StoresHold
<1> DEFINE Inv == SweepInv /\ Calm /\ SchemaInv /\ MemoryInv
<1>1. Init => Inv
  BY SweepInit, CalmInit, SchemaInit, MemoryInit DEF Init
<1>2. Inv /\ [Next]_all => Inv'
  <2> SUFFICES ASSUME Inv, [Next]_all PROVE Inv'
    OBVIOUS
  <2>1. /\ Index!Next \/ UNCHANGED sweeps
        /\ Kept!NextSchema \/ UNCHANGED schema
        /\ Kept!Next \/ UNCHANGED memory
    BY DEF Next, all, RecordStep, BackfillStep, SweepStep, SchemaStep, MemoryStep, PastStep
  <2> QED
    BY <2>1, SweepStepKeeps, CalmStepKeeps, SchemaStepKeeps, MemoryStepKeeps, StoresStandStill
<1>3. Inv => StoresHold
  BY CalmIsEnough, SchemaInvIsEnough, MemoryInvIsEnough DEF SweepInv, StoresHold
<1> QED
  BY <1>1, <1>2, <1>3, PTL DEF Spec
=============================================================================
