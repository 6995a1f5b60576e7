--------------------------- MODULE ConversationList ---------------------------
(***************************************************************************)
(* The conversation view: ConversationListState (rows, selection, peek),   *)
(* the key and F3 handlers that drive it, and the two loaders that fill it *)
(* behind: the summary walk, memoised by file size and cut short by a      *)
(* newer walk, and the peek read.                                          *)
(*                                                                         *)
(* An audit file only grows: file[c] counts what it holds, and stands for  *)
(* its size and for the time of its last activity alike.                   *)
(***************************************************************************)
EXTENDS Naturals, Sequences, FiniteSets

CONSTANTS
  Convs,        \* conversation ids
  Start,        \* the one the process starts on
  None,         \* no conversation, no summary
  MaxChanges,   \* bound: what happens to the store, the files and the process meanwhile
  MaxRefreshes  \* bound: visits to the view

VARIABLES
  stored,     \* the session store's ids for this directory, newest first
  current,    \* the conversation the process is on
  file,       \* each conversation's audit file
  changes,    \* history: how much has happened meanwhile
  active,     \* AppModeState: the view is on screen
  entries, selected, peeked, peek, enteredId,   \* ConversationListState; selected from 0
  cache,      \* ConversationSummaryLoader: what it has memoised, and for which size
  walks,      \* the walks under way, walk g being generation g's
  peekReads,  \* peek reads under way
  unread      \* history: conversations whose summary read failed in the last walk

state == <<entries, selected, peeked, peek, enteredId>>
world == <<stored, current, file, changes>>
vars  == <<world, active, state, cache, walks, peekReads, unread>>

Done == [rest |-> <<>>, reading |-> None]

SelectedId   == IF selected < Len(entries) THEN entries[selected + 1].id ELSE None
Listed(c)    == \E i \in DOMAIN entries : entries[i].id = c
IndexOf(es, c) == CHOOSE i \in DOMAIN es : es[i].id = c
SummaryOf(c) == IF Listed(c) THEN entries[IndexOf(entries, c)].summary ELSE None

-----------------------------------------------------------------------------
(* #reorder: latest activity first, rows without a summary or with an empty *)
(* one last, otherwise in the order given; the selection follows its id.    *)
Activity(e) == IF e.summary = None THEN 0 ELSE e.summary
Sorted(es) ==
  LET ahead(i) == {j \in DOMAIN es : \/ Activity(es[j]) > Activity(es[i])
                                     \/ Activity(es[j]) = Activity(es[i]) /\ j < i}
  IN  [k \in DOMAIN es |-> es[CHOOSE i \in DOMAIN es : Cardinality(ahead(i)) = k - 1]]

(* Variant: rows sort themselves away from under the selection. *)
ReorderRows(es, keep) ==
  /\ entries' = Sorted(es)
  /\ selected' = IF selected < Len(es) THEN selected ELSE 0

Reorder(es, keep) ==
  /\ entries' = Sorted(es)
  /\ selected' = IF \E i \in DOMAIN es : es[i].id = keep THEN IndexOf(Sorted(es), keep) - 1 ELSE 0

(* setSummary: an id no longer listed has no row to fill. *)
SetSummary(c, summary) ==
  IF Listed(c)
  THEN /\ Reorder([i \in DOMAIN entries |->
                     IF entries[i].id = c THEN [id |-> c, summary |-> summary] ELSE entries[i]],
                  SelectedId)
       /\ UNCHANGED <<peeked, peek, enteredId>>
  ELSE UNCHANGED state

(* setPeek: ignored once the operator has moved on. *)
SetPeek(c) ==
  /\ peek' = IF peeked /\ SelectedId = c THEN c ELSE peek
  /\ UNCHANGED <<entries, selected, peeked, enteredId>>

-----------------------------------------------------------------------------
(* ConversationNavHandler: apply the action, then read for an open peek     *)
(* that has no content.                                                     *)
ReadPeek ==
  peekReads' = IF peeked' /\ peek' = None /\ entries # <<>>
               THEN peekReads \cup {entries[selected' + 1].id} ELSE peekReads

Move(target) ==
  /\ active /\ entries # <<>>
  /\ enteredId' = None
  /\ LET last == Len(entries) - 1
         next == IF target > last THEN last ELSE target
     IN  /\ selected' = next
         /\ peek' = IF next = selected THEN peek ELSE None
  /\ UNCHANGED <<entries, peeked>>
  /\ ReadPeek
  /\ UNCHANGED <<world, active, cache, walks, unread>>

Key == \E target \in {0, selected + 1, Len(entries)} \cup (IF selected > 0 THEN {selected - 1} ELSE {0}) :
         Move(target)

TogglePeek ==
  /\ active /\ entries # <<>>
  /\ peeked' = ~peeked /\ peek' = None
  /\ UNCHANGED <<entries, selected, enteredId>>
  /\ ReadPeek
  /\ UNCHANGED <<world, active, cache, walks, unread>>

(* F3: enterAt when coming from another view; then the list is rebuilt from *)
(* the store (setEntries) and a new walk starts.                            *)
Refresh ==
  /\ Len(walks) < MaxRefreshes
  /\ LET entered == IF active THEN enteredId ELSE current
         keep    == IF entered # None THEN entered ELSE SelectedId
     IN  /\ enteredId' = entered
         /\ Reorder([i \in DOMAIN stored |-> [id |-> stored[i], summary |-> SummaryOf(stored[i])]], keep)
  /\ peeked' = (active /\ peeked)
  /\ peek' = IF active THEN peek ELSE None
  /\ active' = TRUE
  /\ walks' = Append(walks, [rest |-> stored, reading |-> None])
  /\ unread' = {}
  /\ UNCHANGED <<world, cache, peekReads>>

Leave ==
  /\ active /\ active' = FALSE
  /\ UNCHANGED <<world, state, cache, walks, peekReads, unread>>

-----------------------------------------------------------------------------
(* Variant: the newest walk may stop too. *)
AnyWalkStops(g) ==
  /\ walks[g].rest # <<>> /\ walks[g].reading = None
  /\ walks' = [walks EXCEPT ![g] = Done]
  /\ UNCHANGED <<world, active, state, cache, peekReads, unread>>

(* ConversationSummaryLoader.#walk.  A walk stops between two files once it *)
(* is not the newest; it never stops inside one.                            *)
Advance(g) == walks' = [walks EXCEPT ![g] = [rest |-> Tail(@.rest), reading |-> None]]
Memoise(c, size, summary) == cache' = [cache EXCEPT ![c] = [size |-> size, summary |-> summary]]

WalkStops(g) ==
  /\ walks[g].rest # <<>> /\ walks[g].reading = None /\ g # Len(walks)
  /\ walks' = [walks EXCEPT ![g] = Done]
  /\ UNCHANGED <<world, active, state, cache, peekReads, unread>>

(* The size is taken first: a hit answers from the memo, a file that is not *)
(* there is memoised as empty, any other is read.                           *)
WalkStats(g) ==
  /\ walks[g].rest # <<>> /\ walks[g].reading = None /\ g = Len(walks)
  /\ LET c == Head(walks[g].rest) IN
     \/ /\ file[c] = 0
        /\ Memoise(c, 0, 0) /\ SetSummary(c, 0) /\ Advance(g)
     \/ /\ file[c] > 0 /\ cache[c].size = file[c]
        /\ SetSummary(c, cache[c].summary) /\ Advance(g)
        /\ UNCHANGED cache
     \/ /\ file[c] > 0 /\ cache[c].size # file[c]
        /\ walks' = [walks EXCEPT ![g].reading = file[c]]
        /\ UNCHANGED <<state, cache>>
  /\ UNCHANGED <<world, active, peekReads, unread>>

(* The bytes were read at some moment since; the file may have grown. *)
WalkReads(g) ==
  /\ walks[g].reading # None
  /\ LET c == Head(walks[g].rest) IN
     \E bytes \in walks[g].reading..file[c] :
       /\ Memoise(c, walks[g].reading, bytes)
       /\ SetSummary(c, bytes)
  /\ Advance(g)
  /\ UNCHANGED <<world, active, peekReads, unread>>

WalkFails(g) ==
  /\ walks[g].reading # None
  /\ unread' = IF g = Len(walks) THEN unread \cup {Head(walks[g].rest)} ELSE unread
  /\ Advance(g)
  /\ UNCHANGED <<world, active, state, cache, peekReads>>

PeekReads(c) ==
  /\ c \in peekReads
  /\ peekReads' = peekReads \ {c}
  /\ SetPeek(c) \/ UNCHANGED state       \* or the read failed
  /\ UNCHANGED <<world, active, cache, walks, unread>>

-----------------------------------------------------------------------------
(* What happens meanwhile: a turn writes its audit file, conversations come *)
(* into the store and leave it (another process, another directory), and    *)
(* the process moves to another conversation.                               *)
Write(c) == file' = [file EXCEPT ![c] = @ + 1] /\ UNCHANGED <<stored, current>>

StoreChanges(c) ==
  /\ stored' = IF \E i \in DOMAIN stored : stored[i] = c
               THEN SelectSeq(stored, LAMBDA d : d # c) ELSE <<c>> \o stored
  /\ UNCHANGED <<current, file>>

MoveTo(c) == c # current /\ current' = c /\ UNCHANGED <<stored, file>>

Meanwhile ==
  /\ changes < MaxChanges
  /\ changes' = changes + 1
  /\ \E c \in Convs : Write(c) \/ StoreChanges(c) \/ MoveTo(c)
  /\ UNCHANGED <<active, state, cache, walks, peekReads, unread>>

Init ==
  /\ stored \in {<<>>} \cup {p \in Convs \X Convs : p[1] # p[2]}
  /\ current = Start /\ file \in {[c \in Convs |-> n] : n \in 0..1} /\ changes = 0
  /\ active = FALSE
  /\ entries = <<>> /\ selected = 0 /\ peeked = FALSE /\ peek = None /\ enteredId = None
  /\ cache = [c \in Convs |-> [size |-> None, summary |-> None]]
  /\ walks = <<>> /\ peekReads = {} /\ unread = {}

Loading == \E g \in DOMAIN walks : WalkStops(g) \/ WalkStats(g) \/ WalkReads(g) \/ WalkFails(g)

Next ==
  \/ Key \/ TogglePeek \/ Refresh \/ Leave
  \/ Loading \/ \E c \in Convs : PeekReads(c)
  \/ Meanwhile

(* File reads settle: the promises the walks wait on. *)
FairSpec == Init /\ [][Next]_vars /\ WF_vars(Loading)

-----------------------------------------------------------------------------
(* A memo is never older than the size it is kept for, however the file     *)
(* grows between the stat and the read; so a visit answered from the memo   *)
(* shows what the file holds.                                               *)
MemoIsFresh == \A c \in Convs : cache[c].size # None => cache[c].summary >= cache[c].size

(* The list holds each conversation once, the selection names a row, and    *)
(* content is shown only under an open peek.                                *)
RowsSound ==
  /\ \A i, j \in DOMAIN entries : entries[i].id = entries[j].id => i = j
  /\ selected < Len(entries) \/ (entries = <<>> /\ selected = 0)
  /\ peek # None => peeked

ListSound == MemoIsFresh /\ RowsSound

(* "rows settle as their summaries arrive": rows sort themselves under the  *)
(* operator, who only loses the selected conversation by a key or a visit.  *)
SelectionFollowsItsRow ==
  [][Loading \/ (\E c \in Convs : PeekReads(c)) => SelectedId' = SelectedId]_vars

(* Once the visits are over every row has been summarised, or its read has  *)
(* failed: no walk that stops leaves rows to a newer one that skips them.   *)
RowsFill == <>[](\A i \in DOMAIN entries : entries[i].summary # None \/ entries[i].id \in unread)

(* ConversationListState.ts: "a slow peek can never appear under a           *)
(* conversation it does not belong to".  A visit that rebuilds the list puts *)
(* the selection elsewhere and keeps the content that was open.              *)
PeekBelongs == peek # None => peek = SelectedId
=============================================================================
