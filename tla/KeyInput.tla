------------------------------ MODULE KeyInput ------------------------------
(***************************************************************************)
(* Standard input to key actions (claude-core/input.ts): mouse reports are *)
(* pulled out of the raw bytes before readline sees them, a report cut by  *)
(* a chunk's end waits for the next chunk, and a chunk that is one ESC     *)
(* byte is an Escape at once.                                              *)
(*                                                                         *)
(* Bytes are symbols: "E" the escape byte, "[" and "<", ";" "M" "m", the   *)
(* digits "4" "5" "6", and "x" for any other byte.  What a terminal sends  *)
(* is a sequence of events, each written as its bytes; where it is cut     *)
(* into chunks is not the program's to choose.                             *)
(***************************************************************************)
EXTENDS Naturals, Sequences
LOCAL INSTANCE SequencesExt

CONSTANTS
  Events,     \* what the terminal can send: [bytes, action], action "none" or a scroll
  MaxEvents   \* bound: events in one stream

VARIABLES
  stream,     \* the events sent
  wire,       \* bytes sent and not read yet
  leftover,   \* the start of a report whose end has not come
  scrolls,    \* scroll actions given to the handler
  escapes,    \* Escape actions given through the fast path
  passed,     \* bytes written through to readline
  torn        \* some chunk ended inside the three bytes that open a report

vars == <<stream, wire, leftover, scrolls, escapes, passed, torn>>

Opening == <<"E", "[", "<">>
Digits  == {"4", "5", "6"}
Take(s, n) == SubSeq(s, 1, n)
Drop(s, n) == SubSeq(s, n + 1, Len(s))
Bytes(events) == FlattenSeq([i \in DOMAIN events |-> events[i].bytes])

-----------------------------------------------------------------------------
(* parseMouseAt, over the bytes that follow the opening: three numbers with *)
(* a ";" between them, and a final byte.  It answers how many bytes are the *)
(* report's, and what it asks for; "incomplete" when the buffer ends first. *)
Number(s) == CHOOSE n \in 0..Len(s) :
  /\ \A i \in 1..n : s[i] \in Digits
  /\ n < Len(s) => s[n + 1] \notin Digits

Incomplete == [length |-> 0, action |-> "incomplete"]
Swallow(n) == [length |-> n, action |-> "none"]

Report(s) ==
  LET field[f \in 1..3] ==        \* the f-th number, from byte p on
        [p \in 0..Len(s) |->
           LET n == Number(Drop(s, p)) IN
           IF p + n >= Len(s) THEN Incomplete
           ELSE IF n = 0 THEN Swallow(3 + p)
           ELSE IF f < 3 THEN IF s[p + n + 1] = ";" THEN field[f + 1][p + n + 1] ELSE Swallow(3 + p + n)
           ELSE [length |-> 4 + p + n,
                 action |-> LET b == Take(s, Number(s)) IN
                            IF s[p + n + 1] = "M" /\ b = <<"6", "4">> THEN "scroll_up"
                            ELSE IF s[p + n + 1] = "M" /\ b = <<"6", "5">> THEN "scroll_down"
                            ELSE "none"]]
  IN  field[1][0]

(* extractMouseSequences: from the first opening on, report after report.  *)
OpensAt(s, i) == i + 2 <= Len(s) /\ SubSeq(s, i, i + 2) = Opening

Extracted(input) ==
  LET extract[i \in 1..(Len(input) + 1)] ==
        IF i > Len(input)
        THEN [actions |-> <<>>, pass |-> <<>>, remainder |-> <<>>]
        ELSE IF ~OpensAt(input, i)
        THEN [extract[i + 1] EXCEPT !.pass = <<input[i]>> \o @]
        ELSE LET report == Report(Drop(input, i + 2)) IN
             IF report.action = "incomplete"
             THEN [actions |-> <<>>, pass |-> <<>>, remainder |-> Drop(input, i - 1)]
             ELSE [extract[i + report.length] EXCEPT
                     !.actions = (IF report.action = "none" THEN <<>> ELSE <<report.action>>) \o @]
  IN  extract[1]

-----------------------------------------------------------------------------
(* onData: one chunk of n bytes, behind what was held back. *)
Chunk(n) ==
  LET got == Extracted(leftover \o Take(wire, n)) IN
  /\ n \in 1..Len(wire)
  /\ wire' = Drop(wire, n)
  /\ leftover' = got.remainder
  /\ scrolls' = scrolls \o got.actions
  /\ \/ got.pass = <<"E">> /\ escapes' = escapes + 1 /\ UNCHANGED passed
     \/ got.pass # <<"E">> /\ passed' = passed \o got.pass /\ UNCHANGED escapes
  /\ torn' = (torn \/ \E i \in 1..Len(leftover \o wire) :
                        OpensAt(leftover \o wire, i) /\ Len(leftover) + n \in {i, i + 1})
  /\ UNCHANGED stream

Init ==
  /\ stream \in UNION {[1..k -> Events] : k \in 1..MaxEvents}
  /\ wire = Bytes(stream)
  /\ leftover = <<>> /\ scrolls = <<>> /\ passed = <<>>
  /\ escapes = 0 /\ torn = FALSE

Next == \E n \in 1..Len(wire) : Chunk(n)

Spec == Init /\ [][Next]_vars

-----------------------------------------------------------------------------
(* However a stream is cut, as long as no cut falls inside an opening, the  *)
(* handler scrolls once per wheel report in the order they were sent, and   *)
(* readline sees every other byte and none of a report's: "every other      *)
(* mouse event is swallowed so its bytes never leak as stray keypresses".   *)
Sent(P(_)) == SelectSeq(stream, P)
IsReport(e) == Len(e.bytes) > 3 /\ OpensAt(e.bytes, 1)
ChunkingIsInvisible ==
  (wire = <<>> /\ ~torn) =>
    /\ leftover = <<>>
    /\ scrolls = LET wheel == Sent(LAMBDA e : e.action # "none")
                 IN  [i \in DOMAIN wheel |-> wheel[i].action]
    /\ LET keys == Bytes(Sent(LAMBDA e : ~IsReport(e))) IN
       /\ Len(passed) + escapes = Len(keys)
       /\ SelectSeq(passed, LAMBDA b : b # "E") = SelectSeq(keys, LAMBDA b : b # "E")
=============================================================================
