---------------------------- MODULE EventStream ----------------------------
(***************************************************************************)
(* One streaming request on the wire: streamMessages (http/transport.ts)   *)
(* and parseSse (http/sse.ts).  Chunks arrive cut anywhere; complete frames *)
(* are taken off the front of the buffer and yielded; what can go wrong is *)
(* sorted into the errors the retry loop tells apart.                      *)
(*                                                                         *)
(* Characters are symbols: "n" and "r" line ends, "p" a ping's event line, *)
(* "!" an error's, "#" a comment line, "(" and ")" the two halves of a data *)
(* line that parses.  A frame is [chars, means], means "message" for one   *)
(* that is to be yielded, "nothing", or "error".                           *)
(***************************************************************************)
EXTENDS Naturals, Sequences
LOCAL INSTANCE SequencesExt

CONSTANTS
  Frames,     \* the frames a server can send
  MaxFrames   \* bound: frames of one response

VARIABLES
  frames,     \* what the server sends, in order
  unread,     \* its characters that were not read yet
  cutShort,   \* the connection ends before the last of them
  buffer,
  yielded,    \* messages given to the consumer
  aborted, timedOut,   \* the two signals of the request
  outcome     \* "connecting", "reading", "ended", or the error that was thrown

vars == <<frames, unread, cutShort, buffer, yielded, aborted, timedOut, outcome>>

Chars(fs) == FlattenSeq([i \in DOMAIN fs |-> fs[i].chars])

-----------------------------------------------------------------------------
(* findFrameBoundary: the first blank line, in either line ending. *)
At(s, i, mark) == i + Len(mark) - 1 <= Len(s) /\ SubSeq(s, i, i + Len(mark) - 1) = mark
Boundaries(s) == {b \in [at : 1..Len(s), length : {2, 4}] :
                    At(s, b.at, IF b.length = 2 THEN <<"n", "n">> ELSE <<"r", "n", "r", "n">>)}
FindFrameBoundary(s) == CHOOSE b \in Boundaries(s) : \A c \in Boundaries(s) : b.at <= c.at

(* parseFrame and handleFrame: the lines of a block, without line ends and   *)
(* comments; what they make is a message, nothing, or an error.              *)
HandleBlock(block) ==
  LET fields == SelectSeq(block, LAMBDA c : c \notin {"n", "r", "#"}) IN
  IF fields = <<>> THEN "nothing"
  ELSE IF \E i \in DOMAIN fields : fields[i] = "p" THEN "nothing"
  ELSE IF \E i \in DOMAIN fields : fields[i] = "!" THEN "error"
  ELSE IF fields = <<"(", ")">> THEN "message" ELSE "error"

(* The frames at the front of a buffer, up to one that throws. *)
Take(s) ==
  LET take[rest \in {SubSeq(s, i, Len(s)) : i \in 1..(Len(s) + 1)}] ==
        IF Boundaries(rest) = {} THEN [messages |-> 0, failed |-> FALSE, rest |-> rest]
        ELSE LET b == FindFrameBoundary(rest)
                 after == SubSeq(rest, b.at + b.length, Len(rest))
                 what == HandleBlock(SubSeq(rest, 1, b.at - 1))
             IN  IF what = "error" THEN [messages |-> 0, failed |-> TRUE, rest |-> after]
                 ELSE [take[after] EXCEPT !.messages = @ + (IF what = "message" THEN 1 ELSE 0)]
  IN  take[s]

(* A last frame without its blank line still counts, if there is one. *)
Flush(s) == HandleBlock(s)

-----------------------------------------------------------------------------
(* The two catch blocks of streamMessages: a signal keeps its meaning over  *)
(* whatever it made fail, an error of the program's own passes through, and *)
(* anything else is the socket.                                             *)
Thrown(error) == IF aborted THEN "abort" ELSE IF timedOut THEN "timeout" ELSE error

(* fetch: it fails, or answers an HTTP error, or has no body. *)
Connect ==
  /\ outcome = "connecting"
  /\ outcome' \in {"reading", Thrown("connection"), "http", "connection"}
  /\ (aborted \/ timedOut) => outcome' # "reading"
  /\ UNCHANGED <<frames, unread, cutShort, buffer, yielded, aborted, timedOut>>

Read(n) ==
  /\ outcome = "reading" /\ n \in 1..Len(unread)
  /\ LET got == Take(buffer \o SubSeq(unread, 1, n)) IN
     /\ unread' = SubSeq(unread, n + 1, Len(unread))
     /\ buffer' = got.rest
     /\ yielded' = yielded + got.messages
     /\ outcome' = IF got.failed THEN Thrown("api") ELSE "reading"
  /\ UNCHANGED <<frames, cutShort, aborted, timedOut>>

(* The body is over, cleanly; the read fails; or the consumer wants no more. *)
BodyEnds ==
  /\ outcome = "reading" /\ unread = <<>>
  /\ LET last == Flush(buffer) IN
     /\ yielded' = yielded + (IF last = "message" THEN 1 ELSE 0)
     /\ outcome' = IF last = "error" THEN Thrown("api") ELSE "ended"
     /\ buffer' = <<>>
  /\ UNCHANGED <<frames, unread, cutShort, aborted, timedOut>>

ReadFails ==
  /\ outcome = "reading" /\ (unread # <<>> \/ aborted \/ timedOut)
  /\ outcome' = Thrown("interrupted")
  /\ UNCHANGED <<frames, unread, cutShort, buffer, yielded, aborted, timedOut>>

Signal ==
  /\ outcome \in {"connecting", "reading"} /\ ~aborted /\ ~timedOut
  /\ \/ aborted' = TRUE /\ UNCHANGED timedOut
     \/ timedOut' = TRUE /\ UNCHANGED aborted
  /\ UNCHANGED <<frames, unread, cutShort, buffer, yielded, outcome>>

Init ==
  /\ frames \in UNION {[1..k -> Frames] : k \in 0..MaxFrames}
  /\ \E n \in 0..Len(Chars(frames)) :
       /\ unread = SubSeq(Chars(frames), 1, n)
       /\ cutShort = (n < Len(Chars(frames)))
  /\ buffer = <<>> /\ yielded = 0
  /\ aborted = FALSE /\ timedOut = FALSE /\ outcome = "connecting"

Next == Connect \/ BodyEnds \/ ReadFails \/ Signal \/ \E n \in 1..Len(unread) : Read(n)

Spec == Init /\ [][Next]_vars

-----------------------------------------------------------------------------
Good(fs) ==
  LET errors == {i \in DOMAIN fs : fs[i].means = "error"}
      before == SelectSeq([i \in DOMAIN fs |-> IF \E j \in errors : j <= i THEN "error" ELSE fs[i].means],
                          LAMBDA m : m = "message")
  IN  Len(before)

(* A reply is what the server sent, wherever its chunks are cut: it yields  *)
(* no message from behind a frame that failed, and ends without an error    *)
(* only when every frame was good and the whole of it arrived.              *)
FramesSurviveTheCut ==
  /\ yielded <= Good(frames)
  /\ outcome = "ended" /\ ~cutShort =>
       /\ yielded = Good(frames)
       /\ \A i \in DOMAIN frames : frames[i].means # "error"
  /\ outcome = "api" => cutShort \/ \E i \in DOMAIN frames : frames[i].means = "error"

(* An abort or the timeout is never taken for an error that is retried, and *)
(* only a socket that dies is an interruption.                              *)
SignalsKeepTheirMeaning ==
  /\ outcome = "abort" => aborted
  /\ outcome = "timeout" => timedOut
  /\ outcome \in {"api", "interrupted"} => ~aborted /\ ~timedOut

WireSound == FramesSurviveTheCut /\ SignalsKeepTheirMeaning
=============================================================================
