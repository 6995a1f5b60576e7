----------------------------- MODULE TypeServer -----------------------------
(***************************************************************************)
(* The type server of a block of tools: TsServerBridge, which starts one   *)
(* for the first TypeScript tool of a block and stops it when the block is *)
(* over, and TsServerClient, which talks to it.  Tools of a block run at   *)
(* once; a process may die, answer late, or still be heard of after it was *)
(* replaced.                                                                *)
(*                                                                         *)
(* Text is cut to what the parser tells apart: the length line, the end of *)
(* the header, and a body of one character.  The length line counts bytes, *)
(* so a body with a wide character is announced longer than it is.  Text   *)
(* comes a header or a body at a time: the parser finds the same however   *)
(* it is cut.                                                               *)
(***************************************************************************)
EXTENDS Naturals, Sequences

CONSTANTS
  Tools, FileOf,                    \* the TypeScript calls of a block, and the file each is about
  Requests,                         \* how many requests a tool makes once its file is open: two for diagnostics
  MaxBlocks, MaxMishaps             \* bounds; a mishap is a death or a wide character

(* A tool asks something of the file it has opened. *)
RequestsAssumption == Requests \in [Tools -> Nat \ {0}] /\ MaxBlocks \in Nat \ {0}

VARIABLES
  startPromise, block, state, waits,                   \* the bridge: its memo; a tool's state and the requests it waits for
  proc, started, seq, pending, openFiles, buffer,      \* the client; pending: seq -> tool
  alive, inbox, stdout,                                \* per process: what it has to answer, its text that is not read
  spawned, deaths, wides, answers                      \* history: processes ever, bounds, what resolved a request last

bridge == <<startPromise, block, state, waits>>
server == <<alive, inbox, stdout>>
vars == <<bridge, proc, started, seq, pending, openFiles, buffer, server, spawned, deaths, wides, answers>>

Processes == 1..MaxBlocks
None      == 0
Settled(t) == state[t] \in {"idle", "answered", "failed"}

Init ==
  /\ startPromise = FALSE /\ block = 1
  /\ state = [t \in Tools |-> "idle"] /\ waits = [t \in Tools |-> {}]
  /\ proc = None /\ started = FALSE /\ seq = 0 /\ pending = <<>> /\ openFiles = {} /\ buffer = <<>>
  /\ alive = {} /\ inbox = [p \in Processes |-> <<>>] /\ stdout = [p \in Processes |-> <<>>]
  /\ spawned = 0 /\ deaths = 0 /\ wides = 0 /\ answers = {}

-----------------------------------------------------------------------------
(* #send, for n requests of a tool. *)
Sent(t, n, from, to) ==
  /\ seq' = from + n
  /\ pending' = [s \in DOMAIN to \cup (from + 1)..(from + n) |-> IF s \in (from + 1)..(from + n) THEN t ELSE to[s]]
  /\ inbox' = [inbox EXCEPT ![proc'] = @ \o [i \in 1..n |-> from + i]]
  /\ waits' = [waits EXCEPT ![t] = (from + 1)..(from + n)]

(* #openResolved: the first tool of the block starts the server, open sends    *)
(* unless the file is open, and throws when the server has died since.         *)
Starts == ~startPromise /\ ~started
Begin(t) ==
  /\ state[t] = "idle"
  /\ startPromise' = TRUE
  /\ proc' = IF Starts THEN spawned + 1 ELSE proc
  /\ spawned' = IF Starts THEN spawned + 1 ELSE spawned
  /\ alive' = IF Starts THEN alive \cup {spawned + 1} ELSE alive
  /\ started' = (started \/ Starts)
  /\ openFiles' = IF Starts THEN {} ELSE openFiles
  /\ buffer' = IF Starts THEN <<>> ELSE buffer
  /\ IF started'
       THEN /\ state' = [state EXCEPT ![t] = IF FileOf[t] \in openFiles' THEN "asking" ELSE "opening"]
            /\ Sent(t, IF FileOf[t] \in openFiles' THEN Requests[t] ELSE 1, IF Starts THEN 0 ELSE seq, pending)
       ELSE /\ state' = [state EXCEPT ![t] = "failed"]
            /\ UNCHANGED <<seq, pending, inbox, waits>>
  /\ UNCHANGED <<block, stdout, deaths, wides, answers>>

(* A request is rejected: its tool fails with it, the tool's other one stays.  *)
Without(seqs) == [s \in DOMAIN pending \ seqs |-> pending[s]]
FailPending(seqs) ==
  /\ pending' = Without(seqs)
  /\ state' = [t \in Tools |-> IF waits[t] \cap seqs # {} /\ ~Settled(t) THEN "failed" ELSE state[t]]
  /\ waits' = [t \in Tools |-> waits[t] \ seqs]

TimesOut(s) ==
  /\ s \in DOMAIN pending
  /\ FailPending({s})
  /\ UNCHANGED <<startPromise, block, proc, started, seq, openFiles, buffer, server, spawned, deaths, wides, answers>>

-----------------------------------------------------------------------------
(* The server takes its requests in order.  One that was stopped says no more   *)
(* than it had said: that it says it late is for Data.                          *)
LengthLine(s, need) == [t |-> "L", seq |-> s, need |-> need]
HeaderEnd           == [t |-> "E", seq |-> 0, need |-> 0]
Body(s)             == [t |-> "B", seq |-> s, need |-> 0]
Answer(p, wide) ==
  /\ p \in alive /\ p = proc /\ inbox[p] # <<>>
  /\ wide => deaths + wides < MaxMishaps
  /\ LET s == Head(inbox[p]) IN
     stdout' = [stdout EXCEPT ![p] = @ \o <<LengthLine(s, IF wide THEN 2 ELSE 1), HeaderEnd, Body(s)>>]
  /\ inbox' = [inbox EXCEPT ![p] = Tail(@)]
  /\ wides' = IF wide THEN wides + 1 ELSE wides
  /\ UNCHANGED <<bridge, proc, started, seq, pending, openFiles, buffer, alive, spawned, deaths, answers>>

(* #processBuffer, with one more piece: what is left of the buffer, and    *)
(* the answer it held, 0 for none.  A header without a length is dropped, a     *)
(* body that is not one answer's is not parsable.                               *)
ProcessBuffer(text) ==
  LET ends    == {i \in DOMAIN text : text[i].t = "E"}
      end     == CHOOSE i \in ends : \A j \in ends : i <= j
      lengths == {i \in 1..(end - 1) : text[i].t = "L"}
      need    == text[CHOOSE i \in lengths : \A j \in lengths : i <= j].need
      body    == SubSeq(text, end + 1, end + need)
  IN IF ends = {} THEN [rest |-> text, answer |-> 0]
     ELSE IF lengths = {} THEN [rest |-> SubSeq(text, end + 1, Len(text)), answer |-> 0]
     ELSE IF Len(text) < end + need THEN [rest |-> text, answer |-> 0]
     ELSE [rest |-> SubSeq(text, end + need + 1, Len(text)),
           answer |-> IF Len(body) = 1 /\ body[1].t = "B" THEN body[1].seq ELSE 0]

(* The answer resolves its request; the tool goes on with it. *)
Resolve(s, p) ==
  LET t == pending[s]  rest == Without({s}) IN
  /\ answers' = {[mine |-> s \in waits[t], by |-> p, block |-> block]}
  /\ IF state[t] = "opening"
       THEN /\ openFiles' = openFiles \cup {FileOf[t]}
            /\ state' = [state EXCEPT ![t] = "asking"]
            /\ Sent(t, Requests[t], seq, rest)
       ELSE /\ pending' = rest
            /\ waits' = [waits EXCEPT ![t] = @ \ {s}]
            /\ state' = [state EXCEPT ![t] = IF @ = "asking" /\ waits[t] = {s} THEN "answered" ELSE @]
            /\ UNCHANGED <<openFiles, seq, inbox>>

Hears(p) == p = proc

Piece(text) == SubSeq(text, 1, IF Head(text).t = "L" THEN 2 ELSE 1)
Data(p) ==
  /\ stdout[p] # <<>>
  /\ stdout' = [stdout EXCEPT ![p] = SubSeq(@, Len(Piece(@)) + 1, Len(@))]
  /\ proc' = proc
  /\ IF Hears(p)
       THEN LET parsed == ProcessBuffer(buffer \o Piece(stdout[p])) IN
            /\ buffer' = parsed.rest
            /\ IF parsed.answer \in DOMAIN pending THEN Resolve(parsed.answer, p)
               ELSE UNCHANGED <<state, waits, pending, openFiles, seq, inbox, answers>>
       ELSE UNCHANGED <<buffer, state, waits, pending, openFiles, seq, inbox, answers>>
  /\ UNCHANGED <<startPromise, block, started, alive, spawned, deaths, wides>>

(* 'exit', or 'error' of a process that could not be spawned. *)
Exit(p) ==
  /\ p \in alive /\ (p = proc => deaths + wides < MaxMishaps)
  /\ alive' = alive \ {p}
  /\ deaths' = IF p = proc THEN deaths + 1 ELSE deaths
  /\ IF Hears(p) THEN FailPending(DOMAIN pending) /\ started' = FALSE ELSE UNCHANGED <<pending, state, waits, started>>
  /\ UNCHANGED <<startPromise, block, proc, seq, openFiles, buffer, inbox, stdout, spawned, wides, answers>>

-----------------------------------------------------------------------------
(* blockEnded, once every run of the block has settled: stop, and the next     *)
(* block begins.                                                                *)
BlockEnded ==
  /\ \A t \in Tools : Settled(t)
  /\ \E t \in Tools : state[t] # "idle"
  /\ block < MaxBlocks
  /\ block' = block + 1
  /\ startPromise' = FALSE
  /\ proc' = None /\ started' = FALSE /\ openFiles' = {}
  /\ pending' = <<>> /\ inbox' = [p \in Processes |-> <<>>]
  /\ state' = [t \in Tools |-> "idle"] /\ waits' = [t \in Tools |-> {}]
  /\ UNCHANGED <<seq, buffer, alive, stdout, spawned, deaths, wides, answers>>

Next ==
  \/ \E t \in Tools : Begin(t)
  \/ \E s \in DOMAIN pending : TimesOut(s)
  \/ \E p \in Processes : Data(p) \/ Exit(p)
  \/ \E p \in Processes, wide \in BOOLEAN : Answer(p, wide)
  \/ BlockEnded

(* Every request's timer fires unless it is cleared. *)
TimerFires == \E s \in DOMAIN pending : TimesOut(s)
Spec == Init /\ [][Next]_vars /\ WF_vars(TimerFires)

-----------------------------------------------------------------------------
(* What resolves a tool's request is the answer to it, by the process of its   *)
(* own block: no file is judged as it was a block ago, whatever a process that *)
(* was replaced still says.                                                     *)
AnswersAreFresh == \A a \in answers : a.mine /\ a.by = a.block

(* Nobody waits on a server that is gone: a request is pending only while the  *)
(* server of the block runs, and only for a tool of the block; and a tool that *)
(* is neither settled nor waiting does not exist.                               *)
NobodyIsLeft ==
  /\ ~started => DOMAIN pending = {}
  /\ \A s \in DOMAIN pending : s \in waits[pending[s]] /\ s <= seq
  /\ \A t \in Tools : ~Settled(t) => waits[t] # {} /\ waits[t] \subseteq DOMAIN pending
  /\ started => startPromise /\ proc # None

(* One server to a block, and none left running under the client's hand but    *)
(* the current one.                                                              *)
OneServerABlock == spawned <= block /\ (started => proc = spawned)

(* As long as a process wrote no wide character, no answer is lost in the      *)
(* framing: when all of its text is read, nothing is left over.                 *)
FramesAlign == wides = 0 /\ proc # None /\ stdout[proc] = <<>> /\ proc \in alive => buffer = <<>>

TypeServerSound == AnswersAreFresh /\ NobodyIsLeft /\ OneServerABlock /\ FramesAlign

(* Every tool settles, so every block can end. *)
ToolsSettle == \A t \in Tools : ~Settled(t) ~> Settled(t)
=============================================================================
