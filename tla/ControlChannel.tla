--------------------------- MODULE ControlChannel ---------------------------
(***************************************************************************)
(* The channel the SDK's messages go through (ControlChannel.ts): a queue  *)
(* and a pump per subscriber, a handler that may fail, and may itself send *)
(* from its synchronous part, and drain() for everybody who waits until    *)
(* nothing is left.                                                        *)
(***************************************************************************)
EXTENDS Naturals, Sequences, FiniteSets, Functions

CONSTANTS
  Subs,       \* subscribers, 1..n in the order they subscribed
  MaxSends,   \* bound: messages
  MaxDrains   \* bound: drain() calls

SubsAssumption == Subs \subseteq Nat \ {0} /\ 1 \in Subs

VARIABLES
  pump,             \* per subscriber: [queue, running, handling, handled], the message its handler
                    \* has, 0 for none, and as history the messages the handler was given
  closed,
  drainWaiters,     \* drains that wait, each with the number of messages sent before it
  drained,          \* the ones that were resolved
  sends             \* messages sent, 1..sends in the order of the calls

vars == <<pump, closed, drainWaiters, drained, sends>>

(* #runPump's turn: shift the next message and call the handler with it. *)
Shift(p) ==
  [queue    |-> Tail(p.queue), running |-> TRUE,
   handling |-> Head(p.queue), handled |-> Append(p.handled, Head(p.queue))]

(* A subscriber's part of send: push, and start the pump if it rests.  What *)
(* it is sent before its handler returns it is sent in one.                 *)
Push(p, msgs) ==
  IF p.running THEN [p EXCEPT !.queue = @ \o msgs] ELSE Shift([p EXCEPT !.queue = @ \o msgs])

(* send: a handler that is started here may send at once; its message then  *)
(* reaches the later subscribers first.                                     *)
Send ==
  /\ ~closed /\ sends < MaxSends
  /\ \/ /\ pump' = [sub \in Subs |-> Push(pump[sub], <<sends + 1>>)]
        /\ sends' = sends + 1
     \/ /\ sends + 2 <= MaxSends
        /\ \E sender \in Subs :
             /\ ~pump[sender].running
             /\ pump' = [sub \in Subs |-> Push(pump[sub], IF sub <= sender THEN <<sends + 1, sends + 2>>
                                                          ELSE <<sends + 2, sends + 1>>)]
        /\ sends' = sends + 2
  /\ UNCHANGED <<closed, drainWaiters, drained>>

Close == ~closed /\ closed' = TRUE
         /\ UNCHANGED <<pump, drainWaiters, drained, sends>>

IsIdle(pumps) == \A sub \in Subs : pumps[sub].queue = <<>> /\ ~pumps[sub].running

Drain ==
  /\ Cardinality(drained) + Cardinality(drainWaiters) < MaxDrains
  /\ LET d == [drain |-> Cardinality(drained) + Cardinality(drainWaiters), sent |-> sends] IN
     IF IsIdle(pump) THEN drained' = drained \cup {d} /\ UNCHANGED drainWaiters
     ELSE drainWaiters' = drainWaiters \cup {d} /\ UNCHANGED drained
  /\ UNCHANGED <<pump, closed, sends>>

(* Variant: the pump looks at its own queue only. *)
WakesAlone(pumps) == TRUE

(* Who waits for the channel to drain waits for every pump. *)
Wakes(pumps) == IsIdle(pumps)

(* A handler settles, well or not; its pump takes the next message, or rests *)
(* and, when all rest, resolves every drain.                                 *)
HandlerSettles(sub) ==
  /\ pump[sub].handling # 0
  /\ pump' = [pump EXCEPT ![sub] = IF @.queue # <<>> THEN Shift(@)
                                   ELSE [@ EXCEPT !.running = FALSE, !.handling = 0]]
  /\ IF pump[sub].queue = <<>> /\ Wakes(pump')
     THEN drained' = drained \cup drainWaiters /\ drainWaiters' = {}
     ELSE UNCHANGED <<drainWaiters, drained>>
  /\ UNCHANGED <<closed, sends>>

Init ==
  /\ pump = [sub \in Subs |-> [queue |-> <<>>, running |-> FALSE, handling |-> 0, handled |-> <<>>]]
  /\ closed = FALSE /\ drainWaiters = {} /\ drained = {} /\ sends = 0

Settling == \E sub \in Subs : HandlerSettles(sub)

Next == Send \/ Close \/ Drain \/ Settling

Spec == Init /\ [][Next]_vars /\ WF_vars(Settling)

-----------------------------------------------------------------------------
Stream(sub) == pump[sub].handled \o pump[sub].queue

(* The first subscriber, the only one the program registers, gets every     *)
(* message in the order of the sends, also those its own handler sends; any *)
(* other gets each once.  A message never waits for a pump that rests, and  *)
(* a drain that has resolved had everything before it handled.              *)
Delivered ==
  /\ Stream(1) = [i \in 1..sends |-> i]
  /\ \A sub \in Subs :
       /\ Len(Stream(sub)) = sends /\ Range(Stream(sub)) = 1..sends
       /\ pump[sub].queue # <<>> => pump[sub].running
       /\ pump[sub].running <=> pump[sub].handling # 0
  /\ \A d \in drained, sub \in Subs : 1..d.sent \subseteq Range(pump[sub].handled) \ {pump[sub].handling}

(* Whoever waits for the channel to drain gets through, if handlers settle. *)
DrainsResolve == drainWaiters # {} ~> drainWaiters = {}
=============================================================================
