----------------------------- MODULE AzSessions -----------------------------
(***************************************************************************)
(* AzSessionCache for one identity of one account: a login is shared by    *)
(* whoever asks while it runs, its session serves until three quarters of  *)
(* the token's life, and from half of it a login in the background gets    *)
(* the next one.  A certificate's login has a directory of its own, an     *)
(* interactive one the identity's.                                         *)
(*                                                                         *)
(* A login fails in two ways.  az answers with a code, or is cancelled:    *)
(* the entry goes, and the next caller logs in again.  Or #doLogin throws, *)
(* for an account that is no longer configured, a file or a certificate    *)
(* that cannot be had, a directory that cannot be removed: whoever waits   *)
(* gets the error, the entry stays with its rejected promise, and so does  *)
(* the mark of a refresh.                                                  *)
(*                                                                         *)
(* Login n makes entry n and, for a certificate, directory n; the logins   *)
(* of several subscriptions are one, as the first that fails fails it.     *)
(* Times are in quarters, so the fractions stay whole.  The identity's     *)
(* type, which the configuration may change under a login, is fixed.       *)
(***************************************************************************)
EXTENDS Integers

CONSTANTS
  Callers,
  Lifetimes, Fallback,           \* a token's life in quarters, and what is assumed when az does not tell
  MaxNow, MaxLogins              \* bounds

(* What is assumed of a token that does not tell is the least a token lives, and *)
(* it is more than the quarter within which az is asked.                           *)
LifetimesAssumption ==
  /\ MaxLogins \in Nat /\ MaxNow \in Nat
  /\ Fallback \in Nat /\ Fallback > 1
  /\ Lifetimes \subseteq Nat /\ \A life \in Lifetimes : life >= Fallback

VARIABLES
  cert,                          \* the identity's type
  entry, session, refreshing,    \* the map's entry, the sessions by entry, the entries with a refresh under way
  login,                         \* per login: its step ("threw" is the last one's rejection), what it replaces, when it got through
  disk, tracked,                 \* directories there are; allConfigDirs
  now, waits, got, exited,       \* got: a caller's last session and when it got it
  newest                         \* history: the newest entry there ever was

vars == <<cert, entry, session, refreshing, login, disk, tracked, now, waits, got, exited, newest>>

Logins  == 1..MaxLogins
None    == 0
Home    == 0                                              \* an interactive identity's directory
NoLogin == [step |-> "none", stale |-> None, at |-> 0]
NoSession == [refreshAt |-> 0, hardExpireAt |-> 0, dies |-> 0]
Nothing == [session |-> None, at |-> 0]
DirOf(n) == IF cert THEN n ELSE Home
InFlight(n) == login[n].step \in {"dir", "track", "login", "lifetime", "removing"}
Front(n)    == login[n].stale = None

Init ==
  /\ cert \in BOOLEAN
  /\ entry = None /\ session = [n \in Logins |-> NoSession] /\ refreshing = {}
  /\ login = [n \in Logins |-> NoLogin]
  /\ disk = {} /\ tracked = {}
  /\ now = 0 /\ waits = [c \in Callers |-> None] /\ got = [c \in Callers |-> Nothing]
  /\ exited = FALSE /\ newest = None

-----------------------------------------------------------------------------
Fresh == CHOOSE n \in Logins : login[n].step = "none" /\ \A m \in 1..(n - 1) : login[m].step # "none"
Room  == \E n \in Logins : login[n].step = "none"
Begins(stale) == login' = [login EXCEPT ![Fresh] = [step |-> "dir", stale |-> stale, at |-> 0]]

(* #login replaces the entry at once, and its caller waits with the others. *)
Login(c) ==
  /\ Room /\ Begins(None)
  /\ entry' = Fresh /\ newest' = Fresh
  /\ waits' = [waits EXCEPT ![c] = Fresh]
  /\ UNCHANGED <<session, refreshing, got>>

(* An entry without a session is a login under way, which its callers share, or one *)
(* that threw: the promise they are given is rejected, and they have their answer.   *)
Join(c) ==
  /\ waits' = IF InFlight(entry) THEN [waits EXCEPT ![c] = entry] ELSE waits
  /\ UNCHANGED <<entry, session, refreshing, login, got, newest>>

Refreshes == cert /\ now >= session[entry].refreshAt /\ entry \notin refreshing

Hit(c) ==
  /\ got' = [got EXCEPT ![c] = [session |-> entry, at |-> now]]
  /\ IF Refreshes
       THEN Room /\ Begins(entry) /\ refreshing' = refreshing \cup {entry}
       ELSE UNCHANGED <<refreshing, login>>
  /\ UNCHANGED <<entry, session, waits, newest>>

(* A caller whose identity is not configured gets the error at once, line 94, and  *)
(* nothing changes.                                                                  *)
GetSession(c) ==
  /\ ~exited /\ waits[c] = None
  /\ IF entry = None THEN Login(c)
     ELSE IF session[entry] = NoSession THEN Join(c)
     ELSE IF now >= session[entry].hardExpireAt THEN Login(c)
     ELSE Hit(c)
  /\ UNCHANGED <<cert, disk, tracked, now, exited>>

-----------------------------------------------------------------------------
(* #doLogin, from one await to the next. *)
Goes(n, step) == login' = [login EXCEPT ![n].step = step]

MakesDir(n) ==
  /\ login[n].step = "dir"
  /\ disk' = disk \cup {DirOf(n)}
  /\ Goes(n, IF cert THEN "track" ELSE "login")
  /\ UNCHANGED <<cert, entry, session, refreshing, tracked, now, waits, got, exited, newest>>

Tracks(n) ==
  /\ login[n].step = "track"
  /\ tracked' = tracked \cup {n}
  /\ Goes(n, "login")
  /\ UNCHANGED <<cert, entry, session, refreshing, disk, now, waits, got, exited, newest>>

LogsIn(n) ==
  /\ login[n].step = "login"
  /\ login' = [login EXCEPT ![n].step = "lifetime", ![n].at = now]
  /\ UNCHANGED <<cert, entry, session, refreshing, disk, tracked, now, waits, got, exited, newest>>

(* az answers a code that is not 0, or the caller whose signal it has cancels. *)
Released(n) == [c \in Callers |-> IF waits[c] = n THEN None ELSE waits[c]]
Failed(n) ==
  /\ waits' = Released(n)
  /\ IF Front(n)
       THEN entry' = None /\ UNCHANGED refreshing
       ELSE /\ refreshing' = IF entry = login[n].stale THEN refreshing \ {entry} ELSE refreshing
            /\ UNCHANGED entry
Fails(n) ==
  /\ login[n].step = "login"
  /\ IF cert THEN Goes(n, "removing") /\ UNCHANGED <<entry, refreshing, waits>>
             ELSE Goes(n, "over") /\ Failed(n)
  /\ UNCHANGED <<cert, session, disk, tracked, now, got, exited, newest>>

(* A directory is removed: that of a login that failed, or of one nobody wants. *)
Removes(n) ==
  /\ login[n].step = "removing"
  /\ disk' = disk \ {n} /\ tracked' = tracked \ {n}
  /\ Goes(n, "over")
  /\ IF session[n] = NoSession THEN Failed(n) ELSE UNCHANGED <<entry, refreshing, waits>>
  /\ UNCHANGED <<cert, session, now, got, exited, newest>>

(* #doLogin throws: for want of the account or a directory, of the certificate, or   *)
(* because a directory stays after five attempts to remove it.  #login does not      *)
(* evict and #backgroundRefresh leaves its mark; a directory there is stays tracked. *)
Throws(n) ==
  /\ login[n].step \in {"dir", "removing"} \/ (cert /\ login[n].step = "login")
  /\ Goes(n, "threw")
  /\ waits' = Released(n)
  /\ UNCHANGED <<cert, entry, session, refreshing, disk, tracked, now, got, exited, newest>>

(* Variant: a background login replaces whatever there is. *)
ReplacesAny(n) == TRUE
StillCurrent(n) == entry = login[n].stale

(* #tokenLifetimeMs, and what becomes of the session: a front login fills its    *)
(* entry, a background one replaces the entry it was to replace.                 *)
HasSession(n, life, told) ==
  LET dies     == login[n].at + life
      lifetime == IF told /\ dies > now THEN dies - now ELSE Fallback
  IN /\ login[n].step = "lifetime"
     /\ session' = [session EXCEPT ![n] =
          [refreshAt |-> login[n].at + (lifetime \div 2), hardExpireAt |-> login[n].at + ((3 * lifetime) \div 4), dies |-> dies]]
     /\ IF Front(n)
          THEN /\ Goes(n, "over")
               /\ got' = [c \in Callers |-> IF waits[c] = n THEN [session |-> n, at |-> now] ELSE got[c]]
               /\ waits' = Released(n)
               /\ UNCHANGED <<entry, newest>>
          ELSE /\ Goes(n, IF StillCurrent(n) THEN "over" ELSE "removing")
               /\ entry' = IF StillCurrent(n) THEN n ELSE entry
               /\ newest' = IF n > newest THEN n ELSE newest
               /\ UNCHANGED <<got, waits>>
     /\ UNCHANGED <<cert, refreshing, disk, tracked, now, exited>>

Step(n) ==
  /\ ~exited
  /\ \/ MakesDir(n) \/ Tracks(n) \/ LogsIn(n) \/ Fails(n) \/ Removes(n) \/ Throws(n)
     \/ \E life \in Lifetimes, told \in BOOLEAN : HasSession(n, life, told)

(* az tells a token's life within a quarter. *)
Tick ==
  /\ now < MaxNow /\ ~exited
  /\ \A n \in Logins : login[n].step = "lifetime" => now = login[n].at
  /\ now' = now + 1
  /\ UNCHANGED <<cert, entry, session, refreshing, login, disk, tracked, waits, got, exited, newest>>

(* process 'exit' sweeps what is tracked, as far as it goes. *)
Exit ==
  /\ ~exited /\ exited' = TRUE
  /\ \E stuck \in SUBSET tracked : disk' = disk \ (tracked \ stuck)
  /\ UNCHANGED <<cert, entry, session, refreshing, login, tracked, now, waits, got, newest>>

SomeStep == \E n \in Logins : Step(n)
Next == SomeStep \/ Tick \/ Exit \/ \E c \in Callers : GetSession(c)
Spec == Init /\ [][Next]_vars /\ WF_vars(SomeStep)

-----------------------------------------------------------------------------
(* A session is alive when it is handed out, given that a token lives at least *)
(* as long as what is assumed of one that does not tell, and that reading its   *)
(* life takes less than a quarter of it.                                        *)
AliveWhenServed ==
  \A c \in Callers : got[c].session # None => got[c].at < session[got[c].session].dies

(* One login at a time for those who wait, and it is the one they wait for, so   *)
(* that no caller waits for a login that is over or threw; no refresh puts an     *)
(* older session in a newer one's place.                                          *)
OneLogin ==
  /\ \A n \in Logins : InFlight(n) /\ Front(n) => entry = n
  /\ \A c \in Callers : waits[c] # None => waits[c] = entry /\ InFlight(entry)
  /\ entry \in {None, newest}

(* One refresh to an entry. *)
OneRefresh ==
  \A m, n \in Logins : (InFlight(m) /\ InFlight(n) /\ ~Front(m) /\ login[m].stale = login[n].stale) => m = n

(* A login that fails leaves nothing in the way of the next: an entry that can    *)
(* neither serve nor be waited for, and a refresh that is marked and not under    *)
(* way, are of a login that threw, and of no other failure.                       *)
OnlyThrowsStick ==
  /\ entry # None /\ session[entry] = NoSession => InFlight(entry) \/ login[entry].step = "threw"
  /\ entry \in refreshing => \E n \in Logins : login[n].stale = entry /\ (InFlight(n) \/ login[n].step = "threw")

(* What was handed out has its directory as long as the process lives, and one    *)
(* that is there is one the exit sweeps, a throwing login's too, or was just made. *)
DirsKept ==
  /\ ~exited => \A c \in Callers : got[c].session # None => DirOf(got[c].session) \in disk
  /\ ~exited /\ entry # None /\ session[entry] # NoSession => DirOf(entry) \in disk
  /\ disk \subseteq {Home} \cup tracked \cup {n \in Logins : login[n].step = "track"}

AzSound == OneLogin /\ OneRefresh /\ OnlyThrowsStick /\ DirsKept /\ AliveWhenServed

(* The comment of the join, AzSessionCache.ts:78, has an entry without a session    *)
(* resolving, or failed and about to be evicted.  It does not hold: the entry of a   *)
(* login that threw is never evicted.                                                *)
FailedIsEvicted == entry # None => session[entry] # NoSession \/ InFlight(entry)

(* Whoever asked gets an answer, a session or an error, or the process is over. *)
CallersAnswered == \A c \in Callers : waits[c] # None ~> waits[c] = None \/ exited
=============================================================================
