------------------------------ MODULE Permissions ------------------------------
(***************************************************************************)
(* What a tool call may do.                                                *)
(*                                                                         *)
(* Whether it runs, is asked for, denied or not found, Init and Next:      *)
(* getPermission over the configured matrix and the scratchpad (Workspace), *)
(* whose root is resolved at boot and whenever the conversation moves.  A  *)
(* path is a sequence of names, its first the directory it is under: a     *)
(* conversation's scratchpad, which is that conversation, or the working   *)
(* directory.  links are the entries that are symbolic links, dirs the     *)
(* other ones.  The making of the base directory and its check are one     *)
(* step that may fail.                                                     *)
(*                                                                         *)
(* What a command may not be, InitRules and NextRules: the rules, built in *)
(* or configured, and the blocked commands, as RulesConfigGate keeps them  *)
(* over the edits of the configuration files, and as ExecV3 reads them on  *)
(* every call.  A rule's optional fields are sets of at most one element.  *)
(* A program is a sequence of path parts, its last the basename            *)
(* [name, suffix]; an argument is a sequence of tokens.                     *)
(***************************************************************************)
EXTENDS Naturals, Sequences, FiniteSets
LOCAL INSTANCE SequencesExt

CONSTANTS
  Sessions, Cwd,                \* the conversations, and the working directory
  Layouts,                      \* what may be in them: [dirs, links]
  Matrices,                     \* zone -> operation -> action
  Tools,                        \* name -> operation, of the tools there are
  WorkspaceTools, Frictionless,
  Calls,                        \* [name, paths, steps]
  MaxMoves, MaxHops             \* bounds

VARIABLES
  layout, matrix, enabled,
  id, verified, verifiedFor,    \* session.id; Workspace
  resolving,                    \* resolve() under way: who called it -> the conversation it is about
  moving, moves,
  overlapped,                   \* history: two of them were under way at once
  call                          \* the call that is judged

vars == <<layout, matrix, enabled, id, verified, verifiedFor, resolving, moving, moves, overlapped, call>>

Null    == "null"
Idle    == "idle"
Due     == "due"
Callers == {"boot", "move"}
NoCall  == [name |-> Null, paths |-> <<>>, steps |-> <<>>]

Init ==
  /\ layout \in Layouts /\ matrix \in Matrices /\ enabled \in BOOLEAN
  /\ id \in Sessions /\ verified = Null /\ verifiedFor = Null
  /\ resolving = [boot |-> Due, move |-> Idle] /\ moving = FALSE /\ moves = 0
  /\ overlapped = FALSE /\ call = NoCall

-----------------------------------------------------------------------------
(* resolve, up to its first await, and to its end. *)
Resolve(caller) ==
  /\ verified' = Null /\ verifiedFor' = id'
  /\ resolving' = [resolving EXCEPT ![caller] = IF enabled THEN id' ELSE Idle]
  /\ overlapped' = (overlapped \/ \E c \in Callers \ {caller} : resolving[c] \notin {Idle, Due})

Boot ==
  /\ resolving["boot"] = Due /\ call = NoCall
  /\ UNCHANGED id /\ Resolve("boot")
  /\ UNCHANGED <<layout, matrix, enabled, moving, moves, call>>

(* ConversationSwitcher: the id is the next conversation's, then its scratchpad *)
(* is resolved, at the latest when its history is read.                          *)
Moves(to) ==
  /\ ~moving /\ moves < MaxMoves /\ call = NoCall
  /\ id' = to /\ moving' = TRUE /\ moves' = moves + 1
  /\ UNCHANGED <<layout, matrix, enabled, verified, verifiedFor, resolving, overlapped, call>>
ResolvesMoved ==
  /\ moving /\ resolving["move"] = Idle /\ call = NoCall
  /\ UNCHANGED id /\ Resolve("move")
  /\ moving' = enabled
  /\ UNCHANGED <<layout, matrix, enabled, moves, call>>

Resolved(caller, ok) ==
  /\ resolving[caller] \notin {Idle, Due} /\ call = NoCall
  /\ verified' = IF ok THEN resolving[caller] ELSE verified
  /\ resolving' = [resolving EXCEPT ![caller] = Idle]
  /\ moving' = (moving /\ caller # "move")
  /\ UNCHANGED <<layout, matrix, enabled, id, verifiedFor, moves, overlapped, call>>

Toggle ==
  /\ call = NoCall
  /\ enabled' = ~enabled
  /\ UNCHANGED <<layout, matrix, id, verified, verifiedFor, resolving, moving, moves, overlapped, call>>

Judge ==
  /\ call = NoCall
  /\ call' \in Calls
  /\ UNCHANGED <<layout, matrix, enabled, id, verified, verifiedFor, resolving, moving, moves, overlapped>>

Next ==
  \/ Boot \/ ResolvesMoved \/ Toggle \/ Judge
  \/ \E to \in Sessions \ {id} : Moves(to)
  \/ \E caller \in Callers, ok \in BOOLEAN : Resolved(caller, ok)
Spec == Init /\ [][Next]_vars

-----------------------------------------------------------------------------
Error(why) == <<"error", why>>
IsError(p) == Len(p) = 2 /\ p[1] = "error"

(* The system's own walk of a path: through every link, to what is there. *)
RECURSIVE Walk(_, _, _)
Walk(done, rest, hops) ==
  IF rest = <<>> THEN done
  ELSE LET next == Append(done, Head(rest)) IN
       IF next \in DOMAIN layout.links
         THEN IF hops = 0 THEN Error("ELOOP") ELSE Walk(<<>>, layout.links[next] \o Tail(rest), hops - 1)
       ELSE IF next \in layout.dirs THEN Walk(next, Tail(rest), hops)
       ELSE Error("ENOENT")
RealPath(p) == Walk(<<>>, p, MaxHops)

ExistsNoFollow(p) ==
  LET parent == RealPath(Front(p)) IN
  ~IsError(parent) /\ Append(parent, Last(p)) \in layout.dirs \cup DOMAIN layout.links

(* canonicalisePath: what is there is resolved by the system, and a link to what *)
(* is not there is followed by hand.                                              *)
RECURSIVE Canonical(_, _)
Canonical(p, hops) ==
  LET there == {k \in 1..Len(p) : ExistsNoFollow(SubSeq(p, 1, k))} IN
  IF there = {} THEN p
  ELSE LET k        == CHOOSE n \in there : \A m \in there : m <= n
           current  == SubSeq(p, 1, k)
           trailing == SubSeq(p, k + 1, Len(p))
           real     == RealPath(current)
           entry    == Append(RealPath(Front(current)), Last(current))
       IN IF ~IsError(real) THEN real \o trailing
          ELSE IF real # Error("ENOENT") \/ hops = 0 THEN Error("ELOOP")
          ELSE LET target == Canonical(layout.links[entry], hops - 1) IN
               IF IsError(target) THEN target ELSE target \o trailing

Root == IF enabled /\ verifiedFor = id THEN verified ELSE Null

Under(p) == Root # Null /\ ~IsError(p) /\ Len(p) > 1 /\ p[1] = Root
ContainsPath(p) == Under(Canonical(p, MaxHops))
ContainsForDeleteAsWritten(p) == Under(p)
ContainsForDelete(p) ==
  LET parent == IF Len(p) = 1 THEN <<>> ELSE Canonical(Front(p), MaxHops) IN
  Under(IF IsError(parent) THEN parent ELSE Append(parent, Last(p)))

-----------------------------------------------------------------------------
(* getPermission *)
Approve  == 0
Ask      == 1
Deny     == 2
NotFound == 3

IsInsideCwd(p) == p[1] = Cwd

SinglePermission(c) ==
  IF c.name \in Frictionless THEN Approve
  ELSE IF c.name \notin DOMAIN Tools THEN NotFound
  ELSE IF Tools[c.name] = "escalate" THEN Ask
  ELSE LET operation == Tools[c.name]
           Held(p)   == IF operation = "delete" THEN ContainsForDelete(p) ELSE ContainsPath(p)
           paths     == ToSet(c.paths)
       IN IF c.name \in WorkspaceTools /\ paths # {} /\ \A p \in paths : Held(p) THEN Approve
          ELSE matrix[IF \E p \in paths : ~IsInsideCwd(p) THEN "outside" ELSE "default"][operation]

GetPermission(c) ==
  IF c.name # "Pipe" THEN SinglePermission(c)
  ELSE IF c.steps = <<>> THEN Ask
  ELSE LET actions == {SinglePermission(c.steps[i]) : i \in DOMAIN c.steps} IN
       CHOOSE a \in actions : \A b \in actions : b <= a

FindUnknownTools(c) ==
  {s.name : s \in {x \in (IF c.name = "Pipe" THEN ToSet(c.steps) ELSE {c}) : x.name \notin DOMAIN Tools}}

-----------------------------------------------------------------------------
(* Where a write to a path lands, what is not there being made: the walk again,   *)
(* to its end.                                                                      *)
RECURSIVE Lands(_, _, _)
Lands(done, rest, hops) ==
  IF rest = <<>> THEN done
  ELSE LET next == Append(done, Head(rest)) IN
       IF next \in DOMAIN layout.links
         THEN IF hops = 0 THEN Error("ELOOP") ELSE Lands(<<>>, layout.links[next] \o Tail(rest), hops - 1)
       ELSE Lands(next, Tail(rest), hops)
Written(p) == Lands(<<>>, p, MaxHops)
Deleted(p) ==
  LET parent == Lands(<<>>, Front(p), MaxHops) IN IF IsError(parent) THEN parent ELSE Append(parent, Last(p))

Steps(c) == IF c.name = "Pipe" THEN ToSet(c.steps) ELSE {c}
Own(p)   == ~IsError(p) /\ Len(p) > 1 /\ p[1] = id

(* A call that the configuration does not approve runs unasked only if all of it *)
(* happens in this conversation's scratchpad, and no other: that is where each    *)
(* write lands and each entry that goes is, whatever links lead there or away.    *)
(* Two resolves at once may leave another conversation's root: see the README.    *)
ByMatrix(s) ==
  s.name \in DOMAIN Tools /\ Tools[s.name] # "escalate" /\
  matrix[IF \E p \in ToSet(s.paths) : ~IsInsideCwd(p) THEN "outside" ELSE "default"][Tools[s.name]] = Approve
UnaskedStaysHome ==
  call # NoCall /\ ~overlapped /\ GetPermission(call) = Approve =>
    \A s \in Steps(call) :
      \/ s.name \in Frictionless \/ ByMatrix(s)
      \/ /\ enabled /\ s.name \in WorkspaceTools
         /\ \A p \in ToSet(s.paths) : Own(IF Tools[s.name] = "delete" THEN Deleted(p) ELSE Written(p))

(* And what is in it needs no approval: a link that was made there can go again.  *)
ScratchIsFree ==
  call # NoCall /\ Root = id /\ call.name \in WorkspaceTools /\ call.paths # <<>>
    /\ (\A p \in ToSet(call.paths) : Own(IF Tools[call.name] = "delete" THEN Deleted(p) ELSE Written(p)))
  => GetPermission(call) = Approve

(* A privileged tool is always asked for, alone or in a pipe, whatever is          *)
(* configured, unless it is refused with the rest; a tool that is not there is      *)
(* never answered as a decision, and the answer then has a name to give.            *)
NothingMasks ==
  call # NoCall =>
    /\ (\E s \in Steps(call) : s.name \in DOMAIN Tools /\ Tools[s.name] = "escalate") => GetPermission(call) # Approve
    /\ GetPermission(call) = NotFound <=> \E s \in Steps(call) : s.name \notin DOMAIN Tools \cup Frictionless \cup {"Pipe"}
    /\ GetPermission(call) = NotFound => FindUnknownTools(call) # {}
    /\ \A s \in Steps(call) : call.name = "Pipe" => GetPermission(call) >= GetPermission(s)

PermissionsSound == UnaskedStaysHome /\ ScratchIsFree /\ NothingMasks

-----------------------------------------------------------------------------
(* The rules of Exec. *)
CONSTANTS
  Raws,                       \* the sections there may be: [ok, error, rules, blocked]
  DefaultRules,               \* name -> rule
  Commands                    \* the commands to judge: sequences of [program, args]

VARIABLES
  raw,                        \* what the files say now
  current, degraded, lastError,
  valid, told                 \* history: the last valid section since boot, what the user was told last

rulesVars == <<raw, current, degraded, lastError, valid, told>>

Removed == [removed |-> TRUE]
NoError == "none"
Section(r) == [rules |-> r.rules, blocked |-> r.blocked]

-----------------------------------------------------------------------------
(* ruleConfig.ts *)
Basename(program) == Last(program)

Dash   == "-"
Equals == "="
NormaliseArg(arg) ==
  IF Len(arg) > 1 /\ arg[1] = Dash /\ arg[2] = Dash
    THEN {IF Equals \in ToSet(arg) THEN SubSeq(arg, 1, SelectInSeq(arg, LAMBDA c : c = Equals) - 1) ELSE arg}
  ELSE IF Len(arg) > 2 /\ arg[1] = Dash THEN {arg} \cup {<<Dash, c>> : c \in ToSet(Tail(arg))}
  ELSE {arg}
Flags(args) == UNION {NormaliseArg(args[i]) : i \in DOMAIN args}

MatcherFields == {"programs", "programSuffix", "argsAllOf", "argsAnyOf", "maxArgs"}
HasMatcher(rule) == \E field \in MatcherFields : rule[field] # {}

RuleConfigMatches(cmd, rule) ==
  /\ HasMatcher(rule)
  /\ \A names \in rule.programs : Basename(cmd.program).name \in names
  /\ \A suffix \in rule.programSuffix : suffix \in {"", Basename(cmd.program).suffix}
  /\ \A max \in rule.maxArgs : Len(cmd.args) <= max
  /\ \A flags \in rule.argsAllOf : flags \subseteq Flags(cmd.args)
  /\ \A flags \in rule.argsAnyOf : flags \cap Flags(cmd.args) # {}

ResolveRules(defaults, overrides) ==
  [name \in {n \in DOMAIN defaults \cup DOMAIN overrides : n \in DOMAIN overrides => overrides[n] # Removed} |->
     IF name \in DOMAIN overrides THEN overrides[name] ELSE defaults[name]]

(* An ordered subsequence. *)
CommandMatches(cmd, pattern) ==
  /\ cmd.program = pattern.program
  /\ FoldLeft(LAMBDA i, arg : IF i < Len(pattern.args) /\ arg = pattern.args[i + 1] THEN i + 1 ELSE i, 0, cmd.args)
       = Len(pattern.args)

(* buildExecRules and blockedCommandRules, as validate asks them: a rule's check *)
(* says its message, and no rule refuses with an empty one.                      *)
BlockedBy(section, commands) ==
  LET rules == ResolveRules(DefaultRules, section.rules) IN
  {<<"rule", name>> : name \in {n \in DOMAIN rules :
     rules[n].message # {""} /\ \E i \in DOMAIN commands : RuleConfigMatches(commands[i], rules[n])}}
    \cup {<<"blocked", p>> : p \in {q \in ToSet(section.blocked) : \E i \in DOMAIN commands : CommandMatches(commands[i], q)}}

-----------------------------------------------------------------------------
(* The gate: an invalid section refuses to boot, and later pins the last valid.  *)
InitRules ==
  /\ raw \in {r \in Raws : r.ok}
  /\ current = Section(raw) /\ valid = Section(raw)
  /\ degraded = FALSE /\ lastError = NoError
  /\ told = [kind |-> "nothing", error |-> NoError, section |-> Section(raw)]

IsRepeat(error) == degraded /\ lastError = error

Tell(kind, error) == told' = [kind |-> kind, error |-> error, section |-> current']

Update(r) ==
  IF ~r.ok
    THEN /\ degraded' = TRUE /\ lastError' = r.error
         /\ UNCHANGED <<current, valid>>
         /\ IF IsRepeat(r.error) THEN UNCHANGED told ELSE Tell("invalid", r.error)
    ELSE /\ degraded' = FALSE /\ lastError' = NoError
         /\ current' = Section(r) /\ valid' = Section(r)
         /\ IF degraded THEN Tell("recovered", NoError)
            ELSE IF Section(r) # current THEN Tell("changed", NoError) ELSE UNCHANGED told

(* A file is edited; the watch has everyone read, sooner or later. *)
Edit == \E r \in Raws : raw' = r /\ UNCHANGED <<current, degraded, lastError, valid, told>>
Refresh == Update(raw) /\ UNCHANGED raw

NextRules == Edit \/ Refresh
SpecRules == InitRules /\ [][NextRules]_vars

-----------------------------------------------------------------------------
(* What the user was told last is how it is: that the rules are broken, and by    *)
(* what, as long as they are, and otherwise of the very rules that are in force;  *)
(* and those are the last that were valid.                                         *)
NoticesTell ==
  /\ degraded <=> told.kind = "invalid"
  /\ degraded => told.error = lastError
  /\ told.section = current /\ current = valid

(* A rule of the configuration is the rule: what it says by a name stands alone   *)
(* for it, and names it does not say are as built in.                              *)
Refuses(rule, command) == rule # Removed /\ RuleConfigMatches(command, rule) /\ rule.message # {""}
ConfigIsTheRule ==
  \A commands \in Commands : \A name \in DOMAIN DefaultRules \cup DOMAIN current.rules :
    <<"rule", name>> \in BlockedBy(current, commands) <=>
      \E i \in DOMAIN commands :
        Refuses(IF name \in DOMAIN current.rules THEN current.rules[name] ELSE DefaultRules[name], commands[i])

(* A blocked command is blocked with whatever is put between its words; a flag is *)
(* seen in a bundle, behind a path, and with a value; and more commands, or more   *)
(* arguments where no number of them is part of a rule, never unblock.             *)
Embeds(short, long) ==
  \E f \in [DOMAIN short -> DOMAIN long] :
    /\ \A i \in DOMAIN short : short[i] = long[f[i]]
    /\ \A i, j \in DOMAIN short : i < j => f[i] < f[j]
NothingSlipsBy ==
  \A commands \in Commands :
    /\ \A p \in ToSet(current.blocked) : \A i \in DOMAIN commands :
         CommandMatches(commands[i], p) <=> commands[i].program = p.program /\ Embeds(p.args, commands[i].args)
    /\ \A i \in DOMAIN commands : BlockedBy(current, <<commands[i]>>) \subseteq BlockedBy(current, commands)
    /\ \A more \in Commands : Len(commands) = 1 /\ Len(more) = 1
                                 /\ more[1].program = commands[1].program /\ Embeds(commands[1].args, more[1].args) =>
         \A b \in BlockedBy(current, commands) :
           b \in BlockedBy(current, more)
             \/ (b[1] = "rule" /\ ResolveRules(DefaultRules, current.rules)[b[2]].maxArgs # {})

RulesSound == NoticesTell /\ ConfigIsTheRule /\ NothingSlipsBy
=============================================================================
