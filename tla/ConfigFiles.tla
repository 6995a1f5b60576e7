---------------------------- MODULE ConfigFiles ----------------------------
(***************************************************************************)
(* What the configuration's files say: the local one merged into the home  *)
(* one, and the schema over the whole.                                     *)
(*                                                                         *)
(* A content is [kind, of]: "absent", "torn" (not JSON) or "object", of a   *)
(* function from keys to [kind, of], kind "leaf", "null", "list", "object". *)
(***************************************************************************)
EXTENDS Sequences
LOCAL INSTANCE SequencesExt

CONSTANTS
  Dirs, Home,                 \* the local files, named by their directory, and the home file
  Contents,                   \* path -> the contents it may have
  Additive,                   \* the paths whose lists are concatenated
  Defaults                    \* the schema's defaults: [model, default, outside]

-----------------------------------------------------------------------------
(* config.ts: an object merges into an object at any depth, null deletes, a     *)
(* list is appended where the path says so, anything else replaces.             *)
RECURSIVE MergeAt(_, _, _)
MergeAt(home, local, path) ==
  [key \in {field \in DOMAIN home \cup DOMAIN local : field \in DOMAIN local => local[field].kind # "null"} |->
     LET at == Append(path, key) IN
     IF key \notin DOMAIN local THEN home[key]
     ELSE IF key \notin DOMAIN home \/ home[key].kind # local[key].kind THEN local[key]
     ELSE IF local[key].kind = "object" THEN [local[key] EXCEPT !.of = MergeAt(home[key].of, local[key].of, at)]
     ELSE IF local[key].kind = "list" /\ at \in Additive THEN [local[key] EXCEPT !.of = home[key].of \o @]
     ELSE local[key]]

(* readConfig: the files there are, the home one first, onto an empty object;    *)
(* one that is not JSON adds nothing but its warning.                             *)
Nothing == [field \in {} |-> 0]
Layered(layers) == FoldLeft(LAMBDA acc, layer : MergeAt(acc, layer.of, <<>>), Nothing,
                            SelectSeq(layers, LAMBDA layer : layer.kind = "object"))

(* The schema: defaults for what is absent, and no null or odd kind left. *)
Field(tree, key, kind, default) == IF key \in DOMAIN tree THEN tree[key] ELSE [kind |-> kind, of |-> default]
Zones(tree) == Field(tree, "permissions", "object", Nothing)
Parses(tree) ==
  /\ Field(tree, "model", "leaf", Defaults.model).kind = "leaf"
  /\ Field(tree, "disabledTools", "list", <<>>).kind = "list"
  /\ Zones(tree).kind = "object" /\ \A field \in DOMAIN Zones(tree).of : Zones(tree).of[field].kind = "leaf"
Parsed(tree) ==
  [model   |-> Field(tree, "model", "leaf", Defaults.model).of,
   default |-> Field(Zones(tree).of, "default", "leaf", Defaults.default).of,
   outside |-> Field(Zones(tree).of, "outside", "leaf", Defaults.outside).of,
   off     |-> ToSet(Field(tree, "disabledTools", "list", <<>>).of)]

(* What a home and a local content give: whether they parse, fit, and say.      *)
ReadConfig(layers) ==
  LET tree == Layered(layers) fits == Parses(tree) IN
  [warns |-> \E i \in DOMAIN layers : layers[i].kind = "torn",
   fits  |-> fits, config |-> IF fits THEN Parsed(tree) ELSE Defaults]
Readings == {<<home, local, ReadConfig(<<home, local>>)>> : home \in Contents[Home], local \in UNION {Contents[d] : d \in Dirs}}

-----------------------------------------------------------------------------
(* A path the local file does not speak of is the home file's, one it speaks of    *)
(* is its own; a null takes the home value away.                                    *)
MergesByPath ==
  \A h \in Contents[Home], l \in UNION {Contents[d] : d \in Dirs} :
    LET p == h.of  q == l.of  merged == MergeAt(p, q, <<>>) IN
    /\ \A field \in DOMAIN p \ DOMAIN q : merged[field] = p[field]
    /\ \A field \in DOMAIN q : field \in DOMAIN merged <=> q[field].kind # "null"
    /\ \A field \in DOMAIN p \cap DOMAIN q : (p[field].kind = "object" /\ q[field].kind = "object") =>
         \A z \in DOMAIN p[field].of \ DOMAIN q[field].of : merged[field].of[z] = p[field].of[z]
=============================================================================
