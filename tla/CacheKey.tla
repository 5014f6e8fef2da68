------------------------------ MODULE CacheKey ------------------------------
(***************************************************************************)
(* Which commands the cache may serve and under which key                  *)
(* (proxy/cache/key.go, proxy/command/classify.go).                        *)
(*                                                                         *)
(* A BSON document is a tree, given as the set of its nodes.  A node has   *)
(* the path of field names that leads to it (<< >> is the document itself, *)
(* the elements of an array are named "0", "1", ...), its place among the  *)
(* fields of its document (elements of an array have their place in the    *)
(* path and 0 here) and its value: <<kind, content>>, which for an inner   *)
(* node is <<"doc", "">> or <<"array", "">>.                               *)
(*                                                                         *)
(* A command is [name, ns, body]: its name, the database and the real      *)
(* collection it is for, and the document the client sent.  A key is the   *)
(* tuple of what is hashed and formatted into it: SHA-256 is taken to have *)
(* no collisions.                                                          *)
(***************************************************************************)
EXTENDS Integers, Sequences

Node(path, at, value) == [path |-> path, at |-> at, value |-> value]

volatileTopLevel == {"$db", "$clusterTime", "$readPreference", "lsid", "txnNumber",
                     "autocommit", "$comment", "comment", "maxTimeMS", "readConcern",
                     "$readConcern", "apiVersion", "apiStrict", "apiDeprecationErrors"}

\* The fields of the document itself.
Fields(body) == {n.path[1] : n \in {m \in body : Len(m.path) = 1}}

\* The filter of normalizeValue, which it applies to documents of every depth.
Filtered(body) ==
    {n \in body : \A d \in DOMAIN n.path : n.path[d] \notin volatileTopLevel}

\* 32-bit integers are widened.
Widened(v) == IF v[1] = "int32" THEN <<"int64", v[2]>> ELSE v

\* NormalizeCommand: the fields of documents, sorted by name, have no place any more.
NormalizeCommand(body) == {<<n.path, Widened(n.value)>> : n \in Filtered(body)}

\* Mutant: the source connection is no part of the key.
KeyWithoutConn(tenant, conn, ns, name, normal, version) ==
    <<tenant, ns, name, normal, version>>

\* CacheKey, of a command whose normal form is given.
KeyOf(tenant, conn, ns, name, normal, version) ==
    <<tenant, conn, ns, name, normal, version>>

-----------------------------------------------------------------------------

IsCacheableCommand(name) ==
    name \in {"find", "aggregate", "count", "estimateddocumentcount", "distinct"}

hasTxnContext(body) == Fields(body) \cap {"startTransaction", "autocommit"} # {}

\* A stage writes or never ends.
hasForbiddenAggStage(body) ==
    \E array, field \in body :
        /\ array.path = <<"pipeline">> /\ array.value[1] = "array"
        /\ Len(field.path) = 3 /\ field.path[1] = "pipeline"
        /\ field.path[3] \in {"$out", "$merge", "$changeStream"}

ShouldBypassCache(cmd) ==
    \/ hasTxnContext(cmd.body)
    \/ "txnNumber" \in Fields(cmd.body)
    \/ cmd.name = "aggregate" /\ hasForbiddenAggStage(cmd.body)
    \/ ~IsCacheableCommand(cmd.name)

-----------------------------------------------------------------------------
(* What the answer to a command depends on, against which the keys are judged. *)

\* The fields that are no part of the question are the volatile ones of the command
\* itself.
Asked(body) == {n \in body : n.path = << >> \/ n.path[1] \notin volatileTopLevel}

\* Integers compare by value.
Plain(v) == IF v[1] \in {"int32", "int64"} THEN <<"integer", v[2]>> ELSE v

\* The order of fields matters (that of a sort does) in every document but the command
\* and its filter, whose conditions hold together.
Parent(n) == SubSeq(n.path, 1, Len(n.path) - 1)
Ordered(m, n) ==
    /\ m.path # << >> /\ n.path # << >> /\ Parent(m) = Parent(n)
    /\ Parent(n) \notin {<< >>, <<"filter">>}
    /\ m.at < n.at

Order(body) ==
    {<<u[1].path, u[2].path>> :
        u \in {w \in Asked(body) \X Asked(body) : Ordered(w[1], w[2])}}

Content(body) == {<<n.path, Plain(n.value)>> : n \in Asked(body)}

Meaning(cmd) ==
    [name |-> cmd.name, ns |-> cmd.ns, content |-> Content(cmd.body), order |-> Order(cmd.body)]

\* What normalisation leaves of it: no order, no field of any depth with a volatile name.
MeaningLeft(cmd) ==
    [name |-> cmd.name, ns |-> cmd.ns,
     content |-> {<<n.path, Plain(n.value)>> : n \in Filtered(cmd.body)}]

\* Commands of which normalisation changes more than the form.
Ambiguous(cmd) == Filtered(cmd.body) # Asked(cmd.body) \/ Order(cmd.body) # {}
=============================================================================
