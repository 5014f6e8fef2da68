------------------------------ MODULE Commands ------------------------------
(***************************************************************************)
(* What happens to a command before it reaches the backend                 *)
(* (Handler.Handle and tryCacheRead of proxy/handler/handler.go): the      *)
(* pre-auth gate, the tenant's rate limit, and the choice of the cache     *)
(* entry that answers it.  Composes RateLimiter with CacheKey.             *)
(*                                                                         *)
(* Commands without effect are left out: what a client may send before it  *)
(* has authenticated is answered from constants and not counted by the     *)
(* limiter, and all else is refused, or without a tenant (AllowUnauth) not *)
(* passed on.                                                              *)
(***************************************************************************)
EXTENDS RateLimiter, CacheKey, FiniteSets

CONSTANTS
    Clients,       \* client connections
    Logins,        \* what a token stands for: <<tenant, source connection>>
    NoLogin,       \* not authenticated
    Requests,      \* commands clients send, to collections with the _cache suffix
    MaxEntries     \* bound: entries in the cache

ASSUME LoginsType == \A l \in Logins : l = <<l[1], l[2]>> /\ l[1] \in Tenants
ASSUME NoLoginDistinct == NoLogin \notin Logins

\* "integer" is the kind that Plain gives to both widths, no kind of BSON.
ASSUME RequestsType ==
    \A cmd \in Requests : \A n \in cmd.body :
        /\ n.path \in Seq(STRING)
        /\ n.value = <<n.value[1], n.value[2]>> /\ n.value[1] # "integer"

VARIABLES
    session,  \* session[k]: ConnState.Authed and Tenant
    entries   \* the cache: who asked which command

commandVars == <<limiterVars, session, entries>>

Entry == [login : Logins, cmd : Requests]

CommandTypeOK ==
    /\ LimiterTypeOK
    /\ session \in [Clients -> Logins \cup {NoLogin}]
    /\ entries \subseteq Entry

CommandInit ==
    /\ LimiterInit
    /\ session = [k \in Clients |-> NoLogin]
    /\ entries = {}

\* saslStart (that succeeds: TokenAuth) and logout, which the limiter lets through.
SaslStart(k) ==
    /\ \E l \in Logins : session' = [session EXCEPT ![k] = l]
    /\ UNCHANGED <<limiterVars, entries>>

Logout(k) ==
    /\ session' = [session EXCEPT ![k] = NoLogin]
    /\ UNCHANGED <<limiterVars, entries>>

\* Evaluated once: NormalizeCommand, ShouldBypassCache and the meaning of each command,
\* the whole of it and what normalisation leaves.
Normal == [cmd \in Requests |-> NormalizeCommand(cmd.body)]
Bypass == [cmd \in Requests |-> ShouldBypassCache(cmd)]
Question == [cmd \in Requests |-> Meaning(cmd)]
QuestionLeft == [cmd \in Requests |-> MeaningLeft(cmd)]
Unclear == [cmd \in Requests |-> Ambiguous(cmd)]

\* All policies at hand have one key version.
CacheKeyFor(l, cmd) == KeyOf(l[1], l[2], cmd.ns, cmd.name, Normal[cmd], 1)
Hits(l, cmd) == {e \in entries : CacheKeyFor(e.login, e.cmd) = CacheKeyFor(l, cmd)}

RateLimited(k) ==
    /\ session[k] # NoLogin
    /\ Deny(session[k][1])
    /\ UNCHANGED <<session, entries>>

\* A command that goes past the cache, to the backend or to a cursor.
Passthrough(k, cmd) ==
    /\ session[k] # NoLogin
    /\ Allow(session[k][1])
    /\ Bypass[cmd]
    /\ UNCHANGED <<session, entries>>

\* A read the cache answers, or that is answered by the backend and stored.
CachedRead(k, cmd) ==
    LET l == session[k]
    IN  /\ l # NoLogin
        /\ Allow(l[1])
        /\ ~Bypass[cmd]
        /\ \/ Hits(l, cmd) # {} /\ UNCHANGED entries
           \/ /\ Hits(l, cmd) = {} /\ Cardinality(entries) < MaxEntries
              /\ entries' = entries \cup {[login |-> l, cmd |-> cmd]}
        /\ UNCHANGED session

\* An entry expires or is flushed.
Drop(e) ==
    /\ entries' = entries \ {e}
    /\ UNCHANGED <<limiterVars, session>>

CommandNext ==
    \/ LimiterBackground /\ UNCHANGED <<session, entries>>
    \/ \E k \in Clients :
          \/ SaslStart(k) \/ Logout(k) \/ RateLimited(k)
          \/ \E cmd \in Requests : Passthrough(k, cmd) \/ CachedRead(k, cmd)
    \/ \E e \in entries : Drop(e)

CommandSpec == CommandInit /\ [][CommandNext]_commandVars

-----------------------------------------------------------------------------
(* Properties. *)

\* A read is answered only with what its own tenant asked of its own connection.  The
\* same question always shares the entry, whatever the order of the fields, the width
\* of the integers, the session and the comment.  Another question does so only if
\* normalisation changes what at least one of the two commands means (Ambiguous), and
\* then they differ in nothing but what normalizeValue takes from below the command's
\* own fields: the order of fields, and fields that have a volatile name.
AnswersQuestion ==
    /\ CommandTypeOK
    /\ \A e \in entries, l \in Logins, cmd \in Requests :
          LET hit == e \in Hits(l, cmd)
              same == e.login = l /\ Question[e.cmd] = Question[cmd]
          IN  ~Bypass[cmd] =>
                  /\ hit => e.login = l /\ QuestionLeft[e.cmd] = QuestionLeft[cmd]
                  /\ same => hit
                  /\ hit => same \/ Unclear[cmd] \/ Unclear[e.cmd]

\* The comment on volatileTopLevel: what is stripped before hashing is "non-semantic
\* for result identity", so that commands with one key have one answer.
StrippedIsVolatile ==
    \A l \in Logins, cmd \in Requests :
        ~Bypass[cmd] => \A e \in Hits(l, cmd) : Question[e.cmd] = Question[cmd]
=============================================================================
