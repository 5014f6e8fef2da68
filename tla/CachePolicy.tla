----------------------------- MODULE CachePolicy -----------------------------
(***************************************************************************)
(* Cache policies: administrators change them in the control plane         *)
(* (PolicyService of controlplane/service/service.go over store/store.go)  *)
(* and every proxy reads them into a snapshot on a timer                   *)
(* (proxy/policy/engine.go), from which the TTL of a result is resolved.   *)
(*                                                                         *)
(* An update reads the whole row of a connection, changes one field and    *)
(* writes the whole row back, in separate statements.  A refresh reads all *)
(* rows in one statement; when that fails it falls back on one statement   *)
(* per tenant and per connection, skips what it cannot read, and replaces  *)
(* the whole snapshot.                                                     *)
(***************************************************************************)
EXTENDS Integers, FiniteSets

CONSTANTS
    Tenants, Sources, \* organizations, source connections
    TenantOf,         \* TenantOf[c]: the tenant c belongs to
    Collections,      \* collections a policy may name
    Default,          \* the field default_ttl_seconds, next to the collections
    Unset,            \* the policy has no entry for the collection
    DefaultTTL,       \* 60 s
    DefaultTTLs,      \* default TTLs administrators ask for
    CollectionTTLs,   \* TTLs administrators give a collection: not validated
    Second, Width,    \* a time.Duration counts Second units in a Width-bit integer
    Admins,           \* requests of administrators under way at the same time
    MaxUpdates,       \* bound: updates asked for
    MaxFaults         \* bound: store calls of refreshes that fail

ASSUME TenantOfType == TenantOf \in [Sources -> Tenants]
ASSUME SourcesNonempty == Sources # {}
ASSUME DefaultDistinct == Default \notin Collections
ASSUME UnsetDistinct == Unset \notin Int
ASSUME TTLTypes == /\ DefaultTTL \in Nat \ {0} /\ DefaultTTLs \subseteq Int
                   /\ CollectionTTLs \subseteq Int
ASSUME DurationType == Second \in Nat \ {0} /\ Width \in Nat \ {0}
ASSUME BoundsNat == MaxUpdates \in Nat /\ MaxFaults \in Nat

Fields == Collections \cup {Default}
Values == [Fields -> Int \cup {Unset}]

\* What GetCachePolicy returns when there is no row, and what Resolve uses when the
\* snapshot has no entry: the two need not be told apart.
NoPolicy == [vals |-> [f \in Fields |-> IF f = Default THEN DefaultTTL ELSE Unset],
             version |-> 0]
Policy == [vals : Values, version : Nat]

VARIABLES
    exists,     \* exists[c]: row of connections
    policies,   \* policies[c]: row of connection_cache_policies; version counts its writes
    updates,    \* updates asked for so far
    req,        \* req[p]: where request p is and the row it has read
    snapshot,   \* Engine.policies
    refresh,    \* the refresh under way
    faults,     \* store calls of refreshes that have failed
    acked,      \* history: acked[c][f], what the last update of f wrote
    stale,      \* history: requests that read a row which was written since
    clobbered   \* history: fields an update of another field set back

policyVars == <<exists, policies, updates, req, snapshot, refresh, faults, acked, stale, clobbered>>
adminVars == <<exists, policies, updates, req, acked, stale, clobbered>>
engineVars == <<snapshot, refresh, faults>>

\* at: the next store call.  field, value: the change.  row: the policy read.
Request == [at : {"idle", "get", "upsert"}, conn : Sources, field : Fields,
            value : Int \cup {Unset}, row : Policy]
NoRequest == [at |-> "idle", conn |-> CHOOSE c \in Sources : TRUE, field |-> Default,
              value |-> Unset, row |-> NoPolicy]

\* at: the next call.  tenants, conns: still to be read by the fallback.  next: the
\* snapshot being built.  History: skipped, what the fallback could not read; floor,
\* the versions when the refresh began.
Refresh == [at : {"idle", "list", "tenants", "conns", "policies", "install"},
            tenants : SUBSET Tenants, conns : SUBSET Sources,
            next : [Sources -> Policy], skipped : SUBSET Sources, floor : [Sources -> Nat]]
NoRefresh == [at |-> "idle", tenants |-> {}, conns |-> {},
              next |-> [c \in Sources |-> NoPolicy], skipped |-> {},
              floor |-> [c \in Sources |-> 0]]

PolicyTypeOK ==
    /\ exists \in [Sources -> BOOLEAN]
    /\ policies \in [Sources -> Policy] /\ snapshot \in [Sources -> Policy]
    /\ updates \in 0..MaxUpdates
    /\ req \in [Admins -> Request]
    /\ refresh \in Refresh
    /\ faults \in 0..MaxFaults
    /\ acked \in [Sources -> Values]
    /\ stale \subseteq Admins /\ clobbered \subseteq Sources \X Fields

PolicyInit ==
    /\ exists = [c \in Sources |-> TRUE]
    /\ policies = [c \in Sources |-> NoPolicy] /\ updates = 0
    /\ req = [p \in Admins |-> NoRequest]
    /\ snapshot = [c \in Sources |-> NoPolicy]
    /\ refresh = NoRefresh /\ faults = 0
    /\ acked = [c \in Sources |-> NoPolicy.vals] /\ stale = {} /\ clobbered = {}

-----------------------------------------------------------------------------
(* Administrators. *)

End(p) == req' = [req EXCEPT ![p] = NoRequest]

Begin(p, c, f, v) ==
    /\ req[p].at = "idle" /\ exists[c]
    /\ updates < MaxUpdates /\ updates' = updates + 1
    /\ req' = [req EXCEPT ![p] =
                  [NoRequest EXCEPT !.at = "get", !.conn = c, !.field = f, !.value = v]]
    /\ UNCHANGED <<exists, policies, acked, stale, clobbered, engineVars>>

\* SetDefaults checks its value; SetCollectionPolicy does not.  Both start with
\* GetConnection.
SetDefaults(p, c, ttl) == ttl >= 1 /\ Begin(p, c, Default, ttl)
SetCollectionPolicy(p, c, ns, ttl) == Begin(p, c, ns, ttl)

GetCachePolicy(p) ==
    /\ req[p].at = "get"
    /\ req' = [req EXCEPT ![p].at = "upsert", ![p].row = policies[req[p].conn]]
    /\ UNCHANGED <<exists, policies, updates, acked, stale, clobbered, engineVars>>

\* Mutant: the row is written from defaults.
NewValuesOnly(p) == [NoPolicy.vals EXCEPT ![req[p].field] = req[p].value]

\* The row an update writes: the one it has read, with its field changed.
NewValues(p) == [req[p].row.vals EXCEPT ![req[p].field] = req[p].value]

\* The foreign key on connections.
UpsertAllowed(c) == exists[c]

UpsertCachePolicy(p) ==
    LET c == req[p].conn
        f == req[p].field
    IN  /\ req[p].at = "upsert" /\ UpsertAllowed(c)
        /\ policies' = [policies EXCEPT ![c] = [vals |-> NewValues(p), version |-> @.version + 1]]
        /\ End(p)
        /\ acked' = [acked EXCEPT ![c][f] = req[p].value]
        /\ stale' = (stale \cup {q \in Admins : req[q].at = "upsert" /\ req[q].conn = c}) \ {p}
        /\ clobbered' = (clobbered \ {<<c, f>>}) \cup
                        IF p \in stale
                        THEN {<<c, g>> : g \in {h \in Fields : NewValues(p)[h] # acked'[c][h]}}
                        ELSE {}
        /\ UNCHANGED <<exists, updates, engineVars>>

\* A store call fails (an upsert also because the connection is gone).
RequestFails(p) ==
    /\ req[p].at # "idle"
    /\ End(p) /\ stale' = stale \ {p}
    /\ UNCHANGED <<exists, policies, updates, acked, clobbered, engineVars>>

\* DeleteConnection: the policy goes with the connection.  Connection ids are not
\* used again.
DeleteConnection(c) ==
    /\ exists[c]
    /\ exists' = [exists EXCEPT ![c] = FALSE]
    /\ policies' = [policies EXCEPT ![c] = NoPolicy]
    /\ acked' = [acked EXCEPT ![c] = NoPolicy.vals]
    /\ clobbered' = clobbered \ ({c} \X Fields)
    /\ UNCHANGED <<updates, req, stale, engineVars>>

AdminStep ==
    \/ \E p \in Admins :
          \/ \E c \in Sources :
                \/ \E ttl \in DefaultTTLs : SetDefaults(p, c, ttl)
                \/ \E ns \in Collections, ttl \in CollectionTTLs : SetCollectionPolicy(p, c, ns, ttl)
          \/ GetCachePolicy(p) \/ UpsertCachePolicy(p) \/ RequestFails(p)
    \/ \E c \in Sources : DeleteConnection(c)

-----------------------------------------------------------------------------
(* The engine of one proxy: refreshes follow one another in one goroutine. *)

Fault == faults < MaxFaults /\ faults' = faults + 1
NoFault == faults' = faults

\* Mutant: the engine stops at the first error.
MayTickUnfailed == refresh.at = "idle" /\ faults = 0

\* The ticker fires, or the engine starts.
MayTick == refresh.at = "idle"
Tick ==
    /\ MayTick
    /\ refresh' = [NoRefresh EXCEPT !.at = "list",
                      !.floor = [c \in Sources |-> policies[c].version]]
    /\ UNCHANGED <<adminVars, snapshot, faults>>

\* ListAllCachePolicies: every row, in one statement.
ListAll ==
    /\ refresh.at = "list"
    /\ \/ NoFault /\ refresh' = [refresh EXCEPT !.at = "install", !.next = policies]
       \/ Fault /\ refresh' = [refresh EXCEPT !.at = "tenants"]
    /\ UNCHANGED <<adminVars, snapshot>>

\* ListTenants: when this fails too the snapshot stays as it is.
ListTenants ==
    /\ refresh.at = "tenants"
    /\ \/ NoFault /\ refresh' = [refresh EXCEPT !.at = "conns", !.tenants = Tenants]
       \/ Fault /\ refresh' = NoRefresh
    /\ UNCHANGED <<adminVars, snapshot>>

ConnsOf(t) == {c \in Sources : exists[c] /\ TenantOf[c] = t}

\* ListConnections of one tenant after another; a tenant whose list fails is skipped.
ListConnections ==
    /\ refresh.at = "conns"
    /\ \/ /\ refresh.tenants = {} /\ NoFault
          /\ refresh' = [refresh EXCEPT !.at = "policies"]
       \/ \E t \in refresh.tenants :
             \/ /\ NoFault
                /\ refresh' = [refresh EXCEPT !.tenants = @ \ {t}, !.conns = @ \cup ConnsOf(t)]
             \/ /\ Fault
                /\ refresh' = [refresh EXCEPT !.tenants = @ \ {t}, !.skipped = @ \cup ConnsOf(t)]
    /\ UNCHANGED <<adminVars, snapshot>>

\* GetCachePolicy of one connection after another; one that fails is left out.
ReadPolicies ==
    /\ refresh.at = "policies"
    /\ \/ /\ refresh.conns = {} /\ NoFault
          /\ refresh' = [refresh EXCEPT !.at = "install"]
       \/ \E c \in refresh.conns :
             \/ /\ NoFault
                /\ refresh' = [refresh EXCEPT !.conns = @ \ {c}, !.next[c] = policies[c]]
             \/ /\ Fault
                /\ refresh' = [refresh EXCEPT !.conns = @ \ {c}, !.skipped = @ \cup {c}]
    /\ UNCHANGED <<adminVars, snapshot>>

\* Mutant: the map built is not put in place.
NotReplaced == snapshot

\* The map the refresh leaves in Engine.policies, replaced under the lock.
Replaced == refresh.next

Install ==
    /\ refresh.at = "install"
    /\ snapshot' = Replaced
    /\ refresh' = NoRefresh
    /\ UNCHANGED <<adminVars, faults>>

EngineStep == Tick \/ ListAll \/ ListTenants \/ ListConnections \/ ReadPolicies \/ Install

PolicyNext == AdminStep \/ EngineStep

\* The ticker fires for ever, and the goroutine that refreshes keeps running.
PolicySpec == PolicyInit /\ [][PolicyNext]_policyVars /\ WF_policyVars(EngineStep)

-----------------------------------------------------------------------------
(* Resolve. *)

\* time.Duration(sec) * time.Second, which wraps around.
Duration(sec) ==
    ((sec * Second + 2^(Width - 1)) % 2^Width) - 2^(Width - 1)

\* Mutant: a zero is taken for a TTL.
PositiveOrZero(v) == v # Unset

Positive(v) == v # Unset /\ v > 0

\* The TTL in seconds: the collection's if positive, else the connection's if
\* positive, else the default.
Seconds(vals, ns) ==
    IF Positive(vals[ns]) THEN vals[ns]
    ELSE IF Positive(vals[Default]) THEN vals[Default] ELSE DefaultTTL

Resolve(c, ns) == Duration(Seconds(snapshot[c].vals, ns))

-----------------------------------------------------------------------------
(* Properties. *)

\* The TTL the proxy stores a result with is positive, whatever was written as policy,
\* unless the seconds do not fit a time.Duration.
TTLPositive ==
    \A c \in Sources, ns \in Collections :
        Resolve(c, ns) > 0 \/ Seconds(snapshot[c].vals, ns) * Second >= 2^(Width - 1)

\* An update that was acknowledged stays until the field is updated again, unless an
\* update that had read the row before it put the old value back.  No policy outlives
\* its connection, also when that is deleted between the read and the write of an
\* update.
AckedSurvives ==
    /\ PolicyTypeOK
    /\ \A c \in Sources :
          IF exists[c]
          THEN \A f \in Fields : policies[c].vals[f] = acked[c][f] \/ <<c, f>> \in clobbered
          ELSE policies[c] = NoPolicy

\* A refresh that ends by replacing the snapshot leaves nothing older in it than the
\* rows were when it began, but for connections its fallback could not read; a refresh
\* that gives up changes nothing.
SnapshotFresh ==
    [][refresh.at # "idle" /\ refresh'.at = "idle" =>
          \/ refresh.at = "tenants" /\ snapshot' = snapshot
          \/ \A c \in Sources : exists[c] =>
                snapshot'[c].version >= refresh.floor[c] \/ c \in refresh.skipped]_policyVars

\* Once administrators stop and store calls stop failing, the proxy uses the stored
\* policies, whatever a failed refresh has left out before.
EventuallyApplied == <>[](\A c \in Sources : exists[c] => snapshot[c] = policies[c])
=============================================================================
