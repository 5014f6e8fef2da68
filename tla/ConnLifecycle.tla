--------------------------- MODULE ConnLifecycle ---------------------------
(***************************************************************************)
(* The life of client connections in the proxy server                      *)
(* (internal/proxy/server/server.go: ListenAndServe, Close, serveConn,     *)
(* handleMsg and the per-tenant limit) with the parts of handler.Handle    *)
(* that change a connection's identity: saslStart and logout.              *)
(*                                                                         *)
(* A connection is a goroutine that handles one message at a time.  Each   *)
(* critical section of Server.mu is a step.  Of the metrics only the busy  *)
(* gauge is modelled: updating it reads cs.Tenant.                         *)
(***************************************************************************)
EXTENDS Integers, FiniteSets

CONSTANTS
    Conns,      \* connection slots; a slot is used again after a disconnect
    Tenants,
    NoTenant,   \* cs.Tenant == nil
    MaxConns,   \* cfg.MaxConnsPerTenant, 0 for no limit
    MaxDrift    \* bound: clients change tenant only while every busy gauge is
                \* within -MaxDrift..MaxDrift (0: they never do)

ASSUME ConnsFinite == IsFiniteSet(Conns)
ASSUME NoTenantIsNoTenant == NoTenant \notin Tenants
ASSUME MaxConnsNat == MaxConns \in Nat
ASSUME MaxDriftNat == MaxDrift \in Nat

VARIABLES
    phase,      \* where the goroutine of each connection is
    tenant,     \* cs.Tenant (cs.Authed holds exactly when it is not nil)
    counted,    \* cs.CountedTenantID, NoTenant while cs.TenantCounted is false
    busy,       \* connections whose message added to the busy gauge (the defer)
    refused,    \* connections told TooManyConnections, closed after the reply
    shut,       \* connections whose socket Server.Close has closed
    tenantN,    \* Server.tenantN
    authN,      \* Server.authN
    busyGauge,  \* ProxyClientConnectionsBusy, by tenant
    server,     \* serving, draining, stopped, or crashed by a panic
    switched    \* history: connections that authenticated again as another tenant

vars == <<phase, tenant, counted, busy, refused, shut, tenantN, authN,
          busyGauge, server, switched>>

Closed == "closed"
Accepted == "accepted"       \* the accept loop has it, draining was false
Reading == "reading"         \* serveConn: waiting for a message
Handling == "handling"       \* handleMsg: about to call Handle
Admitting == "admitting"     \* Handle returned: the limit
Counting == "counting"       \* admitted: about to enter incAuthenticated
Replying == "replying"       \* reply, then the deferred calls
Leaving == "leaving"         \* serveConn's deferred clean-up
Releasing == "releasing"     \* about to enter releaseTenantConn

Phases == {Closed, Accepted, Reading, Handling, Admitting, Counting, Replying,
           Leaving, Releasing}
MaybeTenant == Tenants \cup {NoTenant}

Serving == "serving"
Draining == "draining"       \* Close waits for the connections to end
Stopped == "stopped"         \* Close has closed those that did not
Crashed == "crashed"         \* a goroutine panicked: the process is gone

TypeOK ==
    /\ phase \in [Conns -> Phases]
    /\ tenant \in [Conns -> MaybeTenant]
    /\ counted \in [Conns -> MaybeTenant]
    /\ busy \subseteq Conns
    /\ refused \subseteq Conns
    /\ shut \subseteq Conns
    /\ tenantN \in [Tenants -> Nat]
    /\ authN \in [Tenants -> Nat]
    /\ busyGauge \in [Tenants -> Int]
    /\ server \in {Serving, Draining, Stopped, Crashed}
    /\ switched \subseteq Conns

Init ==
    /\ phase = [c \in Conns |-> Closed]
    /\ tenant = [c \in Conns |-> NoTenant]
    /\ counted = [c \in Conns |-> NoTenant]
    /\ busy = {}
    /\ refused = {}
    /\ shut = {}
    /\ tenantN = [t \in Tenants |-> 0]
    /\ authN = [t \in Tenants |-> 0]
    /\ busyGauge = [t \in Tenants |-> 0]
    /\ server = Serving
    /\ switched = {}

\* Connection c takes a step from one phase to another; a dead process takes none.
Step(c, from, to) ==
    /\ server # Crashed
    /\ phase[c] = from
    /\ phase' = [phase EXCEPT ![c] = to]

-----------------------------------------------------------------------------
(* Accepting connections, stopping the server *)

\* Mutant: trackConn has become the first thing the connection's goroutine does.
NoWaiting == TRUE

\* The accept loop tracks a connection before it accepts another.
LoopFree == \A c \in Conns : phase[c] # Accepted

\* The accept loop gets a connection and reads draining; later it closes what
\* it gets.
Accept(c) ==
    /\ server = Serving
    /\ LoopFree
    /\ Step(c, Closed, Accepted)
    /\ UNCHANGED <<tenant, counted, busy, refused, shut, tenantN, authN, busyGauge,
                   server, switched>>

\* trackConn, and the goroutine of serveConn starts.
Track(c) ==
    /\ Step(c, Accepted, Reading)
    /\ UNCHANGED <<tenant, counted, busy, refused, shut, tenantN, authN, busyGauge,
                   server, switched>>

\* Close: stop accepting...
Close ==
    /\ server = Serving
    /\ server' = Draining
    /\ UNCHANGED <<phase, tenant, counted, busy, refused, shut, tenantN, authN,
                   busyGauge, switched>>

\* Server.conns
Tracked == {c \in Conns : phase[c] \notin {Closed, Accepted}}

\* ...wait until no connection is left or DrainTimeout has passed, and close
\* the sockets of the tracked connections.
HardClose ==
    /\ server = Draining
    /\ server' = Stopped
    /\ shut' = Tracked
    /\ UNCHANGED <<phase, tenant, counted, busy, refused, tenantN, authN, busyGauge,
                   switched>>

-----------------------------------------------------------------------------
(* Handling messages *)

\* A message arrives; the busy gauge goes up for an authenticated connection.
Receive(c) ==
    LET t == tenant[c] IN
    /\ c \notin shut
    /\ Step(c, Reading, Handling)
    /\ busy' = IF t # NoTenant THEN busy \cup {c} ELSE busy
    /\ busyGauge' = [u \in Tenants |-> IF u = t THEN busyGauge[u] + 1 ELSE busyGauge[u]]
    /\ UNCHANGED <<tenant, counted, refused, shut, tenantN, authN, server, switched>>

\* saslStart succeeded: allowed on any connection, authenticated or not.  (Each
\* change of tenant makes the busy gauges drift; MaxDrift bounds it.)
SaslStart(c, t) ==
    /\ Step(c, Handling, Admitting)
    /\ \/ tenant[c] \in {t, NoTenant}
       \/ \A u \in Tenants : busyGauge[u] \in (-MaxDrift)..MaxDrift
    /\ tenant' = [tenant EXCEPT ![c] = t]
    /\ switched' = IF tenant[c] \in {t, NoTenant} THEN switched ELSE switched \cup {c}
    /\ UNCHANGED <<counted, busy, refused, shut, tenantN, authN, busyGauge, server>>

Logout(c) ==
    /\ Step(c, Handling, Admitting)
    /\ tenant' = [tenant EXCEPT ![c] = NoTenant]
    /\ UNCHANGED <<counted, busy, refused, shut, tenantN, authN, busyGauge, server,
                   switched>>

\* Any other command, and every failure, leaves the identity alone.
OtherCommand(c) ==
    /\ Step(c, Handling, Admitting)
    /\ UNCHANGED <<tenant, counted, busy, refused, shut, tenantN, authN, busyGauge,
                   server, switched>>

MustAdmit(c) == tenant[c] # NoTenant /\ counted[c] = NoTenant

\* Mutant: one connection too many.
LimitExceeded(t) == MaxConns > 0 /\ tenantN[t] > MaxConns

LimitReached(t) == MaxConns > 0 /\ tenantN[t] >= MaxConns

\* Not authenticated, or counted before: straight to the reply.
AdmitNothing(c) ==
    /\ ~MustAdmit(c)
    /\ Step(c, Admitting, Replying)
    /\ UNCHANGED <<tenant, counted, busy, refused, shut, tenantN, authN, busyGauge,
                   server, switched>>

\* tryAcquireTenantConn says no: TooManyConnections, deferred conn.Close.
AdmitRefused(c) ==
    /\ MustAdmit(c)
    /\ LimitReached(tenant[c])
    /\ Step(c, Admitting, Replying)
    /\ refused' = refused \cup {c}
    /\ UNCHANGED <<tenant, counted, busy, shut, tenantN, authN, busyGauge, server,
                   switched>>

\* tryAcquireTenantConn says yes (and counts, if there is a limit).
AdmitOK(c) ==
    LET t == tenant[c] IN
    /\ MustAdmit(c)
    /\ ~LimitReached(t)
    /\ Step(c, Admitting, Counting)
    /\ tenantN' = [tenantN EXCEPT ![t] = IF MaxConns > 0 THEN @ + 1 ELSE @]
    /\ counted' = [counted EXCEPT ![c] = t]
    /\ UNCHANGED <<tenant, busy, refused, shut, authN, busyGauge, server, switched>>

\* incAuthenticated: another critical section.
IncAuthenticated(c) ==
    /\ Step(c, Counting, Replying)
    /\ authN' = [authN EXCEPT ![counted[c]] = @ + 1]
    /\ UNCHANGED <<tenant, counted, busy, refused, shut, tenantN, busyGauge, server,
                   switched>>

\* Mutant: whoever is authenticated by now is taken off the gauge.
AuthedNow(c) == tenant[c] # NoTenant

\* The message was counted when it arrived.
WasBusy(c) == c \in busy

\* Where serveConn goes on: a connection that was refused, that the server has
\* closed or whose reply could not be written, leaves.
AfterReply(c) == IF c \in refused \cup shut THEN {Leaving} ELSE {Reading, Leaving}

\* The reply is written and the deferred calls run: the connection is closed if
\* it was refused, and the busy gauge goes down for cs.Tenant, whoever that is
\* now.  A nil cs.Tenant is dereferenced: nothing recovers, the proxy dies.
Reply(c) ==
    LET t == tenant[c] IN
    /\ \E next \in AfterReply(c) : Step(c, Replying, next)
    /\ server' = IF WasBusy(c) /\ t = NoTenant THEN Crashed ELSE server
    /\ busyGauge' = [u \in Tenants |-> IF WasBusy(c) /\ u = t
                                       THEN busyGauge[u] - 1 ELSE busyGauge[u]]
    /\ busy' = busy \ {c}
    /\ UNCHANGED <<tenant, counted, refused, shut, tenantN, authN, switched>>

-----------------------------------------------------------------------------
(* Leaving *)

\* Mutant: a failed read is tried again.
ReadAgain == Reading

AfterReadFail == Leaving

\* EOF, a read error, the 10 minute deadline, or the socket was closed.
ReadFail(c) ==
    /\ Step(c, Reading, AfterReadFail)
    /\ UNCHANGED <<tenant, counted, busy, refused, shut, tenantN, authN, busyGauge,
                   server, switched>>

\* What a closed slot looks like to the next connection.
Reset(c) ==
    /\ tenant' = [tenant EXCEPT ![c] = NoTenant]
    /\ counted' = [counted EXCEPT ![c] = NoTenant]
    /\ refused' = refused \ {c}
    /\ shut' = shut \ {c}

\* The clean-up of a connection that was never counted.
LeaveUncounted(c) ==
    /\ counted[c] = NoTenant
    /\ Step(c, Leaving, Closed)
    /\ Reset(c)
    /\ UNCHANGED <<busy, tenantN, authN, busyGauge, server, switched>>

Decremented(n) == IF n > 0 THEN n - 1 ELSE n

\* Mutant: the slot of the tenant the connection has now.
CurrentTenant(c) == tenant[c]

\* cs.CountedTenantID
SlotOf(c) == counted[c]

\* The clean-up of a counted connection: decAuthenticated...
DecAuthenticated(c) ==
    /\ counted[c] # NoTenant
    /\ Step(c, Leaving, Releasing)
    /\ authN' = [authN EXCEPT ![SlotOf(c)] = Decremented(@)]
    /\ UNCHANGED <<tenant, counted, busy, refused, shut, tenantN, busyGauge, server,
                   switched>>

\* ...and releaseTenantConn.
ReleaseTenantConn(c) ==
    /\ Step(c, Releasing, Closed)
    /\ tenantN' = [tenantN EXCEPT ![SlotOf(c)] = IF MaxConns > 0 THEN Decremented(@) ELSE @]
    /\ Reset(c)
    /\ UNCHANGED <<busy, authN, busyGauge, server, switched>>

-----------------------------------------------------------------------------
\* The steps a connection takes by itself, once it has a message or must leave.
ConnStep(c) ==
    \/ OtherCommand(c) \/ Logout(c) \/ \E t \in Tenants : SaslStart(c, t)
    \/ AdmitNothing(c) \/ AdmitRefused(c) \/ AdmitOK(c)
    \/ IncAuthenticated(c) \/ Reply(c)
    \/ LeaveUncounted(c) \/ DecAuthenticated(c) \/ ReleaseTenantConn(c)

Next ==
    \/ \E c \in Conns : Accept(c) \/ Track(c) \/ Receive(c) \/ ReadFail(c) \/ ConnStep(c)
    \/ Close
    \/ HardClose

Spec == Init /\ [][Next]_vars

\* Goroutines run, a connection on which nothing arrives times out in the end,
\* and Close waits for a limited time.  Clients may send messages forever.
FairSpec ==
    /\ Spec
    /\ \A c \in Conns : WF_vars(Track(c)) /\ WF_vars(ConnStep(c)) /\ WF_vars(ReadFail(c))
    /\ WF_vars(HardClose)

-----------------------------------------------------------------------------
(* Properties *)

\* The connections that occupy a slot of tenant t's limit.
Holding(t) == {c \in Conns : counted[c] = t}

\* The connections of t between incAuthenticated and decAuthenticated.
Authenticated(t) == {c \in Holding(t) : phase[c] \notin {Counting, Releasing}}

\* No slot of a tenant's limit is leaked or given back twice: the two counters
\* are exactly the connections that hold a slot, through logouts, changes of
\* tenant, refusals, failed replies and disconnects, in any interleaving.
CountersExact ==
    /\ TypeOK
    /\ \A t \in Tenants :
          /\ MaxConns > 0 => tenantN[t] = Cardinality(Holding(t))
          /\ authN[t] = Cardinality(Authenticated(t))

\* At most MaxConns connections are counted for a tenant, and a connection is
\* not read from again after it authenticated unless it holds a slot.
LimitHolds ==
    /\ MaxConns > 0 => \A t \in Tenants : Cardinality(Holding(t)) <= MaxConns
    /\ \A c \in Conns : phase[c] \in {Reading, Handling} /\ tenant[c] # NoTenant
                           => counted[c] # NoTenant

\* The busy gauge of a tenant is the number of its connections that are
\* handling a message they received as that tenant, as long as no connection
\* has changed tenant (each change leaves one tenant one too high and another
\* one too low for good).
BusyExact ==
    server # Crashed /\ switched = {} => \A t \in Tenants :
        busyGauge[t] = Cardinality({c \in busy : counted[c] = t})

\* A connection that Close closes ends, and gives back what it holds, whatever
\* it was doing: waiting, authenticating, being refused or writing a reply.
Drains == \A c \in Conns : c \in shut ~> server = Crashed \/ phase[c] = Closed

\* Close returns with every connection's socket closed but at most one: the one the
\* accept loop had accepted before Close began and had not tracked when Close looked.
OneEscapes == server = Stopped => Cardinality(Tracked \ shut) <= 1
=============================================================================
