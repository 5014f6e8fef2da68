---------------------------- MODULE BackendPool ----------------------------
(***************************************************************************)
(* The pool of backend clients of the proxy (internal/proxy/pool/pool.go): *)
(* one mongo.Client per source connection, created lazily by Get inside a  *)
(* singleflight, pinned by a reference count, disconnected by the idle     *)
(* reaper or at shutdown.                                                  *)
(*                                                                         *)
(* Every critical section of Manager.mu is one step.  Between them Get     *)
(* runs unlocked: it joins or leads a flight and connects to the backend.  *)
(* Clients are numbered in the order they are created; NoClient stands for *)
(* nil (no entry in the map, or a Get that failed).                        *)
(***************************************************************************)
EXTENDS Integers, FiniteSets

CONSTANTS
    Workers,     \* goroutines that serve requests
    Conns,       \* source connection ids, the keys of Manager.clients
    NoWorker,    \* "no flight for this connection"
    MaxClients   \* bound: clients created during a behaviour

ASSUME WorkersFinite == IsFiniteSet(Workers)
ASSUME NoWorkerIsNoWorker == NoWorker \notin Workers
ASSUME MaxClientsNat == MaxClients \in Nat

NoClient == 0
ClientIds == 1..MaxClients
MaybeClient == 0..MaxClients

\* The two goroutines that disconnect clients they took out of the map.
Closers == {"reaper", "shutdown"}

VARIABLES
    client,     \* client[c]: clients[c].client, NoClient when c is not in the map
    refs,       \* refs[c]: clients[c].refs
    idle,       \* the c with now - clients[c].lastUsed >= idleTimeout
    flight,     \* flight[c]: the leader of the singleflight on c
    pc,         \* where each worker is in Get / use / Release
    cid,        \* the connection a worker asked for
    got,        \* the client a worker's Get returned (or its flight will return)
    created,    \* clients created so far
    open,       \* clients connected and not yet disconnected
    doomed,     \* doomed[g]: clients goroutine g removed and has yet to disconnect
    shutdown,   \* how far DisconnectAll has come
    coalesced   \* history: the c for which a Get was answered by another's flight

vars == <<client, refs, idle, flight, pc, cid, got, created, open, doomed,
          shutdown, coalesced>>

Idle == "idle"             \* not using the pool
Missed == "missed"         \* the first look-up found no client
Waiting == "waiting"       \* in sf.Do, waiting for another worker's flight
Leading == "leading"       \* in the flight, before its look-up
Connecting == "connecting" \* in the flight, in connect()
Installing == "installing" \* connect() succeeded, the client not yet in the map
Returning == "returning"   \* the flight's function returned, waiters not yet woken
Using == "using"           \* between Get and Release

PCs == {Idle, Missed, Waiting, Leading, Connecting, Installing, Returning, Using}

Running == "running"
Stopping == "stopping"     \* Stop has closed stopCh
Swapped == "swapped"       \* the map has been replaced by an empty one

TypeOK ==
    /\ client \in [Conns -> MaybeClient]
    /\ refs \in [Conns -> Nat]
    /\ idle \subseteq Conns
    /\ flight \in [Conns -> Workers \cup {NoWorker}]
    /\ pc \in [Workers -> PCs]
    /\ cid \in [Workers -> Conns]
    /\ got \in [Workers -> MaybeClient]
    /\ created \in MaybeClient
    /\ open \subseteq ClientIds
    /\ doomed \in [Closers -> SUBSET ClientIds]
    /\ shutdown \in {Running, Stopping, Swapped}
    /\ coalesced \subseteq Conns

Init ==
    /\ client = [c \in Conns |-> NoClient]
    /\ refs = [c \in Conns |-> 0]
    /\ idle = {}
    /\ flight = [c \in Conns |-> NoWorker]
    /\ pc = [w \in Workers |-> Idle]
    /\ cid \in [Workers -> Conns]
    /\ got = [w \in Workers |-> NoClient]
    /\ created = 0
    /\ open = {}
    /\ doomed = [g \in Closers |-> {}]
    /\ shutdown = Running
    /\ coalesced = {}

-----------------------------------------------------------------------------
(* Get *)

\* e.refs++ and e.lastUsed = now, the client going to worker w.
Acquire(w, c) ==
    /\ refs' = [refs EXCEPT ![c] = @ + 1]
    /\ idle' = idle \ {c}
    /\ got' = [got EXCEPT ![w] = client[c]]
    /\ UNCHANGED client

\* The first critical section finds a client: Get returns it.
GetHit(w, c) ==
    /\ pc[w] = Idle
    /\ client[c] # NoClient
    /\ Acquire(w, c)
    /\ cid' = [cid EXCEPT ![w] = c]
    /\ pc' = [pc EXCEPT ![w] = Using]
    /\ UNCHANGED <<flight, created, open, doomed, shutdown, coalesced>>

\* The first critical section finds none: on to the singleflight.
GetMiss(w, c) ==
    /\ pc[w] = Idle
    /\ client[c] = NoClient
    /\ cid' = [cid EXCEPT ![w] = c]
    /\ pc' = [pc EXCEPT ![w] = Missed]
    /\ UNCHANGED <<client, refs, idle, flight, got, created, open, doomed,
                   shutdown, coalesced>>

\* sf.Do finds no call in flight for this key...
MayLead(w) == flight[cid[w]] = NoWorker

\* ...and w runs the function itself.
Lead(w) ==
    /\ pc[w] = Missed
    /\ MayLead(w)
    /\ flight' = [flight EXCEPT ![cid[w]] = w]
    /\ pc' = [pc EXCEPT ![w] = Leading]
    /\ UNCHANGED <<client, refs, idle, cid, got, created, open, doomed,
                   shutdown, coalesced>>

\* sf.Do with a call in flight: w waits for its result.
Join(w) ==
    /\ pc[w] = Missed
    /\ ~MayLead(w)
    /\ pc' = [pc EXCEPT ![w] = Waiting]
    /\ UNCHANGED <<client, refs, idle, flight, cid, got, created, open, doomed,
                   shutdown, coalesced>>

\* The flight's own look-up finds a client another flight has installed.
RecheckHit(w) ==
    /\ pc[w] = Leading
    /\ client[cid[w]] # NoClient
    /\ Acquire(w, cid[w])
    /\ pc' = [pc EXCEPT ![w] = Returning]
    /\ UNCHANGED <<flight, cid, created, open, doomed, shutdown, coalesced>>

RecheckMiss(w) ==
    /\ pc[w] = Leading
    /\ client[cid[w]] = NoClient
    /\ pc' = [pc EXCEPT ![w] = Connecting]
    /\ UNCHANGED <<client, refs, idle, flight, cid, got, created, open, doomed,
                   shutdown, coalesced>>

\* connect() looks the connection up, decrypts its URI, connects and pings.
ConnectOK(w) ==
    /\ pc[w] = Connecting
    /\ created < MaxClients
    /\ created' = created + 1
    /\ open' = open \cup {created + 1}
    /\ got' = [got EXCEPT ![w] = created + 1]
    /\ pc' = [pc EXCEPT ![w] = Installing]
    /\ UNCHANGED <<client, refs, idle, flight, cid, doomed, shutdown, coalesced>>

\* Look-up, decryption, connect or ping failed; a client whose ping failed
\* has been disconnected by connect() itself.
ConnectFail(w) ==
    /\ pc[w] = Connecting
    /\ got' = [got EXCEPT ![w] = NoClient]
    /\ pc' = [pc EXCEPT ![w] = Returning]
    /\ UNCHANGED <<client, refs, idle, flight, cid, created, open, doomed,
                   shutdown, coalesced>>

\* The last critical section: use an existing client and drop ours, or insert
\* ours with one reference.
Install(w) ==
    LET c == cid[w] IN
    /\ pc[w] = Installing
    /\ IF client[c] # NoClient
       THEN /\ Acquire(w, c)
            /\ open' = open \ {got[w]}
       ELSE /\ client' = [client EXCEPT ![c] = got[w]]
            /\ refs' = [refs EXCEPT ![c] = 1]
            /\ idle' = idle \ {c}
            /\ UNCHANGED <<got, open>>
    /\ pc' = [pc EXCEPT ![w] = Returning]
    /\ UNCHANGED <<flight, cid, created, doomed, shutdown, coalesced>>

\* Mutant: the waiters are not woken.
FlightAlone(w, c) == {w}

\* The workers that will return what w's flight on c produced.
FlightOf(w, c) == {w} \cup {v \in Workers : pc[v] = Waiting /\ cid[v] = c}

\* The flight ends: its key is forgotten and the leader and every waiter
\* return the same client, or the same error.
Deliver(w) ==
    LET c == cid[w]
        members == FlightOf(w, c)
        v == got[w]
    IN
    /\ pc[w] = Returning
    /\ flight' = [flight EXCEPT ![c] = NoWorker]
    /\ got' = [u \in Workers |-> IF u \in members THEN v ELSE got[u]]
    /\ pc' = [u \in Workers |-> IF u \in members
                                THEN IF v = NoClient THEN Idle ELSE Using
                                ELSE pc[u]]
    /\ coalesced' = IF v # NoClient /\ members # {w} THEN coalesced \cup {c} ELSE coalesced
    /\ UNCHANGED <<client, refs, idle, cid, created, open, doomed, shutdown>>

-----------------------------------------------------------------------------
(* Release *)

\* Mutant: a Release that leaves the count alone.
NotDecremented(n) == n

\* if e.refs > 0 { e.refs-- }
Decremented(n) == IF n > 0 THEN n - 1 ELSE n

\* Release looks the entry up by connection id: no entry, nothing to do; a
\* count of zero stays zero.
Release(w) ==
    LET c == cid[w] IN
    /\ pc[w] = Using
    /\ IF client[c] = NoClient
       THEN UNCHANGED <<refs, idle>>
       ELSE /\ refs' = [refs EXCEPT ![c] = Decremented(@)]
            /\ idle' = idle \ {c}
    /\ pc' = [pc EXCEPT ![w] = Idle]
    /\ got' = [got EXCEPT ![w] = NoClient]
    /\ UNCHANGED <<client, flight, cid, created, open, doomed, shutdown, coalesced>>

-----------------------------------------------------------------------------
(* Idle eviction and shutdown *)

\* Time passes: idleTimeout has gone by since clients[c].lastUsed.
Elapse(c) ==
    /\ client[c] # NoClient
    /\ c \notin idle
    /\ idle' = idle \cup {c}
    /\ UNCHANGED <<client, refs, flight, pc, cid, got, created, open, doomed,
                   shutdown, coalesced>>

\* Mutants: an idle client is evicted whatever its count; the comparison with
\* the idle timeout is the wrong way round.
EvictableInUse(c) == client[c] # NoClient /\ c \in idle
EvictableFresh(c) == client[c] # NoClient /\ refs[c] = 0 /\ c \notin idle

\* What evictIdle takes out of the map.
Evictable(c) == client[c] # NoClient /\ refs[c] = 0 /\ c \in idle

\* Mutant: clients in use are dropped from the map and not disconnected.
UnusedClients(S) == {client[c] : c \in {k \in S : refs[k] = 0}}

\* The clients of the entries S, to be disconnected after the unlock.
ClientsOf(S) == {client[c] : c \in S}

\* The critical section of evictIdle: one pass of the reaper.  Passes follow
\* each other in one goroutine, so the previous one has disconnected its lot.
\* Stop does not exclude another: a pass may have begun, and a select that finds a tick
\* due and stopCh closed picks either.  Stop waits for the loop five seconds at most.
EvictIdle ==
    LET gone == {c \in Conns : Evictable(c)} IN
    /\ doomed["reaper"] = {}
    /\ gone # {}
    /\ doomed' = [doomed EXCEPT !["reaper"] = ClientsOf(gone)]
    /\ client' = [c \in Conns |-> IF c \in gone THEN NoClient ELSE client[c]]
    /\ refs' = [c \in Conns |-> IF c \in gone THEN 0 ELSE refs[c]]
    /\ idle' = idle \ gone
    /\ UNCHANGED <<flight, pc, cid, got, created, open, shutdown, coalesced>>

\* Goroutine g disconnects the next client of its list (in map order: any).
Disconnect(g) ==
    \E d \in doomed[g] :
        /\ doomed' = [doomed EXCEPT ![g] = @ \ {d}]
        /\ open' = open \ {d}
        /\ UNCHANGED <<client, refs, idle, flight, pc, cid, got, created,
                       shutdown, coalesced>>

\* DisconnectAll calls Stop, which ends the reaper's loop...
Stop ==
    /\ shutdown = Running
    /\ shutdown' = Stopping
    /\ UNCHANGED <<client, refs, idle, flight, pc, cid, got, created, open,
                   doomed, coalesced>>

\* ...and, once the reaper is done or five seconds have passed, swaps the map
\* for an empty one and takes every client, whatever its count.
DisconnectAll ==
    /\ shutdown = Stopping
    /\ shutdown' = Swapped
    /\ doomed' = [doomed EXCEPT !["shutdown"] =
                     ClientsOf({c \in Conns : client[c] # NoClient})]
    /\ client' = [c \in Conns |-> NoClient]
    /\ refs' = [c \in Conns |-> 0]
    /\ idle' = {}
    /\ UNCHANGED <<flight, pc, cid, got, created, open, coalesced>>

-----------------------------------------------------------------------------
\* What a worker does once it has called Get, up to and including Release.
GetStep(w) ==
    \/ Lead(w) \/ Join(w) \/ RecheckHit(w) \/ RecheckMiss(w)
    \/ ConnectOK(w) \/ ConnectFail(w) \/ Install(w) \/ Deliver(w)

Next ==
    \/ \E w \in Workers, c \in Conns : GetHit(w, c) \/ GetMiss(w, c)
    \/ \E w \in Workers : GetStep(w) \/ Release(w)
    \/ \E c \in Conns : Elapse(c)
    \/ EvictIdle
    \/ \E g \in Closers : Disconnect(g)
    \/ Stop
    \/ DisconnectAll

Spec == Init /\ [][Next]_vars

\* A goroutine that runs keeps running: a Get proceeds to its return, a request
\* that holds a client ends, the clock advances, the reaper ticks until it is stopped
\* and its disconnects time out at the latest.  Nobody is obliged to call Get or Stop.
Fairness ==
    /\ \A w \in Workers : WF_vars(GetStep(w)) /\ WF_vars(Release(w))
    /\ \A c \in Conns : WF_vars(Elapse(c))
    /\ WF_vars(shutdown = Running /\ EvictIdle)
    /\ \A g \in Closers : WF_vars(Disconnect(g))

FairSpec == Spec /\ Fairness

-----------------------------------------------------------------------------
(* Properties *)

\* The workers whose Get on c has been counted or answered: they will Release.
Holders(c) ==
    {w \in Workers : cid[w] = c /\ got[w] # NoClient /\ pc[w] \in {Returning, Using}}

\* The count never exceeds the Gets still to be released, so no entry stays
\* pinned after its last user has gone, whatever mixture of coalesced Gets,
\* evictions under a user and releases against a successor entry came before.
NoLeakedRef ==
    \A c \in Conns : refs[c] <= Cardinality(Holders(c))

\* Every connected client is reachable by somebody who will disconnect it: it
\* is in the map, in the hands of the flight that created it, or on the list of
\* a goroutine that is disconnecting.
NoClientLeak ==
    \A d \in open :
        \/ \E c \in Conns : client[c] = d
        \/ \E w \in Workers : pc[w] = Installing /\ got[w] = d
        \/ \E g \in Closers : d \in doomed[g]

\* Get's last critical section never finds a client installed by somebody else
\* (its "lost race" branch is dead code): the singleflight admits one creator.
NoLostRace ==
    \A w \in Workers : pc[w] = Installing => client[cid[w]] = NoClient

\* While no Get for a connection has been coalesced and the proxy is not
\* shutting down, its count is exact and no request that uses it holds a
\* disconnected client.
ExactUnlessCoalesced ==
    shutdown = Running =>
        \A c \in Conns \ coalesced :
            /\ refs[c] = Cardinality(Holders(c))
            /\ \A w \in Workers : pc[w] = Using /\ cid[w] = c => got[w] \in open

\* Every Get returns, with a client or an error: a waiter always has a leader
\* that is making progress.
GetReturns ==
    \A w \in Workers : pc[w] = Missed ~> pc[w] \in {Using, Idle}

\* Once requests stop coming, every backend client is disconnected for good
\* (unless the reaper was stopped first: then DisconnectAll is responsible).
IdleClientsClosed ==
    (<>[](\A w \in Workers : pc[w] = Idle)) => <>[](open = {} \/ shutdown # Running)
=============================================================================
