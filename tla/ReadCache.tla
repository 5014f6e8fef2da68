----------------------------- MODULE ReadCache -----------------------------
(***************************************************************************)
(* The read-through cache of the proxy for one source connection: opt-in   *)
(* reads (handler.tryCacheRead and handlePassthrough), the singleflight    *)
(* coordinator (cache/coordinator.go), the Redis store with its registry   *)
(* of known keys (cache/cache.go), writes with the optional flush after    *)
(* them (handler.maybeAutoInvalidateOnWrite) and explicit flushes from the *)
(* control plane.                                                          *)
(*                                                                         *)
(* Data is abstracted to versions: a write makes the namespace one version *)
(* newer, a query returns the version its namespace is at, and a cached    *)
(* result is the version it was computed from.  Every Redis command and    *)
(* every backend command is one step; nothing makes two of them atomic.    *)
(***************************************************************************)
EXTENDS Integers

CONSTANTS
    Readers,    \* requests that read through the cache
    Writers,    \* requests that write, and explicit invalidations
    Namespaces, \* db.collection pairs
    Keys,       \* cache keys: one for each normalised query
    KeyNS,      \* KeyNS[k]: the namespace that query k reads
    NoReader,   \* "no flight for this key"
    MaxWrites,  \* bound: writes to one namespace
    Faults      \* TRUE: Redis commands and store look-ups may fail, the flag may be off

ASSUME KeyNSType == KeyNS \in [Keys -> Namespaces]
ASSUME NoReaderIsNoReader == NoReader \notin Readers
ASSUME MaxWritesNat == MaxWrites \in Nat
ASSUME FaultsBoolean == Faults \in BOOLEAN

NoValue == -1
Versions == 0..MaxWrites
MaybeVersion == -1..MaxWrites

VARIABLES
    db,       \* db[n]: the version the backend collection is at
    redis,    \* redis[k]: the cached version, or NoValue
    known,    \* known[n]: the registry ...:ns:db.coll:known_keys
    flight,   \* flight[k]: the reader that leads the singleflight on k
    rpc,      \* where each reader is
    rkey,     \* the key it reads
    rval,     \* the version it loaded or found; NoValue for an error
    wpc,      \* where each writer is
    wns,      \* the namespace it writes or flushes
    members,  \* what its SMEMBERS returned and it has not yet deleted
    clean,    \* history: readers whose fill no write or flush has overlapped
    dirty     \* history: keys whose fill overlapped one, or a step of one failed

vars == <<db, redis, known, flight, rpc, rkey, rval, wpc, wns, members,
          clean, dirty>>

Idle == "idle"

\* Readers
Waiting == "waiting"          \* coalesced into another reader's flight
Looking == "looking"          \* flight: about to GET
Loading == "loading"          \* flight: about to run the query on the backend
Setting == "setting"          \* flight: about to SET
Registering == "registering"  \* flight: about to SADD
Returning == "returning"      \* flight: the function has returned
Passing == "passing"          \* failed open: about to run the query itself
PassSetting == "passSetting"  \* maybePopulateCache: about to SET
PassRegistering == "passRegistering"  \* maybePopulateCache: about to SADD

\* Writers
Checking == "checking"        \* written: about to read the connection's flag
Listing == "listing"          \* about to SMEMBERS
Deleting == "deleting"        \* deleting the members, then the registry

SetPCs == {Setting, PassSetting}
RegPCs == {Registering, PassRegistering}
FillPCs == SetPCs \cup RegPCs
ReaderPCs == {Idle, Waiting, Looking, Loading, Returning, Passing} \cup FillPCs
WriterPCs == {Idle, Checking, Listing, Deleting}

TypeOK ==
    /\ db \in [Namespaces -> Versions]
    /\ redis \in [Keys -> MaybeVersion]
    /\ known \in [Namespaces -> SUBSET Keys]
    /\ flight \in [Keys -> Readers \cup {NoReader}]
    /\ rpc \in [Readers -> ReaderPCs]
    /\ rkey \in [Readers -> Keys]
    /\ rval \in [Readers -> MaybeVersion]
    /\ wpc \in [Writers -> WriterPCs]
    /\ wns \in [Writers -> Namespaces]
    /\ members \in [Writers -> SUBSET Keys]
    /\ clean \subseteq Readers
    /\ dirty \subseteq Keys

Init ==
    /\ db = [n \in Namespaces |-> 0]
    /\ redis = [k \in Keys |-> NoValue]
    /\ known = [n \in Namespaces |-> {}]
    /\ flight = [k \in Keys |-> NoReader]
    /\ rpc = [r \in Readers |-> Idle]
    /\ rkey \in [Readers -> Keys]
    /\ rval = [r \in Readers |-> NoValue]
    /\ wpc = [w \in Writers |-> Idle]
    /\ wns \in [Writers -> Namespaces]
    /\ members = [w \in Writers |-> {}]
    /\ clean = {}
    /\ dirty = {}

\* A write or a flush of n is under way.
Pending(n) == \E w \in Writers : wpc[w] # Idle /\ wns[w] = n

-----------------------------------------------------------------------------
(* Reads: tryCacheRead and the coordinator's GetOrLoad *)

\* Mutant: every reader loads for itself.
NoFlightEver(k) == TRUE

\* sf.Do(key): lead the flight, or wait for the one there is.
NoFlight(k) == flight[k] = NoReader

ReadLead(r, k) ==
    /\ rpc[r] = Idle
    /\ NoFlight(k)
    /\ flight' = [flight EXCEPT ![k] = r]
    /\ rkey' = [rkey EXCEPT ![r] = k]
    /\ rpc' = [rpc EXCEPT ![r] = Looking]
    /\ UNCHANGED <<db, redis, known, rval, wpc, wns, members, clean, dirty>>

ReadJoin(r, k) ==
    /\ rpc[r] = Idle
    /\ ~NoFlight(k)
    /\ rkey' = [rkey EXCEPT ![r] = k]
    /\ rpc' = [rpc EXCEPT ![r] = Waiting]
    /\ UNCHANGED <<db, redis, known, flight, rval, wpc, wns, members, clean, dirty>>

\* Store.Get: a hit is the flight's result.  What was stored can be deserialized.
CacheHit(r) ==
    /\ rpc[r] = Looking
    /\ redis[rkey[r]] # NoValue
    /\ rval' = [rval EXCEPT ![r] = redis[rkey[r]]]
    /\ rpc' = [rpc EXCEPT ![r] = Returning]
    /\ UNCHANGED <<db, redis, known, flight, rkey, wpc, wns, members, clean, dirty>>

\* ErrMiss: load.
CacheMiss(r) ==
    /\ rpc[r] = Looking
    /\ redis[rkey[r]] = NoValue
    /\ rpc' = [rpc EXCEPT ![r] = Loading]
    /\ UNCHANGED <<db, redis, known, flight, rkey, rval, wpc, wns, members, clean, dirty>>

\* ErrUnavailable: the flight fails, every member of it fails open.
CacheUnavailable(r) ==
    /\ Faults
    /\ rpc[r] = Looking
    /\ rval' = [rval EXCEPT ![r] = NoValue]
    /\ rpc' = [rpc EXCEPT ![r] = Returning]
    /\ UNCHANGED <<db, redis, known, flight, rkey, wpc, wns, members, clean, dirty>>

\* The load closure runs the query; next is pc after a cacheable answer.
Query(r, from, next) ==
    LET n == KeyNS[rkey[r]] IN
    /\ rpc[r] = from
    /\ rval' = [rval EXCEPT ![r] = db[n]]
    /\ clean' = IF Pending(n) THEN clean \ {r} ELSE clean \cup {r}
    /\ rpc' = [rpc EXCEPT ![r] = next]
    /\ UNCHANGED <<db, redis, known, flight, rkey, wpc, wns, members, dirty>>

Load(r) == Query(r, Loading, Setting)

\* No client, a failed query, an error reply, or a result over MaxResultBytes:
\* the flight returns an error.
LoadFail(r) ==
    /\ rpc[r] = Loading
    /\ rval' = [rval EXCEPT ![r] = NoValue]
    /\ rpc' = [rpc EXCEPT ![r] = Returning]
    /\ UNCHANGED <<db, redis, known, flight, rkey, wpc, wns, members, clean, dirty>>

-----------------------------------------------------------------------------
(* BestEffortSet, inside the flight or from maybePopulateCache *)

AfterSet(p) == IF p = Setting THEN Registering ELSE PassRegistering
AfterRegister(p) == IF p = Registering THEN Returning ELSE Idle

\* SET key value EX ttl reached Redis.
StoreSet(r) ==
    LET k == rkey[r] IN
    /\ rpc[r] \in SetPCs
    /\ redis' = [redis EXCEPT ![k] = rval[r]]
    /\ dirty' = IF r \in clean THEN dirty \ {k} ELSE dirty \cup {k}
    /\ rpc' = [rpc EXCEPT ![r] = AfterSet(rpc[r])]
    /\ UNCHANGED <<db, known, flight, rkey, rval, wpc, wns, members, clean>>

\* SET was lost; its error is ignored and the key registered all the same.
StoreSetFail(r) ==
    /\ Faults
    /\ rpc[r] \in SetPCs
    /\ rpc' = [rpc EXCEPT ![r] = AfterSet(rpc[r])]
    /\ UNCHANGED <<db, redis, known, flight, rkey, rval, wpc, wns, members, clean, dirty>>

\* Mutant: the key is not registered.
WithoutKey(k) == known

WithKey(k) == [known EXCEPT ![KeyNS[k]] = @ \cup {k}]

\* SADD registry key.
RegisterKey(r) ==
    LET k == rkey[r] IN
    /\ rpc[r] \in RegPCs
    /\ known' = WithKey(k)
    /\ dirty' = IF r \in clean THEN dirty ELSE dirty \cup {k}
    /\ rpc' = [rpc EXCEPT ![r] = AfterRegister(rpc[r])]
    /\ UNCHANGED <<db, redis, flight, rkey, rval, wpc, wns, members, clean>>

\* SADD was lost; its error is ignored.
RegisterKeyFail(r) ==
    /\ Faults
    /\ rpc[r] \in RegPCs
    /\ dirty' = dirty \cup {rkey[r]}
    /\ rpc' = [rpc EXCEPT ![r] = AfterRegister(rpc[r])]
    /\ UNCHANGED <<db, redis, known, flight, rkey, rval, wpc, wns, members, clean>>

-----------------------------------------------------------------------------
\* Mutant: only the leader gets the result.
LeaderOnly(r) == {r}

\* The readers that share r's flight.
Team(r) == {r} \cup {q \in Readers : rpc[q] = Waiting /\ rkey[q] = rkey[r]}

\* The flight ends.  Its result is the reply of every member; on an error each
\* of them goes on to handlePassthrough's own backend call.
Deliver(r) ==
    LET k == rkey[r]
        team == Team(r)
        v == rval[r]
    IN
    /\ rpc[r] = Returning
    /\ flight' = [flight EXCEPT ![k] = NoReader]
    /\ rval' = [q \in Readers |-> IF q \in team THEN v ELSE rval[q]]
    /\ rpc' = [q \in Readers |-> IF q \in team
                                 THEN IF v = NoValue THEN Passing ELSE Idle
                                 ELSE rpc[q]]
    /\ UNCHANGED <<db, redis, known, rkey, wpc, wns, members, clean, dirty>>

\* Fail open: the passthrough query, and a result that may be populated.
PassQuery(r) == Query(r, Passing, PassSetting)

\* The passthrough query failed, or its result is not cacheable: just reply.
PassReply(r) ==
    /\ rpc[r] = Passing
    /\ rpc' = [rpc EXCEPT ![r] = Idle]
    /\ UNCHANGED <<db, redis, known, flight, rkey, rval, wpc, wns, members, clean, dirty>>

-----------------------------------------------------------------------------
(* Writes and flushes *)

\* A fill of n that is under way now overlaps a write or a flush.
Overlap(n) ==
    clean' = {r \in clean : KeyNS[rkey[r]] # n}

Written(n) == db[n] + 1

\* A write command succeeded on the backend.
Write(w, n) ==
    /\ wpc[w] = Idle
    /\ db[n] < MaxWrites
    /\ db' = [db EXCEPT ![n] = Written(n)]
    /\ wpc' = [wpc EXCEPT ![w] = Checking]
    /\ wns' = [wns EXCEPT ![w] = n]
    /\ Overlap(n)
    /\ UNCHANGED <<redis, known, flight, rpc, rkey, rval, members, dirty>>

\* GetConnection says AutoInvalidateOnWrite: flush.
FlagOn(w) ==
    /\ wpc[w] = Checking
    /\ wpc' = [wpc EXCEPT ![w] = Listing]
    /\ UNCHANGED <<db, redis, known, flight, rpc, rkey, rval, wns, members, clean, dirty>>

\* What is cached for n from now on may be stale until it expires.
GiveUp(w) ==
    /\ wpc' = [wpc EXCEPT ![w] = Idle]
    /\ members' = [members EXCEPT ![w] = {}]
    /\ dirty' = dirty \cup {k \in Keys : KeyNS[k] = wns[w]}
    /\ UNCHANGED <<db, redis, known, flight, rpc, rkey, rval, wns, clean>>

\* The flag is off, or GetConnection failed: no flush.
FlagOff(w) ==
    /\ Faults
    /\ wpc[w] = Checking
    /\ GiveUp(w)

\* POST .../invalidate, through RedisInvalidator.
Invalidate(w, n) ==
    /\ wpc[w] = Idle
    /\ wpc' = [wpc EXCEPT ![w] = Listing]
    /\ wns' = [wns EXCEPT ![w] = n]
    /\ Overlap(n)
    /\ UNCHANGED <<db, redis, known, flight, rpc, rkey, rval, members, dirty>>

\* InvalidateNamespace: SMEMBERS.
ListMembers(w) ==
    /\ wpc[w] = Listing
    /\ members' = [members EXCEPT ![w] = known[wns[w]]]
    /\ wpc' = [wpc EXCEPT ![w] = Deleting]
    /\ UNCHANGED <<db, redis, known, flight, rpc, rkey, rval, wns, clean, dirty>>

\* Mutant: the DEL names another key.
NotDropped(k) == redis

Dropped(k) == [redis EXCEPT ![k] = NoValue]

\* One DEL of the pipeline (SMEMBERS has no order).
DeleteMember(w, k) ==
    /\ wpc[w] = Deleting
    /\ k \in members[w]
    /\ redis' = Dropped(k)
    /\ members' = [members EXCEPT ![w] = @ \ {k}]
    /\ UNCHANGED <<db, known, flight, rpc, rkey, rval, wpc, wns, clean, dirty>>

\* The last command: DEL registry.
DeleteRegistry(w) ==
    /\ wpc[w] = Deleting
    /\ members[w] = {}
    /\ known' = [known EXCEPT ![wns[w]] = {}]
    /\ wpc' = [wpc EXCEPT ![w] = Idle]
    /\ UNCHANGED <<db, redis, flight, rpc, rkey, rval, wns, members, clean, dirty>>

\* SMEMBERS failed, or the pipeline broke off: the error is only logged.  The code takes
\* a DEL that fails when there are no members for a success; here it is a failure.
InvalidateFail(w) ==
    /\ Faults
    /\ wpc[w] \in {Listing, Deleting}
    /\ GiveUp(w)

\* Mutant: entries are stored without a TTL.
ExpireNever(k) == FALSE

\* The TTL of an entry runs out.
Expire(k) ==
    /\ redis[k] # NoValue
    /\ redis' = Dropped(k)
    /\ UNCHANGED <<db, known, flight, rpc, rkey, rval, wpc, wns, members, clean, dirty>>

-----------------------------------------------------------------------------
ReadStart(r) == \E k \in Keys : ReadLead(r, k) \/ ReadJoin(r, k)

ReadStep(r) ==
    \/ CacheHit(r) \/ CacheMiss(r) \/ CacheUnavailable(r)
    \/ Load(r) \/ LoadFail(r)
    \/ StoreSet(r) \/ StoreSetFail(r) \/ RegisterKey(r) \/ RegisterKeyFail(r)
    \/ Deliver(r) \/ PassQuery(r) \/ PassReply(r)

WriteStart(w) == \E n \in Namespaces : Write(w, n) \/ Invalidate(w, n)

WriteStep(w) ==
    \/ FlagOn(w) \/ FlagOff(w) \/ ListMembers(w)
    \/ \E k \in Keys : DeleteMember(w, k)
    \/ DeleteRegistry(w) \/ InvalidateFail(w)

Next ==
    \/ \E r \in Readers : ReadStart(r) \/ ReadStep(r)
    \/ \E w \in Writers : WriteStart(w) \/ WriteStep(w)
    \/ \E k \in Keys : Expire(k)

Spec == Init /\ [][Next]_vars

\* Requests that run keep running and entries expire.  Clients need not send
\* any further request.
Fairness ==
    /\ \A r \in Readers : WF_vars(ReadStep(r))
    /\ \A w \in Writers : WF_vars(WriteStep(w))
    /\ \A k \in Keys : WF_vars(Expire(k))

-----------------------------------------------------------------------------
(* Properties *)

Stale(k) == redis[k] # NoValue /\ redis[k] < db[KeyNS[k]]

\* A flush by w that has not ended yet will delete k.
WillDrop(w, k) ==
    /\ wns[w] = KeyNS[k]
    /\ \/ wpc[w] \in {Checking, Listing}
       \/ wpc[w] = Deleting /\ k \in members[w]

\* A fill of k that overlapped a write or a flush has yet to register it.
LateFill(k) ==
    \E r \in Readers : rpc[r] \in RegPCs /\ rkey[r] = k /\ r \notin clean

\* The only ways an entry can be stale when the flag is on: the flush that
\* will delete it is still running, or its fill overlapped a write or a flush
\* of the namespace, or a command of its fill or of a flush failed.
FreshUnlessOverlap ==
    \A k \in Keys :
        Stale(k) => k \in dirty \/ LateFill(k) \/ \E w \in Writers : WillDrop(w, k)

\* An entry whose fill overlapped nothing can always be flushed: its key is in
\* the registry, or in the list of every flush that is already deleting.
CleanIsRegistered ==
    \A k \in Keys :
        redis[k] # NoValue /\ k \notin dirty
          /\ (\A r \in Readers : ~(rpc[r] \in RegPCs /\ rkey[r] = k))
        => /\ k \in known[KeyNS[k]]
           /\ \A w \in Writers :
                 wns[w] = KeyNS[k] /\ wpc[w] = Deleting => k \in members[w]

\* One query of a key runs inside the coordinator at a time, and every waiter
\* has a leader that will wake it.
Coalesced ==
    \A r \in Readers :
        /\ rpc[r] \in {Looking, Loading, Setting, Registering, Returning}
              => flight[rkey[r]] = r
        /\ rpc[r] = Waiting
              => /\ flight[rkey[r]] \in Readers
                 /\ rpc[flight[rkey[r]]] \in {Looking, Loading, Setting, Registering, Returning}
                 /\ rkey[flight[rkey[r]]] = rkey[r]

\* Every read is answered and every flush ends, also when Redis fails.
RequestsEnd ==
    /\ \A r \in Readers : []<>(rpc[r] = Idle)
    /\ \A w \in Writers : []<>(wpc[w] = Idle)

\* After the last write (MaxWrites bounds them) the cache converges: from some
\* point on no entry is stale, whatever late fills and failed flushes left.
EventuallyFresh ==
    <>[](\A k \in Keys : ~Stale(k))

=============================================================================
