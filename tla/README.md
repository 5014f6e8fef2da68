# Nance accelerator: TLA+ models

Nance is a MongoDB-compatible proxy with an opt-in result cache (Go,
`src/apps/accelerator`). Clients speak the MongoDB wire protocol to the *proxy*, which
authenticates them with a token, forwards commands to the customer's cluster and, for
collections with a cache policy, answers reads from Redis. A *control plane* (HTTP over
Postgres) manages organizations, members, tokens, connections and policies; the admin
dashboard is a user interface over it.

Paths below are relative to `src/apps/accelerator/internal/`.

## Inventory

### Proxy

| Component | State | Operations | Correct when |
|---|---|---|---|
| Backend client pool, `proxy/pool/pool.go` | map connection id → client, reference count, last use; a singleflight; the reaper | `Get`, `Release`, `evictIdle`, `Stop`, `DisconnectAll` | no client is leaked or closed under a user; counts return to 0; every `Get` returns |
| Read-through cache, `proxy/cache/coordinator.go`, `proxy/cache/cache.go`, `handler.tryCacheRead` | Redis values and per-collection key registries; a singleflight per key | `GetOrLoad`, `BestEffortSet`, `RegisterKey`, `InvalidateNamespace` | entries are current or are about to be flushed; Redis failures never fail a read |
| Emulated cursors, `proxy/cachedcursor/store.go` | cursors over cached results, an atomic byte counter, a budget | `Register`, `NextBatch`, `Kill`, `CleanupConn`, `PruneIdle` | the counter does not drift, the budget holds, cursors go with their connection |
| Backend cursors, `proxy/cursor/registry.go` | client-visible id → backend cursor | `Register`, `Get`, `Remove`, `CleanupConn`, `PruneIdle` | every document is delivered once, or the client gets an error |
| Command handler, `proxy/handler/handler.go` | the connection's identity | `saslStart`, `logout`, `find`, `aggregate`, `getMore`, `killCursors`, writes | see the parts it drives |
| Connection server, `proxy/server/server.go` | tracked connections, per-tenant counters, the drain flag | accept loop, `serveConn`, `handleMsg`, `Close` | counters exact, limit holds, closed connections end |
| Token validator, `proxy/auth/auth.go` | cache of validated tokens | `Validate`, revalidation | a revoked token stops working |
| Policy engine, `proxy/policy/engine.go` | snapshot of policies | periodic refresh, `Resolve` | the snapshot follows the store |
| Rate limiter, `proxy/ratelimit/limiter.go` | token buckets, made on demand and pruned | `Allow`, `Prune` | a tenant never gets through more than a burst and what the rate brings |
| Cache key, classification, `proxy/cache/key.go`, `proxy/command/classify.go` | none | `CacheKey`, `NormalizeCommand`, `ShouldBypassCache` | commands share a key exactly when they have one answer |
| Wire codec, metrics | counters | | |

### Control plane

| Component | State | Operations | Correct when |
|---|---|---|---|
| Organizations, `controlplane/service/org_service.go` | `tenants`, `organization_members`, `organization_invites` | create, delete with a mailed code, invite, accept, revoke, remove | an organization keeps an owner; an invite works once; nothing outlives its organization |
| Users and sign-in, `controlplane/service/auth_service.go` | one-time codes, sessions, passwords, reset tokens | request, verify, log out; log in, set, change and reset a password | guesses are limited; a code or reset link works once; one account per address; a password is replaced only with proof |
| Tokens, connections, policies, `controlplane/service/service.go` | their tables | issue, revoke, re-enable; create, update, delete; upsert, flush | a revoked token stays revoked; an acknowledged policy survives and reaches the proxies |
| Stores, HTTP API, mail, encryption, configuration | tables; none | | |

### How they interact

A client connection is one goroutine: it reads a message, calls the handler and writes the
reply. The handler takes a client from the pool for every backend call and gives it back
afterwards, looks cached reads up through the coordinator, and keeps cursors in one of the
two cursor tables between calls. The server's accept loop, the connections, the pool's
reaper, the cursor pruners, the policy refresh and `Close` share state under small mutexes
and release them between steps. Redis is shared by every proxy and by the control plane's
flush, one command at a time. In the control plane a request makes several store calls
without a transaction around them.

The hard behaviours are therefore: what another goroutine does between two critical
sections; results that are stored after the event that should have prevented it; Redis and
store calls that fail or get lost half-way through; late clean-up; requests of two
administrators that interleave. `PROJECT.json` lists them ("hazards"), each at its line.

## Modules

| Module | Models | Proofs |
|---|---|---|
| `BackendPool` | pool | `BackendPoolProofs` |
| `ReadCache` | coordinator, Redis store, population, flushes | `CacheProofs` |
| `CacheReplies` (`MCCacheReplies`) | composes `ReadCache` with what each client is answered and what had been flushed when it asked | `CacheProofs` |
| `CachedCursors` | store of emulated cursors, `Register` in its five unlocked steps | `CacheProofs` |
| `QueryPaging` | what a client receives over both kinds of cursor; composes registry, emulated cursors and cache as seen by one paging client | `HandlerProofs` |
| `ConnLifecycle` | server, connection limit, identity of connections | `ConnLifecycleProofs` |
| `OrgMembership` (`MCOrgMembership`) | organizations, members, invites | `OrgMembershipProofs` |
| `TokenGate` | abstract: what `Authenticate` promises | |
| `PoolCursors` | composes `BackendPool` with the cursors opened on its clients | `BackendPoolProofs` |
| `TokenAuth` (`MCTokenAuth`) | tokens with the connection and tenant rows they depend on, `Authenticate` and its cache; implements `TokenGate` | `TokenAuthProofs` |
| `EmailCodes` (`MCEmailCodes`) | one-time codes, the account they create, sessions | `EmailCodesProofs` |
| `Passwords` (`MCPasswords`) | password sign-in, setting, changing, resetting | `PasswordsProofs` |
| `CachePolicy` (`MCCachePolicy`) | policy updates, the refresh of a proxy with its fallback, `Resolve` | `CacheProofs` |
| `TokenBucket` | abstract: a bucket that is refilled at every tick and never forgotten | |
| `RateLimiter` | `Allow`, `Prune`; implements `TokenBucket` | `HandlerProofs` |
| `CacheKey` | pure: normalisation, key, bypass rules, and what a command asks | `HandlerProofs` |
| `Commands` (`MCCommands`) | composes `RateLimiter`, `CacheKey`, identity of a connection and a shared cache | `HandlerProofs` |

The correspondence of definitions and lines is in `PROJECT.json` ("map"). Definitions that
stand for a library (singleflight, Redis `DEL` and expiry, the driver's cursor, MongoDB) are
marked external there and are modelled from how the code calls them. A definition commented
`Mutant` is a plausible bug; it is used only to show that a property can fail.

### `BackendPool`

Workers are request goroutines. Every critical section of `Manager.mu` is a step: the look-up
of `Get` (`GetHit`, `GetMiss`), the look-up inside the flight (`RecheckHit`, `RecheckMiss`),
`Install`, `Release`, the pass of the reaper (`EvictIdle`), the swap of `DisconnectAll`. A pass
may still begin after `Stop`, whose wait is limited. `Lead`, `Join` and `Deliver` are
`singleflight.Do`; `Deliver` gives the leader's result to all waiters in one step, with *one*
increment of the count behind it, as in the code. `Release` finds the entry by connection id,
so it may decrement the count of a successor entry. `idle` abstracts the clock: `Elapse` makes
an entry older than the timeout, every use makes it young.

### `ReadCache`

A collection's content is a version number that every write increments; a cached value is
the version its query saw. Each Redis command is a step and may fail when `Faults` holds:
`SET`, `SADD`, `SMEMBERS`, each `DEL` of the pipeline, the final `DEL` of the registry. A
command that timed out either took effect at once or never; one that takes effect later is
not modelled. `Deliver` ends a flight: a value is the reply of all its readers; an error
sends each of them to its own passthrough query, which populates the cache by itself.
`clean` and `dirty` are history: `clean` are the readers whose query no write or flush of
the namespace has overlapped, `dirty` the keys whose content may outlive a flush because a
fill did overlap or a command was lost.

### `CacheReplies`

Every step is a step of `ReadCache`; history variables say what the client may expect. `since`
is the version a writer's write made or its flush began at, `flushed` the newest version a
completed flush was for, `atLeast` what had been flushed when the flight a reader is in began.
`excused` are readers whose answer comes from an entry in doubt (`InDoubt`): one whose fill
overlapped a write or a flush, or on which a command failed. A reader that joins a flight gets
its promise from the leader, who may have looked into Redis before the flush: the coordinator
gives it that answer.

### `CachedCursors` and `QueryPaging`

`CachedCursors` has the concurrency of the store: `Register` reads `curBytes`, evicts, takes
an id, inserts under the lock and adds its bytes after the unlock. `older`
holds the pairs of entries of which the first was used last before the second: `Oldest` is the
entry `evictOldest` finds, `PruneIdle` removes any set that nothing outside it is older than. A
document is one byte. `QueryPaging` makes every command one step and
follows what the client gets: `find` and `aggregate`, cached or not, `getMore` on either
kind of cursor, `killCursors`, disconnects, pruning, eviction, expiry. There the collection
does not change and the singleflight is left out (`ReadCache` has it).

### `ConnLifecycle`

A connection is its phase in `serveConn`/`handleMsg`. `tryAcquireTenantConn`,
`incAuthenticated`, `decAuthenticated` and `releaseTenantConn` are separate critical
sections and separate steps. Clients may authenticate again as another tenant and log out at
any time. The accept loop is one goroutine: it tracks a connection before it accepts the next
(`LoopFree`). A nil `cs.Tenant` dereferenced by the deferred gauge update ends the process
(`Crashed`).

### `OrgMembership`

One organization id, created and deleted any number of times. A request is a goroutine that
makes one store call per step; `at` is its next call, the other fields what it has read.
Foreign keys (`TenantRow`, `InviterRow`), the unique index on pending invites
(`NonePending`) and the cascading delete are guards and effects of the statements. `Fail`
ends any request at any of its calls and keeps what it has done. `Faults` adds the failures
whose errors the code ignores (`RequireMember` in the handlers, `GetMember`,
`ListPendingInvites`, `DeleteInvite`, `MarkInviteAccepted`, clearing the code). `overtaken`
and `excused` are history: a removal is overtaken when, after its check, an owner was lost or
its target became an owner.

### `TokenAuth` and `TokenGate`

`TokenGate` is the promise: a call of `Authenticate` answers with what its token opened at
one moment between its beginning and its end. `TokenAuth` has the statements and the critical
sections of the code: control plane and proxy meet only in the tables, an answer is cached
after it was read, and nothing removes it from the cache when the token is revoked. `saw` is
history: what the token has opened since the call began; with it the refinement mapping is
direct. `Recent` and `Old` stand for a `revoked_at` inside and before the re-enable window.

### `PoolCursors`

`BackendPool` with a cursor that a `find` opens between `Get` and `Release` and that stays in
the registry. `getMore` reads it without a `Get`. `lapsed` is history: cursors whose
connection has been idle, in the pool's sense, since they were opened.

### `EmailCodes` and `Passwords`

One e-mail address, one account. As in `OrgMembership` a request is a goroutine that makes one
store call per step. In `EmailCodes` the row of codes is identified by the address only: Clear
and Increment act on the code that is there when they run (`Stray`), and their failures are
ignored (`Faults`). Unique index and re-read after a failed `INSERT` are `InsertAllowed` and
`FindAgain`. In `Passwords` a typed password is a word with or without blanks around it;
`Trim` is what `LoginWithPassword` does to it and the other calls do not, `TooLong` the words
that `validatePassword` lets through and bcrypt refuses. `Consume` is one transaction; hashing
and storing come after it. History variables name the excuses: `lost` increments, `excused`
codes, `overtaken` requests, `wasted` tokens.

### `CachePolicy`

A policy is a default TTL and a TTL per collection; `version` counts the writes of its row. An
update reads the row and writes it back whole, two steps. The refresh of one proxy is
`Tick`, `ListAll` and, when that fails, `ListTenants`, `ListConnections`, `ReadPolicies`, then
`Install`; each call may fail (`MaxFaults`). `Resolve` computes in a signed integer of `Width`
bits, as `time.Duration` does. Connections are `Sources` and names of collections
`Collections` here, so that the module can be read together with those of the proxy.

### `RateLimiter`, `TokenBucket`, `CacheKey`, `Commands`

Time is an integer and a bucket counts units, of which a tick brings `Rate` and a command takes
`Cost`; the rounding of `float64` is not modelled. The refinement maps a bucket that is not
there to a full one. It rests on the assumption `IdleRefills`: in the time after which `Prune`
forgets a bucket the rate must bring the whole burst. `limiter.go` does not check it; with the
shipped defaults it holds. `watch` is an observer of an arbitrary interval.
`CacheKey` gives a BSON document as the set of its nodes, each with the path that leads to it,
its place among its siblings and its value. `normalizeValue`, recursive in the code, then takes
no recursion: it drops the nodes below a volatile name, widens integers and forgets the places.
`Meaning` is the reference definition of what a command asks, `Ambiguous` tells the commands
whose documents normalisation changes for more than their form, and `MeaningLeft` is what
remains of the meaning after that. `Commands` has the order of
`Handle`: identity, rate limit, then bypass or cache.

## Runs

| Run | Bounds | Shows |
|---|---|---|
| `pool` | 3 requests, 1 connection, 3 clients created, 1 cursor | `NoLeakedRef`, `NoClientLeak`, `ExactUnlessCoalesced`; a cursor loses its client only after an idle period, a coalesced `Get` or at shutdown (`CursorKeepsClient`); every `Get` returns (`GetReturns`); if requests stop, clients get closed for good (`IdleClientsClosed`) |
| `read_cache` | `CacheReplies`: 2 readers, 2 writers, 1 key, 1 write, all faults | stale entries have one of the named causes, one load per key at a time, a read that begins after a flush has ended is answered with what it was for or newer, but for flights from before and entries in doubt (`ReplyCovers`), requests end, the cache converges |
| `cached_cursors` | 2 connections, results of up to 3 documents, budget 2, 4 ids | the byte counter never drifts, the overshoot is bounded, cursors go with their connection, `Register` returns |
| `paging` | 2 connections, 4 documents, batches of 2, 3 and 4, at most 3 documents cached | a finished read got every document of its source once; no cursor outlives its connection |
| `connections` | 2 connections, 2 tenants, limit 1 | counters exact, limit holds, busy gauge exact until a tenant switch, `Close` misses at most one connection (`OneEscapes`), those it closes end |
| `orgs` | 2 users, platform administrator, 2 requests, 1 invite, all faults | `KeepsOwner`, `InviteConsumed`, `NoOrphans` |
| `tokens` | 2 tokens, one from before look-up hashes, 2 connections, 2 callers, 2 requests | `TokenAuth` implements `TokenGate` (`Implements`); a token whose window has passed stays revoked and no row loses the row it refers to (`WindowCloses`) |
| `email_codes` | 2 requests, limit 1, 2 codes, 3 guesses, 2 sessions, all faults | wrong guesses stay within the limit plus one per other request and failed increment (`GuessBound`); a redeemed code is gone; a wrong guess does not remove the newest code; one account |
| `passwords` | 2 requests, 2 words of which one is too long, with and without blanks, 2 links, 1 session | a link changes the password exactly once or is lost with its request (`TokenExactlyOnce`); a password is replaced only with proof (`NeedsProof`) |
| `policies` | 2 requests, 2 connections of 2 tenants, 1 collection, 2 updates, 2 failing calls, 8-bit durations | TTLs positive unless they overflow; an acknowledged update is lost only to an overlapping one; a refresh never goes back in time (`SnapshotFresh`); the proxy catches up (`EventuallyApplied`) |
| `commands` | 1 client, 3 identities of 2 tenants, 12 commands, burst 1, 4 ticks, 1 cache entry | `WindowBound`; the limiter implements `TokenBucket` (`Implements`); a cache entry answers the same question of the same identity, always, and another one only if normalisation changes what at least one of the two means, and then they differ only in the order of fields or in fields that have a volatile name (`AnswersQuestion`) |
| `cache_key` | same | *violation* of the comment on `volatileTopLevel`: two finds with different answers share an entry |

Why the bounds are enough. A hazard here is a race of two parties around one entry. In
`pool` three workers let one lead, one wait and one hold or release an older client, and
three clients let an entry be evicted and replaced twice. In `read_cache` one key suffices
because keys meet only in the registry of their namespace; two readers give a flight with a
waiter or two successive fills, two writers a flush inside a flush. In `cached_cursors`
results are larger than the budget, equal to it and smaller. In `paging` the batch sizes
divide the result, do not divide it, and equal it, and the cached limit lies between them.
In `orgs` two users are enough for owners who remove each other, two requests for every pair
of calls to interleave. In `tokens` a token can be read, revoked, cached and used again by the
other caller, and two re-enable requests can overlap a revocation. In
`email_codes` a second code lets a request act on the code that replaced the one it read. In
`passwords` two requests cover every check that is overtaken by another request's store. In
`policies` two updates overlap or follow one another, and two failures take the refresh into
the fallback and make that skip something; TTLs are zero, ordinary and too large for the
width. In `commands` a bucket costs two ticks to refill, is forgotten after two, and four ticks
let that happen and be followed by more commands; one entry suffices because entries are
compared with a command one at a time. Symmetry is used where only
safety is checked (`orgs`, `tokens`, `email_codes`, `passwords`). The bound on ids, clients, writes or invites ends the activity that
uses them up and nothing else; `MaxDrift` bounds how far tenant switches push the busy gauge.

`connections`, `email_codes`, `commands` and `cache_key` do not check deadlock: a server that
was closed or has crashed stops, and so does everything once the bounds on codes, guesses and
ticks are used up.

The types of every module are part of one of its checked properties (`ByteAccounting`,
`PagingComplete`, `CountersExact`, `WindowCloses`, `CursorKeepsClient`, `GuessBound`,
`TokenExactlyOnce`, `AckedSurvives`, `AnswersQuestion`, `ReplyCovers`) or proved (below).

### Findings

A finding is a comment or a document of the repository that the code contradicts;
`PROJECT.json` quotes the line. `cache_key` shows one in a run. In the others the model takes
the step in question, and where a property would fail because of it, the property names it as
an excuse, so that it shows there is no other cause:

* coalesced `Get`s share one reference, so a client in use may be closed
  (`ExactUnlessCoalesced` excludes coalesced connections);
* a load from before a write is stored after its flush (`FreshUnlessOverlap`: the overlap);
* a cached read of a result longer than its first batch is cut short (`PagingComplete` speaks of
  the documents of the cached result);
* `logout` makes the proxy panic (`Crashed` in `ConnLifecycle`);
* an expired invite is neither listed nor replaced, and blocks a new one;
* two owners who remove each other leave none (`KeepsOwner`: overtaken removals); two users who
  create the same id at once both become its owners; the platform administrator's invites cannot
  be stored (`InviterRow` is never true of him);
* a client that is read only by `getMore`s counts as unused (`CursorKeepsClient`: lapsed);
* a very large TTL wraps around (`TTLPositive`: does not fit);
* a password set with a blank at an end can never be used to sign in (`Trim`), and one between
  73 and 128 bytes uses up the reset link without a change (`wasted`);
* a cached read that misses leaves a backend cursor nobody can reach; a connection accepted while
  `Close` runs is served after it has returned (`OneEscapes`: but one); the README says writes do not invalidate.

## Fairness

Only steps a running goroutine takes by itself are fair. `BackendPool`: the steps of a `Get`
and the `Release` of a request (backend calls have timeouts), the clock, the reaper's ticker
until `Stop`, and its disconnects. `ReadCache`: the steps of a request (Redis and MongoDB calls have
timeouts, a failing call is a step) and the expiry of entries, which are always stored with a
TTL. `CachedCursors`: the steps of a `Register`. `ConnLifecycle`: the steps of a connection
that has a message, the ten-minute read deadline, the drain timeout of `Close`. `CachePolicy`: the engine's
goroutine, whose ticker keeps firing; its failing calls are bounded by `MaxFaults`. Weak fairness
is enough everywhere. No client, administrator or writer is ever obliged to act.

## Proofs

The theorems hold for every value of the constants. They use the assumptions stated beside
the CONSTANTS: finite sets of workers, users, connections and requests, special values outside the sets they extend,
natural bounds; for the limiter positive rates and `IdleRefills`.

* `BackendPoolProofs`. `TypeCorrect`. `OneCreator`: `NoLostRace` follows from two invariants of
  the flight, that a worker inside it is the leader its connection's flight names, and that a
  leader past its look-up still finds the map without a client. `WaitersLed` is the converse and
  the safety half of `GetReturns`: a flight on record has its leader inside it and a waiter has a
  flight (`NoneStranded`). `ClientsReachable`: every open
  client is in the map, in the hands of its creator or on a closer's list. `RefsCovered`: the count
  of an entry is at most the number of workers that have yet to release it; each action adds or
  removes a holder together with the reference, except `Deliver`, which adds holders only, and
  `Release`, which removes a holder and at most one reference.
  `ExactCounts`: `ExactUnlessCoalesced` says nothing of which client a holder has, and an eviction
  could then take the client of a user and leave a successor entry whose count is wrong. `OwnInv`
  adds that a client has one owner: it is the entry of one connection (`MapOwns`), or in the hands
  of the flight that made it (`FlightOwns`), and nobody is about to disconnect it in either case;
  ids above `created` (`IdsBounded`) make a new client distinct from all of these.
  `HoldersHoldEntry` then says that every holder of a connection without coalesced `Get`s has the
  entry's client, so that an entry without references has no holders and eviction harms nobody.
  `CursorsKeepClients` rests on the same invariant: a cursor that has not lapsed
  was opened by a holder, so it reads from the entry's client, and its connection is not idle
  (`CursorOnEntry`); steps of the composition are steps of the pool or leave it alone.
* `CacheProofs`, of three modules.
  `ReadCache`: `TypeCorrect`. `SingleFlight`: `Coalesced` is inductive with the types.
  `Invariance`: the inductive invariant behind `Freshness` and `Registered` is
  `TypeOK /\ CleanIsCurrent /\ CleanIsRegistered /\ CleanFill`. `CleanIsCurrent` alone is not
  preserved by a fill, because nothing says that the value about to be stored is current, so
  `CleanFill` says it of a reader whose query nothing has overlapped; nor by the end of a flush,
  because nothing says that the flush has the key on its list, so `CleanIsRegistered` says it.
  `CacheReplies`: `FlushesAreSeen`. A hit covers what its reader is promised because an entry that
  is not in doubt is at least as new as every completed flush (`CleanCovers`). A flush that
  completes raises that bar; a clean entry of its namespace would still be on its list
  (`CleanIsRegistered`), which is empty by then, so there is none below the bar. A query covers it because flushes are for what was written (`InOrder`), a waiter because its
  leader does, for which `Coalesced` names the leader.
  `CachePolicy`: `UpdatesSurvive` and `RefreshNotOlder` share `PolicyInv`. A request about to write
  holds the row as it is, or a write has come between and it is in `stale` (`RowRead`). A refresh
  has at every point dealt with a connection, given it up, or still has it on one of its two lists
  (`Accounted`), and rows only get newer (`FloorHolds`). `TTLsPositive`: powers of two are defined
  by recursion, so that they are positive is shown by counting: `2^n` is the number of
  subsets of a set of `n` elements (`PowersOfTwo`).
  `CachedCursors`: `StoreInv` has the tables in order: ids are handed out once (`Given`), the ids
  that are left suffice for the registrations under way (`Reserved`), a result being
  registered does not fit in its first batch (`Sized`), entries have an owner that is open
  (`Owned`, which gives `OwnersOpen`). `Settled` is the balance of the byte counter and gives
  `BudgetExact`. The bound on the overshoot is not inductive, because an entry is paid for at the
  check and appears two steps later; `Within` counts what has passed the check (`Promised`) as if
  it were stored. When a check passes, what the counter lacks (`Owed`) and what is promised to
  others is at most one result of each other connection (`OthersBound`). The sums run over sets
  of entries, which the community modules add up by recursion; a section of lemmas shows how such
  a sum changes with its set (`SumWithout`, `SumParts`, `SumSame`, `SumBound`). It does so without
  an induction scheme: among the subsets of a finite set that fail the claim there would be one
  that is minimal (`Smallest`), and taking an element out of it contradicts that.
* `OrgMembershipProofs`. `TypeCorrect`. `LastOwnerRule`: `KeepsOwner` becomes inductive with
  `OwnedExists` (only an organization that exists has had an owner) and `CheckHolds` (a removal
  that is about to delete an owner and was not overtaken leaves another one). The count of
  owners enters through the cardinality of a finite set. `InviteOnce` and `NoOrphanRows` share
  `InviteInv`: invites not created yet have no row (`NotYet`), and a request that joins or marks
  has read an invite that was created (`Accepting`). `Join` is the step that needs this: it makes
  an invite joined, and it is the one that sends the same request on to the mark.
* `TokenAuthProofs`. `Refinement`: every step of `TokenAuth` maps to a step of `TokenGate` or leaves
  its state alone; statements on the rows of tokens are its `Change`, returns its `Answer` or
  `Fail`. What a returning call needs is that its answer is in `saw`: `SeesNow` (what the token
  opens now is), `LookupMissed` (a call that goes on to the list of tokens without a hash has
  seen its token invalid, or it is one of those) and `Found` (the connection a call has found was
  seen, and is still the token's or the call has seen the token invalid, so that a connection
  which is gone by the time it is looked up is a denial the call may give). `Found` holds because
  a token's row is created once (`CreatedOnce`): it never changes from one connection to another.
  `WindowStaysClosed` uses `CreatedOnce` too: the row of a revoked token is not created again.
* `ConnLifecycleProofs`. Counters, limit and gauge are cardinalities of sets of connections, so each
  step adds or removes one connection in step with the counter. `Slots` says which phases hold a
  slot and an identity; the gauge needs `InMessage` (a message on the gauge is of a connection with a
  slot) and `OneIdentity` (the slot is the current tenant's), as long as the process is alive.
  `CloseMissesOne`: what counts is not only the connections tracked and open when the server has stopped
  but also one the accept loop still holds (`Escaping`); the loop holds one at a time.
* `EmailCodesProofs`. `Guesses` balances the guesses at a code against the attempts in its row,
  the increments lost and those still to come (`Uncounted`); `GuessBound` is its last line and is
  not inductive without the balance. `Taken`, `Reads` and `ClearsExcused` say what a request has
  read by the time it clears the row or goes on to sign in; `Owned` ties sessions and requests to the
  account.
* `PasswordsProofs`. `TokenExactlyOnce` is inductive once requests carry what they have read:
  `Carries` (a reset token or none) and `Unsent` (no row before the link is sent). `ShownIsStored`
  is what makes `NeedsProof` inductive: a request about to store a password without having been
  overtaken has shown the one it replaces.
* `HandlerProofs`, of four modules.
  `RateLimiter`: the inductive invariant is `LimiterTypeOK /\ Past /\ Spent`: no bucket was
  filled in the future, and what the observed tenant got through, together with what its bucket
  holds now, is at most a burst and what the rate has brought since. `WindowBound` alone is not
  inductive because it says nothing about the bucket. `LimiterBound` follows for every rate, cost,
  burst and interval. `Refinement`: every step of the limiter is a step of `TokenBucket` or
  leaves it unchanged; the case of `Prune` needs `IdleRefills` and a product of naturals that
  is monotone, which has a lemma of its own.
  `CacheKey` and `Commands`: `AnsweredQuestions`. Two commands with one normal form have the same
  `MeaningLeft`, and the same `Meaning` when neither is `Ambiguous` (`SameNormal`); the other
  way round, one meaning has one normal form (`SameQuestion`); that both kinds of integer are read alike (`WideningIsPlain`)
  needs that clients do not send the kind the reference definition gives them (`RequestsType`).
  There is no bound on the depth of documents. `CommandsAreLimited`: every step of the composition is one
  of the limiter or leaves it alone, so that its bound and its refinement carry over.
  `QueryPaging`: `AllDocuments`, `CursorsKeepUp` and `NoneLeftBehind` share `PagingInv`. A client
  that pages holds an id of one of the tables (`HoldsId`), and if that entry is still its
  own, the entry is at the document the client receives next and holds as many as the client is
  to receive (`AtEntry`). The condition on the owner is what lets pruning, eviction and expiry
  happen at any time: the client's next `getMore` is then an error, not an end.

`NoLostRace`, `CleanIsRegistered`, `CursorAtClient` and the types of `BackendPool`,
`OrgMembership` and `RateLimiter` are proved and not model-checked again.

Only model-checked: liveness (`GetReturns`, `IdleClientsClosed`, `RequestsEnd`,
`EventuallyFresh`, `RegisterReturns`, `Drains`, `EventuallyApplied`), which is outside what the
prover handles. Every other property of the passing runs is a theorem. The inductive invariants
were checked by TLC, on instances like those of the runs, before they were proved.

## Not modelled

* Parsing and encoding (wire protocol, replies, `singleBatch`, document sequences), the legacy
  `OP_QUERY` path, which changes no state, and cursors returned by commands other than `find`
  and `aggregate`.
* Entries of the shared cache that cannot be deserialized, which the handler takes for misses. A
  flush of a namespace without members whose DEL fails counts as failed in `ReadCache`, the code
  reports success; the deletion code of an organization is checked and cleared in one step.
* All metrics but the busy gauge. The authenticated gauge is set after the unlock and may be
  published out of order.
* The tenant of a cursor: the tables compare the connection, which is stricter.
* A tenant switch on a counted connection keeps the first tenant's slot, so the second
  tenant's limit does not count it. `CountersExact` shows that the slot given back is the one
  taken; `LimitHolds` speaks of counted connections for this reason.
* An organization whose creation failed after `CreateTenant` has no owner and no user can
  manage it; `KeepsOwner` starts with the first owner.
* Generations and tags (`proxy/cache/generation.go`, `tags.go`) are not called by the handler.
* The memory store (`controlplane/store/memory.go`): it repeats the operations of the Postgres
  store under one lock, for tests and development. The display name of users, changes of a
  connection's URI, name or flush flag (single statements), queries of metrics.
* Routing, decoding and rendering of the HTTP API; its handlers appear where they check or pass
  on something.
* Start-up, configuration, mail, encryption, audit records, the dashboard.

## Plan

Done: the modules above, in the order of the table, and the theorems above. What could follow:

1. The steps behind the other liveness properties that are safety (`WaitersLed` and `SingleFlight`
   have those of `GetReturns` and `RequestsEnd`): that a refresh under way never loses work it still
   has to do, and that the eviction loop of a `Register` gets closer to its end.
2. How long an excuse lasts: a stale entry, an overtaken removal.
3. `CachedCursors` as an implementation of a table whose `Register` is one step, and `QueryPaging`
   on top of that table.
4. The generations and tags of the cache, once the handler calls them.
