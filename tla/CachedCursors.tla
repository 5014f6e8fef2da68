--------------------------- MODULE CachedCursors ---------------------------
(***************************************************************************)
(* The store of emulated cursors that page through cached results          *)
(* (internal/proxy/cachedcursor/store.go) and its global byte budget.      *)
(*                                                                         *)
(* A client connection runs one command at a time, so connections are the  *)
(* processes.  Register is not atomic: it reads curBytes, evicts, takes an *)
(* id, inserts under the lock and only then accounts for the bytes.  A     *)
(* document counts as one byte.                                            *)
(***************************************************************************)
EXTENDS Integers, FiniteSets, FiniteSetsExt

CONSTANTS
    Conns,         \* client connections (ConnKey)
    NoConn,        \* owner of an id not in use
    MaxDocs,       \* bound: documents of one cached result
    DefaultBatch,  \* documents in a first batch
    Batches,       \* batchSize values of getMore
    MaxBytes,      \* Store.maxBytes
    MaxIds         \* bound: cursor ids handed out

ASSUME NoConnIsNoConn == NoConn \notin Conns
ASSUME ConnsFinite == IsFiniteSet(Conns)
ASSUME BatchesPositive == DefaultBatch \in Nat \ {0} /\ Batches \subseteq Nat \ {0}
ASSUME CursorBounds == MaxDocs \in Nat \ {0} /\ MaxBytes \in Nat /\ MaxIds \in Nat

Ids == 1..MaxIds

VARIABLES
    live,      \* ids in byID
    owner,     \* owner[i]: Entry.ConnKey
    size,      \* size[i]: Entry.Bytes = len(Entry.Docs)
    pos,       \* pos[i]: Entry.Pos
    older,     \* <<i, j>>: Entry.LastUsed of i is before that of j
    nextID,    \* ids handed out
    curBytes,  \* the atomic counter
    pc,        \* where each connection is in Register, or closed
    docs,      \* documents of the result being registered
    newID      \* the id it was given

cursorVars == <<live, owner, size, pos, older, nextID, curBytes, pc, docs, newID>>

Closed == "closed"
Ready == "ready"           \* connected, no store operation running
Budget == "budget"         \* Register: about to read curBytes
Evicting == "evicting"     \* Register: over budget, about to call evictOldest
Allocating == "allocating" \* Register: about to take an id and the time
Inserting == "inserting"   \* Register: about to insert under the lock
Accounting == "accounting" \* Register: inserted, about to add its bytes

PCs == {Closed, Ready, Budget, Evicting, Allocating, Inserting, Accounting}

CursorTypeOK ==
    /\ live \subseteq Ids
    /\ owner \in [Ids -> Conns \cup {NoConn}]
    /\ size \in [Ids -> 0..MaxDocs]
    /\ pos \in [Ids -> 0..MaxDocs]
    /\ older \subseteq Ids \X Ids
    /\ nextID \in 0..MaxIds
    /\ curBytes \in Int
    /\ pc \in [Conns -> PCs]
    /\ docs \in [Conns -> 0..MaxDocs]
    /\ newID \in [Conns -> 0..MaxIds]
    /\ \A i \in live : pos[i] < size[i]   \* a cursor has a document left

CursorInit ==
    /\ live = {}
    /\ owner = [i \in Ids |-> NoConn]
    /\ size = [i \in Ids |-> 0]
    /\ pos = [i \in Ids |-> 0]
    /\ older = {}
    /\ nextID = 0
    /\ curBytes = 0
    /\ pc = [c \in Conns |-> Closed]
    /\ docs = [c \in Conns |-> 0]
    /\ newID = [c \in Conns |-> 0]

Bytes(S) == MapThenSumSet(LAMBDA i : size[i], S)

\* delete(byID, id) and curBytes.Add(-e.Bytes) for every id of S.
Remove(S) ==
    /\ live' = live \ S
    /\ curBytes' = curBytes - Bytes(S)
    /\ owner' = [i \in Ids |-> IF i \in S THEN NoConn ELSE owner[i]]
    /\ size' = [i \in Ids |-> IF i \in S THEN 0 ELSE size[i]]
    /\ pos' = [i \in Ids |-> IF i \in S THEN 0 ELSE pos[i]]
    /\ older' = {u \in older : u[1] \notin S /\ u[2] \notin S}

\* Entries with a time of last use: those in byID and those about to be.
Stamped == live \cup {newID[c] : c \in {d \in Conns : pc[d] = Inserting}}

\* LastUsed of i becomes time.Now().
Used(i) == older' = {u \in older : u[1] # i} \cup {<<j, i>> : j \in Stamped \ {i}}

Goto(c, p) == pc' = [pc EXCEPT ![c] = p]

-----------------------------------------------------------------------------
(* Register *)

Connect(c) ==
    /\ pc[c] = Closed
    /\ Goto(c, Ready)
    /\ UNCHANGED <<live, owner, size, pos, older, nextID, curBytes, docs, newID>>

NeedsCursor(n) == n > DefaultBatch

\* Register(docs): a result that fits in the first batch (n <= DefaultBatch)
\* is returned whole and leaves no trace; a larger one needs a cursor.
Register(c, n) ==
    /\ pc[c] = Ready
    /\ NeedsCursor(n)
    /\ nextID + Cardinality({d \in Conns : pc[d] \in {Budget, Evicting, Allocating}}) < MaxIds
    /\ docs' = [docs EXCEPT ![c] = n]
    /\ Goto(c, Budget)
    /\ UNCHANGED <<live, owner, size, pos, older, nextID, curBytes, newID>>

\* Mutant: the budget check leaves out the new result.
OverBudgetBefore(c) == curBytes > MaxBytes

\* curBytes.Load() + bytes > maxBytes?
OverBudget(c) == curBytes + docs[c] > MaxBytes

CheckBudget(c) ==
    /\ pc[c] = Budget
    /\ Goto(c, IF OverBudget(c) THEN Evicting ELSE Allocating)
    /\ UNCHANGED <<live, owner, size, pos, older, nextID, curBytes, docs, newID>>

\* Mutant: with nothing to evict, check again.
RetryWhenEmpty == Budget

\* for ... { if !s.evictOldest() { break } }
AfterEmpty == Allocating

\* The entry evictOldest finds: last used before every other.
Oldest == {i \in live : \A j \in live \ {i} : <<i, j>> \in older}

\* evictOldest: drop the least recently used entry and check again, or, with
\* no entry left, go ahead over budget.
EvictOldest(c) ==
    /\ pc[c] = Evicting
    /\ \/ /\ live = {}
          /\ Goto(c, AfterEmpty)
          /\ UNCHANGED <<live, owner, size, pos, older, curBytes>>
       \/ /\ \E i \in Oldest : Remove({i})
          /\ Goto(c, Budget)
    /\ UNCHANGED <<nextID, docs, newID>>

\* nextID.Add(1) and now := time.Now().
Allocate(c) ==
    /\ pc[c] = Allocating
    /\ nextID' = nextID + 1
    /\ newID' = [newID EXCEPT ![c] = nextID + 1]
    /\ Used(nextID + 1)
    /\ Goto(c, Inserting)
    /\ UNCHANGED <<live, owner, size, pos, curBytes, docs>>

\* byID[id] = ent, under the lock.
Insert(c) ==
    LET i == newID[c] IN
    /\ pc[c] = Inserting
    /\ live' = live \cup {i}
    /\ owner' = [owner EXCEPT ![i] = c]
    /\ size' = [size EXCEPT ![i] = docs[c]]
    /\ pos' = [pos EXCEPT ![i] = DefaultBatch]
    /\ Goto(c, Accounting)
    /\ UNCHANGED <<older, nextID, curBytes, docs, newID>>

\* Mutant: the bytes of the entry, which may be gone by now.
EntryBytes(c) == size[newID[c]]

\* bytes, computed before the entry was inserted.
NewBytes(c) == docs[c]

\* curBytes.Add(bytes), after the lock was released.
Account(c) ==
    /\ pc[c] = Accounting
    /\ curBytes' = curBytes + NewBytes(c)
    /\ docs' = [docs EXCEPT ![c] = 0]
    /\ newID' = [newID EXCEPT ![c] = 0]
    /\ Goto(c, Ready)
    /\ UNCHANGED <<live, owner, size, pos, older, nextID>>

RegisterStep(c) ==
    CheckBudget(c) \/ EvictOldest(c) \/ Allocate(c) \/ Insert(c) \/ Account(c)

-----------------------------------------------------------------------------
(* The other operations hold the lock throughout. *)

\* NextBatch for a cursor of this connection; the last batch deletes it.  An
\* unknown id, or one of another connection, changes nothing.
NextBatch(c, i, b) ==
    LET end == Min({pos[i] + b, size[i]}) IN
    /\ pc[c] = Ready
    /\ i \in live
    /\ owner[i] = c
    /\ IF end >= size[i]
       THEN Remove({i})
       ELSE /\ pos' = [pos EXCEPT ![i] = end]
            /\ Used(i)
            /\ UNCHANGED <<live, owner, size, curBytes>>
    /\ UNCHANGED <<nextID, pc, docs, newID>>

\* Kill, for each id of a killCursors command.
Kill(c, i) ==
    /\ pc[c] = Ready
    /\ i \in live
    /\ owner[i] = c
    /\ Remove({i})
    /\ UNCHANGED <<nextID, pc, docs, newID>>

\* Mutant: the clean-up stops at the first cursor.
FirstOwnedBy(c) == {i \in live : owner[i] = c /\ \A j \in live : owner[j] = c => i <= j}

OwnedBy(c) == {i \in live : owner[i] = c}

\* CleanupConn, when serveConn returns.
CleanupConn(c) ==
    /\ pc[c] = Ready
    /\ Remove(OwnedBy(c))
    /\ Goto(c, Closed)
    /\ UNCHANGED <<nextID, docs, newID>>

\* PruneIdle: the entries last used before the cutoff, whichever it is.
PruneIdle ==
    \E S \in SUBSET live \ {{}} :
        /\ \A i \in S, j \in live \ S : <<i, j>> \in older
        /\ Remove(S)
        /\ UNCHANGED <<nextID, pc, docs, newID>>

-----------------------------------------------------------------------------
CursorNext ==
    \/ \E c \in Conns :
          \/ Connect(c) \/ CleanupConn(c) \/ RegisterStep(c)
          \/ \E n \in 1..MaxDocs : Register(c, n)
          \/ \E i \in Ids, b \in Batches : NextBatch(c, i, b)
          \/ \E i \in Ids : Kill(c, i)
    \/ PruneIdle

CursorSpec == CursorInit /\ [][CursorNext]_cursorVars
CursorFairSpec == CursorSpec /\ \A c \in Conns : WF_cursorVars(RegisterStep(c))

-----------------------------------------------------------------------------
(* Properties *)

\* Entries that Register has inserted and not yet accounted for, counted even
\* when they have been evicted, killed or pruned meanwhile.
Unaccounted == MapThenSumSet(LAMBDA c : docs[c], {c \in Conns : pc[c] = Accounting})

\* The counter is off by exactly the bytes of the Registers between insert and
\* accounting: removing an entry first makes it negative for a moment, and no
\* order of operations makes it drift.
ByteAccounting == CursorTypeOK /\ curBytes = Bytes(live) - Unaccounted

\* The budget (or the one result larger than it) is exceeded by at most one
\* result per other connection that is registering at the same time.
OvershootBounded ==
    Bytes(live) <= Max({MaxBytes, MaxDocs}) + (Cardinality(Conns) - 1) * MaxDocs

\* No entry outlives the connection that can read it: only a connection that
\* is open owns entries, whatever Register interleaves with its clean-up.
OwnersAreOpen == \A i \in live : pc[owner[i]] # Closed

\* The eviction loop ends: every Register returns.
RegisterReturns == \A c \in Conns : pc[c] = Budget ~> pc[c] = Ready

=============================================================================
