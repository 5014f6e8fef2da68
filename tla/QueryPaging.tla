---------------------------- MODULE QueryPaging ----------------------------
(***************************************************************************)
(* What a client receives when it pages through a find or aggregate:       *)
(* passthrough reads with backend cursors (handler.handleFind,             *)
(* firstBatchFromCursor, handleGetMore and cursor/registry.go) and opt-in  *)
(* cached reads (tryCacheRead with the emulated cursors of                 *)
(* cachedcursor/store.go).                                                 *)
(*                                                                         *)
(* The collection does not change here: the query matches Total documents, *)
(* and a batch, a cached result or a cursor position is a number of them.  *)
(* The cache key covers the whole command, batchSize included, so there is *)
(* one cache entry per batch size.  Connections run one command at a time  *)
(* and each command is one step; the singleflight is left to ReadCache.    *)
(***************************************************************************)
EXTENDS Integers, FiniteSets, FiniteSetsExt

CONSTANTS
    Conns,         \* client connections
    NoConn,        \* owner of an id not in use
    Total,         \* documents the query matches
    Batches,       \* batchSize values clients use
    DefaultBatch,  \* first batch of an emulated cursor (101 in the code)
    MaxResult,     \* documents that fit in MaxResultBytes
    MaxIds         \* bound: cursor ids handed out by each of the two tables

ASSUME NoConnIsNoConn == NoConn \notin Conns
ASSUME SizesNat ==
    /\ Total \in Nat /\ MaxResult \in Nat /\ MaxIds \in Nat
    /\ DefaultBatch \in Nat \ {0} /\ Batches \subseteq Nat \ {0}

NoResult == -1
Ids == 1..MaxIds

\* Client-visible ids: the registry and the emulated cursors use two disjoint
\* ranges (the latter start at 1_000_000_000), told apart here by a tag.
NoCursor == <<"none", 0>>
CursorIds == {NoCursor} \cup ({"backend", "cached"} \X Ids)

VARIABLES
    cache,     \* cache[b]: documents in the cached result, or NoResult
    backend,   \* backend[i]: registry entry [conn, pos]
    emulated,  \* emulated[i]: emulated cursor [conn, docs, pos]
    ids,       \* ids handed out so far by each table
    conn       \* conn[c]: what the client on c knows of its current read

vars == <<cache, backend, emulated, ids, conn>>

NoBackend == [conn |-> NoConn, pos |-> 0]
NoEmulated == [conn |-> NoConn, docs |-> 0, pos |-> 0]

\* phase: "closed", "ready" (no read yet, or it ended in an error), "paging"
\* (holding cursor id) or "done" (the last reply carried id 0).
\* via: the kind of reply that started the read; want: the documents that the
\* source of that reply held; got: documents received.
Client == [phase : {"closed", "ready", "paging", "done"}, via : {"backend", "cached"},
           id : CursorIds, want : Nat, got : Nat]

Fresh(phase) == [phase |-> phase, via |-> "backend", id |-> NoCursor, want |-> 0, got |-> 0]

TypeOK ==
    /\ cache \in [Batches -> {NoResult} \cup 0..Total]
    /\ backend \in [Ids -> [conn : Conns \cup {NoConn}, pos : 0..Total]]
    /\ emulated \in [Ids -> [conn : Conns \cup {NoConn}, docs : 0..Total, pos : 0..Total]]
    /\ ids \in [{"backend", "cached"} -> 0..MaxIds]
    /\ conn \in [Conns -> Client]

Init ==
    /\ cache = [b \in Batches |-> NoResult]
    /\ backend = [i \in Ids |-> NoBackend]
    /\ emulated = [i \in Ids |-> NoEmulated]
    /\ ids = [t \in {"backend", "cached"} |-> 0]
    /\ conn = [c \in Conns |-> Fresh("closed")]

-----------------------------------------------------------------------------
(* Replies *)

\* firstBatchFromCursor: up to b documents.  A full batch leaves the cursor
\* registered (n ids used up before), a short one closes it.
FirstBatch(b) == Min({Total, b})

\* Mutant: a full batch closes the cursor too.
KeepsNoCursor(b) == FirstBatch(b) > b

KeepsCursor(b) == FirstBatch(b) >= b

RegisterBackend(c, b, n) ==
    IF KeepsCursor(b)
    THEN [i \in Ids |-> IF i \in n
                        THEN [conn |-> c, pos |-> FirstBatch(b)]
                        ELSE backend[i]]
    ELSE backend

\* The reply of a passthrough find: the client sees the registered id.
PassReply(c, b, i) ==
    conn' = [conn EXCEPT ![c] =
          [phase |-> IF KeepsCursor(b) THEN "paging" ELSE "done",
           via |-> "backend",
           id |-> IF KeepsCursor(b) THEN <<"backend", i>> ELSE NoCursor,
           want |-> Total,
           got |-> FirstBatch(b)]]

\* Entry.Pos of a new emulated cursor: after the first batch.
StartPos == DefaultBatch

\* CachedCursors.Register and ReplyFromCacheWithCursor for a result of n
\* documents: all of it, or a first batch and an emulated cursor.
CachedReply(c, n) ==
    IF DefaultBatch >= n
    THEN /\ conn' = [conn EXCEPT ![c] =
                        [phase |-> "done", via |-> "cached", id |-> NoCursor,
                         want |-> n, got |-> n]]
         /\ UNCHANGED emulated
    ELSE LET i == ids["cached"] + 1 IN
         /\ emulated' = [emulated EXCEPT ![i] =
                            [conn |-> c, docs |-> n, pos |-> StartPos]]
         /\ conn' = [conn EXCEPT ![c] =
                        [phase |-> "paging", via |-> "cached", id |-> <<"cached", i>>,
                         want |-> n, got |-> DefaultBatch]]

\* The ids that a command consumes: so many backend ones, so many emulated ones.
TakeIds(nb, ne) ==
    /\ ids["backend"] + nb <= MaxIds
    /\ ids["cached"] + ne <= MaxIds
    /\ ids' = [ids EXCEPT !["backend"] = @ + nb, !["cached"] = @ + ne]

NextBackend(n) == (ids["backend"] + 1)..(ids["backend"] + n)
Kept(b) == IF KeepsCursor(b) THEN 1 ELSE 0
Emulates(n) == IF DefaultBatch >= n THEN 0 ELSE 1
MayRead(c) == conn[c].phase # "closed"

-----------------------------------------------------------------------------
(* find and aggregate *)

\* A read of the plain collection name: passthrough.
Find(c, b) ==
    /\ MayRead(c)
    /\ TakeIds(Kept(b), 0)
    /\ backend' = RegisterBackend(c, b, NextBackend(1))
    /\ PassReply(c, b, ids["backend"] + 1)
    /\ UNCHANGED <<cache, emulated>>

\* A read of name_cache that hits.
FindCachedHit(c, b) ==
    /\ MayRead(c)
    /\ cache[b] # NoResult
    /\ TakeIds(0, Emulates(cache[b]))
    /\ CachedReply(c, cache[b])
    /\ UNCHANGED <<cache, backend>>

\* A miss: the load runs handleFind, which may register a backend cursor, and
\* keeps only the documents of its first batch.  They are cached (or the SET is
\* lost) and the reply is made from them.
FindCachedMiss(c, b) ==
    /\ MayRead(c)
    /\ cache[b] = NoResult
    /\ FirstBatch(b) <= MaxResult
    /\ TakeIds(Kept(b), Emulates(FirstBatch(b)))
    /\ backend' = RegisterBackend(c, b, NextBackend(1))
    /\ \/ cache' = [cache EXCEPT ![b] = FirstBatch(b)]
       \/ UNCHANGED cache
    /\ CachedReply(c, FirstBatch(b))

\* A miss with a result over MaxResultBytes: errTooBig, and handlePassthrough
\* runs the query a second time; maybePopulateCache finds it too big again.
FindCachedTooBig(c, b) ==
    /\ MayRead(c)
    /\ cache[b] = NoResult
    /\ FirstBatch(b) > MaxResult
    /\ TakeIds(2 * Kept(b), 0)
    /\ backend' = RegisterBackend(c, b, NextBackend(2))
    /\ PassReply(c, b, ids["backend"] + 2)
    /\ UNCHANGED <<cache, emulated>>

\* Redis did not answer the GET, or the load failed: fail open with a query of
\* its own, then maybePopulateCache.
FindCachedUnavailable(c, b) ==
    /\ MayRead(c)
    /\ TakeIds(Kept(b), 0)
    /\ backend' = RegisterBackend(c, b, NextBackend(1))
    /\ PassReply(c, b, ids["backend"] + 1)
    /\ \/ /\ FirstBatch(b) <= MaxResult
          /\ cache' = [cache EXCEPT ![b] = FirstBatch(b)]
       \/ UNCHANGED cache
    /\ UNCHANGED emulated

\* The backend fails the query: an error reply, and no cursor is registered.
FindError(c) ==
    /\ MayRead(c)
    /\ conn' = [conn EXCEPT ![c] = Fresh("ready")]
    /\ UNCHANGED <<cache, backend, emulated, ids>>

-----------------------------------------------------------------------------
(* getMore, killCursors *)

Received(c, n, last) ==
    conn' = [conn EXCEPT ![c] =
        [conn[c] EXCEPT !.got = @ + n,
                        !.phase = IF last THEN "done" ELSE "paging",
                        !.id = IF last THEN NoCursor ELSE @]]

\* handleCachedGetMore: NextBatch; the batch that reaches the end deletes the
\* cursor and carries id 0.
GetMoreCached(c, i, b) ==
    LET e == emulated[i]
        end == Min({e.pos + b, e.docs})
    IN
    /\ conn[c].phase = "paging"
    /\ conn[c].id = <<"cached", i>>
    /\ e.conn = c
    /\ emulated' = [emulated EXCEPT ![i] =
                       IF end >= e.docs THEN NoEmulated ELSE [e EXCEPT !.pos = end]]
    /\ Received(c, end - e.pos, end >= e.docs)
    /\ UNCHANGED <<cache, backend, ids>>

\* What the backend cursor yields for a batch size of b.
BackendBatch(i, b) == Min({b, Total - backend[i].pos})

\* handleGetMore: a batch shorter than asked for removes the cursor.
GetMoreBackend(c, i, b) ==
    LET e == backend[i]
        n == BackendBatch(i, b)
    IN
    /\ conn[c].phase = "paging"
    /\ conn[c].id = <<"backend", i>>
    /\ e.conn = c
    /\ backend' = [backend EXCEPT ![i] =
                      IF n < b THEN NoBackend ELSE [e EXCEPT !.pos = @ + n]]
    /\ Received(c, n, n < b)
    /\ UNCHANGED <<cache, emulated, ids>>

\* The backend cursor fails: it is removed and the client gets the error.
GetMoreError(c, i) ==
    /\ conn[c].phase = "paging"
    /\ conn[c].id = <<"backend", i>>
    /\ backend[i].conn = c
    /\ backend' = [backend EXCEPT ![i] = NoBackend]
    /\ conn' = [conn EXCEPT ![c] = Fresh("ready")]
    /\ UNCHANGED <<cache, emulated, ids>>

OwnerOf(id) == IF id[1] = "backend" THEN backend[id[2]].conn ELSE emulated[id[2]].conn

\* The cursor is gone (pruned or evicted): CursorNotFound.
GetMoreNotFound(c) ==
    /\ conn[c].phase = "paging"
    /\ OwnerOf(conn[c].id) # c
    /\ conn' = [conn EXCEPT ![c] = Fresh("ready")]
    /\ UNCHANGED <<cache, backend, emulated, ids>>

\* killCursors goes to both tables; each drops the id if it has it.
KillCursors(c) ==
    LET id == conn[c].id IN
    /\ conn[c].phase = "paging"
    /\ backend' = [i \in Ids |-> IF id = <<"backend", i>> /\ backend[i].conn = c
                                 THEN NoBackend ELSE backend[i]]
    /\ emulated' = [i \in Ids |-> IF id = <<"cached", i>> /\ emulated[i].conn = c
                                  THEN NoEmulated ELSE emulated[i]]
    /\ conn' = [conn EXCEPT ![c] = Fresh("ready")]
    /\ UNCHANGED <<cache, ids>>

-----------------------------------------------------------------------------
(* Connections, time *)

Connect(c) ==
    /\ conn[c].phase = "closed"
    /\ conn' = [conn EXCEPT ![c] = Fresh("ready")]
    /\ UNCHANGED <<cache, backend, emulated, ids>>

\* Mutant: the emulated cursors are forgotten.
NoEmulatedOf(c) == {}

EmulatedOf(c) == {i \in Ids : emulated[i].conn = c}

\* serveConn returns: CleanupConn on both tables.
Disconnect(c) ==
    /\ conn[c].phase # "closed"
    /\ backend' = [i \in Ids |-> IF backend[i].conn = c THEN NoBackend ELSE backend[i]]
    /\ emulated' = [i \in Ids |-> IF i \in EmulatedOf(c) THEN NoEmulated ELSE emulated[i]]
    /\ conn' = [conn EXCEPT ![c] = Fresh("closed")]
    /\ UNCHANGED <<cache, ids>>

\* Registry.PruneIdle takes cursor i.
PruneBackend(i) ==
    /\ backend[i] # NoBackend
    /\ backend' = [backend EXCEPT ![i] = NoBackend]
    /\ UNCHANGED <<cache, emulated, ids, conn>>

\* Store.PruneIdle or another connection's Register (evictOldest) takes i.
DropEmulated(i) ==
    /\ emulated[i] # NoEmulated
    /\ emulated' = [emulated EXCEPT ![i] = NoEmulated]
    /\ UNCHANGED <<cache, backend, ids, conn>>

\* A cached result expires or is flushed.
Expire(b) ==
    /\ cache[b] # NoResult
    /\ cache' = [cache EXCEPT ![b] = NoResult]
    /\ UNCHANGED <<backend, emulated, ids, conn>>

Next ==
    \/ \E c \in Conns :
          \/ Connect(c) \/ Disconnect(c) \/ GetMoreNotFound(c) \/ KillCursors(c)
          \/ FindError(c) \/ \E i \in Ids : GetMoreError(c, i)
          \/ \E b \in Batches :
                \/ Find(c, b) \/ FindCachedHit(c, b) \/ FindCachedMiss(c, b)
                \/ FindCachedTooBig(c, b) \/ FindCachedUnavailable(c, b)
                \/ \E i \in Ids : GetMoreCached(c, i, b) \/ GetMoreBackend(c, i, b)
    \/ \E i \in Ids : PruneBackend(i) \/ DropEmulated(i)
    \/ \E b \in Batches : Expire(b)

Spec == Init /\ [][Next]_vars

-----------------------------------------------------------------------------
(* Properties *)

\* A client that was told "no more" has received every document of what its
\* read was answered from, each once: all matching documents for a passthrough
\* read, the whole cached result for a cached one.  Changing batch sizes,
\* result sizes that are multiples of them, and cursors that vanish under the
\* client do not make it lose or repeat one.
PagingComplete ==
    /\ TypeOK
    /\ \A c \in Conns : conn[c].phase = "done" => conn[c].got = conn[c].want

\* A cursor in a table is exactly where its client is: the next batch starts
\* with the first document the client has not received.
CursorAtClient ==
    \A c \in Conns : conn[c].phase = "paging" /\ OwnerOf(conn[c].id) = c =>
        conn[c].got = IF conn[c].id[1] = "backend"
                      THEN backend[conn[c].id[2]].pos
                      ELSE emulated[conn[c].id[2]].pos

\* No cursor outlives its connection, also those that no client knows of.
NoCursorOfClosed ==
    \A i \in Ids : /\ backend[i].conn \in Conns => conn[backend[i].conn].phase # "closed"
                   /\ emulated[i].conn \in Conns => conn[emulated[i].conn].phase # "closed"
=============================================================================
