----------------------------- MODULE PoolCursors -----------------------------
(***************************************************************************)
(* Backend cursors over pooled clients: BackendPool composed with the part *)
(* of the handler that opens a cursor on a client it holds and reads it    *)
(* after the client was released (proxy/handler/handler.go,                *)
(* proxy/cursor/registry.go).                                              *)
(*                                                                         *)
(* getMore takes the cursor from the registry and reads it.  It neither    *)
(* gets nor releases the client, so it does not count as a use of it: the  *)
(* reaper may disconnect the client between two getMores, or during one.   *)
(***************************************************************************)
EXTENDS BackendPool

CONSTANTS Cursors, NoConn    \* ids of the registry; "not registered"

ASSUME NoConnDistinct == NoConn \notin Conns

VARIABLES
    cursor,   \* cursor[x]: the connection and the client of an open cursor
    lapsed    \* history: cursors whose connection has once been idle since they opened

cursorVars == <<cursor, lapsed>>
allVars == <<vars, cursorVars>>

Closed == [conn |-> NoConn, client |-> NoClient]
IsOpen(x) == cursor[x] # Closed

CursorsTypeOK ==
    /\ cursor \in [Cursors -> [conn : Conns \cup {NoConn}, client : MaybeClient]]
    /\ lapsed \subseteq Cursors

CursorsInit == Init /\ cursor = [x \in Cursors |-> Closed] /\ lapsed = {}

\* A find between Get and Release whose first batch is full registers its cursor.
OpenCursor(w, x) ==
    /\ pc[w] = Using /\ got[w] \in open
    /\ ~IsOpen(x)
    /\ cursor' = [cursor EXCEPT ![x] = [conn |-> cid[w], client |-> got[w]]]
    /\ lapsed' = IF cid[w] \in idle THEN lapsed \cup {x} ELSE lapsed
    /\ UNCHANGED vars

\* Registry.Remove, KillMany, CleanupConn or PruneIdle: the entry goes and the cursor is closed.
Remove(x) ==
    /\ cursor' = [cursor EXCEPT ![x] = Closed]
    /\ lapsed' = lapsed \ {x}
    /\ UNCHANGED vars

\* The last batch.  A full one leaves everything as it is.
GetMoreLast(x) == IsOpen(x) /\ cursor[x].client \in open /\ Remove(x)

\* The client has been disconnected: the cursor fails and is removed.
GetMoreError(x) == IsOpen(x) /\ cursor[x].client \notin open /\ Remove(x)

\* killCursors, the end of the client connection, PruneIdle.
DropCursor(x) == IsOpen(x) /\ Remove(x)

\* Time passes for a connection and with it for the cursors on it.
ElapseWithCursors(c) ==
    /\ Elapse(c)
    /\ lapsed' = lapsed \cup {x \in Cursors : cursor[x].conn = c}
    /\ UNCHANGED cursor

PoolStep ==
    \/ \E w \in Workers, c \in Conns : GetHit(w, c) \/ GetMiss(w, c)
    \/ \E w \in Workers : GetStep(w) \/ Release(w)
    \/ EvictIdle
    \/ \E g \in Closers : Disconnect(g)
    \/ Stop
    \/ DisconnectAll

CursorsNext ==
    \/ PoolStep /\ UNCHANGED cursorVars
    \/ \E c \in Conns : ElapseWithCursors(c)
    \/ \E w \in Workers, x \in Cursors : OpenCursor(w, x)
    \/ \E x \in Cursors : GetMoreLast(x) \/ GetMoreError(x) \/ DropCursor(x)

\* The fairness of the pool; nobody is obliged to read or close a cursor.
CursorsSpec == CursorsInit /\ [][CursorsNext]_allVars /\ Fairness

-----------------------------------------------------------------------------
(* Properties. *)

\* The client under an open cursor is disconnected only when its connection has been
\* idle, in the pool's sense, at some time since the cursor was opened, or when Gets
\* were coalesced, or at shutdown: other requests on the connection keep it.
CursorKeepsClient ==
    /\ CursorsTypeOK
    /\ \A x \in Cursors :
          IsOpen(x) /\ cursor[x].client \notin open =>
              x \in lapsed \/ cursor[x].conn \in coalesced \/ shutdown # Running
=============================================================================
