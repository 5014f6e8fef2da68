------------------------- MODULE BackendPoolProofs -------------------------
(***************************************************************************)
(* Proofs about BackendPool, for any number of workers, connections and    *)
(* clients: the types, the singleflight's exclusion (so that Get's "lost   *)
(* race" branch is dead), that no client is leaked and that no reference   *)
(* is leaked, that counts are exact until a Get is coalesced; and, of      *)
(* PoolCursors, which cursors may lose the client they read from.          *)
(***************************************************************************)
EXTENDS PoolCursors, FiniteSetTheorems, TLAPS

-----------------------------------------------------------------------------
(* Types *)

\* Every step of Get, Release, the reaper and the shutdown keeps the types.
LEMMA TypeStep == TypeOK /\ [Next]_vars => TypeOK'
<1> SUFFICES ASSUME TypeOK, [Next]_vars PROVE TypeOK'
  OBVIOUS
<1> USE NoWorkerIsNoWorker, MaxClientsNat
<1> USE DEF TypeOK, MaybeClient, NoClient, PCs, Idle, Missed, Waiting,
        Leading, Connecting, Installing, Returning, Using, Running, Stopping, Swapped
<1>1. ASSUME NEW w \in Workers, NEW c \in Conns, GetHit(w, c) \/ GetMiss(w, c)
      PROVE TypeOK'
  BY <1>1 DEF GetHit, GetMiss, Acquire
<1>2. ASSUME NEW w \in Workers, Lead(w) \/ Join(w)
      PROVE TypeOK'
  BY <1>2 DEF Lead, Join, MayLead
<1>3. ASSUME NEW w \in Workers, RecheckHit(w) \/ RecheckMiss(w)
      PROVE TypeOK'
  BY <1>3 DEF RecheckHit, RecheckMiss, Acquire
<1>4. ASSUME NEW w \in Workers, ConnectOK(w) \/ ConnectFail(w)
      PROVE TypeOK'
  <2>1. CASE ConnectOK(w)
    <3>1. created + 1 \in ClientIds /\ created + 1 \in MaybeClient
      BY <2>1 DEF ConnectOK, ClientIds
    <3> QED
      BY <2>1, <3>1 DEF ConnectOK
  <2>2. CASE ConnectFail(w)
    BY <2>2 DEF ConnectFail
  <2> QED
    BY <1>4, <2>1, <2>2
<1>5. ASSUME NEW w \in Workers, Install(w)
      PROVE TypeOK'
  BY <1>5 DEF Install, Acquire
<1>6. ASSUME NEW w \in Workers, Deliver(w)
      PROVE TypeOK'
  BY <1>6 DEF Deliver, FlightOf
<1>7. ASSUME NEW w \in Workers, Release(w)
      PROVE TypeOK'
  BY <1>7 DEF Release, Decremented
<1>8. ASSUME NEW c \in Conns, Elapse(c)
      PROVE TypeOK'
  BY <1>8 DEF Elapse
<1>9. CASE EvictIdle
  <2> DEFINE gone == {c \in Conns : Evictable(c)}
  <2>1. ClientsOf(gone) \subseteq ClientIds
    BY DEF ClientsOf, Evictable, ClientIds
  <2>2. doomed' \in [Closers -> SUBSET ClientIds]
    BY <1>9, <2>1 DEF EvictIdle
  <2> QED
    BY <1>9, <2>2 DEF EvictIdle
<1>10. ASSUME NEW g \in Closers, Disconnect(g)
       PROVE TypeOK'
  BY <1>10 DEF Disconnect
<1>11. CASE DisconnectAll
  <2>1. ClientsOf({c \in Conns : client[c] # NoClient}) \subseteq ClientIds
    BY DEF ClientsOf, ClientIds
  <2>2. doomed' \in [Closers -> SUBSET ClientIds]
    BY <1>11, <2>1 DEF DisconnectAll, ClientsOf
  <2> QED
    BY <1>11, <2>2 DEF DisconnectAll, ClientsOf
<1>12. CASE Stop
  BY <1>12 DEF Stop
<1>13. CASE UNCHANGED vars
  BY <1>13 DEF vars
<1> HIDE DEF TypeOK
<1> QED
  BY <1>1, <1>2, <1>3, <1>4, <1>5, <1>6, <1>7, <1>8, <1>9, <1>10, <1>11, <1>12, <1>13
     DEF Next, GetStep

\* The pool starts empty.
LEMMA TypeInit == Init => TypeOK
  BY NoWorkerIsNoWorker, MaxClientsNat
     DEF Init, TypeOK, MaybeClient, ClientIds, NoClient, Closers, PCs, Idle, Running

\* The pool's map, its counts and the state of every Get keep their types.
THEOREM TypeCorrect == Spec => []TypeOK
  BY TypeInit, TypeStep, PTL DEF Spec

-----------------------------------------------------------------------------
(* The singleflight *)

\* The phases in which a worker runs the function of sf.Do.
FlightPCs == {Leading, Connecting, Installing, Returning}

\* Whoever runs the function of a flight is the flight's only leader.
LeaderOnly == \A w \in Workers : pc[w] \in FlightPCs => flight[cid[w]] = w

\* From the flight's own look-up to the insertion nobody installs a client.
MissHolds ==
    \A w \in Workers : pc[w] \in {Connecting, Installing} => client[cid[w]] = NoClient

FlightInv == TypeOK /\ LeaderOnly /\ MissHolds

\* A client is installed by the leader of the connection's flight only, and a
\* leader leaves before another one can take its place.
LEMMA FlightStep == FlightInv /\ [Next]_vars => LeaderOnly' /\ MissHolds'
<1> SUFFICES ASSUME FlightInv, [Next]_vars PROVE LeaderOnly' /\ MissHolds'
  OBVIOUS
<1> USE NoWorkerIsNoWorker DEF FlightInv, LeaderOnly, MissHolds, FlightPCs
<1> USE DEF TypeOK, NoClient, Idle, Missed, Waiting, Leading, Connecting, Installing,
        Returning, Using
<1>1. ASSUME NEW w \in Workers, NEW c \in Conns, GetHit(w, c) \/ GetMiss(w, c)
      PROVE LeaderOnly' /\ MissHolds'
  BY <1>1 DEF GetHit, GetMiss, Acquire
<1>2. ASSUME NEW w \in Workers, Lead(w)
      PROVE LeaderOnly' /\ MissHolds'
  BY <1>2 DEF Lead, MayLead
<1>3. ASSUME NEW w \in Workers, Join(w)
      PROVE LeaderOnly' /\ MissHolds'
  BY <1>3 DEF Join, MayLead
<1>4. ASSUME NEW w \in Workers, RecheckHit(w) \/ RecheckMiss(w)
      PROVE LeaderOnly' /\ MissHolds'
  BY <1>4 DEF RecheckHit, RecheckMiss, Acquire
<1>5. ASSUME NEW w \in Workers, ConnectOK(w) \/ ConnectFail(w)
      PROVE LeaderOnly' /\ MissHolds'
  BY <1>5 DEF ConnectOK, ConnectFail
<1>6. ASSUME NEW w \in Workers, Install(w)
      PROVE LeaderOnly' /\ MissHolds'
  BY <1>6 DEF Install, Acquire
<1>7. ASSUME NEW w \in Workers, Deliver(w)
      PROVE LeaderOnly' /\ MissHolds'
  BY <1>7 DEF Deliver, FlightOf
<1>8. ASSUME NEW w \in Workers, Release(w)
      PROVE LeaderOnly' /\ MissHolds'
  BY <1>8 DEF Release, Decremented
<1>9. ASSUME NEW c \in Conns, Elapse(c)
      PROVE LeaderOnly' /\ MissHolds'
  BY <1>9 DEF Elapse
<1>10. CASE EvictIdle
  BY <1>10 DEF EvictIdle, Evictable, ClientsOf
<1>11. ASSUME NEW g \in Closers, Disconnect(g)
       PROVE LeaderOnly' /\ MissHolds'
  BY <1>11 DEF Disconnect
<1>12. CASE DisconnectAll
  BY <1>12 DEF DisconnectAll, ClientsOf
<1>13. CASE Stop
  BY <1>13 DEF Stop
<1>14. CASE UNCHANGED vars
  BY <1>14 DEF vars
<1> HIDE DEF LeaderOnly, MissHolds
<1> QED
  BY <1>1, <1>2, <1>3, <1>4, <1>5, <1>6, <1>7, <1>8, <1>9, <1>10, <1>11,
     <1>12, <1>13, <1>14
     DEF Next, GetStep

\* The flight's invariant holds of every reachable state.
LEMMA FlightInvariance == Spec => []FlightInv
<1>1. Init => LeaderOnly /\ MissHolds
  BY DEF Init, LeaderOnly, MissHolds, FlightPCs, Idle, Leading, Connecting, Installing,
         Returning
<1> QED
  BY <1>1, TypeInit, TypeStep, FlightStep, PTL DEF Spec, FlightInv

\* Get's last critical section never finds a client another Get has installed:
\* pool.go's "lost race" branch, which would disconnect its own client, is dead.
THEOREM OneCreator == Spec => []NoLostRace
<1>1. FlightInv => NoLostRace
  BY DEF FlightInv, MissHolds, NoLostRace
<1> QED
  BY <1>1, FlightInvariance, PTL

-----------------------------------------------------------------------------
(* No Get waits for nothing *)

\* A flight that the singleflight has on record is being run by a Get for its
\* connection, and every Get that waits is in such a flight.
NoneStranded ==
    /\ \A c \in Conns : flight[c] # NoWorker =>
          flight[c] \in Workers /\ pc[flight[c]] \in FlightPCs /\ cid[flight[c]] = c
    /\ \A w \in Workers : pc[w] = Waiting => flight[cid[w]] # NoWorker

\* A flight ends together with its waits, and only when its leader has returned.
LEMMA StrandedStep == FlightInv /\ NoneStranded /\ [Next]_vars => NoneStranded'
<1> SUFFICES ASSUME FlightInv, NoneStranded, [Next]_vars PROVE NoneStranded'
  OBVIOUS
<1> USE NoWorkerIsNoWorker DEF FlightInv, TypeOK, LeaderOnly, NoneStranded, FlightPCs
<1> USE DEF NoClient, PCs, Idle, Missed, Waiting, Leading, Connecting, Installing, Returning, Using
<1>1. ASSUME NEW w \in Workers, NEW c \in Conns, GetHit(w, c) \/ GetMiss(w, c)
      PROVE NoneStranded'
  BY <1>1 DEF GetHit, GetMiss, Acquire
<1>2. ASSUME NEW w \in Workers, Lead(w) \/ Join(w)
      PROVE NoneStranded'
  BY <1>2 DEF Lead, Join, MayLead
<1>3. ASSUME NEW w \in Workers, RecheckHit(w) \/ RecheckMiss(w)
      PROVE NoneStranded'
  BY <1>3 DEF RecheckHit, RecheckMiss, Acquire
<1>4. ASSUME NEW w \in Workers, ConnectOK(w) \/ ConnectFail(w)
      PROVE NoneStranded'
  BY <1>4 DEF ConnectOK, ConnectFail
<1>5. ASSUME NEW w \in Workers, Install(w)
      PROVE NoneStranded'
  BY <1>5 DEF Install, Acquire
<1>6. ASSUME NEW w \in Workers, Deliver(w)
      PROVE NoneStranded'
  <2>1. flight[cid[w]] = w
    BY <1>6 DEF Deliver
  <2>2. ASSUME NEW v \in Workers, pc'[v] = Waiting
        PROVE  cid[v] # cid[w] /\ pc[v] = Waiting /\ flight'[cid[v]] = flight[cid[v]]
    BY <1>6, <2>2 DEF Deliver, FlightOf
  <2>3. ASSUME NEW c \in Conns, flight'[c] # NoWorker
        PROVE  c # cid[w] /\ flight'[c] = flight[c] /\ pc'[flight[c]] = pc[flight[c]]
    BY <1>6, <2>3 DEF Deliver, FlightOf
  <2>4. cid' = cid
    BY <1>6 DEF Deliver
  <2>5. ASSUME NEW c \in Conns, flight'[c] # NoWorker
        PROVE  flight'[c] \in Workers /\ pc'[flight'[c]] \in FlightPCs /\ cid'[flight'[c]] = c
    BY <2>3, <2>4, <2>5
  <2>6. ASSUME NEW v \in Workers, pc'[v] = Waiting PROVE flight'[cid'[v]] # NoWorker
    BY <2>2, <2>4, <2>6
  <2>. QED
    BY <2>5, <2>6
<1>7. ASSUME NEW w \in Workers, Release(w)
      PROVE NoneStranded'
  BY <1>7 DEF Release, Decremented
<1>8. ASSUME NEW c \in Conns, Elapse(c)
      PROVE NoneStranded'
  BY <1>8 DEF Elapse
<1>9. ASSUME NEW g \in Closers, Disconnect(g)
      PROVE NoneStranded'
  BY <1>9 DEF Disconnect
<1>10. CASE EvictIdle \/ DisconnectAll \/ Stop \/ UNCHANGED vars
  BY <1>10 DEF EvictIdle, DisconnectAll, Stop, vars
<1> HIDE DEF NoneStranded
<1> QED
  BY <1>1, <1>2, <1>3, <1>4, <1>5, <1>6, <1>7, <1>8, <1>9, <1>10 DEF Next, GetStep

\* A Get that is coalesced into a flight always has a leader at work that will give it
\* a client or an error, and no flight is left behind on which all later Gets of the
\* connection would wait (Get, sf.Do): what GetReturns rests on besides fairness.
THEOREM WaitersLed == Spec => []NoneStranded
<1>1. Init => NoneStranded
  BY NoWorkerIsNoWorker DEF Init, NoneStranded, Idle, Waiting
<1> QED
  BY <1>1, FlightInvariance, StrandedStep, PTL DEF Spec

-----------------------------------------------------------------------------
(* No client is leaked *)

\* DisconnectAll's list is empty until it takes the map.
ListEmpty == shutdown # Swapped => doomed["shutdown"] = {}

LeakInv == TypeOK /\ ListEmpty /\ NoClientLeak

\* A connected client only ever moves: from the flight that created it to the
\* map, from the map to the list of whoever removed it, and off the list when
\* it is disconnected.
LEMMA LeakStep == LeakInv /\ [Next]_vars => ListEmpty' /\ NoClientLeak'
<1> SUFFICES ASSUME LeakInv, [Next]_vars PROVE ListEmpty' /\ NoClientLeak'
  OBVIOUS
<1> USE DEF LeakInv, ListEmpty, NoClientLeak, Closers, Running, Stopping, Swapped
<1> USE DEF TypeOK, NoClient, Idle, Missed, Waiting, Leading, Connecting, Installing,
        Returning, Using
<1>1. ASSUME NEW w \in Workers, NEW c \in Conns, GetHit(w, c) \/ GetMiss(w, c)
      PROVE ListEmpty' /\ NoClientLeak'
  BY <1>1 DEF GetHit, GetMiss, Acquire
<1>2. ASSUME NEW w \in Workers, Lead(w)
      PROVE ListEmpty' /\ NoClientLeak'
  BY <1>2 DEF Lead, MayLead
<1>3. ASSUME NEW w \in Workers, Join(w)
      PROVE ListEmpty' /\ NoClientLeak'
  BY <1>3 DEF Join, MayLead
<1>4. ASSUME NEW w \in Workers, RecheckHit(w) \/ RecheckMiss(w)
      PROVE ListEmpty' /\ NoClientLeak'
  BY <1>4 DEF RecheckHit, RecheckMiss, Acquire
<1>5. ASSUME NEW w \in Workers, ConnectOK(w) \/ ConnectFail(w)
      PROVE ListEmpty' /\ NoClientLeak'
  BY <1>5 DEF ConnectOK, ConnectFail
<1>6. ASSUME NEW w \in Workers, Install(w)
      PROVE ListEmpty' /\ NoClientLeak'
  <2>1. \A d \in open : d # NoClient
    BY MaxClientsNat DEF ClientIds
  <2>2. CASE client[cid[w]] # NoClient
    BY <1>6, <2>2 DEF Install, Acquire
  <2>3. CASE client[cid[w]] = NoClient
    <3>1. ListEmpty'
      BY <1>6, <2>3 DEF Install
    <3>2. ASSUME NEW c \in Conns, NEW d \in open, client[c] = d PROVE client'[c] = d
      BY <1>6, <2>1, <2>3, <3>2 DEF Install
    <3>3. client'[cid[w]] = got[w]
      BY <1>6, <2>3 DEF Install
    <3> QED
      BY <1>6, <2>3, <3>1, <3>2, <3>3 DEF Install
  <2> QED
    BY <2>2, <2>3
<1>7. ASSUME NEW w \in Workers, Deliver(w)
      PROVE ListEmpty' /\ NoClientLeak'
  BY <1>7 DEF Deliver, FlightOf
<1>8. ASSUME NEW w \in Workers, Release(w)
      PROVE ListEmpty' /\ NoClientLeak'
  BY <1>8 DEF Release, Decremented
<1>9. ASSUME NEW c \in Conns, Elapse(c)
      PROVE ListEmpty' /\ NoClientLeak'
  BY <1>9 DEF Elapse
<1>10. CASE EvictIdle
  BY <1>10 DEF EvictIdle, Evictable, ClientsOf
<1>11. ASSUME NEW g \in Closers, Disconnect(g)
       PROVE ListEmpty' /\ NoClientLeak'
  BY <1>11 DEF Disconnect
<1>12. CASE DisconnectAll
  BY <1>12 DEF DisconnectAll, ClientsOf
<1>13. CASE Stop
  BY <1>13 DEF Stop
<1>14. CASE UNCHANGED vars
  BY <1>14 DEF vars
<1> HIDE DEF ListEmpty, NoClientLeak, Closers
<1> QED
  BY <1>1, <1>2, <1>3, <1>4, <1>5, <1>6, <1>7, <1>8, <1>9, <1>10, <1>11,
     <1>12, <1>13, <1>14
     DEF Next, GetStep

\* Every connected mongo.Client is in the map, in the hands of the Get that
\* created it, or on the list of a goroutine that is about to disconnect it.
THEOREM ClientsReachable == Spec => []NoClientLeak
<1>1. Init => ListEmpty /\ NoClientLeak
  BY DEF Init, ListEmpty, NoClientLeak, Closers
<1> QED
  BY <1>1, TypeInit, TypeStep, LeakStep, PTL DEF Spec, LeakInv

-----------------------------------------------------------------------------
(* No reference is leaked *)

\* A connection without an entry has no count (Release may find no entry).
NoEntryNoRefs == \A c \in Conns : client[c] = NoClient => refs[c] = 0

\* connect() succeeded: there is a client to install.
HasNewClient == \A w \in Workers : pc[w] = Installing => got[w] # NoClient

RefInv == TypeOK /\ NoEntryNoRefs /\ HasNewClient /\ NoLeakedRef

\* The holders of a connection are finitely many.
LEMMA HoldersFinite ==
    ASSUME NEW c \in Conns
    PROVE  IsFiniteSet(Holders(c)) /\ Cardinality(Holders(c)) \in Nat
<1>1. Holders(c) \subseteq Workers
  BY DEF Holders
<1> QED
  BY <1>1, WorkersFinite, FS_Subset, FS_CardinalityType

\* So they are after the step.
LEMMA HoldersFiniteNext ==
    ASSUME NEW c \in Conns
    PROVE  IsFiniteSet(Holders(c)') /\ Cardinality(Holders(c)') \in Nat
<1>1. Holders(c)' \subseteq Workers
  BY DEF Holders
<1> QED
  BY <1>1, WorkersFinite, FS_Subset, FS_CardinalityType

\* A count that does not grow is covered by holders that do not shrink.
LEMMA HoldersGrow ==
    ASSUME NEW c \in Conns, TypeOK, refs[c] <= Cardinality(Holders(c)),
           refs'[c] \in Nat, refs'[c] <= refs[c], Holders(c) \subseteq Holders(c)'
    PROVE  refs'[c] <= Cardinality(Holders(c))'
<1>1. Cardinality(Holders(c)) <= Cardinality(Holders(c)')
  BY HoldersFinite, HoldersFiniteNext, FS_Subset
<1>2. refs[c] \in Nat
  BY DEF TypeOK
<1> QED
  BY <1>1, <1>2, HoldersFinite, HoldersFiniteNext

\* A Get that is counted is a new holder.
LEMMA HolderAdded ==
    ASSUME NEW c \in Conns, NEW w \in Workers, TypeOK, refs[c] <= Cardinality(Holders(c)),
           w \notin Holders(c), Holders(c)' = Holders(c) \cup {w},
           refs'[c] \in Nat, refs'[c] <= refs[c] + 1
    PROVE  refs'[c] <= Cardinality(Holders(c))'
<1>1. Cardinality(Holders(c)') = Cardinality(Holders(c)) + 1
  BY HoldersFinite, FS_AddElement
<1>2. refs[c] \in Nat
  BY DEF TypeOK
<1> QED
  BY <1>1, <1>2, HoldersFinite

\* A Release takes one holder away and, if there is an entry, one reference.
LEMMA HolderRemoved ==
    ASSUME NEW c \in Conns, NEW w \in Workers, TypeOK, refs[c] <= Cardinality(Holders(c)),
           Holders(c)' = Holders(c) \ {w},
           refs'[c] = IF refs[c] > 0 THEN refs[c] - 1 ELSE 0
    PROVE  refs'[c] <= Cardinality(Holders(c))'
<1>1. Cardinality(Holders(c)') \in {Cardinality(Holders(c)), Cardinality(Holders(c)) - 1}
  BY HoldersFinite, FS_RemoveElement
<1>2. refs[c] \in Nat
  BY DEF TypeOK
<1> QED
  BY <1>1, <1>2, HoldersFinite, HoldersFiniteNext

\* The count follows the holders through every step.
LEMMA RefStep == RefInv /\ [Next]_vars => NoEntryNoRefs' /\ HasNewClient' /\ NoLeakedRef'
<1> SUFFICES ASSUME RefInv, [Next]_vars
             PROVE NoEntryNoRefs' /\ HasNewClient' /\ NoLeakedRef'
  OBVIOUS
<1> USE DEF RefInv
<1>t. TypeOK /\ TypeOK'
  BY TypeStep
<1>r. ASSUME NEW c \in Conns
      PROVE /\ refs[c] \in Nat /\ refs'[c] \in Nat
            /\ refs[c] <= Cardinality(Holders(c))
  BY <1>t DEF TypeOK, NoLeakedRef
<1> DEFINE Goal == NoEntryNoRefs' /\ HasNewClient' /\ NoLeakedRef'
<1> USE DEF Idle, Missed, Waiting, Leading, Connecting, Installing, Returning, Using, NoClient
\* The steps that neither count nor answer a Get.
<1>1. ASSUME \A c \in Conns : refs'[c] <= refs[c] /\ Holders(c) \subseteq Holders(c)'
      PROVE NoLeakedRef'
  BY <1>1, <1>t, <1>r, HoldersGrow DEF NoLeakedRef
\* The steps that count a Get of w on c.
<1>2. ASSUME NEW w \in Workers, NEW c \in Conns,
             w \notin Holders(c), Holders(c)' = Holders(c) \cup {w},
             refs'[c] <= refs[c] + 1,
             \A d \in Conns \ {c} : refs'[d] = refs[d] /\ Holders(d)' = Holders(d)
      PROVE NoLeakedRef'
  <2>1. refs'[c] <= Cardinality(Holders(c))'
    BY <1>2, <1>t, <1>r, HolderAdded
  <2>2. ASSUME NEW d \in Conns \ {c} PROVE refs'[d] <= Cardinality(Holders(d))'
    BY <1>2, <1>t, <1>r, <2>2, HoldersGrow
  <2> QED
    BY <2>1, <2>2 DEF NoLeakedRef
<1>3. ASSUME NEW w \in Workers, NEW c \in Conns, GetHit(w, c)
      PROVE Goal
  <2>1. NoEntryNoRefs' /\ HasNewClient'
    BY <1>3, <1>t DEF GetHit, Acquire, NoEntryNoRefs, HasNewClient, TypeOK
  <2>2. /\ w \notin Holders(c) /\ Holders(c)' = Holders(c) \cup {w}
        /\ \A d \in Conns \ {c} : Holders(d)' = Holders(d)
    BY <1>3, <1>t DEF GetHit, Acquire, Holders, TypeOK
  <2>3. refs'[c] = refs[c] + 1 /\ \A d \in Conns \ {c} : refs'[d] = refs[d]
    BY <1>3, <1>t DEF GetHit, Acquire, TypeOK
  <2> QED
    BY <1>2, <1>r, <2>1, <2>2, <2>3
<1>4. ASSUME NEW w \in Workers, RecheckHit(w)
      PROVE Goal
  <2>0. PICK c \in Conns : c = cid[w]
    BY <1>t DEF TypeOK
  <2>1. NoEntryNoRefs' /\ HasNewClient'
    BY <1>4, <1>t, <2>0 DEF RecheckHit, Acquire, NoEntryNoRefs, HasNewClient, TypeOK
  <2>2. /\ w \notin Holders(c) /\ Holders(c)' = Holders(c) \cup {w}
        /\ \A d \in Conns \ {c} : Holders(d)' = Holders(d)
    BY <1>4, <1>t, <2>0 DEF RecheckHit, Acquire, Holders, TypeOK
  <2>3. refs'[c] = refs[c] + 1 /\ \A d \in Conns \ {c} : refs'[d] = refs[d]
    BY <1>4, <1>t, <2>0 DEF RecheckHit, Acquire, TypeOK
  <2> QED
    BY <1>2, <1>r, <2>0, <2>1, <2>2, <2>3
<1>5. ASSUME NEW w \in Workers, Install(w)
      PROVE Goal
  <2>0. PICK c \in Conns : c = cid[w]
    BY <1>t DEF TypeOK
  <2>1. NoEntryNoRefs' /\ HasNewClient'
    BY <1>5, <1>t, <2>0 DEF Install, Acquire, NoEntryNoRefs, HasNewClient, TypeOK
  <2>2. /\ w \notin Holders(c) /\ Holders(c)' = Holders(c) \cup {w}
        /\ \A d \in Conns \ {c} : Holders(d)' = Holders(d)
    BY <1>5, <1>t, <2>0 DEF Install, Acquire, Holders, HasNewClient, TypeOK
  <2>3. refs'[c] = refs[c] + 1 /\ \A d \in Conns \ {c} : refs'[d] = refs[d]
    BY <1>5, <1>t, <2>0 DEF Install, Acquire, NoEntryNoRefs, TypeOK
  <2> QED
    BY <1>2, <1>r, <2>0, <2>1, <2>2, <2>3
<1>6. ASSUME NEW w \in Workers, Release(w)
      PROVE Goal
  <2>0. PICK c \in Conns : c = cid[w]
    BY <1>t DEF TypeOK
  <2>1. NoEntryNoRefs' /\ HasNewClient'
    BY <1>6, <1>t, <2>0 DEF Release, Decremented, NoEntryNoRefs, HasNewClient, TypeOK
  <2>2. /\ Holders(c)' = Holders(c) \ {w}
        /\ \A d \in Conns \ {c} : Holders(d)' = Holders(d)
    BY <1>6, <1>t, <2>0 DEF Release, Decremented, Holders, TypeOK
  <2>3. /\ refs'[c] = IF refs[c] > 0 THEN refs[c] - 1 ELSE 0
        /\ \A d \in Conns \ {c} : refs'[d] = refs[d]
    BY <1>6, <1>t, <1>r, <2>0 DEF Release, Decremented, NoEntryNoRefs, TypeOK
  <2>4. refs'[c] <= Cardinality(Holders(c))'
    BY <1>t, <1>r, <2>0, <2>2, <2>3, HolderRemoved
  <2>5. ASSUME NEW d \in Conns \ {c} PROVE refs'[d] <= Cardinality(Holders(d))'
    BY <1>t, <1>r, <2>2, <2>3, <2>5, HoldersGrow
  <2> QED
    BY <2>1, <2>4, <2>5 DEF NoLeakedRef
<1>7. ASSUME NEW w \in Workers, Deliver(w)
      PROVE Goal
  <2>1. NoEntryNoRefs' /\ HasNewClient'
    BY <1>7, <1>t DEF Deliver, FlightOf, NoEntryNoRefs, HasNewClient, TypeOK
  <2>2. \A c \in Conns : refs'[c] <= refs[c] /\ Holders(c) \subseteq Holders(c)'
    BY <1>7, <1>r, <1>t DEF Deliver, FlightOf, Holders, TypeOK
  <2> QED
    BY <1>1, <2>1, <2>2
<1>8. ASSUME NEW w \in Workers, \/ \E c \in Conns : GetMiss(w, c)
                                \/ Lead(w) \/ Join(w) \/ RecheckMiss(w)
                                \/ ConnectOK(w) \/ ConnectFail(w)
      PROVE Goal
  <2>1. NoEntryNoRefs' /\ HasNewClient'
    BY <1>8, <1>t DEF GetMiss, Lead, Join, RecheckMiss, ConnectOK, ConnectFail,
                      NoEntryNoRefs, HasNewClient, TypeOK, MaybeClient
  <2>2. \A c \in Conns : refs'[c] <= refs[c] /\ Holders(c) \subseteq Holders(c)'
    BY <1>8, <1>r, <1>t DEF GetMiss, Lead, Join, RecheckMiss, ConnectOK, ConnectFail,
                            Holders, TypeOK
  <2> QED
    BY <1>1, <2>1, <2>2
<1>9. ASSUME \/ EvictIdle \/ DisconnectAll \/ Stop \/ UNCHANGED vars
             \/ \E c \in Conns : Elapse(c)
             \/ \E g \in Closers : Disconnect(g)
      PROVE Goal
  <2>1. NoEntryNoRefs' /\ HasNewClient'
    BY <1>9, <1>t DEF EvictIdle, Evictable, DisconnectAll, Stop, Elapse, Disconnect, vars,
                      NoEntryNoRefs, HasNewClient, TypeOK
  <2>2. \A c \in Conns : refs'[c] <= refs[c] /\ Holders(c) \subseteq Holders(c)'
    BY <1>9, <1>r, <1>t DEF EvictIdle, Evictable, DisconnectAll, Stop, Elapse, Disconnect,
                            vars, Holders, TypeOK
  <2> QED
    BY <1>1, <2>1, <2>2
<1> QED
  BY <1>3, <1>4, <1>5, <1>6, <1>7, <1>8, <1>9 DEF Next, GetStep

\* A connection's count never exceeds the Gets that are still to be released,
\* whatever coalesced Gets, evictions under a user and releases against a
\* successor entry came before: an unused client always becomes evictable.
THEOREM RefsCovered == Spec => []NoLeakedRef
<1>1. Init => NoEntryNoRefs /\ HasNewClient /\ NoLeakedRef
  BY HoldersFinite DEF Init, NoEntryNoRefs, HasNewClient, NoLeakedRef, Idle, Installing
<1> QED
  BY <1>1, TypeInit, TypeStep, RefStep, PTL DEF Spec, RefInv

-----------------------------------------------------------------------------
(* A client has one owner *)

\* Client ids are handed out in order: none is in use before it is created.
IdsBounded ==
    /\ \A c \in Conns : client[c] <= created
    /\ \A w \in Workers : got[w] <= created
    /\ \A g \in Closers : \A d \in doomed[g] : d <= created

\* A client of the map is connected, is nobody's to disconnect, and is the
\* client of one connection only.
MapOwns ==
    \A c \in Conns : client[c] # NoClient =>
        /\ client[c] \in open
        /\ \A g \in Closers : client[c] \notin doomed[g]
        /\ \A d \in Conns \ {c} : client[d] # client[c]

\* A client that its flight has yet to install is connected and known to that
\* flight only.
FlightOwns ==
    \A w \in Workers : pc[w] = Installing =>
        /\ got[w] \in open
        /\ \A g \in Closers : got[w] \notin doomed[g]
        /\ \A c \in Conns : client[c] # got[w]
        /\ \A v \in Workers \ {w} : pc[v] = Installing => got[v] # got[w]

\* A Get that returned without an error returned a client.
UsersHaveClient == \A w \in Workers : pc[w] = Using => got[w] # NoClient

OwnInv ==
    /\ FlightInv /\ RefInv
    /\ IdsBounded /\ MapOwns /\ FlightOwns /\ UsersHaveClient

\* A client goes from the flight that created it to the map and from the map to
\* the list of whoever took it out, and is in one of these places at a time.
LEMMA OwnStep ==
    OwnInv /\ [Next]_vars => IdsBounded' /\ MapOwns' /\ FlightOwns' /\ UsersHaveClient'
<1> SUFFICES ASSUME OwnInv, [Next]_vars
             PROVE IdsBounded' /\ MapOwns' /\ FlightOwns' /\ UsersHaveClient'
  OBVIOUS
<1>t. TypeOK /\ TypeOK' /\ FlightInv
  BY TypeStep DEF OwnInv, FlightInv
<1>b. /\ \A c \in Conns : client[c] \in Nat
      /\ \A w \in Workers : got[w] \in Nat
      /\ created \in Nat
      /\ \A g \in Closers : \A d \in doomed[g] : d \in Nat \ {0}
      /\ \A d \in open : d \in Nat \ {0}
  BY <1>t, MaxClientsNat DEF TypeOK, MaybeClient, ClientIds
<1> USE DEF OwnInv, NoClient, Idle, Missed, Waiting, Leading, Connecting, Installing,
        Returning, Using
<1> DEFINE Goal == IdsBounded' /\ MapOwns' /\ FlightOwns' /\ UsersHaveClient'
<1>1. ASSUME NEW w \in Workers, NEW c \in Conns, GetHit(w, c)
      PROVE Goal
  <2> USE <1>1, <1>t, <1>b DEF GetHit, Acquire
  <2>1. IdsBounded'
    BY DEF IdsBounded, TypeOK
  <2>2. MapOwns'
    BY DEF MapOwns
  <2>3. FlightOwns' /\ UsersHaveClient'
    BY DEF FlightOwns, UsersHaveClient, TypeOK
  <2> QED
    BY <2>1, <2>2, <2>3
<1>2. ASSUME NEW w \in Workers, \/ \E c \in Conns : GetMiss(w, c)
                                \/ Lead(w) \/ Join(w) \/ RecheckMiss(w)
      PROVE Goal
  <2>1. UNCHANGED <<client, got, created, open, doomed>>
    BY <1>2 DEF GetMiss, Lead, Join, RecheckMiss
  <2>2. \A v \in Workers : pc'[v] = Installing \/ pc'[v] = Using => pc[v] = pc'[v]
    BY <1>2, <1>t DEF GetMiss, Lead, Join, RecheckMiss, TypeOK
  <2> QED
    BY <2>1, <2>2 DEF IdsBounded, MapOwns, FlightOwns, UsersHaveClient
<1>3. ASSUME NEW w \in Workers, RecheckHit(w)
      PROVE Goal
  <2> USE <1>3, <1>t, <1>b DEF RecheckHit, Acquire
  <2>0. cid[w] \in Conns
    BY DEF TypeOK
  <2>1. IdsBounded'
    BY <2>0 DEF IdsBounded, TypeOK
  <2>2. MapOwns'
    BY DEF MapOwns
  <2>3. FlightOwns' /\ UsersHaveClient'
    BY DEF FlightOwns, UsersHaveClient, TypeOK
  <2> QED
    BY <2>1, <2>2, <2>3
<1>4. ASSUME NEW w \in Workers, ConnectOK(w)
      PROVE Goal
  <2> USE <1>4, <1>t, <1>b DEF ConnectOK
  <2>1. IdsBounded'
    BY DEF IdsBounded, TypeOK
  <2>2. MapOwns'
    BY DEF MapOwns
  <2>3. UsersHaveClient'
    BY DEF UsersHaveClient, TypeOK
  <2>4. /\ got'[w] = created + 1 /\ got'[w] \in open'
        /\ \A v \in Workers \ {w} : got'[v] = got[v] /\ pc'[v] = pc[v]
    BY DEF TypeOK
  <2>5. /\ \A c \in Conns : client[c] # created + 1
        /\ \A g \in Closers : created + 1 \notin doomed[g]
        /\ \A v \in Workers : got[v] # created + 1
    BY DEF IdsBounded
  <2>6. ASSUME NEW v \in Workers, pc'[v] = Installing
        PROVE /\ got'[v] \in open'
              /\ \A g \in Closers : got'[v] \notin doomed'[g]
              /\ \A c \in Conns : client'[c] # got'[v]
              /\ \A u \in Workers \ {v} : pc'[u] = Installing => got'[u] # got'[v]
    <3>1. CASE v = w
      BY <2>4, <2>5, <3>1
    <3>2. CASE v # w
      BY <2>4, <2>5, <2>6, <3>2 DEF FlightOwns
    <3> QED
      BY <3>1, <3>2
  <2>7. FlightOwns'
    BY <2>6 DEF FlightOwns
  <2> QED
    BY <2>1, <2>2, <2>3, <2>7
<1>5. ASSUME NEW w \in Workers, ConnectFail(w)
      PROVE Goal
  <2> USE <1>5, <1>t, <1>b DEF ConnectFail
  <2>1. IdsBounded'
    BY DEF IdsBounded, TypeOK
  <2>2. MapOwns'
    BY DEF MapOwns
  <2>3. FlightOwns' /\ UsersHaveClient'
    BY DEF FlightOwns, UsersHaveClient, TypeOK
  <2> QED
    BY <2>1, <2>2, <2>3
<1>6. ASSUME NEW w \in Workers, Install(w)
      PROVE Goal
  <2>0. PICK c \in Conns : c = cid[w]
    BY <1>t DEF TypeOK
  <2>1. /\ client[c] = NoClient
        /\ pc[w] = Installing
    BY <1>6, <1>t, <2>0 DEF Install, FlightInv, MissHolds
  <2>2. /\ UNCHANGED <<got, open, doomed, created>>
        /\ client'[c] = got[w] /\ \A d \in Conns \ {c} : client'[d] = client[d]
        /\ pc'[w] = Returning /\ \A v \in Workers \ {w} : pc'[v] = pc[v]
    BY <1>6, <1>t, <2>0, <2>1 DEF Install, TypeOK
  <2>3. IdsBounded'
    BY <2>2 DEF IdsBounded
  <2>4. MapOwns'
    BY <2>1, <2>2 DEF MapOwns, FlightOwns
  <2>5. FlightOwns'
    BY <2>1, <2>2 DEF FlightOwns
  <2>6. UsersHaveClient'
    BY <2>2 DEF UsersHaveClient
  <2> QED
    BY <2>3, <2>4, <2>5, <2>6
<1>7. ASSUME NEW w \in Workers, Deliver(w)
      PROVE Goal
  <2>1. /\ UNCHANGED <<client, open, doomed, created>>
        /\ \A v \in Workers : got'[v] = got[v] \/ got'[v] = got[w]
        /\ \A v \in Workers : pc'[v] = Installing => pc[v] = Installing /\ got'[v] = got[v]
    BY <1>7, <1>t DEF Deliver, FlightOf, TypeOK
  <2>2. IdsBounded' /\ MapOwns' /\ FlightOwns'
    BY <2>1 DEF IdsBounded, MapOwns, FlightOwns
  <2>3. UsersHaveClient'
    BY <1>7, <1>t DEF Deliver, FlightOf, UsersHaveClient, TypeOK
  <2> QED
    BY <2>2, <2>3
<1>8. ASSUME NEW w \in Workers, Release(w)
      PROVE Goal
  <2> USE <1>8, <1>t, <1>b DEF Release
  <2>1. IdsBounded'
    BY DEF IdsBounded, TypeOK
  <2>2. MapOwns'
    BY DEF MapOwns
  <2>3. FlightOwns' /\ UsersHaveClient'
    BY DEF FlightOwns, UsersHaveClient, TypeOK
  <2> QED
    BY <2>1, <2>2, <2>3
<1>9. ASSUME \/ EvictIdle \/ DisconnectAll
      PROVE Goal
  <2>0. UNCHANGED <<pc, got, created, open>>
    BY <1>9 DEF EvictIdle, DisconnectAll
  <2>1. \A c \in Conns : client'[c] = client[c] \/ client'[c] = NoClient
    BY <1>9, <1>t DEF EvictIdle, DisconnectAll, TypeOK
  <2>2. ASSUME NEW g \in Closers, NEW d \in doomed'[g]
        PROVE \/ d \in doomed[g]
              \/ \E c \in Conns : client[c] = d /\ client'[c] = NoClient
    BY <1>9, <1>t, <2>2 DEF EvictIdle, DisconnectAll, ClientsOf, TypeOK, Closers
  <2>3. IdsBounded'
    BY <1>b, <2>0, <2>1, <2>2 DEF IdsBounded
  <2>4. MapOwns'
    BY <2>0, <2>1, <2>2 DEF MapOwns
  <2>5. FlightOwns'
    BY <1>b, <2>0, <2>1, <2>2 DEF FlightOwns, RefInv, HasNewClient
  <2>6. UsersHaveClient'
    BY <2>0 DEF UsersHaveClient
  <2> QED
    BY <2>3, <2>4, <2>5, <2>6
<1>10. ASSUME NEW g \in Closers, Disconnect(g)
       PROVE Goal
  <2>1. PICK d \in doomed[g] :
            /\ doomed' = [doomed EXCEPT ![g] = @ \ {d}]
            /\ open' = open \ {d}
            /\ UNCHANGED <<client, refs, idle, flight, pc, cid, got, created,
                           shutdown, coalesced>>
    BY <1>10 DEF Disconnect
  <2>2. \A h \in Closers : doomed'[h] \subseteq doomed[h]
    BY <1>t, <2>1 DEF TypeOK
  <2> QED
    BY <2>1, <2>2 DEF IdsBounded, MapOwns, FlightOwns, UsersHaveClient
<1>11. ASSUME Stop \/ UNCHANGED vars \/ \E c \in Conns : Elapse(c)
       PROVE Goal
  <2>1. UNCHANGED <<client, got, created, open, doomed, pc>>
    BY <1>11 DEF Stop, vars, Elapse
  <2> QED
    BY <2>1 DEF IdsBounded, MapOwns, FlightOwns, UsersHaveClient
<1> QED
  BY <1>1, <1>2, <1>3, <1>4, <1>5, <1>6, <1>7, <1>8, <1>9, <1>10, <1>11
     DEF Next, GetStep

-----------------------------------------------------------------------------
(* Counts are exact until a Get is coalesced *)

\* Nobody else's flight has answered a Get on c, and the proxy is not stopping.
Plain(c) == shutdown = Running /\ c \notin coalesced

\* Everybody who holds such a connection is counted and holds the entry's client.
HoldersHoldEntry ==
    \A c \in Conns : Plain(c) =>
        /\ refs[c] = Cardinality(Holders(c))
        /\ \A w \in Holders(c) : got[w] = client[c]

ExactInv == OwnInv /\ HoldersHoldEntry

\* Nothing that a step leaves alone is disturbed.
LEMMA EntryKept ==
    ASSUME NEW c \in Conns, HoldersHoldEntry, Plain(c)' => Plain(c),
           Holders(c)' = Holders(c), refs'[c] = refs[c], client'[c] = client[c],
           \A w \in Holders(c) : got'[w] = got[w]
    PROVE  Plain(c)' => /\ refs'[c] = Cardinality(Holders(c))'
                        /\ \A w \in Holders(c)' : got'[w] = client'[c]
  BY DEF HoldersHoldEntry

\* A Get that is counted and answered with the entry's client.
LEMMA EntryCounts ==
    ASSUME NEW c \in Conns, NEW w \in Workers, HoldersHoldEntry, Plain(c)' => Plain(c),
           w \notin Holders(c), Holders(c)' = Holders(c) \cup {w},
           refs'[c] = refs[c] + 1, got'[w] = client'[c],
           client'[c] = client[c] \/ Holders(c) = {},
           \A v \in Holders(c) : got'[v] = got[v]
    PROVE  Plain(c)' => /\ refs'[c] = Cardinality(Holders(c))'
                        /\ \A v \in Holders(c)' : got'[v] = client'[c]
<1>1. Cardinality(Holders(c)') = Cardinality(Holders(c)) + 1
  BY HoldersFinite, FS_AddElement
<1> QED
  BY <1>1 DEF HoldersHoldEntry

\* A Release takes away one holder and, as the entry it was counted in is still
\* there, one reference.
LEMMA EntryReleased ==
    ASSUME NEW c \in Conns, NEW w \in Workers, HoldersHoldEntry, Plain(c)' => Plain(c),
           w \in Holders(c), Holders(c)' = Holders(c) \ {w}, client'[c] = client[c],
           Plain(c) => refs'[c] = refs[c] - 1,
           \A v \in Holders(c) \ {w} : got'[v] = got[v]
    PROVE  Plain(c)' => /\ refs'[c] = Cardinality(Holders(c))'
                        /\ \A v \in Holders(c)' : got'[v] = client'[c]
<1>1. Cardinality(Holders(c)') = Cardinality(Holders(c)) - 1
  BY HoldersFinite, FS_RemoveElement
<1> QED
  BY <1>1 DEF HoldersHoldEntry

\* An entry without references, or no entry, has no holders.
LEMMA UncountedUnheld ==
    ASSUME NEW c \in Conns, HoldersHoldEntry, Plain(c), refs[c] = 0
    PROVE  Holders(c) = {}
  BY HoldersFinite, FS_EmptySet DEF HoldersHoldEntry

\* The count of a connection is exact through every step that leaves it plain:
\* a flight that answers waiters, the one step that adds holders without
\* counting them, makes its connection coalesced.
LEMMA ExactStep == ExactInv /\ [Next]_vars => HoldersHoldEntry'
<1> SUFFICES ASSUME ExactInv, [Next]_vars PROVE HoldersHoldEntry'
  OBVIOUS
<1>t. TypeOK /\ TypeOK' /\ FlightInv /\ OwnInv
  BY TypeStep DEF ExactInv, OwnInv, FlightInv
<1>p. \A c \in Conns : Plain(c)' => Plain(c)
  BY <1>t DEF Next, GetStep, GetHit, GetMiss, Lead, Join, RecheckHit, RecheckMiss, ConnectOK,
        ConnectFail, Install, Deliver, Release, Elapse, EvictIdle, Disconnect, Stop,
        DisconnectAll, vars, Plain, Running, Stopping, Swapped
<1> DEFINE Good(c) == Plain(c)' => /\ refs'[c] = Cardinality(Holders(c))'
                                   /\ \A w \in Holders(c)' : got'[w] = client'[c]
<1>g. SUFFICES \A c \in Conns : Good(c)
  BY DEF HoldersHoldEntry
<1> HIDE DEF Good
<1> USE DEF Idle, Missed, Waiting, Leading, Connecting, Installing, Returning, Using, NoClient
\* What a step does to the connections it is not about.
<1>k. ASSUME NEW S, \A c \in Conns \ S : /\ Holders(c)' = Holders(c)
                                          /\ refs'[c] = refs[c] /\ client'[c] = client[c]
                                          /\ \A w \in Holders(c) : got'[w] = got[w]
      PROVE \A c \in Conns \ S : Good(c)
  BY <1>k, <1>p, EntryKept DEF ExactInv, Good
<1>1. ASSUME NEW w \in Workers, NEW c \in Conns, GetHit(w, c)
      PROVE \A k \in Conns : Good(k)
  <2>1. /\ w \notin Holders(c) /\ Holders(c)' = Holders(c) \cup {w}
        /\ \A d \in Conns \ {c} : Holders(d)' = Holders(d)
    BY <1>1, <1>t DEF GetHit, Acquire, Holders, TypeOK
  <2>2. /\ refs'[c] = refs[c] + 1 /\ \A d \in Conns \ {c} : refs'[d] = refs[d]
        /\ client' = client
        /\ got'[w] = client[c] /\ \A v \in Workers \ {w} : got'[v] = got[v]
    BY <1>1, <1>t DEF GetHit, Acquire, TypeOK
  <2>3. \A d \in Conns : \A v \in Holders(d) : v # w /\ v \in Workers
    BY <1>1, <1>t DEF GetHit, Holders
  <2>4. Good(c)
    BY <1>p, <2>1, <2>2, <2>3, EntryCounts DEF ExactInv, Good
  <2>5. \A d \in Conns \ {c} : Good(d)
    BY <1>k, <2>1, <2>2, <2>3
  <2> QED
    BY <2>4, <2>5
<1>2. ASSUME NEW w \in Workers, RecheckHit(w)
      PROVE \A k \in Conns : Good(k)
  <2>0. PICK c \in Conns : c = cid[w]
    BY <1>t DEF TypeOK
  <2>1. /\ w \notin Holders(c) /\ Holders(c)' = Holders(c) \cup {w}
        /\ \A d \in Conns \ {c} : Holders(d)' = Holders(d)
    BY <1>2, <1>t, <2>0 DEF RecheckHit, Acquire, Holders, TypeOK
  <2>2. /\ refs'[c] = refs[c] + 1 /\ \A d \in Conns \ {c} : refs'[d] = refs[d]
        /\ client' = client
        /\ got'[w] = client[c] /\ \A v \in Workers \ {w} : got'[v] = got[v]
    BY <1>2, <1>t, <2>0 DEF RecheckHit, Acquire, TypeOK
  <2>3. \A d \in Conns : \A v \in Holders(d) : v # w /\ v \in Workers
    BY <1>2, <1>t DEF RecheckHit, Holders
  <2>4. Good(c)
    BY <1>p, <2>1, <2>2, <2>3, EntryCounts DEF ExactInv, Good
  <2>5. \A d \in Conns \ {c} : Good(d)
    BY <1>k, <2>1, <2>2, <2>3
  <2> QED
    BY <2>4, <2>5
<1>3. ASSUME NEW w \in Workers, Install(w)
      PROVE \A k \in Conns : Good(k)
  <2>0. PICK c \in Conns : c = cid[w]
    BY <1>t DEF TypeOK
  <2>1. client[c] = NoClient /\ refs[c] = 0 /\ got[w] # NoClient /\ pc[w] = Installing
    BY <1>3, <1>t, <2>0 DEF Install, FlightInv, MissHolds, OwnInv, RefInv,
                            NoEntryNoRefs, HasNewClient
  <2>2. /\ refs'[c] = refs[c] + 1 /\ \A d \in Conns \ {c} : refs'[d] = refs[d]
        /\ client'[c] = got[w] /\ \A d \in Conns \ {c} : client'[d] = client[d]
        /\ got' = got /\ cid' = cid
        /\ pc'[w] = Returning /\ \A v \in Workers \ {w} : pc'[v] = pc[v]
    BY <1>3, <1>t, <2>0, <2>1 DEF Install, TypeOK
  <2>3. /\ w \notin Holders(c) /\ Holders(c)' = Holders(c) \cup {w}
        /\ \A d \in Conns \ {c} : Holders(d)' = Holders(d)
    BY <2>0, <2>1, <2>2 DEF Holders
  <2>4. Good(c)
    <3>1. CASE Plain(c)
      <4>1. Holders(c) = {}
        BY <2>1, <3>1, UncountedUnheld DEF ExactInv
      <4> QED
        BY <1>p, <2>2, <2>3, <4>1, EntryCounts DEF ExactInv, Good
    <3>2. CASE ~Plain(c)
      BY <1>p, <3>2 DEF Good
    <3> QED
      BY <3>1, <3>2
  <2>5. \A d \in Conns \ {c} : Good(d)
    BY <1>k, <2>2, <2>3
  <2> QED
    BY <2>4, <2>5
<1>4. ASSUME NEW w \in Workers, Deliver(w)
      PROVE \A k \in Conns : Good(k)
  <2>0. PICK c \in Conns : c = cid[w]
    BY <1>t DEF TypeOK
  <2>1. /\ UNCHANGED <<refs, client, cid>> /\ pc[w] = Returning
        /\ \A d \in Conns \ {c} : Holders(d)' = Holders(d)
        /\ \A d \in Conns \ {c} : \A v \in Holders(d) : got'[v] = got[v]
    BY <1>4, <1>t, <2>0 DEF Deliver, FlightOf, Holders, TypeOK
  <2>2. \A d \in Conns \ {c} : Good(d)
    BY <1>k, <2>1
  <2>3. ASSUME Plain(c)'
        PROVE got[w] = NoClient \/ FlightOf(w, c) = {w}
    BY <1>4, <2>0, <2>3 DEF Deliver, Plain
  <2>4. CASE got[w] = NoClient
    <3>1. Holders(c)' = Holders(c) /\ \A v \in Holders(c) : got'[v] = got[v]
      BY <1>4, <1>t, <2>0, <2>4 DEF Deliver, FlightOf, Holders, TypeOK
    <3> QED
      BY <1>k, <2>1, <2>2, <3>1
  <2>5. CASE FlightOf(w, c) = {w} /\ got[w] # NoClient
    <3>1. /\ got' = [v \in Workers |-> got[v]]
          /\ pc' = [v \in Workers |-> IF v = w THEN Using ELSE pc[v]]
      BY <1>4, <2>0, <2>5, Zenon DEF Deliver
    <3>2. Holders(c)' = Holders(c) /\ \A v \in Holders(c) : got'[v] = got[v]
      BY <2>0, <2>1, <2>5, <3>1 DEF Holders
    <3> QED
      BY <1>k, <2>1, <2>2, <3>2
  <2> QED
    BY <2>2, <2>3, <2>4, <2>5 DEF Good
<1>5. ASSUME NEW w \in Workers, Release(w)
      PROVE \A k \in Conns : Good(k)
  <2>0. PICK c \in Conns : c = cid[w]
    BY <1>t DEF TypeOK
  <2>1. /\ w \in Holders(c) /\ Holders(c)' = Holders(c) \ {w}
        /\ \A d \in Conns \ {c} : Holders(d)' = Holders(d)
    BY <1>5, <1>t, <2>0 DEF Release, Holders, TypeOK, OwnInv, UsersHaveClient
  <2>2. /\ client' = client
        /\ \A d \in Conns \ {c} : refs'[d] = refs[d]
        /\ \A v \in Workers \ {w} : got'[v] = got[v]
        /\ client[c] # NoClient => refs'[c] = Decremented(refs[c])
    BY <1>5, <1>t, <2>0 DEF Release, TypeOK
  <2>3. ASSUME Plain(c) PROVE refs'[c] = refs[c] - 1
    <3>1. client[c] # NoClient
      BY <2>1, <2>3 DEF ExactInv, HoldersHoldEntry, Holders
    <3>2. refs[c] # 0
      BY <2>1, <2>3, UncountedUnheld DEF ExactInv
    <3> QED
      BY <1>t, <2>2, <3>1, <3>2 DEF Decremented, TypeOK
  <2>4. \A d \in Conns : \A v \in Holders(d) : v \in Workers /\ (v = w => d = c)
    BY <2>0 DEF Holders
  <2>5. Good(c)
    BY <1>p, <2>1, <2>2, <2>3, <2>4, EntryReleased DEF ExactInv, Good
  <2>6. \A d \in Conns \ {c} : Good(d)
    BY <1>k, <2>1, <2>2, <2>4
  <2> QED
    BY <2>5, <2>6
<1>6. CASE EvictIdle
  <2> DEFINE gone == {c \in Conns : Evictable(c)}
  <2>1. /\ UNCHANGED <<pc, cid, got>>
        /\ \A c \in gone : refs'[c] = 0 /\ refs[c] = 0
        /\ \A c \in Conns \ gone : client'[c] = client[c] /\ refs'[c] = refs[c]
    BY <1>6 DEF EvictIdle, Evictable
  <2>2. \A c \in Conns : Holders(c)' = Holders(c)
    BY <2>1 DEF Holders
  <2>3. \A c \in Conns \ gone : Good(c)
    BY <1>k, <2>1, <2>2
  <2>4. ASSUME NEW c \in gone PROVE Good(c)
    <3>1. CASE Plain(c)
      <4>1. Holders(c) = {}
        BY <2>1, <2>4, <3>1, UncountedUnheld DEF ExactInv
      <4> QED
        BY <2>1, <2>2, <4>1, FS_EmptySet DEF Good
    <3>2. CASE ~Plain(c)
      BY <1>p, <3>2 DEF Good
    <3> QED
      BY <3>1, <3>2
  <2> QED
    BY <2>3, <2>4
<1>7. CASE DisconnectAll
  BY <1>7 DEF DisconnectAll, Good, Plain, Running, Swapped
<1>8. ASSUME NEW w \in Workers, \/ \E c \in Conns : GetMiss(w, c)
                                \/ Lead(w) \/ Join(w) \/ RecheckMiss(w)
                                \/ ConnectOK(w) \/ ConnectFail(w)
      PROVE \A k \in Conns : Good(k)
  <2>1. UNCHANGED <<refs, client>>
    BY <1>8 DEF GetMiss, Lead, Join, RecheckMiss, ConnectOK, ConnectFail
  <2>2. \A c \in Conns : Holders(c)' = Holders(c) /\ \A v \in Holders(c) : got'[v] = got[v]
    BY <1>8, <1>t DEF GetMiss, Lead, Join, RecheckMiss, ConnectOK, ConnectFail, Holders, TypeOK
  <2>3. \A c \in Conns \ {} : Good(c)
    BY <1>k, <2>1, <2>2
  <2> QED
    BY <2>3
<1>9. ASSUME \/ Stop \/ UNCHANGED vars
             \/ \E c \in Conns : Elapse(c)
             \/ \E g \in Closers : Disconnect(g)
      PROVE \A k \in Conns : Good(k)
  <2>1. UNCHANGED <<refs, client, pc, cid, got>>
    BY <1>9 DEF Stop, Elapse, Disconnect, vars
  <2>2. \A c \in Conns : Holders(c)' = Holders(c)
    BY <2>1 DEF Holders
  <2>3. \A c \in Conns \ {} : Good(c)
    BY <1>k, <2>1, <2>2
  <2> QED
    BY <2>3
<1> QED
  BY <1>1, <1>2, <1>3, <1>4, <1>5, <1>6, <1>7, <1>8, <1>9 DEF Next, GetStep

\* All of it together: every step of the pool keeps the invariant.
LEMMA ExactInvStep == ExactInv /\ [Next]_vars => ExactInv'
<1> SUFFICES ASSUME ExactInv, [Next]_vars PROVE ExactInv'
  OBVIOUS
<1>1. HoldersHoldEntry'
  BY ExactStep
<1>2. IdsBounded' /\ MapOwns' /\ FlightOwns' /\ UsersHaveClient'
  BY OwnStep DEF ExactInv
<1>3. FlightInv'
  BY TypeStep, FlightStep DEF ExactInv, OwnInv, FlightInv
<1>4. RefInv'
  BY TypeStep, RefStep DEF ExactInv, OwnInv, RefInv
<1> QED
  BY <1>1, <1>2, <1>3, <1>4 DEF ExactInv, OwnInv

\* It holds of the empty pool.
LEMMA ExactInit == Init => ExactInv
<1> SUFFICES ASSUME Init PROVE ExactInv
  OBVIOUS
<1> USE DEF Init, NoClient, Idle, Leading, Connecting, Installing, Returning, Using
<1>1. FlightInv
  BY TypeInit DEF FlightInv, LeaderOnly, MissHolds, FlightPCs
<1>2. HasNewClient /\ NoEntryNoRefs /\ UsersHaveClient /\ MapOwns /\ FlightOwns
  BY DEF HasNewClient, NoEntryNoRefs, UsersHaveClient, MapOwns, FlightOwns
<1>r. RefInv
  BY <1>2, TypeInit, HoldersFinite DEF RefInv, NoLeakedRef
<1>3. IdsBounded
  BY DEF IdsBounded
<1>4. ASSUME NEW c \in Conns PROVE Holders(c) = {}
  BY DEF Holders
<1>5. HoldersHoldEntry
  BY <1>4, FS_EmptySet DEF HoldersHoldEntry
<1> QED
  BY <1>1, <1>2, <1>r, <1>3, <1>5 DEF ExactInv, OwnInv

\* The invariant gives the property: a user holds the entry's client, which is
\* connected as long as it is in the map.
LEMMA ExactImplies == ExactInv => ExactUnlessCoalesced
<1> SUFFICES ASSUME ExactInv, shutdown = Running, NEW c \in Conns \ coalesced
             PROVE /\ refs[c] = Cardinality(Holders(c))
                   /\ \A w \in Workers : pc[w] = Using /\ cid[w] = c => got[w] \in open
  BY DEF ExactUnlessCoalesced
<1>1. refs[c] = Cardinality(Holders(c)) /\ \A w \in Holders(c) : got[w] = client[c]
  BY DEF ExactInv, HoldersHoldEntry, Plain
<1>2. ASSUME NEW w \in Workers, pc[w] = Using, cid[w] = c PROVE got[w] \in open
  <2>1. w \in Holders(c) /\ got[w] # NoClient
    BY <1>2 DEF ExactInv, OwnInv, UsersHaveClient, Holders
  <2> QED
    BY <1>1, <2>1 DEF ExactInv, OwnInv, MapOwns
<1> QED
  BY <1>1, <1>2

\* Until a Get for a connection is answered by another's flight, or the proxy
\* shuts down, the connection's count is exact and every request on it uses a
\* connected client: what the reference count of pool.go is there for.
THEOREM ExactCounts == Spec => []ExactUnlessCoalesced
  BY ExactInit, ExactInvStep, ExactImplies, PTL DEF Spec

-----------------------------------------------------------------------------
(* The client under a cursor *)

\* A cursor whose connection has been busy, counted and served since it opened...
Kept(x) == IsOpen(x) /\ x \notin lapsed /\ Plain(cursor[x].conn)

\* ...reads from the client its connection has in the map, which is not evictable.
OnEntry(x) ==
    /\ cursor[x].conn \in Conns
    /\ cursor[x].conn \notin idle
    /\ cursor[x].client = client[cursor[x].conn]
    /\ cursor[x].client # NoClient

CursorOnEntry == \A x \in Cursors : Kept(x) => OnEntry(x)

CursorInv == ExactInv /\ CursorsTypeOK /\ CursorOnEntry

\* A step of the composition is a step of the pool, or leaves the pool alone.
LEMMA CursorsStepIsPoolStep == [CursorsNext]_allVars => [Next]_vars
  BY DEF CursorsNext, allVars, PoolStep, Next, ElapseWithCursors, OpenCursor, GetMoreLast,
         GetMoreError, DropCursor, Remove

\* The reaper takes only clients of idle connections, and no other step that
\* leaves a connection plain changes its client once it has one.
LEMMA EntryStays ==
    ASSUME ExactInv, [Next]_vars, NEW c \in Conns, client[c] # NoClient, c \notin idle, Plain(c)'
    PROVE  client'[c] = client[c]
<1>t. TypeOK
  BY DEF ExactInv, OwnInv, FlightInv
<1>1. ASSUME NEW w \in Workers, Install(w) PROVE client'[c] = client[c]
  <2>1. client[cid[w]] = NoClient
    BY <1>1 DEF Install, ExactInv, OwnInv, FlightInv, MissHolds, Installing
  <2> QED
    BY <1>1, <1>t, <2>1 DEF Install, TypeOK
<1>2. CASE EvictIdle
  BY <1>2, <1>t DEF EvictIdle, Evictable, TypeOK
<1>3. CASE DisconnectAll
  BY <1>3 DEF DisconnectAll, Plain, Running, Swapped
<1> QED
  BY <1>1, <1>2, <1>3 DEF Next, GetStep, GetHit, GetMiss, Lead, Join, RecheckHit, RecheckMiss,
     ConnectOK, ConnectFail, Deliver, Release, Elapse, Disconnect, Stop, Acquire, vars

\* Opening a cursor takes the client its worker holds, which is the entry's; a
\* cursor that stays open and has not lapsed keeps it.
LEMMA CursorStep ==
    CursorInv /\ [CursorsNext]_allVars => CursorsTypeOK' /\ CursorOnEntry'
<1> SUFFICES ASSUME CursorInv, [CursorsNext]_allVars PROVE CursorsTypeOK' /\ CursorOnEntry'
  OBVIOUS
<1>n. [Next]_vars
  BY CursorsStepIsPoolStep
<1>t. TypeOK /\ CursorsTypeOK /\ ExactInv
  BY DEF CursorInv, ExactInv, OwnInv, FlightInv
<1>p. ASSUME NEW c, Plain(c)' PROVE Plain(c)
  BY <1>n, <1>p, <1>t DEF Next, GetStep, GetHit, GetMiss, Lead, Join, RecheckHit, RecheckMiss,
        ConnectOK, ConnectFail, Install, Deliver, Release, Elapse, EvictIdle, Disconnect, Stop,
        DisconnectAll, vars, Plain, Running, Stopping, Swapped
<1>1. CASE PoolStep /\ UNCHANGED cursorVars
  <2>0. UNCHANGED <<cursor, lapsed>>
    BY <1>1 DEF cursorVars
  <2>1. idle' \subseteq idle
    BY <1>1 DEF PoolStep, GetStep, GetHit, GetMiss, Lead, Join, RecheckHit, RecheckMiss,
       ConnectOK, ConnectFail, Install, Acquire, Deliver, Release, EvictIdle, Disconnect, Stop,
       DisconnectAll
  <2>2. CursorsTypeOK'
    BY <1>t, <2>0 DEF CursorsTypeOK
  <2>3. ASSUME NEW x \in Cursors, Kept(x)' PROVE OnEntry(x)'
    <3>1. PICK c : c = cursor[x].conn
      OBVIOUS
    <3>2. IsOpen(x) /\ x \notin lapsed /\ Plain(c)'
      BY <2>0, <2>3, <3>1 DEF Kept, IsOpen, Plain
    <3>3. Plain(c)
      BY <1>p, <3>2
    <3>4. c \in Conns /\ c \notin idle /\ cursor[x].client = client[c] /\ client[c] # NoClient
      BY <3>1, <3>2, <3>3 DEF CursorInv, CursorOnEntry, Kept, OnEntry
    <3>5. client'[c] = client[c]
      BY <1>n, <1>t, <3>2, <3>4, EntryStays
    <3> QED
      BY <2>0, <2>1, <3>1, <3>4, <3>5 DEF OnEntry
  <2> QED
    BY <2>2, <2>3 DEF CursorOnEntry
<1>2. ASSUME NEW c \in Conns, ElapseWithCursors(c)
      PROVE CursorsTypeOK' /\ CursorOnEntry'
  <2>1. CursorsTypeOK'
    BY <1>2, <1>t DEF ElapseWithCursors, CursorsTypeOK
  <2>2. CursorOnEntry'
    BY <1>2 DEF ElapseWithCursors, Elapse, CursorInv, CursorOnEntry, Kept, OnEntry, Plain, IsOpen
  <2> QED
    BY <2>1, <2>2
<1>3. ASSUME NEW w \in Workers, NEW x \in Cursors, OpenCursor(w, x)
      PROVE CursorsTypeOK' /\ CursorOnEntry'
  <2>0. /\ UNCHANGED vars
        /\ UNCHANGED <<client, idle, shutdown, coalesced>>
    BY <1>3 DEF OpenCursor, vars
  <2>1. cid[w] \in Conns /\ got[w] \in MaybeClient
    BY <1>t DEF TypeOK
  <2>2. CursorsTypeOK'
    BY <1>3, <1>t, <2>1 DEF OpenCursor, CursorsTypeOK
  <2>3. /\ cursor'[x] = [conn |-> cid[w], client |-> got[w]]
        /\ \A y \in Cursors \ {x} : cursor'[y] = cursor[y]
        /\ cid[w] \in idle => x \in lapsed'
        /\ lapsed \subseteq lapsed'
    BY <1>3, <1>t DEF OpenCursor, CursorsTypeOK
  <2>4. ASSUME Plain(cid[w]) PROVE got[w] = client[cid[w]] /\ got[w] # NoClient
    <3>1. got[w] # NoClient /\ w \in Holders(cid[w])
      BY <1>3, <1>t DEF OpenCursor, Holders, ExactInv, OwnInv, UsersHaveClient
    <3> QED
      BY <1>t, <2>1, <2>4, <3>1 DEF ExactInv, HoldersHoldEntry
  <2>5. ASSUME NEW y \in Cursors, Kept(y)' PROVE OnEntry(y)'
    <3>1. CASE y = x
      BY <2>0, <2>1, <2>3, <2>4, <2>5, <3>1 DEF Kept, OnEntry, Plain
    <3>2. CASE y # x
      BY <2>0, <2>3, <2>5, <3>2 DEF Plain, IsOpen, Kept, OnEntry, CursorInv, CursorOnEntry
    <3> QED
      BY <3>1, <3>2
  <2> QED
    BY <2>2, <2>5 DEF CursorOnEntry
<1>4. ASSUME NEW x \in Cursors, Remove(x)
      PROVE CursorsTypeOK' /\ CursorOnEntry'
  <2>1. UNCHANGED <<client, idle, shutdown, coalesced>>
    BY <1>4 DEF Remove, vars
  <2>2. CursorsTypeOK'
    BY <1>4, <1>t, MaxClientsNat DEF Remove, CursorsTypeOK, Closed, NoClient, MaybeClient
  <2>3. /\ cursor'[x] = Closed
        /\ \A y \in Cursors \ {x} : cursor'[y] = cursor[y] /\ (y \in lapsed' <=> y \in lapsed)
    BY <1>4, <1>t DEF Remove, CursorsTypeOK
  <2> QED
    BY <2>1, <2>2, <2>3 DEF Plain, IsOpen, Kept, OnEntry, CursorInv, CursorOnEntry
<1>5. CASE UNCHANGED allVars
  BY <1>5 DEF allVars, vars, cursorVars, CursorInv, CursorsTypeOK, CursorOnEntry, Kept, OnEntry,
              IsOpen, Plain
<1> QED
  BY <1>1, <1>2, <1>3, <1>4, <1>5 DEF CursorsNext, GetMoreLast, GetMoreError, DropCursor

\* The client of a cursor's entry is connected as long as it is in the map.
LEMMA CursorImplies == CursorInv => CursorKeepsClient
<1> SUFFICES ASSUME CursorInv, NEW x \in Cursors, IsOpen(x), cursor[x].client \notin open,
                    x \notin lapsed, cursor[x].conn \notin coalesced, shutdown = Running
             PROVE FALSE
  BY DEF CursorInv, CursorKeepsClient
<1>1. /\ cursor[x].conn \in Conns
      /\ cursor[x].client = client[cursor[x].conn]
      /\ cursor[x].client # NoClient
  BY DEF CursorInv, CursorOnEntry, Kept, OnEntry, Plain
<1> QED
  BY <1>1 DEF CursorInv, ExactInv, OwnInv, MapOwns

\* A getMore fails for want of its client only after the connection was idle
\* since the cursor was opened, after coalesced Gets, or at shutdown: the
\* requests of others on the connection keep the client under the cursor.
THEOREM CursorsKeepClients == CursorsSpec => []CursorKeepsClient
<1>1. CursorsInit => CursorInv
  <2>1. CursorsInit => ExactInv
    BY ExactInit DEF CursorsInit
  <2>2. CursorsInit => CursorsTypeOK /\ CursorOnEntry
    BY MaxClientsNat DEF CursorsInit, CursorsTypeOK, CursorOnEntry, Kept, IsOpen, Closed,
                         NoClient, MaybeClient
  <2> QED
    BY <2>1, <2>2 DEF CursorInv
<1>2. CursorInv /\ [CursorsNext]_allVars => CursorInv'
  BY CursorStep, CursorsStepIsPoolStep, ExactInvStep DEF CursorInv
<1> QED
  BY <1>1, <1>2, CursorImplies, PTL DEF CursorsSpec

=============================================================================
