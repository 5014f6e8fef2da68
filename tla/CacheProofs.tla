---------------------------- MODULE CacheProofs ----------------------------
(***************************************************************************)
(* Proofs about the cache and its policies.                                *)
(*                                                                         *)
(* ReadCache, for any number of readers, writers, namespaces, keys and     *)
(* writes, with and without faults: the types (TypeCorrect); the freshness *)
(* guarantee of the cache and that a clean entry can always be flushed     *)
(* (Freshness, Registered), from one inductive invariant, IInv; the        *)
(* singleflight (SingleFlight), from Coalesced and its converse.           *)
(*                                                                         *)
(* CacheReplies: a read that begins after a flush is answered with what it *)
(* was for or newer (FlushesAreSeen), from those invariants and ReplyInv.  *)
(*                                                                         *)
(* CachePolicy, for any tenants, connections, administrators, collections, *)
(* updates and failing store calls: no acknowledged update is lost but to  *)
(* an overlapping one (UpdatesSurvive), no refresh goes back in time       *)
(* (RefreshNotOlder), both from PolicyInv; and no TTL is zero or negative  *)
(* (TTLsPositive), which needs the arithmetic of powers of two.            *)
(*                                                                         *)
(* CachedCursors, for any connections, batches, budget and ids: the byte   *)
(* counter is exact but for what is being registered (BudgetExact), the    *)
(* budget is exceeded by at most one result per other connection           *)
(* (BudgetKept), and entries belong to open connections (OwnersOpen), from *)
(* Books and a small theory of sums over finite sets.                      *)
(***************************************************************************)
EXTENDS CacheReplies, CachePolicy, CachedCursors, FiniteSetTheorems, TLAPS

-----------------------------------------------------------------------------
(* Types *)

\* Every step of every request keeps the types of all variables.
LEMMA TypeStep == TypeOK /\ [Next]_vars => TypeOK'
<1> SUFFICES ASSUME TypeOK, [Next]_vars PROVE TypeOK'
  OBVIOUS
<1> USE KeyNSType, NoReaderIsNoReader, MaxWritesNat, FaultsBoolean
<1> USE DEF TypeOK, Versions, MaybeVersion, NoValue, ReaderPCs, WriterPCs, FillPCs,
        SetPCs, RegPCs, Idle, Waiting, Looking, Loading, Setting, Registering,
        Returning, Passing, PassSetting, PassRegistering, Checking, Listing, Deleting
<1>1. ASSUME NEW r \in Readers, NEW k \in Keys, ReadLead(r, k) \/ ReadJoin(r, k)
      PROVE TypeOK'
  BY <1>1 DEF ReadLead, ReadJoin, NoFlight
<1>2. ASSUME NEW r \in Readers, CacheHit(r) \/ CacheMiss(r) \/ CacheUnavailable(r)
      PROVE TypeOK'
  BY <1>2 DEF CacheHit, CacheMiss, CacheUnavailable
<1>3. ASSUME NEW r \in Readers, Load(r) \/ PassQuery(r) \/ LoadFail(r) \/ PassReply(r)
      PROVE TypeOK'
  BY <1>3 DEF Load, PassQuery, Query, LoadFail, PassReply
<1>4. ASSUME NEW r \in Readers, StoreSet(r) \/ StoreSetFail(r)
      PROVE TypeOK'
  BY <1>4 DEF StoreSet, StoreSetFail, AfterSet
<1>5. ASSUME NEW r \in Readers, RegisterKey(r) \/ RegisterKeyFail(r)
      PROVE TypeOK'
  BY <1>5 DEF RegisterKey, RegisterKeyFail, WithKey, AfterRegister
<1>6. ASSUME NEW r \in Readers, Deliver(r)
      PROVE TypeOK'
  BY <1>6 DEF Deliver, Team
<1>7. ASSUME NEW w \in Writers, NEW n \in Namespaces, Write(w, n) \/ Invalidate(w, n)
      PROVE TypeOK'
  BY <1>7 DEF Write, Written, Invalidate, Overlap
<1>8. ASSUME NEW w \in Writers, FlagOn(w) \/ FlagOff(w) \/ ListMembers(w) \/ InvalidateFail(w)
      PROVE TypeOK'
  BY <1>8 DEF FlagOn, FlagOff, ListMembers, InvalidateFail, GiveUp
<1>9. ASSUME NEW w \in Writers, DeleteRegistry(w) \/ \E k \in Keys : DeleteMember(w, k)
      PROVE TypeOK'
  BY <1>9 DEF DeleteMember, Dropped, DeleteRegistry
<1>10. ASSUME NEW k \in Keys, Expire(k)
       PROVE TypeOK'
  BY <1>10 DEF Expire, Dropped
<1>11. CASE UNCHANGED vars
  BY <1>11 DEF vars
<1> HIDE DEF TypeOK
<1> QED
  BY <1>1, <1>2, <1>3, <1>4, <1>5, <1>6, <1>7, <1>8, <1>9, <1>10, <1>11
     DEF Next, ReadStart, ReadStep, WriteStart, WriteStep

\* The state of the cache, of its registry and of every request keeps its type.
THEOREM TypeCorrect == Spec => []TypeOK
<1>1. Init => TypeOK
  BY KeyNSType, MaxWritesNat
     DEF Init, TypeOK, Versions, MaybeVersion, NoValue, ReaderPCs, WriterPCs, FillPCs,
         SetPCs, RegPCs, Idle
<1> QED
  BY <1>1, TypeStep, PTL DEF Spec

-----------------------------------------------------------------------------
(* Freshness *)

\* An entry with a clean history holds the current version, unless a flush
\* that will delete it is under way.
CleanIsCurrent ==
    \A k \in Keys :
        redis[k] # NoValue /\ k \notin dirty /\ ~LateFill(k) =>
            redis[k] = db[KeyNS[k]] \/ \E w \in Writers : WillDrop(w, k)

\* A reader that nothing has overlapped since its query is about to store the
\* current version, and no write or flush of its namespace is under way.
CleanFill ==
    \A r \in clean :
        rpc[r] \in FillPCs =>
            /\ rval[r] = db[KeyNS[rkey[r]]]
            /\ ~Pending(KeyNS[rkey[r]])

\* The inductive invariant.  CleanIsCurrent alone is not inductive: a flush
\* drops only what its SMEMBERS returned (hence CleanIsRegistered), and a
\* clean fill stores what its query returned (hence CleanFill).
IInv == TypeOK /\ CleanIsCurrent /\ CleanIsRegistered /\ CleanFill

\* A write or flush that starts makes every fill of its namespace unclean, so
\* what a clean fill read stays current until it is stored.
LEMMA CleanFillStep == IInv /\ [Next]_vars => CleanFill'
<1> SUFFICES ASSUME IInv, [Next]_vars PROVE CleanFill'
  OBVIOUS
<1> USE KeyNSType, NoReaderIsNoReader, MaxWritesNat
<1> USE DEF IInv, TypeOK, CleanFill, Pending
<1> USE DEF FillPCs, SetPCs, RegPCs, Idle, Waiting, Looking, Loading, Setting,
        Registering, Returning, Passing, PassSetting, PassRegistering, Checking,
        Listing, Deleting
<1>1. ASSUME NEW r \in Readers, NEW k \in Keys, ReadLead(r, k) \/ ReadJoin(r, k)
      PROVE CleanFill'
  BY <1>1 DEF ReadLead, ReadJoin, NoFlight
<1>2. ASSUME NEW r \in Readers, CacheHit(r) \/ CacheMiss(r) \/ CacheUnavailable(r)
      PROVE CleanFill'
  BY <1>2 DEF CacheHit, CacheMiss, CacheUnavailable
<1>3. ASSUME NEW r \in Readers, Load(r) \/ PassQuery(r)
      PROVE CleanFill'
  BY <1>3 DEF Load, PassQuery, Query
<1>4. ASSUME NEW r \in Readers, LoadFail(r) \/ PassReply(r)
      PROVE CleanFill'
  BY <1>4 DEF LoadFail, PassReply
<1>5. ASSUME NEW r \in Readers, StoreSet(r)
      PROVE CleanFill'
  BY <1>5 DEF StoreSet, AfterSet
<1>6. ASSUME NEW r \in Readers, StoreSetFail(r)
      PROVE CleanFill'
  BY <1>6 DEF StoreSetFail, AfterSet
<1>7. ASSUME NEW r \in Readers, RegisterKey(r)
      PROVE CleanFill'
  BY <1>7 DEF RegisterKey, WithKey, AfterRegister
<1>8. ASSUME NEW r \in Readers, RegisterKeyFail(r)
      PROVE CleanFill'
  BY <1>8 DEF RegisterKeyFail, AfterRegister
<1>9. ASSUME NEW r \in Readers, Deliver(r)
      PROVE CleanFill'
  BY <1>9 DEF Deliver, Team
<1>10. ASSUME NEW w \in Writers, NEW n \in Namespaces, Write(w, n)
       PROVE CleanFill'
  BY <1>10 DEF Write, Written, Overlap
<1>11. ASSUME NEW w \in Writers, NEW n \in Namespaces, Invalidate(w, n)
       PROVE CleanFill'
  BY <1>11 DEF Invalidate, Overlap
<1>12. ASSUME NEW w \in Writers, FlagOn(w)
       PROVE CleanFill'
  BY <1>12 DEF FlagOn
<1>13. ASSUME NEW w \in Writers, FlagOff(w) \/ InvalidateFail(w)
       PROVE CleanFill'
  BY <1>13 DEF FlagOff, InvalidateFail, GiveUp
<1>14. ASSUME NEW w \in Writers, ListMembers(w)
       PROVE CleanFill'
  BY <1>14 DEF ListMembers
<1>15. ASSUME NEW w \in Writers, NEW k \in Keys, DeleteMember(w, k)
       PROVE CleanFill'
  BY <1>15 DEF DeleteMember, Dropped
<1>16. ASSUME NEW w \in Writers, DeleteRegistry(w)
       PROVE CleanFill'
  BY <1>16 DEF DeleteRegistry
<1>17. ASSUME NEW k \in Keys, Expire(k)
       PROVE CleanFill'
  BY <1>17 DEF Expire, Dropped
<1>18. CASE UNCHANGED vars
  BY <1>18 DEF vars
<1> HIDE DEF CleanFill
<1> QED
  BY <1>1, <1>2, <1>3, <1>4, <1>5, <1>6, <1>7, <1>8, <1>9,
     <1>10, <1>11, <1>12, <1>13, <1>14, <1>15, <1>16, <1>17, <1>18
     DEF Next, ReadStart, ReadStep, WriteStart, WriteStep

\* A clean fill registers its key while no flush runs; a flush removes the
\* registry only after it has deleted everything it listed.
LEMMA RegisteredStep == IInv /\ [Next]_vars => CleanIsRegistered'
<1> SUFFICES ASSUME IInv, [Next]_vars PROVE CleanIsRegistered'
  OBVIOUS
<1> USE KeyNSType, NoReaderIsNoReader, MaxWritesNat
<1> USE DEF IInv, TypeOK, CleanIsRegistered, CleanFill, Pending
<1> USE DEF FillPCs, SetPCs, RegPCs, Idle, Waiting, Looking, Loading, Setting,
        Registering, Returning, Passing, PassSetting, PassRegistering, Checking,
        Listing, Deleting
<1>1. ASSUME NEW r \in Readers, NEW k \in Keys, ReadLead(r, k) \/ ReadJoin(r, k)
      PROVE CleanIsRegistered'
  BY <1>1 DEF ReadLead, ReadJoin, NoFlight
<1>2. ASSUME NEW r \in Readers, CacheHit(r) \/ CacheMiss(r) \/ CacheUnavailable(r)
      PROVE CleanIsRegistered'
  BY <1>2 DEF CacheHit, CacheMiss, CacheUnavailable
<1>3. ASSUME NEW r \in Readers, Load(r) \/ PassQuery(r)
      PROVE CleanIsRegistered'
  BY <1>3 DEF Load, PassQuery, Query
<1>4. ASSUME NEW r \in Readers, LoadFail(r) \/ PassReply(r)
      PROVE CleanIsRegistered'
  BY <1>4 DEF LoadFail, PassReply
<1>5. ASSUME NEW r \in Readers, StoreSet(r)
      PROVE CleanIsRegistered'
  BY <1>5 DEF StoreSet, AfterSet
<1>6. ASSUME NEW r \in Readers, StoreSetFail(r)
      PROVE CleanIsRegistered'
  BY <1>6 DEF StoreSetFail, AfterSet
<1>7. ASSUME NEW r \in Readers, RegisterKey(r)
      PROVE CleanIsRegistered'
  BY <1>7 DEF RegisterKey, WithKey, AfterRegister
<1>8. ASSUME NEW r \in Readers, RegisterKeyFail(r)
      PROVE CleanIsRegistered'
  BY <1>8 DEF RegisterKeyFail, AfterRegister
<1>9. ASSUME NEW r \in Readers, Deliver(r)
      PROVE CleanIsRegistered'
  BY <1>9 DEF Deliver, Team
<1>10. ASSUME NEW w \in Writers, NEW n \in Namespaces, Write(w, n)
       PROVE CleanIsRegistered'
  BY <1>10 DEF Write, Written, Overlap
<1>11. ASSUME NEW w \in Writers, NEW n \in Namespaces, Invalidate(w, n)
       PROVE CleanIsRegistered'
  BY <1>11 DEF Invalidate, Overlap
<1>12. ASSUME NEW w \in Writers, FlagOn(w)
       PROVE CleanIsRegistered'
  BY <1>12 DEF FlagOn
<1>13. ASSUME NEW w \in Writers, FlagOff(w) \/ InvalidateFail(w)
       PROVE CleanIsRegistered'
  BY <1>13 DEF FlagOff, InvalidateFail, GiveUp
<1>14. ASSUME NEW w \in Writers, ListMembers(w)
       PROVE CleanIsRegistered'
  BY <1>14 DEF ListMembers
<1>15. ASSUME NEW w \in Writers, NEW k \in Keys, DeleteMember(w, k)
       PROVE CleanIsRegistered'
  BY <1>15 DEF DeleteMember, Dropped
<1>16. ASSUME NEW w \in Writers, DeleteRegistry(w)
       PROVE CleanIsRegistered'
  BY <1>16 DEF DeleteRegistry
<1>17. ASSUME NEW k \in Keys, Expire(k)
       PROVE CleanIsRegistered'
  BY <1>17 DEF Expire, Dropped
<1>18. CASE UNCHANGED vars
  BY <1>18 DEF vars
<1> HIDE DEF CleanIsRegistered
<1> QED
  BY <1>1, <1>2, <1>3, <1>4, <1>5, <1>6, <1>7, <1>8, <1>9,
     <1>10, <1>11, <1>12, <1>13, <1>14, <1>15, <1>16, <1>17, <1>18
     DEF Next, ReadStart, ReadStep, WriteStart, WriteStep

\* Only a write makes an entry stale, and every write is followed by a flush
\* that lists the key, or by a step that makes the entry dirty.
LEMMA CurrentStep == IInv /\ [Next]_vars => CleanIsCurrent'
<1> SUFFICES ASSUME IInv, [Next]_vars PROVE CleanIsCurrent'
  OBVIOUS
<1> USE KeyNSType, NoReaderIsNoReader, MaxWritesNat
<1> USE DEF IInv, TypeOK, CleanIsCurrent, CleanIsRegistered, CleanFill, Pending, LateFill, WillDrop
<1> USE DEF FillPCs, SetPCs, RegPCs, Idle, Waiting, Looking, Loading, Setting,
        Registering, Returning, Passing, PassSetting, PassRegistering, Checking,
        Listing, Deleting
<1>1. ASSUME NEW r \in Readers, NEW k \in Keys, ReadLead(r, k) \/ ReadJoin(r, k)
      PROVE CleanIsCurrent'
  <2>1. CASE ReadLead(r, k)
    BY <2>1 DEF ReadLead, NoFlight
  <2>2. CASE ReadJoin(r, k)
    BY <2>2 DEF ReadJoin, NoFlight
  <2> QED
    BY <1>1, <2>1, <2>2
<1>2. ASSUME NEW r \in Readers, CacheHit(r) \/ CacheMiss(r) \/ CacheUnavailable(r)
      PROVE CleanIsCurrent'
  BY <1>2 DEF CacheHit, CacheMiss, CacheUnavailable
<1>3. ASSUME NEW r \in Readers, Load(r) \/ PassQuery(r)
      PROVE CleanIsCurrent'
  BY <1>3 DEF Load, PassQuery, Query
<1>4. ASSUME NEW r \in Readers, LoadFail(r) \/ PassReply(r)
      PROVE CleanIsCurrent'
  BY <1>4 DEF LoadFail, PassReply
<1>5. ASSUME NEW r \in Readers, StoreSet(r)
      PROVE CleanIsCurrent'
  BY <1>5 DEF StoreSet, AfterSet
<1>6. ASSUME NEW r \in Readers, StoreSetFail(r)
      PROVE CleanIsCurrent'
  BY <1>6 DEF StoreSetFail, AfterSet
<1>7. ASSUME NEW r \in Readers, RegisterKey(r)
      PROVE CleanIsCurrent'
  BY <1>7 DEF RegisterKey, WithKey, AfterRegister
<1>8. ASSUME NEW r \in Readers, RegisterKeyFail(r)
      PROVE CleanIsCurrent'
  BY <1>8 DEF RegisterKeyFail, AfterRegister
<1>9. ASSUME NEW r \in Readers, Deliver(r)
      PROVE CleanIsCurrent'
  BY <1>9 DEF Deliver, Team
<1>10. ASSUME NEW w \in Writers, NEW n \in Namespaces, Write(w, n)
       PROVE CleanIsCurrent'
  BY <1>10 DEF Write, Written, Overlap
<1>11. ASSUME NEW w \in Writers, NEW n \in Namespaces, Invalidate(w, n)
       PROVE CleanIsCurrent'
  BY <1>11 DEF Invalidate, Overlap
<1>12. ASSUME NEW w \in Writers, FlagOn(w)
       PROVE CleanIsCurrent'
  BY <1>12 DEF FlagOn
<1>13. ASSUME NEW w \in Writers, FlagOff(w) \/ InvalidateFail(w)
       PROVE CleanIsCurrent'
  BY <1>13 DEF FlagOff, InvalidateFail, GiveUp
<1>14. ASSUME NEW w \in Writers, ListMembers(w)
       PROVE CleanIsCurrent'
  BY <1>14 DEF ListMembers
<1>15. ASSUME NEW w \in Writers, NEW k \in Keys, DeleteMember(w, k)
       PROVE CleanIsCurrent'
  BY <1>15 DEF DeleteMember, Dropped
<1>16. ASSUME NEW w \in Writers, DeleteRegistry(w)
       PROVE CleanIsCurrent'
  BY <1>16 DEF DeleteRegistry
<1>17. ASSUME NEW k \in Keys, Expire(k)
       PROVE CleanIsCurrent'
  BY <1>17 DEF Expire, Dropped
<1>18. CASE UNCHANGED vars
  BY <1>18 DEF vars
<1> HIDE DEF CleanIsCurrent
<1> QED
  BY <1>1, <1>2, <1>3, <1>4, <1>5, <1>6, <1>7, <1>8, <1>9,
     <1>10, <1>11, <1>12, <1>13, <1>14, <1>15, <1>16, <1>17, <1>18
     DEF Next, ReadStart, ReadStep, WriteStart, WriteStep

\* The cache starts empty, with no request under way.
LEMMA IInvInit == Init => IInv
<1> SUFFICES ASSUME Init PROVE IInv
  OBVIOUS
<1>1. TypeOK
  BY KeyNSType, MaxWritesNat
     DEF Init, TypeOK, Versions, MaybeVersion, NoValue, ReaderPCs, WriterPCs, FillPCs,
         SetPCs, RegPCs, Idle
<1>2. CleanIsCurrent /\ CleanIsRegistered /\ CleanFill
  BY DEF Init, CleanIsCurrent, CleanIsRegistered, CleanFill
<1> QED
  BY <1>1, <1>2 DEF IInv

\* The invariant holds of every reachable state.
THEOREM Invariance == Spec => []IInv
<1>1. IInv /\ [Next]_vars => IInv'
  BY TypeStep, CleanFillStep, RegisteredStep, CurrentStep DEF IInv
<1> QED
  BY <1>1, IInvInit, PTL DEF Spec

\* The freshness guarantee of the read-through cache (tryCacheRead, the
\* coordinator and InvalidateNamespace): an entry older than the collection is
\* one that a running flush will delete, or one whose fill overlapped a write or
\* a flush, or one for which a Redis command or a look-up failed.
THEOREM Freshness == Spec => []FreshUnlessOverlap
<1>1. IInv => FreshUnlessOverlap
  BY KeyNSType, MaxWritesNat
     DEF IInv, TypeOK, CleanIsCurrent, FreshUnlessOverlap, Stale, Versions, MaybeVersion
<1> QED
  BY <1>1, Invariance, PTL

\* An entry whose fill overlapped nothing is in the registry that
\* InvalidateNamespace reads, and in the list of every flush that is deleting.
THEOREM Registered == Spec => []CleanIsRegistered
<1>1. IInv => CleanIsRegistered
  BY DEF IInv
<1> QED
  BY <1>1, Invariance, PTL

-----------------------------------------------------------------------------
(* The singleflight of the coordinator *)

FlightPCs == {Looking, Loading, Setting, Registering, Returning}

\* Coalesced says that who runs a flight is registered as its leader; this is
\* the converse, which Coalesced needs to be inductive.
FlightHasLeader ==
    \A k \in Keys : flight[k] # NoReader =>
        rpc[flight[k]] \in FlightPCs /\ rkey[flight[k]] = k

FlightInv == TypeOK /\ Coalesced /\ FlightHasLeader

\* Leading and ending a flight are the only steps that change who leads.
LEMMA FlightStep == FlightInv /\ [Next]_vars => Coalesced' /\ FlightHasLeader'
<1> SUFFICES ASSUME FlightInv, [Next]_vars PROVE Coalesced' /\ FlightHasLeader'
  OBVIOUS
<1> USE NoReaderIsNoReader
<1> USE DEF FlightInv, TypeOK, Coalesced, FlightHasLeader, FlightPCs, SetPCs, RegPCs, Idle,
        Waiting, Looking, Loading, Setting, Registering, Returning, Passing, PassSetting,
        PassRegistering
<1>1. ASSUME NEW r \in Readers, NEW k \in Keys, ReadLead(r, k) \/ ReadJoin(r, k)
      PROVE Coalesced' /\ FlightHasLeader'
  BY <1>1 DEF ReadLead, ReadJoin, NoFlight
<1>2. ASSUME NEW r \in Readers, CacheHit(r) \/ CacheMiss(r) \/ CacheUnavailable(r)
      PROVE Coalesced' /\ FlightHasLeader'
  BY <1>2 DEF CacheHit, CacheMiss, CacheUnavailable
<1>3. ASSUME NEW r \in Readers, Load(r) \/ PassQuery(r) \/ LoadFail(r) \/ PassReply(r)
      PROVE Coalesced' /\ FlightHasLeader'
  BY <1>3 DEF Load, PassQuery, Query, LoadFail, PassReply
<1>4. ASSUME NEW r \in Readers, StoreSet(r) \/ StoreSetFail(r)
      PROVE Coalesced' /\ FlightHasLeader'
  BY <1>4 DEF StoreSet, StoreSetFail, AfterSet
<1>5. ASSUME NEW r \in Readers, RegisterKey(r) \/ RegisterKeyFail(r)
      PROVE Coalesced' /\ FlightHasLeader'
  BY <1>5 DEF RegisterKey, RegisterKeyFail, WithKey, AfterRegister
<1>6. ASSUME NEW r \in Readers, Deliver(r)
      PROVE Coalesced' /\ FlightHasLeader'
  BY <1>6 DEF Deliver, Team
<1>7. ASSUME NEW w \in Writers, WriteStart(w) \/ WriteStep(w)
      PROVE Coalesced' /\ FlightHasLeader'
  <2>1. UNCHANGED <<flight, rpc, rkey>>
    BY <1>7 DEF WriteStart, WriteStep, Write, Invalidate, FlagOn, FlagOff, ListMembers,
                DeleteMember, DeleteRegistry, InvalidateFail, GiveUp
  <2> QED
    BY <2>1
<1>8. ASSUME NEW k \in Keys, Expire(k)
      PROVE Coalesced' /\ FlightHasLeader'
  BY <1>8 DEF Expire, Dropped
<1>9. CASE UNCHANGED vars
  BY <1>9 DEF vars
<1> HIDE DEF Coalesced, FlightHasLeader
<1> QED
  BY <1>1, <1>2, <1>3, <1>4, <1>5, <1>6, <1>7, <1>8, <1>9 DEF Next, ReadStart, ReadStep

\* At most one query of a key runs inside coordinator.GetOrLoad, and every
\* waiter has a leader at work that will wake it.
THEOREM SingleFlight == Spec => []Coalesced
<1>1. Init => FlightInv
  <2> SUFFICES ASSUME Init PROVE FlightInv
    OBVIOUS
  <2>1. TypeOK
    BY IInvInit DEF IInv
  <2>2. Coalesced /\ FlightHasLeader
    BY DEF Init, Coalesced, FlightHasLeader, Idle, Waiting, Looking, Loading, Setting,
           Registering, Returning
  <2> QED
    BY <2>1, <2>2 DEF FlightInv
<1>2. FlightInv /\ [Next]_vars => FlightInv'
  BY TypeStep, FlightStep DEF FlightInv
<1>3. FlightInv => Coalesced
  BY DEF FlightInv
<1> QED
  BY <1>1, <1>2, <1>3, PTL DEF Spec

-----------------------------------------------------------------------------
(* Replies *)

\* An entry that is not in doubt is from after every completed flush.
CleanCovers ==
    \A k \in Keys :
        redis[k] # NoValue /\ ~InDoubt(k) => redis[k] >= flushed[KeyNS[k]]

\* Flushes are for what was written, reads are promised what was flushed, and a
\* waiter is promised what its leader is.
InOrder ==
    /\ \A w \in Writers : since[w] =< db[wns[w]]
    /\ \A n \in Namespaces : flushed[n] =< db[n]
    /\ \A r \in Readers : atLeast[r] =< flushed[KeyNS[rkey[r]]]
    /\ \A r \in Readers : rpc[r] = Waiting => atLeast[r] = atLeast[flight[rkey[r]]]

\* What a reader has been answered covers what it was promised.
Covered(r) ==
    rpc[r] \notin {Looking, Loading, Waiting} /\ rval[r] # NoValue =>
        rval[r] >= atLeast[r] \/ r \in excused

HistoryTypeOK ==
    /\ since \in [Writers -> Versions]
    /\ flushed \in [Namespaces -> Versions]
    /\ atLeast \in [Readers -> Versions]
    /\ excused \subseteq Readers

\* ReplyCovers is not inductive: a hit covers what its reader is promised because the
\* entry does (CleanCovers), a query because flushes are for what was written, and a
\* waiter because its leader does (InOrder, and FlightInv for there being a leader).
Kept == HistoryTypeOK /\ (\A r \in Readers : Covered(r)) /\ CleanCovers /\ InOrder
ReplyInv == IInv /\ FlightInv /\ Kept

\* The steps of CacheReplies are those of ReadCache.
LEMMA ReplyIsRead == [ReplyNext]_replyVars => [Next]_vars
  <1>1. ASSUME NEW r \in Readers, NEW k \in Keys, Lead(r, k) \/ Join(r, k)
        PROVE  ReadStart(r)
    BY <1>1 DEF Lead, Join, ReadStart
  <1>2. ASSUME NEW r \in Readers, Hit(r) \/ Answer(r) \/ Inside(r)
        PROVE  ReadStep(r)
    BY <1>2 DEF Hit, Answer, Inside, ReadStep
  <1>3. ASSUME NEW w \in Writers, NEW n \in Namespaces, Start(w, n)
        PROVE  WriteStart(w)
    BY <1>3 DEF Start, WriteStart
  <1>4. ASSUME NEW w \in Writers, Flushed(w) \/ Flushing(w)
        PROVE  WriteStep(w)
    BY <1>4 DEF Flushed, Flushing, WriteStep
  <1>. QED
    BY <1>1, <1>2, <1>3, <1>4 DEF ReplyNext, Next, replyVars

\* A read begins with a promise that the entries and the flight it joins keep.
LEMMA StartKeeps ==
    ASSUME ReplyInv, NEW r \in Readers, NEW k \in Keys, Lead(r, k) \/ Join(r, k)
    PROVE  Kept'
  <1>. USE KeyNSType, NoReaderIsNoReader, MaxWritesNat
  <1>. USE DEF ReplyInv, IInv, TypeOK, Kept, HistoryTypeOK, Covered, CleanCovers, InOrder,
               InDoubt, LateFill, Promise, FlightInv, Coalesced, FlightHasLeader, FlightPCs,
               Versions, MaybeVersion, NoValue, SetPCs, RegPCs, Idle, Waiting, Looking,
               Loading, Setting, Registering, Returning, Passing, PassSetting, PassRegistering
  <1>1. CASE Lead(r, k)
    <2>1. \A q \in Readers : rpc[q] = Waiting => rkey[q] # k
      BY <1>1 DEF Lead, ReadLead, NoFlight
    <2>2. HistoryTypeOK' /\ (\A q \in Readers : Covered(q))' /\ CleanCovers'
      BY <1>1 DEF Lead, ReadLead
    <2>3. InOrder'
      BY <1>1, <2>1 DEF Lead, ReadLead
    <2>. QED
      BY <2>2, <2>3
  <1>2. CASE Join(r, k)
    BY <1>2 DEF Join, ReadJoin, NoFlight
  <1>. QED
    BY <1>1, <1>2

\* Steps of a reader that neither fill an entry nor wake others need only answer what
\* the reader was promised.
LEMMA ReaderKeeps ==
    ASSUME ReplyInv, NEW r \in Readers, NEW p,
           rpc[r] \notin RegPCs, p \notin RegPCs, p # Waiting,
           rpc' = [rpc EXCEPT ![r] = p],
           UNCHANGED <<since, flushed, atLeast, db, redis, flight, rkey, wns, dirty>>,
           \A q \in Readers : q # r => /\ q \in clean' <=> q \in clean
                                       /\ q \in excused' <=> q \in excused
                                       /\ rval'[q] = rval[q],
           excused' \subseteq Readers,
           Covered(r)'
    PROVE  Kept'
  <1>1. rpc \in [Readers -> ReaderPCs]
    BY DEF ReplyInv, IInv, TypeOK
  <1>2. rpc'[r] = p /\ \A q \in Readers : q # r => rpc'[q] = rpc[q]
    BY <1>1
  <1>3. HistoryTypeOK'
    BY DEF ReplyInv, Kept, HistoryTypeOK
  <1>4. ASSUME NEW q \in Readers PROVE Covered(q)'
    <2>1. CASE q = r
      BY <2>1
    <2>2. CASE q # r
      BY <1>2, <2>2 DEF ReplyInv, Kept, Covered
    <2>. QED
      BY <2>1, <2>2
  <1>5. \A k \in Keys : LateFill(k)' <=> LateFill(k)
    BY <1>2 DEF LateFill
  <1>6. CleanCovers'
    BY <1>5 DEF ReplyInv, Kept, CleanCovers, InDoubt
  <1>7. InOrder'
    BY <1>2 DEF ReplyInv, Kept, InOrder
  <1>. QED
    BY <1>3, <1>4, <1>6, <1>7 DEF Kept

\* A hit on an entry that is not in doubt is from after every completed flush.
LEMMA HitKeeps ==
    ASSUME ReplyInv, NEW r \in Readers, Hit(r)
    PROVE  Kept'
  <1>. USE DEF RegPCs, Waiting, Looking, Returning, Registering, PassRegistering
  <1>1. /\ rpc[r] = Looking /\ redis[rkey[r]] # NoValue
        /\ rval' = [rval EXCEPT ![r] = redis[rkey[r]]]
        /\ rpc' = [rpc EXCEPT ![r] = Returning]
        /\ UNCHANGED <<since, flushed, atLeast, db, redis, flight, rkey, wns, dirty, clean>>
        /\ excused' = IF InDoubt(rkey[r]) THEN excused \cup {r} ELSE excused
    BY DEF Hit, CacheHit
  <1>2. /\ rkey[r] \in Keys /\ KeyNS[rkey[r]] \in Namespaces
        /\ redis[rkey[r]] \in MaybeVersion /\ rval \in [Readers -> MaybeVersion]
        /\ flushed[KeyNS[rkey[r]]] \in Versions /\ atLeast[r] \in Versions
        /\ atLeast[r] =< flushed[KeyNS[rkey[r]]] /\ excused \subseteq Readers
    BY KeyNSType DEF ReplyInv, IInv, TypeOK, Kept, HistoryTypeOK, InOrder
  <1>3. InDoubt(rkey[r]) \/ redis[rkey[r]] >= flushed[KeyNS[rkey[r]]]
    BY <1>1, <1>2 DEF ReplyInv, Kept, CleanCovers
  <1>4. redis[rkey[r]] >= atLeast[r] \/ r \in excused'
    BY <1>1, <1>2, <1>3, MaxWritesNat DEF Versions, MaybeVersion
  <1>5. Covered(r)'
    BY <1>1, <1>2, <1>4 DEF Covered
  <1>. QED
    BY <1>1, <1>2, <1>5, ReaderKeeps

\* A query returns what is written by now.
LEMMA QueryKeeps ==
    ASSUME ReplyInv, NEW r \in Readers, Load(r) \/ PassQuery(r), UNCHANGED historyVars
    PROVE  Kept'
  <1>. USE DEF RegPCs, Registering, PassRegistering
  <1>1. PICK p \in SetPCs :
            /\ rpc[r] \in {Loading, Passing}
            /\ rval' = [rval EXCEPT ![r] = db[KeyNS[rkey[r]]]]
            /\ clean' \in {clean \ {r}, clean \cup {r}}
            /\ rpc' = [rpc EXCEPT ![r] = p]
            /\ UNCHANGED <<db, redis, flight, rkey, wns, dirty>>
    BY DEF Load, PassQuery, Query, SetPCs
  <1>2. /\ rkey[r] \in Keys /\ KeyNS[rkey[r]] \in Namespaces
        /\ db[KeyNS[rkey[r]]] \in Versions /\ rval \in [Readers -> MaybeVersion]
        /\ flushed[KeyNS[rkey[r]]] \in Versions /\ atLeast[r] \in Versions
        /\ atLeast[r] =< flushed[KeyNS[rkey[r]]]
        /\ flushed[KeyNS[rkey[r]]] =< db[KeyNS[rkey[r]]] /\ excused \subseteq Readers
    BY KeyNSType DEF ReplyInv, IInv, TypeOK, Kept, HistoryTypeOK, InOrder
  <1>3. db[KeyNS[rkey[r]]] >= atLeast[r]
    BY <1>2, MaxWritesNat DEF Versions
  <1>4. UNCHANGED <<since, flushed, atLeast, excused>>
    BY DEF historyVars
  <1>5. Covered(r)'
    BY <1>1, <1>2, <1>3, <1>4 DEF Covered
  <1>6. rpc[r] \notin RegPCs /\ p \notin RegPCs /\ p # Waiting
    BY <1>1 DEF SetPCs, Setting, PassSetting, Loading, Passing, Waiting
  <1>. QED
    BY <1>1, <1>2, <1>4, <1>5, <1>6, ReaderKeeps

\* What a fill stores is from after every completed flush, or in doubt.
LEMMA FillKeeps ==
    ASSUME ReplyInv, NEW r \in Readers,
           StoreSet(r) \/ StoreSetFail(r) \/ RegisterKey(r) \/ RegisterKeyFail(r),
           UNCHANGED historyVars
    PROVE  Kept'
  <1>. USE KeyNSType, NoReaderIsNoReader, MaxWritesNat
  <1>. USE DEF historyVars, ReplyInv, IInv, TypeOK, CleanFill, FillPCs, Kept, HistoryTypeOK,
               Covered, CleanCovers, InOrder, InDoubt, LateFill, Versions, MaybeVersion, NoValue,
               SetPCs, RegPCs, Idle, Waiting, Looking, Loading, Setting, Registering, Returning,
               Passing, PassSetting, PassRegistering
  <1>1. CASE StoreSet(r)
    BY <1>1 DEF StoreSet, AfterSet
  <1>2. CASE StoreSetFail(r)
    BY <1>2 DEF StoreSetFail, AfterSet
  <1>3. CASE RegisterKey(r)
    BY <1>3 DEF RegisterKey, AfterRegister
  <1>4. CASE RegisterKeyFail(r)
    BY <1>4 DEF RegisterKeyFail, AfterRegister
  <1>. QED
    BY <1>1, <1>2, <1>3, <1>4

\* The other steps of a read give no answer.
LEMMA MissKeeps ==
    ASSUME ReplyInv, NEW r \in Readers,
           CacheMiss(r) \/ CacheUnavailable(r) \/ LoadFail(r) \/ PassReply(r),
           UNCHANGED historyVars
    PROVE  Kept'
  <1>1. PICK p \in {Loading, Returning, Idle} :
            /\ rpc[r] \in {Looking, Loading, Passing}
            /\ rpc' = [rpc EXCEPT ![r] = p]
            /\ UNCHANGED <<db, redis, flight, rkey, wns, dirty, clean>>
            /\ \/ p = Loading /\ UNCHANGED rval
               \/ p = Returning /\ rval' = [rval EXCEPT ![r] = NoValue]
               \/ p = Idle /\ rpc[r] = Passing /\ UNCHANGED rval
    BY DEF CacheMiss, CacheUnavailable, LoadFail, PassReply
  <1>2. rpc \in [Readers -> ReaderPCs] /\ rval \in [Readers -> MaybeVersion]
        /\ excused \subseteq Readers /\ Covered(r)
    BY DEF ReplyInv, IInv, TypeOK, Kept, HistoryTypeOK
  <1>3. UNCHANGED <<since, flushed, atLeast, excused>>
    BY DEF historyVars
  <1>4. Covered(r)'
    BY <1>1, <1>2, <1>3 DEF Covered, Loading, Looking, Waiting, Passing, Idle
  <1>5. rpc[r] \notin RegPCs /\ p \notin RegPCs /\ p # Waiting
    BY <1>1 DEF RegPCs, Registering, PassRegistering, Loading, Looking, Passing, Returning,
                Idle, Waiting
  <1>6. \A q \in Readers : q # r => rval'[q] = rval[q]
    BY <1>1, <1>2
  <1>. QED
    BY <1>1, <1>2, <1>3, <1>4, <1>5, <1>6, ReaderKeeps

\* Every member of a flight was promised what its leader was.
LEMMA AnswerKeeps ==
    ASSUME ReplyInv, NEW r \in Readers, Answer(r)
    PROVE  Kept'
  <1>. USE KeyNSType, NoReaderIsNoReader, MaxWritesNat
  <1>. USE DEF Waiting, Returning
  <1>1. flight[rkey[r]] = r
    BY DEF ReplyInv, FlightInv, Coalesced, Answer, Deliver
  <1>2. \A q \in Team(r) : q \in Readers /\ rkey[q] = rkey[r] /\ atLeast[q] = atLeast[r]
    BY <1>1 DEF Team, ReplyInv, Kept, InOrder
  <1>3. rval[r] # NoValue => rval[r] >= atLeast[r] \/ r \in excused
    BY DEF Answer, Deliver, ReplyInv, Kept, Covered, Looking, Loading
  <1>4. /\ UNCHANGED <<since, flushed, atLeast, db, redis, rkey, wns, dirty, clean>>
        /\ flight' = [flight EXCEPT ![rkey[r]] = NoReader]
        /\ rval' = [q \in Readers |-> IF q \in Team(r) THEN rval[r] ELSE rval[q]]
        /\ rpc' = [q \in Readers |-> IF q \in Team(r)
                                     THEN IF rval[r] = NoValue THEN Passing ELSE Idle
                                     ELSE rpc[q]]
        /\ excused' = IF r \in excused THEN excused \cup Team(r) ELSE excused
    BY DEF Answer, Deliver
  <1>5. HistoryTypeOK'
    BY <1>2, <1>4 DEF ReplyInv, Kept, HistoryTypeOK
  <1>6. ASSUME NEW q \in Readers PROVE Covered(q)'
    <2>1. CASE q \in Team(r)
      BY <1>2, <1>3, <1>4, <2>1 DEF Covered
    <2>2. CASE q \notin Team(r)
      BY <1>4, <2>2 DEF Covered, ReplyInv, Kept
    <2>. QED
      BY <2>1, <2>2
  <1>7. CleanCovers'
    <2>1. \A q \in Readers : rpc'[q] \in RegPCs <=> rpc[q] \in RegPCs
      BY <1>4 DEF RegPCs, Registering, PassRegistering, Passing, Idle, Team, Answer, Deliver
    <2>2. \A k \in Keys : LateFill(k)' <=> LateFill(k)
      BY <1>4, <2>1 DEF LateFill
    <2>. QED
      BY <1>4, <2>2 DEF ReplyInv, Kept, CleanCovers, InDoubt
  <1>8. InOrder'
    <2>1. ASSUME NEW q \in Readers, rpc'[q] = Waiting
          PROVE  rpc[q] = Waiting /\ rkey[q] # rkey[r] /\ flight'[rkey[q]] = flight[rkey[q]]
      BY <1>4, <2>1 DEF Team, Passing, Idle, ReplyInv, IInv, TypeOK
    <2>. QED
      BY <1>4, <2>1 DEF ReplyInv, Kept, InOrder
  <1>. QED
    BY <1>5, <1>6, <1>7, <1>8 DEF Kept

\* A write or a flush that begins is for what is written by then.
LEMMA WriteKeeps ==
    ASSUME ReplyInv, NEW w \in Writers, NEW n \in Namespaces, Start(w, n)
    PROVE  Kept'
  <1>. USE KeyNSType, NoReaderIsNoReader, MaxWritesNat
  <1>. USE DEF ReplyInv, IInv, TypeOK, Kept, HistoryTypeOK, Covered, CleanCovers, InOrder,
               InDoubt, LateFill, Overlap, Versions, MaybeVersion, NoValue, RegPCs, Start
  <1>1. CASE Write(w, n)
    BY <1>1 DEF Write, Invalidate, Written, Idle, Checking, Listing
  <1>2. CASE Invalidate(w, n)
    BY <1>2 DEF Invalidate, Write, Idle, Checking, Listing
  <1>. QED
    BY <1>1, <1>2

\* When a flush ends no entry is left that is not in doubt: such an entry would be
\* on its list, or being filled without a flush under way.
LEMMA FlushedKeeps ==
    ASSUME ReplyInv, NEW w \in Writers, Flushed(w)
    PROVE  Kept'
  <1>. USE KeyNSType, NoReaderIsNoReader, MaxWritesNat
  <1>1. /\ wpc[w] = Deleting /\ members[w] = {} /\ wns[w] \in Namespaces
        /\ flushed' = [flushed EXCEPT ![wns[w]] = IF since[w] > flushed[wns[w]]
                                                  THEN since[w] ELSE flushed[wns[w]]]
        /\ UNCHANGED <<since, atLeast, excused, db, redis, rpc, rkey, rval, flight, wns, clean,
                       dirty>>
    BY DEF Flushed, DeleteRegistry, ReplyInv, IInv, TypeOK
  <1>2. /\ since \in [Writers -> Versions] /\ flushed \in [Namespaces -> Versions]
        /\ atLeast \in [Readers -> Versions] /\ db \in [Namespaces -> Versions]
        /\ redis \in [Keys -> MaybeVersion]
        /\ rkey \in [Readers -> Keys] /\ wns \in [Writers -> Namespaces]
    BY DEF ReplyInv, IInv, TypeOK, Kept, HistoryTypeOK
  <1>3. /\ flushed' \in [Namespaces -> Versions]
        /\ \A n \in Namespaces : flushed[n] =< flushed'[n] /\ flushed'[n] =< db[n]
        /\ \A n \in Namespaces : n # wns[w] => flushed'[n] = flushed[n]
    BY <1>1, <1>2 DEF ReplyInv, Kept, InOrder, Versions
  <1>4. ASSUME NEW k \in Keys, KeyNS[k] = wns[w], redis[k] # NoValue, k \notin dirty, ~LateFill(k)
        PROVE  FALSE
    <2>1. PICK r \in Readers : rpc[r] \in RegPCs /\ rkey[r] = k
      BY <1>1, <1>4 DEF ReplyInv, IInv, CleanIsRegistered
    <2>2. r \in clean
      BY <1>4, <2>1 DEF LateFill
    <2>3. ~Pending(wns[w])
      BY <1>4, <2>1, <2>2 DEF ReplyInv, IInv, CleanFill, FillPCs
    <2>. QED
      BY <1>1, <2>3 DEF Pending, Deleting, Idle
  <1>5. CleanCovers'
    <2>. SUFFICES ASSUME NEW k \in Keys, redis[k] # NoValue, k \notin dirty, ~LateFill(k)
                  PROVE  redis[k] >= flushed'[KeyNS[k]]
      BY <1>1 DEF CleanCovers, InDoubt, LateFill
    <2>1. KeyNS[k] # wns[w]
      BY <1>4
    <2>2. redis[k] >= flushed[KeyNS[k]]
      BY DEF ReplyInv, Kept, CleanCovers, InDoubt
    <2>. QED
      BY <1>3, <2>1, <2>2
  <1>6. InOrder'
    <2>1. ASSUME NEW r \in Readers PROVE atLeast[r] =< flushed'[KeyNS[rkey[r]]]
      <3>1. atLeast[r] =< flushed[KeyNS[rkey[r]]] /\ KeyNS[rkey[r]] \in Namespaces
        BY <1>2 DEF ReplyInv, Kept, InOrder
      <3>. QED
        BY <1>2, <1>3, <3>1 DEF Versions
    <2>. QED
      BY <1>1, <1>3, <2>1 DEF ReplyInv, Kept, InOrder
  <1>7. (\A r \in Readers : Covered(r))' /\ HistoryTypeOK'
    BY <1>1, <1>3 DEF ReplyInv, Kept, Covered, HistoryTypeOK
  <1>. QED
    BY <1>5, <1>6, <1>7 DEF Kept

\* Until a flush ends, it and the expiry of entries only take entries away or put
\* them in doubt.
LEMMA FlushingKeeps ==
    ASSUME ReplyInv, UNCHANGED historyVars,
           (\E w \in Writers : Flushing(w)) \/ (\E k \in Keys : Expire(k))
    PROVE  Kept'
  <1>. USE KeyNSType, NoReaderIsNoReader, MaxWritesNat
  <1>1. /\ UNCHANGED <<since, flushed, atLeast, excused, db, rpc, rkey, rval, flight, wns, clean>>
        /\ dirty \subseteq dirty'
        /\ \A k \in Keys : redis'[k] \in {redis[k], NoValue}
    <2>1. CASE \E k \in Keys : Expire(k)
      BY <2>1 DEF historyVars, Expire, Dropped, ReplyInv, IInv, TypeOK
    <2>2. CASE \E w \in Writers : Flushing(w)
      BY <2>2 DEF Flushing, historyVars, FlagOn, FlagOff, ListMembers, DeleteMember, Dropped,
                  InvalidateFail, GiveUp, ReplyInv, IInv, TypeOK
    <2>. QED
      BY <2>1, <2>2
  <1>. QED
    BY <1>1 DEF ReplyInv, Kept, HistoryTypeOK, Covered, CleanCovers, InDoubt, LateFill, InOrder

\* Every step keeps the invariant.
LEMMA ReplyStep == ReplyInv /\ [ReplyNext]_replyVars => ReplyInv'
  <1>. SUFFICES ASSUME ReplyInv, [ReplyNext]_replyVars PROVE ReplyInv'
    OBVIOUS
  <1>1. IInv' /\ FlightInv'
    BY ReplyIsRead, TypeStep, CleanFillStep, RegisteredStep, CurrentStep, FlightStep
       DEF ReplyInv, IInv, FlightInv
  <1>2. ASSUME NEW r \in Readers, Inside(r) PROVE Kept'
    <2>1. UNCHANGED historyVars
      BY <1>2 DEF Inside
    <2>2. CASE Load(r) \/ PassQuery(r)
      BY <2>1, <2>2, QueryKeeps
    <2>3. CASE StoreSet(r) \/ StoreSetFail(r) \/ RegisterKey(r) \/ RegisterKeyFail(r)
      BY <2>1, <2>3, FillKeeps
    <2>4. CASE CacheMiss(r) \/ CacheUnavailable(r) \/ LoadFail(r) \/ PassReply(r)
      BY <2>1, <2>4, MissKeeps
    <2>. QED
      BY <1>2, <2>2, <2>3, <2>4 DEF Inside
  <1>3. ASSUME UNCHANGED replyVars PROVE Kept'
    <2>1. UNCHANGED <<since, flushed, atLeast, excused, db, redis, flight, rpc, rkey, rval,
                      wns, clean, dirty>>
      BY <1>3 DEF replyVars, historyVars, vars
    <2>. QED
      BY <2>1 DEF ReplyInv, Kept, HistoryTypeOK, Covered, CleanCovers, InDoubt, LateFill, InOrder
  <1>4. ASSUME NEW w \in Writers, Flushing(w) PROVE Kept'
    <2>1. UNCHANGED historyVars
      BY <1>4 DEF Flushing
    <2>. QED
      BY <1>4, <2>1, FlushingKeeps
  <1>5. ASSUME NEW r \in Readers,
               (\E k \in Keys : Lead(r, k) \/ Join(r, k)) \/ Hit(r) \/ Answer(r)
        PROVE  Kept'
    BY <1>5, StartKeeps, HitKeeps, AnswerKeeps
  <1>6. ASSUME NEW w \in Writers, (\E n \in Namespaces : Start(w, n)) \/ Flushed(w)
        PROVE  Kept'
    BY <1>6, WriteKeeps, FlushedKeeps
  <1>7. ASSUME NEW k \in Keys, Expire(k), UNCHANGED historyVars
        PROVE  Kept'
    BY <1>7, FlushingKeeps
  <1>8. Kept'
    <2>1. CASE ReplyNext
      <3>1. CASE \E r \in Readers :
                    (\E k \in Keys : Lead(r, k) \/ Join(r, k)) \/ Hit(r) \/ Answer(r) \/ Inside(r)
        BY <1>2, <1>5, <3>1
      <3>2. CASE \E w \in Writers :
                    (\E n \in Namespaces : Start(w, n)) \/ Flushed(w) \/ Flushing(w)
        BY <1>4, <1>6, <3>2
      <3>3. CASE \E k \in Keys : Expire(k) /\ UNCHANGED historyVars
        BY <1>7, <3>3
      <3>. QED
        BY <2>1, <3>1, <3>2, <3>3 DEF ReplyNext
    <2>. QED
      BY <1>3, <2>1
  <1>. QED
    BY <1>1, <1>8 DEF ReplyInv

\* The history begins with nothing flushed and nothing promised.
LEMMA ReplyInvInit == ReplyInit => ReplyInv
  <1>. SUFFICES ASSUME ReplyInit PROVE ReplyInv
    OBVIOUS
  <1>1. Init
    BY DEF ReplyInit
  <1>2. IInv /\ FlightInv
    <2>1. IInv
      BY <1>1, IInvInit
    <2>2. Coalesced /\ FlightHasLeader
      BY <1>1 DEF Init, Coalesced, FlightHasLeader, Idle, Waiting, Looking, Loading, Setting,
                  Registering, Returning
    <2>. QED
      BY <2>1, <2>2 DEF IInv, FlightInv
  <1>3. Kept
    BY <1>1, <1>2, KeyNSType, MaxWritesNat
       DEF ReplyInit, Init, IInv, TypeOK, Kept, HistoryTypeOK, Covered, CleanCovers, InOrder,
           Versions, Waiting, Idle
  <1>. QED
    BY <1>2, <1>3 DEF ReplyInv

\* A read that begins after a flush has ended (InvalidateNamespace, behind POST
\* .../invalidate and behind writes) answers with nothing from before the flush, but
\* for the named causes.
THEOREM FlushesAreSeen == ReplySpec => []ReplyCovers
  <1>1. ReplyInv => ReplyCovers
    BY DEF ReplyInv, IInv, Kept, HistoryTypeOK, Covered, ReplyCovers, ReplyTypeOK
  <1>. QED
    BY <1>1, ReplyInvInit, ReplyStep, PTL DEF ReplySpec

-----------------------------------------------------------------------------
(* Cache policies: the inductive invariant. *)

\* A request that is about to write holds the row as it is, unless a write has come
\* between (it is then in stale) or the connection is gone.
RowRead ==
    \A p \in Admins :
        req[p].at = "upsert" /\ p \notin stale /\ exists[req[p].conn] =>
            req[p].row = policies[req[p].conn]

\* The versions of the rows have not fallen since the refresh began.
FloorHolds ==
    refresh.at # "idle" =>
        \A c \in Sources : exists[c] => policies[c].version >= refresh.floor[c]

\* A connection that the refresh has read, or could not read.
Dealt(c) ==
    refresh.next[c].version >= refresh.floor[c] \/ c \in refresh.skipped

\* What the fallback has still to read: the list of the connection's tenant, then the
\* connection's policy.
Accounted ==
    \A c \in Sources : exists[c] =>
        /\ refresh.at = "conns" =>
              \/ TenantOf[c] \in refresh.tenants
              \/ c \in refresh.conns \/ c \in refresh.skipped
        /\ refresh.at = "policies" => c \in refresh.conns \/ Dealt(c)
        /\ refresh.at = "install" => Dealt(c)

PolicyInv == AckedSurvives /\ RowRead /\ FloorHolds /\ Accounted

-----------------------------------------------------------------------------
(* Cache policies: types. *)

\* The values that stand for "no row", "no request" and "no refresh" have their types.
LEMMA NothingTypes == NoPolicy \in Policy /\ NoRequest \in Request /\ NoRefresh \in Refresh
  <1>1. NoPolicy.vals \in Values /\ NoPolicy \in Policy
    BY TTLTypes DEF NoPolicy, Policy, Values
  <1>2. (CHOOSE c \in Sources : TRUE) \in Sources
    BY SourcesNonempty
  <1>3. NoRequest \in Request
    BY <1>1, <1>2 DEF NoRequest, Request, Fields
  <1>4. NoRefresh \in Refresh
    BY <1>1 DEF NoRefresh, Refresh
  <1>. QED
    BY <1>1, <1>3, <1>4

\* Every field of a row is a number or unset, with one field changed too.
LEMMA ValuesChanged ==
    ASSUME NEW vals \in Values, NEW f \in Fields, NEW v \in Int \cup {Unset}
    PROVE  [vals EXCEPT ![f] = v] \in Values
  BY DEF Values

\* An update reads the row of its connection and writes its values and the next version.
LEMMA UpsertIs ==
    ASSUME PolicyTypeOK, NEW p \in Admins, UpsertCachePolicy(p)
    PROVE  /\ req[p] \in Request
           /\ NewValues(p) \in Values
           /\ policies' = [policies EXCEPT ![req[p].conn] =
                              [vals |-> NewValues(p),
                               version |-> policies[req[p].conn].version + 1]]
           /\ policies' \in [Sources -> Policy]
           /\ acked' \in [Sources -> Values]
           /\ acked'[req[p].conn] = [acked[req[p].conn] EXCEPT ![req[p].field] = req[p].value]
           /\ \A d \in Sources \ {req[p].conn} : acked'[d] = acked[d]
  <1>1. req[p] \in Request
    BY DEF PolicyTypeOK
  <1>2. req[p].conn \in Sources /\ req[p].field \in Fields /\ req[p].value \in Int \cup {Unset}
        /\ req[p].row.vals \in Values
    BY <1>1 DEF Request, Policy
  <1>3. NewValues(p) \in Values
    BY <1>2, ValuesChanged DEF NewValues
  <1>4. policies' = [policies EXCEPT ![req[p].conn] =
                        [vals |-> NewValues(p), version |-> policies[req[p].conn].version + 1]]
    BY DEF UpsertCachePolicy
  <1>5. policies[req[p].conn].version + 1 \in Nat
    BY <1>2 DEF PolicyTypeOK, Policy
  <1>6. [vals |-> NewValues(p), version |-> policies[req[p].conn].version + 1] \in Policy
    BY <1>3, <1>5 DEF Policy
  <1>7. policies' \in [Sources -> Policy]
    BY <1>4, <1>6 DEF PolicyTypeOK
  <1>8. acked' = [acked EXCEPT ![req[p].conn] =
                     [acked[req[p].conn] EXCEPT ![req[p].field] = req[p].value]]
    BY DEF UpsertCachePolicy
  <1>9. [acked[req[p].conn] EXCEPT ![req[p].field] = req[p].value] \in Values
    BY <1>2, ValuesChanged DEF PolicyTypeOK
  <1>. QED
    BY <1>1, <1>2, <1>3, <1>4, <1>7, <1>8, <1>9 DEF PolicyTypeOK

\* A step of an administrator keeps the types.
LEMMA AdminTypeStep ==
    ASSUME PolicyTypeOK, AdminStep
    PROVE  PolicyTypeOK'
  <1>1. ASSUME NEW p \in Admins, NEW c \in Sources, NEW f \in Fields,
               NEW v \in Int \cup {Unset}, Begin(p, c, f, v)
        PROVE  PolicyTypeOK'
    <2>1. [NoRequest EXCEPT !.at = "get", !.conn = c, !.field = f, !.value = v] \in Request
      BY NothingTypes DEF Request
    <2>2. updates' \in 0..MaxUpdates
      BY <1>1, BoundsNat DEF Begin, PolicyTypeOK
    <2>. QED
      BY <1>1, <2>1, <2>2 DEF Begin, PolicyTypeOK, engineVars
  <1>2. ASSUME NEW p \in Admins, GetCachePolicy(p) PROVE PolicyTypeOK'
    <2>1. req[p] \in Request /\ policies[req[p].conn] \in Policy
      BY DEF PolicyTypeOK, Request
    <2>2. [req[p] EXCEPT !.at = "upsert", !.row = policies[req[p].conn]] \in Request
      BY <2>1 DEF Request
    <2>3. req' = [req EXCEPT ![p] = [req[p] EXCEPT !.at = "upsert", !.row = policies[req[p].conn]]]
      BY <1>2, <2>1 DEF GetCachePolicy, PolicyTypeOK, Request
    <2>. QED
      BY <1>2, <2>2, <2>3 DEF GetCachePolicy, PolicyTypeOK, engineVars
  <1>3. ASSUME NEW p \in Admins, UpsertCachePolicy(p) PROVE PolicyTypeOK'
    <2>1. req[p] \in Request /\ policies' \in [Sources -> Policy] /\ acked' \in [Sources -> Values]
      BY <1>3, UpsertIs
    <2>2. req' \in [Admins -> Request]
      BY <1>3, NothingTypes DEF UpsertCachePolicy, End, PolicyTypeOK
    <2>3. stale' \subseteq Admins
      BY <1>3 DEF UpsertCachePolicy, PolicyTypeOK
    <2>4. clobbered' \subseteq Sources \X Fields
      <3>1. req[p].conn \in Sources
        BY <2>1 DEF Request
      <3>. QED
        BY <1>3, <3>1 DEF UpsertCachePolicy, PolicyTypeOK
    <2>. QED
      BY <1>3, <2>1, <2>2, <2>3, <2>4 DEF UpsertCachePolicy, PolicyTypeOK, engineVars
  <1>4. ASSUME NEW p \in Admins, RequestFails(p) PROVE PolicyTypeOK'
    BY <1>4, NothingTypes DEF RequestFails, End, PolicyTypeOK, engineVars
  <1>5. ASSUME NEW c \in Sources, DeleteConnection(c) PROVE PolicyTypeOK'
    <2>1. NoPolicy \in Policy /\ NoPolicy.vals \in Values
      BY NothingTypes DEF Policy
    <2>. QED
      BY <1>5, <2>1 DEF DeleteConnection, PolicyTypeOK, engineVars
  <1>. QED
    BY <1>1, <1>2, <1>3, <1>4, <1>5, TTLTypes
    DEF AdminStep, SetDefaults, SetCollectionPolicy, Fields

\* A step of the engine keeps the types.
LEMMA EngineTypeStep ==
    ASSUME PolicyTypeOK, EngineStep
    PROVE  PolicyTypeOK'
  <1>1. UNCHANGED adminVars
    BY DEF EngineStep, Tick, ListAll, ListTenants, ListConnections, ReadPolicies, Install,
           adminVars
  <1>2. faults' \in 0..MaxFaults
    <2>1. NoFault \/ Fault
      BY DEF EngineStep, Tick, ListAll, ListTenants, ListConnections, ReadPolicies, Install,
             NoFault
    <2>. QED
      BY <2>1, BoundsNat DEF NoFault, Fault, PolicyTypeOK
  <1>3. snapshot' \in [Sources -> Policy]
    BY DEF PolicyTypeOK, EngineStep, Tick, ListAll, ListTenants, ListConnections,
           ReadPolicies, Install, Replaced, Refresh
  <1>4. refresh \in Refresh /\ NoRefresh \in Refresh
    BY NothingTypes DEF PolicyTypeOK
  <1>5. ASSUME Tick PROVE refresh' \in Refresh
    <2>1. [c \in Sources |-> policies[c].version] \in [Sources -> Nat]
      BY DEF PolicyTypeOK, Policy
    <2>. QED
      BY <1>4, <1>5, <2>1 DEF Tick, Refresh
  <1>6. ASSUME ListAll PROVE refresh' \in Refresh
    BY <1>4, <1>6 DEF ListAll, Refresh, PolicyTypeOK
  <1>7. ASSUME ListTenants PROVE refresh' \in Refresh
    BY <1>4, <1>7 DEF ListTenants, Refresh
  <1>8. ASSUME ListConnections PROVE refresh' \in Refresh
    <2>1. \A t : ConnsOf(t) \in SUBSET Sources
      BY DEF ConnsOf
    <2>2. CASE refresh' = [refresh EXCEPT !.at = "policies"]
      BY <1>4, <2>2 DEF Refresh
    <2>3. ASSUME NEW t \in refresh.tenants,
                 refresh' = [refresh EXCEPT !.tenants = @ \ {t}, !.conns = @ \cup ConnsOf(t)]
          PROVE  refresh' \in Refresh
      BY <1>4, <2>1, <2>3 DEF Refresh
    <2>4. ASSUME NEW t \in refresh.tenants,
                 refresh' = [refresh EXCEPT !.tenants = @ \ {t}, !.skipped = @ \cup ConnsOf(t)]
          PROVE  refresh' \in Refresh
      BY <1>4, <2>1, <2>4 DEF Refresh
    <2>. QED
      BY <1>8, <2>2, <2>3, <2>4 DEF ListConnections
  <1>9. ASSUME ReadPolicies PROVE refresh' \in Refresh
    <2>1. CASE refresh' = [refresh EXCEPT !.at = "install"]
      BY <1>4, <2>1 DEF Refresh
    <2>2. ASSUME NEW c \in refresh.conns,
                 refresh' = [refresh EXCEPT !.conns = @ \ {c}, !.next[c] = policies[c]]
          PROVE  refresh' \in Refresh
      <3>1. policies[c] \in Policy /\ c \in Sources
        BY <1>4 DEF Refresh, PolicyTypeOK
      <3>2. [refresh.next EXCEPT ![c] = policies[c]] \in [Sources -> Policy]
        BY <1>4, <3>1 DEF Refresh
      <3>3. refresh' = [refresh EXCEPT !.conns = refresh.conns \ {c},
                                       !.next = [refresh.next EXCEPT ![c] = policies[c]]]
        BY <1>4, <2>2 DEF Refresh
      <3>. QED
        BY <1>4, <3>2, <3>3 DEF Refresh
    <2>3. ASSUME NEW c \in refresh.conns,
                 refresh' = [refresh EXCEPT !.conns = @ \ {c}, !.skipped = @ \cup {c}]
          PROVE  refresh' \in Refresh
      BY <1>4, <2>3 DEF Refresh
    <2>. QED
      BY <1>9, <2>1, <2>2, <2>3 DEF ReadPolicies
  <1>10. ASSUME Install PROVE refresh' \in Refresh
    BY <1>4, <1>10 DEF Install
  <1>11. refresh' \in Refresh
    BY <1>5, <1>6, <1>7, <1>8, <1>9, <1>10 DEF EngineStep
  <1>. QED
    BY <1>1, <1>2, <1>3, <1>11 DEF PolicyTypeOK, adminVars

-----------------------------------------------------------------------------
(* Cache policies: updates. *)

\* What AckedSurvives says of one connection.
StoredAt(c) ==
    IF exists[c]
    THEN \A f \in Fields : policies[c].vals[f] = acked[c][f] \/ <<c, f>> \in clobbered
    ELSE policies[c] = NoPolicy

\* AckedSurvives is StoredAt for every connection.
LEMMA AckedIsStored == AckedSurvives <=> PolicyTypeOK /\ \A c \in Sources : StoredAt(c)
  BY DEF AckedSurvives, StoredAt

\* A step of an administrator keeps what is stored equal to what was acknowledged, and
\* rows that requests have read equal to what is stored, but for overlapping updates.
LEMMA AdminStepKeeps ==
    ASSUME PolicyTypeOK, \A c \in Sources : StoredAt(c), RowRead, AdminStep
    PROVE  (\A c \in Sources : StoredAt(c))' /\ RowRead'
  <1>1. ASSUME NEW p \in Admins, NEW c \in Sources, NEW f, NEW v, Begin(p, c, f, v)
        PROVE  (\A d \in Sources : StoredAt(d))' /\ RowRead'
    <2>1. req'[p].at = "get" /\ \A q \in Admins \ {p} : req'[q] = req[q]
      BY <1>1, NothingTypes DEF Begin, PolicyTypeOK, Request
    <2>2. RowRead'
      BY <1>1, <2>1 DEF RowRead, Begin
    <2>3. \A d \in Sources : StoredAt(d)'
      BY <1>1 DEF StoredAt, Begin
    <2>. QED
      BY <2>2, <2>3
  <1>2. ASSUME NEW p \in Admins, GetCachePolicy(p)
        PROVE  (\A d \in Sources : StoredAt(d))' /\ RowRead'
    <2>1. /\ req'[p].row = policies[req[p].conn] /\ req'[p].conn = req[p].conn
          /\ \A q \in Admins \ {p} : req'[q] = req[q]
      BY <1>2 DEF GetCachePolicy, PolicyTypeOK, Request
    <2>2. policies' = policies /\ exists' = exists /\ stale' = stale
      BY <1>2 DEF GetCachePolicy
    <2>3. RowRead'
      <3>1. \A q \in Admins \ {p} :
               req'[q].at = "upsert" /\ q \notin stale' /\ exists'[req'[q].conn] =>
                   req'[q].row = policies'[req'[q].conn]
        BY <2>1, <2>2 DEF RowRead
      <3>2. req'[p].row = policies'[req'[p].conn]
        BY <2>1, <2>2
      <3>. QED
        BY <3>1, <3>2 DEF RowRead
    <2>4. \A d \in Sources : StoredAt(d)'
      BY <1>2 DEF StoredAt, GetCachePolicy
    <2>. QED
      BY <2>3, <2>4
  <1>3. ASSUME NEW p \in Admins, UpsertCachePolicy(p)
        PROVE  (\A d \in Sources : StoredAt(d))' /\ RowRead'
    <2>0. PICK c \in Sources, f \in Fields : c = req[p].conn /\ f = req[p].field
      BY DEF PolicyTypeOK, Request
    <2>1. /\ req[p] \in Request
          /\ NewValues(p) \in Values
          /\ policies' = [policies EXCEPT ![c] = [vals |-> NewValues(p),
                                                  version |-> policies[c].version + 1]]
          /\ acked'[c] = [acked[c] EXCEPT ![f] = req[p].value]
          /\ \A d \in Sources \ {c} : acked'[d] = acked[d]
      BY <1>3, <2>0, UpsertIs
    <2>2. req[p].row.vals \in Values /\ acked[c] \in Values
      BY <2>1 DEF Request, Policy, PolicyTypeOK
    <2>3. /\ req[p].at = "upsert" /\ exists[c] /\ exists' = exists
          /\ req' = [req EXCEPT ![p] = NoRequest]
          /\ stale' = (stale \cup {q \in Admins : req[q].at = "upsert" /\ req[q].conn = c}) \ {p}
          /\ clobbered' = (clobbered \ {<<c, f>>}) \cup
                          IF p \in stale
                          THEN {<<c, g>> : g \in {h \in Fields : NewValues(p)[h] # acked'[c][h]}}
                          ELSE {}
      BY <1>3, <2>0 DEF UpsertCachePolicy, UpsertAllowed, End
    <2>4. /\ policies'[c].vals = NewValues(p)
          /\ \A d \in Sources \ {c} : policies'[d] = policies[d]
      BY <2>1, <2>2 DEF PolicyTypeOK
    <2>5. NewValues(p) = [req[p].row.vals EXCEPT ![f] = req[p].value]
      BY <2>0 DEF NewValues
    <2>6. NewValues(p)[f] = acked'[c][f]
      BY <2>1, <2>2, <2>5 DEF Values
    <2>7. ASSUME NEW g \in Fields
          PROVE  NewValues(p)[g] = acked'[c][g] \/ <<c, g>> \in clobbered'
      <3>1. CASE g = f
        BY <3>1, <2>6
      <3>2. CASE g # f /\ p \in stale
        BY <3>2, <2>3
      <3>3. CASE g # f /\ p \notin stale
        <4>1. req[p].row = policies[c]
          BY <2>0, <2>3, <3>3 DEF RowRead
        <4>2. NewValues(p)[g] = policies[c].vals[g] /\ acked'[c][g] = acked[c][g]
          BY <2>1, <2>2, <2>5, <3>3, <4>1 DEF Values
        <4>3. policies[c].vals[g] = acked[c][g] \/ <<c, g>> \in clobbered
          BY <2>2, <2>3 DEF StoredAt
        <4>. QED
          BY <2>3, <3>3, <4>2, <4>3
      <3>. QED
        BY <3>1, <3>2, <3>3
    <2>8. StoredAt(c)'
      BY <2>3, <2>4, <2>7 DEF StoredAt
    <2>9. ASSUME NEW d \in Sources \ {c} PROVE StoredAt(d)'
      <3>1. \A g \in Fields : <<d, g>> \in clobbered => <<d, g>> \in clobbered'
        BY <2>3
      <3>2. policies'[d] = policies[d] /\ acked'[d] = acked[d] /\ exists'[d] = exists[d]
        BY <2>1, <2>3, <2>4
      <3>. QED
        BY <3>1, <3>2 DEF StoredAt
    <2>10. RowRead'
      <3>1. SUFFICES ASSUME NEW q \in Admins, req'[q].at = "upsert", q \notin stale',
                            exists'[req'[q].conn]
                     PROVE  req'[q].row = policies'[req'[q].conn]
        BY DEF RowRead
      <3>2. req'[p].at = "idle"
        BY <2>3 DEF NoRequest, PolicyTypeOK
      <3>3. q # p /\ req'[q] = req[q]
        BY <2>3, <3>1, <3>2 DEF PolicyTypeOK
      <3>4. q \notin stale /\ req[q].conn # c
        BY <2>3, <3>1, <3>3
      <3>5. req[q].conn \in Sources
        BY DEF PolicyTypeOK, Request
      <3>. QED
        BY <2>3, <2>4, <3>1, <3>3, <3>4, <3>5 DEF RowRead
    <2>. QED
      BY <2>8, <2>9, <2>10
  <1>4. ASSUME NEW p \in Admins, RequestFails(p)
        PROVE  (\A d \in Sources : StoredAt(d))' /\ RowRead'
    <2>1. req'[p].at = "idle" /\ \A q \in Admins \ {p} : req'[q] = req[q]
      BY <1>4 DEF RequestFails, End, NoRequest, PolicyTypeOK
    <2>2. RowRead'
      BY <1>4, <2>1 DEF RowRead, RequestFails
    <2>3. \A d \in Sources : StoredAt(d)'
      BY <1>4 DEF StoredAt, RequestFails
    <2>. QED
      BY <2>2, <2>3
  <1>5. ASSUME NEW c \in Sources, DeleteConnection(c)
        PROVE  (\A d \in Sources : StoredAt(d))' /\ RowRead'
    <2>1. /\ exists'[c] = FALSE /\ policies'[c] = NoPolicy
          /\ \A d \in Sources \ {c} : /\ exists'[d] = exists[d] /\ policies'[d] = policies[d]
                                    /\ acked'[d] = acked[d]
          /\ clobbered' = clobbered \ ({c} \X Fields)
          /\ req' = req /\ stale' = stale
      BY <1>5 DEF DeleteConnection, PolicyTypeOK
    <2>2. StoredAt(c)'
      BY <2>1 DEF StoredAt
    <2>3. ASSUME NEW d \in Sources \ {c} PROVE StoredAt(d)'
      <3>1. \A g \in Fields : <<d, g>> \in clobbered => <<d, g>> \in clobbered'
        BY <2>1
      <3>. QED
        BY <2>1, <3>1 DEF StoredAt
    <2>4. RowRead'
      <3>1. \A p \in Admins : req[p].conn \in Sources
        BY DEF PolicyTypeOK, Request
      <3>. QED
        BY <2>1, <3>1 DEF RowRead
    <2>. QED
      BY <2>2, <2>3, <2>4
  <1>. QED
    BY <1>1, <1>2, <1>3, <1>4, <1>5 DEF AdminStep, SetDefaults, SetCollectionPolicy

-----------------------------------------------------------------------------
(* Cache policies: the refresh. *)

\* While a connection exists, the version of its policy does not fall; a connection
\* that is gone does not come back.
LEMMA RowsGrow ==
    ASSUME PolicyTypeOK, AdminStep
    PROVE  /\ \A c \in Sources : exists'[c] =>
                 exists[c] /\ policies'[c].version >= policies[c].version
           /\ UNCHANGED engineVars
  <1>. DEFINE Grown == \A c \in Sources : exists'[c] =>
                          exists[c] /\ policies'[c].version >= policies[c].version
  <1>1. \A c \in Sources : policies[c].version \in Nat
    BY DEF PolicyTypeOK, Policy
  <1>2. ASSUME exists' = exists, policies' = policies PROVE Grown
    BY <1>1, <1>2
  <1>3. ASSUME NEW p \in Admins, UpsertCachePolicy(p) PROVE Grown
    <2>1. \A c \in Sources : policies'[c] = policies[c] \/ policies'[c].version = policies[c].version + 1
      <3>1. req[p].conn \in Sources
        BY DEF PolicyTypeOK, Request
      <3>2. policies' = [policies EXCEPT ![req[p].conn] =
                            [vals |-> NewValues(p),
                             version |-> policies[req[p].conn].version + 1]]
        BY <1>3, UpsertIs
      <3>. QED
        BY <3>1, <3>2 DEF PolicyTypeOK
    <2>2. exists' = exists
      BY <1>3 DEF UpsertCachePolicy
    <2>. QED
      BY <1>1, <2>1, <2>2
  <1>4. ASSUME NEW c \in Sources, DeleteConnection(c) PROVE Grown
    <2>1. /\ exists'[c] = FALSE
          /\ \A d \in Sources \ {c} : exists'[d] = exists[d] /\ policies'[d] = policies[d]
      BY <1>4 DEF DeleteConnection, PolicyTypeOK
    <2>. QED
      BY <1>1, <2>1
  <1>5. UNCHANGED engineVars
    BY DEF AdminStep, SetDefaults, SetCollectionPolicy, Begin, GetCachePolicy,
           UpsertCachePolicy, RequestFails, DeleteConnection, engineVars
  <1>. HIDE DEF Grown
  <1>6. Grown
    BY <1>2, <1>3, <1>4 DEF AdminStep, SetDefaults, SetCollectionPolicy, Begin,
       GetCachePolicy, RequestFails
  <1>. QED
    BY <1>5, <1>6 DEF Grown

\* An update or a deletion takes nothing from what the refresh has done.
LEMMA AdminKeepsRefresh ==
    ASSUME PolicyTypeOK, FloorHolds, Accounted, AdminStep
    PROVE  FloorHolds' /\ Accounted'
  <1>1. refresh' = refresh
    BY RowsGrow DEF engineVars
  <1>2. ASSUME NEW c \in Sources, exists'[c]
        PROVE  exists[c] /\ policies'[c].version >= policies[c].version
    BY <1>2, RowsGrow
  <1>3. FloorHolds'
    <2>. SUFFICES ASSUME refresh.at # "idle", NEW c \in Sources, exists'[c]
                  PROVE  policies'[c].version >= refresh.floor[c]
      BY <1>1 DEF FloorHolds
    <2>1. policies[c].version >= refresh.floor[c]
      BY <1>2 DEF FloorHolds
    <2>2. policies[c].version \in Nat /\ refresh.floor[c] \in Nat
      BY DEF PolicyTypeOK, Policy, Refresh
    <2>3. policies'[c].version \in Nat
      BY AdminTypeStep DEF PolicyTypeOK, Policy
    <2>. QED
      BY <1>2, <2>1, <2>2, <2>3
  <1>4. Accounted'
    BY <1>1, <1>2 DEF Accounted, Dealt
  <1>. QED
    BY <1>3, <1>4

\* A step of the refresh keeps the floor, and moves what it deals with from what is
\* still to be read to what has been read or skipped.
LEMMA EngineKeepsRefresh ==
    ASSUME PolicyTypeOK, FloorHolds, Accounted, EngineStep
    PROVE  FloorHolds' /\ Accounted'
  <1>1. exists' = exists /\ policies' = policies
    BY DEF EngineStep, Tick, ListAll, ListTenants, ListConnections, ReadPolicies, Install,
           adminVars
  <1>2. refresh \in Refresh
    BY DEF PolicyTypeOK
  <1>3. \A c \in Sources : policies[c].version \in Nat
    BY DEF PolicyTypeOK, Policy
  <1>4. ASSUME refresh'.at # "idle" => refresh.at # "idle" /\ refresh'.floor = refresh.floor
        PROVE  FloorHolds'
    BY <1>1, <1>4 DEF FloorHolds
  <1>5. CASE Tick
    <2>1. refresh'.at = "list" /\ refresh'.floor = [c \in Sources |-> policies[c].version]
      BY <1>5 DEF Tick, NoRefresh
    <2>2. FloorHolds'
      BY <1>1, <1>3, <2>1 DEF FloorHolds
    <2>. QED
      BY <2>1, <2>2 DEF Accounted
  <1>6. CASE ListAll
    <2>1. refresh.at = "list" /\ refresh'.floor = refresh.floor
      BY <1>2, <1>6 DEF ListAll, Refresh
    <2>2. \/ refresh'.at = "install" /\ refresh'.next = policies
          \/ refresh'.at = "tenants"
      BY <1>2, <1>6 DEF ListAll, Refresh
    <2>3. \A c \in Sources : exists[c] => policies[c].version >= refresh.floor[c]
      BY <2>1 DEF FloorHolds
    <2>. QED
      BY <1>1, <1>4, <2>1, <2>2, <2>3 DEF Accounted, Dealt
  <1>7. CASE ListTenants
    <2>1. ASSUME refresh' = [refresh EXCEPT !.at = "conns", !.tenants = Tenants]
          PROVE  FloorHolds' /\ Accounted'
      <3>1. /\ refresh.at = "tenants" /\ refresh'.floor = refresh.floor
            /\ refresh'.at = "conns" /\ refresh'.tenants = Tenants
        BY <1>2, <1>7, <2>1 DEF ListTenants, Refresh
      <3>. QED
        BY <1>1, <1>4, <3>1, TenantOfType DEF Accounted
    <2>2. ASSUME refresh' = NoRefresh
          PROVE  FloorHolds' /\ Accounted'
      <3>1. refresh'.at = "idle"
        BY <2>2 DEF NoRefresh
      <3>. QED
        BY <1>4, <3>1 DEF Accounted
    <2>. QED
      BY <1>7, <2>1, <2>2 DEF ListTenants
  <1>8. CASE ListConnections
    <2>1. refresh.at = "conns"
      BY <1>8 DEF ListConnections
    <2>2. ASSUME refresh.tenants = {}, refresh' = [refresh EXCEPT !.at = "policies"]
          PROVE  FloorHolds' /\ Accounted'
      <3>1. /\ refresh'.at = "policies" /\ refresh'.floor = refresh.floor
            /\ refresh'.conns = refresh.conns /\ refresh'.skipped = refresh.skipped
        BY <1>2, <2>2 DEF Refresh
      <3>. QED
        BY <1>1, <1>4, <2>1, <2>2, <3>1 DEF Accounted, Dealt
    <2>3. ASSUME NEW t \in refresh.tenants,
                 refresh' = [refresh EXCEPT !.tenants = @ \ {t}, !.conns = @ \cup ConnsOf(t)]
          PROVE  FloorHolds' /\ Accounted'
      <3>1. /\ refresh'.at = "conns" /\ refresh'.floor = refresh.floor
            /\ refresh'.tenants = refresh.tenants \ {t}
            /\ refresh'.conns = refresh.conns \cup ConnsOf(t)
            /\ refresh'.skipped = refresh.skipped
        BY <1>2, <2>1, <2>3 DEF Refresh
      <3>. QED
        BY <1>1, <1>4, <2>1, <3>1 DEF Accounted, ConnsOf
    <2>4. ASSUME NEW t \in refresh.tenants,
                 refresh' = [refresh EXCEPT !.tenants = @ \ {t}, !.skipped = @ \cup ConnsOf(t)]
          PROVE  FloorHolds' /\ Accounted'
      <3>1. /\ refresh'.at = "conns" /\ refresh'.floor = refresh.floor
            /\ refresh'.tenants = refresh.tenants \ {t}
            /\ refresh'.conns = refresh.conns
            /\ refresh'.skipped = refresh.skipped \cup ConnsOf(t)
        BY <1>2, <2>1, <2>4 DEF Refresh
      <3>. QED
        BY <1>1, <1>4, <2>1, <3>1 DEF Accounted, ConnsOf
    <2>. QED
      BY <1>8, <2>2, <2>3, <2>4 DEF ListConnections
  <1>9. CASE ReadPolicies
    <2>1. refresh.at = "policies"
      BY <1>9 DEF ReadPolicies
    <2>2. ASSUME refresh.conns = {}, refresh' = [refresh EXCEPT !.at = "install"]
          PROVE  FloorHolds' /\ Accounted'
      <3>1. /\ refresh'.at = "install" /\ refresh'.floor = refresh.floor
            /\ refresh'.next = refresh.next /\ refresh'.skipped = refresh.skipped
        BY <1>2, <2>2 DEF Refresh
      <3>. QED
        BY <1>1, <1>4, <2>1, <2>2, <3>1 DEF Accounted, Dealt
    <2>3. ASSUME NEW c \in refresh.conns,
                 refresh' = [refresh EXCEPT !.conns = @ \ {c}, !.next[c] = policies[c]]
          PROVE  FloorHolds' /\ Accounted'
      <3>1. c \in Sources
        BY <1>2 DEF Refresh
      <3>2. /\ refresh'.at = "policies" /\ refresh'.floor = refresh.floor
            /\ refresh'.conns = refresh.conns \ {c} /\ refresh'.skipped = refresh.skipped
            /\ refresh'.next = [refresh.next EXCEPT ![c] = policies[c]]
        BY <1>2, <2>1, <2>3 DEF Refresh
      <3>3. /\ refresh'.next[c] = policies[c]
            /\ \A d \in Sources \ {c} : refresh'.next[d] = refresh.next[d]
        BY <1>2, <3>1, <3>2 DEF Refresh
      <3>4. exists[c] => policies[c].version >= refresh.floor[c]
        BY <2>1, <3>1 DEF FloorHolds
      <3>. QED
        BY <1>1, <1>4, <2>1, <3>1, <3>2, <3>3, <3>4 DEF Accounted, Dealt
    <2>4. ASSUME NEW c \in refresh.conns,
                 refresh' = [refresh EXCEPT !.conns = @ \ {c}, !.skipped = @ \cup {c}]
          PROVE  FloorHolds' /\ Accounted'
      <3>1. /\ refresh'.at = "policies" /\ refresh'.floor = refresh.floor
            /\ refresh'.conns = refresh.conns \ {c} /\ refresh'.next = refresh.next
            /\ refresh'.skipped = refresh.skipped \cup {c}
        BY <1>2, <2>1, <2>4 DEF Refresh
      <3>. QED
        BY <1>1, <1>4, <2>1, <3>1 DEF Accounted, Dealt
    <2>. QED
      BY <1>9, <2>2, <2>3, <2>4 DEF ReadPolicies
  <1>10. CASE Install
    <2>1. refresh'.at = "idle"
      BY <1>10 DEF Install, NoRefresh
    <2>. QED
      BY <1>4, <2>1 DEF Accounted
  <1>. QED
    BY <1>5, <1>6, <1>7, <1>8, <1>9, <1>10 DEF EngineStep

-----------------------------------------------------------------------------
(* Cache policies: the theorems. *)

\* At the start nothing has been updated and no refresh is under way.
LEMMA PolicyInvInit == PolicyInit => PolicyInv
  <1>. SUFFICES ASSUME PolicyInit PROVE PolicyInv
    OBVIOUS
  <1>1. NoPolicy.vals \in Values
    BY NothingTypes DEF Policy
  <1>2. PolicyTypeOK
    BY <1>1, NothingTypes, BoundsNat DEF PolicyInit, PolicyTypeOK
  <1>3. \A c \in Sources : StoredAt(c)
    BY DEF PolicyInit, StoredAt
  <1>4. RowRead
    BY DEF PolicyInit, RowRead, NoRequest
  <1>5. FloorHolds /\ Accounted
    BY DEF PolicyInit, NoRefresh, FloorHolds, Accounted
  <1>. QED
    BY <1>2, <1>3, <1>4, <1>5, AckedIsStored DEF PolicyInv

\* Every step keeps the invariant.
LEMMA PolicyInvStep == PolicyInv /\ [PolicyNext]_policyVars => PolicyInv'
  <1>. SUFFICES ASSUME PolicyInv, [PolicyNext]_policyVars PROVE PolicyInv'
    OBVIOUS
  <1>1. PolicyTypeOK /\ (\A c \in Sources : StoredAt(c)) /\ RowRead /\ FloorHolds /\ Accounted
    BY AckedIsStored DEF PolicyInv
  <1>2. ASSUME PolicyTypeOK', (\A c \in Sources : StoredAt(c))', RowRead', FloorHolds', Accounted'
        PROVE  PolicyInv'
    BY <1>2 DEF PolicyInv, AckedSurvives, StoredAt
  <1>3. CASE AdminStep
    BY <1>1, <1>2, <1>3, AdminTypeStep, AdminStepKeeps, AdminKeepsRefresh
  <1>4. CASE EngineStep
    <2>1. UNCHANGED adminVars
      BY <1>4 DEF EngineStep, Tick, ListAll, ListTenants, ListConnections, ReadPolicies,
                  Install, adminVars
    <2>2. (\A c \in Sources : StoredAt(c))' /\ RowRead'
      BY <1>1, <2>1 DEF StoredAt, RowRead, adminVars
    <2>. QED
      BY <1>1, <1>2, <1>4, <2>2, EngineTypeStep, EngineKeepsRefresh
  <1>5. CASE UNCHANGED policyVars
    <2>1. (\A c \in Sources : StoredAt(c))' /\ RowRead'
      BY <1>1, <1>5 DEF StoredAt, RowRead, policyVars
    <2>2. FloorHolds' /\ Accounted'
      BY <1>1, <1>5 DEF FloorHolds, Accounted, Dealt, policyVars
    <2>3. PolicyTypeOK'
      BY <1>1, <1>5 DEF PolicyTypeOK, policyVars
    <2>. QED
      BY <1>2, <2>1, <2>2, <2>3
  <1>. QED
    BY <1>3, <1>4, <1>5 DEF PolicyNext

\* The inductive invariant holds in every state.
LEMMA PolicyInvariance == PolicySpec => []PolicyInv
  <1>. QED
    BY PolicyInvInit, PolicyInvStep, PTL DEF PolicySpec

\* SetDefaults and SetCollectionPolicy: what an administrator was told is stored stays
\* until it is changed, unless an update that had read the row before it writes the old
\* value back; and no policy outlives its connection.
THEOREM UpdatesSurvive == PolicySpec => []AckedSurvives
  <1>1. PolicyInv => AckedSurvives
    BY DEF PolicyInv
  <1>. QED
    BY <1>1, PolicyInvariance, PTL

\* A refresh that replaces the snapshot never goes back behind the rows as they were
\* when it began, whichever of its store calls fail and whatever administrators do
\* meanwhile, but for connections that it could not read.
THEOREM RefreshNotOlder == PolicySpec => SnapshotFresh
  <1>. DEFINE A == refresh.at # "idle" /\ refresh'.at = "idle" =>
          \/ refresh.at = "tenants" /\ snapshot' = snapshot
          \/ \A c \in Sources : exists[c] =>
                snapshot'[c].version >= refresh.floor[c] \/ c \in refresh.skipped
  <1>1. ASSUME PolicyInv, [PolicyNext]_policyVars PROVE [A]_policyVars
    <2>. SUFFICES ASSUME PolicyNext, refresh.at # "idle", refresh'.at = "idle"
                  PROVE  A
      BY <1>1
    <2>1. PolicyTypeOK /\ Accounted
      BY <1>1, AckedIsStored DEF PolicyInv
    <2>2. refresh \in Refresh
      BY <2>1 DEF PolicyTypeOK
    <2>3. EngineStep
      BY <2>1, RowsGrow DEF PolicyNext, engineVars
    <2>4. CASE ListTenants
      BY <2>4 DEF ListTenants
    <2>5. CASE Install
      BY <2>1, <2>5 DEF Install, Replaced, Accounted, Dealt
    <2>6. ~ (Tick \/ ListAll \/ ListConnections \/ ReadPolicies)
      BY <2>2 DEF Tick, ListAll, ListConnections, ReadPolicies, NoRefresh, Refresh
    <2>. QED
      BY <2>3, <2>4, <2>5, <2>6 DEF EngineStep
  <1>. QED
    BY <1>1, PolicyInvariance, PTL DEF PolicySpec, SnapshotFresh

-----------------------------------------------------------------------------
(* Cache policies: the TTL. *)

\* Doubling.  A power of two is the number of subsets of an interval, and a set with
\* one element more has twice as many subsets: those without it, and those with it.
LEMMA PowersOfTwo ==
    ASSUME NEW n \in Nat
    PROVE  2^n \in Nat \ {0} /\ 2^(n + 1) = 2 * 2^n
  <1>. DEFINE S == 1..n
  <1>. DEFINE T == 1..(n + 1)
  <1>. DEFINE Added == {X \cup {n + 1} : X \in SUBSET S}
  <1>1. /\ IsFiniteSet(S) /\ Cardinality(S) = n
        /\ IsFiniteSet(T) /\ Cardinality(T) = n + 1
    <2>1. Cardinality(S) = IF 1 > n THEN 0 ELSE n - 1 + 1
      BY FS_Interval
    <2>2. Cardinality(T) = IF 1 > n + 1 THEN 0 ELSE (n + 1) - 1 + 1
      BY FS_Interval
    <2>. QED
      BY <2>1, <2>2, FS_Interval
  <1>2. T = S \cup {n + 1} /\ n + 1 \notin S
    OBVIOUS
  <1>. HIDE DEF S, T
  <1>3. /\ IsFiniteSet(SUBSET S) /\ Cardinality(SUBSET S) = 2^n
        /\ IsFiniteSet(SUBSET T) /\ Cardinality(SUBSET T) = 2^(n + 1)
    BY <1>1, FS_SUBSET
  <1>4. 2^n \in Nat \ {0}
    <2>1. SUBSET S # {}
      OBVIOUS
    <2>2. Cardinality(SUBSET S) \in Nat /\ Cardinality(SUBSET S) # 0
      BY <1>3, <2>1, FS_CardinalityType, FS_EmptySet
    <2>. QED
      BY <1>3, <2>2
  <1>5. SUBSET T = (SUBSET S) \cup Added /\ (SUBSET S) \cap Added = {}
    <2>1. ASSUME NEW Y \in SUBSET T, n + 1 \in Y PROVE Y \in Added
      <3>1. Y = (Y \ {n + 1}) \cup {n + 1} /\ Y \ {n + 1} \in SUBSET S
        BY <1>2, <2>1
      <3>. QED
        BY <3>1
    <2>2. ASSUME NEW Y \in Added PROVE n + 1 \in Y /\ Y \in SUBSET T
      BY <1>2, <2>2
    <2>3. \A Y \in SUBSET T : n + 1 \notin Y => Y \in SUBSET S
      BY <1>2
    <2>4. \A Y \in SUBSET S : Y \in SUBSET T /\ n + 1 \notin Y
      BY <1>2
    <2>. HIDE DEF Added
    <2>. QED
      BY <2>1, <2>2, <2>3, <2>4
  <1>6. IsFiniteSet(Added) /\ Cardinality(Added) = 2^n
    <2>. DEFINE f == [X \in SUBSET S |-> X \cup {n + 1}]
    <2>1. f \in [SUBSET S -> Added]
      OBVIOUS
    <2>2. ASSUME NEW X \in SUBSET S, NEW Y \in SUBSET S, f[X] = f[Y] PROVE X = Y
      BY <1>2, <2>2
    <2>3. \A Y \in Added : \E X \in SUBSET S : f[X] = Y
      OBVIOUS
    <2>. HIDE DEF f, Added
    <2>4. f \in Bijection(SUBSET S, Added)
      BY <2>1, <2>2, <2>3 DEF Bijection, Injection, Surjection, IsInjective
    <2>5. ExistsBijection(SUBSET S, Added)
      BY <2>4 DEF ExistsBijection
    <2>. QED
      BY <1>3, <2>5, FS_Bijection
  <1>. HIDE DEF Added
  <1>7. Cardinality(SUBSET T) = 2^n + 2^n - Cardinality({})
    BY <1>3, <1>5, <1>6, FS_Union
  <1>. QED
    BY <1>3, <1>4, <1>7, FS_EmptySet

\* A number below the modulus is its own remainder.
LEMMA OwnRemainder ==
    ASSUME NEW x \in Int, NEW m \in Int, 0 =< x, x < m
    PROVE  x % m = x
  BY Z3

\* A positive number of seconds that fits a time.Duration is a positive duration.
LEMMA DurationPositive ==
    ASSUME NEW sec \in Nat \ {0}, sec * Second < 2^(Width - 1)
    PROVE  Duration(sec) > 0
  <1>. DEFINE half == 2^(Width - 1)
  <1>. DEFINE ns == sec * Second
  <1>1. Width - 1 \in Nat /\ (Width - 1) + 1 = Width
    BY DurationType
  <1>2. half \in Nat \ {0} /\ 2^Width = 2 * half
    BY <1>1, PowersOfTwo
  <1>3. ns \in Nat \ {0}
    BY DurationType
  <1>. HIDE DEF half, ns
  <1>4. ns < half
    BY DEF half, ns
  <1>5. (ns + half) % (2 * half) = ns + half
    BY <1>2, <1>3, <1>4, OwnRemainder
  <1>6. Duration(sec) = ((ns + half) % (2 * half)) - half
    BY <1>2 DEF Duration, half, ns
  <1>. QED
    BY <1>2, <1>3, <1>5, <1>6

\* Resolve never asks for less than a second.
LEMMA SecondsPositive ==
    ASSUME NEW vals \in Values, NEW ns \in Collections
    PROVE  Seconds(vals, ns) \in Nat \ {0}
  <1>1. vals[ns] \in Int \cup {Unset} /\ vals[Default] \in Int \cup {Unset}
    BY DEF Values, Fields
  <1>2. \A v \in Int \cup {Unset} : Positive(v) => v \in Nat \ {0}
    BY DEF Positive
  <1>. QED
    BY <1>1, <1>2, TTLTypes DEF Seconds

\* Engine.Resolve gives a positive TTL, whatever values administrators wrote, unless the
\* seconds do not fit a time.Duration.
THEOREM TTLsPositive == PolicySpec => []TTLPositive
  <1>1. ASSUME PolicyInv PROVE TTLPositive
    <2>. SUFFICES ASSUME NEW c \in Sources, NEW ns \in Collections,
                         ~ (Seconds(snapshot[c].vals, ns) * Second >= 2^(Width - 1))
                  PROVE  Resolve(c, ns) > 0
      BY DEF TTLPositive
    <2>. DEFINE sec == Seconds(snapshot[c].vals, ns)
    <2>1. snapshot[c].vals \in Values
      BY <1>1, AckedIsStored DEF PolicyInv, PolicyTypeOK, Policy
    <2>2. sec \in Nat \ {0}
      BY <2>1, SecondsPositive
    <2>3. 2^(Width - 1) \in Nat
      <3>1. Width - 1 \in Nat
        BY DurationType
      <3>. QED
        BY <3>1, PowersOfTwo
    <2>4. sec * Second \in Nat
      BY <2>2, DurationType
    <2>. HIDE DEF sec
    <2>5. sec * Second < 2^(Width - 1)
      BY <2>3, <2>4 DEF sec
    <2>. QED
      BY <2>2, <2>5, DurationPositive DEF Resolve, sec
  <1>. QED
    BY <1>1, PolicyInvariance, PTL

-----------------------------------------------------------------------------
(* Sums over finite sets.  Induction is by the smallest counterexample: a  *)
(* set of finite sets that is not empty has a member none of whose subsets *)
(* is in it.                                                               *)

\* The smallest counterexample among the subsets of a finite set.
LEMMA Smallest ==
    ASSUME NEW S, IsFiniteSet(S), NEW Bad \in SUBSET SUBSET S, Bad # {}
    PROVE  \E T \in Bad : \A U \in SUBSET T : U # T => U \notin Bad
  <1>1. IsWellFoundedOn(StrictSubsetOrdering(S), SUBSET S)
    BY FS_StrictSubsetOrderingWellFounded, FS_FiniteSubsetsOfFinite
  <1>2. PICK T \in Bad : \A U \in Bad : ~ (<<U, T>> \in StrictSubsetOrdering(S))
    BY <1>1, WFMin
  <1>3. ASSUME NEW U \in SUBSET T, U # T PROVE U \notin Bad
    <2>1. <<U, T>> \in StrictSubsetOrdering(S)
      BY <1>3 DEF StrictSubsetOrdering
    <2>. QED
      BY <1>2, <2>1
  <1>. QED
    BY <1>3

\* The sum of f over S, as MapThenSumSet computes it.
SumOf(f, S) == MapThenSumSet(LAMBDA i : f[i], S)

\* The element that MapThenSumSet takes out of a set.
Taken(s) == CHOOSE x \in s : TRUE

\* g is the function that MapThenSumSet defines by recursion on the subsets of T.
Sums(g, T, f) ==
    g = [s \in SUBSET T |-> IF s = {} THEN 0 ELSE f[Taken(s)] + g[s \ {Taken(s)}]]

\* What is taken out of a set is an element of it.
LEMMA TakenIn == \A s : s # {} => Taken(s) \in s
  BY DEF Taken

\* How such a function computes.
LEMMA SumsAt ==
    ASSUME NEW T, NEW f, NEW g, Sums(g, T, f), NEW s \in SUBSET T
    PROVE  g[s] = IF s = {} THEN 0 ELSE f[Taken(s)] + g[s \ {Taken(s)}]
  <1>. DEFINE h == [u \in SUBSET T |-> IF u = {} THEN 0 ELSE f[Taken(u)] + g[u \ {Taken(u)}]]
  <1>1. g = h
    BY DEF Sums
  <1>2. h[s] = IF s = {} THEN 0 ELSE f[Taken(s)] + g[s \ {Taken(s)}]
    OBVIOUS
  <1>. HIDE DEF h
  <1>. QED
    BY <1>1, <1>2

\* Two such functions agree where both are defined.
LEMMA SumsAgree ==
    ASSUME NEW S, IsFiniteSet(S), NEW T \in SUBSET S, NEW f, NEW g, NEW h,
           Sums(g, S, f), Sums(h, T, f)
    PROVE  \A s \in SUBSET T : g[s] = h[s]
  <1>. DEFINE Bad == {s \in SUBSET T : g[s] # h[s]}
  <1>. SUFFICES ASSUME Bad # {} PROVE FALSE
    OBVIOUS
  <1>1. IsFiniteSet(T)
    BY FS_Subset
  <1>2. PICK s \in Bad : \A u \in SUBSET s : u # s => u \notin Bad
    <2>1. Bad \in SUBSET SUBSET T
      OBVIOUS
    <2>. HIDE DEF Bad
    <2>. QED
      BY <1>1, <2>1, Smallest
  <1>3. s \in SUBSET T /\ s \in SUBSET S /\ g[s] # h[s]
    OBVIOUS
  <1>4. /\ g[s] = IF s = {} THEN 0 ELSE f[Taken(s)] + g[s \ {Taken(s)}]
        /\ h[s] = IF s = {} THEN 0 ELSE f[Taken(s)] + h[s \ {Taken(s)}]
    BY <1>3, SumsAt
  <1>5. s # {}
    BY <1>3, <1>4
  <1>6. g[s \ {Taken(s)}] = h[s \ {Taken(s)}]
    BY <1>2, <1>3, <1>5, TakenIn
  <1>. QED
    BY <1>3, <1>4, <1>6

\* There is such a function.
LEMMA SumsExist ==
    ASSUME NEW S, IsFiniteSet(S), NEW f
    PROVE  \E g : Sums(g, S, f)
  <1>. DEFINE Bad == {T \in SUBSET S : \A g : ~ Sums(g, T, f)}
  <1>. SUFFICES ASSUME Bad # {} PROVE FALSE
    OBVIOUS
  <1>1. PICK T \in Bad : \A U \in SUBSET T : U # T => U \notin Bad
    <2>1. Bad \in SUBSET SUBSET S
      OBVIOUS
    <2>. HIDE DEF Bad
    <2>. QED
      BY <2>1, Smallest
  <1>2. T \in SUBSET S /\ \A g : ~ Sums(g, T, f)
    OBVIOUS
  <1>. DEFINE Of(U) == CHOOSE g : Sums(g, U, f)
  <1>3. ASSUME NEW U \in SUBSET T, U # T PROVE Sums(Of(U), U, f)
    BY <1>1, <1>2, <1>3
  <1>. DEFINE r(s) == s \ {Taken(s)}
  <1>. DEFINE G == [s \in SUBSET T |-> IF s = {} THEN 0 ELSE f[Taken(s)] + Of(r(s))[r(s)]]
  <1>4. ASSUME NEW s \in SUBSET T, s # {} PROVE G[r(s)] = Of(r(s))[r(s)]
    <2>. DEFINE u == r(s)
    <2>1. u \in SUBSET T /\ u # T /\ u \in SUBSET u
      BY <1>4, TakenIn
    <2>2. Sums(Of(u), u, f)
      BY <1>3, <2>1
    <2>. HIDE DEF Of, u
    <2>3. Of(u)[u] = IF u = {} THEN 0 ELSE f[Taken(u)] + Of(u)[r(u)]
      BY <2>1, <2>2, SumsAt
    <2>4. G[u] = IF u = {} THEN 0 ELSE f[Taken(u)] + Of(r(u))[r(u)]
      BY <2>1
    <2>5. ASSUME u # {} PROVE Of(u)[r(u)] = Of(r(u))[r(u)]
      <3>1. r(u) \in SUBSET u /\ r(u) \in SUBSET T /\ r(u) # T
        BY <2>1, <2>5, TakenIn
      <3>2. Sums(Of(r(u)), r(u), f)
        BY <1>3, <3>1
      <3>3. IsFiniteSet(u)
        BY <1>2, <2>1, FS_Subset
      <3>. HIDE DEF r
      <3>. QED
        BY <2>2, <3>1, <3>2, <3>3, SumsAgree
    <2>. QED
      BY <2>3, <2>4, <2>5 DEF u
  <1>5. Sums(G, T, f)
    <2>. HIDE DEF Of
    <2>. DEFINE E == [s \in SUBSET T |-> IF s = {} THEN 0 ELSE f[Taken(s)] + G[r(s)]]
    <2>1. ASSUME NEW s \in SUBSET T PROVE G[s] = E[s]
      <3>1. E[s] = IF s = {} THEN 0 ELSE f[Taken(s)] + G[r(s)]
        OBVIOUS
      <3>2. G[s] = IF s = {} THEN 0 ELSE f[Taken(s)] + Of(r(s))[r(s)]
        OBVIOUS
      <3>. HIDE DEF G, E, r
      <3>. QED
        BY <1>4, <3>1, <3>2
    <2>2. G = E
      BY <2>1
    <2>. HIDE DEF G
    <2>. QED
      BY <2>2 DEF Sums
  <1>. QED
    BY <1>2, <1>5

\* The sum is what the recursive function has for the whole set.
LEMMA SumIs ==
    ASSUME NEW S, IsFiniteSet(S), NEW f, NEW g, Sums(g, S, f)
    PROVE  SumOf(f, S) = g[S]
  <1>1. ASSUME NEW h, Sums(h, S, f) PROVE h = g
    <2>1. \A s \in SUBSET S : h[s] = g[s]
      BY <1>1, SumsAgree
    <2>. DEFINE G == [s \in SUBSET S |-> g[s]]
    <2>. DEFINE H == [s \in SUBSET S |-> h[s]]
    <2>2. g = G /\ h = H
      BY <1>1 DEF Sums
    <2>3. G = H
      BY <2>1
    <2>. QED
      BY <2>2, <2>3
  <1>2. g = [s \in SUBSET S |->
               IF s = {} THEN 0
               ELSE f[CHOOSE x \in s : TRUE] + g[s \ {CHOOSE x \in s : TRUE}]]
    BY DEF Sums, Taken
  <1>3. \A h : h = [s \in SUBSET S |->
                      IF s = {} THEN 0
                      ELSE f[CHOOSE x \in s : TRUE] + h[s \ {CHOOSE x \in s : TRUE}]] => h = g
    BY <1>1 DEF Sums, Taken
  <1>. QED
    BY <1>2, <1>3 DEF SumOf, MapThenSumSet, MapThenFoldSet

\* The sum over a set is that over the set without the element taken, and its number.
LEMMA SumTaken ==
    ASSUME NEW S, IsFiniteSet(S), NEW f
    PROVE  SumOf(f, S) = IF S = {} THEN 0 ELSE f[Taken(S)] + SumOf(f, S \ {Taken(S)})
  <1>. DEFINE R == S \ {Taken(S)}
  <1>1. PICK g : Sums(g, S, f)
    BY SumsExist
  <1>2. PICK h : Sums(h, R, f)
    <2>1. IsFiniteSet(R)
      BY FS_Subset
    <2>. QED
      BY <2>1, SumsExist
  <1>3. IsFiniteSet(R) /\ R \in SUBSET S
    BY FS_Subset
  <1>. HIDE DEF R
  <1>4. SumOf(f, S) = g[S] /\ SumOf(f, R) = h[R]
    BY <1>1, <1>2, <1>3, SumIs
  <1>5. g[R] = h[R]
    BY <1>1, <1>2, <1>3, SumsAgree
  <1>6. g[S] = IF S = {} THEN 0 ELSE f[Taken(S)] + g[R]
    BY <1>1, SumsAt DEF R
  <1>. QED
    BY <1>4, <1>5, <1>6 DEF R

\* The sum over no elements.
LEMMA SumEmpty ==
    ASSUME NEW f
    PROVE  SumOf(f, {}) = 0
  BY FS_EmptySet, SumTaken

\* The sum of numbers is a number.
LEMMA SumType ==
    ASSUME NEW S, IsFiniteSet(S), NEW f, \A x \in S : f[x] \in Nat
    PROVE  SumOf(f, S) \in Nat
  <1>. DEFINE Bad == {T \in SUBSET S : SumOf(f, T) \notin Nat}
  <1>. SUFFICES ASSUME Bad # {} PROVE FALSE
    OBVIOUS
  <1>1. PICK T \in Bad : \A U \in SUBSET T : U # T => U \notin Bad
    <2>1. Bad \in SUBSET SUBSET S
      OBVIOUS
    <2>. HIDE DEF Bad
    <2>. QED
      BY <2>1, Smallest
  <1>2. T \in SUBSET S /\ SumOf(f, T) \notin Nat /\ IsFiniteSet(T)
    BY FS_Subset
  <1>3. SumOf(f, T) = IF T = {} THEN 0 ELSE f[Taken(T)] + SumOf(f, T \ {Taken(T)})
    BY <1>2, SumTaken
  <1>4. T # {} /\ Taken(T) \in T
    BY <1>2, <1>3, TakenIn
  <1>5. SumOf(f, T \ {Taken(T)}) \in Nat
    BY <1>1, <1>2, <1>4
  <1>6. f[Taken(T)] \in Nat
    BY <1>2, <1>4
  <1>. QED
    BY <1>2, <1>3, <1>4, <1>5, <1>6

\* Any element may be taken out.
LEMMA SumWithout ==
    ASSUME NEW S, IsFiniteSet(S), NEW f, \A x \in S : f[x] \in Nat, NEW a \in S
    PROVE  SumOf(f, S) = f[a] + SumOf(f, S \ {a})
  <1>. DEFINE Bad == {T \in SUBSET S : \E x \in T : SumOf(f, T) # f[x] + SumOf(f, T \ {x})}
  <1>. SUFFICES ASSUME Bad # {} PROVE FALSE
    OBVIOUS
  <1>1. PICK T \in Bad : \A U \in SUBSET T : U # T => U \notin Bad
    <2>1. Bad \in SUBSET SUBSET S
      OBVIOUS
    <2>. HIDE DEF Bad
    <2>. QED
      BY <2>1, Smallest
  <1>2. T \in SUBSET S /\ IsFiniteSet(T)
    BY FS_Subset
  <1>3. PICK x \in T : SumOf(f, T) # f[x] + SumOf(f, T \ {x})
    OBVIOUS
  <1>. DEFINE t == Taken(T)
  <1>4. SumOf(f, T) = f[t] + SumOf(f, T \ {t}) /\ t \in T
    BY <1>2, SumTaken, TakenIn
  <1>5. ASSUME NEW U \in SUBSET T, U # T, NEW y \in U
        PROVE  SumOf(f, U) = f[y] + SumOf(f, U \ {y})
    BY <1>1, <1>2, <1>5
  <1>. HIDE DEF t, Bad
  <1>6. t # x
    BY <1>3, <1>4
  <1>7. SumOf(f, T \ {t}) = f[x] + SumOf(f, (T \ {t}) \ {x})
    BY <1>3, <1>4, <1>5, <1>6
  <1>8. SumOf(f, T \ {x}) = f[t] + SumOf(f, (T \ {x}) \ {t})
    BY <1>3, <1>4, <1>5, <1>6
  <1>9. (T \ {t}) \ {x} = (T \ {x}) \ {t}
    OBVIOUS
  <1>10. SumOf(f, (T \ {x}) \ {t}) \in Nat
    <2>1. IsFiniteSet((T \ {x}) \ {t})
      BY <1>2, FS_Subset
    <2>. QED
      BY <1>2, <2>1, SumType
  <1>11. f[t] \in Nat /\ f[x] \in Nat
    BY <1>2, <1>3, <1>4
  <1>. QED
    BY <1>3, <1>4, <1>7, <1>8, <1>9, <1>10, <1>11

\* Only the numbers of the elements matter.
LEMMA SumSame ==
    ASSUME NEW S, IsFiniteSet(S), NEW f, NEW g, \A x \in S : f[x] = g[x]
    PROVE  SumOf(f, S) = SumOf(g, S)
  <1>. DEFINE Bad == {T \in SUBSET S : SumOf(f, T) # SumOf(g, T)}
  <1>. SUFFICES ASSUME Bad # {} PROVE FALSE
    OBVIOUS
  <1>1. PICK T \in Bad : \A U \in SUBSET T : U # T => U \notin Bad
    <2>1. Bad \in SUBSET SUBSET S
      OBVIOUS
    <2>. HIDE DEF Bad
    <2>. QED
      BY <2>1, Smallest
  <1>2. T \in SUBSET S /\ SumOf(f, T) # SumOf(g, T) /\ IsFiniteSet(T)
    BY FS_Subset
  <1>3. /\ SumOf(f, T) = IF T = {} THEN 0 ELSE f[Taken(T)] + SumOf(f, T \ {Taken(T)})
        /\ SumOf(g, T) = IF T = {} THEN 0 ELSE g[Taken(T)] + SumOf(g, T \ {Taken(T)})
    BY <1>2, SumTaken
  <1>4. T # {} /\ Taken(T) \in T
    BY <1>2, <1>3, TakenIn
  <1>5. SumOf(f, T \ {Taken(T)}) = SumOf(g, T \ {Taken(T)})
    BY <1>1, <1>2, <1>4
  <1>6. f[Taken(T)] = g[Taken(T)]
    BY <1>2, <1>4
  <1>. QED
    BY <1>2, <1>3, <1>4, <1>5, <1>6

\* A part may be taken out as a whole.
LEMMA SumParts ==
    ASSUME NEW S, IsFiniteSet(S), NEW f, \A x \in S : f[x] \in Nat, NEW R \in SUBSET S
    PROVE  SumOf(f, S) = SumOf(f, R) + SumOf(f, S \ R)
  <1>. DEFINE Bad == {T \in SUBSET S : SumOf(f, S) # SumOf(f, T) + SumOf(f, S \ T)}
  <1>. SUFFICES ASSUME Bad # {} PROVE FALSE
    OBVIOUS
  <1>1. PICK T \in Bad : \A U \in SUBSET T : U # T => U \notin Bad
    <2>1. Bad \in SUBSET SUBSET S
      OBVIOUS
    <2>. HIDE DEF Bad
    <2>. QED
      BY <2>1, Smallest
  <1>2. T \in SUBSET S /\ SumOf(f, S) # SumOf(f, T) + SumOf(f, S \ T)
    OBVIOUS
  <1>3. \A U \in SUBSET S : IsFiniteSet(U) /\ SumOf(f, U) \in Nat
    BY FS_Subset, SumType
  <1>4. T # {}
    <2>. SUFFICES ASSUME T = {} PROVE FALSE
      OBVIOUS
    <2>1. S \ T = S /\ SumOf(f, T) = 0
      BY SumEmpty
    <2>2. SumOf(f, S) \in Nat
      BY <1>3
    <2>. HIDE DEF Bad
    <2>. QED
      BY <1>2, <2>1, <2>2
  <1>5. PICK x \in T : TRUE
    BY <1>4
  <1>6. SumOf(f, S) = SumOf(f, T \ {x}) + SumOf(f, S \ (T \ {x}))
    BY <1>1, <1>2, <1>5
  <1>. HIDE DEF Bad
  <1>7. SumOf(f, T) = f[x] + SumOf(f, T \ {x})
    BY <1>2, <1>3, <1>5, SumWithout
  <1>8. SumOf(f, S \ (T \ {x})) = f[x] + SumOf(f, S \ T)
    <2>1. (S \ (T \ {x})) \ {x} = S \ T /\ x \in S \ (T \ {x})
      BY <1>2, <1>5
    <2>2. S \ (T \ {x}) \in SUBSET S
      OBVIOUS
    <2>. QED
      BY <1>3, <2>1, <2>2, SumWithout
  <1>9. f[x] \in Nat
    BY <1>2, <1>5
  <1>10. SumOf(f, T \ {x}) \in Nat /\ SumOf(f, S \ T) \in Nat
    BY <1>2, <1>3
  <1>. QED
    BY <1>2, <1>6, <1>7, <1>8, <1>9, <1>10

\* A sum of n numbers of at most m is at most n * m.
LEMMA SumBound ==
    ASSUME NEW S, IsFiniteSet(S), NEW f, NEW m \in Nat, \A x \in S : f[x] \in 0..m
    PROVE  SumOf(f, S) =< Cardinality(S) * m
  <1>. DEFINE Bad == {T \in SUBSET S : ~ (SumOf(f, T) =< Cardinality(T) * m)}
  <1>. SUFFICES ASSUME Bad # {} PROVE FALSE
    OBVIOUS
  <1>1. PICK T \in Bad : \A U \in SUBSET T : U # T => U \notin Bad
    <2>1. Bad \in SUBSET SUBSET S
      OBVIOUS
    <2>. HIDE DEF Bad
    <2>. QED
      BY <2>1, Smallest
  <1>2. T \in SUBSET S /\ ~ (SumOf(f, T) =< Cardinality(T) * m) /\ IsFiniteSet(T)
    BY FS_Subset
  <1>3. SumOf(f, T) = IF T = {} THEN 0 ELSE f[Taken(T)] + SumOf(f, T \ {Taken(T)})
    BY <1>2, SumTaken
  <1>4. T # {} /\ Taken(T) \in T
    <2>1. ASSUME T = {} PROVE FALSE
      <3>1. Cardinality(T) = 0 /\ SumOf(f, T) = 0
        BY <1>3, <2>1, FS_EmptySet
      <3>2. 0 * m = 0
        OBVIOUS
      <3>. QED
        BY <1>2, <3>1, <3>2
    <2>. QED
      BY <2>1, TakenIn
  <1>. DEFINE U == T \ {Taken(T)}
  <1>5. SumOf(f, U) =< Cardinality(U) * m
    BY <1>1, <1>2, <1>4
  <1>6. IsFiniteSet(U) /\ SumOf(f, U) \in Nat
    <2>1. IsFiniteSet(U)
      BY <1>2, FS_Subset
    <2>. QED
      BY <1>2, <2>1, SumType
  <1>7. Cardinality(U) \in Nat /\ Cardinality(T) = Cardinality(U) + 1
    <2>1. Cardinality(U) = Cardinality(T) - 1
      BY <1>2, <1>4, FS_RemoveElement
    <2>. QED
      BY <1>2, <1>6, <2>1, FS_CardinalityType
  <1>8. f[Taken(T)] \in 0..m
    BY <1>2, <1>4
  <1>. HIDE DEF U, Bad
  <1>9. SumOf(f, T) = f[Taken(T)] + SumOf(f, U)
    BY <1>3, <1>4 DEF U
  <1>10. (Cardinality(U) + 1) * m = Cardinality(U) * m + m
    BY <1>7, Z3
  <1>11. Cardinality(U) * m \in Nat
    BY <1>7, Z3
  <1>. QED
    BY <1>2, <1>5, <1>6, <1>7, <1>8, <1>9, <1>10, <1>11

-----------------------------------------------------------------------------
(* The store of cursors: its tables *)

\* Connections whose Register has inserted its entry and not yet accounted for it, and
\* those whose Register has passed the budget check and not yet inserted.
Owing == {c \in Conns : pc[c] = Accounting}
Passed == {c \in Conns : pc[c] \in {Allocating, Inserting}}

\* Connections whose Register will take an id.
Reserving == {c \in Conns : pc[c] \in {Budget, Evicting, Allocating}}
Reserved == nextID + Cardinality(Reserving) =< MaxIds

\* Entries have ids that were handed out; an id about to be inserted is not in the
\* store, and nobody else inserts it.
Given ==
    /\ live \subseteq 1..nextID
    /\ \A c \in Conns : pc[c] = Inserting => newID[c] \in 1..nextID /\ newID[c] \notin live
    /\ \A c, d \in Conns : c # d /\ pc[c] = Inserting /\ pc[d] = Inserting =>
                               newID[c] # newID[d]

\* A result that is being registered does not fit in the first batch.
Sized == \A c \in Conns : pc[c] \notin {Closed, Ready} => docs[c] > DefaultBatch

\* Entries belong to connections that are open.
Owned == \A i \in live : owner[i] \in Conns /\ pc[owner[i]] # Closed

StoreInv == CursorTypeOK /\ Reserved /\ Given /\ Sized /\ Owned

\* The smaller of two numbers.
LEMMA MinOfTwo ==
    ASSUME NEW a \in Int, NEW b \in Int
    PROVE  Min({a, b}) = IF a =< b THEN a ELSE b
  <1>. DEFINE m == IF a =< b THEN a ELSE b
  <1>1. m \in {a, b} /\ \A y \in {a, b} : m =< y
    OBVIOUS
  <1>2. Min({a, b}) \in {a, b} /\ \A y \in {a, b} : Min({a, b}) =< y
    BY <1>1 DEF Min
  <1>. QED
    BY <1>2

\* Ids are finitely many.
LEMMA IdsFinite == IsFiniteSet(Ids)
  <1>1. MaxIds \in Int
    BY CursorBounds
  <1>. QED
    BY <1>1, FS_Interval DEF Ids

\* Only entries with an id have a time of last use.
LEMMA StampedIds == CursorTypeOK /\ Given => Stamped \subseteq Ids
  <1>. SUFFICES ASSUME CursorTypeOK, Given PROVE Stamped \subseteq Ids
    OBVIOUS
  <1>1. 1..nextID \subseteq Ids
    BY CursorBounds DEF CursorTypeOK, Ids
  <1>2. \A c \in Conns : pc[c] = Inserting => newID[c] \in Ids
    BY <1>1 DEF Given
  <1>. QED
    BY <1>2 DEF Stamped, CursorTypeOK

\* The order of last use stays a relation on ids.
LEMMA UsedType ==
    ASSUME older \subseteq Ids \X Ids, Stamped \subseteq Ids, NEW i \in Ids, Used(i)
    PROVE  older' \subseteq Ids \X Ids
  BY DEF Used

\* Removing entries, while every Register goes on or stays where it was.
LEMMA RemoveKeeps ==
    ASSUME StoreInv, NEW S \in SUBSET live, Remove(S),
           UNCHANGED <<nextID, docs, newID>>,
           pc' \in [Conns -> PCs], Reserving' = Reserving,
           \A c \in Conns : pc'[c] = Inserting => pc[c] = Inserting,
           \A c \in Conns : pc[c] \in {Closed, Ready} => pc'[c] \in {Closed, Ready},
           \A i \in live \ S : pc'[owner[i]] # Closed
    PROVE  StoreInv'
  <1>. USE DEF StoreInv
  <1>1. CursorTypeOK'
    <2>1. live \subseteq Ids /\ live' \subseteq live /\ live' = live \ S
      BY DEF CursorTypeOK, Remove
    <2>2. owner' \in [Ids -> Conns \cup {NoConn}]
      BY DEF CursorTypeOK, Remove
    <2>3. 0 \in 0..MaxDocs
      BY CursorBounds
    <2>4. size' \in [Ids -> 0..MaxDocs] /\ pos' \in [Ids -> 0..MaxDocs]
      BY <2>3 DEF CursorTypeOK, Remove
    <2>5. older' \subseteq Ids \X Ids
      BY DEF CursorTypeOK, Remove
    <2>6. Bytes(S) \in Int
      <3>1. IsFiniteSet(S)
        BY <2>1, IdsFinite, FS_Subset
      <3>2. \A i \in S : size[i] \in Nat
        BY <2>1, CursorBounds DEF CursorTypeOK
      <3>3. SumOf(size, S) \in Nat
        BY <3>1, <3>2, SumType
      <3>. QED
        BY <3>3 DEF Bytes, SumOf
    <2>7. curBytes' \in Int
      BY <2>6 DEF CursorTypeOK, Remove
    <2>8. \A i \in live' : pos'[i] < size'[i]
      BY <2>1 DEF CursorTypeOK, Remove
    <2>. QED
      BY <2>1, <2>2, <2>4, <2>5, <2>7, <2>8 DEF CursorTypeOK
  <1>2. Reserved'
    BY DEF Reserved
  <1>3. Given'
    BY DEF Given, Remove
  <1>4. Sized'
    BY DEF Sized, CursorTypeOK
  <1>5. Owned'
    BY DEF Owned, Remove, CursorTypeOK
  <1>. QED
    BY <1>1, <1>2, <1>3, <1>4, <1>5

\* Connections that reserve an id are finitely many.
LEMMA ReservingFinite == IsFiniteSet(Reserving) /\ Cardinality(Reserving) \in Nat
  BY ConnsFinite, FS_Subset, FS_CardinalityType DEF Reserving

\* Every step keeps the tables in order.
LEMMA StoreStep == StoreInv /\ [CursorNext]_cursorVars => StoreInv'
  <1>. SUFFICES ASSUME StoreInv, [CursorNext]_cursorVars PROVE StoreInv'
    OBVIOUS
  <1>. USE DEF PCs, Closed, Ready, Budget, Evicting, Allocating, Inserting, Accounting
  <1>t. CursorTypeOK /\ Reserved /\ Given /\ Sized /\ Owned
    BY DEF StoreInv
  <1>1. ASSUME NEW c \in Conns, Connect(c) PROVE StoreInv'
    <2>1. pc' \in [Conns -> PCs] /\ CursorTypeOK'
      BY <1>t, <1>1 DEF Connect, Goto, CursorTypeOK
    <2>2. Reserving' = Reserving
      BY <1>t, <1>1 DEF Connect, Goto, CursorTypeOK, Reserving
    <2>3. Reserved' /\ Given'
      BY <1>t, <1>1, <2>2 DEF Connect, Goto, CursorTypeOK, Reserved, Given
    <2>4. Sized' /\ Owned'
      BY <1>t, <1>1 DEF Connect, Goto, CursorTypeOK, Sized, Owned
    <2>. QED
      BY <2>1, <2>3, <2>4 DEF StoreInv
  <1>2. ASSUME NEW c \in Conns, NEW n \in 1..MaxDocs, Register(c, n) PROVE StoreInv'
    <2>1. CursorTypeOK'
      BY <1>t, <1>2, CursorBounds DEF Register, Goto, CursorTypeOK
    <2>2. Reserving' = Reserving \cup {c} /\ c \notin Reserving
      BY <1>t, <1>2 DEF Register, Goto, CursorTypeOK, Reserving
    <2>3. Cardinality(Reserving') = Cardinality(Reserving) + 1
      BY <2>2, ReservingFinite, FS_AddElement
    <2>4. Reserved'
      BY <1>t, <1>2, <2>3, ReservingFinite, CursorBounds
         DEF Register, CursorTypeOK, Reserved, Reserving
    <2>5. Given'
      BY <1>t, <1>2 DEF Register, Goto, CursorTypeOK, Given
    <2>6. Sized' /\ Owned'
      BY <1>t, <1>2 DEF Register, Goto, CursorTypeOK, Sized, Owned, NeedsCursor
    <2>. QED
      BY <2>1, <2>4, <2>5, <2>6 DEF StoreInv
  <1>3. ASSUME NEW c \in Conns, CheckBudget(c) PROVE StoreInv'
    <2>1. CursorTypeOK'
      BY <1>t, <1>3 DEF CheckBudget, Goto, CursorTypeOK
    <2>2. Reserving' = Reserving
      BY <1>t, <1>3 DEF CheckBudget, Goto, CursorTypeOK, Reserving
    <2>3. Reserved' /\ Given'
      BY <1>t, <1>3, <2>2 DEF CheckBudget, Goto, CursorTypeOK, Reserved, Given
    <2>4. Sized' /\ Owned'
      BY <1>t, <1>3 DEF CheckBudget, Goto, CursorTypeOK, Sized, Owned
    <2>. QED
      BY <2>1, <2>3, <2>4 DEF StoreInv
  <1>4. ASSUME NEW c \in Conns, EvictOldest(c) PROVE StoreInv'
    <2>1. CASE live = {} /\ Goto(c, AfterEmpty) /\ UNCHANGED <<live, owner, size, pos, older, curBytes>>
      <3>1. CursorTypeOK'
        BY <1>t, <1>4, <2>1 DEF EvictOldest, Goto, CursorTypeOK, AfterEmpty
      <3>2. Reserving' = Reserving
        BY <1>t, <1>4, <2>1 DEF EvictOldest, Goto, CursorTypeOK, Reserving, AfterEmpty
      <3>3. Reserved' /\ Given'
        BY <1>t, <1>4, <2>1, <3>2 DEF EvictOldest, Goto, CursorTypeOK, Reserved, Given, AfterEmpty
      <3>4. Sized' /\ Owned'
        BY <1>t, <1>4, <2>1 DEF EvictOldest, Goto, CursorTypeOK, Sized, Owned, AfterEmpty
      <3>. QED
        BY <3>1, <3>3, <3>4 DEF StoreInv
    <2>2. ASSUME NEW i \in Oldest, Remove({i}), Goto(c, Budget) PROVE StoreInv'
      <3>1. {i} \in SUBSET live
        BY <2>2 DEF Oldest
      <3>2. pc' \in [Conns -> PCs] /\ Reserving' = Reserving
        BY <1>t, <1>4, <2>2 DEF EvictOldest, Goto, CursorTypeOK, Reserving
      <3>3. \A d \in Conns : /\ pc'[d] = Inserting => pc[d] = Inserting
                             /\ pc[d] \in {Closed, Ready} => pc'[d] \in {Closed, Ready}
        BY <1>t, <1>4, <2>2 DEF EvictOldest, Goto, CursorTypeOK
      <3>4. \A j \in live \ {i} : pc'[owner[j]] # Closed
        BY <1>t, <1>4, <2>2 DEF EvictOldest, Goto, CursorTypeOK, Owned
      <3>. QED
        BY <1>4, <2>2, <3>1, <3>2, <3>3, <3>4, RemoveKeeps DEF EvictOldest
    <2>. QED
      BY <1>4, <2>1, <2>2 DEF EvictOldest
  <1>5. ASSUME NEW c \in Conns, Allocate(c) PROVE StoreInv'
    <2>1. Reserving' = Reserving \ {c} /\ c \in Reserving
      BY <1>t, <1>5 DEF Allocate, Goto, CursorTypeOK, Reserving
    <2>2. Cardinality(Reserving') = Cardinality(Reserving) - 1
      BY <2>1, ReservingFinite, FS_RemoveElement
    <2>3. Cardinality(Reserving) >= 1
      <3>1. IsFiniteSet(Reserving')
        BY <2>1, ReservingFinite, FS_Subset
      <3>2. Cardinality(Reserving') \in Nat
        BY <3>1, FS_CardinalityType
      <3>. QED
        BY <2>2, <3>2, ReservingFinite
    <2>4. nextID \in Nat /\ nextID + 1 \in Ids
      BY <1>t, <2>3, ReservingFinite, CursorBounds DEF Reserved, CursorTypeOK, Ids
    <2>5. older' \subseteq Ids \X Ids
      <3>1. Stamped \subseteq Ids
        BY <1>t, StampedIds
      <3>. QED
        BY <1>t, <1>5, <2>4, <3>1 DEF Allocate, Used, CursorTypeOK
    <2>6. nextID' \in 0..MaxIds /\ newID' \in [Conns -> 0..MaxIds] /\ pc' \in [Conns -> PCs]
      BY <1>t, <1>5, <2>4, CursorBounds DEF Allocate, Goto, CursorTypeOK, Ids
    <2>7. CursorTypeOK'
      BY <1>t, <1>5, <2>5, <2>6 DEF Allocate, CursorTypeOK
    <2>8. Reserved'
      BY <1>t, <1>5, <2>2, <2>4, ReservingFinite, CursorBounds DEF Allocate, Reserved
    <2>9. Given'
      BY <1>t, <1>5, <2>4 DEF Allocate, Goto, CursorTypeOK, Given
    <2>10. Sized' /\ Owned'
      BY <1>t, <1>5 DEF Allocate, Goto, CursorTypeOK, Sized, Owned
    <2>. QED
      BY <2>7, <2>8, <2>9, <2>10 DEF StoreInv
  <1>6. ASSUME NEW c \in Conns, Insert(c) PROVE StoreInv'
    <2>. DEFINE i == newID[c]
    <2>1. i \in Ids /\ i \in 1..nextID /\ i \notin live
      BY <1>t, <1>6, CursorBounds DEF Insert, Given, CursorTypeOK, Ids
    <2>2. docs[c] > DefaultBatch /\ docs[c] \in 0..MaxDocs /\ DefaultBatch \in 0..MaxDocs
      BY <1>t, <1>6, CursorBounds, BatchesPositive DEF Insert, Sized, CursorTypeOK
    <2>3. CursorTypeOK'
      <3>1. live' \subseteq Ids /\ owner' \in [Ids -> Conns \cup {NoConn}]
        BY <1>t, <1>6, <2>1 DEF Insert, CursorTypeOK
      <3>2. size' \in [Ids -> 0..MaxDocs] /\ pos' \in [Ids -> 0..MaxDocs]
        BY <1>t, <1>6, <2>1, <2>2 DEF Insert, CursorTypeOK
      <3>3. pc' \in [Conns -> PCs]
        BY <1>t, <1>6 DEF Insert, Goto, CursorTypeOK
      <3>4. \A j \in live' : pos'[j] < size'[j]
        BY <1>t, <1>6, <2>1, <2>2 DEF Insert, CursorTypeOK
      <3>. QED
        BY <1>t, <1>6, <3>1, <3>2, <3>3, <3>4 DEF Insert, CursorTypeOK
    <2>4. Reserving' = Reserving
      BY <1>t, <1>6 DEF Insert, Goto, CursorTypeOK, Reserving
    <2>5. Reserved'
      BY <1>t, <1>6, <2>4 DEF Insert, Reserved
    <2>6. Given'
      BY <1>t, <1>6, <2>1 DEF Insert, Goto, CursorTypeOK, Given
    <2>7. Sized'
      BY <1>t, <1>6 DEF Insert, Goto, CursorTypeOK, Sized
    <2>8. Owned'
      BY <1>t, <1>6, <2>1 DEF Insert, Goto, CursorTypeOK, Owned
    <2>. QED
      BY <2>3, <2>5, <2>6, <2>7, <2>8 DEF StoreInv
  <1>7. ASSUME NEW c \in Conns, Account(c) PROVE StoreInv'
    <2>1. CursorTypeOK'
      BY <1>t, <1>7, CursorBounds DEF Account, NewBytes, Goto, CursorTypeOK
    <2>2. Reserving' = Reserving
      BY <1>t, <1>7 DEF Account, Goto, CursorTypeOK, Reserving
    <2>3. Reserved' /\ Given'
      BY <1>t, <1>7, <2>2 DEF Account, Goto, CursorTypeOK, Reserved, Given
    <2>4. Sized' /\ Owned'
      BY <1>t, <1>7 DEF Account, Goto, CursorTypeOK, Sized, Owned
    <2>. QED
      BY <2>1, <2>3, <2>4 DEF StoreInv
  <1>8. ASSUME NEW c \in Conns, NEW i \in Ids, NEW b \in Batches, NextBatch(c, i, b)
        PROVE  StoreInv'
    <2>. DEFINE end == Min({pos[i] + b, size[i]})
    <2>1. i \in live /\ UNCHANGED <<nextID, pc, docs, newID>>
      BY <1>8 DEF NextBatch
    <2>2. CASE Remove({i})
      <3>1. Reserving' = Reserving
        BY <2>1 DEF Reserving
      <3>. QED
        BY <1>t, <2>1, <2>2, <3>1, RemoveKeeps DEF CursorTypeOK, Owned
    <2>3. CASE /\ ~ (end >= size[i])
               /\ pos' = [pos EXCEPT ![i] = end]
               /\ Used(i)
               /\ UNCHANGED <<live, owner, size, curBytes>>
      <3>1. pos[i] \in Nat /\ size[i] \in 0..MaxDocs /\ b \in Nat
        BY <1>t, CursorBounds, BatchesPositive DEF CursorTypeOK
      <3>2. end = IF pos[i] + b =< size[i] THEN pos[i] + b ELSE size[i]
        BY <3>1, MinOfTwo
      <3>3. end \in 0..MaxDocs /\ end < size[i]
        <4>. HIDE DEF end
        <4>1. ~ (end >= size[i])
          BY <2>3
        <4>. QED
          BY <3>1, <3>2, <4>1, CursorBounds
      <3>. HIDE DEF end
      <3>4. older' \subseteq Ids \X Ids
        <4>1. Stamped \subseteq Ids
          BY <1>t, StampedIds
        <4>. QED
          BY <1>t, <2>3, <4>1, UsedType DEF CursorTypeOK
      <3>5. CursorTypeOK'
        BY <1>t, <2>1, <2>3, <3>3, <3>4 DEF CursorTypeOK
      <3>6. Reserved' /\ Given' /\ Sized' /\ Owned'
        BY <1>t, <2>1, <2>3 DEF Reserved, Reserving, Given, Sized, Owned
      <3>. QED
        BY <3>5, <3>6 DEF StoreInv
    <2>. QED
      BY <1>8, <2>2, <2>3 DEF NextBatch
  <1>9. ASSUME NEW c \in Conns, NEW i \in Ids, Kill(c, i) PROVE StoreInv'
    <2>1. i \in live /\ Remove({i}) /\ UNCHANGED <<nextID, pc, docs, newID>>
      BY <1>9 DEF Kill
    <2>2. Reserving' = Reserving
      BY <2>1 DEF Reserving
    <2>. QED
      BY <1>t, <2>1, <2>2, RemoveKeeps DEF CursorTypeOK, Owned
  <1>10. ASSUME NEW c \in Conns, CleanupConn(c) PROVE StoreInv'
    <2>1. OwnedBy(c) \in SUBSET live
      BY DEF OwnedBy
    <2>2. pc' \in [Conns -> PCs] /\ Reserving' = Reserving
      BY <1>t, <1>10 DEF CleanupConn, Goto, CursorTypeOK, Reserving
    <2>3. \A d \in Conns : /\ pc'[d] = Inserting => pc[d] = Inserting
                           /\ pc[d] \in {Closed, Ready} => pc'[d] \in {Closed, Ready}
      BY <1>t, <1>10 DEF CleanupConn, Goto, CursorTypeOK
    <2>4. \A j \in live \ OwnedBy(c) : pc'[owner[j]] # Closed
      BY <1>t, <1>10 DEF CleanupConn, Goto, CursorTypeOK, Owned, OwnedBy
    <2>. QED
      BY <1>10, <2>1, <2>2, <2>3, <2>4, RemoveKeeps DEF CleanupConn
  <1>11. ASSUME PruneIdle PROVE StoreInv'
    <2>1. PICK S \in SUBSET live : Remove(S) /\ UNCHANGED <<nextID, pc, docs, newID>>
      BY <1>11 DEF PruneIdle
    <2>2. Reserving' = Reserving
      BY <2>1 DEF Reserving
    <2>. QED
      BY <1>t, <2>1, <2>2, RemoveKeeps DEF CursorTypeOK, Owned
  <1>12. CASE UNCHANGED cursorVars
    BY <1>t, <1>12 DEF cursorVars, StoreInv, CursorTypeOK, Reserved, Reserving, Given, Sized, Owned
  <1>. QED
    BY <1>1, <1>2, <1>3, <1>4, <1>5, <1>6, <1>7, <1>8, <1>9, <1>10, <1>11, <1>12
       DEF CursorNext, RegisterStep

-----------------------------------------------------------------------------
(* The store of cursors: its budget *)

\* The bytes of the entries, of those not yet accounted for, and of the results that
\* have passed the check and are not yet entries.
Stored == SumOf(size, live)
Owed == SumOf(docs, Owing)
Promised == SumOf(docs, Passed)

\* The counter is right but for what is owed, and what has passed the check is paid for
\* in advance.
Settled == curBytes = Stored - Owed
Limit == Max({MaxBytes, MaxDocs}) + (Cardinality(Conns) - 1) * MaxDocs
Within == Stored + Promised =< Limit

\* The sets are finite and hold numbers.
LEMMA SumFacts ==
    ASSUME CursorTypeOK
    PROVE  /\ IsFiniteSet(live) /\ \A i \in live : size[i] \in Nat
           /\ \A C \in SUBSET Conns : IsFiniteSet(C)
           /\ \A c \in Conns : docs[c] \in Nat /\ docs[c] \in 0..MaxDocs
           /\ Stored \in Nat /\ Owed \in Nat /\ Promised \in Nat
  <1>1. IsFiniteSet(live) /\ \A i \in live : size[i] \in Nat
    BY IdsFinite, FS_Subset, CursorBounds DEF CursorTypeOK
  <1>2. \A C \in SUBSET Conns : IsFiniteSet(C)
    BY ConnsFinite, FS_Subset
  <1>3. \A c \in Conns : docs[c] \in Nat /\ docs[c] \in 0..MaxDocs
    BY CursorBounds DEF CursorTypeOK
  <1>4. Stored \in Nat
    BY <1>1, SumType DEF Stored
  <1>5. Owing \in SUBSET Conns /\ Passed \in SUBSET Conns
    BY DEF Owing, Passed
  <1>6. Owed \in Nat
    BY <1>2, <1>3, <1>5, SumType DEF Owed
  <1>7. Promised \in Nat
    BY <1>2, <1>3, <1>5, SumType DEF Promised
  <1>. QED
    BY <1>1, <1>2, <1>3, <1>4, <1>6, <1>7

\* The limit has room for a full budget and one result of every other connection, and
\* for one result of every connection.
LEMMA LimitFacts ==
    LET n == Cardinality(Conns) IN
    /\ n \in Nat /\ Limit \in Int
    /\ MaxBytes + (n - 1) * MaxDocs =< Limit
    /\ n * MaxDocs =< Limit
    /\ 0 =< Limit
  <1>. DEFINE n == Cardinality(Conns)
  <1>. DEFINE x == Max({MaxBytes, MaxDocs})
  <1>. DEFINE m == IF MaxBytes =< MaxDocs THEN MaxDocs ELSE MaxBytes
  <1>1. n \in Nat
    BY ConnsFinite, FS_CardinalityType
  <1>2. x \in {MaxBytes, MaxDocs} /\ \A y \in {MaxBytes, MaxDocs} : x >= y
    <2>1. m \in {MaxBytes, MaxDocs} /\ \A y \in {MaxBytes, MaxDocs} : m >= y
      BY CursorBounds
    <2>. QED
      BY <2>1 DEF Max
  <1>3. Limit = x + (n - 1) * MaxDocs
    BY DEF Limit
  <1>4. (n - 1) * MaxDocs \in Int /\ (n - 1) * MaxDocs = n * MaxDocs - MaxDocs
    BY <1>1, CursorBounds, Z3
  <1>5. n * MaxDocs \in Nat
    BY <1>1, CursorBounds, Z3
  <1>. HIDE DEF x, n
  <1>6. x \in Nat /\ x >= MaxBytes /\ x >= MaxDocs
    BY <1>2, CursorBounds
  <1>. QED
    BY <1>1, <1>3, <1>4, <1>5, <1>6, CursorBounds DEF n

\* Connections among n reserve at most n results.
LEMMA BoundByCount ==
    ASSUME CursorTypeOK, NEW C \in SUBSET Conns, NEW n \in Nat, Cardinality(C) =< n
    PROVE  SumOf(docs, C) =< n * MaxDocs
  <1>1. IsFiniteSet(C) /\ \A c \in C : docs[c] \in 0..MaxDocs
    BY SumFacts
  <1>2. MaxDocs \in Nat
    BY CursorBounds
  <1>3. SumOf(docs, C) =< Cardinality(C) * MaxDocs
    BY <1>1, <1>2, SumBound
  <1>4. SumOf(docs, C) \in Nat
    <2>1. \A c \in C : docs[c] \in Nat
      BY SumFacts
    <2>. QED
      BY <1>1, <2>1, SumType
  <1>5. Cardinality(C) \in Nat
    BY <1>1, FS_CardinalityType
  <1>6. Cardinality(C) * MaxDocs =< n * MaxDocs /\ Cardinality(C) * MaxDocs \in Nat
        /\ n * MaxDocs \in Nat
    BY <1>2, <1>5, Z3
  <1>. QED
    BY <1>3, <1>4, <1>6

\* Removing entries takes their bytes off both the counter and the sum.
LEMMA RemoveSums ==
    ASSUME CursorTypeOK, NEW S \in SUBSET live, Remove(S)
    PROVE  /\ SumOf(size, S) \in Nat
           /\ Stored' = Stored - SumOf(size, S)
           /\ curBytes' = curBytes - SumOf(size, S)
  <1>1. IsFiniteSet(live) /\ \A i \in live : size[i] \in Nat
    BY SumFacts
  <1>2. SumOf(size, live) = SumOf(size, S) + SumOf(size, live \ S)
    BY <1>1, SumParts
  <1>3. IsFiniteSet(live \ S) /\ IsFiniteSet(S)
    BY <1>1, FS_Subset
  <1>4. SumOf(size, S) \in Nat
    BY <1>1, <1>3, SumType
  <1>5. SumOf(size, live \ S) \in Nat
    BY <1>1, <1>3, SumType
  <1>6. SumOf(size, live \ S) = SumOf(size', live \ S)
    <2>1. \A i \in live \ S : size[i] = size'[i]
      BY DEF Remove, CursorTypeOK
    <2>. QED
      BY <1>3, <2>1, SumSame
  <1>7. Stored' = SumOf(size', live \ S)
    BY DEF Stored, Remove
  <1>8. curBytes' = curBytes - SumOf(size, S)
    BY DEF Remove, Bytes, SumOf
  <1>. QED
    BY <1>2, <1>4, <1>5, <1>6, <1>7, <1>8 DEF Stored

\* What is promised and owed does not change with the results of others.
LEMMA SameSums ==
    ASSUME CursorTypeOK, Owing' = Owing, Passed' = Passed,
           \A c \in Owing \cup Passed : docs'[c] = docs[c]
    PROVE  Owed' = Owed /\ Promised' = Promised
  <1>1. IsFiniteSet(Owing) /\ IsFiniteSet(Passed)
    BY SumFacts DEF Owing, Passed
  <1>2. SumOf(docs', Owing) = SumOf(docs, Owing)
    BY <1>1, SumSame
  <1>3. SumOf(docs', Passed) = SumOf(docs, Passed)
    BY <1>1, SumSame
  <1>. QED
    BY <1>2, <1>3 DEF Owed, Promised

\* Removing entries keeps the books, when nothing else changes.
LEMMA RemoveSettles ==
    ASSUME CursorTypeOK, Settled, Within, NEW S \in SUBSET live, Remove(S),
           docs' = docs, Owing' = Owing, Passed' = Passed
    PROVE  Settled' /\ Within'
  <1>1. Owed' = Owed /\ Promised' = Promised
    BY SameSums
  <1>. QED
    BY <1>1, RemoveSums, SumFacts, LimitFacts, CursorBounds
       DEF Settled, Within, Limit, CursorTypeOK

\* The tables and the books are in order.
Books == StoreInv /\ Settled /\ Within

\* Passing the check adds a promise.
LEMMA PromisedMore ==
    ASSUME CursorTypeOK, NEW c \in Conns, c \notin Passed,
           Passed' = Passed \cup {c}, docs' = docs
    PROVE  Promised' = docs[c] + Promised
  <1>1. Promised' = SumOf(docs, Passed \cup {c})
    BY DEF Promised
  <1>2. IsFiniteSet(Passed \cup {c}) /\ \A d \in Passed \cup {c} : docs[d] \in Nat
    BY SumFacts DEF Passed
  <1>3. SumOf(docs, Passed \cup {c}) = docs[c] + SumOf(docs, (Passed \cup {c}) \ {c})
    BY <1>2, SumWithout
  <1>4. (Passed \cup {c}) \ {c} = Passed
    OBVIOUS
  <1>. QED
    BY <1>1, <1>3, <1>4 DEF Promised

\* What the others owe and have been promised is at most a result each.
LEMMA OthersBound ==
    ASSUME CursorTypeOK, NEW c \in Conns, c \notin Passed, c \notin Owing
    PROVE  Owed + Promised =< (Cardinality(Conns) - 1) * MaxDocs
  <1>. DEFINE U == Owing \cup Passed
  <1>1. U \in SUBSET (Conns \ {c}) /\ Owing \in SUBSET U /\ U \ Owing = Passed
    BY DEF Owing, Passed, Accounting, Allocating, Inserting
  <1>2. IsFiniteSet(U) /\ \A d \in U : docs[d] \in Nat
    BY <1>1, SumFacts
  <1>3. SumOf(docs, U) = Owed + Promised
    BY <1>1, <1>2, SumParts DEF Owed, Promised
  <1>4. Cardinality(Conns \ {c}) = Cardinality(Conns) - 1 /\ Cardinality(Conns) \in Nat
    BY ConnsFinite, FS_RemoveElement, FS_CardinalityType
  <1>5. IsFiniteSet(Conns \ {c}) /\ Cardinality(Conns \ {c}) \in Nat
    BY ConnsFinite, FS_Subset, FS_CardinalityType
  <1>6. Cardinality(U) =< Cardinality(Conns \ {c})
    BY <1>1, <1>5, FS_Subset
  <1>7. SumOf(docs, U) =< Cardinality(Conns \ {c}) * MaxDocs
    BY <1>1, <1>5, <1>6, BoundByCount
  <1>. QED
    BY <1>3, <1>4, <1>7

\* Every step keeps the books.
LEMMA BooksStep == Books /\ [CursorNext]_cursorVars => Books'
  <1>. SUFFICES ASSUME Books, [CursorNext]_cursorVars PROVE Settled' /\ Within'
    BY StoreStep DEF Books
  <1>. USE DEF PCs, Closed, Ready, Budget, Evicting, Allocating, Inserting, Accounting
  <1>t. CursorTypeOK /\ Settled /\ Within
    BY DEF Books, StoreInv
  <1>s. /\ Stored \in Nat /\ Owed \in Nat /\ Promised \in Nat /\ curBytes \in Int
        /\ IsFiniteSet(live) /\ IsFiniteSet(Owing) /\ IsFiniteSet(Passed)
    BY <1>t, SumFacts DEF CursorTypeOK, Owing, Passed
  <1>q. ASSUME Stored' = Stored, curBytes' = curBytes, Owed' = Owed, Promised' = Promised
        PROVE  Settled' /\ Within'
    BY <1>t, <1>q DEF Settled, Within, Limit
  <1>1. ASSUME NEW c \in Conns, Connect(c) PROVE Settled' /\ Within'
    <2>1. Owing' = Owing /\ Passed' = Passed /\ docs' = docs
      BY <1>t, <1>1 DEF Connect, Goto, Owing, Passed, CursorTypeOK
    <2>2. Stored' = Stored /\ curBytes' = curBytes
      BY <1>1 DEF Connect, Stored
    <2>. QED
      BY <1>t, <1>q, <2>1, <2>2, SameSums
  <1>2. ASSUME NEW c \in Conns, NEW n \in 1..MaxDocs, Register(c, n)
        PROVE  Settled' /\ Within'
    <2>1. Owing' = Owing /\ Passed' = Passed
      BY <1>t, <1>2 DEF Register, Goto, Owing, Passed, CursorTypeOK
    <2>2. \A d \in Owing \cup Passed : docs'[d] = docs[d]
      BY <1>t, <1>2 DEF Register, Owing, Passed, CursorTypeOK
    <2>3. Stored' = Stored /\ curBytes' = curBytes
      BY <1>2 DEF Register, Stored
    <2>. QED
      BY <1>t, <1>q, <2>1, <2>2, <2>3, SameSums
  <1>3. ASSUME NEW c \in Conns, CheckBudget(c) PROVE Settled' /\ Within'
    <2>1. Owing' = Owing /\ docs' = docs /\ Stored' = Stored /\ curBytes' = curBytes
      BY <1>t, <1>3 DEF CheckBudget, Goto, Owing, CursorTypeOK, Stored
    <2>2. Owed' = Owed
      BY <2>1 DEF Owed
    <2>3. CASE OverBudget(c)
      <3>1. Passed' = Passed
        BY <1>t, <1>3, <2>3 DEF CheckBudget, Goto, Passed, CursorTypeOK
      <3>. QED
        BY <1>q, <2>1, <2>2, <3>1 DEF Promised
    <2>4. CASE ~ OverBudget(c)
      <3>1. Passed' = Passed \cup {c} /\ c \notin Passed /\ c \notin Owing
        BY <1>t, <1>3, <2>4 DEF CheckBudget, Goto, Passed, Owing, CursorTypeOK
      <3>2. Promised' = docs[c] + Promised
        BY <1>t, <2>1, <3>1, PromisedMore
      <3>3. Owed + Promised =< (Cardinality(Conns) - 1) * MaxDocs
        BY <1>t, <3>1, OthersBound
      <3>4. Stored + docs[c] =< MaxBytes + Owed
        <4>1. docs[c] \in Nat
          BY <1>t, SumFacts
        <4>. QED
          BY <1>t, <1>s, <2>4, <4>1, CursorBounds DEF OverBudget, Settled
      <3>5. (Cardinality(Conns) - 1) * MaxDocs \in Int
        BY LimitFacts, CursorBounds, Z3
      <3>6. docs[c] \in Nat
        BY <1>t, SumFacts
      <3>7. Stored' + Promised' =< Limit
        <4>1. MaxBytes + (Cardinality(Conns) - 1) * MaxDocs =< Limit /\ Limit \in Int
          BY LimitFacts
        <4>. QED
          BY <1>s, <2>1, <3>2, <3>3, <3>4, <3>5, <3>6, <4>1, CursorBounds
      <3>. QED
        BY <1>t, <2>1, <2>2, <3>7 DEF Settled, Within, Limit
    <2>. QED
      BY <2>3, <2>4
  <1>4. ASSUME NEW c \in Conns, EvictOldest(c) PROVE Settled' /\ Within'
    <2>0. docs' = docs /\ pc[c] = Evicting
      BY <1>4 DEF EvictOldest
    <2>1. CASE live = {} /\ Goto(c, AfterEmpty)
               /\ UNCHANGED <<live, owner, size, pos, older, curBytes>>
      <3>1. Owing' = Owing /\ Stored' = Stored
        BY <1>t, <2>0, <2>1 DEF Goto, Owing, CursorTypeOK, AfterEmpty, Stored
      <3>2. Owed' = Owed
        BY <2>0, <3>1 DEF Owed
      <3>3. Stored = 0
        BY <2>1, SumEmpty DEF Stored
      <3>4. Passed' \in SUBSET Conns
        BY DEF Passed
      <3>5. Cardinality(Passed') =< Cardinality(Conns) /\ Cardinality(Conns) \in Nat
        BY <3>4, ConnsFinite, FS_Subset, FS_CardinalityType
      <3>6. SumOf(docs, Passed') =< Cardinality(Conns) * MaxDocs
        BY <1>t, <3>4, <3>5, BoundByCount
      <3>7. Promised' = SumOf(docs, Passed')
        BY <2>0 DEF Promised
      <3>8. Cardinality(Conns) * MaxDocs \in Nat
        BY <3>5, CursorBounds, Z3
      <3>9. SumOf(docs, Passed') \in Nat
        BY <1>t, <3>4, SumFacts, SumType
      <3>10. Cardinality(Conns) * MaxDocs =< Limit /\ Limit \in Int
        BY LimitFacts
      <3>11. Stored' + Promised' =< Limit
        BY <3>1, <3>3, <3>6, <3>7, <3>8, <3>9, <3>10
      <3>. QED
        BY <1>t, <2>1, <3>1, <3>2, <3>11 DEF Settled, Within, Limit
    <2>2. ASSUME NEW i \in Oldest, Remove({i}), Goto(c, Budget) PROVE Settled' /\ Within'
      <3>1. {i} \in SUBSET live
        BY DEF Oldest
      <3>2. Owing' = Owing /\ Passed' = Passed
        BY <1>t, <2>0, <2>2 DEF Goto, Owing, Passed, CursorTypeOK
      <3>. QED
        BY <1>t, <2>0, <2>2, <3>1, <3>2, RemoveSettles
    <2>. QED
      BY <1>4, <2>1, <2>2 DEF EvictOldest
  <1>5. ASSUME NEW c \in Conns, Allocate(c) PROVE Settled' /\ Within'
    <2>1. Owing' = Owing /\ Passed' = Passed /\ docs' = docs
      BY <1>t, <1>5 DEF Allocate, Goto, Owing, Passed, CursorTypeOK
    <2>2. Stored' = Stored /\ curBytes' = curBytes
      BY <1>5 DEF Allocate, Stored
    <2>. QED
      BY <1>t, <1>q, <2>1, <2>2, SameSums
  <1>6. ASSUME NEW c \in Conns, Insert(c) PROVE Settled' /\ Within'
    <2>1. /\ Passed' = Passed \ {c} /\ c \in Passed
          /\ Owing' = Owing \cup {c} /\ c \notin Owing
      BY <1>t, <1>6 DEF Insert, Goto, Owing, Passed, CursorTypeOK
    <2>2. docs' = docs /\ curBytes' = curBytes /\ docs[c] \in Nat
      BY <1>t, <1>6, SumFacts DEF Insert
    <2>3. Promised = docs[c] + Promised' /\ Promised' \in Nat
      <3>1. Promised' = SumOf(docs, Passed \ {c})
        BY <2>1, <2>2 DEF Promised
      <3>2. IsFiniteSet(Passed \ {c}) /\ \A d \in Passed : docs[d] \in Nat
        BY <1>t, SumFacts DEF Passed
      <3>3. SumOf(docs, Passed \ {c}) \in Nat
        BY <3>2, SumType
      <3>4. SumOf(docs, Passed) = docs[c] + SumOf(docs, Passed \ {c})
        BY <1>s, <2>1, <3>2, SumWithout
      <3>. QED
        BY <3>1, <3>3, <3>4 DEF Promised
    <2>4. Owed' = docs[c] + Owed
      <3>1. Owed' = SumOf(docs, Owing \cup {c})
        BY <2>1, <2>2 DEF Owed
      <3>2. IsFiniteSet(Owing \cup {c}) /\ \A d \in Owing \cup {c} : docs[d] \in Nat
        BY <1>t, SumFacts DEF Owing
      <3>3. SumOf(docs, Owing \cup {c}) = docs[c] + SumOf(docs, (Owing \cup {c}) \ {c})
        BY <3>2, SumWithout
      <3>4. (Owing \cup {c}) \ {c} = Owing
        BY <2>1
      <3>. QED
        BY <3>1, <3>3, <3>4 DEF Owed
    <2>5. Stored' = docs[c] + Stored
      <3>. DEFINE i == newID[c]
      <3>1. i \notin live /\ i \in Ids
        BY <1>6, <1>t, CursorBounds DEF Books, StoreInv, Given, Insert, CursorTypeOK, Ids
      <3>2. live' = live \cup {i} /\ size' = [size EXCEPT ![i] = docs[c]]
        BY <1>6 DEF Insert
      <3>. HIDE DEF i
      <3>3. /\ IsFiniteSet(live \cup {i})
            /\ \A j \in live : size'[j] = size[j] /\ size[j] \in Nat
            /\ size'[i] = docs[c]
        BY <1>t, <3>1, <3>2, SumFacts, FS_AddElement DEF CursorTypeOK
      <3>4. \A j \in live \cup {i} : size'[j] \in Nat
        BY <2>2, <3>3
      <3>5. SumOf(size', live \cup {i}) = size'[i] + SumOf(size', (live \cup {i}) \ {i})
        BY <3>3, <3>4, SumWithout
      <3>6. (live \cup {i}) \ {i} = live
        BY <3>1
      <3>7. SumOf(size, live) = SumOf(size', live)
        BY <1>s, <3>3, SumSame
      <3>8. Stored' = SumOf(size', live \cup {i})
        BY <3>2 DEF Stored
      <3>. QED
        BY <3>3, <3>5, <3>6, <3>7, <3>8 DEF Stored
    <2>. QED
      <3>1. Stored' + Promised' = Stored + Promised /\ Stored' - Owed' = Stored - Owed
        BY <1>s, <2>2, <2>3, <2>4, <2>5
      <3>. QED
        BY <1>t, <2>2, <3>1 DEF Settled, Within, Limit
  <1>7. ASSUME NEW c \in Conns, Account(c) PROVE Settled' /\ Within'
    <2>1. Passed' = Passed /\ c \notin Passed /\ Owing' = Owing \ {c} /\ c \in Owing
      BY <1>t, <1>7 DEF Account, Goto, Owing, Passed, CursorTypeOK
    <2>2. /\ curBytes' = curBytes + docs[c] /\ docs[c] \in Nat /\ Stored' = Stored
          /\ \A d \in Conns \ {c} : docs'[d] = docs[d]
      BY <1>t, <1>7, SumFacts DEF Account, NewBytes, Stored, CursorTypeOK
    <2>3. Promised' = Promised
      <3>1. SumOf(docs, Passed) = SumOf(docs', Passed)
        <4>1. \A d \in Passed : docs[d] = docs'[d]
          BY <2>1, <2>2 DEF Passed
        <4>. QED
          BY <1>s, <4>1, SumSame
      <3>. QED
        BY <2>1, <3>1 DEF Promised
    <2>4. Owed = docs[c] + Owed' /\ Owed' \in Int
      <3>1. IsFiniteSet(Owing \ {c}) /\ \A d \in Owing : docs[d] \in Nat
        BY <1>t, SumFacts DEF Owing
      <3>2. SumOf(docs, Owing) = docs[c] + SumOf(docs, Owing \ {c})
        BY <1>s, <2>1, <3>1, SumWithout
      <3>3. SumOf(docs, Owing \ {c}) = SumOf(docs', Owing \ {c})
        <4>1. \A d \in Owing \ {c} : docs[d] = docs'[d]
          BY <2>2 DEF Owing
        <4>. QED
          BY <3>1, <4>1, SumSame
      <3>4. SumOf(docs, Owing \ {c}) \in Nat
        BY <3>1, SumType
      <3>. QED
        BY <2>1, <3>2, <3>3, <3>4 DEF Owed
    <2>. QED
      <3>1. curBytes' = Stored' - Owed'
        BY <1>t, <1>s, <2>2, <2>4 DEF Settled
      <3>. QED
        BY <1>t, <2>2, <2>3, <3>1 DEF Settled, Within, Limit
  <1>8. ASSUME NEW c \in Conns, NEW i \in Ids, NEW b \in Batches, NextBatch(c, i, b)
        PROVE  Settled' /\ Within'
    <2>1. i \in live /\ docs' = docs /\ Owing' = Owing /\ Passed' = Passed
      BY <1>8 DEF NextBatch, Owing, Passed
    <2>2. CASE Remove({i})
      BY <1>t, <2>1, <2>2, RemoveSettles
    <2>3. CASE UNCHANGED <<live, owner, size, curBytes>>
      <3>1. Stored' = Stored /\ curBytes' = curBytes
        BY <2>3 DEF Stored
      <3>. QED
        BY <1>t, <1>q, <2>1, <3>1, SameSums
    <2>. QED
      BY <1>8, <2>2, <2>3 DEF NextBatch
  <1>9. ASSUME NEW c \in Conns, NEW i \in Ids, Kill(c, i) PROVE Settled' /\ Within'
    <2>1. /\ {i} \in SUBSET live /\ Remove({i})
          /\ docs' = docs /\ Owing' = Owing /\ Passed' = Passed
      BY <1>9 DEF Kill, Owing, Passed
    <2>. QED
      BY <1>t, <2>1, RemoveSettles
  <1>10. ASSUME NEW c \in Conns, CleanupConn(c) PROVE Settled' /\ Within'
    <2>1. OwnedBy(c) \in SUBSET live /\ Remove(OwnedBy(c)) /\ docs' = docs
      BY <1>10 DEF CleanupConn, OwnedBy
    <2>2. Owing' = Owing /\ Passed' = Passed
      BY <1>t, <1>10 DEF CleanupConn, Goto, Owing, Passed, CursorTypeOK
    <2>. QED
      BY <1>t, <2>1, <2>2, RemoveSettles
  <1>11. ASSUME PruneIdle PROVE Settled' /\ Within'
    <2>1. PICK S \in SUBSET live : Remove(S) /\ UNCHANGED <<nextID, pc, docs, newID>>
      BY <1>11 DEF PruneIdle
    <2>2. docs' = docs /\ Owing' = Owing /\ Passed' = Passed
      BY <2>1 DEF Owing, Passed
    <2>. QED
      BY <1>t, <2>1, <2>2, RemoveSettles
  <1>12. CASE UNCHANGED cursorVars
    BY <1>q, <1>12 DEF cursorVars, Stored, Owed, Promised, Owing, Passed
  <1>. QED
    BY <1>1, <1>2, <1>3, <1>4, <1>5, <1>6, <1>7, <1>8, <1>9, <1>10, <1>11, <1>12
       DEF CursorNext, RegisterStep

\* They start in order.
LEMMA BooksInit == CursorInit => Books
  <1>. SUFFICES ASSUME CursorInit PROVE Books
    OBVIOUS
  <1>. USE DEF CursorInit, PCs, Closed, Ready, Budget, Evicting, Allocating, Inserting,
           Accounting
  <1>1. CursorTypeOK
    BY CursorBounds DEF CursorTypeOK
  <1>2. Reserving = {} /\ Owing = {} /\ Passed = {}
    BY DEF Reserving, Owing, Passed
  <1>3. Reserved
    BY <1>2, FS_EmptySet, CursorBounds DEF Reserved
  <1>4. Given /\ Sized /\ Owned
    BY DEF Given, Sized, Owned
  <1>5. Stored = 0 /\ Owed = 0 /\ Promised = 0
    BY <1>2, SumEmpty DEF Stored, Owed, Promised
  <1>6. Settled /\ Within
    BY <1>5, LimitFacts DEF Settled, Within
  <1>. QED
    BY <1>1, <1>3, <1>4, <1>6 DEF Books, StoreInv

\* They stay in order.
LEMMA BooksKept == CursorSpec => []Books
  BY BooksInit, BooksStep, PTL DEF CursorSpec

\* The byte counter of Register, evictOldest, NextBatch, Kill, CleanupConn and PruneIdle
\* is the bytes of the entries less those inserted and not yet accounted for.
THEOREM BudgetExact == CursorSpec => []ByteAccounting
  <1>1. Books => ByteAccounting
    BY DEF Books, StoreInv, ByteAccounting, Settled, Stored, Owed, Owing, Bytes,
           Unaccounted, SumOf
  <1>. QED
    BY <1>1, BooksKept, PTL

\* The check and the evictions of Register keep the entries within the budget, but for
\* one result of each other connection.
THEOREM BudgetKept == CursorSpec => []OvershootBounded
  <1>1. Books => OvershootBounded
    <2>. SUFFICES ASSUME Books PROVE OvershootBounded
      OBVIOUS
    <2>1. Stored \in Nat /\ Promised \in Nat /\ Limit \in Int
      BY SumFacts, LimitFacts DEF Books, StoreInv
    <2>2. Stored =< Limit
      BY <2>1 DEF Books, Within
    <2>. QED
      BY <2>2 DEF OvershootBounded, Limit, Stored, Bytes, SumOf
  <1>. QED
    BY <1>1, BooksKept, PTL

\* CleanupConn leaves no entry of a connection that is closed, and Register adds none.
THEOREM OwnersOpen == CursorSpec => []OwnersAreOpen
  <1>1. Books => OwnersAreOpen
    BY DEF Books, StoreInv, Owned, OwnersAreOpen
  <1>. QED
    BY <1>1, BooksKept, PTL
=============================================================================
