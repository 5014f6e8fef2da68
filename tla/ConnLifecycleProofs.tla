------------------------ MODULE ConnLifecycleProofs ------------------------
(***************************************************************************)
(* Proofs about ConnLifecycle, for any number of connections and tenants   *)
(* and any limit: the two counters are exact, the limit holds, the busy    *)
(* gauge is exact as long as no connection changes tenant, and Close       *)
(* misses at most one connection.                                          *)
(***************************************************************************)
EXTENDS ConnLifecycle, FiniteSetTheorems, TLAPS

-----------------------------------------------------------------------------
(* The inductive invariant *)

\* A free slot has no identity, a connection between the two counters has one, and one
\* that is read from again after it authenticated holds a slot (unless it was refused).
Slots ==
    \A c \in Conns :
        /\ phase[c] \in {Closed, Accepted} => counted[c] = NoTenant /\ tenant[c] = NoTenant
        /\ phase[c] \in {Counting, Releasing} => counted[c] # NoTenant
        /\ phase[c] = Counting => tenant[c] # NoTenant
        /\ phase[c] \in {Reading, Handling} /\ tenant[c] # NoTenant => counted[c] # NoTenant
        /\ phase[c] = Replying => \/ tenant[c] = NoTenant \/ counted[c] # NoTenant
                                  \/ c \in refused

\* CountersExact without the types.
Counters ==
    \A t \in Tenants :
        /\ MaxConns > 0 => tenantN[t] = Cardinality(Holding(t))
        /\ authN[t] = Cardinality(Authenticated(t))

Limit == MaxConns > 0 => \A t \in Tenants : Cardinality(Holding(t)) <= MaxConns

\* A message that added to the gauge is of a connection with a slot, and is still being
\* handled; a connection with a slot that has no identity any more logged out in the
\* message it is handling, and that message added to the gauge.
InMessage ==
    \A c \in Conns :
        /\ c \in busy => phase[c] \in {Handling, Admitting, Replying} /\ counted[c] # NoTenant
        /\ phase[c] \in {Reading, Handling} /\ counted[c] # NoTenant => tenant[c] # NoTenant
        /\ phase[c] = Handling /\ tenant[c] # NoTenant => c \in busy
        /\ phase[c] \in {Admitting, Replying} /\ counted[c] # NoTenant /\ tenant[c] = NoTenant
              => c \in busy

\* As long as no connection changes tenant, its slot is its tenant's.
OneIdentity ==
    switched = {} =>
        \A c \in Conns : counted[c] # NoTenant /\ tenant[c] # NoTenant => counted[c] = tenant[c]

\* The connections whose message is on the gauge of t.
OnGauge(t) == {c \in busy : counted[c] = t}

Gauge == switched = {} => \A t \in Tenants : busyGauge[t] = Cardinality(OnGauge(t))

\* After the panic the process is gone and the gauge with it.
Alive == server # Crashed => InMessage /\ OneIdentity /\ Gauge

IInv == TypeOK /\ Slots /\ Counters /\ Limit /\ Alive

-----------------------------------------------------------------------------
(* Types, and the slots *)

USE DEF Closed, Accepted, Reading, Handling, Admitting, Counting, Replying, Leaving, Releasing,
        Serving, Draining, Stopped, Crashed

\* Every step keeps the types.
LEMMA TypeStep == TypeOK /\ Slots /\ [Next]_vars => TypeOK'
<1> SUFFICES ASSUME TypeOK, Slots, [Next]_vars PROVE TypeOK'
  OBVIOUS
<1> USE DEF TypeOK, Phases, MaybeTenant
<1>1. ASSUME NEW c \in Conns, Accept(c)
      PROVE TypeOK'
  BY <1>1 DEF Accept, Step
<1>2. ASSUME NEW c \in Conns, Track(c)
      PROVE TypeOK'
  BY <1>2 DEF Track, Step
<1>3. ASSUME NEW c \in Conns, Receive(c)
      PROVE TypeOK'
  BY <1>3 DEF Receive, Step
<1>4. ASSUME NEW c \in Conns, ReadFail(c)
      PROVE TypeOK'
  BY <1>4 DEF ReadFail, AfterReadFail, Step
<1>5. ASSUME NEW c \in Conns, OtherCommand(c)
      PROVE TypeOK'
  BY <1>5 DEF OtherCommand, Step
<1>6. ASSUME NEW c \in Conns, Logout(c)
      PROVE TypeOK'
  BY <1>6 DEF Logout, Step
<1>7. ASSUME NEW c \in Conns, NEW t \in Tenants, SaslStart(c, t)
      PROVE TypeOK'
  BY <1>7 DEF SaslStart, Step
<1>8. ASSUME NEW c \in Conns, AdmitNothing(c)
      PROVE TypeOK'
  BY <1>8 DEF AdmitNothing, Step
<1>9. ASSUME NEW c \in Conns, AdmitRefused(c)
      PROVE TypeOK'
  BY <1>9 DEF AdmitRefused, Step
<1>10. ASSUME NEW c \in Conns, AdmitOK(c)
       PROVE TypeOK'
  BY <1>10 DEF AdmitOK, MustAdmit, Step
<1>11. ASSUME NEW c \in Conns, IncAuthenticated(c)
       PROVE TypeOK'
  BY <1>11 DEF IncAuthenticated, Step, Slots
<1>12. ASSUME NEW c \in Conns, Reply(c)
       PROVE TypeOK'
  BY <1>12 DEF Reply, AfterReply, Step
<1>13. ASSUME NEW c \in Conns, LeaveUncounted(c)
       PROVE TypeOK'
  BY <1>13 DEF LeaveUncounted, Reset, Step
<1>14. ASSUME NEW c \in Conns, DecAuthenticated(c)
       PROVE TypeOK'
  BY <1>14 DEF DecAuthenticated, SlotOf, Decremented, Step
<1>15. ASSUME NEW c \in Conns, ReleaseTenantConn(c)
       PROVE TypeOK'
  BY <1>15 DEF ReleaseTenantConn, SlotOf, Decremented, Reset, Step, Slots
<1>16. CASE Close \/ HardClose
  BY <1>16 DEF Close, HardClose, Tracked
<1>17. CASE UNCHANGED vars
  BY <1>17 DEF vars
<1> QED
  BY <1>1, <1>2, <1>3, <1>4, <1>5, <1>6, <1>7, <1>8, <1>9, <1>10, <1>11, <1>12, <1>13,
     <1>14, <1>15, <1>16, <1>17 DEF Next, ConnStep

\* A connection leaves each phase with what the next one needs of it.
LEMMA SlotsStep == TypeOK /\ Slots /\ [Next]_vars => Slots'
<1> SUFFICES ASSUME TypeOK, Slots, [Next]_vars PROVE Slots'
  OBVIOUS
<1> USE DEF TypeOK, Slots, Phases, MaybeTenant
<1>1. ASSUME NEW c \in Conns, Accept(c)
      PROVE Slots'
  BY <1>1 DEF Accept, Step
<1>2. ASSUME NEW c \in Conns, Track(c)
      PROVE Slots'
  BY <1>2 DEF Track, Step
<1>3. ASSUME NEW c \in Conns, Receive(c)
      PROVE Slots'
  BY <1>3 DEF Receive, Step
<1>4. ASSUME NEW c \in Conns, ReadFail(c)
      PROVE Slots'
  BY <1>4 DEF ReadFail, AfterReadFail, Step
<1>5. ASSUME NEW c \in Conns, OtherCommand(c)
      PROVE Slots'
  BY <1>5 DEF OtherCommand, Step
<1>6. ASSUME NEW c \in Conns, Logout(c)
      PROVE Slots'
  BY <1>6 DEF Logout, Step
<1>7. ASSUME NEW c \in Conns, NEW t \in Tenants, SaslStart(c, t)
      PROVE Slots'
  BY <1>7, NoTenantIsNoTenant DEF SaslStart, Step
<1>8. ASSUME NEW c \in Conns, AdmitNothing(c)
      PROVE Slots'
  BY <1>8 DEF AdmitNothing, MustAdmit, Step
<1>9. ASSUME NEW c \in Conns, AdmitRefused(c)
      PROVE Slots'
  BY <1>9 DEF AdmitRefused, Step
<1>10. ASSUME NEW c \in Conns, AdmitOK(c)
       PROVE Slots'
  BY <1>10, NoTenantIsNoTenant DEF AdmitOK, MustAdmit, Step
<1>11. ASSUME NEW c \in Conns, IncAuthenticated(c)
       PROVE Slots'
  BY <1>11 DEF IncAuthenticated, Step
<1>12. ASSUME NEW c \in Conns, Reply(c)
       PROVE Slots'
  BY <1>12 DEF Reply, AfterReply, Step
<1>13. ASSUME NEW c \in Conns, LeaveUncounted(c)
       PROVE Slots'
  BY <1>13 DEF LeaveUncounted, Reset, Step
<1>14. ASSUME NEW c \in Conns, DecAuthenticated(c)
       PROVE Slots'
  BY <1>14 DEF DecAuthenticated, Step
<1>15. ASSUME NEW c \in Conns, ReleaseTenantConn(c)
       PROVE Slots'
  BY <1>15 DEF ReleaseTenantConn, Reset, Step
<1>16. CASE Close \/ HardClose
  BY <1>16 DEF Close, HardClose
<1>17. CASE UNCHANGED vars
  BY <1>17 DEF vars
<1> QED
  BY <1>1, <1>2, <1>3, <1>4, <1>5, <1>6, <1>7, <1>8, <1>9, <1>10, <1>11, <1>12, <1>13,
     <1>14, <1>15, <1>16, <1>17 DEF Next, ConnStep


-----------------------------------------------------------------------------
(* The counters and the limit *)

\* The connections that hold a slot of a tenant, or count as its authenticated ones, are
\* finitely many.
LEMMA FiniteHolding ==
    ASSUME NEW t
    PROVE  /\ IsFiniteSet(Holding(t)) /\ Cardinality(Holding(t)) \in Nat
           /\ IsFiniteSet(Authenticated(t)) /\ Cardinality(Authenticated(t)) \in Nat
<1>1. Holding(t) \subseteq Conns /\ Authenticated(t) \subseteq Conns
  BY DEF Holding, Authenticated
<1> QED
  BY <1>1, ConnsFinite, FS_Subset, FS_CardinalityType

\* Some of the connections that hold a slot are no more than all of them.
LEMMA FewerHolding ==
    ASSUME NEW t, NEW S \in SUBSET Holding(t)
    PROVE  Cardinality(S) \in Nat /\ Cardinality(S) <= Cardinality(Holding(t))
<1>1. IsFiniteSet(S) /\ Cardinality(S) <= Cardinality(Holding(t))
  BY FiniteHolding, FS_Subset
<1> QED
  BY <1>1, FS_CardinalityType

\* A connection that takes, keeps or gives back a slot moves itself only.
LEMMA HoldingMoves ==
    ASSUME TypeOK, NEW c \in Conns, NEW u, counted' = [counted EXCEPT ![c] = u], NEW t \in Tenants
    PROVE  Holding(t)' = IF u = t THEN Holding(t) \cup {c} ELSE Holding(t) \ {c}
  BY DEF TypeOK, Holding

\* Steps that take no slot, give none back, and do not cross the second counter.
QuietCounters ==
    /\ UNCHANGED <<counted, tenantN, authN>>
    /\ \A c \in Conns : phase'[c] \in {Counting, Releasing} <=> phase[c] \in {Counting, Releasing}

\* Such a step leaves the counters exact.
LEMMA QuietCountersStep == Counters /\ QuietCounters => Counters'
<1> SUFFICES ASSUME Counters, QuietCounters PROVE Counters'
  OBVIOUS
<1>1. \A t : Holding(t)' = Holding(t) /\ Authenticated(t)' = Authenticated(t)
  BY DEF QuietCounters, Holding, Authenticated
<1> QED
  BY <1>1 DEF Counters, QuietCounters

\* The two counters stay exact.
LEMMA CountersStep == TypeOK /\ Slots /\ Counters /\ [Next]_vars => Counters'
<1> SUFFICES ASSUME TypeOK, Slots, Counters, [Next]_vars PROVE Counters'
  OBVIOUS
\* tryAcquireTenantConn: a slot is taken, and incAuthenticated is to come.
<1>1. ASSUME NEW c \in Conns, AdmitOK(c)
      PROVE Counters'
  <2>1. PICK t \in Tenants : t = tenant[c]
    BY <1>1 DEF AdmitOK, MustAdmit, TypeOK, MaybeTenant
  <2>2. counted[c] = NoTenant /\ counted' = [counted EXCEPT ![c] = t] /\ authN' = authN
    BY <1>1, <2>1 DEF AdmitOK, MustAdmit
  <2>3. tenantN' = [tenantN EXCEPT ![t] = IF MaxConns > 0 THEN @ + 1 ELSE @]
    BY <1>1, <2>1 DEF AdmitOK
  <2>4. \A u \in Tenants : u # t => Holding(u)' = Holding(u)
    BY <2>2, HoldingMoves, NoTenantIsNoTenant DEF Holding
  <2>5. Cardinality(Holding(t)') = Cardinality(Holding(t)) + 1
    <3>1. Holding(t)' = Holding(t) \cup {c}
      BY <2>2, HoldingMoves
    <3>2. c \notin Holding(t)
      BY <2>2, NoTenantIsNoTenant DEF Holding
    <3> QED
      BY <3>1, <3>2, FiniteHolding, FS_AddElement
  <2>6. \A u \in Tenants : Authenticated(u)' = Authenticated(u)
    BY <1>1, <2>2, NoTenantIsNoTenant DEF AdmitOK, Step, Authenticated, Holding, TypeOK
  <2>7. \A u \in Tenants : MaxConns > 0 => tenantN'[u] = Cardinality(Holding(u)')
    BY <2>3, <2>4, <2>5 DEF Counters, TypeOK
  <2> QED
    BY <2>2, <2>6, <2>7 DEF Counters
\* incAuthenticated
<1>2. ASSUME NEW c \in Conns, IncAuthenticated(c)
      PROVE Counters'
  <2>1. PICK t \in Tenants : t = counted[c]
    BY <1>2 DEF IncAuthenticated, Step, Slots, TypeOK, MaybeTenant
  <2>2. /\ phase[c] = Counting /\ phase' = [phase EXCEPT ![c] = Replying]
        /\ authN' = [authN EXCEPT ![t] = @ + 1] /\ UNCHANGED <<counted, tenantN>>
    BY <1>2, <2>1 DEF IncAuthenticated, Step
  <2>3. \A u \in Tenants : Holding(u)' = Holding(u)
    BY <2>2 DEF Holding
  <2>4. \A u \in Tenants : u # t => Authenticated(u)' = Authenticated(u)
    BY <2>1, <2>2 DEF Authenticated, Holding, TypeOK
  <2>5. Cardinality(Authenticated(t)') = Cardinality(Authenticated(t)) + 1
    <3>1. Authenticated(t)' = Authenticated(t) \cup {c} /\ c \notin Authenticated(t)
      BY <2>1, <2>2 DEF Authenticated, Holding, TypeOK
    <3> QED
      BY <3>1, FiniteHolding, FS_AddElement
  <2>6. \A u \in Tenants : authN'[u] = Cardinality(Authenticated(u)')
    BY <2>2, <2>4, <2>5 DEF Counters, TypeOK
  <2> QED
    BY <2>2, <2>3, <2>6 DEF Counters
\* decAuthenticated: the counter was not zero.
<1>3. ASSUME NEW c \in Conns, DecAuthenticated(c)
      PROVE Counters'
  <2>1. PICK t \in Tenants : t = counted[c]
    BY <1>3 DEF DecAuthenticated, TypeOK, MaybeTenant
  <2>2. /\ phase[c] = Leaving /\ phase' = [phase EXCEPT ![c] = Releasing]
        /\ authN' = [authN EXCEPT ![t] = Decremented(@)] /\ UNCHANGED <<counted, tenantN>>
    BY <1>3, <2>1 DEF DecAuthenticated, SlotOf, Step
  <2>3. \A u \in Tenants : Holding(u)' = Holding(u)
    BY <2>2 DEF Holding
  <2>4. \A u \in Tenants : u # t => Authenticated(u)' = Authenticated(u)
    BY <2>1, <2>2 DEF Authenticated, Holding, TypeOK
  <2>5. /\ Cardinality(Authenticated(t)') = Cardinality(Authenticated(t)) - 1
        /\ Cardinality(Authenticated(t)) > 0
    <3>1. Authenticated(t)' = Authenticated(t) \ {c} /\ c \in Authenticated(t)
      BY <2>1, <2>2 DEF Authenticated, Holding, TypeOK
    <3> QED
      BY <3>1, FiniteHolding, FS_RemoveElement, FS_EmptySet
  <2>6. \A u \in Tenants : authN'[u] = Cardinality(Authenticated(u)')
    BY <2>2, <2>4, <2>5 DEF Counters, TypeOK, Decremented
  <2> QED
    BY <2>2, <2>3, <2>6 DEF Counters
\* releaseTenantConn: the counter was not zero, and it is that of the tenant counted.
<1>4. ASSUME NEW c \in Conns, ReleaseTenantConn(c)
      PROVE Counters'
  <2>1. PICK t \in Tenants : t = counted[c]
    BY <1>4 DEF ReleaseTenantConn, Step, Slots, TypeOK, MaybeTenant
  <2>2. /\ phase[c] = Releasing /\ phase' = [phase EXCEPT ![c] = Closed]
        /\ counted' = [counted EXCEPT ![c] = NoTenant] /\ authN' = authN
    BY <1>4 DEF ReleaseTenantConn, Reset, Step
  <2>3. tenantN' = [tenantN EXCEPT ![t] = IF MaxConns > 0 THEN Decremented(@) ELSE @]
    BY <1>4, <2>1 DEF ReleaseTenantConn, SlotOf
  <2>4. \A u \in Tenants : u # t => Holding(u)' = Holding(u)
    BY <2>1, <2>2, HoldingMoves, NoTenantIsNoTenant DEF Holding
  <2>5. /\ Cardinality(Holding(t)') = Cardinality(Holding(t)) - 1
        /\ Cardinality(Holding(t)) > 0
    <3>1. Holding(t)' = Holding(t) \ {c}
      BY <2>2, HoldingMoves, NoTenantIsNoTenant
    <3>2. c \in Holding(t)
      BY <2>1 DEF Holding
    <3> QED
      BY <3>1, <3>2, FiniteHolding, FS_RemoveElement, FS_EmptySet
  <2>6. \A u \in Tenants : Authenticated(u)' = Authenticated(u)
    BY <2>2, NoTenantIsNoTenant DEF Authenticated, Holding, TypeOK
  <2>7. \A u \in Tenants : MaxConns > 0 => tenantN'[u] = Cardinality(Holding(u)')
    BY <2>3, <2>4, <2>5 DEF Counters, TypeOK, Decremented
  <2> QED
    BY <2>2, <2>6, <2>7 DEF Counters
<1>5. ASSUME NEW c \in Conns, LeaveUncounted(c)
      PROVE Counters'
  <2>1. counted' = counted
    BY <1>5 DEF LeaveUncounted, Reset, TypeOK
  <2>2. QuietCounters
    BY <1>5, <2>1 DEF LeaveUncounted, Step, QuietCounters, TypeOK
  <2> QED
    BY <2>2, QuietCountersStep
<1>6. ASSUME NEW c \in Conns,
             \/ Accept(c) \/ Track(c) \/ Receive(c) \/ ReadFail(c)
             \/ AdmitNothing(c) \/ AdmitRefused(c) \/ Reply(c)
      PROVE Counters'
  <2>1. QuietCounters
    BY <1>6 DEF QuietCounters, TypeOK, Accept, Track, Receive, ReadFail, AfterReadFail,
       AdmitNothing, AdmitRefused, Reply, AfterReply, Step
  <2> QED
    BY <2>1, QuietCountersStep
<1>7. ASSUME NEW c \in Conns, OtherCommand(c) \/ Logout(c) \/ \E t \in Tenants : SaslStart(c, t)
      PROVE Counters'
  <2>1. QuietCounters
    BY <1>7 DEF QuietCounters, TypeOK, OtherCommand, Logout, SaslStart, Step
  <2> QED
    BY <2>1, QuietCountersStep
<1>8. CASE Close \/ HardClose \/ UNCHANGED vars
  <2>1. QuietCounters
    BY <1>8 DEF Close, HardClose, vars, QuietCounters
  <2> QED
    BY <2>1, QuietCountersStep
<1> QED
  BY <1>1, <1>2, <1>3, <1>4, <1>5, <1>6, <1>7, <1>8 DEF Next, ConnStep

\* A slot is taken only below the limit: the counter read is the number of slots held.
LEMMA LimitStep == TypeOK /\ Slots /\ Counters /\ Limit /\ [Next]_vars => Limit'
<1> SUFFICES ASSUME TypeOK, Slots, Counters, Limit, [Next]_vars, MaxConns > 0, NEW t \in Tenants
             PROVE  Cardinality(Holding(t)') <= MaxConns
  BY DEF Limit
<1>0. Cardinality(Holding(t)) <= MaxConns /\ Cardinality(Holding(t)) \in Nat
  BY FiniteHolding DEF Limit
<1>1. CASE counted' = counted
  <2>1. Holding(t)' = Holding(t)
    BY <1>1 DEF Holding
  <2> QED
    BY <1>0, <2>1
<1>2. ASSUME NEW c \in Conns, counted' = [counted EXCEPT ![c] = NoTenant]
      PROVE  Cardinality(Holding(t)') <= MaxConns
  <2>1. Holding(t)' \subseteq Holding(t)
    BY <1>2, NoTenantIsNoTenant DEF Holding, TypeOK
  <2>2. Cardinality(Holding(t)') <= Cardinality(Holding(t)) /\ Cardinality(Holding(t)') \in Nat
    BY <2>1, FewerHolding
  <2> QED
    BY <1>0, <2>2, MaxConnsNat
<1>3. ASSUME NEW c \in Conns, AdmitOK(c)
      PROVE  Cardinality(Holding(t)') <= MaxConns
  <2>1. counted' = [counted EXCEPT ![c] = tenant[c]]
    BY <1>3 DEF AdmitOK
  <2>2. CASE tenant[c] # t
    <3>1. Holding(t)' \subseteq Holding(t)
      BY <2>1, <2>2 DEF Holding, TypeOK
    <3>2. Cardinality(Holding(t)') <= Cardinality(Holding(t)) /\ Cardinality(Holding(t)') \in Nat
      BY <3>1, FewerHolding
    <3> QED
      BY <1>0, <3>2, MaxConnsNat
  <2>3. CASE tenant[c] = t
    <3>1. Holding(t)' = Holding(t) \cup {c}
      BY <2>1, <2>3, HoldingMoves
    <3>2. c \notin Holding(t)
      BY <1>3, NoTenantIsNoTenant DEF AdmitOK, MustAdmit, Holding
    <3>4. Cardinality(Holding(t)') = Cardinality(Holding(t)) + 1
      BY <3>1, <3>2, FiniteHolding, FS_AddElement
    <3>3. Cardinality(Holding(t)) < MaxConns
      BY <1>0, <1>3, <2>3, MaxConnsNat DEF AdmitOK, LimitReached, Counters
    <3> QED
      BY <1>0, <3>3, <3>4, MaxConnsNat
  <2> QED
    BY <2>2, <2>3
<1> QED
  BY <1>1, <1>2, <1>3
     DEF Next, ConnStep, vars, Accept, Track, Receive, ReadFail, OtherCommand, Logout, SaslStart,
         AdmitNothing, AdmitRefused, IncAuthenticated, Reply, LeaveUncounted, DecAuthenticated,
         ReleaseTenantConn, Reset, Close, HardClose

-----------------------------------------------------------------------------
(* The busy gauge *)

\* A message that logs out was counted when it arrived: its reply panics, so that no
\* connection that goes on has a slot and no identity.
LEMMA InMessageStep == TypeOK /\ Slots /\ InMessage /\ [Next]_vars /\ server' # Crashed => InMessage'
<1> SUFFICES ASSUME TypeOK, Slots, InMessage, [Next]_vars, server' # Crashed PROVE InMessage'
  OBVIOUS
<1> USE DEF TypeOK, Slots, InMessage, Phases, MaybeTenant
<1>1. ASSUME NEW c \in Conns, Accept(c)
      PROVE InMessage'
  BY <1>1 DEF Accept, Step
<1>2. ASSUME NEW c \in Conns, Track(c)
      PROVE InMessage'
  BY <1>2 DEF Track, Step
<1>3. ASSUME NEW c \in Conns, Receive(c)
      PROVE InMessage'
  BY <1>3 DEF Receive, Step
<1>4. ASSUME NEW c \in Conns, ReadFail(c)
      PROVE InMessage'
  BY <1>4 DEF ReadFail, AfterReadFail, Step
<1>5. ASSUME NEW c \in Conns, OtherCommand(c)
      PROVE InMessage'
  BY <1>5 DEF OtherCommand, Step
<1>6. ASSUME NEW c \in Conns, Logout(c)
      PROVE InMessage'
  BY <1>6 DEF Logout, Step
<1>7. ASSUME NEW c \in Conns, NEW t \in Tenants, SaslStart(c, t)
      PROVE InMessage'
  BY <1>7, NoTenantIsNoTenant DEF SaslStart, Step
<1>8. ASSUME NEW c \in Conns, AdmitNothing(c)
      PROVE InMessage'
  BY <1>8 DEF AdmitNothing, MustAdmit, Step
<1>9. ASSUME NEW c \in Conns, AdmitRefused(c)
      PROVE InMessage'
  BY <1>9 DEF AdmitRefused, MustAdmit, Step
<1>10. ASSUME NEW c \in Conns, AdmitOK(c)
       PROVE InMessage'
  BY <1>10, NoTenantIsNoTenant DEF AdmitOK, MustAdmit, Step
<1>11. ASSUME NEW c \in Conns, IncAuthenticated(c)
       PROVE InMessage'
  BY <1>11 DEF IncAuthenticated, Step
<1>12. ASSUME NEW c \in Conns, Reply(c)
       PROVE InMessage'
  BY <1>12 DEF Reply, WasBusy, AfterReply, Step
<1>13. ASSUME NEW c \in Conns, LeaveUncounted(c)
       PROVE InMessage'
  BY <1>13 DEF LeaveUncounted, Reset, Step
<1>14. ASSUME NEW c \in Conns, DecAuthenticated(c)
       PROVE InMessage'
  BY <1>14 DEF DecAuthenticated, Step
<1>15. ASSUME NEW c \in Conns, ReleaseTenantConn(c)
       PROVE InMessage'
  BY <1>15 DEF ReleaseTenantConn, Reset, Step
<1>16. CASE Close \/ HardClose
  BY <1>16 DEF Close, HardClose
<1>17. CASE UNCHANGED vars
  BY <1>17 DEF vars
<1> QED
  BY <1>1, <1>2, <1>3, <1>4, <1>5, <1>6, <1>7, <1>8, <1>9, <1>10, <1>11, <1>12, <1>13,
     <1>14, <1>15, <1>16, <1>17 DEF Next, ConnStep

\* Only SaslStart gives a connection with a slot another tenant, and then it is one of
\* switched.
LEMMA IdentityStep == TypeOK /\ InMessage /\ OneIdentity /\ [Next]_vars /\ server' # Crashed => OneIdentity'
<1> SUFFICES ASSUME TypeOK, InMessage, OneIdentity, [Next]_vars, server' # Crashed PROVE OneIdentity'
  OBVIOUS
<1> USE DEF TypeOK, OneIdentity, MaybeTenant
<1>1. ASSUME NEW c \in Conns, Accept(c)
      PROVE OneIdentity'
  BY <1>1 DEF Accept, Step
<1>2. ASSUME NEW c \in Conns, Track(c)
      PROVE OneIdentity'
  BY <1>2 DEF Track, Step
<1>3. ASSUME NEW c \in Conns, Receive(c)
      PROVE OneIdentity'
  BY <1>3 DEF Receive, Step
<1>4. ASSUME NEW c \in Conns, ReadFail(c)
      PROVE OneIdentity'
  BY <1>4 DEF ReadFail, Step
<1>5. ASSUME NEW c \in Conns, OtherCommand(c)
      PROVE OneIdentity'
  BY <1>5 DEF OtherCommand, Step
<1>6. ASSUME NEW c \in Conns, Logout(c)
      PROVE OneIdentity'
  BY <1>6 DEF Logout, Step
<1>7. ASSUME NEW c \in Conns, NEW t \in Tenants, SaslStart(c, t)
      PROVE OneIdentity'
  BY <1>7, NoTenantIsNoTenant DEF SaslStart, Step, InMessage
<1>8. ASSUME NEW c \in Conns, AdmitNothing(c)
      PROVE OneIdentity'
  BY <1>8 DEF AdmitNothing, Step
<1>9. ASSUME NEW c \in Conns, AdmitRefused(c)
      PROVE OneIdentity'
  BY <1>9 DEF AdmitRefused, Step
<1>10. ASSUME NEW c \in Conns, AdmitOK(c)
       PROVE OneIdentity'
  BY <1>10 DEF AdmitOK, Step
<1>11. ASSUME NEW c \in Conns, IncAuthenticated(c)
       PROVE OneIdentity'
  BY <1>11 DEF IncAuthenticated, Step
<1>12. ASSUME NEW c \in Conns, Reply(c)
       PROVE OneIdentity'
  BY <1>12 DEF Reply, Step
<1>13. ASSUME NEW c \in Conns, LeaveUncounted(c)
       PROVE OneIdentity'
  BY <1>13 DEF LeaveUncounted, Reset, Step
<1>14. ASSUME NEW c \in Conns, DecAuthenticated(c)
       PROVE OneIdentity'
  BY <1>14 DEF DecAuthenticated, Step
<1>15. ASSUME NEW c \in Conns, ReleaseTenantConn(c)
       PROVE OneIdentity'
  BY <1>15 DEF ReleaseTenantConn, Reset, Step
<1>16. CASE Close \/ HardClose
  BY <1>16 DEF Close, HardClose
<1>17. CASE UNCHANGED vars
  BY <1>17 DEF vars
<1> QED
  BY <1>1, <1>2, <1>3, <1>4, <1>5, <1>6, <1>7, <1>8, <1>9, <1>10, <1>11, <1>12, <1>13,
     <1>14, <1>15, <1>16, <1>17 DEF Next, ConnStep

\* The connections whose message is on a gauge are finitely many.
LEMMA FiniteOnGauge ==
    ASSUME TypeOK, NEW t
    PROVE  IsFiniteSet(OnGauge(t)) /\ Cardinality(OnGauge(t)) \in Nat
<1>1. OnGauge(t) \subseteq Conns
  BY DEF OnGauge, TypeOK
<1> QED
  BY <1>1, ConnsFinite, FS_Subset, FS_CardinalityType

\* Steps in which no message arrives or ends, and no connection whose message is on a
\* gauge takes a slot or gives one back.
QuietGauge ==
    /\ UNCHANGED busy
    /\ \A t \in Tenants : busyGauge'[t] = busyGauge[t]
    /\ switched \subseteq switched'
    /\ \A c \in busy : counted'[c] = counted[c]

\* Such a step leaves the gauge exact.
LEMMA QuietGaugeStep == Gauge /\ QuietGauge => Gauge'
<1> SUFFICES ASSUME Gauge, QuietGauge PROVE Gauge'
  OBVIOUS
<1>1. \A t \in Tenants : OnGauge(t)' = OnGauge(t)
  BY DEF QuietGauge, OnGauge
<1>2. switched' = {} => switched = {}
  BY DEF QuietGauge
<1> QED
  BY <1>1, <1>2 DEF Gauge, QuietGauge

\* The gauge goes up and down for the same tenant: that of the slot.
LEMMA GaugeStep ==
    TypeOK /\ Slots /\ InMessage /\ OneIdentity /\ Gauge /\ [Next]_vars /\ server' # Crashed => Gauge'
<1> SUFFICES ASSUME TypeOK, Slots, InMessage, OneIdentity, Gauge, [Next]_vars, server' # Crashed
             PROVE  Gauge'
  OBVIOUS
<1>1. ASSUME NEW c \in Conns, Receive(c)
      PROVE Gauge'
  <2>0. phase[c] = Reading /\ c \notin busy
    BY <1>1 DEF Receive, Step, InMessage
  <2>1. CASE tenant[c] = NoTenant
    <3>1. QuietGauge
      BY <1>1, <2>1, NoTenantIsNoTenant DEF Receive, QuietGauge, TypeOK
    <3> QED
      BY <3>1, QuietGaugeStep
  <2>2. CASE tenant[c] # NoTenant
    <3>1. PICK t \in Tenants : t = tenant[c]
      BY <2>2 DEF TypeOK, MaybeTenant
    <3>2. /\ busy' = busy \cup {c} /\ UNCHANGED <<counted, switched>>
          /\ \A u \in Tenants : busyGauge'[u] = IF u = t THEN busyGauge[u] + 1 ELSE busyGauge[u]
      BY <1>1, <2>2, <3>1 DEF Receive
    <3> SUFFICES ASSUME switched = {} PROVE \A u \in Tenants : busyGauge'[u] = Cardinality(OnGauge(u)')
      BY <3>2 DEF Gauge
    <3>3. counted[c] = t
      BY <2>0, <2>2, <3>1 DEF Slots, OneIdentity
    <3>4. \A u \in Tenants : u # t => OnGauge(u)' = OnGauge(u)
      BY <3>2, <3>3 DEF OnGauge
    <3>5. Cardinality(OnGauge(t)') = Cardinality(OnGauge(t)) + 1
      <4>1. OnGauge(t)' = OnGauge(t) \cup {c} /\ c \notin OnGauge(t)
        BY <2>0, <3>2, <3>3 DEF OnGauge
      <4> QED
        BY <4>1, FiniteOnGauge, FS_AddElement
    <3> QED
      BY <3>2, <3>4, <3>5 DEF Gauge
  <2> QED
    BY <2>1, <2>2
<1>2. ASSUME NEW c \in Conns, Reply(c)
      PROVE Gauge'
  <2>1. CASE c \notin busy
    <3>1. QuietGauge
      BY <1>2, <2>1 DEF Reply, WasBusy, QuietGauge, TypeOK
    <3> QED
      BY <3>1, QuietGaugeStep
  <2>2. CASE c \in busy
    <3>1. PICK t \in Tenants : t = tenant[c]
      BY <1>2, <2>2 DEF Reply, WasBusy, TypeOK, MaybeTenant
    <3>2. /\ busy' = busy \ {c} /\ UNCHANGED <<counted, switched>>
          /\ \A u \in Tenants : busyGauge'[u] = IF u = t THEN busyGauge[u] - 1 ELSE busyGauge[u]
      BY <1>2, <2>2, <3>1 DEF Reply, WasBusy
    <3> SUFFICES ASSUME switched = {} PROVE \A u \in Tenants : busyGauge'[u] = Cardinality(OnGauge(u)')
      BY <3>2 DEF Gauge
    <3>3. counted[c] = t
      BY <2>2, <3>1, NoTenantIsNoTenant DEF InMessage, OneIdentity
    <3>4. \A u \in Tenants : u # t => OnGauge(u)' = OnGauge(u)
      BY <3>2, <3>3 DEF OnGauge
    <3>5. Cardinality(OnGauge(t)') = Cardinality(OnGauge(t)) - 1
      <4>1. OnGauge(t)' = OnGauge(t) \ {c} /\ c \in OnGauge(t)
        BY <2>2, <3>2, <3>3 DEF OnGauge
      <4> QED
        BY <4>1, FiniteOnGauge, FS_RemoveElement
    <3> QED
      BY <3>2, <3>4, <3>5 DEF Gauge
  <2> QED
    BY <2>1, <2>2
\* Who takes or gives back a slot is not on a gauge.
<1>3. ASSUME NEW c \in Conns, AdmitOK(c) \/ LeaveUncounted(c) \/ ReleaseTenantConn(c)
      PROVE Gauge'
  <2>1. c \notin busy
    BY <1>3 DEF AdmitOK, MustAdmit, LeaveUncounted, ReleaseTenantConn, Step, InMessage
  <2>2. QuietGauge
    BY <1>3, <2>1 DEF AdmitOK, LeaveUncounted, ReleaseTenantConn, Reset, QuietGauge, TypeOK
  <2> QED
    BY <2>2, QuietGaugeStep
<1>4. CASE UNCHANGED <<busy, busyGauge, counted>> /\ switched \subseteq switched'
  BY <1>4, QuietGaugeStep DEF QuietGauge
<1> QED
  BY <1>1, <1>2, <1>3, <1>4
     DEF Next, ConnStep, vars, Accept, Track, ReadFail, OtherCommand, Logout, SaslStart,
         AdmitNothing, AdmitRefused, IncAuthenticated, DecAuthenticated, Close, HardClose

\* A process that panicked stays dead.
LEMMA AliveStep == TypeOK /\ Slots /\ Alive /\ [Next]_vars => Alive'
<1> SUFFICES ASSUME TypeOK, Slots, Alive, [Next]_vars, server' # Crashed
             PROVE  InMessage' /\ OneIdentity' /\ Gauge'
  BY DEF Alive
<1>1. server # Crashed
  BY DEF Next, ConnStep, vars, Accept, Track, Receive, ReadFail, OtherCommand, Logout, SaslStart,
         AdmitNothing, AdmitRefused, AdmitOK, IncAuthenticated, Reply, LeaveUncounted,
         DecAuthenticated, ReleaseTenantConn, Step, Close, HardClose
<1>2. InMessage /\ OneIdentity /\ Gauge
  BY <1>1 DEF Alive
<1> QED
  BY <1>2, InMessageStep, IdentityStep, GaugeStep

-----------------------------------------------------------------------------
(* The theorems *)

\* A server that has started has no connections and counts none.
LEMMA InitIInv == Init => IInv
<1> SUFFICES ASSUME Init PROVE IInv
  OBVIOUS
<1>1. TypeOK
  BY DEF Init, TypeOK, Phases, MaybeTenant
<1>2. Slots /\ InMessage /\ OneIdentity
  BY DEF Init, Slots, InMessage, OneIdentity
<1>3. \A t \in Tenants : Holding(t) = {} /\ Authenticated(t) = {} /\ OnGauge(t) = {}
  BY NoTenantIsNoTenant DEF Init, Holding, Authenticated, OnGauge
<1>4. Cardinality({}) = 0
  BY FS_EmptySet
<1>5. Counters /\ Gauge
  BY <1>3, <1>4 DEF Init, Counters, Gauge
<1>6. Limit
  BY <1>3, <1>4, MaxConnsNat DEF Limit
<1> QED
  BY <1>1, <1>2, <1>5, <1>6 DEF IInv, Alive

\* Every step of the server and of a connection keeps the invariant.
LEMMA NextIInv == IInv /\ [Next]_vars => IInv'
  BY TypeStep, SlotsStep, CountersStep, LimitStep, AliveStep DEF IInv

\* The invariant holds of every reachable state.
LEMMA Invariance == Spec => []IInv
  BY InitIInv, NextIInv, PTL DEF Spec

\* The counters of the per-tenant limit are exactly the connections that hold a slot
\* (tryAcquireTenantConn, incAuthenticated, decAuthenticated, releaseTenantConn).
THEOREM ExactCounters == Spec => []CountersExact
<1>1. IInv => CountersExact
  BY DEF IInv, Counters, CountersExact
<1> QED
  BY <1>1, Invariance, PTL

\* No tenant has more connections than MaxConnsPerTenant, and no connection is served
\* as a tenant without a slot (handleMsg, tryAcquireTenantConn).
THEOREM LimitKept == Spec => []LimitHolds
<1>1. IInv => LimitHolds
  BY DEF IInv, Limit, Slots, LimitHolds
<1> QED
  BY <1>1, Invariance, PTL

\* Without a change of tenant the busy gauge counts the messages being handled
\* (handleMsg and its deferred calls).
THEOREM ExactGauge == Spec => []BusyExact
<1>1. IInv => BusyExact
  BY DEF IInv, Alive, Gauge, OnGauge, BusyExact
<1> QED
  BY <1>1, Invariance, PTL

-----------------------------------------------------------------------------
(* Close *)

\* What Close has not closed, or would not close if it looked now.
Escaping == {c \in Conns : phase[c] # Closed /\ c \notin shut}

\* OneEscapes is not inductive: the accept loop may still track a connection when the
\* server has stopped, so that one counts already, and there must be only one of them.
MissesOne ==
    /\ \A c, d \in Conns : phase[c] = Accepted /\ phase[d] = Accepted => c = d
    /\ server = Stopped => \A c, d \in Escaping : c = d

\* Nothing is accepted while another connection waits to be tracked, or after Close.
LEMMA MissesOneStep == TypeOK /\ MissesOne /\ [Next]_vars => MissesOne'
<1> SUFFICES ASSUME TypeOK, MissesOne, [Next]_vars PROVE MissesOne'
  OBVIOUS
<1> USE DEF TypeOK, MissesOne, Escaping, Phases
<1>1. ASSUME NEW c \in Conns, Accept(c)
      PROVE MissesOne'
  BY <1>1 DEF Accept, LoopFree, Step
<1>2. ASSUME NEW c \in Conns, Track(c)
      PROVE MissesOne'
  BY <1>2 DEF Track, Step
<1>3. ASSUME NEW c \in Conns, Receive(c) \/ ReadFail(c)
      PROVE MissesOne'
  BY <1>3 DEF Receive, ReadFail, AfterReadFail, Step
<1>4. ASSUME NEW c \in Conns, OtherCommand(c) \/ Logout(c)
      PROVE MissesOne'
  BY <1>4 DEF OtherCommand, Logout, Step
<1>5. ASSUME NEW c \in Conns, \E t \in Tenants : SaslStart(c, t)
      PROVE MissesOne'
  BY <1>5 DEF SaslStart, Step
<1>6. ASSUME NEW c \in Conns, AdmitNothing(c) \/ AdmitRefused(c) \/ AdmitOK(c)
      PROVE MissesOne'
  BY <1>6 DEF AdmitNothing, AdmitRefused, AdmitOK, Step
<1>7. ASSUME NEW c \in Conns, IncAuthenticated(c) \/ Reply(c)
      PROVE MissesOne'
  BY <1>7 DEF IncAuthenticated, Reply, AfterReply, Step
<1>8. ASSUME NEW c \in Conns, LeaveUncounted(c) \/ DecAuthenticated(c) \/ ReleaseTenantConn(c)
      PROVE MissesOne'
  BY <1>8 DEF LeaveUncounted, DecAuthenticated, ReleaseTenantConn, Reset, Step
<1>9. CASE Close \/ HardClose
  BY <1>9 DEF Close, HardClose, Tracked
<1>10. CASE UNCHANGED vars
  BY <1>10 DEF vars
<1> QED
  BY <1>1, <1>2, <1>3, <1>4, <1>5, <1>6, <1>7, <1>8, <1>9, <1>10 DEF Next, ConnStep

\* When Close has returned, at most one connection is served that it did not close: the
\* accept loop reads draining and tracks in two steps, one connection at a time
\* (ListenAndServe, Close).
THEOREM CloseMissesOne == Spec => []OneEscapes
<1>1. Init => MissesOne
  BY DEF Init, MissesOne, Escaping
<1>2. IInv /\ MissesOne /\ [Next]_vars => MissesOne'
  BY MissesOneStep DEF IInv
<1>3. MissesOne => OneEscapes
  <2> SUFFICES ASSUME MissesOne, server = Stopped PROVE Cardinality(Tracked \ shut) <= 1
    BY DEF OneEscapes
  <2>1. Tracked \ shut \subseteq Escaping
    BY DEF Tracked, Escaping
  <2>2. \A c, d \in Tracked \ shut : c = d
    BY <2>1 DEF MissesOne
  <2>3. CASE Tracked \ shut = {}
    BY <2>3, FS_EmptySet
  <2>4. ASSUME NEW c \in Tracked \ shut PROVE Cardinality(Tracked \ shut) <= 1
    <3>1. Tracked \ shut = {c}
      BY <2>2
    <3> QED
      BY <3>1, FS_Singleton
  <2> QED
    BY <2>3, <2>4
<1> QED
  BY <1>1, <1>2, <1>3, Invariance, PTL DEF Spec
=============================================================================
