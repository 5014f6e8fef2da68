--------------------------- MODULE HandlerProofs ---------------------------
(***************************************************************************)
(* Proofs about what the command handler grants and answers.               *)
(*                                                                         *)
(* RateLimiter, for all tenants, rates, bursts and times.  The limiter     *)
(* refills a bucket only when it looks at it and forgets it when it has    *)
(* been idle.  What makes both invisible is Level: the bucket as it would  *)
(* be if it were refilled now.  Prune does not change it (IdleRefills), a  *)
(* tick adds Rate to it, and an interval that has let through as much as   *)
(* WindowBound admits has nothing left in Level.                           *)
(*                                                                         *)
(* Commands, for any logins and requests: the limiter's invariant and the  *)
(* types of the handler's state; that keys keep tenants and questions      *)
(* apart follows from what NormalizeCommand does to the nodes of a         *)
(* document, with no assumption on its size or depth.                      *)
(*                                                                         *)
(* QueryPaging, for any connections, result and batch sizes: PagingInv     *)
(* ties what a client has received to the position of the table entry      *)
(* whose id it holds, for as long as that entry is its own.                *)
(***************************************************************************)
EXTENDS RateLimiter, QueryPaging, Commands, TLAPS

-----------------------------------------------------------------------------
(* Arithmetic. *)

\* Multiplication by a natural number is monotonic (the refill of a longer time).
LEMMA TimesMonotone ==
    ASSUME NEW a \in Int, NEW b \in Int, NEW r \in Nat, a =< b
    PROVE  a * r =< b * r
  BY Z3

\* One tick more brings one Rate more.
LEMMA OneMore ==
    ASSUME NEW a \in Int, NEW r \in Int
    PROVE  (a + 1) * r = a * r + r
  BY Z3

\* The capacity of a bucket is a positive number that holds at least one command.
LEMMA CapacityType ==
    /\ Capacity \in Nat /\ Cost =< Capacity
    /\ Rate \in Nat /\ Cost \in Nat \ {0} /\ Idle \in Nat
    /\ Idle * Rate >= Capacity /\ MaxTime \in Nat
  <1>1. Burst \in Nat /\ Burst >= 1 /\ Cost \in Nat /\ Cost >= 1 /\ Rate \in Nat
    BY RateType
  <1>2. 1 * Cost =< Burst * Cost
    BY <1>1, TimesMonotone
  <1>3. Burst * Cost \in Nat
    BY <1>1, Z3
  <1>. QED
    BY <1>1, <1>2, <1>3, IdleRefills, MaxTimeNat DEF Capacity

-----------------------------------------------------------------------------
(* The inductive invariant. *)

\* Buckets were looked at and the observer has started in the past, and what the
\* observer has counted, with what is left in the bucket, is within the bound.
Past ==
    /\ \A t \in Tenants : Known(t) => buckets[t].last =< now
    /\ watch.since =< now

Spent ==
    \A t \in Tenants :
        t = watch.tenant =>
            Cost * watch.passed + Available(t) =< Capacity + Rate * (now - watch.since)

LimiterInv == LimiterTypeOK /\ Past /\ Spent

\* What a bucket holds when refilled is within its capacity.
LEMMA AvailableType ==
    ASSUME LimiterTypeOK, Past, NEW t \in Tenants
    PROVE  Available(t) \in 0..Capacity
  <1>1. Capacity \in Nat /\ Rate \in Nat
    BY CapacityType
  <1>2. CASE ~Known(t)
    BY <1>1, <1>2 DEF Available
  <1>3. CASE Known(t)
    <2>1. /\ buckets[t].tokens \in 0..Capacity /\ buckets[t].last \in 0..MaxTime
          /\ now \in 0..MaxTime /\ buckets[t].last =< now
      BY <1>3 DEF LimiterTypeOK, Past, Known, Bucket
    <2>2. now - buckets[t].last \in Nat
      BY <2>1, CapacityType
    <2>3. (now - buckets[t].last) * Rate \in Nat
      BY <2>2, <1>1, Z3
    <2>. QED
      BY <1>1, <1>3, <2>1, <2>3 DEF Available, Refilled, AtMost
  <1>. QED
    BY <1>2, <1>3

\* A tick adds Rate to every bucket, up to its capacity.
LEMMA TickRefills ==
    ASSUME LimiterTypeOK, Past, Tick, NEW t \in Tenants
    PROVE  Available(t)' = AtMost(Available(t) + Rate, Capacity)
  <1>1. Capacity \in Nat /\ Rate \in Nat
    BY CapacityType
  <1>2. buckets' = buckets /\ now' = now + 1
    BY DEF Tick
  <1>3. CASE ~Known(t)
    <2>1. Available(t) = Capacity /\ Available(t)' = Capacity
      BY <1>2, <1>3 DEF Available, Known
    <2>. QED
      BY <2>1, <1>1 DEF AtMost
  <1>4. CASE Known(t)
    <2>1. /\ buckets[t].tokens \in 0..Capacity /\ buckets[t].last \in 0..MaxTime
          /\ now \in 0..MaxTime /\ buckets[t].last =< now
      BY <1>4 DEF LimiterTypeOK, Past, Known, Bucket
    <2>. DEFINE e == now - buckets[t].last
                e1 == (now + 1) - buckets[t].last
    <2>2. e \in Nat /\ e1 = e + 1
      BY <2>1, CapacityType
    <2>3. e1 * Rate = e * Rate + Rate
      BY <2>2, <1>1, OneMore
    <2>4. e * Rate \in Nat
      BY <2>2, <1>1, Z3
    <2>5. Available(t) = AtMost(buckets[t].tokens + e * Rate, Capacity)
      BY <1>4 DEF Available, Refilled
    <2>6. Available(t)' = AtMost(buckets[t].tokens + e1 * Rate, Capacity)
      BY <1>2, <1>4 DEF Available, Refilled, Known, AtMost, Capacity
    <2>. HIDE DEF e, e1
    <2>. QED
      BY <1>1, <2>1, <2>3, <2>4, <2>5, <2>6 DEF AtMost
  <1>. QED
    BY <1>3, <1>4

\* Prune leaves every bucket as full as it was: one that is forgotten was full.
LEMMA PruneKeeps ==
    ASSUME LimiterTypeOK, Past, Prune, NEW t \in Tenants
    PROVE  Available(t)' = Available(t)
  <1>1. Capacity \in Nat /\ Rate \in Nat /\ Idle \in Nat /\ Idle * Rate >= Capacity
    BY CapacityType
  <1>2. now' = now /\ buckets'[t] = IF Forgotten(t) THEN NoBucket ELSE buckets[t]
    BY DEF Prune
  <1>3. CASE ~Forgotten(t)
    BY <1>2, <1>3 DEF Available, Known, Refilled, AtMost, Capacity
  <1>4. CASE Forgotten(t)
    <2>1. /\ Known(t) /\ buckets[t].tokens \in 0..Capacity /\ buckets[t].last \in 0..MaxTime
          /\ now \in 0..MaxTime /\ buckets[t].last < now - Idle
      BY <1>4 DEF LimiterTypeOK, Past, Known, Bucket, Forgotten
    <2>. DEFINE e == now - buckets[t].last
    <2>2. e \in Int /\ Idle =< e
      BY <2>1, <1>1, CapacityType
    <2>3. Idle * Rate =< e * Rate
      BY <2>2, <1>1, TimesMonotone
    <2>4. e * Rate \in Int /\ Idle * Rate \in Int
      BY <2>2, <1>1, Z3
    <2>5. Available(t) = AtMost(buckets[t].tokens + e * Rate, Capacity)
      BY <2>1 DEF Available, Refilled
    <2>. HIDE DEF e
    <2>6. Available(t) = Capacity
      BY <1>1, <2>1, <2>3, <2>4, <2>5 DEF AtMost
    <2>7. Available(t)' = Capacity
      BY <1>2, <1>4 DEF Available, Known, NoBucket, None, Capacity
    <2>. QED
      BY <2>6, <2>7
  <1>. QED
    BY <1>3, <1>4

-----------------------------------------------------------------------------
(* The two answers of Allow. *)

\* A bucket that was just looked at holds what was put into it.
LEMMA LookedAt ==
    ASSUME LimiterTypeOK, Past, NEW t \in Tenants, NEW k \in 0..Capacity,
           now' = now,
           buckets' = [buckets EXCEPT ![t] = [tokens |-> k, last |-> now]]
    PROVE  /\ buckets' \in [Tenants -> Bucket]
           /\ \A u \in Tenants : Available(u)' = IF u = t THEN k ELSE Available(u)
           /\ \A u \in Tenants : Known(u)' => buckets'[u].last =< now'
  <1>1. Capacity \in Nat /\ Rate \in Nat /\ MaxTime \in Nat
    BY CapacityType
  <1>2. now \in 0..MaxTime /\ buckets \in [Tenants -> Bucket]
    BY DEF LimiterTypeOK
  <1>3. buckets' \in [Tenants -> Bucket]
    BY <1>1, <1>2 DEF Bucket
  <1>4. ASSUME NEW u \in Tenants
        PROVE  /\ Available(u)' = IF u = t THEN k ELSE Available(u)
               /\ Known(u)' => buckets'[u].last =< now'
    <2>1. CASE u = t
      <3>1. buckets'[u] = [tokens |-> k, last |-> now]
        BY <1>2, <2>1
      <3>2. Known(u)'
        BY <3>1, <1>2, <1>1 DEF Known, None
      <3>3. (now' - buckets'[u].last) * Rate = 0
        BY <3>1, <1>1, <1>2, Z3
      <3>4. Available(u)' = AtMost(k + 0, Capacity)
        BY <3>1, <3>2, <3>3 DEF Available, Refilled, AtMost, Capacity
      <3>. QED
        BY <3>1, <3>4, <2>1, <1>1, <1>2 DEF AtMost
    <2>2. CASE u # t
      <3>1. buckets'[u] = buckets[u]
        BY <1>2, <2>2
      <3>. QED
        BY <3>1, <2>2 DEF Available, Refilled, Known, AtMost, Capacity, Past
    <2>. QED
      BY <2>1, <2>2
  <1>. QED
    BY <1>3, <1>4

-----------------------------------------------------------------------------
(* The invariant. *)

\* The limiter starts without buckets and with nothing observed.
LEMMA LimiterInvInit == LimiterInit => LimiterInv
  <1>. SUFFICES ASSUME LimiterInit PROVE LimiterInv
    OBVIOUS
  <1>1. Capacity \in Nat /\ Rate \in Nat /\ Cost \in Nat /\ MaxTime \in Nat
    BY CapacityType
  <1>2. /\ now = 0 /\ verdict = << >>
        /\ watch.tenant \in Tenants /\ watch.since = 0 /\ watch.passed = 0
        /\ watch \in [tenant : Tenants, since : {0}, passed : {0}]
    BY DEF LimiterInit
  <1>3. \A t \in Tenants : buckets[t] = NoBucket /\ ~Known(t) /\ Available(t) = Capacity
    BY DEF LimiterInit, NoBucket, Known, Available
  <1>4. LimiterTypeOK
    BY <1>1, <1>2 DEF LimiterInit, LimiterTypeOK, Bucket, NoBucket, None
  <1>5. Past
    BY <1>2, <1>3 DEF Past
  <1>6. Cost * watch.passed = 0 /\ Rate * (now - watch.since) = 0
    BY <1>1, <1>2, Z3
  <1>7. Spent
    BY <1>1, <1>2, <1>3, <1>6 DEF Spent
  <1>. QED
    BY <1>4, <1>5, <1>7 DEF LimiterInv

\* Every step keeps the invariant: what a command takes from the bucket is what the
\* observer counts, a tick brings both sides at most and exactly Rate, and Prune
\* changes no level.
LEMMA LimiterInvStep == LimiterInv /\ [LimiterNext]_limiterVars => LimiterInv'
  <1>. SUFFICES ASSUME LimiterInv, [LimiterNext]_limiterVars PROVE LimiterInv'
    OBVIOUS
  <1>0. LimiterTypeOK /\ Past /\ Spent
    BY DEF LimiterInv
  <1>1. /\ Capacity \in Nat /\ Rate \in Nat /\ Cost \in Nat /\ MaxTime \in Nat
        /\ now \in 0..MaxTime /\ watch.tenant \in Tenants /\ watch.since \in 0..MaxTime
        /\ watch.passed \in Nat /\ watch.since =< now
        /\ watch \in [tenant : Tenants, since : 0..MaxTime, passed : Nat]
    BY <1>0, CapacityType DEF LimiterTypeOK, Past
  <1>2. /\ Cost * watch.passed \in Nat /\ Rate * (now - watch.since) \in Nat
        /\ Cost * (watch.passed + 1) = Cost * watch.passed + Cost
        /\ Rate * ((now + 1) - watch.since) = Rate * (now - watch.since) + Rate
    <2>. DEFINE e == now - watch.since
                p == watch.passed
    <2>1. e \in Nat /\ p \in Nat /\ (now + 1) - watch.since = e + 1
      BY <1>1
    <2>. HIDE DEF e, p
    <2>2. Cost * p \in Nat /\ Rate * e \in Nat
      BY <2>1, <1>1, Z3
    <2>3. Cost * (p + 1) = Cost * p + Cost /\ Rate * (e + 1) = Rate * e + Rate
      BY <2>1, <1>1, Z3
    <2>. QED
      BY <2>1, <2>2, <2>3 DEF e, p
  <1>3. \A t \in Tenants : Available(t) \in 0..Capacity
    BY <1>0, AvailableType
  <1>4. ASSUME NEW t \in Tenants, Allow(t) PROVE LimiterInv'
    <2>1. Available(t) - Cost \in 0..Capacity
      BY <1>1, <1>3, <1>4 DEF Allow
    <2>2. now' = now /\ buckets' = [buckets EXCEPT ![t] = [tokens |-> Available(t) - Cost, last |-> now]]
      BY <1>4 DEF Allow
    <2>3. /\ buckets' \in [Tenants -> Bucket]
          /\ \A u \in Tenants : Available(u)' = IF u = t THEN Available(t) - Cost ELSE Available(u)
          /\ \A u \in Tenants : Known(u)' => buckets'[u].last =< now'
      BY <1>0, <2>1, <2>2, LookedAt
    <2>4. /\ watch'.tenant = watch.tenant /\ watch'.since = watch.since
          /\ watch'.passed = IF t = watch.tenant THEN watch.passed + 1 ELSE watch.passed
          /\ watch' \in [tenant : Tenants, since : 0..MaxTime, passed : Nat]
      BY <1>1, <1>4 DEF Allow
    <2>5. LimiterTypeOK'
      BY <1>1, <1>4, <2>2, <2>3, <2>4 DEF LimiterTypeOK, Allow, Capacity
    <2>6. Past'
      BY <1>1, <2>2, <2>3, <2>4 DEF Past
    <2>7. ASSUME NEW u \in Tenants, u = watch'.tenant
          PROVE  Cost * watch'.passed + Available(u)' =< Capacity + Rate * (now - watch.since)
      <3>1. u = watch.tenant
        BY <2>4, <2>7
      <3>2. Cost * watch.passed + Available(u) =< Capacity + Rate * (now - watch.since)
        BY <1>0, <3>1 DEF Spent
      <3>3. CASE u = t
        <4>1. Cost * watch'.passed = Cost * watch.passed + Cost
          BY <1>2, <2>4, <3>1, <3>3
        <4>2. Available(u)' = Available(t) - Cost
          BY <2>3, <3>3
        <4>. QED
          BY <1>1, <1>2, <1>3, <3>2, <3>3, <4>1, <4>2
      <3>4. CASE u # t
        BY <2>3, <2>4, <3>1, <3>2, <3>4
      <3>. QED
        BY <3>3, <3>4
    <2>8. Spent'
      BY <2>2, <2>4, <2>7 DEF Spent, Capacity
    <2>. QED
      BY <2>5, <2>6, <2>8 DEF LimiterInv
  <1>5. ASSUME NEW t \in Tenants, Deny(t) PROVE LimiterInv'
    <2>1. now' = now /\ buckets' = [buckets EXCEPT ![t] = [tokens |-> Available(t), last |-> now]]
      BY <1>5 DEF Deny
    <2>2. /\ buckets' \in [Tenants -> Bucket]
          /\ \A u \in Tenants : Available(u)' = IF u = t THEN Available(t) ELSE Available(u)
          /\ \A u \in Tenants : Known(u)' => buckets'[u].last =< now'
      BY <1>0, <1>3, <2>1, LookedAt
    <2>3. watch' = watch /\ \A u \in Tenants : Available(u)' = Available(u)
      BY <1>5, <2>2 DEF Deny
    <2>4. LimiterTypeOK'
      BY <1>0, <1>5, <2>1, <2>2, <2>3 DEF LimiterTypeOK, Deny, Capacity
    <2>5. Past'
      BY <1>0, <2>1, <2>2, <2>3 DEF Past
    <2>6. Spent'
      BY <1>0, <2>1, <2>3 DEF Spent, Capacity
    <2>. QED
      BY <2>4, <2>5, <2>6 DEF LimiterInv
  <1>6. CASE Prune
    <2>1. now' = now /\ watch' = watch /\ verdict' = verdict
      BY <1>6 DEF Prune
    <2>2. \A u \in Tenants : Available(u)' = Available(u)
      BY <1>0, <1>6, PruneKeeps
    <2>3. NoBucket \in Bucket
      BY <1>1 DEF NoBucket, Bucket, None
    <2>4. LimiterTypeOK'
      BY <1>0, <1>6, <2>1, <2>3 DEF LimiterTypeOK, Prune
    <2>5. Past'
      BY <1>0, <1>6, <2>1 DEF Past, Prune, Known, NoBucket
    <2>6. Spent'
      BY <1>0, <2>1, <2>2 DEF Spent, Capacity
    <2>. QED
      BY <2>4, <2>5, <2>6 DEF LimiterInv
  <1>7. CASE Tick
    <2>1. now' = now + 1 /\ now < MaxTime /\ UNCHANGED <<buckets, verdict, watch>>
      BY <1>7 DEF Tick
    <2>2. \A u \in Tenants : Available(u)' = AtMost(Available(u) + Rate, Capacity)
      BY <1>0, <1>7, TickRefills
    <2>3. LimiterTypeOK'
      BY <1>0, <1>1, <2>1 DEF LimiterTypeOK
    <2>4. Past'
      BY <1>0, <1>1, <2>1 DEF Past, Known, LimiterTypeOK, Bucket, None
    <2>5. ASSUME NEW u \in Tenants, u = watch.tenant
          PROVE  Cost * watch.passed + Available(u)' =< Capacity + Rate * ((now + 1) - watch.since)
      <3>1. Cost * watch.passed + Available(u) =< Capacity + Rate * (now - watch.since)
        BY <1>0, <2>5 DEF Spent
      <3>2. Available(u)' =< Available(u) + Rate /\ Available(u)' \in Int
        BY <1>1, <1>3, <2>2 DEF AtMost
      <3>. QED
        BY <1>1, <1>2, <1>3, <3>1, <3>2
    <2>6. Spent'
      BY <2>1, <2>5 DEF Spent, Capacity
    <2>. QED
      BY <2>3, <2>4, <2>6 DEF LimiterInv
  <1>8. ASSUME NEW t \in Tenants, Observe(t) PROVE LimiterInv'
    <2>1. /\ UNCHANGED <<now, buckets, verdict>>
          /\ watch'.tenant = t /\ watch'.since = now /\ watch'.passed = 0
          /\ watch' \in [tenant : Tenants, since : 0..MaxTime, passed : Nat]
      BY <1>1, <1>8 DEF Observe
    <2>2. LimiterTypeOK'
      BY <1>0, <2>1 DEF LimiterTypeOK
    <2>3. Past'
      BY <1>0, <1>1, <2>1 DEF Past, Known
    <2>4. Cost * watch'.passed = 0 /\ Rate * (now' - watch'.since) = 0
      BY <1>1, <2>1, Z3
    <2>5. \A u \in Tenants : Available(u)' = Available(u)
      BY <2>1 DEF Available, Refilled, Known
    <2>6. Spent'
      BY <1>1, <1>3, <2>4, <2>5 DEF Spent, Capacity
    <2>. QED
      BY <2>2, <2>3, <2>6 DEF LimiterInv
  <1>9. CASE UNCHANGED limiterVars
    <2>1. UNCHANGED <<now, buckets, verdict, watch>>
      BY <1>9 DEF limiterVars
    <2>. QED
      BY <1>0, <2>1 DEF LimiterInv, LimiterTypeOK, Past, Spent, Available, Refilled, Known
  <1>. QED
    BY <1>4, <1>5, <1>6, <1>7, <1>8, <1>9 DEF LimiterNext, LimiterBackground

\* The invariant holds in every reachable state of the limiter.
THEOREM LimiterInvariance == LimiterSpec => []LimiterInv
  BY LimiterInvInit, LimiterInvStep, PTL DEF LimiterSpec

\* The limiter's clock, buckets and answers keep their types; no bucket is overfull
\* or overdrawn (limiter.go Allow).
THEOREM LimiterTypeCorrect == LimiterSpec => []LimiterTypeOK
  <1>1. LimiterInv => LimiterTypeOK
    BY DEF LimiterInv
  <1>. QED
    BY <1>1, LimiterInvariance, PTL

\* However buckets are refilled late and forgotten (limiter.go Allow, Prune), no
\* interval lets a tenant send more than a burst and what the rate brings.
THEOREM LimiterBound == LimiterSpec => []WindowBound
  <1>1. LimiterInv => WindowBound
    <2>. SUFFICES ASSUME LimiterInv PROVE WindowBound
      OBVIOUS
    <2>1. /\ Capacity \in Nat /\ Rate \in Nat /\ Cost \in Nat /\ MaxTime \in Nat
          /\ now \in 0..MaxTime /\ watch.tenant \in Tenants /\ watch.since \in 0..MaxTime
          /\ watch.passed \in Nat /\ watch.since =< now
      BY CapacityType DEF LimiterInv, LimiterTypeOK, Past
    <2>2. Available(watch.tenant) \in 0..Capacity
      BY <2>1, AvailableType DEF LimiterInv
    <2>3. Cost * watch.passed + Available(watch.tenant) =< Capacity + Rate * (now - watch.since)
      BY <2>1 DEF LimiterInv, Spent
    <2>. DEFINE e == now - watch.since
    <2>4. e \in Nat
      BY <2>1
    <2>. HIDE DEF e
    <2>5. Cost * watch.passed \in Nat /\ Rate * e \in Nat
      BY <2>1, <2>4, Z3
    <2>. QED
      BY <2>1, <2>2, <2>3, <2>5 DEF e, WindowBound
  <1>. QED
    BY <1>1, LimiterInvariance, PTL

-----------------------------------------------------------------------------
(* The refinement. *)

\* The buckets of limiter.go, refilled when they are looked at and forgotten when they
\* are idle, answer as the buckets of TokenBucket do.
THEOREM Refinement == LimiterSpec => Implements
  <1>1. LimiterInit => Promise!Init
    <2>. SUFFICES ASSUME LimiterInit PROVE Promise!Init
      OBVIOUS
    <2>1. \A t \in Tenants : Available(t) = Capacity
      BY DEF LimiterInit, NoBucket, Known, Available
    <2>. QED
      BY <2>1 DEF LimiterInit, Promise!Init, Level, Promise!Capacity, Capacity
  <1>2. LimiterInv /\ [LimiterNext]_limiterVars => [Promise!Next]_<<Level, verdict>>
    <2>. SUFFICES ASSUME LimiterInv, [LimiterNext]_limiterVars
                  PROVE  [Promise!Next]_<<Level, verdict>>
      OBVIOUS
    <2>0. LimiterTypeOK /\ Past /\ Capacity \in Nat /\ Cost \in Nat
      BY CapacityType DEF LimiterInv
    <2>1. \A t \in Tenants : Available(t) \in 0..Capacity
      BY <2>0, AvailableType
    <2>2. ASSUME NEW t \in Tenants, Allow(t) PROVE Promise!Take(t)
      <3>1. Available(t) - Cost \in 0..Capacity
        BY <2>0, <2>1, <2>2 DEF Allow
      <3>2. \A u \in Tenants : Available(u)' = IF u = t THEN Available(t) - Cost ELSE Available(u)
        BY <2>0, <2>2, <3>1, LookedAt DEF Allow
      <3>3. Level' = [Level EXCEPT ![t] = @ - Cost]
        BY <3>2 DEF Level
      <3>. QED
        BY <2>2, <3>3 DEF Promise!Take, Allow, Level
    <2>3. ASSUME NEW t \in Tenants, Deny(t) PROVE Promise!Refuse(t)
      <3>1. \A u \in Tenants : Available(u)' = IF u = t THEN Available(t) ELSE Available(u)
        BY <2>0, <2>1, <2>3, LookedAt DEF Deny
      <3>2. Level' = Level
        BY <3>1 DEF Level
      <3>. QED
        BY <2>3, <3>2 DEF Promise!Refuse, Deny, Level
    <2>4. CASE Prune
      <3>1. \A u \in Tenants : Available(u)' = Available(u)
        BY <2>0, <2>4, PruneKeeps
      <3>2. Level' = Level
        BY <3>1 DEF Level
      <3>. QED
        BY <2>4, <3>2 DEF Prune
    <2>5. CASE Tick
      <3>1. \A u \in Tenants : Available(u)' = AtMost(Available(u) + Rate, Capacity)
        BY <2>0, <2>5, TickRefills
      <3>2. Promise!Tick
        BY <2>5, <3>1 DEF Promise!Tick, Level, Tick, AtMost, Promise!AtMost, Promise!Capacity, Capacity
      <3>. QED
        BY <3>2 DEF Promise!Next
    <2>6. ASSUME NEW t \in Tenants, Observe(t) PROVE UNCHANGED <<Level, verdict>>
      BY <2>6 DEF Observe, Level, Available, Refilled, Known
    <2>7. CASE UNCHANGED limiterVars
      BY <2>7 DEF limiterVars, Level, Available, Refilled, Known
    <2>. QED
      BY <2>2, <2>3, <2>4, <2>5, <2>6, <2>7 DEF LimiterNext, LimiterBackground, Promise!Next
  <1>. QED
    BY <1>1, <1>2, LimiterInvariance, PTL DEF LimiterSpec, Implements, Promise!Spec
-----------------------------------------------------------------------------
(* Paging: the invariant *)

\* A client that pages holds the id of a table entry.  As long as the entry is its
\* own, it is at the document the client is to receive next, and it holds as many
\* documents as the client is to receive in all.
AtEntry(c, i) ==
    /\ conn[c].id = <<"backend", i>> /\ backend[i].conn = c =>
          /\ conn[c].got = backend[i].pos
          /\ conn[c].want = Total
    /\ conn[c].id = <<"cached", i>> /\ emulated[i].conn = c =>
          /\ conn[c].got = emulated[i].pos
          /\ conn[c].want = emulated[i].docs
          /\ emulated[i].pos <= emulated[i].docs

HoldsId(c) == \E i \in Ids : conn[c].id \in {<<"backend", i>>, <<"cached", i>>}

PagingOf(c) ==
    conn[c].phase = "paging" => HoldsId(c) /\ \A i \in Ids : AtEntry(c, i)

\* A read that has ended has delivered what its source held.
CompleteOf(c) == conn[c].phase = "done" => conn[c].got = conn[c].want

PagingInv ==
    /\ TypeOK
    /\ \A c \in Conns : CompleteOf(c) /\ PagingOf(c)
    /\ NoCursorOfClosed

-----------------------------------------------------------------------------
(* Operators *)

\* The smaller of two numbers: the size of a batch, the end of a slice.
LEMMA MinOfTwo ==
    ASSUME NEW a \in Int, NEW b \in Int
    PROVE  Min({a, b}) = IF a =< b THEN a ELSE b
  <1>. DEFINE m == IF a =< b THEN a ELSE b
  <1>1. m \in {a, b} /\ \A y \in {a, b} : m =< y
    OBVIOUS
  <1>2. \A x \in {a, b} : (\A y \in {a, b} : x =< y) => x = m
    OBVIOUS
  <1>. QED
    BY <1>1, <1>2 DEF Min

\* The first batch is a part of the documents, and all of them if it is not full.
LEMMA FirstBatchType ==
    ASSUME NEW b \in Batches
    PROVE  /\ FirstBatch(b) \in 0..Total
           /\ ~ KeepsCursor(b) => FirstBatch(b) = Total
           /\ Kept(b) = IF KeepsCursor(b) THEN 1 ELSE 0
  <1>1. b \in Nat /\ Total \in Nat
    BY SizesNat
  <1>2. FirstBatch(b) = IF Total =< b THEN Total ELSE b
    BY <1>1, MinOfTwo DEF FirstBatch
  <1>. QED
    BY <1>1, <1>2 DEF KeepsCursor, Kept

\* The two tables' ids are different from each other and from no id.
LEMMA IdsDiffer ==
    /\ \A i, j \in Ids : <<"backend", i>> # <<"cached", j>>
    /\ \A i, j \in Ids : <<"backend", i>> = <<"backend", j>> => i = j
    /\ \A i, j \in Ids : <<"cached", i>> = <<"cached", j>> => i = j
  OBVIOUS

-----------------------------------------------------------------------------
(* Kinds of steps *)

\* Every entry of the two tables stays as it is, goes, or is client c's.
Untouched(c) ==
    /\ \A i \in Ids : backend'[i] = backend[i] \/ backend'[i].conn \in {c, NoConn}
    /\ \A i \in Ids : emulated'[i] = emulated[i] \/ emulated'[i].conn \in {c, NoConn}

\* A step of client c concerns no other client.
LEMMA OthersKeep ==
    ASSUME PagingInv, NEW c \in Conns, NEW d \in Conns, d # c,
           conn'[d] = conn[d], Untouched(c)
    PROVE  (CompleteOf(d) /\ PagingOf(d))'
  <1>1. CompleteOf(d) /\ PagingOf(d)
    BY DEF PagingInv
  <1>2. CompleteOf(d)'
    BY <1>1 DEF CompleteOf
  <1>3. HoldsId(d) => HoldsId(d)'
    BY DEF HoldsId
  <1>4. ASSUME NEW i \in Ids, AtEntry(d, i) PROVE AtEntry(d, i)'
    <2>1. backend'[i].conn = d => backend'[i] = backend[i]
      BY NoConnIsNoConn DEF Untouched
    <2>2. emulated'[i].conn = d => emulated'[i] = emulated[i]
      BY NoConnIsNoConn DEF Untouched
    <2>. QED
      BY <1>4, <2>1, <2>2 DEF AtEntry
  <1>. QED
    BY <1>1, <1>2, <1>3, <1>4 DEF PagingOf

\* A step of client c, which leaves it in state r.
LEMMA ClientStep ==
    ASSUME PagingInv, TypeOK', NEW c \in Conns, NEW r \in Client,
           conn' = [conn EXCEPT ![c] = r], Untouched(c),
           r.phase # "closed" \/ \A i \in Ids : /\ backend'[i].conn # c
                                                /\ emulated'[i].conn # c,
           r.phase = "done" => r.got = r.want,
           PagingOf(c)'
    PROVE  PagingInv'
  <1>1. conn'[c] = r /\ \A d \in Conns \ {c} : conn'[d] = conn[d]
    BY DEF PagingInv, TypeOK
  <1>2. CompleteOf(c)'
    BY <1>1 DEF CompleteOf
  <1>3. \A d \in Conns : (CompleteOf(d) /\ PagingOf(d))'
    BY <1>1, <1>2, OthersKeep
  <1>4. NoCursorOfClosed'
    <2>. SUFFICES ASSUME NEW i \in Ids
                  PROVE  /\ backend'[i].conn \in Conns => conn'[backend'[i].conn].phase # "closed"
                         /\ emulated'[i].conn \in Conns => conn'[emulated'[i].conn].phase # "closed"
      BY DEF NoCursorOfClosed
    <2>1. ASSUME backend'[i].conn \in Conns
          PROVE  conn'[backend'[i].conn].phase # "closed"
      BY <2>1, <1>1, NoConnIsNoConn DEF Untouched, PagingInv, NoCursorOfClosed
    <2>2. ASSUME emulated'[i].conn \in Conns
          PROVE  conn'[emulated'[i].conn].phase # "closed"
      BY <2>2, <1>1, NoConnIsNoConn DEF Untouched, PagingInv, NoCursorOfClosed
    <2>. QED
      BY <2>1, <2>2
  <1>. QED
    BY <1>3, <1>4 DEF PagingInv

\* A step that concerns no client: entries stay as they are or go.
LEMMA TableStep ==
    ASSUME PagingInv, TypeOK', conn' = conn,
           \A i \in Ids : backend'[i] \in {backend[i], NoBackend},
           \A i \in Ids : emulated'[i] \in {emulated[i], NoEmulated}
    PROVE  PagingInv'
  <1>1. \A i \in Ids : backend'[i] = backend[i] \/ backend'[i].conn = NoConn
    BY DEF NoBackend
  <1>2. \A i \in Ids : emulated'[i] = emulated[i] \/ emulated'[i].conn = NoConn
    BY DEF NoEmulated
  <1>3. ASSUME NEW c \in Conns PROVE (CompleteOf(c) /\ PagingOf(c))'
    <2>1. CompleteOf(c) /\ PagingOf(c)
      BY DEF PagingInv
    <2>2. \A i \in Ids : AtEntry(c, i) => AtEntry(c, i)'
      BY <1>1, <1>2, NoConnIsNoConn DEF AtEntry
    <2>. QED
      BY <2>1, <2>2 DEF CompleteOf, PagingOf, HoldsId
  <1>4. NoCursorOfClosed'
    BY <1>1, <1>2, NoConnIsNoConn DEF NoCursorOfClosed, PagingInv
  <1>. QED
    BY <1>3, <1>4 DEF PagingInv

\* A step after which client c holds no cursor that it knows of and expects none:
\* an error, a killed cursor, a new connection.
LEMMA ReadyStep ==
    ASSUME PagingInv, NEW c \in Conns, conn' = [conn EXCEPT ![c] = Fresh("ready")],
           Untouched(c),
           cache' \in [Batches -> {NoResult} \cup 0..Total],
           backend' \in [Ids -> [conn : Conns \cup {NoConn}, pos : 0..Total]],
           emulated' \in [Ids -> [conn : Conns \cup {NoConn}, docs : 0..Total, pos : 0..Total]],
           ids' \in [{"backend", "cached"} -> 0..MaxIds]
    PROVE  PagingInv'
  <1>1. Fresh("ready") \in Client /\ Fresh("ready").phase = "ready"
    BY DEF Fresh, Client, CursorIds
  <1>2. conn' \in [Conns -> Client] /\ conn'[c].phase = "ready"
    BY <1>1 DEF PagingInv, TypeOK
  <1>3. TypeOK'
    BY <1>2 DEF TypeOK
  <1>4. PagingOf(c)'
    BY <1>2 DEF PagingOf
  <1>. QED
    BY <1>1, <1>3, <1>4, ClientStep

-----------------------------------------------------------------------------
(* The replies of a read *)

\* The ids that a command takes are ids.
LEMMA TakenIds ==
    ASSUME TypeOK, NEW nb \in Nat, NEW ne \in Nat, TakeIds(nb, ne)
    PROVE  /\ ids' \in [{"backend", "cached"} -> 0..MaxIds]
           /\ nb > 0 => ids["backend"] + nb \in Ids
           /\ ne > 0 => ids["cached"] + ne \in Ids
  <1>1. ids["backend"] \in 0..MaxIds /\ ids["cached"] \in 0..MaxIds
    BY DEF TypeOK
  <1>2. ids["backend"] + nb \in 0..MaxIds /\ ids["cached"] + ne \in 0..MaxIds
    BY <1>1, SizesNat DEF TakeIds
  <1>3. ids' = [ids EXCEPT !["backend"] = ids["backend"] + nb, !["cached"] = ids["cached"] + ne]
    BY DEF TakeIds, TypeOK
  <1>. QED
    BY <1>1, <1>2, <1>3 DEF TypeOK, Ids

\* Registering cursors for c with a first batch of b puts them after that batch.
LEMMA Registered ==
    ASSUME TypeOK, NEW c \in Conns, NEW b \in Batches, NEW n,
           backend' = RegisterBackend(c, b, n)
    PROVE  /\ backend' \in [Ids -> [conn : Conns \cup {NoConn}, pos : 0..Total]]
           /\ \A i \in Ids : backend'[i] = backend[i] \/ backend'[i].conn = c
           /\ KeepsCursor(b) =>
                 \A i \in Ids : i \in n => backend'[i] = [conn |-> c, pos |-> FirstBatch(b)]
  BY FirstBatchType DEF RegisterBackend, TypeOK

\* A passthrough read that registers its n-th new cursor for the client.
LEMMA PassStep ==
    ASSUME PagingInv, NEW c \in Conns, NEW b \in Batches, NEW n \in {1, 2},
           TakeIds(n * Kept(b), 0),
           backend' = RegisterBackend(c, b, NextBackend(n)),
           PassReply(c, b, ids["backend"] + n),
           cache' \in [Batches -> {NoResult} \cup 0..Total],
           emulated' = emulated
    PROVE  PagingInv'
  <1>. DEFINE i == ids["backend"] + n
  <1>. DEFINE r == [phase |-> IF KeepsCursor(b) THEN "paging" ELSE "done",
                    via |-> "backend",
                    id |-> IF KeepsCursor(b) THEN <<"backend", i>> ELSE NoCursor,
                    want |-> Total,
                    got |-> FirstBatch(b)]
  <1>1. TypeOK
    BY DEF PagingInv
  <1>2. Kept(b) \in {0, 1} /\ n * Kept(b) \in Nat /\ (KeepsCursor(b) => n * Kept(b) = n)
    BY FirstBatchType
  <1>3. ids' \in [{"backend", "cached"} -> 0..MaxIds] /\ (KeepsCursor(b) => i \in Ids)
    BY <1>1, <1>2, TakenIds
  <1>4. i \in NextBackend(n)
    BY <1>1 DEF NextBackend, TypeOK
  <1>5. /\ backend' \in [Ids -> [conn : Conns \cup {NoConn}, pos : 0..Total]]
        /\ \A j \in Ids : backend'[j] = backend[j] \/ backend'[j].conn = c
        /\ KeepsCursor(b) => backend'[i] = [conn |-> c, pos |-> FirstBatch(b)]
    BY <1>1, <1>3, <1>4, Registered
  <1>6. r \in Client
    BY <1>3, FirstBatchType, SizesNat DEF Client, CursorIds
  <1>7. conn' = [conn EXCEPT ![c] = r]
    BY DEF PassReply
  <1>8. conn' \in [Conns -> Client] /\ conn'[c] = r
    BY <1>1, <1>6, <1>7 DEF TypeOK
  <1>9. TypeOK'
    BY <1>1, <1>3, <1>5, <1>8 DEF TypeOK
  <1>10. Untouched(c)
    BY <1>5 DEF Untouched
  <1>11. r.phase = "done" => r.got = r.want
    BY FirstBatchType
  <1>12. PagingOf(c)'
    <2>. SUFFICES ASSUME KeepsCursor(b) PROVE (HoldsId(c) /\ \A j \in Ids : AtEntry(c, j))'
      BY <1>8 DEF PagingOf
    <2>1. conn'[c].id = <<"backend", i>> /\ conn'[c].got = FirstBatch(b) /\ conn'[c].want = Total
      BY <1>8
    <2>2. HoldsId(c)'
      BY <1>3, <2>1 DEF HoldsId
    <2>3. ASSUME NEW j \in Ids PROVE AtEntry(c, j)'
      <3>1. conn'[c].id = <<"backend", j>> => j = i
        BY <1>3, <2>1, IdsDiffer
      <3>2. conn'[c].id # <<"cached", j>>
        BY <1>3, <2>1, IdsDiffer
      <3>. QED
        BY <1>5, <2>1, <3>1, <3>2 DEF AtEntry
    <2>. QED
      BY <2>2, <2>3
  <1>. HIDE DEF r
  <1>13. r.phase # "closed"
    BY DEF r
  <1>. QED
    BY <1>6, <1>7, <1>9, <1>10, <1>11, <1>12, <1>13, ClientStep

\* A read answered from a cached result, or from one just loaded, of n documents.
LEMMA CachedStep ==
    ASSUME PagingInv, NEW c \in Conns, NEW n \in 0..Total, NEW nb \in Nat,
           TakeIds(nb, Emulates(n)), CachedReply(c, n),
           cache' \in [Batches -> {NoResult} \cup 0..Total],
           backend' \in [Ids -> [conn : Conns \cup {NoConn}, pos : 0..Total]],
           \A j \in Ids : backend'[j] = backend[j] \/ backend'[j].conn = c
    PROVE  PagingInv'
  <1>1. TypeOK
    BY DEF PagingInv
  <1>2. n \in Nat /\ DefaultBatch \in Nat /\ Total \in Nat
    BY SizesNat
  <1>3. CASE DefaultBatch >= n
    <2>. DEFINE r == [phase |-> "done", via |-> "cached", id |-> NoCursor,
                      want |-> n, got |-> n]
    <2>1. conn' = [conn EXCEPT ![c] = r] /\ emulated' = emulated
      BY <1>3 DEF CachedReply
    <2>2. ids' \in [{"backend", "cached"} -> 0..MaxIds]
      <3>1. TakeIds(nb, 0)
        BY <1>3 DEF Emulates
      <3>. QED
        BY <1>1, <3>1, TakenIds
    <2>3. r \in Client /\ r.phase = "done" /\ r.got = r.want
      BY <1>2 DEF Client, CursorIds
    <2>4. conn' \in [Conns -> Client] /\ conn'[c].phase = "done"
      BY <1>1, <2>1, <2>3 DEF TypeOK
    <2>5. TypeOK'
      BY <1>1, <2>1, <2>2, <2>4 DEF TypeOK
    <2>6. Untouched(c) /\ PagingOf(c)'
      BY <2>1, <2>4 DEF Untouched, PagingOf
    <2>. HIDE DEF r
    <2>. QED
      BY <2>1, <2>3, <2>5, <2>6, ClientStep
  <1>4. CASE ~ (DefaultBatch >= n)
    <2>. DEFINE i == ids["cached"] + 1
    <2>. DEFINE r == [phase |-> "paging", via |-> "cached", id |-> <<"cached", i>>,
                      want |-> n, got |-> DefaultBatch]
    <2>. DEFINE e == [conn |-> c, docs |-> n, pos |-> DefaultBatch]
    <2>1. conn' = [conn EXCEPT ![c] = r] /\ emulated' = [emulated EXCEPT ![i] = e]
      BY <1>4 DEF CachedReply, StartPos
    <2>2. ids' \in [{"backend", "cached"} -> 0..MaxIds] /\ i \in Ids
      <3>1. TakeIds(nb, 1)
        BY <1>4 DEF Emulates
      <3>. QED
        BY <1>1, <3>1, TakenIds
    <2>3. r \in Client /\ r.phase = "paging"
      BY <1>2, <2>2 DEF Client, CursorIds
    <2>4. conn' \in [Conns -> Client] /\ conn'[c] = r
      BY <1>1, <2>1, <2>3 DEF TypeOK
    <2>5. DefaultBatch \in 0..Total /\ n \in 0..Total
      BY <1>2, <1>4
    <2>6. /\ emulated' \in [Ids -> [conn : Conns \cup {NoConn}, docs : 0..Total, pos : 0..Total]]
          /\ emulated'[i] = e
          /\ \A j \in Ids : emulated'[j] = emulated[j] \/ emulated'[j].conn = c
      BY <1>1, <2>1, <2>2, <2>5 DEF TypeOK
    <2>7. TypeOK'
      BY <1>1, <2>2, <2>4, <2>6 DEF TypeOK
    <2>8. Untouched(c)
      BY <2>6 DEF Untouched
    <2>9. PagingOf(c)'
      <3>1. conn'[c].id = <<"cached", i>> /\ conn'[c].got = DefaultBatch /\ conn'[c].want = n
        BY <2>4
      <3>2. HoldsId(c)'
        BY <2>2, <3>1 DEF HoldsId
      <3>3. ASSUME NEW j \in Ids PROVE AtEntry(c, j)'
        <4>1. conn'[c].id = <<"cached", j>> => j = i
          BY <2>2, <3>1, IdsDiffer
        <4>2. conn'[c].id # <<"backend", j>>
          BY <2>2, <3>1, IdsDiffer
        <4>. QED
          BY <1>2, <1>4, <2>6, <3>1, <4>1, <4>2 DEF AtEntry
      <3>. QED
        BY <3>2, <3>3 DEF PagingOf
    <2>. HIDE DEF r, i, e
    <2>10. r.phase = "paging"
      BY <2>3
    <2>. QED
      BY <2>1, <2>3, <2>7, <2>8, <2>9, <2>10, ClientStep
  <1>. QED
    BY <1>3, <1>4

-----------------------------------------------------------------------------
(* getMore *)

\* What a batch makes of the client that receives it.
LEMMA ReceivedIs ==
    ASSUME TypeOK, NEW c \in Conns, NEW n \in Int, NEW last \in BOOLEAN,
           conn[c].got + n \in Nat, Received(c, n, last)
    PROVE  \E r \in Client :
              /\ conn' = [conn EXCEPT ![c] = r]
              /\ r.phase = IF last THEN "done" ELSE "paging"
              /\ r.id = IF last THEN NoCursor ELSE conn[c].id
              /\ r.got = conn[c].got + n
              /\ r.want = conn[c].want
  <1>. DEFINE r == [conn[c] EXCEPT !.got = conn[c].got + n,
                                   !.phase = IF last THEN "done" ELSE "paging",
                                   !.id = IF last THEN NoCursor ELSE conn[c].id]
  <1>1. conn[c] \in Client
    BY DEF TypeOK
  <1>2. r \in Client
    BY <1>1 DEF Client, CursorIds
  <1>3. conn' = [conn EXCEPT ![c] = r]
    BY <1>1 DEF Received, TypeOK
  <1>4. /\ r.phase = IF last THEN "done" ELSE "paging"
        /\ r.id = IF last THEN NoCursor ELSE conn[c].id
        /\ r.got = conn[c].got + n
        /\ r.want = conn[c].want
    BY <1>1 DEF Client
  <1>. QED
    BY <1>2, <1>3, <1>4

\* A batch of an emulated cursor, from its position to the end of the batch or of
\* the result.
LEMMA GetMoreCachedKeeps ==
    ASSUME PagingInv, NEW c \in Conns, NEW i \in Ids, NEW b \in Batches,
           GetMoreCached(c, i, b)
    PROVE  PagingInv'
  <1>. DEFINE e == emulated[i]
  <1>. DEFINE end == Min({e.pos + b, e.docs})
  <1>. DEFINE last == end >= e.docs
  <1>1. TypeOK
    BY DEF PagingInv
  <1>2. e.pos \in 0..Total /\ e.docs \in 0..Total /\ e.conn = c
    BY <1>1 DEF TypeOK, GetMoreCached
  <1>3. AtEntry(c, i) /\ conn[c].id = <<"cached", i>>
    BY DEF PagingInv, PagingOf, GetMoreCached
  <1>4. conn[c].got = e.pos /\ conn[c].want = e.docs /\ e.pos =< e.docs
    BY <1>2, <1>3 DEF AtEntry
  <1>5. b \in Nat /\ Total \in Nat
    BY SizesNat
  <1>6. end = IF e.pos + b =< e.docs THEN e.pos + b ELSE e.docs
    BY <1>2, <1>5, MinOfTwo
  <1>7. end \in 0..Total /\ end =< e.docs /\ (last => end = e.docs)
    BY <1>2, <1>4, <1>5, <1>6
  <1>8. conn[c].got + (end - e.pos) = end
    BY <1>2, <1>4, <1>7
  <1>9. PICK r \in Client :
              /\ conn' = [conn EXCEPT ![c] = r]
              /\ r.phase = IF last THEN "done" ELSE "paging"
              /\ r.id = IF last THEN NoCursor ELSE conn[c].id
              /\ r.got = end
              /\ r.want = e.docs
    <2>1. Received(c, end - e.pos, last) /\ end - e.pos \in Int /\ last \in BOOLEAN
      BY <1>2, <1>7 DEF GetMoreCached
    <2>. HIDE DEF last, end
    <2>. QED
      BY <1>1, <1>4, <1>7, <1>8, <2>1, ReceivedIs
  <1>10. emulated' = [emulated EXCEPT ![i] = IF last THEN NoEmulated ELSE [e EXCEPT !.pos = end]]
    BY DEF GetMoreCached
  <1>11. [e EXCEPT !.pos = end] = [conn |-> c, docs |-> e.docs, pos |-> end]
    BY <1>1, <1>2 DEF TypeOK
  <1>. HIDE DEF end, last
  <1>12. /\ emulated' \in [Ids -> [conn : Conns \cup {NoConn}, docs : 0..Total, pos : 0..Total]]
         /\ \A j \in Ids \ {i} : emulated'[j] = emulated[j]
         /\ emulated'[i] = IF last THEN NoEmulated ELSE [conn |-> c, docs |-> e.docs, pos |-> end]
    BY <1>1, <1>2, <1>5, <1>7, <1>10, <1>11 DEF TypeOK, NoEmulated
  <1>13. conn' \in [Conns -> Client] /\ conn'[c] = r
    BY <1>1, <1>9 DEF TypeOK
  <1>14. TypeOK'
    BY <1>1, <1>12, <1>13 DEF TypeOK, GetMoreCached
  <1>15. Untouched(c)
    BY <1>12 DEF Untouched, NoEmulated, GetMoreCached
  <1>16. PagingOf(c)'
    <2>. SUFFICES ASSUME ~ last PROVE (HoldsId(c) /\ \A j \in Ids : AtEntry(c, j))'
      BY <1>9, <1>13 DEF PagingOf
    <2>1. conn'[c].id = <<"cached", i>> /\ conn'[c].got = end /\ conn'[c].want = e.docs
      BY <1>3, <1>9, <1>13
    <2>2. HoldsId(c)'
      BY <2>1 DEF HoldsId
    <2>3. ASSUME NEW j \in Ids PROVE AtEntry(c, j)'
      <3>1. conn'[c].id = <<"cached", j>> => j = i
        BY <2>1, IdsDiffer
      <3>2. conn'[c].id # <<"backend", j>>
        BY <2>1, IdsDiffer
      <3>. QED
        BY <1>7, <1>12, <2>1, <3>1, <3>2 DEF AtEntry
    <2>. QED
      BY <2>2, <2>3
  <1>17. r.phase # "closed" /\ (r.phase = "done" => r.got = r.want)
    BY <1>7, <1>9
  <1>. QED
    BY <1>9, <1>14, <1>15, <1>16, <1>17, ClientStep

\* A batch of a backend cursor: as many documents as asked for, or what is left.
LEMMA GetMoreBackendKeeps ==
    ASSUME PagingInv, NEW c \in Conns, NEW i \in Ids, NEW b \in Batches,
           GetMoreBackend(c, i, b)
    PROVE  PagingInv'
  <1>. DEFINE e == backend[i]
  <1>. DEFINE n == BackendBatch(i, b)
  <1>. DEFINE last == n < b
  <1>1. TypeOK
    BY DEF PagingInv
  <1>2. e.pos \in 0..Total /\ e.conn = c
    BY <1>1 DEF TypeOK, GetMoreBackend
  <1>3. AtEntry(c, i) /\ conn[c].id = <<"backend", i>>
    BY DEF PagingInv, PagingOf, GetMoreBackend
  <1>4. conn[c].got = e.pos /\ conn[c].want = Total
    BY <1>2, <1>3 DEF AtEntry
  <1>5. b \in Nat /\ Total \in Nat
    BY SizesNat
  <1>6. n = IF b =< Total - e.pos THEN b ELSE Total - e.pos
    BY <1>2, <1>5, MinOfTwo DEF BackendBatch
  <1>7. n \in Int /\ e.pos + n \in 0..Total /\ (last => e.pos + n = Total)
    BY <1>2, <1>5, <1>6
  <1>8. Received(c, n, last)
    BY DEF GetMoreBackend
  <1>9. backend' = [backend EXCEPT ![i] = IF last THEN NoBackend ELSE [e EXCEPT !.pos = e.pos + n]]
    BY <1>1 DEF GetMoreBackend, TypeOK
  <1>10. [e EXCEPT !.pos = e.pos + n] = [conn |-> c, pos |-> e.pos + n]
    BY <1>1, <1>2 DEF TypeOK
  <1>11. last \in BOOLEAN
    BY <1>5, <1>7
  <1>. HIDE DEF n, last
  <1>12. PICK r \in Client :
              /\ conn' = [conn EXCEPT ![c] = r]
              /\ r.phase = IF last THEN "done" ELSE "paging"
              /\ r.id = IF last THEN NoCursor ELSE conn[c].id
              /\ r.got = e.pos + n
              /\ r.want = Total
    BY <1>1, <1>4, <1>7, <1>8, <1>11, ReceivedIs
  <1>13. /\ backend' \in [Ids -> [conn : Conns \cup {NoConn}, pos : 0..Total]]
         /\ \A j \in Ids \ {i} : backend'[j] = backend[j]
         /\ backend'[i] = IF last THEN NoBackend ELSE [conn |-> c, pos |-> e.pos + n]
    BY <1>1, <1>2, <1>5, <1>7, <1>9, <1>10 DEF TypeOK, NoBackend
  <1>14. conn' \in [Conns -> Client] /\ conn'[c] = r
    BY <1>1, <1>12 DEF TypeOK
  <1>15. TypeOK'
    BY <1>1, <1>13, <1>14 DEF TypeOK, GetMoreBackend
  <1>16. Untouched(c)
    BY <1>13 DEF Untouched, NoBackend, GetMoreBackend
  <1>17. PagingOf(c)'
    <2>. SUFFICES ASSUME ~ last PROVE (HoldsId(c) /\ \A j \in Ids : AtEntry(c, j))'
      BY <1>12, <1>14 DEF PagingOf
    <2>1. conn'[c].id = <<"backend", i>> /\ conn'[c].got = e.pos + n /\ conn'[c].want = Total
      BY <1>3, <1>12, <1>14
    <2>2. HoldsId(c)'
      BY <2>1 DEF HoldsId
    <2>3. ASSUME NEW j \in Ids PROVE AtEntry(c, j)'
      <3>1. conn'[c].id = <<"backend", j>> => j = i
        BY <2>1, IdsDiffer
      <3>2. conn'[c].id # <<"cached", j>>
        BY <2>1, IdsDiffer
      <3>. QED
        BY <1>13, <2>1, <3>1, <3>2 DEF AtEntry
    <2>. QED
      BY <2>2, <2>3
  <1>18. r.phase # "closed" /\ (r.phase = "done" => r.got = r.want)
    BY <1>7, <1>12
  <1>. QED
    BY <1>12, <1>15, <1>16, <1>17, <1>18, ClientStep

-----------------------------------------------------------------------------
(* The theorems *)

\* The invariant holds at the start, when every connection is closed.
LEMMA PagingAtInit ==
    ASSUME Init
    PROVE  PagingInv
  <1>1. Fresh("closed") \in Client /\ Fresh("closed").phase = "closed"
    BY DEF Fresh, Client, CursorIds
  <1>2. \A c \in Conns : conn[c] = Fresh("closed")
    BY DEF Init
  <1>3. \A i \in Ids : backend[i].conn = NoConn /\ emulated[i].conn = NoConn
    BY DEF Init, NoBackend, NoEmulated
  <1>4. TypeOK
    <2>1. cache \in [Batches -> {NoResult} \cup 0..Total]
      BY DEF Init
    <2>2. backend \in [Ids -> [conn : Conns \cup {NoConn}, pos : 0..Total]]
      BY SizesNat DEF Init, NoBackend
    <2>3. emulated \in [Ids -> [conn : Conns \cup {NoConn}, docs : 0..Total, pos : 0..Total]]
      BY SizesNat DEF Init, NoEmulated
    <2>4. ids \in [{"backend", "cached"} -> 0..MaxIds]
      BY SizesNat DEF Init
    <2>5. conn \in [Conns -> Client]
      BY <1>1 DEF Init
    <2>. QED
      BY <2>1, <2>2, <2>3, <2>4, <2>5 DEF TypeOK
  <1>. QED
    BY <1>1, <1>2, <1>3, <1>4, NoConnIsNoConn
    DEF PagingInv, CompleteOf, PagingOf, NoCursorOfClosed

\* Every step keeps the invariant.
LEMMA PagingStep ==
    ASSUME PagingInv, [Next]_vars
    PROVE  PagingInv'
  <1>1. TypeOK
    BY DEF PagingInv
  <1>2. ASSUME UNCHANGED vars PROVE PagingInv'
    BY <1>1, <1>2, TableStep DEF vars, TypeOK
  <1>3. ASSUME NEW c \in Conns, Connect(c) PROVE PagingInv'
    BY <1>1, <1>3, ReadyStep DEF Connect, Untouched, TypeOK
  <1>4. ASSUME NEW c \in Conns, FindError(c) PROVE PagingInv'
    BY <1>1, <1>4, ReadyStep DEF FindError, Untouched, TypeOK
  <1>5. ASSUME NEW c \in Conns, GetMoreNotFound(c) PROVE PagingInv'
    BY <1>1, <1>5, ReadyStep DEF GetMoreNotFound, Untouched, TypeOK
  <1>6. ASSUME NEW c \in Conns, NEW i \in Ids, GetMoreError(c, i) PROVE PagingInv'
    <2>1. /\ backend' \in [Ids -> [conn : Conns \cup {NoConn}, pos : 0..Total]]
          /\ \A j \in Ids : backend'[j] = backend[j] \/ backend'[j].conn = NoConn
      BY <1>1, <1>6, SizesNat DEF GetMoreError, NoBackend, TypeOK
    <2>. QED
      BY <1>1, <1>6, <2>1, ReadyStep DEF GetMoreError, Untouched, TypeOK
  <1>7. ASSUME NEW c \in Conns, KillCursors(c) PROVE PagingInv'
    <2>1. /\ backend' \in [Ids -> [conn : Conns \cup {NoConn}, pos : 0..Total]]
          /\ \A j \in Ids : backend'[j] = backend[j] \/ backend'[j].conn = NoConn
      BY <1>1, <1>7, SizesNat DEF KillCursors, NoBackend, TypeOK
    <2>2. /\ emulated' \in [Ids -> [conn : Conns \cup {NoConn}, docs : 0..Total, pos : 0..Total]]
          /\ \A j \in Ids : emulated'[j] = emulated[j] \/ emulated'[j].conn = NoConn
      BY <1>1, <1>7, SizesNat DEF KillCursors, NoEmulated, TypeOK
    <2>. QED
      BY <1>1, <1>7, <2>1, <2>2, ReadyStep DEF KillCursors, Untouched, TypeOK
  <1>8. ASSUME NEW c \in Conns, Disconnect(c) PROVE PagingInv'
    <2>. DEFINE r == Fresh("closed")
    <2>1. /\ backend' \in [Ids -> [conn : Conns \cup {NoConn}, pos : 0..Total]]
          /\ \A j \in Ids : backend'[j].conn # c
                            /\ (backend'[j] = backend[j] \/ backend'[j].conn = NoConn)
      BY <1>1, <1>8, SizesNat, NoConnIsNoConn DEF Disconnect, NoBackend, TypeOK
    <2>2. /\ emulated' \in [Ids -> [conn : Conns \cup {NoConn}, docs : 0..Total, pos : 0..Total]]
          /\ \A j \in Ids : emulated'[j].conn # c
                            /\ (emulated'[j] = emulated[j] \/ emulated'[j].conn = NoConn)
      BY <1>1, <1>8, SizesNat, NoConnIsNoConn DEF Disconnect, EmulatedOf, NoEmulated, TypeOK
    <2>3. r \in Client /\ r.phase = "closed"
      BY DEF Fresh, Client, CursorIds
    <2>4. conn' = [conn EXCEPT ![c] = r]
      BY <1>8 DEF Disconnect
    <2>5. conn' \in [Conns -> Client] /\ conn'[c].phase = "closed"
      BY <1>1, <2>3, <2>4 DEF TypeOK
    <2>6. TypeOK'
      BY <1>1, <1>8, <2>1, <2>2, <2>5 DEF TypeOK, Disconnect
    <2>7. Untouched(c) /\ PagingOf(c)'
      BY <2>1, <2>2, <2>5 DEF Untouched, PagingOf
    <2>. QED
      BY <2>1, <2>2, <2>3, <2>4, <2>6, <2>7, ClientStep
  <1>9. ASSUME NEW c \in Conns, NEW b \in Batches, Find(c, b) PROVE PagingInv'
    <2>1. 1 * Kept(b) = Kept(b)
      BY FirstBatchType
    <2>. QED
      BY <1>1, <1>9, <2>1, PassStep DEF Find, TypeOK
  <1>10. ASSUME NEW c \in Conns, NEW b \in Batches, FindCachedHit(c, b) PROVE PagingInv'
    <2>1. cache[b] \in 0..Total
      BY <1>1, <1>10 DEF FindCachedHit, TypeOK
    <2>. QED
      BY <1>1, <1>10, <2>1, CachedStep DEF FindCachedHit, TypeOK
  <1>11. ASSUME NEW c \in Conns, NEW b \in Batches, FindCachedMiss(c, b) PROVE PagingInv'
    <2>1. FirstBatch(b) \in 0..Total /\ Kept(b) \in Nat
      BY FirstBatchType
    <2>2. /\ backend' \in [Ids -> [conn : Conns \cup {NoConn}, pos : 0..Total]]
          /\ \A j \in Ids : backend'[j] = backend[j] \/ backend'[j].conn = c
      BY <1>1, <1>11, Registered DEF FindCachedMiss
    <2>3. cache' \in [Batches -> {NoResult} \cup 0..Total]
      BY <1>1, <1>11, <2>1 DEF FindCachedMiss, TypeOK
    <2>. QED
      BY <1>11, <2>1, <2>2, <2>3, CachedStep DEF FindCachedMiss
  <1>12. ASSUME NEW c \in Conns, NEW b \in Batches, FindCachedTooBig(c, b) PROVE PagingInv'
    BY <1>1, <1>12, PassStep DEF FindCachedTooBig, TypeOK
  <1>13. ASSUME NEW c \in Conns, NEW b \in Batches, FindCachedUnavailable(c, b)
         PROVE  PagingInv'
    <2>1. 1 * Kept(b) = Kept(b) /\ FirstBatch(b) \in 0..Total
      BY FirstBatchType
    <2>2. cache' \in [Batches -> {NoResult} \cup 0..Total]
      BY <1>1, <1>13, <2>1 DEF FindCachedUnavailable, TypeOK
    <2>. QED
      BY <1>13, <2>1, <2>2, PassStep DEF FindCachedUnavailable
  <1>14. ASSUME NEW i \in Ids, PruneBackend(i) PROVE PagingInv'
    <2>1. /\ backend' \in [Ids -> [conn : Conns \cup {NoConn}, pos : 0..Total]]
          /\ \A j \in Ids : backend'[j] \in {backend[j], NoBackend}
      BY <1>1, <1>14, SizesNat DEF PruneBackend, NoBackend, TypeOK
    <2>. QED
      BY <1>1, <1>14, <2>1, TableStep DEF PruneBackend, TypeOK
  <1>15. ASSUME NEW i \in Ids, DropEmulated(i) PROVE PagingInv'
    <2>1. /\ emulated' \in [Ids -> [conn : Conns \cup {NoConn}, docs : 0..Total, pos : 0..Total]]
          /\ \A j \in Ids : emulated'[j] \in {emulated[j], NoEmulated}
      BY <1>1, <1>15, SizesNat DEF DropEmulated, NoEmulated, TypeOK
    <2>. QED
      BY <1>1, <1>15, <2>1, TableStep DEF DropEmulated, TypeOK
  <1>16. ASSUME NEW b \in Batches, Expire(b) PROVE PagingInv'
    <2>1. cache' \in [Batches -> {NoResult} \cup 0..Total]
      BY <1>1, <1>16 DEF Expire, TypeOK
    <2>. QED
      BY <1>1, <1>16, <2>1, TableStep DEF Expire, TypeOK
  <1>. QED
    BY <1>2, <1>3, <1>4, <1>5, <1>6, <1>7, <1>8, <1>9, <1>10, <1>11, <1>12, <1>13,
       <1>14, <1>15, <1>16, GetMoreCachedKeeps, GetMoreBackendKeeps
    DEF Next

\* The inductive invariant holds in every state.
LEMMA PagingInvariant == Spec => []PagingInv
  <1>. QED
    BY PagingAtInit, PagingStep, PTL DEF Spec

\* A client that pages with find and getMore and is told "no more" has received
\* what its read was answered from: every document, each once (firstBatchFromCursor,
\* handleGetMore, tryCacheRead, handleCachedGetMore).
THEOREM AllDocuments == Spec => []PagingComplete
  <1>1. PagingInv => PagingComplete
    BY DEF PagingInv, PagingComplete, CompleteOf
  <1>. QED
    BY <1>1, PagingInvariant, PTL

\* A registered or emulated cursor is where its client is: the next getMore starts
\* with the first document that the client has not received.
THEOREM CursorsKeepUp == Spec => []CursorAtClient
  <1>1. ASSUME PagingInv PROVE CursorAtClient
    <2>. SUFFICES ASSUME NEW c \in Conns, conn[c].phase = "paging",
                         OwnerOf(conn[c].id) = c
                  PROVE  conn[c].got = IF conn[c].id[1] = "backend"
                                       THEN backend[conn[c].id[2]].pos
                                       ELSE emulated[conn[c].id[2]].pos
      BY DEF CursorAtClient
    <2>1. PICK i \in Ids : conn[c].id \in {<<"backend", i>>, <<"cached", i>>}
      BY <1>1 DEF PagingInv, PagingOf, HoldsId
    <2>2. AtEntry(c, i)
      BY <1>1 DEF PagingInv, PagingOf
    <2>. QED
      BY <2>1, <2>2 DEF AtEntry, OwnerOf
  <1>. QED
    BY <1>1, PagingInvariant, PTL

\* CleanupConn leaves no cursor of a closed connection behind, in either table, not
\* even one whose id the client never learned (the load of a cached read, the first
\* of two queries for a result that is too big).
THEOREM NoneLeftBehind == Spec => []NoCursorOfClosed
  <1>1. PagingInv => NoCursorOfClosed
    BY DEF PagingInv
  <1>. QED
    BY <1>1, PagingInvariant, PTL
-----------------------------------------------------------------------------
(* Cache keys *)

\* Widening the 32-bit integers keeps apart exactly the values that a query tells
\* apart (key.go normalizeValue).
LEMMA WideningIsPlain ==
    ASSUME NEW v, NEW w, v = <<v[1], v[2]>>, w = <<w[1], w[2]>>,
           v[1] # "integer", w[1] # "integer"
    PROVE  Widened(v) = Widened(w) <=> Plain(v) = Plain(w)
  <1>. DEFINE IsInt(u) == u[1] \in {"int32", "int64"}
  <1>1. CASE IsInt(v) /\ IsInt(w)
    <2>1. Widened(v) = <<"int64", v[2]>> /\ Widened(w) = <<"int64", w[2]>>
      BY <1>1 DEF Widened
    <2>2. Plain(v) = <<"integer", v[2]>> /\ Plain(w) = <<"integer", w[2]>>
      BY <1>1 DEF Plain
    <2>. QED
      BY <2>1, <2>2
  <1>2. CASE IsInt(v) /\ ~IsInt(w)
    <2>1. Widened(v)[1] = "int64" /\ Plain(v)[1] = "integer"
      BY <1>2 DEF Widened, Plain
    <2>2. Widened(w) = w /\ Plain(w) = w
      BY <1>2 DEF Widened, Plain
    <2>. QED
      BY <1>2, <2>1, <2>2
  <1>3. CASE ~IsInt(v) /\ IsInt(w)
    <2>1. Widened(w)[1] = "int64" /\ Plain(w)[1] = "integer"
      BY <1>3 DEF Widened, Plain
    <2>2. Widened(v) = v /\ Plain(v) = v
      BY <1>3 DEF Widened, Plain
    <2>. QED
      BY <1>3, <2>1, <2>2
  <1>4. CASE ~IsInt(v) /\ ~IsInt(w)
    BY <1>4 DEF Widened, Plain
  <1>. QED
    BY <1>1, <1>2, <1>3, <1>4

\* What the filter leaves is part of the question: it removes volatile fields of
\* every depth, the question loses those of the command itself.
LEMMA FilteredIsAsked ==
    ASSUME NEW cmd \in Requests
    PROVE  Filtered(cmd.body) \subseteq Asked(cmd.body)
  <1>. SUFFICES ASSUME NEW n \in cmd.body, n \in Filtered(cmd.body), n.path # << >>
                PROVE  n.path[1] \notin volatileTopLevel
    BY DEF Filtered, Asked
  <1>1. n.path \in Seq(STRING)
    BY RequestsType
  <1>2. 1 \in DOMAIN n.path
    BY <1>1
  <1>. QED
    BY <1>2 DEF Filtered

\* One question has one normal form.
LEMMA SameQuestion ==
    ASSUME NEW a \in Requests, NEW b \in Requests, Content(a.body) = Content(b.body)
    PROVE  NormalizeCommand(a.body) \subseteq NormalizeCommand(b.body)
  <1>. SUFFICES ASSUME NEW n \in Filtered(a.body)
                PROVE  <<n.path, Widened(n.value)>> \in NormalizeCommand(b.body)
    BY DEF NormalizeCommand
  <1>1. n \in Asked(a.body) /\ n \in a.body
    BY FilteredIsAsked DEF Filtered
  <1>0. <<n.path, Plain(n.value)>> \in Content(a.body)
    BY <1>1 DEF Content
  <1>2. PICK m \in Asked(b.body) : <<m.path, Plain(m.value)>> = <<n.path, Plain(n.value)>>
    BY <1>0 DEF Content
  <1>3. m \in b.body /\ m.path = n.path /\ Plain(m.value) = Plain(n.value)
    BY <1>2 DEF Asked
  <1>4. m \in Filtered(b.body)
    BY <1>3 DEF Filtered
  <1>5. Widened(m.value) = Widened(n.value)
    BY <1>1, <1>3, WideningIsPlain, RequestsType
  <1>. QED
    BY <1>3, <1>4, <1>5 DEF NormalizeCommand

\* One normal form has one content: commands with the same one differ in nothing that
\* the filter leaves but the order of fields and the width of integers.
LEMMA SameNormal ==
    ASSUME NEW a \in Requests, NEW b \in Requests,
           NormalizeCommand(a.body) = NormalizeCommand(b.body)
    PROVE  MeaningLeft(a).content \subseteq MeaningLeft(b).content
  <1>. SUFFICES ASSUME NEW n \in Filtered(a.body)
                PROVE  \E m \in Filtered(b.body) :
                           <<m.path, Plain(m.value)>> = <<n.path, Plain(n.value)>>
    BY DEF MeaningLeft
  <1>1. <<n.path, Widened(n.value)>> \in NormalizeCommand(b.body)
    BY DEF NormalizeCommand
  <1>2. PICK m \in Filtered(b.body) : <<m.path, Widened(m.value)>> = <<n.path, Widened(n.value)>>
    BY <1>1 DEF NormalizeCommand
  <1>3. m \in b.body /\ n \in a.body /\ m.path = n.path /\ Widened(m.value) = Widened(n.value)
    BY <1>2 DEF Filtered
  <1>4. Plain(m.value) = Plain(n.value)
    BY <1>3, WideningIsPlain, RequestsType
  <1>. QED
    BY <1>2, <1>3, <1>4

\* Two commands have one key exactly when their logins, namespaces, names and normal
\* forms are the same (key.go CacheKey).
LEMMA OneKey ==
    ASSUME NEW l \in Logins, NEW k \in Logins, NEW a \in Requests, NEW b \in Requests
    PROVE  CacheKeyFor(l, a) = CacheKeyFor(k, b)
             <=> l = k /\ a.ns = b.ns /\ a.name = b.name
                 /\ NormalizeCommand(a.body) = NormalizeCommand(b.body)
  <1>1. Normal[a] = NormalizeCommand(a.body) /\ Normal[b] = NormalizeCommand(b.body)
    BY DEF Normal
  <1>2. l = k <=> l[1] = k[1] /\ l[2] = k[2]
    BY LoginsType
  <1>. QED
    BY <1>1, <1>2 DEF CacheKeyFor, KeyOf

\* Among well-typed entries the keys alone make the answers right.
LEMMA KeysAnswer == CommandTypeOK => AnswersQuestion
  <1>. SUFFICES ASSUME CommandTypeOK,
                       NEW e \in entries, NEW l \in Logins, NEW cmd \in Requests
                PROVE  LET hit == e \in Hits(l, cmd)
                           same == e.login = l /\ Question[e.cmd] = Question[cmd]
                       IN  /\ hit => e.login = l /\ QuestionLeft[e.cmd] = QuestionLeft[cmd]
                           /\ same => hit
                           /\ hit => same \/ Unclear[cmd] \/ Unclear[e.cmd]
    BY DEF AnswersQuestion
  <1>. DEFINE a == e.cmd
  <1>1. e.login \in Logins /\ a \in Requests
    BY DEF CommandTypeOK, Entry
  <1>2. e \in Hits(l, cmd)
          <=> e.login = l /\ a.ns = cmd.ns /\ a.name = cmd.name
              /\ NormalizeCommand(a.body) = NormalizeCommand(cmd.body)
    BY <1>1, OneKey DEF Hits
  <1>3. Question[a] = Question[cmd]
          <=> a.ns = cmd.ns /\ a.name = cmd.name
              /\ Content(a.body) = Content(cmd.body) /\ Order(a.body) = Order(cmd.body)
    BY <1>1 DEF Question, Meaning
  <1>4. Content(a.body) = Content(cmd.body)
          => NormalizeCommand(a.body) = NormalizeCommand(cmd.body)
    <2>. SUFFICES ASSUME Content(a.body) = Content(cmd.body)
                  PROVE  NormalizeCommand(a.body) = NormalizeCommand(cmd.body)
      OBVIOUS
    <2>1. NormalizeCommand(a.body) \subseteq NormalizeCommand(cmd.body)
      BY <1>1, SameQuestion
    <2>2. NormalizeCommand(cmd.body) \subseteq NormalizeCommand(a.body)
      BY <1>1, SameQuestion
    <2>. QED
      BY <2>1, <2>2
  <1>5. ASSUME NormalizeCommand(a.body) = NormalizeCommand(cmd.body)
        PROVE  MeaningLeft(a).content = MeaningLeft(cmd).content
    <2>1. MeaningLeft(a).content \subseteq MeaningLeft(cmd).content
      BY <1>1, <1>5, SameNormal
    <2>2. MeaningLeft(cmd).content \subseteq MeaningLeft(a).content
      BY <1>1, <1>5, SameNormal
    <2>. QED
      BY <2>1, <2>2
  <1>6. e \in Hits(l, cmd) => QuestionLeft[a] = QuestionLeft[cmd]
    BY <1>1, <1>2, <1>5 DEF QuestionLeft, MeaningLeft
  <1>7. ASSUME NormalizeCommand(a.body) = NormalizeCommand(cmd.body),
               ~Unclear[cmd], ~Unclear[a]
        PROVE  Content(a.body) = Content(cmd.body) /\ Order(a.body) = Order(cmd.body)
    <2>1. /\ Filtered(a.body) = Asked(a.body) /\ Filtered(cmd.body) = Asked(cmd.body)
          /\ Order(a.body) = {} /\ Order(cmd.body) = {}
      BY <1>1, <1>7 DEF Unclear, Ambiguous
    <2>2. Content(a.body) = Content(cmd.body)
      BY <1>7, <1>5, <2>1 DEF Content, MeaningLeft
    <2>. QED
      BY <2>1, <2>2
  <1>. HIDE DEF a
  <1>8. e.cmd = a
    BY DEF a
  <1>. QED
    BY <1>2, <1>3, <1>4, <1>6, <1>7, <1>8

-----------------------------------------------------------------------------
(* The path of a command *)

\* Sessions stand for tenants the limiter knows.
LEMMA SessionTenant ==
    ASSUME CommandTypeOK, NEW k \in Clients, session[k] # NoLogin
    PROVE  session[k] \in Logins /\ session[k][1] \in Tenants
  BY LoginsType DEF CommandTypeOK

\* Every command is a step of the limiter or none of its business (handler.go Handle:
\* logins and logouts are not counted).
LEMMA CommandIsLimited ==
    CommandTypeOK /\ [CommandNext]_commandVars => [LimiterNext]_limiterVars
  <1>. SUFFICES ASSUME CommandTypeOK, [CommandNext]_commandVars
                PROVE  [LimiterNext]_limiterVars
    OBVIOUS
  <1>1. CASE LimiterBackground
    BY <1>1 DEF LimiterNext
  <1>2. ASSUME NEW k \in Clients, SaslStart(k) \/ Logout(k)
        PROVE  UNCHANGED limiterVars
    BY <1>2 DEF SaslStart, Logout
  <1>3. ASSUME NEW k \in Clients, NEW cmd \in Requests,
               Passthrough(k, cmd) \/ CachedRead(k, cmd)
        PROVE  LimiterNext
    <2>1. \E t \in Tenants : Allow(t)
      BY <1>3, SessionTenant DEF Passthrough, CachedRead
    <2>. QED
      BY <2>1 DEF LimiterNext
  <1>4. ASSUME NEW k \in Clients, RateLimited(k)
        PROVE  LimiterNext
    <2>1. \E t \in Tenants : Deny(t)
      BY <1>4, SessionTenant DEF RateLimited
    <2>. QED
      BY <2>1 DEF LimiterNext
  <1>5. ASSUME NEW e \in entries, Drop(e) PROVE UNCHANGED limiterVars
    BY <1>5 DEF Drop
  <1>6. CASE UNCHANGED commandVars
    BY <1>6 DEF commandVars
  <1>. QED
    BY <1>1, <1>2, <1>3, <1>4, <1>5, <1>6 DEF CommandNext

\* A step keeps the sessions logins, and the entries what a login asked.
LEMMA CommandTypeStep ==
    ASSUME CommandTypeOK, [CommandNext]_commandVars
    PROVE  /\ session' \in [Clients -> Logins \cup {NoLogin}]
           /\ entries' \subseteq Entry
  <1>0. session \in [Clients -> Logins \cup {NoLogin}] /\ entries \subseteq Entry
    BY DEF CommandTypeOK
  <1>1. CASE UNCHANGED <<session, entries>>
    BY <1>0, <1>1
  <1>2. ASSUME NEW k \in Clients, SaslStart(k) \/ Logout(k)
        PROVE  /\ session' \in [Clients -> Logins \cup {NoLogin}]
               /\ entries' \subseteq Entry
    BY <1>0, <1>2 DEF SaslStart, Logout
  <1>3. ASSUME NEW k \in Clients, NEW cmd \in Requests, CachedRead(k, cmd)
        PROVE  /\ session' \in [Clients -> Logins \cup {NoLogin}]
               /\ entries' \subseteq Entry
    <2>1. [login |-> session[k], cmd |-> cmd] \in Entry
      BY <1>3, SessionTenant DEF CachedRead, Entry
    <2>. QED
      BY <1>0, <1>3, <2>1 DEF CachedRead
  <1>4. ASSUME NEW e \in entries, Drop(e)
        PROVE  /\ session' \in [Clients -> Logins \cup {NoLogin}]
               /\ entries' \subseteq Entry
    BY <1>0, <1>4 DEF Drop
  <1>. QED
    BY <1>1, <1>2, <1>3, <1>4 DEF CommandNext, commandVars, RateLimited, Passthrough

CommandInv == LimiterInv /\ CommandTypeOK

\* The limiter's invariant and the types of the handler's state, together: a step of
\* the handler is one of the limiter only because sessions stand for tenants.
LEMMA CommandInvariant == CommandSpec => []CommandInv
  <1>1. CommandInit => CommandInv
    <2>. SUFFICES ASSUME CommandInit PROVE CommandInv
      OBVIOUS
    <2>1. LimiterInv
      BY LimiterInvInit DEF CommandInit
    <2>2. LimiterTypeOK
      BY <2>1 DEF LimiterInv
    <2>. QED
      BY <2>1, <2>2 DEF CommandInit, CommandInv, CommandTypeOK
  <1>2. CommandInv /\ [CommandNext]_commandVars => CommandInv'
    <2>. SUFFICES ASSUME CommandInv, [CommandNext]_commandVars PROVE CommandInv'
      OBVIOUS
    <2>1. CommandTypeOK /\ LimiterInv
      BY DEF CommandInv
    <2>2. LimiterInv'
      BY <2>1, CommandIsLimited, LimiterInvStep
    <2>3. LimiterTypeOK'
      BY <2>2 DEF LimiterInv
    <2>4. session' \in [Clients -> Logins \cup {NoLogin}] /\ entries' \subseteq Entry
      BY <2>1, CommandTypeStep
    <2>. QED
      BY <2>2, <2>3, <2>4 DEF CommandInv, CommandTypeOK
  <1>. QED
    BY <1>1, <1>2, PTL DEF CommandSpec

\* In every reachable state of the handler the cache answers a login only with what it
\* has asked itself, shares an entry between all forms of one question, and between
\* two questions only where normalisation changes what both mean (key.go CacheKey,
\* normalizeValue).
THEOREM AnsweredQuestions == CommandSpec => []AnswersQuestion
  <1>1. CommandInv => AnswersQuestion
    BY KeysAnswer DEF CommandInv
  <1>. QED
    BY <1>1, CommandInvariant, PTL

\* The handler uses the limiter as it is specified: whatever sessions change and
\* commands are sent, the bound and the plain token bucket hold (handler.go Handle).
THEOREM CommandsAreLimited == CommandSpec => LimiterSpec /\ []WindowBound /\ Implements
  <1>1. CommandInit => LimiterInit
    BY DEF CommandInit
  <1>2. CommandInv /\ [CommandNext]_commandVars => [LimiterNext]_limiterVars
    BY CommandIsLimited DEF CommandInv
  <1>. QED
    BY <1>1, <1>2, CommandInvariant, LimiterBound, Refinement, PTL
       DEF CommandSpec, LimiterSpec

=============================================================================
