----------------------------- MODULE RateLimiter -----------------------------
(***************************************************************************)
(* The per-tenant token buckets of the proxy                               *)
(* (proxy/ratelimit/limiter.go).  A bucket is made at the first command,   *)
(* is refilled when it is looked at, and is forgotten when it has been     *)
(* idle; both methods run under one lock, so each is one step.             *)
(*                                                                         *)
(* The clock counts ticks.  A bucket counts units: a tick brings Rate of   *)
(* them, a command takes Cost, so that a bucket may hold a fraction of a   *)
(* command.                                                                *)
(***************************************************************************)
EXTENDS Integers

CONSTANTS
    Tenants,
    Rate, Cost, Burst,  \* units per tick, units per command, commands in a full bucket
    Idle,               \* ticks after which Prune forgets a bucket (30 minutes)
    MaxTime             \* bound: ticks

\* New replaces a rate and a burst that are not positive.
ASSUME RateType == Rate \in Nat \ {0} /\ Cost \in Nat \ {0} /\ Burst \in Nat \ {0}
ASSUME MaxTimeNat == MaxTime \in Nat

\* A bucket that has been idle is full again: 30 minutes at the configured rate bring
\* at least the burst.  The configuration has to see to that; New does not.
ASSUME IdleRefills == Idle \in Nat /\ Idle * Rate >= Burst * Cost

VARIABLES
    now,      \* the clock
    buckets,  \* buckets[t]: Limiter.buckets, last = None when there is no entry
    verdict,  \* the last answer of Allow: <<tenant, result>>
    watch     \* history: an observer of one tenant: since when, how many let through

limiterVars == <<now, buckets, verdict, watch>>

None == -1
Capacity == Burst * Cost
Bucket == [tokens : 0..Capacity, last : {None} \cup 0..MaxTime]
NoBucket == [tokens |-> 0, last |-> None]

LimiterTypeOK ==
    /\ now \in 0..MaxTime
    /\ buckets \in [Tenants -> Bucket]
    /\ verdict \in {<< >>} \cup (Tenants \X BOOLEAN)
    /\ watch \in [tenant : Tenants, since : 0..MaxTime, passed : Nat]

LimiterInit ==
    /\ now = 0
    /\ buckets = [t \in Tenants |-> NoBucket]
    /\ verdict = << >>
    /\ watch \in [tenant : Tenants, since : {0}, passed : {0}]

AtMost(n, bound) == IF n > bound THEN bound ELSE n
Known(t) == buckets[t].last # None

\* What the bucket holds once it is refilled up to now.
Refilled(t) == AtMost(buckets[t].tokens + (now - buckets[t].last) * Rate, Capacity)

\* Allow: a tenant without a bucket gets a full one and takes from it.
Available(t) == IF Known(t) THEN Refilled(t) ELSE Capacity

Allow(t) ==
    /\ Available(t) >= Cost
    /\ buckets' = [buckets EXCEPT ![t] = [tokens |-> Available(t) - Cost, last |-> now]]
    /\ verdict' = <<t, TRUE>>
    /\ watch' = IF t = watch.tenant THEN [watch EXCEPT !.passed = @ + 1] ELSE watch
    /\ UNCHANGED now

\* Mutant: a refused command leaves the time of the last refill as it was.
DenyUntimed(t) ==
    /\ Available(t) < Cost
    /\ buckets' = [buckets EXCEPT ![t].tokens = Available(t)]
    /\ verdict' = <<t, FALSE>>
    /\ UNCHANGED <<now, watch>>

Deny(t) ==
    /\ Available(t) < Cost
    /\ buckets' = [buckets EXCEPT ![t] = [tokens |-> Available(t), last |-> now]]
    /\ verdict' = <<t, FALSE>>
    /\ UNCHANGED <<now, watch>>

\* Mutant: a bucket is forgotten whatever its idle time.
ForgottenSoon(t) == Known(t) /\ buckets[t].last < now

\* Prune: every bucket that was not looked at for more than Idle.
Forgotten(t) == Known(t) /\ buckets[t].last < now - Idle

Prune ==
    /\ buckets' = [t \in Tenants |-> IF Forgotten(t) THEN NoBucket ELSE buckets[t]]
    /\ UNCHANGED <<now, verdict, watch>>

Tick ==
    /\ now < MaxTime
    /\ now' = now + 1
    /\ UNCHANGED <<buckets, verdict, watch>>

\* The observer starts over: every interval is observed in some behaviour.
Observe(t) ==
    /\ watch' = [tenant |-> t, since |-> now, passed |-> 0]
    /\ UNCHANGED <<now, buckets, verdict>>

LimiterBackground == Prune \/ Tick \/ \E t \in Tenants : Observe(t)
LimiterNext == LimiterBackground \/ \E t \in Tenants : Allow(t) \/ Deny(t)

LimiterSpec == LimiterInit /\ [][LimiterNext]_limiterVars

-----------------------------------------------------------------------------
(* Properties. *)

\* The level the promise speaks of: a bucket that is not there is a full one.
Level == [t \in Tenants |-> Available(t)]

\* The lazily refilled, forgetful buckets answer every command as buckets would that
\* are refilled at every tick and never forgotten.
Promise == INSTANCE TokenBucket WITH level <- Level
Implements == Promise!Spec

\* In any interval a tenant gets through at most a full burst and what the rate brings
\* in that time, whenever buckets are forgotten.
WindowBound ==
    Cost * watch.passed =< Capacity + Rate * (now - watch.since)
=============================================================================
