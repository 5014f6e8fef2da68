----------------------------- MODULE TokenBucket -----------------------------
(***************************************************************************)
(* What a rate limiter promises each tenant: a bucket that is full at      *)
(* first, gains Rate units with every tick of the clock up to Burst        *)
(* commands' worth, and lets a command through exactly when it holds Cost  *)
(* units, which the command takes.                                         *)
(***************************************************************************)
EXTENDS Integers

CONSTANTS Tenants, Rate, Cost, Burst

VARIABLES
    level,    \* level[t]: units in the bucket of tenant t
    verdict   \* the last answer: <<tenant, let through>>, << >> before the first

Capacity == Burst * Cost
AtMost(n, bound) == IF n > bound THEN bound ELSE n

Init == level = [t \in Tenants |-> Capacity] /\ verdict = << >>

Tick ==
    /\ level' = [t \in Tenants |-> AtMost(level[t] + Rate, Capacity)]
    /\ UNCHANGED verdict

Take(t) ==
    /\ level[t] >= Cost
    /\ level' = [level EXCEPT ![t] = @ - Cost]
    /\ verdict' = <<t, TRUE>>

Refuse(t) ==
    /\ level[t] < Cost
    /\ verdict' = <<t, FALSE>>
    /\ UNCHANGED level

Next == Tick \/ \E t \in Tenants : Take(t) \/ Refuse(t)

Spec == Init /\ [][Next]_<<level, verdict>>
=============================================================================
