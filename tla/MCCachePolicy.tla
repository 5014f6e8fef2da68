--------------------------- MODULE MCCachePolicy ---------------------------
(* Instances of CachePolicy for TLC. *)
EXTENDS CachePolicy

\* Every connection belongs to a tenant of its own.
CONSTANTS t1, t2, c1, c2
MCTenantOf == [c \in Sources |-> IF c = c1 THEN t1 ELSE t2]
=============================================================================
