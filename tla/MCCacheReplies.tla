--------------------------- MODULE MCCacheReplies ---------------------------
(* Instances of ReadCache and CacheReplies for TLC. *)
EXTENDS CacheReplies

CONSTANTS n1

\* Every key in one namespace: the case in which flushes and fills meet.
OneNamespace == [k \in Keys |-> n1]
=============================================================================
