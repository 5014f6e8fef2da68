---------------------------- MODULE CacheReplies ----------------------------
(***************************************************************************)
(* What clients are answered by the read-through cache.  ReadCache speaks  *)
(* of the entries; this module follows each read from its beginning to its *)
(* reply and compares the reply with the flushes that had been completed   *)
(* when the read began: by POST .../invalidate, or after a write, which is *)
(* acknowledged when its flush has ended.                                  *)
(***************************************************************************)
EXTENDS ReadCache

VARIABLES
    since,     \* history: the version a writer's write made, or its flush began at
    flushed,   \* history: flushed[n]: the newest version that a completed flush was for
    atLeast,   \* history: what had been flushed when the flight a reader is in began
    excused    \* history: readers answered by an entry in doubt

historyVars == <<since, flushed, atLeast, excused>>
replyVars == <<vars, historyVars>>

ReplyTypeOK ==
    /\ TypeOK
    /\ since \in [Writers -> Versions]
    /\ flushed \in [Namespaces -> Versions]
    /\ atLeast \in [Readers -> Versions]
    /\ excused \subseteq Readers

ReplyInit ==
    /\ Init
    /\ since = [w \in Writers |-> 0]
    /\ flushed = [n \in Namespaces |-> 0]
    /\ atLeast = [r \in Readers |-> 0]
    /\ excused = {}

-----------------------------------------------------------------------------
\* A read begins: it is promised version v.
Promise(r, v) ==
    /\ atLeast' = [atLeast EXCEPT ![r] = v]
    /\ excused' = excused \ {r}
    /\ UNCHANGED <<since, flushed>>

\* Its own flight looks into Redis from now on; another's may have done so before.
Lead(r, k) == ReadLead(r, k) /\ Promise(r, flushed[KeyNS[k]])
Join(r, k) == ReadJoin(r, k) /\ Promise(r, atLeast[flight[k]])

\* The entry's fill overlapped a write or a flush, or a command failed on it.
InDoubt(k) == k \in dirty \/ LateFill(k)

Hit(r) ==
    /\ CacheHit(r)
    /\ excused' = IF InDoubt(rkey[r]) THEN excused \cup {r} ELSE excused
    /\ UNCHANGED <<since, flushed, atLeast>>

Answer(r) ==
    /\ Deliver(r)
    /\ excused' = IF r \in excused THEN excused \cup Team(r) ELSE excused
    /\ UNCHANGED <<since, flushed, atLeast>>

\* The steps of a read that tell its client nothing.
Inside(r) ==
    /\ \/ CacheMiss(r) \/ CacheUnavailable(r)
       \/ Load(r) \/ LoadFail(r)
       \/ StoreSet(r) \/ StoreSetFail(r) \/ RegisterKey(r) \/ RegisterKeyFail(r)
       \/ PassQuery(r) \/ PassReply(r)
    /\ UNCHANGED historyVars

Start(w, n) ==
    /\ \/ Write(w, n) /\ since' = [since EXCEPT ![w] = Written(n)]
       \/ Invalidate(w, n) /\ since' = [since EXCEPT ![w] = db[n]]
    /\ UNCHANGED <<flushed, atLeast, excused>>

\* The flush has deleted all it listed: the write or the invalidation is acknowledged.
Flushed(w) ==
    /\ DeleteRegistry(w)
    /\ flushed' = [flushed EXCEPT ![wns[w]] = IF since[w] > @ THEN since[w] ELSE @]
    /\ UNCHANGED <<since, atLeast, excused>>

Flushing(w) ==
    /\ \/ FlagOn(w) \/ FlagOff(w) \/ ListMembers(w)
       \/ \E k \in Keys : DeleteMember(w, k)
       \/ InvalidateFail(w)
    /\ UNCHANGED historyVars

ReplyNext ==
    \/ \E r \in Readers :
          \/ \E k \in Keys : Lead(r, k) \/ Join(r, k)
          \/ Hit(r) \/ Answer(r) \/ Inside(r)
    \/ \E w \in Writers :
          \/ \E n \in Namespaces : Start(w, n)
          \/ Flushed(w) \/ Flushing(w)
    \/ \E k \in Keys : Expire(k) /\ UNCHANGED historyVars

ReplySpec == ReplyInit /\ [][ReplyNext]_replyVars

\* The fairness of ReadCache, whose steps these are.
FairReplySpec == ReplySpec /\ Fairness

-----------------------------------------------------------------------------
(* Properties *)

\* Once a flush is over, every read answers with what it was for or something newer:
\* no read that begins afterwards gets a result from before it, unless it joins a
\* flight that began before, or finds an entry in doubt: one whose fill overlapped a
\* write or a flush, or on which a command failed.
ReplyCovers ==
    /\ ReplyTypeOK
    /\ \A r \in Readers :
          rpc[r] \notin {Looking, Loading, Waiting} /\ rval[r] # NoValue =>
              rval[r] >= atLeast[r] \/ r \in excused
=============================================================================
