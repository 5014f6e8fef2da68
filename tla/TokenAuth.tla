----------------------------- MODULE TokenAuth -----------------------------
(***************************************************************************)
(* Proxy credentials of one tenant, from issue to revocation and back      *)
(* (TokenService and the connection and tenant rows they hang on, in       *)
(* controlplane/service/service.go over store/store.go), and the proxy's   *)
(* Authenticate with its cache of successful answers                       *)
(* (proxy/auth/auth.go).                                                   *)
(*                                                                         *)
(* Control plane and proxy share nothing but the tables: a revocation does *)
(* not reach the cache.  Every store call and every critical section of    *)
(* Validator.mu is one step.  A raw token, its look-up hash and its id are *)
(* one value; ids are random and never used twice.  Tokens are issued      *)
(* without an expiry date.                                                 *)
(***************************************************************************)
EXTENDS FiniteSets

CONSTANTS
    Tokens,
    Legacy,  \* the tokens issued before there was a look-up hash
    Conns,   \* source connections
    NoToken, \* no token
    NoConn,  \* no connection
    Auths,   \* connections to the proxy that authenticate
    Admins   \* requests to the control plane

ASSUME LegacyAreTokens == Legacy \subseteq Tokens
ASSUME NothingIsNothing == NoConn \notin Conns /\ NoToken \notin Tokens

VARIABLES
    tenant,   \* the row of tenants is there
    conns,    \* rows of connections
    gone,     \* connections deleted
    tok,      \* tok[k]: row of tokens, conn is NoConn when absent
    issued,   \* tokens issued so far
    adm,      \* adm[p]: where request p is
    cache,    \* tokens with an entry in Validator.cache that has not expired
    auth,     \* auth[a]: where a's call of Authenticate is, the connection it has
              \* found and, when it has returned, its answer
    saw       \* history: what a's token opened since the call began

vars == <<tenant, conns, gone, tok, issued, adm, cache, auth, saw>>

MaybeConn == Conns \cup {NoConn}

\* rev stands for revoked_at: NULL, or within the re-enable window, or before it.
Live == "live"
Recent == "recent"
Old == "old"
Row == [conn : MaybeConn, rev : {Live, Recent, Old}]
NoRow == [conn |-> NoConn, rev |-> Live]

\* answer: the connection of the TenantContext, NoConn for a denial, empty before
\* the first call returns, during a call and after an error.
Open == {"revalidate", "drop", "tenant", "lookup", "list", "connection", "put"}
Call == [at : {"idle"} \cup Open, tok : Tokens \cup {NoToken}, conn : MaybeConn,
         answer : SUBSET MaybeConn]
NoCall == [at |-> "idle", tok |-> NoToken, conn |-> NoConn, answer |-> {}]

AdminRequest == [at : {"idle", "create", "clear"}, tok : Tokens \cup {NoToken}, conn : MaybeConn]
NoRequest == [at |-> "idle", tok |-> NoToken, conn |-> NoConn]

\* Rows refer to rows: connections to the tenant, tokens to connections.
TypeOK ==
    /\ tenant \in BOOLEAN
    /\ conns \subseteq Conns /\ gone \subseteq Conns
    /\ tok \in [Tokens -> Row]
    /\ issued \subseteq Tokens
    /\ adm \in [Admins -> AdminRequest]
    /\ cache \subseteq Tokens
    /\ auth \in [Auths -> Call]
    /\ saw \in [Auths -> SUBSET MaybeConn]
    /\ conns # {} => tenant
    /\ \A k \in Tokens : tok[k].conn \in conns \cup {NoConn}

Init ==
    /\ tenant = TRUE
    /\ conns \in SUBSET Conns
    /\ gone = {}
    /\ tok \in [Tokens -> {NoRow} \cup [conn : conns, rev : {Live}]]
    /\ \A k \in Tokens : tok[k] # NoRow <=> k \in Legacy
    /\ issued = Legacy
    /\ adm = [p \in Admins |-> NoRequest]
    /\ cache = {}
    /\ auth = [a \in Auths |-> NoCall]
    /\ saw = [a \in Auths |-> {}]

-----------------------------------------------------------------------------
\* revoked_at IS NULL AND connection_id IS NOT NULL
Active(row) == row.conn # NoConn /\ row.rev = Live

Valid == {k \in Tokens : Active(tok[k])}

\* The connection that a token with this row opens.
Opens(row) == IF Active(row) THEN row.conn ELSE NoConn

\* History: what the calls under way see of new rows.
Observe(new) ==
    saw' = [a \in Auths |-> IF auth[a].at \in Open
                            THEN saw[a] \cup {Opens(new[auth[a].tok])}
                            ELSE saw[a]]

\* A statement changes the rows of tokens.
SetTokens(new) == tok' = new /\ Observe(new)

-----------------------------------------------------------------------------
(* Control plane *)

\* ON DELETE CASCADE: the tokens of the connections D go with them.
Cascaded(D) == [k \in Tokens |-> IF tok[k].conn \in D THEN NoRow ELSE tok[k]]

\* CreateTenant, for an id that was deleted.
CreateTenant ==
    /\ ~tenant
    /\ tenant' = TRUE
    /\ UNCHANGED <<conns, gone, tok, issued, adm, cache, auth, saw>>

DeleteTenant ==
    /\ tenant
    /\ tenant' = FALSE
    /\ conns' = {}
    /\ gone' = gone \cup conns
    /\ SetTokens(Cascaded(conns))
    /\ UNCHANGED <<issued, adm, cache, auth>>

\* GetTenant and CreateConnection, whose foreign key repeats the check.
CreateConnection(c) ==
    /\ tenant
    /\ c \notin conns \cup gone
    /\ conns' = conns \cup {c}
    /\ UNCHANGED <<tenant, gone, tok, issued, adm, cache, auth, saw>>

\* GetConnection and DeleteConnection.
DeleteConnection(c) ==
    /\ c \in conns
    /\ conns' = conns \ {c}
    /\ gone' = gone \cup {c}
    /\ SetTokens(Cascaded({c}))
    /\ UNCHANGED <<tenant, issued, adm, cache, auth>>

AdmEnd(p) == adm' = [adm EXCEPT ![p] = NoRequest]

\* Issue: GetConnection...
Issue(p, k, c) ==
    /\ adm[p].at = "idle"
    /\ k \notin issued
    /\ c \in conns
    /\ issued' = issued \cup {k}
    /\ adm' = [adm EXCEPT ![p] = [at |-> "create", tok |-> k, conn |-> c]]
    /\ UNCHANGED <<tenant, conns, gone, tok, cache, auth, saw>>

\* ...and CreateToken, which the foreign key refuses if it is gone by now.
CreateToken(p) ==
    /\ adm[p].at = "create"
    /\ AdmEnd(p)
    /\ IF adm[p].conn \in conns
       THEN SetTokens([tok EXCEPT ![adm[p].tok] = [conn |-> adm[p].conn, rev |-> Live]])
       ELSE UNCHANGED <<tok, saw>>
    /\ UNCHANGED <<tenant, conns, gone, issued, cache, auth>>

\* Revoke: revoked_at = NOW(), also of a token that is revoked already.
Revoke(k) ==
    /\ tok[k].conn # NoConn
    /\ SetTokens([tok EXCEPT ![k].rev = Recent])
    /\ UNCHANGED <<tenant, conns, gone, issued, adm, cache, auth>>

\* reenableWindow passes.
Lapse(k) ==
    /\ tok[k].rev = Recent
    /\ tok' = [tok EXCEPT ![k].rev = Old]
    /\ UNCHANGED <<tenant, conns, gone, issued, adm, cache, auth, saw>>

\* Mutant: the deadline is not compared with the time.
Revoked(row) == row.conn # NoConn /\ row.rev # Live

\* RevokedAt != nil and the deadline has not passed.
InWindow(row) == row.conn # NoConn /\ row.rev = Recent

\* Reenable: GetTokenByID...
Reenable(p, k) ==
    /\ adm[p].at = "idle"
    /\ InWindow(tok[k])
    /\ adm' = [adm EXCEPT ![p].at = "clear", ![p].tok = k]
    /\ UNCHANGED <<tenant, conns, gone, tok, issued, cache, auth, saw>>

\* ...and ClearTokenRevocation: no row that is revoked, no effect.
ClearTokenRevocation(p) ==
    /\ adm[p].at = "clear"
    /\ AdmEnd(p)
    /\ SetTokens([tok EXCEPT ![adm[p].tok].rev = Live])
    /\ UNCHANGED <<tenant, conns, gone, issued, cache, auth>>

\* A store call failed.
AdmFail(p) ==
    /\ adm[p].at # "idle"
    /\ AdmEnd(p)
    /\ UNCHANGED <<tenant, conns, gone, tok, issued, cache, auth, saw>>

-----------------------------------------------------------------------------
(* Authenticate *)

\* The call of a goes on to its next step, having found connection c...
Go(a, from, to, c) ==
    /\ auth[a].at = from
    /\ auth' = [auth EXCEPT ![a] = [@ EXCEPT !.at = to, !.conn = c]]
    /\ UNCHANGED <<tenant, conns, gone, tok, issued, adm, saw>>

\* ...or returns.
Return(a, from, answer) ==
    /\ auth[a].at = from
    /\ auth' = [auth EXCEPT ![a] = [NoCall EXCEPT !.answer = answer]]
    /\ saw' = [saw EXCEPT ![a] = {}]
    /\ UNCHANGED <<tenant, conns, gone, tok, issued, adm>>

\* cacheGet.
Authenticate(a, k) ==
    /\ auth[a].at = "idle"
    /\ auth' = [auth EXCEPT ![a] =
                   [NoCall EXCEPT !.at = IF k \in cache THEN "revalidate" ELSE "tenant",
                                  !.tok = k]]
    /\ saw' = [saw EXCEPT ![a] = {Opens(tok[k])}]
    /\ UNCHANGED <<tenant, conns, gone, tok, issued, adm, cache>>

\* Mutant: a cached answer stands as long as the token has a row.
AnyRow(row) == row.conn # NoConn

\* What revalidateToken asks of the row.
Revalidates(row) == Active(row)

\* revalidateToken, GetTokenByID.
RevalidateOK(a) ==
    /\ auth[a].at = "revalidate"
    /\ Revalidates(tok[auth[a].tok])
    /\ Return(a, "revalidate", {tok[auth[a].tok].conn})
    /\ UNCHANGED cache

\* Revoked, deleted, or the look-up failed.
RevalidateFail(a) ==
    /\ Go(a, "revalidate", "drop", NoConn)
    /\ UNCHANGED cache

\* cacheDelete; then as without a cache.
CacheDelete(a) ==
    /\ Go(a, "drop", "tenant", NoConn)
    /\ cache' = cache \ {auth[a].tok}

GetTenant(a) ==
    /\ IF tenant THEN Go(a, "tenant", "lookup", NoConn)
                 ELSE Return(a, "tenant", {NoConn})
    /\ UNCHANGED cache

\* GetActiveTokenByLookup finds tokens that have a look-up hash...
GetActiveTokenByLookup(a) ==
    LET k == auth[a].tok IN
    /\ IF k \in Valid \ Legacy
       THEN Go(a, "lookup", "connection", tok[k].conn)
       ELSE Go(a, "lookup", "list", NoConn)
    /\ UNCHANGED cache

\* ...and ListActiveTokenHashes those that have none.
ListActiveTokenHashes(a) ==
    LET k == auth[a].tok IN
    /\ IF k \in Valid \cap Legacy
       THEN Go(a, "list", "connection", tok[k].conn)
       ELSE Return(a, "list", {NoConn})
    /\ UNCHANGED cache

\* tenantContextFromRow.
GetConnection(a) ==
    /\ IF auth[a].conn \in conns
       THEN Go(a, "connection", "put", auth[a].conn)
       ELSE Return(a, "connection", {NoConn})
    /\ UNCHANGED cache

CachePut(a) ==
    /\ Return(a, "put", {auth[a].conn})
    /\ cache' = cache \cup {auth[a].tok}

\* The store failed: an error, which is not a denial.
AuthFail(a) ==
    /\ \E at \in {"tenant", "lookup", "list", "connection"} : Return(a, at, {})
    /\ UNCHANGED cache

\* cacheTTL passes.
CacheExpire(k) ==
    /\ k \in cache
    /\ cache' = cache \ {k}
    /\ UNCHANGED <<tenant, conns, gone, tok, issued, adm, auth, saw>>

-----------------------------------------------------------------------------
AdminStep ==
    \/ CreateTenant \/ DeleteTenant
    \/ \E c \in Conns : CreateConnection(c) \/ DeleteConnection(c)
    \/ \E k \in Tokens : Revoke(k) \/ Lapse(k)
    \/ \E p \in Admins :
          \/ \E k \in Tokens : Reenable(p, k) \/ \E c \in Conns : Issue(p, k, c)
          \/ CreateToken(p) \/ ClearTokenRevocation(p) \/ AdmFail(p)

AuthStep(a) ==
    \/ \E k \in Tokens : Authenticate(a, k)
    \/ RevalidateOK(a) \/ RevalidateFail(a) \/ CacheDelete(a)
    \/ GetTenant(a) \/ GetActiveTokenByLookup(a) \/ ListActiveTokenHashes(a)
    \/ GetConnection(a) \/ CachePut(a) \/ AuthFail(a)

Next ==
    \/ AdminStep
    \/ \E a \in Auths : AuthStep(a)
    \/ \E k \in Tokens : CacheExpire(k)

Spec == Init /\ [][Next]_vars

-----------------------------------------------------------------------------
(* Properties *)

Gate == INSTANCE TokenGate WITH
    opens <- [k \in Tokens |-> Opens(tok[k])],
    call <- [a \in Auths |-> [tok |-> auth[a].tok, saw |-> saw[a], answer |-> auth[a].answer]]

\* Authenticate implements TokenGate: although a revocation never reaches the
\* cache, and an answer may be cached after its token was revoked, no call
\* that begins after the revocation succeeds, and no cached answer makes a call
\* fail while its token is valid.
Implements == Gate!Spec

\* The re-enable window closes: a token revoked longer ago than the window, with
\* no re-enable request under way, stays revoked until it is revoked again
\* (which opens a new window) or deleted.
LongRevoked(k) ==
    tok[k].rev = Old /\ \A p \in Admins : ~(adm[p].at = "clear" /\ adm[p].tok = k)

\* No interleaving of re-enable requests makes such a token valid; and whatever is
\* created and deleted meanwhile, no row is left without the row it refers to.
WindowCloses ==
    /\ []TypeOK
    /\ [][\A k \in Tokens :
             LongRevoked(k) => LongRevoked(k)' \/ tok'[k] = NoRow \/ tok'[k].rev = Recent]_vars

=============================================================================
