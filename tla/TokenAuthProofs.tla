-------------------------- MODULE TokenAuthProofs --------------------------
(***************************************************************************)
(* Proofs about TokenAuth, for any number of tokens, connections, callers  *)
(* and requests: that Authenticate with its cache implements TokenGate,    *)
(* and that the re-enable window closes.                                   *)
(*                                                                         *)
(* IInv says what a call of Authenticate that has come so far may rely on, *)
(* and that a token's row is created once.                                 *)
(***************************************************************************)
EXTENDS TokenAuth, TLAPS

-----------------------------------------------------------------------------
(* The invariant *)

\* A caller has a token, and a history, exactly while its call is under way.
CallShape ==
    \A a \in Auths :
        IF auth[a].at = "idle"
        THEN auth[a].tok = NoToken /\ saw[a] = {}
        ELSE auth[a].tok \in Tokens /\ auth[a].answer = {}

\* A call under way has seen what its token opens now.
SeesNow ==
    \A a \in Auths : auth[a].at # "idle" => Opens(tok[auth[a].tok]) \in saw[a]

\* The look-up by hash has missed a token that has one: it was not valid.
LookupMissed ==
    \A a \in Auths : auth[a].at = "list" /\ auth[a].tok \notin Legacy => NoConn \in saw[a]

\* A connection that a call has found is one its token opened, and until the
\* call has looked that connection up, it is still the token's or the call has
\* seen the token invalid.
Found ==
    \A a \in Auths : auth[a].at \in {"connection", "put"} =>
        /\ auth[a].conn # NoConn
        /\ auth[a].conn \in saw[a]
        /\ tok[auth[a].tok].conn = auth[a].conn \/ NoConn \in saw[a]

\* Token ids are never used twice: a row is created where there is none, by the
\* one request that issues it.
CreatedOnce ==
    /\ \A k \in Tokens \ issued : tok[k] = NoRow
    /\ \A p \in Admins : adm[p].at = "create" =>
          /\ adm[p].tok \in issued
          /\ adm[p].conn # NoConn
          /\ tok[adm[p].tok] = NoRow
          /\ \A q \in Admins \ {p} : adm[q].at = "create" => adm[q].tok # adm[p].tok

IInv == TypeOK /\ CallShape /\ SeesNow /\ LookupMissed /\ Found /\ CreatedOnce

-----------------------------------------------------------------------------
(* Steps of a call, and of the rows under it *)

\* A row of tokens, a call and a request are records of their types.
LEMMA RecordTypes ==
    /\ NoRow \in Row /\ NoCall \in Call /\ NoRequest \in AdminRequest
    /\ \A row \in Row : \A r \in {Live, Recent, Old} : [row EXCEPT !.rev = r] \in Row
    /\ \A row \in Row : Opens(row) \in MaybeConn
  BY DEF NoRow, Row, NoCall, Call, NoRequest, AdminRequest, MaybeConn, Live, Recent, Old,
         Opens, Active

\* What a call that goes on has to have found out.
LEMMA GoKeeps ==
    ASSUME IInv, NEW a \in Auths, NEW from \in Open, NEW to \in Open, NEW c \in MaybeConn,
           Go(a, from, to, c),
           to = "list" /\ auth[a].tok \notin Legacy => NoConn \in saw[a],
           to \in {"connection", "put"} =>
               /\ c # NoConn /\ c \in saw[a]
               /\ tok[auth[a].tok].conn = c \/ NoConn \in saw[a]
    PROVE  /\ auth' \in [Auths -> Call]
           /\ CallShape' /\ SeesNow' /\ LookupMissed' /\ Found'
           /\ \A b \in Auths : auth'[b].tok = auth[b].tok /\ auth'[b].answer = auth[b].answer
<1>t. auth \in [Auths -> Call]
  BY DEF IInv, TypeOK
<1>1. /\ auth[a].at = from /\ UNCHANGED <<tok, saw>>
      /\ auth' = [auth EXCEPT ![a] = [auth[a] EXCEPT !.at = to, !.conn = c]]
  BY DEF Go
<1>2. /\ from # "idle" /\ to # "idle"
      /\ [auth[a] EXCEPT !.at = to, !.conn = c] \in Call
  BY <1>t DEF Open, Call
<1>3. /\ auth' \in [Auths -> Call]
      /\ auth'[a].at = to /\ auth'[a].conn = c /\ auth'[a].tok = auth[a].tok
      /\ auth'[a].answer = auth[a].answer
      /\ \A b \in Auths \ {a} : auth'[b] = auth[b]
  BY <1>t, <1>1, <1>2 DEF Call
<1> USE <1>1, <1>2, <1>3 DEF IInv
<1>4. CallShape'
  BY DEF CallShape
<1>5. SeesNow'
  BY DEF SeesNow
<1>6. LookupMissed'
  BY DEF LookupMissed
<1>7. Found'
  BY DEF Found
<1> QED
  BY <1>4, <1>5, <1>6, <1>7

\* A call that returns leaves nothing behind but its answer.
LEMMA ReturnKeeps ==
    ASSUME IInv, NEW a \in Auths, NEW from, NEW answer \in SUBSET MaybeConn,
           Return(a, from, answer)
    PROVE  /\ auth' \in [Auths -> Call] /\ saw' \in [Auths -> SUBSET MaybeConn]
           /\ CallShape' /\ SeesNow' /\ LookupMissed' /\ Found'
           /\ auth'[a].tok = NoToken /\ auth'[a].answer = answer /\ saw'[a] = {}
           /\ \A b \in Auths \ {a} : auth'[b] = auth[b] /\ saw'[b] = saw[b]
<1>t. auth \in [Auths -> Call] /\ saw \in [Auths -> SUBSET MaybeConn]
  BY DEF IInv, TypeOK
<1>1. /\ auth' = [auth EXCEPT ![a] = [NoCall EXCEPT !.answer = answer]]
      /\ saw' = [saw EXCEPT ![a] = {}] /\ UNCHANGED tok
  BY DEF Return
<1>2. [NoCall EXCEPT !.answer = answer] \in Call
  BY DEF NoCall, Call, MaybeConn
<1>3. /\ auth' \in [Auths -> Call] /\ saw' \in [Auths -> SUBSET MaybeConn]
      /\ auth'[a].at = "idle" /\ auth'[a].tok = NoToken /\ auth'[a].answer = answer
      /\ saw'[a] = {}
      /\ \A b \in Auths \ {a} : auth'[b] = auth[b] /\ saw'[b] = saw[b]
  BY <1>t, <1>1, <1>2 DEF NoCall
<1> USE <1>1, <1>3 DEF IInv
<1>4. CallShape'
  BY DEF CallShape
<1>5. SeesNow'
  BY DEF SeesNow
<1>6. LookupMissed'
  BY DEF LookupMissed
<1>7. Found'
  BY DEF Found
<1> QED
  BY <1>4, <1>5, <1>6, <1>7

\* A statement that deletes rows, creates rows where there are none or changes
\* when they were revoked is seen by the calls under way.
LEMMA SetTokensKeeps ==
    ASSUME IInv, NEW new \in [Tokens -> Row], SetTokens(new), UNCHANGED auth,
           \A k \in Tokens : \/ new[k].conn = tok[k].conn
                             \/ new[k].conn = NoConn
                             \/ tok[k].conn = NoConn
    PROVE  /\ saw' \in [Auths -> SUBSET MaybeConn]
           /\ CallShape' /\ SeesNow' /\ LookupMissed' /\ Found'
           /\ \A a \in Auths : saw'[a] = IF auth[a].at # "idle"
                                         THEN saw[a] \cup {Opens(new[auth[a].tok])}
                                         ELSE saw[a]
<1>t. auth \in [Auths -> Call] /\ saw \in [Auths -> SUBSET MaybeConn] /\ tok \in [Tokens -> Row]
  BY DEF IInv, TypeOK
<1>1. tok' = new /\ auth' = auth
  BY DEF SetTokens
<1>2. ASSUME NEW a \in Auths
      PROVE /\ auth[a].at \in Open <=> auth[a].at # "idle"
            /\ auth[a].at # "idle" => auth[a].tok \in Tokens
  BY <1>t DEF Call, Open, IInv, CallShape
<1>3. \A a \in Auths : saw'[a] = IF auth[a].at # "idle"
                                 THEN saw[a] \cup {Opens(new[auth[a].tok])}
                                 ELSE saw[a]
  BY <1>2 DEF SetTokens, Observe
<1>4. saw' \in [Auths -> SUBSET MaybeConn]
  <2>1. ASSUME NEW a \in Auths, auth[a].at \in Open PROVE Opens(new[auth[a].tok]) \in MaybeConn
    BY <1>2, <2>1, RecordTypes
  <2> QED
    BY <1>t, <2>1 DEF SetTokens, Observe
<1>5. CallShape'
  BY <1>1, <1>3 DEF CallShape, IInv
<1>6. SeesNow'
  BY <1>1, <1>3 DEF SeesNow
<1>7. LookupMissed'
  BY <1>1, <1>3 DEF LookupMissed, IInv
<1>8. ASSUME NEW a \in Auths, auth[a].at \in {"connection", "put"}
      PROVE /\ auth[a].conn # NoConn
            /\ auth[a].conn \in saw'[a]
            /\ new[auth[a].tok].conn = auth[a].conn \/ NoConn \in saw'[a]
  <2>1. PICK k \in Tokens : k = auth[a].tok
    BY <1>2, <1>8
  <2>2. /\ auth[a].conn # NoConn /\ auth[a].conn \in saw[a]
        /\ tok[k].conn = auth[a].conn \/ NoConn \in saw[a]
    BY <1>8, <2>1 DEF IInv, Found
  <2>3. saw'[a] = saw[a] \cup {Opens(new[k])}
    BY <1>3, <1>8, <2>1
  <2>4. new[k].conn = NoConn => Opens(new[k]) = NoConn
    BY DEF Opens, Active
  <2> QED
    BY <2>1, <2>2, <2>3, <2>4
<1>9. Found'
  BY <1>1, <1>8 DEF Found
<1> QED
  BY <1>3, <1>4, <1>5, <1>6, <1>7, <1>9

\* A step that neither the rows nor the calls take part in.
LEMMA CallsKept ==
    ASSUME IInv, UNCHANGED <<tok, auth, saw>>
    PROVE  CallShape' /\ SeesNow' /\ LookupMissed' /\ Found'
  BY DEF IInv, CallShape, SeesNow, LookupMissed, Found

-----------------------------------------------------------------------------
(* The invariant is inductive *)

\* The rows of connections, and the tokens that go with them.
LEMMA RowSteps ==
    ASSUME IInv, \/ CreateTenant \/ DeleteTenant
                 \/ \E c \in Conns : CreateConnection(c) \/ DeleteConnection(c)
    PROVE  IInv'
<1>t. TypeOK /\ CreatedOnce
  BY DEF IInv
<1>1. ASSUME CreateTenant \/ \E c \in Conns : CreateConnection(c)
      PROVE IInv'
  <2>1. UNCHANGED <<tok, issued, adm, auth, saw>>
    BY <1>1 DEF CreateTenant, CreateConnection
  <2>2. TypeOK'
    BY <1>1, <1>t DEF CreateTenant, CreateConnection, TypeOK
  <2>3. CreatedOnce'
    BY <1>t, <2>1 DEF CreatedOnce
  <2> QED
    BY <2>1, <2>2, <2>3, CallsKept DEF IInv
<1>2. ASSUME NEW D, D \subseteq conns, conns' = conns \ D, gone' = gone \cup D,
             SetTokens(Cascaded(D)), tenant' \in BOOLEAN, conns' # {} => tenant',
             UNCHANGED <<issued, adm, cache, auth>>
      PROVE IInv'
  <2>0. D \subseteq Conns /\ NoConn \notin D
    BY <1>2, <1>t, NothingIsNothing DEF TypeOK
  <2>1. Cascaded(D) \in [Tokens -> Row]
    BY <1>t, RecordTypes DEF Cascaded, TypeOK
  <2>2. \A k \in Tokens : /\ Cascaded(D)[k] = tok[k] \/ Cascaded(D)[k] = NoRow
                          /\ tok[k].conn \in D => Cascaded(D)[k] = NoRow
    BY DEF Cascaded
  <2>3. \A k \in Tokens : Cascaded(D)[k].conn = tok[k].conn \/ Cascaded(D)[k].conn = NoConn
    BY <2>2 DEF NoRow
  <2>4. /\ saw' \in [Auths -> SUBSET MaybeConn]
        /\ CallShape' /\ SeesNow' /\ LookupMissed' /\ Found'
    BY <1>2, <2>1, <2>3, SetTokensKeeps
  <2>5. tok' = Cascaded(D)
    BY <1>2 DEF SetTokens
  <2>6. \A k \in Tokens : tok'[k].conn \in conns' \cup {NoConn}
    BY <1>2, <1>t, <2>2, <2>5 DEF TypeOK, NoRow
  <2>7. TypeOK'
    BY <1>2, <1>t, <2>0, <2>1, <2>4, <2>5, <2>6 DEF TypeOK
  <2>8. CreatedOnce'
    BY <1>2, <1>t, <2>2, <2>5 DEF CreatedOnce, TypeOK
  <2> QED
    BY <2>4, <2>7, <2>8 DEF IInv
<1>3. CASE DeleteTenant
  <2>1. conns' = conns \ conns
    BY <1>3 DEF DeleteTenant
  <2> QED
    BY <1>2, <1>3, <2>1 DEF DeleteTenant
<1>4. ASSUME NEW c \in Conns, DeleteConnection(c) PROVE IInv'
  BY <1>2, <1>4, <1>t DEF DeleteConnection, TypeOK
<1> QED
  BY <1>1, <1>3, <1>4

\* The row of one token changes, and the request that changed it is over.
LEMMA RowChanges ==
    ASSUME IInv, NEW k \in Tokens, NEW row \in Row,
           SetTokens([tok EXCEPT ![k] = row]),
           row.conn \in conns \cup {NoConn},
           row.conn = tok[k].conn \/ tok[k].conn = NoConn,
           row = NoRow \/ (k \in issued /\ \A p \in Admins : adm'[p].at = "create" => adm'[p].tok # k),
           \A p \in Admins : adm'[p] = adm[p] \/ adm'[p] = NoRequest,
           adm' \in [Admins -> AdminRequest],
           UNCHANGED <<tenant, conns, gone, issued, cache, auth>>
    PROVE  IInv'
<1>t. TypeOK /\ CreatedOnce
  BY DEF IInv
<1> DEFINE new == [tok EXCEPT ![k] = row]
<1>1. /\ new \in [Tokens -> Row] /\ new[k] = row
      /\ \A j \in Tokens \ {k} : new[j] = tok[j]
  BY <1>t DEF TypeOK
<1>2. tok' = new
  BY DEF SetTokens
<1> HIDE DEF new
<1>3. /\ saw' \in [Auths -> SUBSET MaybeConn]
      /\ CallShape' /\ SeesNow' /\ LookupMissed' /\ Found'
  <2>1. SetTokens(new)
    BY DEF new
  <2> QED
    BY <1>1, <2>1, SetTokensKeeps
<1>4. \A j \in Tokens : tok'[j].conn \in conns \cup {NoConn}
  BY <1>t, <1>1, <1>2 DEF TypeOK
<1>5. TypeOK'
  BY <1>t, <1>1, <1>2, <1>3, <1>4 DEF TypeOK
<1>6. CreatedOnce'
  <2>1. ASSUME NEW j \in Tokens \ issued PROVE tok'[j] = NoRow
    BY <1>t, <1>1, <1>2, <2>1 DEF CreatedOnce
  <2>2. ASSUME NEW p \in Admins, adm'[p].at = "create"
        PROVE /\ adm'[p] = adm[p] /\ adm[p].tok \in Tokens
              /\ tok'[adm[p].tok] = NoRow
    <3>1. adm'[p] = adm[p]
      BY <2>2 DEF NoRequest
    <3>2. adm[p].tok \in Tokens /\ tok[adm[p].tok] = NoRow
      BY <1>t, <2>2, <3>1 DEF CreatedOnce, TypeOK
    <3> QED
      BY <1>1, <1>2, <2>2, <3>1, <3>2
  <2> QED
    BY <1>t, <2>1, <2>2 DEF CreatedOnce
<1> QED
  BY <1>3, <1>5, <1>6 DEF IInv

\* Tokens are issued, revoked and re-enabled.
LEMMA TokenSteps ==
    ASSUME IInv, \/ \E k \in Tokens : Revoke(k) \/ Lapse(k)
                 \/ \E p \in Admins :
                       \/ \E k \in Tokens : Reenable(p, k) \/ \E c \in Conns : Issue(p, k, c)
                       \/ CreateToken(p) \/ ClearTokenRevocation(p) \/ AdmFail(p)
    PROVE  IInv'
<1>t. TypeOK /\ CreatedOnce
  BY DEF IInv
<1>r. ASSUME NEW k \in Tokens
      PROVE /\ tok[k] \in Row /\ tok[k].conn \in conns \cup {NoConn}
            /\ tok[k] # NoRow => k \in issued /\ \A p \in Admins : adm[p].at = "create" => adm[p].tok # k
  BY <1>t DEF TypeOK, CreatedOnce
<1>1. ASSUME NEW k \in Tokens, Revoke(k) PROVE IInv'
  <2> DEFINE row == [tok[k] EXCEPT !.rev = Recent]
  <2>1. row \in Row /\ row.conn = tok[k].conn /\ tok[k].conn # NoConn
    BY <1>1, <1>r, RecordTypes DEF Revoke, Row
  <2>2. tok[k] # NoRow
    BY <2>1 DEF NoRow
  <2>3. [tok EXCEPT ![k].rev = Recent] = [tok EXCEPT ![k] = row]
    OBVIOUS
  <2>4. /\ SetTokens([tok EXCEPT ![k] = row])
        /\ UNCHANGED <<tenant, conns, gone, issued, adm, cache, auth>>
    BY <1>1, <2>3 DEF Revoke
  <2>5. adm' \in [Admins -> AdminRequest]
    BY <1>t, <2>4 DEF TypeOK
  <2> HIDE DEF row
  <2> QED
    BY <1>r, <2>1, <2>2, <2>4, <2>5, RowChanges
<1>2. ASSUME NEW k \in Tokens, Lapse(k) PROVE IInv'
  <2>1. /\ tok[k].rev = Recent /\ tok' = [tok EXCEPT ![k].rev = Old]
        /\ UNCHANGED <<tenant, conns, gone, issued, adm, cache, auth, saw>>
    BY <1>2 DEF Lapse
  <2>2. /\ tok' \in [Tokens -> Row]
        /\ \A j \in Tokens : tok'[j].conn = tok[j].conn
        /\ \A j \in Tokens : Opens(tok'[j]) = Opens(tok[j])
        /\ \A j \in Tokens : tok[j] = NoRow => tok'[j] = NoRow
    BY <1>t, <2>1 DEF TypeOK, Row, Opens, Active, NoRow, Live, Recent, Old
  <2>3. TypeOK'
    BY <1>t, <2>1, <2>2 DEF TypeOK
  <2>4. CreatedOnce'
    BY <1>t, <2>1, <2>2 DEF CreatedOnce, TypeOK
  <2>5. CallShape' /\ LookupMissed'
    BY <2>1 DEF IInv, CallShape, LookupMissed
  <2>6. SeesNow' /\ Found'
    <3>1. ASSUME NEW a \in Auths, auth[a].at # "idle" PROVE auth[a].tok \in Tokens
      BY <3>1 DEF IInv, CallShape
    <3> QED
      BY <2>1, <2>2, <3>1 DEF IInv, SeesNow, Found
  <2> QED
    BY <2>3, <2>4, <2>5, <2>6 DEF IInv
<1>3. ASSUME NEW p \in Admins, NEW k \in Tokens, Reenable(p, k) PROVE IInv'
  <2>1. /\ adm' = [adm EXCEPT ![p] = [adm[p] EXCEPT !.at = "clear", !.tok = k]]
        /\ UNCHANGED <<tenant, conns, gone, tok, issued, cache, auth, saw>>
    BY <1>3 DEF Reenable
  <2>2. /\ adm' \in [Admins -> AdminRequest]
        /\ adm'[p].at = "clear" /\ \A q \in Admins \ {p} : adm'[q] = adm[q]
    BY <1>t, <2>1 DEF TypeOK, AdminRequest
  <2>3. TypeOK' /\ CreatedOnce'
    BY <1>t, <2>1, <2>2 DEF TypeOK, CreatedOnce
  <2> QED
    BY <2>1, <2>3, CallsKept DEF IInv
<1>4. ASSUME NEW p \in Admins, NEW k \in Tokens, NEW c \in Conns, Issue(p, k, c) PROVE IInv'
  <2>1. /\ adm' = [adm EXCEPT ![p] = [at |-> "create", tok |-> k, conn |-> c]]
        /\ k \notin issued /\ issued' = issued \cup {k}
        /\ UNCHANGED <<tenant, conns, gone, tok, cache, auth, saw>>
    BY <1>4 DEF Issue
  <2>2. /\ adm' \in [Admins -> AdminRequest]
        /\ adm'[p].at = "create" /\ adm'[p].tok = k /\ adm'[p].conn = c
        /\ \A q \in Admins \ {p} : adm'[q] = adm[q]
    BY <1>t, <2>1 DEF TypeOK, AdminRequest, MaybeConn
  <2>3. c # NoConn /\ tok[k] = NoRow
    BY <1>t, <2>1, NothingIsNothing DEF CreatedOnce
  <2>4. TypeOK'
    BY <1>t, <2>1, <2>2 DEF TypeOK
  <2>5. CreatedOnce'
    BY <1>t, <2>1, <2>2, <2>3 DEF CreatedOnce
  <2> QED
    BY <2>1, <2>4, <2>5, CallsKept DEF IInv
<1>e. ASSUME NEW p \in Admins, AdmEnd(p)
      PROVE /\ adm' \in [Admins -> AdminRequest]
            /\ adm'[p] = NoRequest /\ \A q \in Admins \ {p} : adm'[q] = adm[q]
  BY <1>e, <1>t, RecordTypes DEF AdmEnd, TypeOK
<1>f. ASSUME NEW p \in Admins, AdmEnd(p),
             UNCHANGED <<tenant, conns, gone, tok, issued, cache, auth, saw>>
      PROVE IInv'
  <2>1. TypeOK' /\ CreatedOnce'
    BY <1>e, <1>f, <1>t DEF TypeOK, CreatedOnce, NoRequest
  <2> QED
    BY <1>f, <2>1, CallsKept DEF IInv
<1>5. ASSUME NEW p \in Admins, CreateToken(p) PROVE IInv'
  <2>0. /\ adm[p].at = "create" /\ AdmEnd(p)
        /\ UNCHANGED <<tenant, conns, gone, issued, cache, auth>>
    BY <1>5 DEF CreateToken
  <2>1. CASE adm[p].conn \notin conns
    BY <1>5, <1>f, <2>0, <2>1 DEF CreateToken
  <2>2. CASE adm[p].conn \in conns
    <3>1. PICK k \in Tokens : k = adm[p].tok
      BY <1>t, <2>0 DEF TypeOK, CreatedOnce
    <3> DEFINE row == [conn |-> adm[p].conn, rev |-> Live]
    <3>2. SetTokens([tok EXCEPT ![k] = row])
      BY <1>5, <2>2, <3>1 DEF CreateToken
    <3>3. row \in Row /\ row.conn \in conns
      BY <1>t, <2>2 DEF Row, TypeOK, MaybeConn
    <3>4. /\ tok[k].conn = NoConn /\ k \in issued
          /\ \A q \in Admins : adm'[q].at = "create" => adm'[q].tok # k
      BY <1>e, <1>t, <2>0, <3>1 DEF CreatedOnce, NoRow, NoRequest
    <3> HIDE DEF row
    <3> QED
      BY <1>e, <2>0, <3>2, <3>3, <3>4, RowChanges
  <2> QED
    BY <2>1, <2>2
<1>6. ASSUME NEW p \in Admins, ClearTokenRevocation(p) PROVE IInv'
  <2>0. /\ AdmEnd(p) /\ SetTokens([tok EXCEPT ![adm[p].tok].rev = Live])
        /\ UNCHANGED <<tenant, conns, gone, issued, cache, auth>>
    BY <1>6 DEF ClearTokenRevocation
  <2>1. CASE adm[p].tok \in Tokens
    <3>1. PICK k \in Tokens : k = adm[p].tok
      BY <2>1
    <3> DEFINE row == [tok[k] EXCEPT !.rev = Live]
    <3>2. row \in Row /\ row.conn = tok[k].conn /\ (tok[k] = NoRow => row = NoRow)
      BY <1>r, RecordTypes DEF Row, NoRow
    <3>3. SetTokens([tok EXCEPT ![k] = row])
      BY <2>0, <3>1
    <3>4. row = NoRow \/ (k \in issued /\ \A q \in Admins : adm'[q].at = "create" => adm'[q].tok # k)
      BY <1>e, <1>r, <2>0, <3>2 DEF NoRequest
    <3> HIDE DEF row
    <3> QED
      BY <1>e, <1>r, <2>0, <3>2, <3>3, <3>4, RowChanges
  <2>2. CASE adm[p].tok \notin Tokens
    <3>1. [tok EXCEPT ![adm[p].tok].rev = Live] = tok
      BY <1>t, <2>2 DEF TypeOK
    <3>2. SetTokens(tok)
      BY <2>0, <3>1
    <3>3. tok' = tok /\ tok \in [Tokens -> Row]
      BY <1>t, <3>2 DEF SetTokens, TypeOK
    <3>4. /\ saw' \in [Auths -> SUBSET MaybeConn]
          /\ CallShape' /\ SeesNow' /\ LookupMissed' /\ Found'
      BY <2>0, <3>2, <3>3, SetTokensKeeps
    <3>5. TypeOK' /\ CreatedOnce'
      BY <1>e, <1>t, <2>0, <3>3, <3>4 DEF TypeOK, CreatedOnce, NoRequest
    <3> QED
      BY <3>4, <3>5 DEF IInv
  <2> QED
    BY <2>1, <2>2
<1>7. ASSUME NEW p \in Admins, AdmFail(p) PROVE IInv'
  BY <1>7, <1>f DEF AdmFail
<1> QED
  BY <1>1, <1>2, <1>3, <1>4, <1>5, <1>6, <1>7

\* The calls of Authenticate.
LEMMA AuthSteps ==
    ASSUME IInv, NEW a \in Auths, AuthStep(a)
    PROVE  IInv'
<1>t. TypeOK /\ CreatedOnce
  BY DEF IInv
\* What the control plane keeps, a call leaves alone.
<1>k. ASSUME UNCHANGED <<tenant, conns, gone, tok, issued, adm>>, cache' \subseteq Tokens,
             auth' \in [Auths -> Call], saw' \in [Auths -> SUBSET MaybeConn],
             CallShape' /\ SeesNow' /\ LookupMissed' /\ Found'
      PROVE IInv'
  <2>1. TypeOK' /\ CreatedOnce'
    BY <1>k, <1>t DEF TypeOK, CreatedOnce
  <2> QED
    BY <1>k, <2>1 DEF IInv
<1>c. /\ auth[a] \in Call /\ cache \subseteq Tokens /\ saw \in [Auths -> SUBSET MaybeConn]
      /\ auth[a].at # "idle" =>
            /\ auth[a].tok \in Tokens /\ tok[auth[a].tok] \in Row
            /\ Opens(tok[auth[a].tok]) \in saw[a]
            /\ tok[auth[a].tok].conn \in conns \cup {NoConn}
  BY <1>t DEF TypeOK, IInv, CallShape, SeesNow
<1>g. ASSUME NEW from \in Open, NEW to \in Open, NEW c \in MaybeConn, Go(a, from, to, c),
             cache' \subseteq Tokens,
             to = "list" /\ auth[a].tok \notin Legacy => NoConn \in saw[a],
             to \in {"connection", "put"} =>
                 /\ c # NoConn /\ c \in saw[a]
                 /\ tok[auth[a].tok].conn = c \/ NoConn \in saw[a]
      PROVE IInv'
  <2>1. auth' \in [Auths -> Call] /\ CallShape' /\ SeesNow' /\ LookupMissed' /\ Found'
    BY <1>g, GoKeeps
  <2> QED
    BY <1>c, <1>g, <1>k, <2>1 DEF Go
<1>e. ASSUME NEW from, NEW answer \in SUBSET MaybeConn, Return(a, from, answer),
             cache' \subseteq Tokens
      PROVE IInv'
  <2>1. /\ auth' \in [Auths -> Call] /\ saw' \in [Auths -> SUBSET MaybeConn]
        /\ CallShape' /\ SeesNow' /\ LookupMissed' /\ Found'
    BY <1>e, ReturnKeeps
  <2> QED
    BY <1>e, <1>k, <2>1 DEF Return
<1>o. /\ NoConn \in MaybeConn /\ {NoConn} \in SUBSET MaybeConn /\ {} \in SUBSET MaybeConn
      /\ auth[a].conn \in MaybeConn
      /\ {"revalidate", "drop", "tenant", "lookup", "list", "connection", "put"} \subseteq Open
  BY <1>c DEF MaybeConn, Open, Call
<1>1. ASSUME NEW k \in Tokens, Authenticate(a, k) PROVE IInv'
  <2> DEFINE new == [NoCall EXCEPT !.at = IF k \in cache THEN "revalidate" ELSE "tenant",
                                   !.tok = k]
  <2>1. /\ new \in Call /\ new.at \in {"revalidate", "tenant"} /\ new.tok = k /\ new.answer = {}
        /\ Opens(tok[k]) \in MaybeConn
    BY <1>t, RecordTypes DEF NoCall, Call, Open, TypeOK
  <2>2. /\ auth' = [auth EXCEPT ![a] = new] /\ saw' = [saw EXCEPT ![a] = {Opens(tok[k])}]
        /\ UNCHANGED <<tenant, conns, gone, tok, issued, adm, cache>>
    BY <1>1 DEF Authenticate
  <2> HIDE DEF new
  <2>3. /\ auth' \in [Auths -> Call] /\ saw' \in [Auths -> SUBSET MaybeConn]
        /\ auth'[a] = new /\ saw'[a] = {Opens(tok[k])}
        /\ \A b \in Auths \ {a} : auth'[b] = auth[b] /\ saw'[b] = saw[b]
    BY <1>t, <2>1, <2>2 DEF TypeOK
  <2>4. CallShape' /\ SeesNow' /\ LookupMissed' /\ Found'
    BY <2>1, <2>2, <2>3 DEF IInv, CallShape, SeesNow, LookupMissed, Found
  <2> QED
    BY <1>c, <1>k, <2>2, <2>3, <2>4
<1>2. CASE RevalidateOK(a)
  <2>1. /\ Return(a, "revalidate", {tok[auth[a].tok].conn}) /\ cache' = cache
        /\ auth[a].at # "idle"
    BY <1>2 DEF RevalidateOK
  <2>2. {tok[auth[a].tok].conn} \in SUBSET MaybeConn
    BY <1>c, <2>1 DEF Row
  <2> QED
    BY <1>c, <1>e, <2>1, <2>2
<1>3. CASE RevalidateFail(a)
  BY <1>3, <1>c, <1>g, <1>o DEF RevalidateFail
<1>4. CASE CacheDelete(a)
  BY <1>4, <1>c, <1>g, <1>o DEF CacheDelete
<1>5. CASE GetTenant(a)
  BY <1>5, <1>c, <1>e, <1>g, <1>o DEF GetTenant
<1>6. CASE GetActiveTokenByLookup(a)
  <2>1. PICK k \in Tokens : k = auth[a].tok
    BY <1>6, <1>c DEF GetActiveTokenByLookup, Go
  <2>2. auth[a].at # "idle" /\ cache' = cache
    BY <1>6 DEF GetActiveTokenByLookup, Go
  <2>3. CASE k \in Valid \ Legacy
    <3>1. Go(a, "lookup", "connection", tok[k].conn)
      BY <1>6, <2>1, <2>3 DEF GetActiveTokenByLookup
    <3>2. /\ tok[k].conn # NoConn /\ tok[k].conn \in saw[a] /\ tok[k].conn \in MaybeConn
      BY <1>c, <2>1, <2>2, <2>3 DEF Valid, Active, Opens, Row
    <3> QED
      BY <1>c, <1>g, <1>o, <2>1, <2>2, <3>1, <3>2
  <2>4. CASE k \notin Valid \ Legacy
    <3>1. Go(a, "lookup", "list", NoConn)
      BY <1>6, <2>1, <2>4 DEF GetActiveTokenByLookup
    <3>2. k \notin Legacy => NoConn \in saw[a]
      BY <1>c, <2>1, <2>2, <2>4 DEF Valid, Opens
    <3> QED
      BY <1>c, <1>g, <1>o, <2>1, <2>2, <3>1, <3>2
  <2> QED
    BY <2>3, <2>4
<1>7. CASE ListActiveTokenHashes(a)
  <2>1. PICK k : k = auth[a].tok
    OBVIOUS
  <2>2. cache' = cache
    BY <1>7 DEF ListActiveTokenHashes
  <2>3. CASE k \in Valid \cap Legacy
    <3>1. Go(a, "list", "connection", tok[k].conn) /\ auth[a].at = "list"
      BY <1>7, <2>1, <2>3 DEF ListActiveTokenHashes, Go
    <3>2. /\ tok[k].conn # NoConn /\ tok[k].conn \in saw[a] /\ tok[k].conn \in MaybeConn
      BY <1>c, <2>1, <2>3, <3>1 DEF Valid, Active, Opens, Row
    <3> QED
      BY <1>c, <1>g, <1>o, <2>1, <2>2, <3>1, <3>2
  <2>4. CASE k \notin Valid \cap Legacy
    BY <1>7, <1>c, <1>e, <1>o, <2>1, <2>4 DEF ListActiveTokenHashes
  <2> QED
    BY <2>3, <2>4
<1>8. CASE GetConnection(a)
  <2>1. CASE auth[a].conn \in conns
    <3>1. Go(a, "connection", "put", auth[a].conn) /\ auth[a].at = "connection" /\ cache' = cache
      BY <1>8, <2>1 DEF GetConnection, Go
    <3>2. /\ auth[a].conn # NoConn /\ auth[a].conn \in saw[a]
          /\ tok[auth[a].tok].conn = auth[a].conn \/ NoConn \in saw[a]
      BY <3>1 DEF IInv, Found
    <3> QED
      BY <1>c, <1>g, <1>o, <3>1, <3>2
  <2>2. CASE auth[a].conn \notin conns
    BY <1>8, <1>c, <1>e, <1>o, <2>2 DEF GetConnection
  <2> QED
    BY <2>1, <2>2
<1>9. CASE CachePut(a)
  <2>1. /\ Return(a, "put", {auth[a].conn}) /\ auth[a].at = "put"
        /\ cache' = cache \cup {auth[a].tok}
    BY <1>9 DEF CachePut, Return
  <2> QED
    BY <1>c, <1>e, <1>o, <2>1
<1>10. CASE AuthFail(a)
  BY <1>10, <1>c, <1>e, <1>o DEF AuthFail
<1> QED
  BY <1>1, <1>2, <1>3, <1>4, <1>5, <1>6, <1>7, <1>8, <1>9, <1>10 DEF AuthStep

\* The whole of it.
LEMMA InvStep == IInv /\ [Next]_vars => IInv'
<1> SUFFICES ASSUME IInv, [Next]_vars PROVE IInv'
  OBVIOUS
<1>1. CASE AdminStep
  BY <1>1, RowSteps, TokenSteps DEF AdminStep
<1>2. ASSUME NEW a \in Auths, AuthStep(a) PROVE IInv'
  BY <1>2, AuthSteps
<1>3. ASSUME \/ UNCHANGED vars
             \/ \E k \in Tokens : CacheExpire(k)
      PROVE IInv'
  <2>1. UNCHANGED <<tok, auth, saw>>
    BY <1>3 DEF vars, CacheExpire
  <2>2. TypeOK' /\ CreatedOnce'
    BY <1>3 DEF vars, CacheExpire, IInv, TypeOK, CreatedOnce
  <2> QED
    BY <2>1, <2>2, CallsKept DEF IInv
<1> QED
  BY <1>1, <1>2, <1>3 DEF Next

\* At the start the only rows are those of the tokens issued long ago.
LEMMA InvInit == Init => IInv
<1> SUFFICES ASSUME Init PROVE IInv
  OBVIOUS
<1>1. tok \in [Tokens -> Row] /\ \A k \in Tokens : tok[k].conn \in conns \cup {NoConn}
  BY DEF Init, NoRow, Row, MaybeConn, Live, Recent, Old
<1>2. TypeOK
  BY <1>1, LegacyAreTokens, RecordTypes DEF Init, TypeOK, MaybeConn
<1>3. CallShape /\ SeesNow /\ LookupMissed /\ Found
  BY DEF Init, NoCall, CallShape, SeesNow, LookupMissed, Found
<1>4. CreatedOnce
  BY DEF Init, NoRequest, CreatedOnce
<1> QED
  BY <1>2, <1>3, <1>4 DEF IInv

\* The invariant holds of every reachable state.
LEMMA Invariance == Spec => []IInv
  BY InvInit, InvStep, PTL DEF Spec

-----------------------------------------------------------------------------
(* The re-enable window *)

\* Whatever requests to issue, revoke and re-enable are interleaved, a token
\* revoked longer ago than reenableWindow, with no re-enable request that has
\* passed its check, is not made valid; and no row outlives the row it refers to.
THEOREM WindowStaysClosed == Spec => WindowCloses
<1> DEFINE Closes == \A k \in Tokens :
               LongRevoked(k) => LongRevoked(k)' \/ tok'[k] = NoRow \/ tok'[k].rev = Recent
<1>1. IInv /\ [Next]_vars => [Closes]_vars
  <2> SUFFICES ASSUME IInv, Next, NEW k \in Tokens, LongRevoked(k)
               PROVE  LongRevoked(k)' \/ tok'[k] = NoRow \/ tok'[k].rev = Recent
    OBVIOUS
  <2>t. TypeOK /\ CreatedOnce
    BY DEF IInv
  <2>0. /\ tok[k].rev = Old /\ tok[k] # NoRow /\ k \in issued
        /\ \A p \in Admins : ~(adm[p].at = "clear" /\ adm[p].tok = k)
        /\ \A p \in Admins : ~(adm[p].at = "create" /\ adm[p].tok = k)
    BY <2>t DEF LongRevoked, CreatedOnce, NoRow, Live, Old
  <2>1. ASSUME UNCHANGED <<tok, adm>> PROVE LongRevoked(k)'
    BY <2>1 DEF LongRevoked
  <2>2. ASSUME NEW D, SetTokens(Cascaded(D)), UNCHANGED adm
        PROVE LongRevoked(k)' \/ tok'[k] = NoRow
    BY <2>2 DEF SetTokens, Cascaded, LongRevoked
  <2>3. ASSUME NEW j \in Tokens, Revoke(j) \/ Lapse(j)
        PROVE LongRevoked(k)' \/ tok'[k].rev = Recent
    BY <2>3, <2>t, <2>0 DEF Revoke, Lapse, SetTokens, LongRevoked, TypeOK, Row, Recent, Old
  <2>4. ASSUME NEW p \in Admins, NEW j \in Tokens, Reenable(p, j) PROVE LongRevoked(k)'
    <3>1. /\ j # k /\ tok' = tok
          /\ adm' = [adm EXCEPT ![p] = [adm[p] EXCEPT !.at = "clear", !.tok = j]]
      BY <2>0, <2>4 DEF Reenable, InWindow, Recent, Old
    <3>2. adm'[p].tok = j /\ \A q \in Admins \ {p} : adm'[q] = adm[q]
      BY <2>t, <3>1 DEF TypeOK, AdminRequest
    <3> QED
      BY <2>0, <3>1, <3>2 DEF LongRevoked
  <2>5. ASSUME NEW p \in Admins, NEW j \in Tokens, NEW c \in Conns, Issue(p, j, c)
        PROVE LongRevoked(k)'
    BY <2>0, <2>5, <2>t DEF Issue, LongRevoked, TypeOK
  <2>6. ASSUME NEW p \in Admins, CreateToken(p) \/ ClearTokenRevocation(p) \/ AdmFail(p)
        PROVE LongRevoked(k)'
    <3>1. adm'[p] = NoRequest /\ \A q \in Admins \ {p} : adm'[q] = adm[q]
      BY <2>6, <2>t DEF CreateToken, ClearTokenRevocation, AdmFail, AdmEnd, TypeOK
    <3>2. tok'[k] = tok[k]
      BY <2>0, <2>6, <2>t DEF CreateToken, ClearTokenRevocation, AdmFail, SetTokens, TypeOK
    <3> QED
      BY <2>0, <3>1, <3>2 DEF LongRevoked, NoRequest
  <2>7. CASE AdminStep
    BY <2>1, <2>2, <2>3, <2>4, <2>5, <2>6, <2>7
       DEF AdminStep, CreateTenant, DeleteTenant, CreateConnection, DeleteConnection
  <2>8. ASSUME NEW a \in Auths, AuthStep(a) PROVE UNCHANGED <<tok, adm>>
    BY <2>8 DEF AuthStep, Authenticate, RevalidateOK, RevalidateFail, CacheDelete, GetTenant,
       GetActiveTokenByLookup, ListActiveTokenHashes, GetConnection, CachePut, AuthFail, Go, Return
  <2> QED
    BY <2>1, <2>7, <2>8 DEF Next, CacheExpire
<1>2. IInv => TypeOK
  BY DEF IInv
<1> QED
  BY <1>1, <1>2, Invariance, PTL DEF Spec, WindowCloses

-----------------------------------------------------------------------------
(* The refinement *)

\* The state of TokenGate that a state of the tables and the calls stands for.
Opening == [k \in Tokens |-> Opens(tok[k])]
Calls == [a \in Auths |-> [tok |-> auth[a].tok, saw |-> saw[a], answer |-> auth[a].answer]]

\* A call that goes on does nothing that a caller could see.
LEMMA GoStutters ==
    ASSUME IInv, NEW a \in Auths, NEW from, NEW to, NEW c, Go(a, from, to, c)
    PROVE  UNCHANGED <<Opening, Calls>>
<1>1. auth \in [Auths -> Call]
  BY DEF IInv, TypeOK
<1>2. \A b \in Auths : auth'[b].tok = auth[b].tok /\ auth'[b].answer = auth[b].answer
  BY <1>1 DEF Go, Call
<1> QED
  BY <1>2 DEF Go, Opening, Calls

\* A call that returns something its token opened meanwhile answers.
LEMMA ReturnAnswers ==
    ASSUME IInv, NEW a \in Auths, NEW from, NEW c \in MaybeConn, Return(a, from, {c}),
           auth[a].at # "idle", c \in saw[a]
    PROVE  Gate!Answer(a)
<1>0. {c} \in SUBSET MaybeConn
  OBVIOUS
<1>1. /\ auth'[a].tok = NoToken /\ auth'[a].answer = {c} /\ saw'[a] = {}
      /\ \A b \in Auths \ {a} : auth'[b] = auth[b] /\ saw'[b] = saw[b]
  BY <1>0, ReturnKeeps
<1>2. Calls' = [Calls EXCEPT ![a] = [tok |-> NoToken, saw |-> {}, answer |-> {c}]]
  BY <1>1 DEF Calls
<1>3. [Gate!NoCall EXCEPT !.answer = {c}] = [tok |-> NoToken, saw |-> {}, answer |-> {c}]
  BY DEF Gate!NoCall
<1>4. Calls[a].tok \in Tokens /\ c \in Calls[a].saw
  BY DEF IInv, CallShape, Calls
<1>5. Opening' = Opening
  BY DEF Return, Opening
<1> QED
  BY <1>2, <1>3, <1>4, <1>5 DEF Gate!Answer, Calls, Opening

\* A call may end in an error.
LEMMA ReturnFails ==
    ASSUME IInv, NEW a \in Auths, NEW from, Return(a, from, {}), auth[a].at # "idle"
    PROVE  Gate!Fail(a)
<1>0. {} \in SUBSET MaybeConn
  OBVIOUS
<1>1. /\ auth'[a].tok = NoToken /\ auth'[a].answer = {} /\ saw'[a] = {}
      /\ \A b \in Auths \ {a} : auth'[b] = auth[b] /\ saw'[b] = saw[b]
  BY <1>0, ReturnKeeps
<1>2. Calls' = [Calls EXCEPT ![a] = Gate!NoCall]
  BY <1>1 DEF Calls, Gate!NoCall
<1>3. Calls[a].tok \in Tokens
  BY DEF IInv, CallShape, Calls
<1>4. Opening' = Opening
  BY DEF Return, Opening
<1> QED
  BY <1>2, <1>3, <1>4 DEF Gate!Fail, Calls, Opening

\* A statement on the rows of tokens is a change that the calls may see.
LEMMA SetTokensChanges ==
    ASSUME IInv, IInv', NEW new, SetTokens(new), UNCHANGED auth
    PROVE  Gate!Change
<1>t. auth \in [Auths -> Call] /\ tok' \in [Tokens -> Row]
  BY DEF IInv, TypeOK
<1>1. tok' = new
  BY DEF SetTokens
<1>2. Opening' \in [Tokens -> Gate!Answers]
  BY <1>t, RecordTypes DEF Opening, Gate!Answers, MaybeConn
<1>3. ASSUME NEW a \in Auths
      PROVE /\ auth[a].tok \in Tokens => saw'[a] = saw[a] \cup {Opens(new[auth[a].tok])}
            /\ auth[a].tok \notin Tokens => saw'[a] = saw[a]
  <2>1. auth[a].at \in Open <=> auth[a].tok \in Tokens
    BY <1>t, NothingIsNothing DEF Call, Open, IInv, CallShape
  <2> QED
    BY <2>1 DEF SetTokens, Observe
<1>4. ASSUME NEW a \in Auths
      PROVE Calls'[a] = IF Calls[a].tok \in Tokens
                        THEN [Calls[a] EXCEPT !.saw = @ \cup {Opening'[Calls[a].tok]}]
                        ELSE Calls[a]
  <2>1. /\ Calls[a] = [tok |-> auth[a].tok, saw |-> saw[a], answer |-> auth[a].answer]
        /\ Calls'[a] = [tok |-> auth[a].tok, saw |-> saw'[a], answer |-> auth[a].answer]
    BY DEF Calls
  <2>2. CASE auth[a].tok \in Tokens
    <3>1. Opening'[auth[a].tok] = Opens(new[auth[a].tok])
      BY <1>1, <2>2 DEF Opening
    <3>2. Calls[a].tok = auth[a].tok /\ Calls[a].saw = saw[a]
      BY <2>1
    <3>3. saw'[a] = Calls[a].saw \cup {Opening'[Calls[a].tok]}
      BY <1>3, <2>2, <3>1, <3>2
    <3>4. [Calls[a] EXCEPT !.saw = saw'[a]]
             = [tok |-> auth[a].tok, saw |-> saw'[a], answer |-> auth[a].answer]
      BY <2>1
    <3> QED
      BY <2>1, <2>2, <3>2, <3>3, <3>4
  <2>3. CASE auth[a].tok \notin Tokens
    BY <1>3, <2>1, <2>3
  <2> QED
    BY <2>2, <2>3
<1>5. Calls' = [a \in Auths |-> IF Calls[a].tok \in Tokens
                                THEN [Calls[a] EXCEPT !.saw = @ \cup {Opening'[Calls[a].tok]}]
                                ELSE Calls[a]]
  BY <1>4 DEF Calls
<1> QED
  BY <1>2, <1>5 DEF Gate!Change, Calls, Opening

\* A call of Authenticate answers as TokenGate allows.
LEMMA AuthRefines ==
    ASSUME IInv, NEW a \in Auths, AuthStep(a)
    PROVE  Gate!Next \/ UNCHANGED <<Opening, Calls>>
<1>t. TypeOK
  BY DEF IInv
<1>c. auth[a].at # "idle" =>
          /\ auth[a].tok \in Tokens /\ tok[auth[a].tok] \in Row
          /\ Opens(tok[auth[a].tok]) \in saw[a]
          /\ tok[auth[a].tok].conn \in conns \cup {NoConn}
  BY <1>t DEF TypeOK, IInv, CallShape, SeesNow
<1>n. NoConn \in MaybeConn /\ auth[a].conn \in MaybeConn
  BY <1>t DEF MaybeConn, TypeOK, Call
<1>a. ASSUME NEW from, NEW c \in MaybeConn, Return(a, from, {c}), from # "idle", c \in saw[a]
      PROVE Gate!Next
  <2>1. Gate!Answer(a)
    BY <1>a, ReturnAnswers DEF Return
  <2> QED
    BY <2>1 DEF Gate!Next
<1>i. ~Active(tok[auth[a].tok]) /\ auth[a].at # "idle" => NoConn \in saw[a]
  BY <1>c DEF Opens
<1>1. ASSUME NEW k \in Tokens, Authenticate(a, k) PROVE Gate!Next
  <2>1. /\ auth[a].at = "idle"
        /\ auth' = [auth EXCEPT ![a] =
                       [NoCall EXCEPT !.at = IF k \in cache THEN "revalidate" ELSE "tenant",
                                      !.tok = k]]
        /\ saw' = [saw EXCEPT ![a] = {Opens(tok[k])}] /\ tok' = tok
    BY <1>1 DEF Authenticate
  <2>2. /\ auth'[a].tok = k /\ auth'[a].answer = {} /\ saw'[a] = {Opens(tok[k])}
        /\ \A b \in Auths \ {a} : auth'[b] = auth[b] /\ saw'[b] = saw[b]
    BY <1>t, <2>1 DEF NoCall, TypeOK
  <2>3. Calls' = [Calls EXCEPT ![a] = [tok |-> k, saw |-> {Opening[k]}, answer |-> {}]]
    BY <2>2 DEF Calls, Opening
  <2>4. Calls[a].tok = NoToken /\ Opening' = Opening
    BY <2>1 DEF Calls, Opening, IInv, CallShape
  <2>5. Gate!Begin(a, k)
    BY <2>3, <2>4 DEF Gate!Begin, Calls, Opening
  <2> QED
    BY <2>5 DEF Gate!Next
<1>2. CASE RevalidateOK(a)
  <2>1. /\ Return(a, "revalidate", {tok[auth[a].tok].conn}) /\ Active(tok[auth[a].tok])
        /\ auth[a].at # "idle"
    BY <1>2 DEF RevalidateOK, Revalidates
  <2>2. tok[auth[a].tok].conn \in saw[a] /\ tok[auth[a].tok].conn \in MaybeConn
    BY <1>c, <2>1 DEF Opens, Row
  <2> QED
    BY <1>a, <2>1, <2>2
<1>3. CASE GetTenant(a) /\ ~tenant
  <2>1. Return(a, "tenant", {NoConn}) /\ auth[a].at # "idle"
    BY <1>3 DEF GetTenant, Return
  <2>2. conns = {}
    BY <1>3, <1>t DEF TypeOK
  <2>3. NoConn \in saw[a]
    BY <1>c, <1>i, <2>1, <2>2 DEF Active
  <2> QED
    BY <1>a, <1>n, <2>1, <2>3
<1>4. CASE ListActiveTokenHashes(a) /\ auth[a].tok \notin Valid \cap Legacy
  <2>1. Return(a, "list", {NoConn}) /\ auth[a].at = "list"
    BY <1>4 DEF ListActiveTokenHashes, Return
  <2>2. NoConn \in saw[a]
    <3>1. CASE auth[a].tok \in Valid
      BY <1>4, <2>1, <3>1 DEF IInv, LookupMissed
    <3>2. CASE auth[a].tok \notin Valid
      BY <1>c, <1>i, <2>1, <3>2 DEF Valid
    <3> QED
      BY <3>1, <3>2
  <2> QED
    BY <1>a, <1>n, <2>1, <2>2
<1>5. CASE GetConnection(a) /\ auth[a].conn \notin conns
  <2>1. Return(a, "connection", {NoConn}) /\ auth[a].at = "connection"
    BY <1>5 DEF GetConnection, Return
  <2>2. /\ auth[a].conn # NoConn
        /\ tok[auth[a].tok].conn = auth[a].conn \/ NoConn \in saw[a]
    BY <2>1 DEF IInv, Found
  <2>3. NoConn \in saw[a]
    BY <1>5, <1>c, <2>1, <2>2
  <2> QED
    BY <1>a, <1>n, <2>1, <2>3
<1>6. CASE CachePut(a)
  <2>1. Return(a, "put", {auth[a].conn}) /\ auth[a].at = "put"
    BY <1>6 DEF CachePut, Return
  <2>2. auth[a].conn \in saw[a]
    BY <2>1 DEF IInv, Found
  <2> QED
    BY <1>a, <1>n, <2>1, <2>2
<1>7. CASE AuthFail(a)
  <2>1. PICK at \in {"tenant", "lookup", "list", "connection"} : Return(a, at, {})
    BY <1>7 DEF AuthFail
  <2>2. Gate!Fail(a)
    BY <2>1, ReturnFails DEF Return
  <2> QED
    BY <2>2 DEF Gate!Next
<1>8. ASSUME NEW from, NEW to, NEW c, Go(a, from, to, c) PROVE UNCHANGED <<Opening, Calls>>
  BY <1>8, GoStutters
<1> QED
  BY <1>1, <1>2, <1>3, <1>4, <1>5, <1>6, <1>7, <1>8
     DEF AuthStep, RevalidateFail, CacheDelete, GetTenant, GetActiveTokenByLookup,
         ListActiveTokenHashes, GetConnection

\* Authenticate, with a cache that no revocation reaches, keeps the promise of
\* TokenGate: the answer is what the token opened at one moment of the call.
THEOREM Refinement == Spec => Implements
<1>1. Init => Gate!Init
  <2> SUFFICES ASSUME Init PROVE Gate!Init
    OBVIOUS
  <2>1. \A k \in Tokens : tok[k] \in Row
    BY InvInit DEF IInv, TypeOK
  <2>2. Opening \in [Tokens -> Gate!Answers]
    BY <2>1, RecordTypes DEF Opening, Gate!Answers, MaybeConn
  <2>3. Calls = [a \in Auths |-> Gate!NoCall]
    BY DEF Init, NoCall, Calls, Gate!NoCall
  <2> QED
    BY <2>2, <2>3 DEF Gate!Init, Opening, Calls
<1>2. IInv /\ IInv' /\ [Next]_vars => [Gate!Next]_<<Opening, Calls>>
  <2> SUFFICES ASSUME IInv, IInv', [Next]_vars
               PROVE  Gate!Next \/ UNCHANGED <<Opening, Calls>>
    OBVIOUS
  <2>t. TypeOK
    BY DEF IInv
  <2>0. ASSUME UNCHANGED <<tok, auth, saw>> PROVE UNCHANGED <<Opening, Calls>>
    BY <2>0 DEF Opening, Calls
  <2>1. ASSUME NEW new, SetTokens(new), UNCHANGED auth PROVE Gate!Next
    BY <2>1, SetTokensChanges DEF Gate!Next
  <2>2. ASSUME NEW k \in Tokens, Lapse(k) PROVE UNCHANGED <<Opening, Calls>>
    <3>1. /\ tok[k].rev = Recent /\ tok' = [tok EXCEPT ![k].rev = Old]
          /\ UNCHANGED <<auth, saw>>
      BY <2>2 DEF Lapse
    <3>2. \A j \in Tokens : Opens(tok'[j]) = Opens(tok[j])
      BY <2>t, <3>1 DEF TypeOK, Row, Opens, Active, Live, Recent, Old
    <3> QED
      BY <3>1, <3>2 DEF Opening, Calls
  <2>3. ASSUME NEW k \in Tokens, Revoke(k) PROVE Gate!Next
    BY <2>1, <2>3 DEF Revoke
  <2>4. ASSUME CreateTenant \/ DeleteTenant
        PROVE Gate!Next \/ UNCHANGED <<Opening, Calls>>
    BY <2>0, <2>1, <2>4 DEF CreateTenant, DeleteTenant
  <2>5. ASSUME NEW c \in Conns, CreateConnection(c) \/ DeleteConnection(c)
        PROVE Gate!Next \/ UNCHANGED <<Opening, Calls>>
    BY <2>0, <2>1, <2>5 DEF CreateConnection, DeleteConnection
  <2>6. ASSUME NEW p \in Admins, \/ \E k \in Tokens : Reenable(p, k) \/ \E c \in Conns : Issue(p, k, c)
                                 \/ CreateToken(p) \/ ClearTokenRevocation(p) \/ AdmFail(p)
        PROVE Gate!Next \/ UNCHANGED <<Opening, Calls>>
    BY <2>0, <2>1, <2>6 DEF Reenable, Issue, CreateToken, ClearTokenRevocation, AdmFail
  <2>7. ASSUME NEW a \in Auths, AuthStep(a)
        PROVE Gate!Next \/ UNCHANGED <<Opening, Calls>>
    BY <2>7, AuthRefines
  <2>8. ASSUME NEW k \in Tokens, CacheExpire(k) PROVE UNCHANGED <<Opening, Calls>>
    BY <2>0, <2>8 DEF CacheExpire
  <2>9. CASE UNCHANGED vars
    BY <2>0, <2>9 DEF vars
  <2> QED
    BY <2>2, <2>3, <2>4, <2>5, <2>6, <2>7, <2>8, <2>9 DEF Next, AdminStep
<1>3. [Gate!Next]_<<Opening, Calls>> => [Gate!Next]_(Gate!vars)
  BY DEF Gate!vars, Opening, Calls
<1> QED
  BY <1>1, <1>2, <1>3, Invariance, PTL DEF Spec, Implements, Gate!Spec

=============================================================================
