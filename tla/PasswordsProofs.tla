--------------------------- MODULE PasswordsProofs ---------------------------
(***************************************************************************)
(* Proofs about Passwords, for any number of requests, passwords and reset *)
(* links: the types, that a reset link changes the password exactly once,  *)
(* and that a password is replaced only with proof.                        *)
(***************************************************************************)
EXTENDS Passwords, FiniteSetTheorems, TLAPS

-----------------------------------------------------------------------------
(* The inductive invariant *)

\* Links that have not been sent have no row.
Unsent == \A t \in ResetIds : t > linked => resets[t] = "none"

\* A request carries a reset token if ResetPassword started it, and none if SetPassword
\* did; SetPassword has shown no password until UpdatePassword has compared one.
Carries ==
    \A p \in Requests :
        /\ req[p].at = "consume" => req[p].token \in ResetIds
        /\ req[p].at \in {"check", "checkCurrent"} =>
              req[p].token = NoToken /\ req[p].shown = NoPassword

\* What a request has shown before it stores a password is the password it replaces,
\* as long as no other request has stored one since.
ShownIsStored ==
    \A p \in Requests :
        At(p, "store") /\ req[p].token = NoToken /\ p \notin overtaken => req[p].shown = stored

\* TokenExactlyOnce without the types.
OneChange ==
    \A t \in ResetIds :
        Cardinality(Holders(t)) + changes[t] + (IF t \in wasted THEN 1 ELSE 0)
            = IF resets[t] = "used" THEN 1 ELSE 0

IInv == TypeOK /\ Unsent /\ Carries /\ ShownIsStored /\ OneChange /\ NeedsProof

-----------------------------------------------------------------------------
(* Types *)

\* The idle request is a request, no token is no link, and a trimmed password is one.
LEMMA RequestTypes ==
    /\ Idle \in Request
    /\ NoToken \notin ResetIds
    /\ \A pw \in Typed : Trim(pw) \in Typed
<1>1. Idle \in Request
  BY DEF Idle, Request, Steps, MaybePassword, NoToken
<1>2. NoToken \notin ResetIds
  BY DEF NoToken, ResetIds
<1>3. \A pw \in Typed : Trim(pw) \in Typed
  BY DEF Typed, Trim
<1> QED
  BY <1>1, <1>2, <1>3

\* A request that goes on, and one that ends, keep the type of req.
LEMMA ReqStep ==
    ASSUME TypeOK, NEW p \in Requests, NEW s \in Steps, Goto(p, s) \/ End(p)
    PROVE  req' \in [Requests -> Request] /\ overtaken' \subseteq Requests
<1>1. CASE Goto(p, s)
  <2>1. [req[p] EXCEPT !.at = s] \in Request
    BY DEF TypeOK, Request
  <2> QED
    BY <1>1, <2>1 DEF Goto, TypeOK, history
<1>2. CASE End(p)
  BY <1>2, RequestTypes DEF End, TypeOK
<1> QED
  BY <1>1, <1>2

\* Every step keeps the types.
LEMMA TypeStep == TypeOK /\ Carries /\ [Next]_vars => TypeOK'
<1> SUFFICES ASSUME TypeOK, Carries, [Next]_vars PROVE TypeOK'
  OBVIOUS
<1> USE RequestTypes
<1>1. ASSUME NEW p \in Requests, NEW pw \in Typed, Login(p, pw)
      PROVE TypeOK'
  <2>1. [Idle EXCEPT !.at = "loginHash", !.given = Trim(pw)] \in Request
    BY DEF Request, Steps, MaybePassword
  <2> QED
    BY <1>1, <2>1 DEF Login, Begin, TypeOK, history
<1>2. ASSUME NEW p \in Requests, LoginHash(p) \/ ForgotHash(p) \/ Check(p)
      PROVE TypeOK'
  <2>1. req' \in [Requests -> Request] /\ overtaken' \subseteq Requests
    BY <1>2, ReqStep DEF LoginHash, ForgotHash, Check, Steps
  <2> QED
    BY <1>2, <2>1 DEF LoginHash, ForgotHash, Check, Goto, TypeOK, history
<1>3. ASSUME NEW p \in Requests, CreateSession(p)
      PROVE TypeOK'
  <2>1. req' \in [Requests -> Request] /\ overtaken' \subseteq Requests
    BY <1>3, ReqStep DEF CreateSession, Steps
  <2> QED
    BY <1>3, <2>1, BoundsNat DEF CreateSession, TypeOK
<1>4. ASSUME NEW p \in Requests, NEW current \in MaybePassword, NEW new \in Typed,
             SetPassword(p, current, new)
      PROVE TypeOK'
  <2>1. [Idle EXCEPT !.at = "check", !.given = current, !.new = new] \in Request
    BY DEF Request, Steps, MaybePassword
  <2> QED
    BY <1>4, <2>1 DEF SetPassword, Begin, TypeOK, history
<1>5. ASSUME NEW p \in Requests, CheckCurrent(p)
      PROVE TypeOK'
  <2>1. [req[p] EXCEPT !.at = "store", !.shown = req[p].given] \in Request
    BY DEF TypeOK, Request, Steps
  <2>2. CASE req' = [req EXCEPT ![p].at = "store", ![p].shown = req[p].given]
    <3>1. req' = [req EXCEPT ![p] = [req[p] EXCEPT !.at = "store", !.shown = req[p].given]]
      BY <2>2
    <3>2. UNCHANGED <<stored, resets, linked, sessions, unproved, changes, wasted>>
      BY <1>5 DEF CheckCurrent, history
    <3>3. overtaken' \subseteq Requests
      BY <1>5 DEF CheckCurrent, history, End, TypeOK
    <3> QED
      BY <2>1, <3>1, <3>2, <3>3 DEF TypeOK
  <2>3. CASE End(p)
    BY <1>5, <2>3, ReqStep DEF CheckCurrent, TypeOK, Steps, history
  <2> QED
    BY <1>5, <2>2, <2>3 DEF CheckCurrent
<1>6. ASSUME NEW p \in Requests, Store(p)
      PROVE TypeOK'
  <2>1. req[p].new \in MaybePassword /\ req[p].token \in {NoToken} \cup ResetIds
    BY DEF TypeOK, Request
  <2>2. changes' \in [ResetIds -> Nat]
    BY <1>6, <2>1 DEF Store, TypeOK
  <2> QED
    BY <1>6, <2>1, <2>2 DEF Store, TypeOK
<1>7. ASSUME NEW p \in Requests, ForgotPassword(p)
      PROVE TypeOK'
  <2>1. [Idle EXCEPT !.at = "forgotHash"] \in Request
    BY DEF Request, Steps
  <2> QED
    BY <1>7, <2>1 DEF ForgotPassword, Begin, TypeOK, history
<1>8. ASSUME NEW p \in Requests, CreateReset(p)
      PROVE TypeOK'
  <2>1. req' \in [Requests -> Request] /\ overtaken' \subseteq Requests
    BY <1>8, ReqStep DEF CreateReset, Steps
  <2>2. resets' \in [ResetIds -> ResetStates] /\ linked' \in 0..MaxResets
    BY <1>8, BoundsNat DEF CreateReset, TypeOK, ResetStates, ResetIds
  <2> QED
    BY <1>8, <2>1, <2>2 DEF CreateReset, TypeOK
<1>9. ASSUME NEW t \in ResetIds, ExpireReset(t)
      PROVE TypeOK'
  BY <1>9 DEF ExpireReset, TypeOK, ResetStates, history
<1>10. ASSUME NEW p \in Requests, NEW t \in ResetIds, NEW new \in Typed, ResetPassword(p, t, new)
       PROVE TypeOK'
  <2>1. [Idle EXCEPT !.at = "consume", !.token = t, !.new = new] \in Request
    BY DEF Request, Steps, MaybePassword
  <2> QED
    BY <1>10, <2>1 DEF ResetPassword, Begin, TypeOK, history
<1>11. ASSUME NEW p \in Requests, Consume(p)
       PROVE TypeOK'
  <2>0. req[p].token \in ResetIds
    BY <1>11 DEF Carries, Consume, At
  <2>1. req' \in [Requests -> Request] /\ overtaken' \subseteq Requests
    BY <1>11, ReqStep DEF Consume, Steps
  <2>2. resets' \in [ResetIds -> ResetStates] /\ wasted' \subseteq ResetIds
    BY <1>11, <2>0 DEF Consume, Goto, TypeOK, ResetStates, history
  <2> QED
    BY <1>11, <2>1, <2>2 DEF Consume, Goto, TypeOK, history
<1>12. ASSUME NEW p \in Requests, Fail(p)
       PROVE TypeOK'
  <2>1. req' \in [Requests -> Request] /\ overtaken' \subseteq Requests
    BY <1>12, ReqStep DEF Fail, Steps
  <2>2. wasted' \subseteq ResetIds
    BY <1>12 DEF Fail, TypeOK, Request
  <2> QED
    BY <1>12, <2>1, <2>2 DEF Fail, TypeOK
<1>13. CASE UNCHANGED vars
  BY <1>13 DEF vars, TypeOK
<1> QED
  BY <1>1, <1>2, <1>3, <1>4, <1>5, <1>6, <1>7, <1>8, <1>9, <1>10, <1>11, <1>12, <1>13
     DEF Next, LoginRequest, SetRequest, ForgotRequest, ResetRequest

-----------------------------------------------------------------------------
(* The links that were not sent, and what a request carries *)

\* Only CreateReset makes a row, the next one.
LEMMA UnsentStep == TypeOK /\ Unsent /\ Carries /\ [Next]_vars => Unsent'
<1> SUFFICES ASSUME TypeOK, Unsent, Carries, [Next]_vars PROVE Unsent'
  OBVIOUS
<1> USE DEF TypeOK, Unsent
<1>1. ASSUME NEW p \in Requests, CreateReset(p)
      PROVE Unsent'
  BY <1>1 DEF CreateReset, ResetIds
<1>2. ASSUME NEW t \in ResetIds, ExpireReset(t)
      PROVE Unsent'
  BY <1>2 DEF ExpireReset
<1>3. ASSUME NEW p \in Requests, Consume(p)
      PROVE Unsent'
  BY <1>3 DEF Consume, Usable
<1>4. CASE UNCHANGED <<resets, linked>>
  BY <1>4
<1> QED
  BY <1>1, <1>2, <1>3, <1>4
     DEF Next, vars, LoginRequest, SetRequest, ForgotRequest, ResetRequest, Login, LoginHash,
         CreateSession, SetPassword, Check, CheckCurrent, Store, ForgotPassword, ForgotHash,
         ResetPassword, Fail

\* A request other than the one that moves carries what it did.
LEMMA CarriesMoves ==
    ASSUME TypeOK, Carries, NEW p \in Requests, NEW r \in Request,
           req' = [req EXCEPT ![p] = r],
           r.at = "consume" => r.token \in ResetIds,
           r.at \in {"check", "checkCurrent"} => r.token = NoToken /\ r.shown = NoPassword
    PROVE  Carries'
  BY DEF TypeOK, Carries

\* No step exchanges the token of a request or shows a password that was not compared.
LEMMA CarriesStep == TypeOK /\ Carries /\ [Next]_vars => Carries'
<1> SUFFICES ASSUME TypeOK, Carries, [Next]_vars PROVE Carries'
  OBVIOUS
<1> USE RequestTypes
<1>1. ASSUME NEW p \in Requests, End(p) \/ Store(p)
      PROVE Carries'
  BY <1>1, CarriesMoves DEF End, Store, Idle
<1>2. ASSUME NEW p \in Requests, NEW s \in Steps, Goto(p, s),
             s = "checkCurrent" => At(p, "check"), s \notin {"check", "consume"}
      PROVE Carries'
  <2>1. [req[p] EXCEPT !.at = s] \in Request
    BY DEF TypeOK, Request
  <2>2. req' = [req EXCEPT ![p] = [req[p] EXCEPT !.at = s]]
    BY <1>2 DEF Goto, TypeOK
  <2> QED
    BY <1>2, <2>1, <2>2, CarriesMoves DEF At, Carries, TypeOK, Request
<1>3. ASSUME NEW p \in Requests, NEW pw \in Typed, Login(p, pw)
      PROVE Carries'
  <2>1. [Idle EXCEPT !.at = "loginHash", !.given = Trim(pw)] \in Request
    BY DEF Request, Steps, MaybePassword
  <2> QED
    BY <1>3, <2>1, CarriesMoves DEF Login, Begin, Idle
<1>4. ASSUME NEW p \in Requests, NEW current \in MaybePassword, NEW new \in Typed,
             SetPassword(p, current, new)
      PROVE Carries'
  <2>1. [Idle EXCEPT !.at = "check", !.given = current, !.new = new] \in Request
    BY DEF Request, Steps, MaybePassword
  <2> QED
    BY <1>4, <2>1, CarriesMoves DEF SetPassword, Begin, Idle
<1>5. ASSUME NEW p \in Requests, CheckCurrent(p)
      PROVE Carries'
  <2>1. [req[p] EXCEPT !.at = "store", !.shown = req[p].given] \in Request
    BY DEF TypeOK, Request, Steps
  <2>2. CASE req' = [req EXCEPT ![p].at = "store", ![p].shown = req[p].given]
    <3>1. req' = [req EXCEPT ![p] = [req[p] EXCEPT !.at = "store", !.shown = req[p].given]]
      BY <2>2
    <3>2. [req[p] EXCEPT !.at = "store", !.shown = req[p].given].at = "store"
      BY DEF TypeOK, Request
    <3> QED
      BY <2>1, <3>1, <3>2, CarriesMoves
  <2> QED
    BY <1>1, <1>5, <2>2 DEF CheckCurrent
<1>6. ASSUME NEW p \in Requests, ForgotPassword(p)
      PROVE Carries'
  <2>1. [Idle EXCEPT !.at = "forgotHash"] \in Request
    BY DEF Request, Steps
  <2> QED
    BY <1>6, <2>1, CarriesMoves DEF ForgotPassword, Begin, Idle
<1>7. ASSUME NEW p \in Requests, NEW t \in ResetIds, NEW new \in Typed, ResetPassword(p, t, new)
      PROVE Carries'
  <2>1. [Idle EXCEPT !.at = "consume", !.token = t, !.new = new] \in Request
    BY DEF Request, Steps, MaybePassword
  <2> QED
    BY <1>7, <2>1, CarriesMoves DEF ResetPassword, Begin, Idle
<1>8. ASSUME NEW p \in Requests, LoginHash(p) \/ Check(p) \/ ForgotHash(p) \/ Consume(p)
      PROVE Carries'
  BY <1>1, <1>2, <1>8 DEF LoginHash, Check, ForgotHash, Consume, Steps
<1>9. ASSUME NEW p \in Requests, CreateSession(p) \/ CreateReset(p) \/ Fail(p)
      PROVE Carries'
  BY <1>1, <1>9 DEF CreateSession, CreateReset, Fail
<1>10. CASE UNCHANGED req
  BY <1>10 DEF Carries
<1> QED
  BY <1>1, <1>3, <1>4, <1>5, <1>6, <1>7, <1>8, <1>9, <1>10
     DEF Next, vars, LoginRequest, SetRequest, ForgotRequest, ResetRequest, ExpireReset

-----------------------------------------------------------------------------
(* What a request has shown *)

\* One request moves and the password stays: the request is not about to store one, or
\* it has shown the one it replaces, or it has a reset token.
LEMMA ShownMoves ==
    ASSUME TypeOK, ShownIsStored, NEW p \in Requests, NEW r \in Request,
           req' = [req EXCEPT ![p] = r], stored' = stored, overtaken \ {p} \subseteq overtaken',
           r.at = "store" /\ r.token = NoToken => r.shown = stored
    PROVE  ShownIsStored'
  BY DEF TypeOK, ShownIsStored, At

\* A request that stores a password overtakes every other that has passed its check.
LEMMA ShownStep == TypeOK /\ Carries /\ ShownIsStored /\ [Next]_vars => ShownIsStored'
<1> SUFFICES ASSUME TypeOK, Carries, ShownIsStored, [Next]_vars PROVE ShownIsStored'
  OBVIOUS
<1> USE RequestTypes
<1>1. ASSUME NEW p \in Requests, End(p), stored' = stored
      PROVE ShownIsStored'
  BY <1>1, ShownMoves DEF End, Idle
<1>2. ASSUME NEW p \in Requests, NEW s \in Steps, Goto(p, s), stored' = stored,
             s = "store" => req[p].token # NoToken \/ req[p].shown = stored
      PROVE ShownIsStored'
  <2>1. [req[p] EXCEPT !.at = s] \in Request
    BY DEF TypeOK, Request
  <2>2. req' = [req EXCEPT ![p] = [req[p] EXCEPT !.at = s]]
    BY <1>2 DEF Goto, TypeOK
  <2>3. overtaken' = overtaken
    BY <1>2 DEF Goto, history
  <2> QED
    BY <1>2, <2>1, <2>2, <2>3, ShownMoves DEF TypeOK, Request
<1>3. ASSUME NEW p \in Requests, NEW r \in Request, Begin(p, r), stored' = stored, r.at # "store"
      PROVE ShownIsStored'
  BY <1>3, ShownMoves DEF Begin, history
<1>4. ASSUME NEW p \in Requests, NEW pw \in Typed, Login(p, pw)
      PROVE ShownIsStored'
  <2>1. [Idle EXCEPT !.at = "loginHash", !.given = Trim(pw)] \in Request
    BY DEF Request, Steps, MaybePassword
  <2> QED
    BY <1>3, <1>4, <2>1 DEF Login, Idle
<1>5. ASSUME NEW p \in Requests, NEW current \in MaybePassword, NEW new \in Typed,
             SetPassword(p, current, new)
      PROVE ShownIsStored'
  <2>1. [Idle EXCEPT !.at = "check", !.given = current, !.new = new] \in Request
    BY DEF Request, Steps, MaybePassword
  <2> QED
    BY <1>3, <1>5, <2>1 DEF SetPassword, Idle
<1>6. ASSUME NEW p \in Requests, CheckCurrent(p)
      PROVE ShownIsStored'
  <2>1. [req[p] EXCEPT !.at = "store", !.shown = req[p].given] \in Request
    BY DEF TypeOK, Request, Steps
  <2>2. CASE /\ Matches(req[p].given)
             /\ req' = [req EXCEPT ![p].at = "store", ![p].shown = req[p].given]
             /\ UNCHANGED history
    <3>1. req' = [req EXCEPT ![p] = [req[p] EXCEPT !.at = "store", !.shown = req[p].given]]
      BY <2>2
    <3>2. [req[p] EXCEPT !.at = "store", !.shown = req[p].given].shown = stored
      BY <2>2 DEF TypeOK, Request, Matches
    <3>3. overtaken' = overtaken /\ stored' = stored
      BY <1>6, <2>2 DEF CheckCurrent, history
    <3> QED
      BY <2>1, <3>1, <3>2, <3>3, ShownMoves
  <2> QED
    BY <1>1, <1>6, <2>2 DEF CheckCurrent
<1>7. ASSUME NEW p \in Requests, ForgotPassword(p)
      PROVE ShownIsStored'
  <2>1. [Idle EXCEPT !.at = "forgotHash"] \in Request
    BY DEF Request, Steps
  <2> QED
    BY <1>3, <1>7, <2>1 DEF ForgotPassword, Idle
<1>8. ASSUME NEW p \in Requests, NEW t \in ResetIds, NEW new \in Typed, ResetPassword(p, t, new)
      PROVE ShownIsStored'
  <2>1. [Idle EXCEPT !.at = "consume", !.token = t, !.new = new] \in Request
    BY DEF Request, Steps, MaybePassword
  <2> QED
    BY <1>3, <1>8, <2>1 DEF ResetPassword, Idle
\* The first password needs none to be shown: there is none stored.
<1>9. ASSUME NEW p \in Requests, Check(p)
      PROVE ShownIsStored'
  <2>1. req[p].shown = NoPassword
    BY <1>9 DEF Check, Carries, At
  <2> QED
    BY <1>1, <1>2, <1>9, <2>1 DEF Check, Steps
<1>10. ASSUME NEW p \in Requests, Consume(p)
       PROVE ShownIsStored'
  <2>1. req[p].token # NoToken
    BY <1>10 DEF Consume, Carries, At
  <2> QED
    BY <1>1, <1>2, <1>10, <2>1 DEF Consume, Steps
<1>11. ASSUME NEW p \in Requests, LoginHash(p) \/ ForgotHash(p)
       PROVE ShownIsStored'
  BY <1>1, <1>2, <1>11 DEF LoginHash, ForgotHash, Steps
<1>12. ASSUME NEW p \in Requests, CreateSession(p) \/ CreateReset(p) \/ Fail(p)
       PROVE ShownIsStored'
  BY <1>1, <1>12 DEF CreateSession, CreateReset, Fail
\* Whoever else was about to store a password is overtaken.
<1>13. ASSUME NEW p \in Requests, Store(p)
       PROVE ShownIsStored'
  BY <1>13 DEF Store, ShownIsStored, At, TypeOK, Idle
<1>14. CASE UNCHANGED <<req, stored, overtaken>>
  BY <1>14 DEF ShownIsStored, At
<1> QED
  BY <1>4, <1>5, <1>6, <1>7, <1>8, <1>9, <1>10, <1>11, <1>12, <1>13, <1>14
     DEF Next, vars, history, LoginRequest, SetRequest, ForgotRequest, ResetRequest, ExpireReset

\* Only Store can replace a password without proof, and what its request has shown is
\* the password it replaces.
LEMMA ProofStep == TypeOK /\ ShownIsStored /\ NeedsProof /\ [Next]_vars => NeedsProof'
<1> SUFFICES ASSUME TypeOK, ShownIsStored, NeedsProof, [Next]_vars PROVE NeedsProof'
  OBVIOUS
<1>1. ASSUME NEW p \in Requests, Store(p)
      PROVE NeedsProof'
  BY <1>1 DEF Store, ShownIsStored, NeedsProof
<1>2. CASE UNCHANGED unproved
  BY <1>2 DEF NeedsProof
<1> QED
  BY <1>1, <1>2
     DEF Next, vars, history, LoginRequest, SetRequest, ForgotRequest, ResetRequest, ExpireReset,
         Login, LoginHash, CreateSession, SetPassword, Check, CheckCurrent, ForgotPassword,
         ForgotHash, CreateReset, ResetPassword, Consume, Fail, Begin, Goto

-----------------------------------------------------------------------------
(* Reset links *)

\* A request that holds a token before or after it moves is the only one that changes
\* who holds it.
LEMMA HoldersMove ==
    ASSUME TypeOK, NEW p \in Requests, NEW r \in Request, req' = [req EXCEPT ![p] = r],
           NEW t \in ResetIds
    PROVE  Holders(t)' = IF r.at = "store" /\ r.token = t THEN Holders(t) \cup {p}
                                                          ELSE Holders(t) \ {p}
  BY DEF TypeOK, Holders, At

\* The requests that have taken a reset token are finitely many.
LEMMA HoldersFinite ==
    ASSUME NEW t
    PROVE  IsFiniteSet(Holders(t)) /\ Cardinality(Holders(t)) \in Nat
<1>1. Holders(t) \subseteq Requests
  BY DEF Holders
<1> QED
  BY <1>1, RequestsFinite, FS_Subset, FS_CardinalityType

\* A step that gives no token to a request, takes none from one, and uses none.
Quiet ==
    /\ \A t \in ResetIds : Holders(t)' = Holders(t) /\ (resets'[t] = "used" <=> resets[t] = "used")
    /\ UNCHANGED <<changes, wasted>>

\* Such a step leaves the balance of every link as it was.
LEMMA QuietStep == OneChange /\ Quiet => OneChange'
  BY DEF OneChange, Quiet

\* A request that holds no token before it moves and none after.
LEMMA QuietMoves ==
    ASSUME TypeOK, NEW p \in Requests, NEW r \in Request, req' = [req EXCEPT ![p] = r],
           ~(r.at = "store" /\ r.token \in ResetIds),
           ~(At(p, "store") /\ req[p].token \in ResetIds)
    PROVE  \A t \in ResetIds : Holders(t)' = Holders(t)
<1> SUFFICES ASSUME NEW t \in ResetIds PROVE Holders(t)' = Holders(t)
  OBVIOUS
<1>1. p \notin Holders(t)
  BY DEF Holders
<1>2. Holders(t)' = Holders(t) \ {p}
  BY HoldersMove
<1> QED
  BY <1>1, <1>2

\* Every step that ends, starts or moves on a request which holds no token is quiet as
\* long as it uses no token.
LEMMA OneChangeStep == TypeOK /\ Unsent /\ Carries /\ OneChange /\ [Next]_vars => OneChange'
<1> SUFFICES ASSUME TypeOK, Unsent, Carries, OneChange, [Next]_vars PROVE OneChange'
  OBVIOUS
<1> USE RequestTypes
<1>1. ASSUME NEW p \in Requests, End(p), ~(At(p, "store") /\ req[p].token \in ResetIds),
             UNCHANGED <<changes, wasted>>,
             \A t \in ResetIds : resets'[t] = "used" <=> resets[t] = "used"
      PROVE OneChange'
  <2>1. \A t \in ResetIds : Holders(t)' = Holders(t)
    BY <1>1, QuietMoves DEF End, Idle
  <2> QED
    BY <1>1, <2>1, QuietStep DEF Quiet
<1>2. ASSUME NEW p \in Requests, NEW s \in Steps, Goto(p, s), ~At(p, "store"),
             s = "store" => req[p].token \notin ResetIds, resets' = resets
      PROVE OneChange'
  <2>1. [req[p] EXCEPT !.at = s] \in Request
    BY DEF TypeOK, Request
  <2>2. req' = [req EXCEPT ![p] = [req[p] EXCEPT !.at = s]]
    BY <1>2 DEF Goto, TypeOK
  <2>3. UNCHANGED <<changes, wasted>>
    BY <1>2 DEF Goto, history
  <2>4. ~([req[p] EXCEPT !.at = s].at = "store" /\ [req[p] EXCEPT !.at = s].token \in ResetIds)
    BY <1>2 DEF TypeOK, Request
  <2>5. \A t \in ResetIds : Holders(t)' = Holders(t)
    BY <1>2, <2>1, <2>2, <2>4, QuietMoves
  <2> QED
    BY <1>2, <2>3, <2>5, QuietStep DEF Quiet
<1>3. ASSUME NEW p \in Requests, NEW r \in Request, Begin(p, r), r.at # "store", resets' = resets
      PROVE OneChange'
  <2>1. \A t \in ResetIds : Holders(t)' = Holders(t)
    BY <1>3, QuietMoves DEF Begin, At
  <2> QED
    BY <1>3, <2>1, QuietStep DEF Begin, history, Quiet
<1>4. ASSUME NEW p \in Requests, NEW pw \in Typed, Login(p, pw)
      PROVE OneChange'
  <2>1. [Idle EXCEPT !.at = "loginHash", !.given = Trim(pw)] \in Request
    BY DEF Request, Steps, MaybePassword
  <2> QED
    BY <1>3, <1>4, <2>1 DEF Login, Idle
<1>5. ASSUME NEW p \in Requests, NEW current \in MaybePassword, NEW new \in Typed,
             SetPassword(p, current, new)
      PROVE OneChange'
  <2>1. [Idle EXCEPT !.at = "check", !.given = current, !.new = new] \in Request
    BY DEF Request, Steps, MaybePassword
  <2> QED
    BY <1>3, <1>5, <2>1 DEF SetPassword, Idle
<1>6. ASSUME NEW p \in Requests, CheckCurrent(p)
      PROVE OneChange'
  <2>0. At(p, "checkCurrent") /\ req[p].token = NoToken /\ resets' = resets
    BY <1>6 DEF CheckCurrent, Carries, At
  <2>1. [req[p] EXCEPT !.at = "store", !.shown = req[p].given] \in Request
    BY DEF TypeOK, Request, Steps
  <2>2. CASE /\ req' = [req EXCEPT ![p].at = "store", ![p].shown = req[p].given]
             /\ UNCHANGED history
    <3>1. req' = [req EXCEPT ![p] = [req[p] EXCEPT !.at = "store", !.shown = req[p].given]]
      BY <2>2
    <3>2. [req[p] EXCEPT !.at = "store", !.shown = req[p].given].token = NoToken
      BY <2>0 DEF TypeOK, Request
    <3>3. \A t \in ResetIds : Holders(t)' = Holders(t)
      BY <2>0, <2>1, <3>1, <3>2, QuietMoves
    <3> QED
      BY <2>0, <2>2, <3>3, QuietStep DEF Quiet, history
  <2> QED
    BY <1>1, <1>6, <2>0, <2>2 DEF CheckCurrent
<1>7. ASSUME NEW p \in Requests, ForgotPassword(p)
      PROVE OneChange'
  <2>1. [Idle EXCEPT !.at = "forgotHash"] \in Request
    BY DEF Request, Steps
  <2> QED
    BY <1>3, <1>7, <2>1 DEF ForgotPassword, Idle
<1>8. ASSUME NEW p \in Requests, NEW t \in ResetIds, NEW new \in Typed, ResetPassword(p, t, new)
      PROVE OneChange'
  <2>1. [Idle EXCEPT !.at = "consume", !.token = t, !.new = new] \in Request
    BY DEF Request, Steps, MaybePassword
  <2> QED
    BY <1>3, <1>8, <2>1 DEF ResetPassword, Idle
<1>9. ASSUME NEW p \in Requests, Check(p)
      PROVE OneChange'
  <2>1. req[p].token = NoToken /\ ~At(p, "store")
    BY <1>9 DEF Check, Carries, At
  <2> QED
    BY <1>1, <1>2, <1>9, <2>1 DEF Check, Steps
<1>10. ASSUME NEW p \in Requests, LoginHash(p) \/ ForgotHash(p)
       PROVE OneChange'
  <2>1. ~At(p, "store")
    BY <1>10 DEF LoginHash, ForgotHash, At
  <2> QED
    BY <1>1, <1>2, <1>10, <2>1 DEF LoginHash, ForgotHash, Steps
<1>11. ASSUME NEW p \in Requests, CreateSession(p)
       PROVE OneChange'
  BY <1>1, <1>11 DEF CreateSession, At
\* The row CreateReset makes was not there before.
<1>12. ASSUME NEW p \in Requests, CreateReset(p)
       PROVE OneChange'
  <2>1. \A t \in ResetIds : resets'[t] = "used" <=> resets[t] = "used"
    BY <1>12 DEF CreateReset, Unsent, TypeOK
  <2> QED
    BY <1>1, <1>12, <2>1 DEF CreateReset, At
<1>13. ASSUME NEW t \in ResetIds, ExpireReset(t)
       PROVE OneChange'
  BY <1>13, QuietStep DEF ExpireReset, history, Quiet, TypeOK, Holders, At
\* A fresh token is used: the request now holds it, or has lost it with its password.
<1>14. ASSUME NEW p \in Requests, Consume(p)
       PROVE OneChange'
  <2>0. PICK t \in ResetIds : t = req[p].token
    BY <1>14 DEF Consume, Carries, At
  <2>1. ~At(p, "store")
    BY <1>14 DEF Consume, At
  <2>2. p \notin Holders(t)
    BY <2>0, <2>1 DEF Holders
  <2>3. CASE Usable(t) /\ resets' = [resets EXCEPT ![t] = "used"] /\ Goto(p, "store")
    <3>1. [req[p] EXCEPT !.at = "store"] \in Request
      BY DEF TypeOK, Request, Steps
    <3>2. req' = [req EXCEPT ![p] = [req[p] EXCEPT !.at = "store"]]
      BY <2>3 DEF Goto, TypeOK
    <3>3. /\ [req[p] EXCEPT !.at = "store"].at = "store"
          /\ [req[p] EXCEPT !.at = "store"].token = t
      BY <2>0 DEF TypeOK, Request
    <3>4. \A u \in ResetIds : Holders(u)' = IF u = t THEN Holders(u) \cup {p} ELSE Holders(u) \ {p}
      BY <3>1, <3>2, <3>3, HoldersMove
    <3>5. \A u \in ResetIds : u # t => Holders(u)' = Holders(u)
      BY <2>1, <3>4 DEF Holders
    <3>6. Cardinality(Holders(t)') = Cardinality(Holders(t)) + 1
      BY <2>1, <2>2, <3>4, HoldersFinite, FS_AddElement
    <3>7. Cardinality(Holders(t)) \in Nat
      BY HoldersFinite
    <3>8. UNCHANGED <<changes, wasted>>
      BY <2>3 DEF Goto, history
    <3> QED
      BY <2>1, <2>3, <3>5, <3>6, <3>7, <3>8 DEF OneChange, Usable, TypeOK
  <2>4. CASE /\ Usable(t) /\ resets' = [resets EXCEPT ![t] = "used"]
             /\ wasted' = wasted \cup {t} /\ End(p) /\ changes' = changes
    <3>1. \A u \in ResetIds : Holders(u)' = Holders(u)
      BY <2>1, <2>4, QuietMoves DEF End, Idle
    <3>2. Cardinality(Holders(t)) \in Nat
      BY HoldersFinite
    <3> QED
      BY <2>1, <2>4, <3>1, <3>2 DEF OneChange, Usable, TypeOK
  <2>5. CASE End(p) /\ UNCHANGED <<resets, changes, wasted>>
    BY <1>1, <2>1, <2>5
  <2> QED
    BY <1>14, <2>0, <2>3, <2>4, <2>5 DEF Consume
\* The token's one holder makes its change.
<1>15. ASSUME NEW p \in Requests, Store(p)
       PROVE OneChange'
  <2>1. /\ At(p, "store") /\ req' = [req EXCEPT ![p] = Idle] /\ UNCHANGED <<resets, wasted>>
        /\ changes' = IF req[p].token = NoToken THEN changes
                      ELSE [changes EXCEPT ![req[p].token] = @ + 1]
    BY <1>15 DEF Store
  <2>2. CASE req[p].token = NoToken
    <3>1. \A u \in ResetIds : Holders(u)' = Holders(u)
      BY <2>1, <2>2, QuietMoves DEF Idle
    <3> QED
      BY <2>1, <2>2, <3>1, QuietStep DEF Quiet
  <2>3. CASE req[p].token \in ResetIds
    <3>0. PICK t \in ResetIds : t = req[p].token
      BY <2>3
    <3>1. p \in Holders(t)
      BY <2>1, <3>0 DEF Holders
    <3>2. \A u \in ResetIds : Holders(u)' = Holders(u) \ {p}
      BY <2>1, HoldersMove DEF Idle
    <3>3. \A u \in ResetIds : u # t => Holders(u)' = Holders(u)
      BY <3>0, <3>2 DEF Holders
    <3>4. Cardinality(Holders(t)') = Cardinality(Holders(t)) - 1
      BY <3>1, <3>2, HoldersFinite, FS_RemoveElement
    <3>5. Cardinality(Holders(t)) \in Nat
      BY HoldersFinite
    <3> QED
      BY <2>1, <3>0, <3>3, <3>4, <3>5 DEF OneChange, TypeOK
  <2> QED
    BY <2>2, <2>3 DEF TypeOK, Request
\* The token is lost with the request that held it.
<1>16. ASSUME NEW p \in Requests, Fail(p)
       PROVE OneChange'
  <2>1. CASE ~(At(p, "store") /\ req[p].token # NoToken)
    BY <1>1, <1>16, <2>1 DEF Fail
  <2>2. CASE At(p, "store") /\ req[p].token # NoToken
    <3>0. PICK t \in ResetIds : t = req[p].token
      BY <2>2 DEF TypeOK, Request
    <3>1. p \in Holders(t)
      BY <2>2, <3>0 DEF Holders
    <3>2. \A u \in ResetIds : Holders(u)' = Holders(u) \ {p}
      BY <1>16, HoldersMove DEF Fail, End, Idle
    <3>3. \A u \in ResetIds : u # t => Holders(u)' = Holders(u)
      BY <3>0, <3>2 DEF Holders
    <3>4. Cardinality(Holders(t)') = Cardinality(Holders(t)) - 1
      BY <3>1, <3>2, HoldersFinite, FS_RemoveElement
    <3>5. Cardinality(Holders(t)) \in Nat /\ Cardinality(Holders(t)) # 0
      BY <3>1, HoldersFinite, FS_EmptySet
    <3>6. changes[t] = 0 /\ t \notin wasted
      BY <3>0, <3>5 DEF OneChange, TypeOK
    <3>7. wasted' = wasted \cup {t} /\ UNCHANGED <<resets, changes>>
      BY <1>16, <2>2, <3>0 DEF Fail
    <3> QED
      BY <3>0, <3>3, <3>4, <3>5, <3>6, <3>7 DEF OneChange, TypeOK
  <2> QED
    BY <2>1, <2>2
<1>17. CASE UNCHANGED vars
  BY <1>17, QuietStep DEF vars, Quiet, Holders, At
<1> QED
  BY <1>4, <1>5, <1>6, <1>7, <1>8, <1>9, <1>10, <1>11, <1>12, <1>13, <1>14, <1>15, <1>16, <1>17
     DEF Next, LoginRequest, SetRequest, ForgotRequest, ResetRequest

-----------------------------------------------------------------------------
(* The theorems *)

\* At the start no link has been sent and no request is under way.
LEMMA InitIInv == Init => IInv
<1> SUFFICES ASSUME Init PROVE IInv
  OBVIOUS
<1> USE RequestTypes
<1>1. TypeOK
  <2>1. 0 \in 0..MaxResets /\ 0 \in 0..MaxSessions
    BY BoundsNat
  <2>2. /\ req \in [Requests -> Request] /\ resets \in [ResetIds -> ResetStates]
        /\ changes \in [ResetIds -> Nat]
    BY DEF Init, ResetStates
  <2> QED
    BY <2>1, <2>2 DEF Init, TypeOK, MaybePassword
<1>2. \A p \in Requests : req[p].at = "idle"
  BY DEF Init, Idle
<1>3. Unsent /\ Carries /\ ShownIsStored /\ NeedsProof
  BY <1>2 DEF Init, Unsent, Carries, ShownIsStored, NeedsProof, At
<1>4. \A t \in ResetIds : Cardinality(Holders(t)) = 0
  <2>1. \A t \in ResetIds : Holders(t) = {}
    BY <1>2 DEF Holders, At
  <2> QED
    BY <2>1, FS_EmptySet
<1>5. OneChange
  BY <1>4 DEF Init, OneChange
<1> QED
  BY <1>1, <1>3, <1>5 DEF IInv

\* Every step keeps the invariant.
LEMMA NextIInv == IInv /\ [Next]_vars => IInv'
  BY TypeStep, UnsentStep, CarriesStep, ShownStep, OneChangeStep, ProofStep DEF IInv

\* The invariant holds of every reachable state.
LEMMA Invariance == Spec => []IInv
  BY InitIInv, NextIInv, PTL DEF Spec

\* A reset link changes the password exactly once, however many requests present it at
\* once (ResetPassword; ConsumePasswordResetToken, which locks the row).
THEOREM ExactlyOnce == Spec => []TokenExactlyOnce
<1>1. IInv => TokenExactlyOnce
  BY DEF IInv, OneChange, TokenExactlyOnce
<1> QED
  BY <1>1, Invariance, PTL

\* A password is replaced without a reset token only by a request that has shown it or
\* was overtaken (SetPassword, UpdatePassword; SetUserPasswordHash, which does not look).
THEOREM ProofNeeded == Spec => []NeedsProof
<1>1. IInv => NeedsProof
  BY DEF IInv
<1> QED
  BY <1>1, Invariance, PTL
=============================================================================
