-------------------------- MODULE EmailCodesProofs --------------------------
(***************************************************************************)
(* Proofs about EmailCodes, for any number of requests, codes and sessions *)
(* and any limit: the bound on wrong guesses, that a redeemed code is      *)
(* gone, that the newest code is kept, and that there is one account.      *)
(***************************************************************************)
EXTENDS EmailCodes, FiniteSetTheorems, TLAPS

-----------------------------------------------------------------------------
(* The inductive invariant *)

Signing == {"find", "insert", "findAgain", "createSession"}
Verifying == {"clearExpired", "increment", "clear"} \cup Signing

\* The row holds the newest code or none.
OnlyNewest == code.id \in {NoCode, sent}

\* A request that verifies has read a code, which was sent.
Reads == \A p \in Requests : req[p].at \in Verifying => req[p].read \in 1..sent

\* A request about to clear has matched its code or seen it expired.
ClearsExcused ==
    \A p \in Requests : req[p].at \in {"clear", "clearExpired"} => req[p].read \in excused

\* A request that goes on after its Clear was made holds a code that is gone.
Taken ==
    /\ \A p \in Requests : req[p].at \in Signing /\ ~req[p].kept => code.id # req[p].read
    /\ redeemed \subseteq 1..sent

\* There is at most one account, and the sessions are its.
Owned ==
    /\ \A a, b \in accounts : a = b
    /\ \A s \in SessionIds : sessions[s].account \in accounts \cup {NoAccount}
    /\ \A p \in Requests : At(p, "createSession") => req[p].account \in accounts

\* Requests that have made a wrong guess at code c and not counted it yet.
Uncounted(c) == {p \in Requests : At(p, "increment") /\ req[p].read = c}

\* A guess is counted in the row, lost, or about to be counted (as long as the row is
\* there); and nothing is counted that was not guessed.
Guesses ==
    \A c \in CodeIds :
        /\ c > sent => guesses[c] = 0
        /\ lost[c] + Cardinality(Uncounted(c)) =< guesses[c]
        /\ code.id = c => guesses[c] =< code.attempts + Cardinality(Uncounted(c)) + lost[c]
        /\ guesses[c] =< Limit + Cardinality(Requests) - 1 + lost[c]

IInv ==
    /\ TypeOK /\ OnlyNewest /\ Reads /\ ClearsExcused /\ NewestKept
    /\ Taken /\ RedeemedIsGone /\ Owned /\ Guesses

-----------------------------------------------------------------------------
(* Types *)

USE DEF NoCode

\* The idle request, the absent code and the absent session are of their types.
LEMMA RecordTypes ==
    /\ Idle \in Request /\ Idle.at = "idle"
    /\ Absent \in Row /\ Absent.id = NoCode
    /\ NoSession \in Session /\ NoSession.account = NoAccount
<1>1. Idle \in Request /\ Idle.at = "idle"
  BY DEF Idle, Request, Steps
<1>2. Absent \in Row /\ Absent.id = NoCode
  BY DEF Absent, Row
<1>3. NoSession \in Session /\ NoSession.account = NoAccount
  BY DEF NoSession, Session
<1> QED
  BY <1>1, <1>2, <1>3

\* How a request moves: it starts to verify, goes on, or ends.
Verifies(s) == [Idle EXCEPT !.at = s, !.read = code.id]
GoesTo(p, s) == [req[p] EXCEPT !.at = s]
Keeps(p) == [req[p] EXCEPT !.at = "find", !.kept = TRUE]
SignsIn(p, a) == [req[p] EXCEPT !.at = "createSession", !.account = a]
Presents(s) ==
    [Idle EXCEPT !.session = s, !.account = sessions[s].account,
                 !.at = IF sessions[s].expired THEN "deleteSession" ELSE "getUser"]

\* Whatever a request goes on to is a request.
LEMMA MoveTypes ==
    ASSUME TypeOK, NEW p \in Requests
    PROVE  /\ \A s \in Steps : Verifies(s) \in Request /\ GoesTo(p, s) \in Request
           /\ Keeps(p) \in Request
           /\ \A a \in Accounts : SignsIn(p, a) \in Request
           /\ \A s \in SessionIds : Presents(s) \in Request
<1>1. \A s \in Steps : Verifies(s) \in Request
  BY RecordTypes DEF TypeOK, Verifies, Request, Row
<1>2. \A s \in Steps : GoesTo(p, s) \in Request
  BY DEF TypeOK, GoesTo, Request
<1>3. Keeps(p) \in Request
  BY DEF TypeOK, Keeps, Request, Steps
<1>4. \A a \in Accounts : SignsIn(p, a) \in Request
  BY DEF TypeOK, SignsIn, Request, Steps
<1>5. \A s \in SessionIds : Presents(s) \in Request
  BY RecordTypes DEF TypeOK, Presents, Request, Steps, Session
<1> QED
  BY <1>1, <1>2, <1>3, <1>4, <1>5

\* Where a request is after it has moved, and what it keeps of what it has read.
LEMMA MoveFields ==
    ASSUME TypeOK, NEW p \in Requests
    PROVE  /\ \A s \in Steps : Verifies(s).at = s /\ Verifies(s).read = code.id
           /\ \A s \in Steps : /\ GoesTo(p, s).at = s /\ GoesTo(p, s).read = req[p].read
                               /\ GoesTo(p, s).kept = req[p].kept
           /\ Keeps(p).at = "find" /\ Keeps(p).read = req[p].read /\ Keeps(p).kept = TRUE
           /\ \A a \in Accounts :
                 /\ SignsIn(p, a).at = "createSession" /\ SignsIn(p, a).read = req[p].read
                 /\ SignsIn(p, a).kept = req[p].kept /\ SignsIn(p, a).account = a
           /\ \A s \in SessionIds : Presents(s).at \in {"deleteSession", "getUser"}
<1>1. \A s \in Steps : Verifies(s).at = s /\ Verifies(s).read = code.id
  BY DEF Verifies, Idle
<1>2. \A s \in Steps : /\ GoesTo(p, s).at = s /\ GoesTo(p, s).read = req[p].read
                       /\ GoesTo(p, s).kept = req[p].kept
  BY DEF TypeOK, GoesTo, Request
<1>3. Keeps(p).at = "find" /\ Keeps(p).read = req[p].read /\ Keeps(p).kept = TRUE
  BY DEF TypeOK, Keeps, Request
<1>4. \A a \in Accounts :
         /\ SignsIn(p, a).at = "createSession" /\ SignsIn(p, a).read = req[p].read
         /\ SignsIn(p, a).kept = req[p].kept /\ SignsIn(p, a).account = a
  BY DEF TypeOK, SignsIn, Request
<1>5. \A s \in SessionIds : Presents(s).at \in {"deleteSession", "getUser"}
  BY DEF Presents, Idle
<1> QED
  BY <1>1, <1>2, <1>3, <1>4, <1>5

\* The steps of the requests make these moves.
LEMMA Moves ==
    ASSUME TypeOK, NEW p \in Requests
    PROVE  /\ \A s \in Steps : BeginVerify(p, s) => req' = [req EXCEPT ![p] = Verifies(s)]
           /\ \A s \in Steps : Goto(p, s) => req' = [req EXCEPT ![p] = GoesTo(p, s)]
           /\ req' = [req EXCEPT ![p].at = "find", ![p].kept = TRUE]
                 => req' = [req EXCEPT ![p] = Keeps(p)]
           /\ \A a \in Accounts :
                 req' = [req EXCEPT ![p].at = "createSession", ![p].account = a]
                 => req' = [req EXCEPT ![p] = SignsIn(p, a)]
<1>1. \A s \in Steps : BeginVerify(p, s) => req' = [req EXCEPT ![p] = Verifies(s)]
  BY DEF BeginVerify, Verifies
<1>2. \A s \in Steps : Goto(p, s) => req' = [req EXCEPT ![p] = GoesTo(p, s)]
  BY DEF Goto, GoesTo, TypeOK
<1>3. req' = [req EXCEPT ![p].at = "find", ![p].kept = TRUE]
         => req' = [req EXCEPT ![p] = Keeps(p)]
  BY DEF Keeps
<1>4. \A a \in Accounts :
         req' = [req EXCEPT ![p].at = "createSession", ![p].account = a]
         => req' = [req EXCEPT ![p] = SignsIn(p, a)]
  BY DEF SignsIn
<1> QED
  BY <1>1, <1>2, <1>3, <1>4

\* The request of a step of VerifyCode, and what it becomes.
LEMMA VerifyMoves ==
    ASSUME TypeOK, NEW p \in Requests
    PROVE  /\ VerifyExpired(p) => req' = [req EXCEPT ![p] = Verifies("clearExpired")]
           /\ VerifyWrong(p) => req' = [req EXCEPT ![p] = Verifies("increment")]
           /\ VerifyRight(p) => req' = [req EXCEPT ![p] = Verifies("clear")]
           /\ IncrementAttempts(p) \/ IncrementLost(p) \/ ClearExpired(p) \/ CreateSession(p)
                 => req' = [req EXCEPT ![p] = Idle]
           /\ DeleteSession(p) \/ GetUserByID(p) \/ Fail(p) => req' = [req EXCEPT ![p] = Idle]
           /\ Clear(p) => req' = [req EXCEPT ![p] = GoesTo(p, "find")]
           /\ ClearLost(p) => \/ req' = [req EXCEPT ![p] = Idle]
                              \/ At(p, "clear") /\ req' = [req EXCEPT ![p] = Keeps(p)]
           /\ Find(p) => \/ req' = [req EXCEPT ![p] = GoesTo(p, "insert")]
                         \/ \E a \in accounts : req' = [req EXCEPT ![p] = SignsIn(p, a)]
           /\ Insert(p) => \/ /\ accounts = {} /\ accounts' = {p}
                              /\ req' = [req EXCEPT ![p] = SignsIn(p, p)]
                           \/ /\ accounts' = accounts
                              /\ req' = [req EXCEPT ![p] = GoesTo(p, "findAgain")]
           /\ FindAgain(p) => \/ req' = [req EXCEPT ![p] = Idle]
                              \/ \E a \in accounts : req' = [req EXCEPT ![p] = SignsIn(p, a)]
<1> USE DEF End
<1>1. \A a \in accounts :
         req' = [req EXCEPT ![p].at = "createSession", ![p].account = a]
         => req' = [req EXCEPT ![p] = SignsIn(p, a)]
  <2>1. \A a \in accounts : a \in Accounts
    BY DEF TypeOK
  <2> QED
    BY <2>1, Moves
<1>0. \A s \in Steps : Goto(p, s) => req' = [req EXCEPT ![p] = GoesTo(p, s)]
  BY Moves
<1>2. VerifyExpired(p) => req' = [req EXCEPT ![p] = Verifies("clearExpired")]
  BY Moves DEF VerifyExpired, Steps
<1>3. VerifyWrong(p) => req' = [req EXCEPT ![p] = Verifies("increment")]
  BY Moves DEF VerifyWrong, Steps
<1>4. VerifyRight(p) => req' = [req EXCEPT ![p] = Verifies("clear")]
  BY Moves DEF VerifyRight, Steps
<1>5. IncrementAttempts(p) \/ IncrementLost(p) \/ ClearExpired(p) \/ CreateSession(p)
         => req' = [req EXCEPT ![p] = Idle]
  BY DEF IncrementAttempts, IncrementLost, ClearExpired, CreateSession
<1>6. DeleteSession(p) \/ GetUserByID(p) \/ Fail(p) => req' = [req EXCEPT ![p] = Idle]
  BY DEF DeleteSession, GetUserByID, Fail
<1>7. Clear(p) => req' = [req EXCEPT ![p] = GoesTo(p, "find")]
  BY <1>0 DEF Clear, Steps
<1>8. ClearLost(p) => \/ req' = [req EXCEPT ![p] = Idle]
                      \/ At(p, "clear") /\ req' = [req EXCEPT ![p] = Keeps(p)]
  BY Moves DEF ClearLost
<1>9. Find(p) => \/ req' = [req EXCEPT ![p] = GoesTo(p, "insert")]
                 \/ \E a \in accounts : req' = [req EXCEPT ![p] = SignsIn(p, a)]
  BY <1>0, <1>1 DEF Find, Steps
<1>10. Insert(p) => \/ /\ accounts = {} /\ accounts' = {p}
                       /\ req' = [req EXCEPT ![p] = SignsIn(p, p)]
                    \/ /\ accounts' = accounts
                       /\ req' = [req EXCEPT ![p] = GoesTo(p, "findAgain")]
  <2>1. p \in Accounts
    BY DEF Accounts
  <2>2. CASE accounts = {} /\ accounts' = accounts \cup {p}
             /\ req' = [req EXCEPT ![p].at = "createSession", ![p].account = p]
    BY <2>1, <2>2, Moves
  <2>3. CASE Goto(p, "findAgain") /\ UNCHANGED accounts
    BY <1>0, <2>3 DEF Steps
  <2> QED
    BY <2>2, <2>3 DEF Insert, InsertAllowed
<1>11. FindAgain(p) => \/ req' = [req EXCEPT ![p] = Idle]
                       \/ \E a \in accounts : req' = [req EXCEPT ![p] = SignsIn(p, a)]
  BY <1>1 DEF FindAgain
<1> QED
  BY <1>2, <1>3, <1>4, <1>5, <1>6, <1>7, <1>8, <1>9, <1>10, <1>11

\* The rows a step leaves.
LEMMA RowTypes ==
    ASSUME TypeOK
    PROVE  /\ sent < MaxCodes => /\ Fresh \in Row /\ Fresh.id = sent + 1
                                 /\ Fresh.attempts = 0
           /\ LET e == [code EXCEPT !.expired = TRUE]
              IN  e \in Row /\ e.id = code.id /\ e.attempts = code.attempts
           /\ Counted \in Row /\ Counted.id = code.id
           /\ code.id # NoCode => Counted.attempts = code.attempts + 1
<1>1. sent < MaxCodes => Fresh \in Row /\ Fresh.id = sent + 1 /\ Fresh.attempts = 0
  BY BoundsNat DEF TypeOK, Fresh, Row, CodeIds
<1>2. LET e == [code EXCEPT !.expired = TRUE]
      IN  e \in Row /\ e.id = code.id /\ e.attempts = code.attempts
  BY DEF TypeOK, Row
<1>3. Counted \in Row /\ Counted.id = code.id
  BY DEF TypeOK, Counted, Row
<1>4. code.id # NoCode => Counted.attempts = code.attempts + 1
  BY DEF TypeOK, Counted, Row
<1> QED
  BY <1>1, <1>2, <1>3, <1>4

\* The guesses still to be counted are finitely many.
LEMMA UncountedFinite ==
    ASSUME NEW c
    PROVE  IsFiniteSet(Uncounted(c)) /\ Cardinality(Uncounted(c)) \in Nat
<1>1. Uncounted(c) \subseteq Requests
  BY DEF Uncounted
<1> QED
  BY <1>1, RequestsFinite, FS_Subset, FS_CardinalityType

\* A request about to count its guess has a code with a guess not lost.
LEMMA RoomToLose ==
    ASSUME TypeOK, Reads, Guesses, NEW p \in Requests, At(p, "increment")
    PROVE  req[p].read \in CodeIds /\ lost[req[p].read] + 1 =< guesses[req[p].read]
<1>1. req[p].read \in 1..sent
  BY DEF At, Reads, Verifying
<1>2. req[p].read \in CodeIds
  BY <1>1, BoundsNat DEF CodeIds, TypeOK
<1>3. p \in Uncounted(req[p].read)
  BY DEF Uncounted
<1>4. Cardinality(Uncounted(req[p].read)) \in Nat \ {0}
  BY <1>3, UncountedFinite, FS_EmptySet
<1> QED
  BY <1>2, <1>4 DEF Guesses, TypeOK

\* Every step of a request keeps the type of req.
LEMMA ReqTypes ==
    ASSUME TypeOK, NEW p \in Requests,
           VerifyStep(p) \/ DeleteSession(p) \/ GetUserByID(p) \/ Fail(p)
    PROVE  req' \in [Requests -> Request]
<1>1. \A r \in Request : req' = [req EXCEPT ![p] = r] => req' \in [Requests -> Request]
  BY DEF TypeOK
<1>2. /\ Idle \in Request /\ Keeps(p) \in Request /\ SignsIn(p, p) \in Request
      /\ \A s \in Steps : Verifies(s) \in Request /\ GoesTo(p, s) \in Request
      /\ \A a \in accounts : SignsIn(p, a) \in Request
  BY RecordTypes, MoveTypes DEF Accounts, TypeOK
<1>3. VerifyExpired(p) \/ VerifyWrong(p) \/ VerifyRight(p) => req' \in [Requests -> Request]
  BY <1>1, <1>2, VerifyMoves DEF Steps
<1>4. /\ IncrementAttempts(p) \/ IncrementLost(p) \/ ClearExpired(p) \/ CreateSession(p)
            => req' \in [Requests -> Request]
      /\ DeleteSession(p) \/ GetUserByID(p) \/ Fail(p) => req' \in [Requests -> Request]
  BY <1>1, <1>2, VerifyMoves
<1>5. Clear(p) \/ ClearLost(p) => req' \in [Requests -> Request]
  BY <1>1, <1>2, VerifyMoves DEF Steps
<1>6. Find(p) \/ Insert(p) \/ FindAgain(p) => req' \in [Requests -> Request]
  BY <1>1, <1>2, VerifyMoves DEF Steps
<1> QED
  BY <1>3, <1>4, <1>5, <1>6 DEF VerifyStep

\* Every step keeps the types.
LEMMA TypeStep == TypeOK /\ Reads /\ Guesses /\ [Next]_vars => TypeOK'
<1> SUFFICES ASSUME TypeOK, Reads, Guesses, [Next]_vars PROVE TypeOK'
  OBVIOUS
<1> USE RecordTypes
<1>1. CASE RequestCode
  BY <1>1, RowTypes, BoundsNat DEF RequestCode, TypeOK, history
<1>2. CASE ExpireCode
  BY <1>2, RowTypes DEF ExpireCode, TypeOK, history
<1>3. ASSUME NEW p \in Requests, VerifyExpired(p) \/ VerifyRight(p)
      PROVE TypeOK'
  <2>1. req' \in [Requests -> Request]
    BY <1>3, ReqTypes DEF VerifyStep
  <2>2. code.id \in CodeIds
    BY <1>3 DEF VerifyExpired, VerifyRight, BeginVerify, MayTry, TypeOK, Row
  <2> QED
    BY <1>3, <2>1, <2>2 DEF VerifyExpired, VerifyRight, TypeOK
<1>4. ASSUME NEW p \in Requests, VerifyWrong(p)
      PROVE TypeOK'
  <2>1. req' \in [Requests -> Request]
    BY <1>4, ReqTypes DEF VerifyStep
  <2>2. code.id \in CodeIds /\ guesses[code.id] < MaxGuesses
    BY <1>4 DEF VerifyWrong, BeginVerify, MayTry, TypeOK, Row
  <2>3. guesses' \in [CodeIds -> 0..MaxGuesses]
    BY <1>4, <2>2, BoundsNat DEF VerifyWrong, TypeOK
  <2> QED
    BY <1>4, <2>1, <2>3 DEF VerifyWrong, TypeOK
<1>5. ASSUME NEW p \in Requests, IncrementAttempts(p) \/ ClearExpired(p) \/ Clear(p)
      PROVE TypeOK'
  <2>1. req' \in [Requests -> Request]
    BY <1>5, ReqTypes DEF VerifyStep
  <2>2. excused' \subseteq CodeIds
    BY <1>5 DEF IncrementAttempts, ClearExpired, Clear, Excuse, TypeOK, Row
  <2>3. code' \in Row
    BY <1>5, RowTypes DEF IncrementAttempts, ClearExpired, Clear, Cleared
  <2> QED
    BY <1>5, <2>1, <2>2, <2>3 DEF IncrementAttempts, ClearExpired, Clear, TypeOK
<1>6. ASSUME NEW p \in Requests, IncrementLost(p)
      PROVE TypeOK'
  <2>1. req' \in [Requests -> Request]
    BY <1>6, ReqTypes DEF VerifyStep
  <2>2. req[p].read \in CodeIds /\ lost[req[p].read] + 1 =< guesses[req[p].read]
    BY <1>6, RoomToLose DEF IncrementLost
  <2>3. lost[req[p].read] + 1 \in 0..MaxGuesses
    BY <2>2, BoundsNat DEF TypeOK
  <2>4. lost' \in [CodeIds -> 0..MaxGuesses]
    BY <1>6, <2>2, <2>3 DEF IncrementLost, TypeOK
  <2> QED
    BY <1>6, <2>1, <2>4 DEF IncrementLost, TypeOK
<1>7. ASSUME NEW p \in Requests, ClearLost(p) \/ Find(p) \/ FindAgain(p) \/ GetUserByID(p) \/ Fail(p)
      PROVE TypeOK'
  <2>1. req' \in [Requests -> Request]
    BY <1>7, ReqTypes DEF VerifyStep
  <2> QED
    BY <1>7, <2>1 DEF ClearLost, Find, FindAgain, GetUserByID, Fail, TypeOK, history
<1>8. ASSUME NEW p \in Requests, Insert(p)
      PROVE TypeOK'
  <2>1. req' \in [Requests -> Request]
    BY <1>8, ReqTypes DEF VerifyStep
  <2>2. accounts' \subseteq Accounts
    BY <1>8 DEF Insert, TypeOK, Accounts
  <2> QED
    BY <1>8, <2>1, <2>2 DEF Insert, TypeOK, history
<1>9. ASSUME NEW p \in Requests, CreateSession(p)
      PROVE TypeOK'
  <2>1. req' \in [Requests -> Request]
    BY <1>9, ReqTypes DEF VerifyStep
  <2>2. req[p].read \in CodeIds
    <3>1. req[p].read \in 1..sent
      BY <1>9 DEF CreateSession, At, Reads, Verifying, Signing
    <3> QED
      BY <3>1, BoundsNat DEF CodeIds, TypeOK
  <2>3. [account |-> req[p].account, expired |-> FALSE] \in Session
    BY DEF TypeOK, Request, Session
  <2>4. sessions' \in [SessionIds -> Session] /\ issued' \in 0..MaxSessions
    BY <1>9, <2>3, BoundsNat DEF CreateSession, TypeOK, SessionIds
  <2> QED
    BY <1>9, <2>1, <2>2, <2>4 DEF CreateSession, TypeOK
<1>10. ASSUME NEW p \in Requests, DeleteSession(p)
       PROVE TypeOK'
  <2>1. req' \in [Requests -> Request]
    BY <1>10, ReqTypes
  <2>2. sessions' \in [SessionIds -> Session]
    BY <1>10 DEF DeleteSession, Without, TypeOK
  <2> QED
    BY <1>10, <2>1, <2>2 DEF DeleteSession, TypeOK, history
<1>11. ASSUME NEW p \in Requests, NEW s \in SessionIds, SessionUser(p, s)
       PROVE TypeOK'
  <2>1. Presents(s) \in Request
    BY MoveTypes
  <2>2. req' = [req EXCEPT ![p] = Presents(s)]
    BY <1>11 DEF SessionUser, Presents
  <2> QED
    BY <1>11, <2>1, <2>2 DEF SessionUser, TypeOK, history
<1>12. ASSUME NEW s \in SessionIds, ExpireSession(s) \/ Logout(s)
       PROVE TypeOK'
  <2>1. [sessions[s] EXCEPT !.expired = TRUE] \in Session
    BY DEF TypeOK, Session
  <2>2. sessions' \in [SessionIds -> Session]
    BY <1>12, <2>1 DEF ExpireSession, Logout, Without, TypeOK
  <2> QED
    BY <1>12, <2>2 DEF ExpireSession, Logout, TypeOK, history
<1>13. CASE UNCHANGED vars
  BY <1>13 DEF vars, TypeOK
<1> QED
  BY <1>1, <1>2, <1>3, <1>4, <1>5, <1>6, <1>7, <1>8, <1>9, <1>10, <1>11, <1>12, <1>13
     DEF Next, VerifyStep

-----------------------------------------------------------------------------
(* The codes *)

\* What a step of request p makes of it, as far as codes are concerned: it verifies
\* nothing (any more), it has read the code in the row and expects to change it, or it
\* goes on to the account with the code it has read, after a Clear that was made or lost.
Over(r) == r.at \notin Verifying
HasRead(r) ==
    /\ r.at \in Verifying \ Signing /\ code.id # NoCode /\ r.read = code.id /\ UNCHANGED code
    /\ r.at \in {"clear", "clearExpired"} => code.id \in excused'
GoesOn(p, r) ==
    /\ req[p].at \in {"clear"} \cup Signing /\ r.at \in Signing /\ r.read = req[p].read
    /\ \/ r.kept \/ code'.id = NoCode
       \/ req[p].at \in Signing /\ r.kept = req[p].kept /\ UNCHANGED code

\* After a step of its own a request is over, has just read the row, or goes on after its
\* Clear; codes are neither sent nor made new by it.
LEMMA Shapes ==
    ASSUME TypeOK, NEW p \in Requests,
           VerifyStep(p) \/ DeleteSession(p) \/ GetUserByID(p) \/ Fail(p)
    PROVE  /\ \E r : req' = [req EXCEPT ![p] = r] /\ (Over(r) \/ HasRead(r) \/ GoesOn(p, r))
           /\ sent' = sent /\ excused \subseteq excused'
<1> USE DEF Verifying, Signing
<1>1. ASSUME VerifyExpired(p) \/ VerifyWrong(p) \/ VerifyRight(p)
      PROVE  \E s \in Steps : HasRead(Verifies(s)) /\ req' = [req EXCEPT ![p] = Verifies(s)]
  <2>0. code.id # NoCode /\ UNCHANGED code
    BY <1>1 DEF VerifyExpired, VerifyWrong, VerifyRight, BeginVerify, MayTry
  <2>1. \A s \in Steps : Verifies(s).at = s /\ Verifies(s).read = code.id
    BY MoveFields
  <2>2. CASE VerifyExpired(p)
    BY <2>0, <2>1, <2>2, VerifyMoves DEF VerifyExpired, HasRead, Steps
  <2>3. CASE VerifyWrong(p)
    BY <2>0, <2>1, <2>3, VerifyMoves DEF VerifyWrong, HasRead, Steps
  <2>4. CASE VerifyRight(p)
    BY <2>0, <2>1, <2>4, VerifyMoves DEF VerifyRight, HasRead, Steps
  <2> QED
    BY <1>1, <2>2, <2>3, <2>4
<1>2. Over(Idle)
  BY RecordTypes DEF Over
<1>3. ASSUME Clear(p)
      PROVE  GoesOn(p, GoesTo(p, "find")) /\ req' = [req EXCEPT ![p] = GoesTo(p, "find")]
  <2>1. At(p, "clear") /\ code'.id = NoCode
    BY <1>3, RecordTypes DEF Clear, Cleared
  <2>2. GoesTo(p, "find").at = "find" /\ GoesTo(p, "find").read = req[p].read
    BY MoveFields DEF Steps
  <2> QED
    BY <1>3, <2>1, <2>2, VerifyMoves DEF GoesOn, At
<1>4. At(p, "clear") => GoesOn(p, Keeps(p))
  BY MoveFields DEF GoesOn, At
<1>5. ASSUME Find(p) \/ Insert(p) \/ FindAgain(p)
      PROVE  \/ req' = [req EXCEPT ![p] = Idle]
             \/ \E s \in {"insert", "findAgain"} :
                   GoesOn(p, GoesTo(p, s)) /\ req' = [req EXCEPT ![p] = GoesTo(p, s)]
             \/ \E a \in Accounts :
                   GoesOn(p, SignsIn(p, a)) /\ req' = [req EXCEPT ![p] = SignsIn(p, a)]
  <2>1. req[p].at \in {"find", "insert", "findAgain"} /\ UNCHANGED code
    BY <1>5 DEF Find, Insert, FindAgain, At
  <2>2. \A s \in {"insert", "findAgain"} : GoesOn(p, GoesTo(p, s))
    <3> SUFFICES ASSUME NEW s \in {"insert", "findAgain"} PROVE GoesOn(p, GoesTo(p, s))
      OBVIOUS
    <3>1. s \in Steps
      BY DEF Steps
    <3>2. /\ GoesTo(p, s).at = s /\ GoesTo(p, s).read = req[p].read
          /\ GoesTo(p, s).kept = req[p].kept
      BY <3>1, MoveFields
    <3> QED
      BY <2>1, <3>2 DEF GoesOn
  <2>3. \A a \in Accounts : GoesOn(p, SignsIn(p, a))
    BY <2>1, MoveFields DEF GoesOn
  <2>4. p \in Accounts /\ \A a \in accounts : a \in Accounts
    BY DEF Accounts, TypeOK
  <2>5. \/ req' = [req EXCEPT ![p] = Idle]
        \/ \E s \in {"insert", "findAgain"} : req' = [req EXCEPT ![p] = GoesTo(p, s)]
        \/ \E a \in Accounts : req' = [req EXCEPT ![p] = SignsIn(p, a)]
    <3>1. CASE Find(p)
      BY <2>4, <3>1, VerifyMoves
    <3>2. CASE Insert(p)
      BY <2>4, <3>2, VerifyMoves
    <3>3. CASE FindAgain(p)
      BY <2>4, <3>3, VerifyMoves
    <3> QED
      BY <1>5, <3>1, <3>2, <3>3
  <2> QED
    BY <2>2, <2>3, <2>5
<1>6. \E r : req' = [req EXCEPT ![p] = r] /\ (Over(r) \/ HasRead(r) \/ GoesOn(p, r))
  <2>1. CASE VerifyExpired(p) \/ VerifyWrong(p) \/ VerifyRight(p)
    BY <1>1, <2>1
  <2>2. CASE IncrementAttempts(p) \/ IncrementLost(p) \/ ClearExpired(p) \/ CreateSession(p)
    BY <1>2, <2>2, VerifyMoves
  <2>3. CASE DeleteSession(p) \/ GetUserByID(p) \/ Fail(p)
    BY <1>2, <2>3, VerifyMoves
  <2>4. CASE Clear(p)
    BY <1>3, <2>4
  <2>5. CASE ClearLost(p)
    BY <1>2, <1>4, <2>5, VerifyMoves
  <2>6. CASE Find(p) \/ Insert(p) \/ FindAgain(p)
    BY <1>2, <1>5, <2>6
  <2> QED
    BY <2>1, <2>2, <2>3, <2>4, <2>5, <2>6 DEF VerifyStep
<1>7. sent' = sent
  BY DEF VerifyStep, VerifyExpired, VerifyWrong, VerifyRight, IncrementAttempts, IncrementLost,
         ClearExpired, Clear, ClearLost, Find, Insert, FindAgain, CreateSession, DeleteSession,
         GetUserByID, Fail
<1>8. excused \subseteq excused'
  BY DEF VerifyStep, VerifyExpired, VerifyWrong, VerifyRight, IncrementAttempts, IncrementLost,
         ClearExpired, Clear, ClearLost, Find, Insert, FindAgain, CreateSession, DeleteSession,
         GetUserByID, Fail, Excuse, history
<1> QED
  BY <1>6, <1>7, <1>8

\* The row stays, goes, or is that of the code just sent.
LEMMA RowSteps ==
    TypeOK /\ [Next]_vars =>
        \/ /\ sent' = sent + 1 /\ code'.id = sent' /\ code'.attempts = 0
           /\ UNCHANGED <<accounts, sessions, req, history>>
        \/ sent' = sent /\ code'.id \in {NoCode, code.id}
<1> SUFFICES ASSUME TypeOK, [Next]_vars
             PROVE  \/ /\ sent' = sent + 1 /\ code'.id = sent' /\ code'.attempts = 0
                       /\ UNCHANGED <<accounts, sessions, req, history>>
                    \/ sent' = sent /\ code'.id \in {NoCode, code.id}
  OBVIOUS
<1>1. CASE RequestCode
  BY <1>1, RowTypes DEF RequestCode
<1>2. CASE ExpireCode
  BY <1>2, RowTypes DEF ExpireCode
<1>3. ASSUME NEW p \in Requests, IncrementAttempts(p)
      PROVE  sent' = sent /\ code'.id \in {NoCode, code.id}
  BY <1>3, RowTypes DEF IncrementAttempts
<1>4. ASSUME NEW p \in Requests, ClearExpired(p) \/ Clear(p)
      PROVE  sent' = sent /\ code'.id \in {NoCode, code.id}
  BY <1>4, RecordTypes DEF ClearExpired, Clear, Cleared
<1>5. CASE UNCHANGED <<sent, code>>
  BY <1>5
<1> QED
  BY <1>1, <1>2, <1>3, <1>4, <1>5
     DEF Next, VerifyStep, vars, VerifyExpired, VerifyWrong, VerifyRight, IncrementLost, ClearLost,
         Find, Insert, FindAgain, CreateSession, DeleteSession, GetUserByID, Fail, SessionUser,
         ExpireSession, Logout

\* Every step, as the requests see it.
LEMMA RequestSteps ==
    ASSUME TypeOK, [Next]_vars
    PROVE  /\ excused \subseteq excused'
           /\ \/ req' = req
              \/ /\ sent' = sent
                 /\ \E p \in Requests : \E r :
                       req' = [req EXCEPT ![p] = r] /\ (Over(r) \/ HasRead(r) \/ GoesOn(p, r))
<1>1. CASE \E p \in Requests : VerifyStep(p) \/ DeleteSession(p) \/ GetUserByID(p) \/ Fail(p)
  BY <1>1, Shapes
<1>2. ASSUME NEW p \in Requests, NEW s \in SessionIds, SessionUser(p, s)
      PROVE  /\ UNCHANGED <<excused, sent>> /\ Over(Presents(s))
             /\ req' = [req EXCEPT ![p] = Presents(s)]
  <2>1. Presents(s).at \in {"deleteSession", "getUser"}
    BY MoveFields
  <2> QED
    BY <1>2, <2>1 DEF SessionUser, Presents, history, Over, Verifying, Signing
<1>3. CASE UNCHANGED <<req, excused>>
  BY <1>3
<1> QED
  BY <1>1, <1>2, <1>3
     DEF Next, vars, history, RequestCode, ExpireCode, ExpireSession, Logout

\* Only a new code changes the id of the row, and only the row is ever read.
LEMMA ReadsStep == TypeOK /\ OnlyNewest /\ Reads /\ [Next]_vars => OnlyNewest' /\ Reads'
<1> SUFFICES ASSUME TypeOK, OnlyNewest, Reads, [Next]_vars PROVE OnlyNewest' /\ Reads'
  OBVIOUS
<1>1. OnlyNewest' /\ sent \in Nat /\ sent' \in {sent, sent + 1}
  BY RowSteps, BoundsNat DEF OnlyNewest, TypeOK
<1>2. CASE req' = req
  BY <1>1, <1>2 DEF Reads
<1>3. ASSUME sent' = sent, NEW p \in Requests, NEW r, req' = [req EXCEPT ![p] = r],
             Over(r) \/ HasRead(r) \/ GoesOn(p, r)
      PROVE  Reads'
  <2>1. r.at \in Verifying => r.read \in 1..sent
    <3>1. CASE HasRead(r)
      BY <1>1, <3>1 DEF HasRead, OnlyNewest
    <3>2. CASE GoesOn(p, r)
      BY <3>2 DEF GoesOn, Reads, Verifying, Signing
    <3> QED
      BY <1>3, <3>1, <3>2 DEF Over
  <2> QED
    BY <1>3, <2>1 DEF Reads, TypeOK
<1> QED
  BY <1>1, <1>2, <1>3, RequestSteps

\* A request goes on to clear a code only when it matched it or saw it expired.
LEMMA ClearsExcusedStep == TypeOK /\ ClearsExcused /\ [Next]_vars => ClearsExcused'
<1> SUFFICES ASSUME TypeOK, ClearsExcused, [Next]_vars PROVE ClearsExcused'
  OBVIOUS
<1>1. excused \subseteq excused'
  BY RequestSteps
<1>2. CASE req' = req
  BY <1>1, <1>2 DEF ClearsExcused
<1>3. ASSUME NEW p \in Requests, NEW r, req' = [req EXCEPT ![p] = r],
             Over(r) \/ HasRead(r) \/ GoesOn(p, r)
      PROVE  ClearsExcused'
  <2>1. r.at \in {"clear", "clearExpired"} => r.read \in excused'
    BY <1>3 DEF Over, HasRead, GoesOn, Verifying, Signing
  <2> QED
    BY <1>1, <1>3, <2>1 DEF ClearsExcused, TypeOK
<1> QED
  BY <1>2, <1>3, RequestSteps

\* A Clear takes away the code of the request that makes it, or excuses the one it meets.
LEMMA NewestStep ==
    TypeOK /\ OnlyNewest /\ Reads /\ ClearsExcused /\ NewestKept /\ [Next]_vars => NewestKept'
<1> SUFFICES ASSUME TypeOK, OnlyNewest, Reads, ClearsExcused, NewestKept, [Next]_vars,
                    sent' > 0, code'.id = NoCode
             PROVE  sent' \in excused'
  BY DEF NewestKept
<1>0. sent' = sent /\ excused \subseteq excused' /\ sent \in Nat
  BY RowSteps, RequestSteps, BoundsNat DEF TypeOK
<1>1. CASE code.id = NoCode
  BY <1>0, <1>1 DEF NewestKept
<1>2. CASE code.id # NoCode
  <2>1. code.id = sent
    BY <1>2 DEF OnlyNewest
  <2>2. ASSUME NEW p \in Requests, ClearExpired(p) \/ Clear(p)
        PROVE  sent' \in excused'
    <3>1. req[p].at \in {"clear", "clearExpired"} /\ Excuse(p)
      BY <2>2 DEF ClearExpired, Clear, At
    <3>2. CASE Stray(p)
      BY <1>0, <1>2, <2>1, <3>1, <3>2 DEF Excuse
    <3>3. CASE ~Stray(p)
      BY <1>0, <2>1, <3>1, <3>3 DEF Stray, ClearsExcused
    <3> QED
      BY <3>2, <3>3
  <2>3. ASSUME NEW p \in Requests, IncrementAttempts(p)
        PROVE  code'.id = code.id
    BY <2>3, RowTypes DEF IncrementAttempts
  <2>4. CASE ExpireCode
    BY <2>4, <1>2, RowTypes DEF ExpireCode
  <2>5. CASE RequestCode
    BY <1>0, <2>5 DEF RequestCode
  <2>6. CASE UNCHANGED code
    BY <1>2, <2>6
  <2> QED
    BY <1>2, <2>2, <2>3, <2>4, <2>5, <2>6
       DEF Next, VerifyStep, vars, VerifyExpired, VerifyWrong, VerifyRight, IncrementLost,
           ClearLost, Find, Insert, FindAgain, CreateSession, DeleteSession, GetUserByID, Fail,
           SessionUser, ExpireSession, Logout
<1> QED
  BY <1>1, <1>2

\* A code that is gone does not come back: a new one has a new number.
LEMMA TakenStep ==
    TypeOK /\ Reads /\ Taken /\ RedeemedIsGone /\ [Next]_vars => Taken' /\ RedeemedIsGone'
<1> SUFFICES ASSUME TypeOK, Reads, Taken, RedeemedIsGone, [Next]_vars
             PROVE  Taken' /\ RedeemedIsGone'
  OBVIOUS
<1>0. \/ sent' = sent + 1 /\ code'.id = sent' /\ UNCHANGED <<req, redeemed>>
      \/ sent' = sent /\ code'.id \in {NoCode, code.id}
  BY RowSteps DEF history
<1>00. sent \in Nat
  BY BoundsNat DEF TypeOK
<1>1. \A q \in Requests : req[q].at \in Signing /\ ~req[q].kept => code'.id # req[q].read
  BY <1>0, <1>00 DEF Taken, Reads, Verifying
<1>2. \A q \in Requests : req'[q].at \in Signing /\ ~req'[q].kept => code'.id # req'[q].read
  <2>1. CASE req' = req
    BY <1>1, <2>1
  <2>2. ASSUME sent' = sent, NEW p \in Requests, NEW r, req' = [req EXCEPT ![p] = r],
               Over(r) \/ HasRead(r) \/ GoesOn(p, r)
        PROVE  \A q \in Requests : req'[q].at \in Signing /\ ~req'[q].kept => code'.id # req'[q].read
    <3>1. r.at \in Signing /\ ~r.kept => code'.id # r.read
      <4>1. CASE GoesOn(p, r)
        <5>1. req[p].read \in 1..sent
          BY <4>1 DEF GoesOn, Reads, Verifying
        <5> QED
          BY <1>1, <4>1, <5>1 DEF GoesOn
      <4> QED
        BY <2>2, <4>1 DEF Over, HasRead, Verifying
    <3> QED
      BY <1>1, <2>2, <3>1 DEF TypeOK
  <2> QED
    BY <2>1, <2>2, RequestSteps
<1>3. ASSUME NEW p \in Requests, CreateSession(p)
      PROVE  redeemed' \subseteq 1..sent' /\ code'.id \notin redeemed'
  <2>1. req[p].at \in Signing /\ sent' = sent /\ code' = code
    BY <1>3 DEF CreateSession, At, Signing
  <2>2. req[p].read \in 1..sent
    BY <2>1 DEF Reads, Verifying
  <2> QED
    BY <1>3, <2>1, <2>2 DEF CreateSession, Taken, RedeemedIsGone
<1>4. CASE redeemed' = redeemed
  BY <1>0, <1>00, <1>2, <1>4 DEF Taken, RedeemedIsGone
<1> QED
  BY <1>2, <1>3, <1>4
     DEF Taken, RedeemedIsGone, Next, VerifyStep, vars, history, RequestCode, ExpireCode,
         VerifyExpired, VerifyWrong, VerifyRight, IncrementAttempts, IncrementLost, ClearExpired,
         Clear, ClearLost, Find, Insert, FindAgain, DeleteSession, GetUserByID, Fail, SessionUser,
         ExpireSession, Logout

-----------------------------------------------------------------------------
(* The account *)

\* A request that moves, to the account it has found if to any, creates nothing.
LEMMA OwnedMoves ==
    ASSUME TypeOK, Owned, NEW p \in Requests, NEW r, req' = [req EXCEPT ![p] = r],
           r.at = "createSession" => r.account \in accounts, UNCHANGED <<accounts, sessions>>
    PROVE  Owned'
  BY DEF Owned, At, TypeOK

\* However many requests found no account, one inserts it; the others find that one.
LEMMA OwnedStep == TypeOK /\ Owned /\ [Next]_vars => Owned'
<1> SUFFICES ASSUME TypeOK, Owned, [Next]_vars PROVE Owned'
  OBVIOUS
<1>0. Idle.at # "createSession" /\ NoSession.account = NoAccount
  BY RecordTypes
<1>1. ASSUME NEW p \in Requests, VerifyExpired(p) \/ VerifyWrong(p) \/ VerifyRight(p)
      PROVE Owned'
  <2>1. \E s \in Steps \ {"createSession"} : req' = [req EXCEPT ![p] = Verifies(s)]
    BY <1>1, VerifyMoves DEF Steps
  <2>2. \A s \in Steps : Verifies(s).at = s
    BY MoveFields
  <2>3. UNCHANGED <<accounts, sessions>>
    BY <1>1 DEF VerifyExpired, VerifyWrong, VerifyRight
  <2> QED
    BY <2>1, <2>2, <2>3, OwnedMoves
<1>2. ASSUME NEW p \in Requests,
             \/ IncrementAttempts(p) \/ IncrementLost(p) \/ ClearExpired(p)
             \/ GetUserByID(p) \/ Fail(p)
      PROVE Owned'
  <2>1. req' = [req EXCEPT ![p] = Idle]
    BY <1>2, VerifyMoves
  <2>2. UNCHANGED <<accounts, sessions>>
    BY <1>2 DEF IncrementAttempts, IncrementLost, ClearExpired, GetUserByID, Fail
  <2> QED
    BY <1>0, <2>1, <2>2, OwnedMoves
<1>3. ASSUME NEW p \in Requests, Clear(p) \/ ClearLost(p)
      PROVE Owned'
  <2>1. \E r \in {Idle, Keeps(p), GoesTo(p, "find")} : req' = [req EXCEPT ![p] = r]
    BY <1>3, VerifyMoves
  <2>2. \A r \in {Idle, Keeps(p), GoesTo(p, "find")} : r.at # "createSession"
    BY <1>0, MoveFields DEF Steps
  <2>3. UNCHANGED <<accounts, sessions>>
    BY <1>3 DEF Clear, ClearLost
  <2> QED
    BY <2>1, <2>2, <2>3, OwnedMoves
<1>4. ASSUME NEW p \in Requests, Find(p) \/ FindAgain(p)
      PROVE Owned'
  <2>1. UNCHANGED <<accounts, sessions>>
    BY <1>4 DEF Find, FindAgain
  <2>2. GoesTo(p, "insert").at = "insert" /\ \A a \in accounts : SignsIn(p, a).account = a
    BY MoveFields DEF Steps, TypeOK
  <2>3. \/ req' = [req EXCEPT ![p] = Idle] \/ req' = [req EXCEPT ![p] = GoesTo(p, "insert")]
        \/ \E a \in accounts : req' = [req EXCEPT ![p] = SignsIn(p, a)]
    BY <1>4, VerifyMoves
  <2>4. CASE \E a \in accounts : req' = [req EXCEPT ![p] = SignsIn(p, a)]
    BY <2>1, <2>2, <2>4, OwnedMoves
  <2>5. CASE req' = [req EXCEPT ![p] = Idle] \/ req' = [req EXCEPT ![p] = GoesTo(p, "insert")]
    BY <1>0, <2>1, <2>2, <2>5, OwnedMoves
  <2> QED
    BY <2>3, <2>4, <2>5
<1>5. ASSUME NEW p \in Requests, Insert(p)
      PROVE Owned'
  <2>0. sessions' = sessions
    BY <1>5 DEF Insert
  <2>1. CASE accounts = {} /\ accounts' = {p} /\ req' = [req EXCEPT ![p] = SignsIn(p, p)]
    <3>1. SignsIn(p, p).account = p
      BY MoveFields DEF Accounts
    <3> QED
      BY <2>0, <2>1, <3>1 DEF Owned, At, TypeOK
  <2>2. CASE accounts' = accounts /\ req' = [req EXCEPT ![p] = GoesTo(p, "findAgain")]
    <3>1. GoesTo(p, "findAgain").at = "findAgain"
      BY MoveFields DEF Steps
    <3> QED
      BY <2>0, <2>2, <3>1, OwnedMoves
  <2> QED
    BY <1>5, <2>1, <2>2, VerifyMoves
<1>6. ASSUME NEW p \in Requests, CreateSession(p)
      PROVE Owned'
  <2>1. req' = [req EXCEPT ![p] = Idle] /\ req[p].account \in accounts /\ accounts' = accounts
    BY <1>6, VerifyMoves DEF CreateSession, Owned
  <2>2. \A s \in SessionIds : sessions'[s].account \in accounts \cup {NoAccount}
    BY <1>6, <2>1 DEF CreateSession, Owned, TypeOK
  <2> QED
    BY <1>0, <2>1, <2>2 DEF Owned, At, TypeOK
<1>7. ASSUME NEW p \in Requests, DeleteSession(p)
      PROVE Owned'
  <2>1. req' = [req EXCEPT ![p] = Idle] /\ accounts' = accounts
    BY <1>7, VerifyMoves DEF DeleteSession
  <2>2. \A s \in SessionIds : sessions'[s].account \in accounts \cup {NoAccount}
    BY <1>0, <1>7 DEF DeleteSession, Without, Owned, TypeOK
  <2> QED
    BY <1>0, <2>1, <2>2 DEF Owned, At, TypeOK
<1>8. ASSUME NEW p \in Requests, NEW s \in SessionIds, SessionUser(p, s)
      PROVE Owned'
  <2>1. Presents(s).at # "createSession"
    BY MoveFields
  <2>2. req' = [req EXCEPT ![p] = Presents(s)] /\ UNCHANGED <<accounts, sessions>>
    BY <1>8 DEF SessionUser, Presents
  <2> QED
    BY <2>1, <2>2, OwnedMoves
<1>9. ASSUME NEW s \in SessionIds, ExpireSession(s) \/ Logout(s)
      PROVE Owned'
  <2>1. \A t \in SessionIds : sessions'[t].account \in accounts \cup {NoAccount}
    BY <1>0, <1>9 DEF ExpireSession, Logout, Without, Owned, TypeOK, Session
  <2> QED
    BY <1>9, <2>1 DEF ExpireSession, Logout, Owned, At
<1>10. CASE UNCHANGED <<accounts, sessions, req>>
  BY <1>10 DEF Owned, At
<1> QED
  BY <1>1, <1>2, <1>3, <1>4, <1>5, <1>6, <1>7, <1>8, <1>9, <1>10
     DEF Next, VerifyStep, vars, RequestCode, ExpireCode

-----------------------------------------------------------------------------
(* The guesses *)

\* A request that makes or counts a guess moves itself only.
LEMMA UncountedMoves ==
    ASSUME TypeOK, NEW p \in Requests, NEW r, req' = [req EXCEPT ![p] = r], NEW c \in CodeIds
    PROVE  Uncounted(c)' = IF r.at = "increment" /\ r.read = c THEN Uncounted(c) \cup {p}
                                                               ELSE Uncounted(c) \ {p}
  BY DEF TypeOK, Uncounted, At

\* Steps that make no guess and count none; the row may go, or lose nothing.
QuietGuesses ==
    /\ UNCHANGED <<guesses, lost, sent>>
    /\ \A c \in CodeIds : Uncounted(c)' = Uncounted(c)
    /\ code'.id \in {NoCode, code.id} /\ (code'.id # NoCode => code'.attempts = code.attempts)

\* Such a step leaves the balance of guesses as it was.
LEMMA QuietGuessesStep == Guesses /\ QuietGuesses => Guesses'
<1>1. \A c \in CodeIds : c # NoCode
  BY DEF CodeIds
<1> QED
  BY <1>1 DEF Guesses, QuietGuesses

\* A request that is not about to count before its step nor after it.
LEMMA QuietMoves ==
    ASSUME TypeOK, NEW p \in Requests, NEW r, req' = [req EXCEPT ![p] = r],
           r.at # "increment", ~At(p, "increment")
    PROVE  \A c \in CodeIds : Uncounted(c)' = Uncounted(c)
  BY DEF TypeOK, Uncounted, At

\* A guess is made below the limit, so that the bound counts the requests that have not
\* counted theirs: all but the one that makes it.
LEMMA OneGuess ==
    ASSUME TypeOK, OnlyNewest, Guesses, NEW p \in Requests, VerifyWrong(p)
    PROVE  Guesses'
<1>1. PICK c \in CodeIds : c = code.id
  BY DEF VerifyWrong, BeginVerify, MayTry, TypeOK, Row
<1>2. /\ At(p, "idle") /\ code.attempts \in Nat /\ code.attempts < Limit
      /\ guesses' = [guesses EXCEPT ![c] = @ + 1] /\ UNCHANGED <<code, sent, lost>>
  BY <1>1 DEF VerifyWrong, BeginVerify, MayTry, TypeOK, Row
<1>3. \A d \in CodeIds : Uncounted(d)' = IF d = c THEN Uncounted(d) \cup {p} ELSE Uncounted(d) \ {p}
  <2>1. req' = [req EXCEPT ![p] = Verifies("increment")]
    BY VerifyMoves
  <2>2. Verifies("increment").at = "increment" /\ Verifies("increment").read = c
    BY <1>1, MoveFields DEF Steps
  <2> QED
    BY <2>1, <2>2, UncountedMoves
<1>4. \A d \in CodeIds : p \notin Uncounted(d)
  BY <1>2 DEF Uncounted, At
<1>5. \A d \in CodeIds : d # c => Uncounted(d)' = Uncounted(d)
  BY <1>3, <1>4
<1>6. Cardinality(Uncounted(c)') = Cardinality(Uncounted(c)) + 1
  BY <1>3, <1>4, UncountedFinite, FS_AddElement
<1>7. Cardinality(Uncounted(c)) =< Cardinality(Requests) - 1
  <2>1. Uncounted(c) \in SUBSET (Requests \ {p})
    BY <1>4 DEF Uncounted
  <2>2. IsFiniteSet(Requests \ {p}) /\ Cardinality(Requests \ {p}) = Cardinality(Requests) - 1
    BY RequestsFinite, FS_RemoveElement
  <2> QED
    BY <2>1, <2>2, FS_Subset
<1>8. Cardinality(Uncounted(c)) \in Nat /\ Cardinality(Requests) \in Nat /\ Limit \in Nat
  BY UncountedFinite, RequestsFinite, FS_CardinalityType, LimitPositive
<1>9. guesses[c] \in Nat /\ lost[c] \in Nat /\ c =< sent
  <2>1. guesses[c] \in Nat /\ lost[c] \in Nat
    BY BoundsNat DEF TypeOK
  <2>2. c = sent /\ sent \in Nat
    BY <1>1, BoundsNat DEF OnlyNewest, CodeIds, TypeOK
  <2> QED
    BY <2>1, <2>2
<1>10. ASSUME NEW d \in CodeIds, d # c
       PROVE  guesses'[d] = guesses[d] /\ lost'[d] = lost[d] /\ code'.id # d
  BY <1>1, <1>2, <1>10 DEF TypeOK
<1>11. guesses'[c] = guesses[c] + 1 /\ lost'[c] = lost[c]
  BY <1>2 DEF TypeOK
<1>12. /\ lost[c] + Cardinality(Uncounted(c)) =< guesses[c]
       /\ guesses[c] =< code.attempts + Cardinality(Uncounted(c)) + lost[c]
  BY <1>1 DEF Guesses
<1>13. /\ lost'[c] + Cardinality(Uncounted(c)') =< guesses'[c]
       /\ guesses'[c] =< code'.attempts + Cardinality(Uncounted(c)') + lost'[c]
       /\ guesses'[c] =< Limit + Cardinality(Requests) - 1 + lost'[c]
  BY <1>2, <1>6, <1>7, <1>8, <1>9, <1>11, <1>12
<1> QED
  BY <1>2, <1>5, <1>9, <1>10, <1>13 DEF Guesses, CodeIds, TypeOK

\* The guess of the row's own code is counted; a stray increment only adds to another.
LEMMA OneCount ==
    ASSUME TypeOK, Reads, Guesses, NEW p \in Requests, IncrementAttempts(p)
    PROVE  Guesses'
<1>1. PICK c \in CodeIds : c = req[p].read
  BY RoomToLose DEF IncrementAttempts
<1>2. At(p, "increment") /\ code' = Counted /\ UNCHANGED <<guesses, lost, sent>>
  BY DEF IncrementAttempts
<1>3. p \in Uncounted(c) /\ \A d \in CodeIds : d # c => p \notin Uncounted(d)
  BY <1>1, <1>2 DEF Uncounted
<1>4. \A d \in CodeIds : Uncounted(d)' = Uncounted(d) \ {p}
  <2>1. req' = [req EXCEPT ![p] = Idle]
    BY VerifyMoves
  <2> QED
    BY <2>1, RecordTypes, UncountedMoves
<1>5. \A d \in CodeIds : d # c => Uncounted(d)' = Uncounted(d)
  BY <1>3, <1>4
<1>6. Cardinality(Uncounted(c)') = Cardinality(Uncounted(c)) - 1
  BY <1>3, <1>4, UncountedFinite, FS_RemoveElement
<1>7. \A d \in CodeIds : Cardinality(Uncounted(d)) \in Nat
  BY UncountedFinite
<1>8. code'.id = code.id /\ (code.id # NoCode => code'.attempts = code.attempts + 1)
  BY <1>2, RowTypes
<1>9. code.attempts \in Nat /\ \A d \in CodeIds : d # NoCode /\ guesses[d] \in Nat /\ lost[d] \in Nat
  BY BoundsNat DEF TypeOK, Row, CodeIds
<1>10. ASSUME NEW d \in CodeIds
       PROVE  /\ lost[d] + Cardinality(Uncounted(d)') =< guesses[d]
              /\ code'.id = d => guesses[d] =< code'.attempts + Cardinality(Uncounted(d)') + lost[d]
  <2>1. /\ lost[d] + Cardinality(Uncounted(d)) =< guesses[d]
        /\ code.id = d => guesses[d] =< code.attempts + Cardinality(Uncounted(d)) + lost[d]
    BY DEF Guesses
  <2>2. Cardinality(Uncounted(d)') \in {Cardinality(Uncounted(d)), Cardinality(Uncounted(d)) - 1}
    BY <1>5, <1>6
  <2> QED
    BY <1>7, <1>8, <1>9, <2>1, <2>2
<1> QED
  BY <1>2, <1>10 DEF Guesses

\* A guess whose increment failed is lost.
LEMMA OneLoss ==
    ASSUME TypeOK, Reads, Guesses, NEW p \in Requests, IncrementLost(p)
    PROVE  Guesses'
<1>1. PICK c \in CodeIds : c = req[p].read
  BY RoomToLose DEF IncrementLost
<1>2. /\ At(p, "increment") /\ lost' = [lost EXCEPT ![c] = @ + 1]
      /\ UNCHANGED <<code, guesses, sent>>
  BY <1>1 DEF IncrementLost
<1>3. p \in Uncounted(c) /\ \A d \in CodeIds : d # c => p \notin Uncounted(d)
  BY <1>1, <1>2 DEF Uncounted
<1>4. \A d \in CodeIds : Uncounted(d)' = Uncounted(d) \ {p}
  <2>1. req' = [req EXCEPT ![p] = Idle]
    BY VerifyMoves
  <2> QED
    BY <2>1, RecordTypes, UncountedMoves
<1>5. \A d \in CodeIds : d # c => Uncounted(d)' = Uncounted(d) /\ lost'[d] = lost[d]
  BY <1>2, <1>3, <1>4 DEF TypeOK
<1>6. Cardinality(Uncounted(c)') = Cardinality(Uncounted(c)) - 1 /\ lost'[c] = lost[c] + 1
  <2>1. Cardinality(Uncounted(c)') = Cardinality(Uncounted(c)) - 1
    BY <1>3, <1>4, UncountedFinite, FS_RemoveElement
  <2> QED
    BY <1>2, <2>1 DEF TypeOK
<1>7. /\ Cardinality(Uncounted(c)) \in Nat /\ Cardinality(Requests) \in Nat /\ Limit \in Nat
      /\ code.attempts \in Nat /\ guesses[c] \in Nat /\ lost[c] \in Nat
  BY UncountedFinite, RequestsFinite, FS_CardinalityType, LimitPositive, BoundsNat DEF TypeOK, Row
<1>8. /\ c > sent => guesses[c] = 0
      /\ lost[c] + Cardinality(Uncounted(c)) =< guesses[c]
      /\ code.id = c => guesses[c] =< code.attempts + Cardinality(Uncounted(c)) + lost[c]
      /\ guesses[c] =< Limit + Cardinality(Requests) - 1 + lost[c]
  BY DEF Guesses
<1>9. /\ lost'[c] + Cardinality(Uncounted(c)') =< guesses[c]
      /\ code.id = c => guesses[c] =< code.attempts + Cardinality(Uncounted(c)') + lost'[c]
      /\ guesses[c] =< Limit + Cardinality(Requests) - 1 + lost'[c]
  BY <1>6, <1>7, <1>8
<1> QED
  BY <1>2, <1>5, <1>8, <1>9 DEF Guesses

\* The bound on wrong guesses is kept, with the count of those under way.
LEMMA GuessesStep == TypeOK /\ OnlyNewest /\ Reads /\ Guesses /\ [Next]_vars => Guesses'
<1> SUFFICES ASSUME TypeOK, OnlyNewest, Reads, Guesses, [Next]_vars PROVE Guesses'
  OBVIOUS
<1>1. ASSUME NEW p \in Requests, VerifyWrong(p) \/ IncrementAttempts(p) \/ IncrementLost(p)
      PROVE Guesses'
  BY <1>1, OneGuess, OneCount, OneLoss
\* Nobody has guessed at the code that is sent.
<1>2. CASE RequestCode
  <2>1. /\ sent' = sent + 1 /\ code'.id = sent + 1 /\ code'.attempts = 0
        /\ UNCHANGED <<guesses, lost, req>>
    BY <1>2, RowTypes DEF RequestCode, history
  <2>2. \A c \in CodeIds : Uncounted(c)' = Uncounted(c)
    BY <2>1 DEF Uncounted, At
  <2>3. \A c \in CodeIds : Cardinality(Uncounted(c)) \in Nat /\ lost[c] \in Nat
    BY UncountedFinite, BoundsNat DEF TypeOK
  <2>4. sent \in Nat /\ \A c \in CodeIds : c \in Nat
    BY BoundsNat DEF TypeOK, CodeIds
  <2>5. \A c \in CodeIds : code'.id = c => guesses[c] = 0
    BY <2>1, <2>4 DEF Guesses
  <2> QED
    BY <2>1, <2>2, <2>3, <2>4, <2>5 DEF Guesses
<1>3. CASE ExpireCode
  <2>1. QuietGuesses
    BY <1>3, RowTypes DEF ExpireCode, history, QuietGuesses, Uncounted, At
  <2> QED
    BY <2>1, QuietGuessesStep
<1>4. ASSUME NEW p \in Requests, NEW r, req' = [req EXCEPT ![p] = r], r.at # "increment",
             ~At(p, "increment"), UNCHANGED <<guesses, lost, sent>>, code' \in {code, Absent}
      PROVE Guesses'
  <2>1. \A c \in CodeIds : Uncounted(c)' = Uncounted(c)
    BY <1>4, QuietMoves
  <2>2. QuietGuesses
    BY <1>4, <2>1, RecordTypes DEF QuietGuesses
  <2> QED
    BY <2>2, QuietGuessesStep
<1>5. ASSUME NEW p \in Requests, VerifyExpired(p) \/ VerifyRight(p)
      PROVE Guesses'
  <2>1. \E s \in {"clearExpired", "clear"} : req' = [req EXCEPT ![p] = Verifies(s)]
    BY <1>5, VerifyMoves
  <2>2. \A s \in Steps : Verifies(s).at = s
    BY MoveFields
  <2>3. ~At(p, "increment") /\ UNCHANGED <<code, guesses, lost, sent>>
    BY <1>5 DEF VerifyExpired, VerifyRight, BeginVerify, At
  <2> QED
    BY <1>4, <2>1, <2>2, <2>3 DEF Steps
<1>6. ASSUME NEW p \in Requests,
             \/ ClearExpired(p) \/ CreateSession(p) \/ DeleteSession(p) \/ GetUserByID(p) \/ Fail(p)
      PROVE Guesses'
  <2>1. req' = [req EXCEPT ![p] = Idle] /\ Idle.at # "increment"
    BY <1>6, VerifyMoves, RecordTypes
  <2>2. ~At(p, "increment") /\ UNCHANGED <<guesses, lost, sent>> /\ code' \in {code, Absent}
    BY <1>6 DEF ClearExpired, Cleared, CreateSession, DeleteSession, GetUserByID, Fail, At, history
  <2> QED
    BY <1>4, <2>1, <2>2
<1>7. ASSUME NEW p \in Requests, Clear(p) \/ ClearLost(p)
      PROVE Guesses'
  <2>1. \E r \in {Idle, Keeps(p), GoesTo(p, "find")} : req' = [req EXCEPT ![p] = r]
    BY <1>7, VerifyMoves
  <2>2. \A r \in {Idle, Keeps(p), GoesTo(p, "find")} : r.at # "increment"
    BY RecordTypes, MoveFields DEF Steps
  <2>3. ~At(p, "increment") /\ UNCHANGED <<guesses, lost, sent>> /\ code' \in {code, Absent}
    BY <1>7 DEF Clear, ClearLost, Cleared, At, history
  <2> QED
    BY <1>4, <2>1, <2>2, <2>3
<1>8. ASSUME NEW p \in Requests, Find(p) \/ Insert(p) \/ FindAgain(p)
      PROVE Guesses'
  <2>1. \/ \E r \in {Idle, GoesTo(p, "insert"), GoesTo(p, "findAgain"), SignsIn(p, p)} :
              req' = [req EXCEPT ![p] = r]
        \/ \E a \in accounts : req' = [req EXCEPT ![p] = SignsIn(p, a)]
    BY <1>8, VerifyMoves
  <2>2. \A a \in Accounts : SignsIn(p, a).at # "increment"
    BY MoveFields
  <2>3. \A r \in {Idle, GoesTo(p, "insert"), GoesTo(p, "findAgain"), SignsIn(p, p)} :
           r.at # "increment"
    BY <2>2, RecordTypes, MoveFields DEF Steps, Accounts
  <2>4. \A a \in accounts : SignsIn(p, a).at # "increment"
    BY <2>2 DEF TypeOK
  <2>5. ~At(p, "increment") /\ UNCHANGED <<code, guesses, lost, sent>>
    BY <1>8 DEF Find, Insert, FindAgain, At, history
  <2> QED
    BY <1>4, <2>1, <2>3, <2>4, <2>5
<1>9. ASSUME NEW p \in Requests, NEW s \in SessionIds, SessionUser(p, s)
      PROVE Guesses'
  <2>1. req' = [req EXCEPT ![p] = Presents(s)] /\ Presents(s).at # "increment"
    BY <1>9, MoveFields DEF SessionUser, Presents
  <2>2. ~At(p, "increment") /\ UNCHANGED <<code, guesses, lost, sent>>
    BY <1>9 DEF SessionUser, At, history
  <2> QED
    BY <1>4, <2>1, <2>2
<1>10. CASE UNCHANGED <<code, guesses, lost, sent, req>>
  BY <1>10, QuietGuessesStep DEF QuietGuesses, Uncounted, At
<1> QED
  BY <1>1, <1>2, <1>3, <1>5, <1>6, <1>7, <1>8, <1>9, <1>10
     DEF Next, VerifyStep, vars, history, ExpireSession, Logout

-----------------------------------------------------------------------------
(* The theorems *)

\* At the start there are no codes, accounts, sessions or requests.
LEMMA InitIInv == Init => IInv
<1> SUFFICES ASSUME Init PROVE IInv
  OBVIOUS
<1>1. \A p \in Requests : req[p].at = "idle"
  BY RecordTypes DEF Init
<1>2. TypeOK
  <2>1. 0 \in 0..MaxCodes /\ 0 \in 0..MaxGuesses /\ 0 \in 0..MaxSessions
    BY BoundsNat
  <2>2. /\ req \in [Requests -> Request] /\ sessions \in [SessionIds -> Session] /\ code \in Row
        /\ guesses \in [CodeIds -> 0..MaxGuesses] /\ lost \in [CodeIds -> 0..MaxGuesses]
    BY <2>1, RecordTypes DEF Init
  <2> QED
    BY <2>1, <2>2 DEF Init, TypeOK
<1>3. OnlyNewest /\ NewestKept /\ RedeemedIsGone
  BY RecordTypes DEF Init, OnlyNewest, NewestKept, RedeemedIsGone
<1>4. Reads /\ ClearsExcused /\ Taken
  BY <1>1 DEF Init, Reads, ClearsExcused, Taken, Verifying, Signing
<1>5. Owned
  BY <1>1, RecordTypes DEF Init, Owned, At
<1>6. Guesses
  <2>1. \A c \in CodeIds : Cardinality(Uncounted(c)) = 0
    <3>1. \A c \in CodeIds : Uncounted(c) = {}
      BY <1>1 DEF Uncounted, At
    <3> QED
      BY <3>1, FS_EmptySet
  <2>2. Cardinality(Requests) \in Nat /\ Limit \in Nat \ {0} /\ code.attempts = 0
    BY RequestsFinite, FS_CardinalityType, LimitPositive DEF Init, Absent
  <2> QED
    BY <2>1, <2>2 DEF Init, Guesses
<1> QED
  BY <1>2, <1>3, <1>4, <1>5, <1>6 DEF IInv

\* Every step keeps the invariant.
LEMMA NextIInv == IInv /\ [Next]_vars => IInv'
  BY TypeStep, ReadsStep, ClearsExcusedStep, NewestStep, TakenStep, OwnedStep, GuessesStep DEF IInv

\* The invariant holds of every reachable state.
LEMMA Invariance == Spec => []IInv
  BY InitIInv, NextIInv, PTL DEF Spec

\* The limit on wrong guesses is exceeded by at most one guess per other request, and one
\* per increment that failed (VerifyCode; IncrementEmailVerificationAttempts).
THEOREM GuessesBounded == Spec => []GuessBound
<1>1. IInv => GuessBound
  BY DEF IInv, Guesses, GuessBound
<1> QED
  BY <1>1, Invariance, PTL

\* A code that has given a session is not in the table again (VerifyCode;
\* ClearEmailVerificationCode, SetEmailVerificationCode).
THEOREM RedeemedGone == Spec => []RedeemedIsGone
<1>1. IInv => RedeemedIsGone
  BY DEF IInv
<1> QED
  BY <1>1, Invariance, PTL

\* The newest code goes only by a match, its expiry, or a request that had read an older
\* one (VerifyCode; ClearEmailVerificationCode by address).
THEOREM NewestStays == Spec => []NewestKept
<1>1. IInv => NewestKept
  BY DEF IInv
<1> QED
  BY <1>1, Invariance, PTL

\* All sessions of the address belong to one account (UpsertUserByEmail, the unique
\* index).
THEOREM SingleAccount == Spec => []OneAccount
<1>1. IInv => OneAccount
  BY DEF IInv, Owned, OneAccount, Present
<1> QED
  BY <1>1, Invariance, PTL
=============================================================================
