------------------------------ MODULE EmailCodes ------------------------------
(***************************************************************************)
(* Signing in with a one-time code sent by e-mail, for one e-mail address  *)
(* (controlplane/service/auth_service.go over store/users.go): requesting  *)
(* a code, verifying one, the account it creates, its sessions.            *)
(*                                                                         *)
(* A request makes one store call after another, each one SQL statement    *)
(* and one step; other requests run in between.  Clear and Increment name  *)
(* the row by its address only, so they act on the code that is there when *)
(* they run, which need not be the one the request has read, and their     *)
(* errors are ignored.                                                     *)
(***************************************************************************)
EXTENDS Integers, FiniteSets

CONSTANTS
    Requests,     \* requests under way at the same time
    Limit,        \* wrong guesses after which a code is refused (8)
    NoAccount,    \* no row of users
    Faults,       \* TRUE: Clear and Increment may fail
    MaxCodes,     \* bound: codes sent
    MaxGuesses,   \* bound: wrong guesses made against one code
    MaxSessions   \* bound: sessions issued

ASSUME RequestsFinite == IsFiniteSet(Requests)
ASSUME LimitPositive == Limit \in Nat \ {0}
ASSUME NoAccountDistinct == NoAccount \notin Requests
ASSUME FaultsBoolean == Faults \in BOOLEAN
ASSUME BoundsNat == MaxCodes \in Nat /\ MaxGuesses \in Nat /\ MaxSessions \in Nat

CodeIds == 1..MaxCodes
NoCode == 0
SessionIds == 1..MaxSessions
Accounts == Requests         \* a row of users is named after the request that inserted it

VARIABLES
    code,      \* the row of email_verification_codes: id NoCode when absent
    sent,      \* codes generated so far; the newest is number sent
    accounts,  \* rows of users with this address
    sessions,  \* sessions[s]: row of user_sessions
    issued,    \* sessions created so far
    req,       \* req[p]: where request p is and what it has read
    guesses,   \* history: guesses[c], wrong guesses compared with code c
    lost,      \* history: lost[c], increments of c that failed
    redeemed,  \* history: codes that gave a session and whose Clear was made
    excused    \* history: codes matched, seen expired, or hit by a request that had
               \* read an older code

vars == <<code, sent, accounts, sessions, issued, req, guesses, lost, redeemed, excused>>
history == <<guesses, lost, redeemed, excused>>

Row == [id : {NoCode} \cup CodeIds, attempts : Nat, expired : BOOLEAN]
Absent == [id |-> NoCode, attempts |-> 0, expired |-> FALSE]

Session == [account : Accounts \cup {NoAccount}, expired : BOOLEAN]
NoSession == [account |-> NoAccount, expired |-> FALSE]

\* at: the next store call.  read: the code GetEmailVerificationCode returned.
\* kept: its Clear has failed.  account: the account found or created.  session:
\* the session a call presents.
Steps == {"idle", "clearExpired", "increment", "clear", "find", "insert", "findAgain",
          "createSession", "deleteSession", "getUser"}
Request == [at : Steps, read : {NoCode} \cup CodeIds, kept : BOOLEAN,
            account : Accounts \cup {NoAccount}, session : {0} \cup SessionIds]
Idle == [at |-> "idle", read |-> NoCode, kept |-> FALSE, account |-> NoAccount, session |-> 0]

TypeOK ==
    /\ code \in Row
    /\ sent \in 0..MaxCodes
    /\ accounts \subseteq Accounts
    /\ sessions \in [SessionIds -> Session]
    /\ issued \in 0..MaxSessions
    /\ req \in [Requests -> Request]
    /\ guesses \in [CodeIds -> 0..MaxGuesses] /\ lost \in [CodeIds -> 0..MaxGuesses]
    /\ redeemed \subseteq CodeIds /\ excused \subseteq CodeIds

Init ==
    /\ code = Absent /\ sent = 0
    /\ accounts = {}
    /\ sessions = [s \in SessionIds |-> NoSession] /\ issued = 0
    /\ req = [p \in Requests |-> Idle]
    /\ guesses = [c \in CodeIds |-> 0] /\ lost = [c \in CodeIds |-> 0]
    /\ redeemed = {} /\ excused = {}

At(p, s) == req[p].at = s
Goto(p, s) == req' = [req EXCEPT ![p].at = s]
End(p) == req' = [req EXCEPT ![p] = Idle]

-----------------------------------------------------------------------------
(* Codes. *)

\* SetEmailVerificationCode: the row, whether there was one or not.
Fresh == [id |-> sent + 1, attempts |-> 0, expired |-> FALSE]

\* RequestCode: a new code replaces the stored one.  Mail may fail; the request
\* succeeds all the same.
RequestCode ==
    /\ sent < MaxCodes
    /\ sent' = sent + 1
    /\ code' = Fresh
    /\ UNCHANGED <<accounts, sessions, issued, req, history>>

\* Ten minutes pass.
ExpireCode ==
    /\ code.id # NoCode /\ ~code.expired
    /\ code' = [code EXCEPT !.expired = TRUE]
    /\ UNCHANGED <<sent, accounts, sessions, issued, req, history>>

\* Mutant: one attempt too many.
MayTryOnceMore == code.id # NoCode /\ code.attempts =< Limit

\* VerifyCode up to its first change: the row is read, then checked.  A missing row
\* and one with too many attempts end the request with nothing changed.
MayTry == code.id # NoCode /\ code.attempts < Limit

BeginVerify(p, s) ==
    /\ At(p, "idle") /\ MayTry
    /\ req' = [req EXCEPT ![p] = [Idle EXCEPT !.at = s, !.read = code.id]]

VerifyExpired(p) ==
    /\ code.expired
    /\ BeginVerify(p, "clearExpired")
    /\ excused' = excused \cup {code.id}
    /\ UNCHANGED <<code, sent, accounts, sessions, issued, guesses, lost, redeemed>>

VerifyWrong(p) ==
    /\ ~code.expired
    /\ BeginVerify(p, "increment")
    /\ guesses[code.id] < MaxGuesses
    /\ guesses' = [guesses EXCEPT ![code.id] = @ + 1]
    /\ UNCHANGED <<code, sent, accounts, sessions, issued, lost, redeemed, excused>>

VerifyRight(p) ==
    /\ ~code.expired
    /\ BeginVerify(p, "clear")
    /\ excused' = excused \cup {code.id}
    /\ UNCHANGED <<code, sent, accounts, sessions, issued, guesses, lost, redeemed>>

\* The row a Clear or Increment of request p meets is not the one it has read.
Stray(p) == code.id # req[p].read
Excuse(p) == excused' = IF Stray(p) THEN excused \cup ({code.id} \ {NoCode}) ELSE excused

\* Mutant: the last wrong guess allowed removes the code.
CountedOrGone == IF code.attempts + 1 < Limit THEN [code EXCEPT !.attempts = @ + 1] ELSE Absent

\* IncrementEmailVerificationAttempts, by address: the row it leaves.
Counted == IF code.id = NoCode THEN code ELSE [code EXCEPT !.attempts = @ + 1]

IncrementAttempts(p) ==
    /\ At(p, "increment")
    /\ code' = Counted
    /\ Excuse(p) /\ End(p)
    /\ UNCHANGED <<sent, accounts, sessions, issued, guesses, lost, redeemed>>

IncrementLost(p) ==
    /\ Faults /\ At(p, "increment")
    /\ lost' = [lost EXCEPT ![req[p].read] = @ + 1]
    /\ End(p)
    /\ UNCHANGED <<code, sent, accounts, sessions, issued, guesses, redeemed, excused>>

\* Mutant: only the attempts are cleared.
ClearedAttempts(p) == [code EXCEPT !.attempts = 0]

\* ClearEmailVerificationCode, by address: what is left of the row.
Cleared(p) == Absent

ClearExpired(p) ==
    /\ At(p, "clearExpired")
    /\ code' = Cleared(p)
    /\ Excuse(p) /\ End(p)
    /\ UNCHANGED <<sent, accounts, sessions, issued, guesses, lost, redeemed>>

Clear(p) ==
    /\ At(p, "clear")
    /\ code' = Cleared(p)
    /\ Excuse(p) /\ Goto(p, "find")
    /\ UNCHANGED <<sent, accounts, sessions, issued, guesses, lost, redeemed>>

ClearLost(p) ==
    /\ Faults
    /\ \/ At(p, "clearExpired") /\ End(p)
       \/ At(p, "clear") /\ req' = [req EXCEPT ![p].at = "find", ![p].kept = TRUE]
    /\ UNCHANGED <<code, sent, accounts, sessions, issued, history>>

-----------------------------------------------------------------------------
(* The account: UpsertUserByEmail, and the session. *)

\* Mutant: no unique index.
InsertAllowedAlways == TRUE

\* The unique index on LOWER(email).
InsertAllowed == accounts = {}

\* UpsertUserByEmail finds the account (and updates its display name, which is no part
\* of the model).
Find(p) ==
    /\ At(p, "find")
    /\ \/ accounts = {} /\ Goto(p, "insert")
       \/ \E a \in accounts :
             req' = [req EXCEPT ![p].at = "createSession", ![p].account = a]
    /\ UNCHANGED <<code, sent, accounts, sessions, issued, history>>

\* An INSERT that fails, whatever the reason, is followed by another look-up.
Insert(p) ==
    /\ At(p, "insert")
    /\ \/ /\ InsertAllowed
          /\ accounts' = accounts \cup {p}
          /\ req' = [req EXCEPT ![p].at = "createSession", ![p].account = p]
       \/ /\ ~InsertAllowed \/ Faults
          /\ Goto(p, "findAgain")
          /\ UNCHANGED accounts
    /\ UNCHANGED <<code, sent, sessions, issued, history>>

FindAgain(p) ==
    /\ At(p, "findAgain")
    /\ \/ accounts = {} /\ End(p)
       \/ \E a \in accounts :
             req' = [req EXCEPT ![p].at = "createSession", ![p].account = a]
    /\ UNCHANGED <<code, sent, accounts, sessions, issued, history>>

CreateSession(p) ==
    /\ At(p, "createSession") /\ issued < MaxSessions
    /\ issued' = issued + 1
    /\ sessions' = [sessions EXCEPT ![issued + 1] =
                       [account |-> req[p].account, expired |-> FALSE]]
    /\ redeemed' = IF req[p].kept THEN redeemed ELSE redeemed \cup {req[p].read}
    /\ End(p)
    /\ UNCHANGED <<code, sent, accounts, guesses, lost, excused>>

-----------------------------------------------------------------------------
(* Sessions. *)

\* GetSessionByTokenHash finds a row; DeleteSession and DeleteSessionByTokenHash.
Present(s) == sessions[s].account # NoAccount
Without(s) == [sessions EXCEPT ![s] = NoSession]

ExpireSession(s) ==
    /\ Present(s) /\ ~sessions[s].expired
    /\ sessions' = [sessions EXCEPT ![s].expired = TRUE]
    /\ UNCHANGED <<code, sent, accounts, issued, req, history>>

\* SessionUser, behind every call of the dashboard: an expired session is deleted,
\* with a live one the user is read next.  A missing one ends the call.
SessionUser(p, s) ==
    /\ At(p, "idle") /\ Present(s)
    /\ req' = [req EXCEPT ![p] = [Idle EXCEPT !.session = s, !.account = sessions[s].account,
                  !.at = IF sessions[s].expired THEN "deleteSession" ELSE "getUser"]]
    /\ UNCHANGED <<code, sent, accounts, sessions, issued, history>>

DeleteSession(p) ==
    /\ At(p, "deleteSession")
    /\ sessions' \in {Without(req[p].session)} \cup (IF Faults THEN {sessions} ELSE {})
    /\ End(p)
    /\ UNCHANGED <<code, sent, accounts, issued, history>>

GetUserByID(p) ==
    /\ At(p, "getUser") /\ req[p].account \in accounts
    /\ End(p)
    /\ UNCHANGED <<code, sent, accounts, sessions, issued, history>>

Logout(s) ==
    /\ Present(s)
    /\ sessions' = Without(s)
    /\ UNCHANGED <<code, sent, accounts, issued, req, history>>

\* A store call whose error is not ignored fails: the request ends.
Fail(p) ==
    /\ req[p].at \in {"find", "findAgain", "createSession", "getUser"}
    /\ End(p)
    /\ UNCHANGED <<code, sent, accounts, sessions, issued, history>>

VerifyStep(p) ==
    \/ VerifyExpired(p) \/ VerifyWrong(p) \/ VerifyRight(p)
    \/ IncrementAttempts(p) \/ IncrementLost(p)
    \/ ClearExpired(p) \/ Clear(p) \/ ClearLost(p)
    \/ Find(p) \/ Insert(p) \/ FindAgain(p) \/ CreateSession(p)

Next ==
    \/ RequestCode \/ ExpireCode
    \/ \E p \in Requests : VerifyStep(p) \/ DeleteSession(p) \/ GetUserByID(p) \/ Fail(p)
    \/ \E p \in Requests, s \in SessionIds : SessionUser(p, s)
    \/ \E s \in SessionIds : ExpireSession(s) \/ Logout(s)

Spec == Init /\ [][Next]_vars

-----------------------------------------------------------------------------
(* Properties. *)

\* Whatever the overlap of requests, the limit on wrong guesses is exceeded by at
\* most one guess per other request under way, and one per increment that failed:
\* VerifyCode reads the attempts before it compares and counts after.
GuessBound ==
    /\ TypeOK
    /\ \A c \in CodeIds : guesses[c] =< Limit + Cardinality(Requests) - 1 + lost[c]

\* A code that has given a session is not in the table again: every session for it
\* went to a request that had read it before (VerifyCode clears before it goes on).
RedeemedIsGone == code.id \notin redeemed

\* The newest code disappears only when somebody matched it or met it expired, or
\* through a request that had read an older one: a wrong guess does not remove it.
NewestKept == sent > 0 /\ code.id = NoCode => sent \in excused

\* All sessions of the address belong to one account, however many requests found no
\* account and went on to insert one.
OneAccount ==
    \A s, t \in SessionIds :
        Present(s) /\ Present(t) => sessions[s].account = sessions[t].account
=============================================================================
