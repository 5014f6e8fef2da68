------------------------------- MODULE Passwords -------------------------------
(***************************************************************************)
(* The password of one account and the links that reset it                 *)
(* (controlplane/service/auth_service.go over store/users.go): signing in  *)
(* with it, setting, changing and resetting it.  The account exists (it    *)
(* was created by a one-time code) and password sign-in is switched on.    *)
(*                                                                         *)
(* A request makes one store call after another, each one SQL statement or *)
(* transaction and one step; a check and the change it allows are separate *)
(* steps.  Requests that validatePassword refuses change nothing and are   *)
(* left out.                                                               *)
(***************************************************************************)
EXTENDS Integers, FiniteSets

CONSTANTS
    Requests,     \* requests under way at the same time
    Words,        \* passwords that pass validatePassword, without outer blanks
    TooLong,      \* those of them longer than the 72 bytes bcrypt takes
    NoPassword,   \* password_hash is NULL
    MaxResets,    \* bound: reset links sent
    MaxSessions   \* bound: sessions issued

ASSUME RequestsFinite == IsFiniteSet(Requests)
ASSUME TooLongType == TooLong \subseteq Words
ASSUME BoundsNat == MaxResets \in Nat /\ MaxSessions \in Nat

\* A password as typed, perhaps with blanks around it.
Typed == [word : Words, padded : BOOLEAN]
ASSUME NoPasswordDistinct == NoPassword \notin Typed

ResetIds == 1..MaxResets
NoToken == 0

VARIABLES
    stored,     \* the password whose hash is in the row of users
    resets,     \* resets[t]: row of password_reset_tokens
    linked,     \* links sent so far
    sessions,   \* sessions issued
    req,        \* req[p]: where request p is and what it carries
    overtaken,  \* history: requests whose check is older than the stored password
    unproved,   \* history: a password was replaced by a request that showed neither
                \* that password nor a reset token, and was not overtaken
    changes,    \* history: changes[t], passwords stored with token t
    wasted      \* history: tokens whose request failed after using them

vars == <<stored, resets, linked, sessions, req, overtaken, unproved, changes, wasted>>
history == <<overtaken, unproved, changes, wasted>>

ResetStates == {"none", "fresh", "expired", "used"}

\* at: the next store call.  given: the password to log in with, or the current one.
\* new: the password to store.  token: the reset token used.  shown: the password the
\* request has shown it knows (NoPassword: it found none).
Steps == {"idle", "loginHash", "createSession", "check", "checkCurrent", "store",
          "forgotHash", "createReset", "consume"}
MaybePassword == Typed \cup {NoPassword}
Request == [at : Steps, given : MaybePassword, new : MaybePassword,
            token : {NoToken} \cup ResetIds, shown : MaybePassword]
Idle == [at |-> "idle", given |-> NoPassword, new |-> NoPassword, token |-> NoToken,
         shown |-> NoPassword]

TypeOK ==
    /\ stored \in MaybePassword
    /\ resets \in [ResetIds -> ResetStates]
    /\ linked \in 0..MaxResets /\ sessions \in 0..MaxSessions
    /\ req \in [Requests -> Request]
    /\ overtaken \subseteq Requests /\ unproved \in BOOLEAN
    /\ changes \in [ResetIds -> Nat] /\ wasted \subseteq ResetIds

Init ==
    /\ stored = NoPassword
    /\ resets = [t \in ResetIds |-> "none"] /\ linked = 0 /\ sessions = 0
    /\ req = [p \in Requests |-> Idle]
    /\ overtaken = {} /\ unproved = FALSE
    /\ changes = [t \in ResetIds |-> 0] /\ wasted = {}

At(p, s) == req[p].at = s

Trim(pw) == [pw EXCEPT !.padded = FALSE]

\* bcrypt.GenerateFromPassword refuses more than 72 bytes (the white space around a
\* password is not counted here); CompareHashAndPassword of the stored hash with a typed
\* password.
CanHash(pw) == pw.word \notin TooLong
Matches(pw) == stored = pw

Begin(p, r) ==
    /\ At(p, "idle")
    /\ req' = [req EXCEPT ![p] = r]
    /\ UNCHANGED history

Goto(p, s) == req' = [req EXCEPT ![p].at = s] /\ UNCHANGED history

\* The request is over; nothing is remembered of it.
End(p) ==
    /\ req' = [req EXCEPT ![p] = Idle]
    /\ overtaken' = overtaken \ {p}

-----------------------------------------------------------------------------
(* LoginWithPassword: the typed password is trimmed.  GetUserByEmail always    *)
(* finds the account.                                                          *)

Login(p, pw) ==
    /\ Begin(p, [Idle EXCEPT !.at = "loginHash", !.given = Trim(pw)])
    /\ UNCHANGED <<stored, resets, linked, sessions>>

LoginHash(p) ==
    /\ At(p, "loginHash")
    /\ \/ Matches(req[p].given) /\ Goto(p, "createSession")
       \/ ~Matches(req[p].given) /\ End(p) /\ UNCHANGED <<unproved, changes, wasted>>
    /\ UNCHANGED <<stored, resets, linked, sessions>>

CreateSession(p) ==
    /\ At(p, "createSession") /\ sessions < MaxSessions
    /\ sessions' = sessions + 1
    /\ End(p)
    /\ UNCHANGED <<stored, resets, linked, unproved, changes, wasted>>

-----------------------------------------------------------------------------
(* SetPassword, which goes on to UpdatePassword when there is a password.      *)

SetPassword(p, current, new) ==
    /\ Begin(p, [Idle EXCEPT !.at = "check", !.given = current, !.new = new])
    /\ UNCHANGED <<stored, resets, linked, sessions>>

\* Mutant: a password that is already there is not asked for.
CheckNothing(p) ==
    /\ At(p, "check")
    /\ CanHash(req[p].new) /\ Goto(p, "store")
    /\ UNCHANGED <<stored, resets, linked, sessions>>

\* GetUserPasswordHash in SetPassword.  The first password needs no other; it is
\* hashed before it is stored.
Check(p) ==
    /\ At(p, "check")
    /\ \/ stored # NoPassword /\ Goto(p, "checkCurrent")
       \/ stored = NoPassword /\ CanHash(req[p].new) /\ Goto(p, "store")
       \/ /\ stored = NoPassword /\ ~CanHash(req[p].new)
          /\ End(p) /\ UNCHANGED <<unproved, changes, wasted>>
    /\ UNCHANGED <<stored, resets, linked, sessions>>

\* GetUserPasswordHash in UpdatePassword: the current password is compared as typed.
CheckCurrent(p) ==
    /\ At(p, "checkCurrent")
    /\ \/ /\ Matches(req[p].given) /\ CanHash(req[p].new)
          /\ req' = [req EXCEPT ![p].at = "store", ![p].shown = req[p].given]
          /\ UNCHANGED history
       \/ /\ ~Matches(req[p].given) \/ ~CanHash(req[p].new)
          /\ End(p) /\ UNCHANGED <<unproved, changes, wasted>>
    /\ UNCHANGED <<stored, resets, linked, sessions>>

\* SetUserPasswordHash, the last call of SetPassword, UpdatePassword and ResetPassword
\* (the user it reads for its answer aside).  It does not look at what it replaces.
Store(p) ==
    /\ At(p, "store")
    /\ stored' = req[p].new
    /\ req' = [req EXCEPT ![p] = Idle]
    /\ overtaken' = (overtaken \cup {q \in Requests : At(q, "store")}) \ {p}
    /\ unproved' = \/ unproved
                   \/ /\ req[p].token = NoToken /\ req[p].shown # stored
                      /\ p \notin overtaken
    /\ changes' = IF req[p].token = NoToken THEN changes
                  ELSE [changes EXCEPT ![req[p].token] = @ + 1]
    /\ UNCHANGED <<resets, linked, sessions, wasted>>

-----------------------------------------------------------------------------
(* RequestPasswordReset and ResetPassword. *)

ForgotPassword(p) ==
    /\ Begin(p, [Idle EXCEPT !.at = "forgotHash"])
    /\ UNCHANGED <<stored, resets, linked, sessions>>

\* No link is sent for an account without a password.
ForgotHash(p) ==
    /\ At(p, "forgotHash")
    /\ \/ stored # NoPassword /\ Goto(p, "createReset")
       \/ stored = NoPassword /\ End(p) /\ UNCHANGED <<unproved, changes, wasted>>
    /\ UNCHANGED <<stored, resets, linked, sessions>>

CreateReset(p) ==
    /\ At(p, "createReset") /\ linked < MaxResets
    /\ linked' = linked + 1
    /\ resets' = [resets EXCEPT ![linked + 1] = "fresh"]
    /\ End(p)
    /\ UNCHANGED <<stored, sessions, unproved, changes, wasted>>

\* Sixty minutes pass.
ExpireReset(t) ==
    /\ resets[t] = "fresh"
    /\ resets' = [resets EXCEPT ![t] = "expired"]
    /\ UNCHANGED <<stored, linked, sessions, req, history>>

ResetPassword(p, t, new) ==
    /\ Begin(p, [Idle EXCEPT !.at = "consume", !.token = t, !.new = new])
    /\ resets[t] # "none"
    /\ UNCHANGED <<stored, resets, linked, sessions>>

\* Mutant: used_at is not looked at.
UsableUsed(t) == resets[t] # "expired"

\* ConsumePasswordResetToken: the row is locked, checked and marked in a transaction.
Usable(t) == resets[t] = "fresh"

\* The token is used before the new password is hashed.
Consume(p) ==
    LET t == req[p].token
        ok == CanHash(req[p].new)
    IN  /\ At(p, "consume")
        /\ \/ /\ Usable(t) /\ ok
              /\ resets' = [resets EXCEPT ![t] = "used"]
              /\ Goto(p, "store")
           \/ /\ Usable(t) /\ ~ok
              /\ resets' = [resets EXCEPT ![t] = "used"]
              /\ wasted' = wasted \cup {t}
              /\ End(p) /\ UNCHANGED <<unproved, changes>>
           \/ /\ ~Usable(t)
              /\ End(p) /\ UNCHANGED <<resets, unproved, changes, wasted>>
        /\ UNCHANGED <<stored, linked, sessions>>

\* A store call fails: the request ends with what it has done.
Fail(p) ==
    /\ ~At(p, "idle")
    /\ wasted' = IF At(p, "store") /\ req[p].token # NoToken
                 THEN wasted \cup {req[p].token} ELSE wasted
    /\ End(p)
    /\ UNCHANGED <<stored, resets, linked, sessions, unproved, changes>>

\* The four calls of the API, each a request of several steps.
LoginRequest(p) ==
    \/ \E pw \in Typed : Login(p, pw)
    \/ LoginHash(p) \/ CreateSession(p)

SetRequest(p) ==
    \/ \E current \in MaybePassword, new \in Typed : SetPassword(p, current, new)
    \/ Check(p) \/ CheckCurrent(p)

ForgotRequest(p) == ForgotPassword(p) \/ ForgotHash(p) \/ CreateReset(p)

ResetRequest(p) ==
    \/ \E t \in ResetIds, new \in Typed : ResetPassword(p, t, new)
    \/ Consume(p)

Next ==
    \/ \E p \in Requests :
          \/ LoginRequest(p) \/ SetRequest(p) \/ ForgotRequest(p) \/ ResetRequest(p)
          \/ Store(p) \/ Fail(p)
    \/ \E t \in ResetIds : ExpireReset(t)

Spec == Init /\ [][Next]_vars

-----------------------------------------------------------------------------
(* Properties. *)

\* Requests that have used token t and not stored their password yet.
Holders(t) == {p \in Requests : At(p, "store") /\ req[p].token = t}

\* A reset link changes the password exactly once, however many requests present it at
\* once: a used token has made its change, is held by the one request about to make
\* it, or was lost with its request; any other token has changed nothing.
TokenExactlyOnce ==
    /\ TypeOK
    /\ \A t \in ResetIds :
          Cardinality(Holders(t)) + changes[t] + (IF t \in wasted THEN 1 ELSE 0)
              = IF resets[t] = "used" THEN 1 ELSE 0

\* A password is replaced without a reset token only by a request that has shown it,
\* or one that made its check before that password was stored (two first passwords
\* set at once, a change that a reset overtakes).
NeedsProof == ~unproved
=============================================================================
