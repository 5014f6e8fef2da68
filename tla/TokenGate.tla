----------------------------- MODULE TokenGate -----------------------------
(***************************************************************************)
(* What Authenticate promises, whatever it caches: a call answers with the *)
(* connection its token opened at one moment between the call's beginning  *)
(* and its end, or denies if the token opened none.  A call that begins    *)
(* after a token was revoked, and ends before it is valid again, is        *)
(* denied; one during which the token stays valid is not.  A call may also *)
(* end in an error.                                                        *)
(***************************************************************************)
CONSTANTS
    Tokens,   \* proxy credentials
    Conns,    \* source connections
    NoToken,  \* not calling
    NoConn,   \* the token is not valid: denied
    Auths     \* callers of Authenticate

VARIABLES
    opens,    \* opens[k]: the connection that token k opens now
    call      \* call[a]: a's token, what the call may have seen of it, its answers

vars == <<opens, call>>

Answers == Conns \cup {NoConn}
NoCall == [tok |-> NoToken, saw |-> {}, answer |-> {}]

Init ==
    /\ opens \in [Tokens -> Answers]
    /\ call = [a \in Auths |-> NoCall]

\* A caller begins.
Begin(a, k) ==
    /\ call[a].tok = NoToken
    /\ call' = [call EXCEPT ![a] = [tok |-> k, saw |-> {opens[k]}, answer |-> {}]]
    /\ UNCHANGED opens

\* Tokens are issued, revoked, deleted; calls under way may see it.
Change ==
    /\ opens' \in [Tokens -> Answers]
    /\ call' = [a \in Auths |->
                   IF call[a].tok \in Tokens
                   THEN [call[a] EXCEPT !.saw = @ \cup {opens'[call[a].tok]}]
                   ELSE call[a]]

\* The answer is something the call may have seen...
Answer(a) ==
    /\ call[a].tok \in Tokens
    /\ \E c \in call[a].saw : call' = [call EXCEPT ![a] = [NoCall EXCEPT !.answer = {c}]]
    /\ UNCHANGED opens

\* ...or an error.
Fail(a) ==
    /\ call[a].tok \in Tokens
    /\ call' = [call EXCEPT ![a] = NoCall]
    /\ UNCHANGED opens

Next ==
    \/ \E a \in Auths, k \in Tokens : Begin(a, k)
    \/ \E a \in Auths : Answer(a) \/ Fail(a)
    \/ Change

Spec == Init /\ [][Next]_vars
=============================================================================
