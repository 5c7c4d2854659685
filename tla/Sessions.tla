------------------------------ MODULE Sessions ------------------------------
(***************************************************************************)
(* Who is signed in: the tables users and sessions, the handlers over      *)
(* them, and the one browser whose page asks.                              *)
(*                                                                         *)
(* A token names a row of sessions; the browser's jar holds at most one,   *)
(* out of the page's reach (HttpOnly): only an answer of the api sets or   *)
(* removes it, by name, whatever the jar holds when the answer arrives.    *)
(* A request carries the cookie the jar held when it was sent.             *)
(***************************************************************************)
EXTENDS Naturals

CONSTANTS
    Accounts,       \* usernames
    NoOne,          \* no user: a token that resolves to nobody
    MaxSessions,    \* bound: sessions started in a run
    Faults          \* what the environment may inject

ASSUME AccountsAssumption == Accounts \cap {"loading", "anon", "error"} = {}
ASSUME NoOneAssumption == NoOne \notin Accounts
ASSUME MaxSessionsAssumption == MaxSessions \in Nat \ {0}
ASSUME SessionFaultsAssumption == Faults \subseteq {"expiry", "loss", "postgres"}

VARIABLES
    users,          \* rows of the table users
    session,        \* token |-> the user of its unexpired row of sessions
    issued,         \* tokens drawn so far
    cookie,         \* the jar
    screen,         \* session.ts's Session; an account is 'authed' as it
    form,           \* the LoginPage's request
    logouts         \* of each token, the logout that carries it

sessionVars == <<users, session, issued, cookie, screen, form, logouts>>

Tokens == 1..MaxSessions
NoToken == 0

SessionsTypeOK ==
    /\ users \subseteq Accounts
    /\ session \in [Tokens -> Accounts \union {NoOne}]
    /\ issued \in 0..MaxSessions
    /\ cookie \in Tokens \union {NoToken}
    /\ screen \in Accounts \union {"loading", "anon", "error"}
    /\ form \in [at : {"idle", "register", "login", "start", "granted"},
                 user : Accounts \union {NoOne}]
    /\ logouts \in [Tokens -> {"none", "sent", "unheard", "answered"}]

NoRequest == [at |-> "idle", user |-> NoOne]

SessionsInit ==
    /\ users = {}
    /\ session = [k \in Tokens |-> NoOne]
    /\ issued = 0
    /\ cookie = NoToken
    /\ screen = "loading" /\ form = NoRequest
    /\ logouts = [k \in Tokens |-> "none"]

SignedIn == screen \in Accounts

\* AuthUser: the user a request that carries this token is served as.
Caller(token) == IF token = NoToken THEN NoOne ELSE session[token]

\* A statement that errors was applied or not.
Applied(ok) == {applied \in BOOLEAN : IF ok THEN applied ELSE "postgres" \in Faults}
-----------------------------------------------------------------------------
(***************************************************************************)
(* The api.                                                                *)
(***************************************************************************)
\* register, up to the user's row; a taken name is refused.
Register(ok) ==
    /\ form.at = "register"
    /\ \E applied \in Applied(ok) : users' = IF applied THEN users \union {form.user} ELSE users
    /\ form' = IF ok /\ form.user \notin users THEN [form EXCEPT !.at = "start"] ELSE NoRequest
    /\ UNCHANGED <<session, issued, cookie, screen, logouts>>

\* login, up to the verified password.
Verify(ok) ==
    /\ form.at = "login"
    /\ \E right \in BOOLEAN :
          form' = IF ok /\ right /\ form.user \in users
                  THEN [form EXCEPT !.at = "start"] ELSE NoRequest
    /\ ok \/ "postgres" \in Faults
    /\ UNCHANGED <<users, session, issued, cookie, screen, logouts>>

\* start_session, which ends both.
StartSession(ok) ==
    /\ form.at = "start"
    /\ issued' = issued + 1
    /\ \E applied \in Applied(ok) :
          session' = IF applied THEN [session EXCEPT ![issued'] = form.user] ELSE session
    /\ form' = IF ok THEN [form EXCEPT !.at = "granted"] ELSE NoRequest
    /\ UNCHANGED <<users, cookie, screen, logouts>>

\* logout: the row goes, or its error is only logged; either way 204.
Logout(k, ok) ==
    /\ logouts[k] \in {"sent", "unheard"}
    /\ \E applied \in Applied(ok) :
          session' = IF applied THEN [session EXCEPT ![k] = NoOne] ELSE session
    /\ logouts' = [logouts EXCEPT ![k] = IF @ = "sent" THEN "answered" ELSE "none"]
    /\ UNCHANGED <<users, issued, cookie, screen, form>>

Expire(k) ==
    /\ "expiry" \in Faults
    /\ session[k] # NoOne
    /\ session' = [session EXCEPT ![k] = NoOne]
    /\ UNCHANGED <<users, issued, cookie, screen, form, logouts>>
-----------------------------------------------------------------------------
(***************************************************************************)
(* The page.                                                               *)
(***************************************************************************)
\* useSession: GET /api/auth/me, once per load.
Resolve(ok) ==
    /\ screen = "loading"
    /\ ok \/ Faults \cap {"postgres", "loss"} # {}
    /\ screen' = IF ~ok THEN "error"
                 ELSE IF Caller(cookie) = NoOne THEN "anon" ELSE Caller(cookie)
    /\ UNCHANGED <<users, session, issued, cookie, form, logouts>>

\* handleSubmit; the button is disabled until the answer.
Submit(kind, u) ==
    /\ screen = "anon" /\ form.at = "idle"
    /\ issued < MaxSessions
    /\ form' = [at |-> kind, user |-> u]
    /\ UNCHANGED <<users, session, issued, cookie, screen, logouts>>

\* Slip: the form is cleared before its username is read.
SignInCleared ==
    /\ form.at = "granted"
    /\ form' = NoRequest
    /\ cookie' = issued
    /\ screen' = form'.user
    /\ UNCHANGED <<users, session, issued, logouts>>

\* Slip: the session a request already carries is kept.
SignInKeepingSession ==
    /\ form.at = "granted"
    /\ cookie' = IF Caller(cookie) = NoOne THEN issued ELSE cookie
    /\ screen' = form.user
    /\ form' = NoRequest
    /\ UNCHANGED <<users, session, issued, logouts>>

\* The answer sets the cookie, and the page believes it without asking.
SignIn ==
    /\ form.at = "granted"
    /\ cookie' = issued
    /\ screen' = form.user
    /\ form' = NoRequest
    /\ UNCHANGED <<users, session, issued, logouts>>

\* Log out: fire and forget.
SignOut ==
    /\ SignedIn
    /\ screen' = "anon"
    /\ logouts' = IF cookie = NoToken THEN logouts ELSE [logouts EXCEPT ![cookie] = "sent"]
    /\ UNCHANGED <<users, session, issued, cookie, form>>

\* Its answer takes whatever cookie the jar has by now.
ForgetCookie(k) ==
    /\ logouts[k] = "answered"
    /\ logouts' = [logouts EXCEPT ![k] = "none"]
    /\ cookie' = NoToken
    /\ UNCHANGED <<users, session, issued, screen, form>>

\* A request, or the answer to it, that never arrives.
Lose ==
    /\ "loss" \in Faults
    /\ \/ form # NoRequest /\ form' = NoRequest /\ UNCHANGED logouts
       \/ \E k \in Tokens :
             /\ logouts[k] \in {"sent", "answered"}
             /\ logouts' = [logouts EXCEPT ![k] = "none"]
             /\ UNCHANGED form
    /\ UNCHANGED <<users, session, issued, cookie, screen>>

\* A reload: requests under way may still reach the api, but nobody hears.
Reload ==
    /\ screen' = "loading"
    /\ form' = NoRequest
    /\ logouts' = [k \in Tokens |-> IF logouts[k] \in {"sent", "unheard"}
                                    THEN "unheard" ELSE "none"]
    /\ UNCHANGED <<users, session, issued, cookie>>

\* Steps that leave the page mounted, or not, as it was.
SessionStep ==
    \/ Register(TRUE)
    \/ Verify(TRUE)
    \/ StartSession(TRUE)
    \/ \E k \in Tokens : Logout(k, TRUE) \/ ForgetCookie(k)
    \/ \E kind \in {"register", "login"}, u \in Accounts : Submit(kind, u)

SessionFault ==
    \/ Register(FALSE)
    \/ Verify(FALSE)
    \/ StartSession(FALSE)
    \/ \E k \in Tokens : Logout(k, FALSE) \/ Expire(k)
    \/ Resolve(FALSE)
    \/ Lose
-----------------------------------------------------------------------------
(***************************************************************************)
(* Nobody acts as somebody else: what the signed-in page asks of the api   *)
(* is done for the account on its screen or, when the session behind it    *)
(* has gone, for nobody, however logouts, expiries and lost answers of     *)
(* this and of earlier sign-ins fall (App's optimistic log-out, and the    *)
(* one cookie name every answer writes to).                                *)
(***************************************************************************)
ServedAsShown == SignedIn => Caller(cookie) \in {screen, NoOne}
=============================================================================
