------------------------------ MODULE PageProofs ------------------------------
(***************************************************************************)
(* Nobody is served as, or shown what belongs to, somebody else, for any   *)
(* accounts, files and pools and whatever requests are lost.               *)
(***************************************************************************)
EXTENDS Page, TLAPS

(***************************************************************************)
(* Sessions.  A token that an answer is about to bring belongs to whom the *)
(* form says, and no token is handed out twice.                            *)
(***************************************************************************)
Forms == [at : {"idle", "register", "login", "start", "granted"}, user : Accounts \union {NoOne}]

TokensApart ==
    /\ issued \in 0..MaxSessions /\ cookie \in 0..issued
    /\ session \in [Tokens -> Accounts \union {NoOne}]
    /\ form \in Forms
    /\ form.at \in {"register", "login", "start"} => issued < MaxSessions
    /\ form.at = "granted" => issued \in Tokens /\ session[issued] \in {form.user, NoOne}

SessionInv == TokensApart /\ ServedAsShown

\* Every step, by what it is to the session.
SessionSteps ==
    SessionStep \/ SessionFault \/ Resolve(TRUE) \/ SignIn \/ SignOut \/ Reload

LEMMA PageSession ==
    ASSUME [Next]_vars
    PROVE  SessionSteps \/ UNCHANGED sessionVars
BY DEF Next, Calm, Fault, SessionSteps, LoadPage, EnterPage, LeavePage, ReloadPage, Choose,
       Upload, Send, Store, Refuse, Settle, Delete, DeleteAnswered, LoseDelete, Play, ShowList, LoseUpload,
       LoseList, vars

LEMMA SessionInit == SessionsInit => SessionInv
<1> SUFFICES ASSUME SessionsInit PROVE SessionInv
  OBVIOUS
<1>1. TokensApart
  BY MaxSessionsAssumption DEF SessionsInit, TokensApart, Forms, NoRequest, NoToken
<1>2. ~SignedIn
  BY AccountsAssumption DEF SessionsInit, SignedIn
<1> QED  BY <1>1, <1>2 DEF SessionInv, ServedAsShown

LEMMA NoRequestForm == NoRequest \in Forms /\ NoRequest.at = "idle"
BY DEF NoRequest, Forms

\* What the session of the jar's token can become while it stays in the jar.
LEMMA CallerStays ==
    ASSUME SessionInv, screen' = screen, cookie' = cookie,
           cookie # NoToken => session'[cookie] \in {session[cookie], NoOne}
    PROVE  ServedAsShown'
BY DEF SessionInv, ServedAsShown, SignedIn, Caller

LEMMA SessionNext ==
    ASSUME SessionInv, SessionSteps
    PROVE  SessionInv'
<1> USE DEF SessionInv
<1>1. ASSUME NEW ok \in BOOLEAN, Register(ok) PROVE SessionInv'
  <2>1. /\ UNCHANGED <<session, issued, cookie, screen>>
        /\ form.at = "register" /\ form' \in {[form EXCEPT !.at = "start"], NoRequest}
    BY <1>1 DEF Register
  <2>2. TokensApart'
    BY <2>1, NoRequestForm DEF TokensApart, Forms
  <2> QED  BY <2>1, <2>2, CallerStays
<1>2. ASSUME NEW ok \in BOOLEAN, Verify(ok) PROVE SessionInv'
  <2>1. /\ UNCHANGED <<session, issued, cookie, screen>>
        /\ form.at = "login" /\ form' \in {[form EXCEPT !.at = "start"], NoRequest}
    BY <1>2 DEF Verify
  <2>2. TokensApart'
    BY <2>1, NoRequestForm DEF TokensApart, Forms
  <2> QED  BY <2>1, <2>2, CallerStays
<1>3. ASSUME NEW ok \in BOOLEAN, StartSession(ok) PROVE SessionInv'
  <2>1. /\ form.at = "start" /\ issued' = issued + 1 /\ UNCHANGED <<cookie, screen>>
        /\ form' = IF ok THEN [form EXCEPT !.at = "granted"] ELSE NoRequest
    BY <1>3 DEF StartSession
  <2>2. PICK applied \in Applied(ok) :
           session' = IF applied THEN [session EXCEPT ![issued'] = form.user] ELSE session
    BY <1>3 DEF StartSession
  <2>3. issued' \in Tokens /\ cookie < issued' /\ cookie \in Nat
    BY <2>1, MaxSessionsAssumption DEF TokensApart, Tokens
  <2>4. session' \in [Tokens -> Accounts \union {NoOne}]
    BY <2>2 DEF TokensApart, Forms
  <2>5. ok => session'[issued'] = form.user
    BY <2>2, <2>3 DEF Applied, TokensApart
  <2>6. TokensApart'
    BY <2>1, <2>3, <2>4, <2>5, NoRequestForm, MaxSessionsAssumption DEF TokensApart, Forms, Tokens
  <2>7. cookie # NoToken => session'[cookie] = session[cookie]
    BY <2>2, <2>3 DEF TokensApart, Tokens, NoToken
  <2> QED  BY <2>1, <2>6, <2>7, CallerStays
<1>4. ASSUME NEW k \in Tokens, NEW gone \in BOOLEAN, UNCHANGED <<issued, cookie, screen, form>>,
             session' = IF gone THEN [session EXCEPT ![k] = NoOne] ELSE session
      PROVE  SessionInv'
  <2>1. TokensApart'
    BY <1>4 DEF TokensApart
  <2>2. cookie # NoToken => session'[cookie] \in {session[cookie], NoOne}
    BY <1>4 DEF TokensApart, Tokens, NoToken
  <2> QED  BY <1>4, <2>1, <2>2, CallerStays
<1>5. ASSUME NEW k \in Tokens, NEW ok \in BOOLEAN, Logout(k, ok) PROVE SessionInv'
  <2>1. PICK applied \in Applied(ok) :
           session' = IF applied THEN [session EXCEPT ![k] = NoOne] ELSE session
    BY <1>5 DEF Logout
  <2>2. applied \in BOOLEAN /\ UNCHANGED <<issued, cookie, screen, form>>
    BY <1>5 DEF Applied, Logout
  <2> QED  BY <1>4, <2>1, <2>2
<1>6. ASSUME NEW k \in Tokens, Expire(k) PROVE SessionInv'
  BY <1>4, <1>6 DEF Expire
<1>7. ASSUME NEW kind \in {"register", "login"}, NEW u \in Accounts, Submit(kind, u)
      PROVE  SessionInv'
  <2>1. /\ issued < MaxSessions /\ form' = [at |-> kind, user |-> u]
        /\ UNCHANGED <<session, issued, cookie, screen>>
    BY <1>7 DEF Submit
  <2>2. TokensApart'
    BY <2>1 DEF TokensApart, Forms
  <2> QED  BY <2>1, <2>2, CallerStays
<1>8. ASSUME NEW k \in Tokens, ForgetCookie(k) PROVE SessionInv'
  <2>1. cookie' = NoToken /\ UNCHANGED <<session, issued, screen, form>>
    BY <1>8 DEF ForgetCookie
  <2>2. TokensApart'
    BY <2>1 DEF TokensApart, NoToken
  <2> QED  BY <2>1, <2>2 DEF ServedAsShown, Caller
<1>9. CASE Lose
  <2>1. /\ UNCHANGED <<session, issued, cookie, screen>> /\ form' \in {form, NoRequest}
    BY <1>9 DEF Lose
  <2>2. TokensApart'
    BY <2>1, NoRequestForm DEF TokensApart
  <2> QED  BY <2>1, <2>2, CallerStays
<1>10. ASSUME NEW ok \in BOOLEAN, Resolve(ok) PROVE SessionInv'
  <2>1. /\ UNCHANGED <<session, issued, cookie, form>>
        /\ screen' \in {"error", "anon", Caller(cookie)}
    BY <1>10 DEF Resolve
  <2>2. TokensApart'
    BY <2>1 DEF TokensApart
  <2> QED  BY <2>1, <2>2, AccountsAssumption DEF ServedAsShown, SignedIn, Caller
<1>11. CASE SignIn
  <2>1. /\ form.at = "granted" /\ cookie' = issued /\ screen' = form.user /\ form' = NoRequest
        /\ UNCHANGED <<session, issued>>
    BY <1>11 DEF SignIn
  <2>2. TokensApart'
    BY <2>1, NoRequestForm DEF TokensApart
  <2>3. Caller(cookie)' \in {form.user, NoOne}
    BY <2>1 DEF TokensApart, Caller
  <2> QED  BY <2>1, <2>2, <2>3 DEF ServedAsShown
<1>12. CASE SignOut
  <2>1. screen' = "anon" /\ UNCHANGED <<session, issued, cookie, form>>
    BY <1>12 DEF SignOut
  <2>2. TokensApart'
    BY <2>1 DEF TokensApart
  <2> QED  BY <2>1, <2>2, AccountsAssumption DEF ServedAsShown, SignedIn
<1>13. CASE Reload
  <2>1. screen' = "loading" /\ form' = NoRequest /\ UNCHANGED <<session, issued, cookie>>
    BY <1>13 DEF Reload
  <2>2. TokensApart'
    BY <2>1, NoRequestForm DEF TokensApart
  <2> QED  BY <2>1, <2>2, AccountsAssumption DEF ServedAsShown, SignedIn
<1> QED
  BY <1>1, <1>2, <1>3, <1>5, <1>6, <1>7, <1>8, <1>9, <1>10, <1>11, <1>12, <1>13
     DEF SessionSteps, SessionStep, SessionFault

LEMMA SessionKept == SessionInv /\ [Next]_vars => SessionInv'
<1>1. SessionInv /\ UNCHANGED sessionVars => SessionInv'
  BY DEF sessionVars, SessionInv, TokensApart, ServedAsShown, SignedIn, Caller
<1> QED  BY <1>1, PageSession, SessionNext

(***************************************************************************)
(* What a signed-in page asks for is done for the account on its screen,   *)
(* or for nobody.                                                          *)
(***************************************************************************)
THEOREM ServedRight == Spec => []ServedAsShown
<1>1. Init => SessionInv
  BY SessionInit DEF Init
<1>2. SessionInv => ServedAsShown
  BY DEF SessionInv
<1> QED  BY <1>1, <1>2, SessionKept, PTL DEF Spec
-----------------------------------------------------------------------------
(***************************************************************************)
(* The page.  Whatever it holds or is about to be told belongs to the      *)
(* account on its screen; a row that has not been sent belongs to nobody.  *)
(***************************************************************************)
Statuses == {"none", "uploading", "uploaded", "gone"}

RowTypes ==
    /\ file \in [Files -> [owner : Accounts \union {NoOne}, status : Statuses]]
    /\ send \in [Files -> [at : {"unchosen", "queued", "over"} \union InFlight, call : Nat]]
    /\ \E X : fetch \in [1..Fetches -> X]

Unsent == \A f \in Files : send[f].at \in {"unchosen", "queued"} => file[f].owner = NoOne

\* A list of files of one account, or of none.
Own(list) == \A f \in Files : list[f] # "absent" => file[f].owner = screen

\* What a page starts from.
Bare == rows = {} /\ listed = EmptyList /\ deletes = {} /\ playing = NoFile

Holdings ==
    IF SignedIn
    THEN /\ Own(listed)
         /\ \A i \in 1..Fetches : fetch[i] # NoAnswer => Own(fetch[i])
         /\ playing \in Files => file[playing].owner = screen
    ELSE /\ Bare
         /\ \A i \in 1..Fetches : fetch[i] = NoAnswer

\* A request of the form names an account.
FormNamed == form.at # "idle" => form.user \in Accounts

OwnInv == SessionInv /\ FormNamed /\ RowTypes /\ Unsent /\ Holdings

LEMMA EmptyOwn == \A f \in Files : EmptyList[f] = "absent"
BY DEF EmptyList

\* What the api reads for a caller.
LEMMA VisibleOwn ==
    ASSUME NEW u, NEW f \in Files, Visible(u)[f] # "absent"
    PROVE  file[f].owner = u
BY DEF Visible

\* What a mounted or an unmounted component has.
LEMMA FreshPage ==
    ASSUME NEW token, RowTypes, file' = file,
           \/ Mount(token) /\ SignedIn' /\ Caller(token) \in {screen', NoOne}
           \/ Unmount /\ ~SignedIn'
    PROVE  Holdings' /\ \E X : fetch' \in [1..Fetches -> X]
<1>1. CASE Mount(token) /\ SignedIn' /\ Caller(token) \in {screen', NoOne}
  <2>1. \A i \in 1..Fetches : fetch'[i] \in {Answer(Caller(token)), NoAnswer}
    BY <1>1 DEF Mount
  <2>2. Answer(Caller(token)) # NoAnswer =>
           /\ Caller(token) = screen'
           /\ Answer(Caller(token)) = Visible(Caller(token))
    BY <1>1 DEF Answer
  <2>3. \A i \in 1..Fetches : fetch'[i] # NoAnswer => Own(fetch[i])'
    BY <2>1, <2>2, VisibleOwn DEF Own
  <2>4. Own(listed)' /\ playing' \notin Files
    BY <1>1, EmptyOwn, NoFileAssumption DEF Mount, Discarded, Own
  <2>5. fetch' \in [1..Fetches -> {Answer(Caller(token)), NoAnswer}]
    BY <1>1 DEF Mount
  <2> QED  BY <1>1, <2>3, <2>4, <2>5 DEF Holdings
<1>2. CASE Unmount /\ ~SignedIn'
  <2>1. fetch' \in [1..Fetches -> {NoAnswer}] /\ \A i \in 1..Fetches : fetch'[i] = NoAnswer
    BY <1>2 DEF Unmount
  <2> QED  BY <1>2, <2>1 DEF Holdings, Unmount, Discarded, Bare
<1> QED  BY <1>1, <1>2

LEMMA OwnInit == Init => OwnInv
<1> SUFFICES ASSUME Init PROVE OwnInv
  OBVIOUS
<1>1. SessionInv /\ ~SignedIn /\ FormNamed
  BY SessionInit, AccountsAssumption DEF Init, SessionsInit, SignedIn, FormNamed, NoRequest
<1>2. fetch \in [1..Fetches -> {NoAnswer}] /\ \A i \in 1..Fetches : fetch[i] = NoAnswer
  BY DEF Init
<1>3. RowTypes
  BY <1>2 DEF Init, RowTypes, Unchosen, Statuses
<1>4. Unsent
  BY DEF Init, Unsent
<1> QED  BY <1>1, <1>2, <1>3, <1>4 DEF Init, OwnInv, Holdings, Bare

\* The session's steps, with what they do to the page.
LEMMA SessionOwn ==
    ASSUME OwnInv,
           \/ (SessionStep \/ SessionFault) /\ UNCHANGED <<file, send, pageVars>>
           \/ LoadPage \/ EnterPage \/ LeavePage \/ ReloadPage
    PROVE  FormNamed' /\ RowTypes' /\ Unsent' /\ Holdings'
<1> USE DEF OwnInv
<1>0. FormNamed'
  <2>1. form.at # "idle" => \A to \in {"start", "granted"} :
           [form EXCEPT !.at = to].user \in Accounts
    BY DEF FormNamed, SessionInv, TokensApart, Forms
  <2>2. \/ form' = form \/ form' = NoRequest
        \/ form.at # "idle" /\ \E to \in {"start", "granted"} : form' = [form EXCEPT !.at = to]
        \/ \E kind \in {"register", "login"}, u \in Accounts : form' = [at |-> kind, user |-> u]
    BY DEF SessionStep, SessionFault, Register, Verify, StartSession, Logout, ForgetCookie,
           Submit, Expire, Resolve, Lose, LoadPage, EnterPage, SignIn, LeavePage, SignOut,
           ReloadPage, Reload
  <2>3. ASSUME NEW to \in {"start", "granted"}, form.at # "idle", form' = [form EXCEPT !.at = to]
        PROVE  FormNamed'
    BY <2>1, <2>3 DEF FormNamed
  <2>4. ASSUME NEW kind \in {"register", "login"}, NEW u \in Accounts,
               form' = [at |-> kind, user |-> u]
        PROVE  FormNamed'
    BY <2>4 DEF FormNamed
  <2>5. CASE form' = form \/ form' = NoRequest
    BY <2>5, NoRequestForm DEF FormNamed
  <2> QED  BY <2>2, <2>3, <2>4, <2>5
<1>1. CASE (SessionStep \/ SessionFault) /\ UNCHANGED <<file, send, pageVars>>
  <2>1. screen' = screen \/ (~SignedIn /\ ~SignedIn')
    BY <1>1, AccountsAssumption
       DEF SessionStep, SessionFault, Register, Verify, StartSession, Logout, ForgetCookie,
           Submit, Expire, Resolve, Lose, SignedIn
  <2>2. UNCHANGED <<file, send, rows, listed, fetch, deletes, playing>>
    BY <1>1 DEF pageVars
  <2>3. RowTypes' /\ Unsent'
    BY <2>2 DEF RowTypes, Unsent
  <2>4. Holdings'
    BY <2>1, <2>2 DEF Holdings, Own, Bare, SignedIn
  <2> QED  BY <1>0, <2>3, <2>4
<1>2. CASE LoadPage
  <2>1. Resolve(TRUE) /\ UNCHANGED <<file, send>>
    BY <1>2 DEF LoadPage
  <2>2. screen' \in {"anon", Caller(cookie)}
    BY <2>1 DEF Resolve
  <2>3. Holdings' /\ \E X : fetch' \in [1..Fetches -> X]
    BY <1>2, <2>1, <2>2, FreshPage, AccountsAssumption DEF LoadPage, SignedIn
  <2> QED  BY <1>0, <2>1, <2>3 DEF RowTypes, Unsent
<1>3. CASE EnterPage
  <2>1. SignIn /\ Mount(issued) /\ UNCHANGED <<file, send>>
    BY <1>3 DEF EnterPage
  <2>2. screen' = form.user /\ Caller(issued) \in {screen', NoOne}
    BY <2>1 DEF SignIn, SessionInv, TokensApart, Caller
  <2>3. SignedIn'
    BY <2>1, <2>2 DEF SignIn, FormNamed, SignedIn
  <2>4. Holdings' /\ \E X : fetch' \in [1..Fetches -> X]
    BY <2>1, <2>2, <2>3, FreshPage
  <2> QED  BY <1>0, <2>1, <2>4 DEF RowTypes, Unsent
<1>4. CASE LeavePage
  <2>1. SignOut /\ Unmount /\ UNCHANGED <<file, send>> /\ ~SignedIn'
    BY <1>4, AccountsAssumption DEF LeavePage, SignOut, SignedIn
  <2>2. Holdings' /\ \E X : fetch' \in [1..Fetches -> X]
    BY <2>1, FreshPage
  <2> QED  BY <1>0, <2>1, <2>2 DEF RowTypes, Unsent
<1>5. CASE ReloadPage
  <2>1. Unmount /\ file' = file /\ ~SignedIn'
    BY <1>5, AccountsAssumption DEF ReloadPage, Reload, SignedIn
  <2>2. Holdings' /\ \E X : fetch' \in [1..Fetches -> X]
    BY <2>1, FreshPage
  <2>3. \A f \in Files : send'[f] \in {send[f], Over}
    BY <1>5 DEF ReloadPage
  <2>4. send' \in [Files -> [at : {"unchosen", "queued", "over"} \union InFlight, call : Nat]]
    BY <1>5, <2>3 DEF ReloadPage, RowTypes, Over
  <2>5. Unsent'
    BY <2>1, <2>3 DEF Unsent, Over
  <2> QED  BY <1>0, <2>1, <2>2, <2>4, <2>5 DEF RowTypes
<1> QED  BY <1>1, <1>2, <1>3, <1>4, <1>5

\* An upload under way, and the list asked for when it is over.
LEMMA UploadOwn ==
    ASSUME OwnInv, NEW f \in Files, Upload(f) \/ LoseUpload(f)
    PROVE  RowTypes' /\ Unsent' /\ Holdings'
<1> USE DEF OwnInv, RowTypes
<1>1. /\ send' \in [Files -> [at : {"unchosen", "queued", "over"} \union InFlight, call : Nat]]
      /\ send'[f].at \notin {"unchosen", "queued"}
      /\ \A g \in Files \ {f} : send'[g] = send[g]
  <2>1. CASE Settle(f)
    BY <2>1 DEF Settle, Over
  <2>2. CASE Send(f) \/ Store(f) \/ Refuse(f) \/ LoseUpload(f)
    <3>1. PICK at \in InFlight : send' = [send EXCEPT ![f].at = at]
      BY <2>2 DEF Send, Store, Refuse, LoseUpload, Goto, InFlight
    <3> QED  BY <3>1 DEF InFlight
  <2> QED  BY <2>1, <2>2 DEF Upload
<1>2. /\ file' \in [Files -> [owner : Accounts \union {NoOne}, status : Statuses]]
      /\ \A g \in Files : file'[g].owner # file[g].owner => g = f /\ file[g].owner = NoOne
  <2>1. CASE Send(f)
    <3>1. file[f].owner = NoOne
      BY <2>1 DEF Send, Goto, Unsent
    <3>2. Caller(cookie) \in Accounts \union {NoOne}
      BY MaxSessionsAssumption DEF SessionInv, TokensApart, Caller, Tokens, NoToken
    <3> QED  BY <2>1, <3>1, <3>2 DEF Send, Statuses
  <2>2. CASE Store(f) \/ Refuse(f)
    <3>1. PICK status \in Statuses : file' \in {file, [file EXCEPT ![f].status = status]}
      BY <2>2 DEF Store, Refuse, Statuses
    <3> QED  BY <3>1
  <2>3. CASE Settle(f) \/ LoseUpload(f)
    BY <2>3 DEF Settle, LoseUpload
  <2> QED  BY <2>1, <2>2, <2>3 DEF Upload
<1>3. Unsent'
  BY <1>1, <1>2 DEF Unsent
<1>4. UNCHANGED <<screen, listed, deletes, playing>>
  BY DEF Upload, Send, Store, Refuse, Settle, LoseUpload, sessionVars, pageVars
<1>5. /\ rows' \subseteq rows
      /\ \/ fetch' = fetch
         \/ rows # {} /\ \E i \in 1..Fetches : fetch' = [fetch EXCEPT ![i] = Answer(Caller(cookie))]
  BY DEF Upload, Send, Store, Refuse, Settle, LoseUpload, Refresh, pageVars
<1>6. \E X : fetch' \in [1..Fetches -> X]
  <2>1. PICK X : fetch \in [1..Fetches -> X]
    OBVIOUS
  <2>2. fetch' \in [1..Fetches -> X \union {Answer(Caller(cookie))}]
    BY <2>1, <1>5
  <2> QED  BY <2>2
<1>7. ASSUME SignedIn PROVE Holdings'
  <2>1. \A u \in Accounts : \A g \in Files : file[g].owner = u => file'[g].owner = u
    BY <1>2, NoOneAssumption
  <2>2. Own(listed)' /\ (playing' \in Files => file'[playing'].owner = screen')
    BY <1>4, <1>7, <2>1 DEF Holdings, Own, SignedIn
  <2>3. ASSUME NEW i \in 1..Fetches, fetch'[i] # NoAnswer PROVE Own(fetch[i])'
    <3>1. CASE fetch'[i] = fetch[i]
      BY <1>4, <1>7, <2>1, <2>3, <3>1 DEF Holdings, Own, SignedIn
    <3>2. CASE fetch'[i] = Answer(Caller(cookie))
      <4>1. Caller(cookie) = screen /\ fetch'[i] = Visible(screen)
        BY <1>7, <2>3, <3>2 DEF Answer, SessionInv, ServedAsShown
      <4> QED  BY <1>4, <1>7, <2>1, <4>1, VisibleOwn DEF Own, SignedIn
    <3> QED  BY <1>5, <3>1, <3>2
  <2> QED  BY <1>4, <1>7, <2>2, <2>3 DEF Holdings, SignedIn
<1>8. ASSUME ~SignedIn PROVE Holdings'
  BY <1>4, <1>5, <1>8 DEF Holdings, Bare, SignedIn
<1> QED  BY <1>1, <1>2, <1>3, <1>6, <1>7, <1>8

\* A selection, the list and its buttons.
LEMMA ListOwn ==
    ASSUME OwnInv,
           \/ \E S \in SUBSET Files : Choose(S)
           \/ \E f \in Files : Delete(f) \/ DeleteAnswered(f) \/ LoseDelete(f) \/ Play(f)
           \/ \E i \in 1..Fetches : ShowList(i) \/ LoseList(i)
    PROVE  RowTypes' /\ Unsent' /\ Holdings'
<1> USE DEF OwnInv, RowTypes
<1>1. PICK X : fetch \in [1..Fetches -> X]
  OBVIOUS
<1>2. ASSUME NEW S \in SUBSET Files, Choose(S) PROVE RowTypes' /\ Unsent' /\ Holdings'
  <2>1. PICK call \in Nat :
           send' = [f \in Files |-> IF f \in S THEN [at |-> "queued", call |-> call] ELSE send[f]]
    BY <1>2 DEF Choose
  <2>2. SignedIn /\ (\A f \in S : send[f].at = "unchosen")
        /\ UNCHANGED <<screen, file, listed, fetch, playing>>
    BY <1>2 DEF Choose, Unchosen, sessionVars
  <2>3. send' \in [Files -> [at : {"unchosen", "queued", "over"} \union InFlight, call : Nat]]
    BY <2>1
  <2>4. Unsent'
    BY <2>1, <2>2 DEF Unsent
  <2>5. Holdings'
    BY <2>2 DEF Holdings, Own, SignedIn
  <2> QED  BY <2>2, <2>3, <2>4, <2>5
<1>3. ASSUME NEW f \in Files, Delete(f) PROVE RowTypes' /\ Unsent' /\ Holdings'
  <2>1. /\ UNCHANGED <<screen, send, rows, listed, fetch, playing>>
        /\ file' = [file EXCEPT ![f].status = "gone"]
    BY <1>3 DEF Delete, sessionVars
  <2>2. /\ file' \in [Files -> [owner : Accounts \union {NoOne}, status : Statuses]]
        /\ \A g \in Files : file'[g].owner = file[g].owner
    BY <2>1 DEF Statuses
  <2>3. SignedIn
    BY <1>3, EmptyOwn DEF Delete, Holdings, Bare
  <2>4. Own(listed)' /\ \A i \in 1..Fetches : fetch'[i] # NoAnswer => Own(fetch[i])'
    BY <2>1, <2>2, <2>3 DEF Holdings, Own
  <2>5. Holdings'
    BY <2>1, <2>2, <2>3, <2>4 DEF Holdings, SignedIn
  <2>6. Unsent'
    BY <2>1, <2>2 DEF Unsent
  <2> QED  BY <2>1, <2>2, <2>5, <2>6
<1>6. ASSUME NEW f \in Files, DeleteAnswered(f) PROVE RowTypes' /\ Unsent' /\ Holdings'
  <2>1. /\ f \in deletes /\ UNCHANGED <<screen, file, send, rows, listed>>
        /\ playing' = IF playing = f THEN NoFile ELSE playing
    BY <1>6 DEF DeleteAnswered, sessionVars
  <2>2. PICK j \in 1..Fetches : fetch' = [fetch EXCEPT ![j] = Answer(Caller(cookie))]
    BY <1>6 DEF DeleteAnswered, Refresh
  <2>3. SignedIn
    BY <2>1 DEF Holdings, Bare
  <2>4. fetch' \in [1..Fetches -> X \union {Answer(Caller(cookie))}]
    BY <1>1, <2>2
  <2>5. ASSUME NEW i \in 1..Fetches, fetch'[i] # NoAnswer PROVE Own(fetch[i])'
    <3>1. CASE i # j
      BY <1>1, <2>1, <2>2, <2>3, <2>5, <3>1 DEF Holdings, Own
    <3>2. CASE i = j
      <4>1. fetch'[i] = Answer(Caller(cookie))
        BY <1>1, <2>2, <3>2
      <4>2. Caller(cookie) = screen /\ fetch'[i] = Visible(screen)
        BY <2>3, <2>5, <4>1 DEF Answer, SessionInv, ServedAsShown
      <4> QED  BY <2>1, <4>2, VisibleOwn DEF Own
    <3> QED  BY <3>1, <3>2
  <2>6. Own(listed)' /\ (playing' \in Files => file'[playing'].owner = screen')
    BY <2>1, <2>3, NoFileAssumption DEF Holdings, Own
  <2> QED  BY <2>1, <2>3, <2>4, <2>5, <2>6 DEF Holdings, Unsent, SignedIn
<1>7. ASSUME NEW f \in Files, LoseDelete(f) PROVE RowTypes' /\ Unsent' /\ Holdings'
  <2>1. f \in deletes /\ UNCHANGED <<screen, file, send, rows, listed, fetch, playing>>
    BY <1>7 DEF LoseDelete, sessionVars
  <2>2. SignedIn
    BY <2>1 DEF Holdings, Bare
  <2> QED  BY <2>1, <2>2 DEF Holdings, Own, Unsent, SignedIn
<1>4. ASSUME NEW f \in Files, Play(f) PROVE RowTypes' /\ Unsent' /\ Holdings'
  <2>1. /\ listed[f] = "uploaded" /\ playing' = f
        /\ UNCHANGED <<screen, file, send, rows, listed, fetch>>
    BY <1>4 DEF Play, sessionVars
  <2>2. SignedIn
    BY <2>1, EmptyOwn DEF Holdings, Bare
  <2> QED  BY <2>1, <2>2 DEF Holdings, Own, Unsent, SignedIn
<1>5. ASSUME NEW i \in 1..Fetches, ShowList(i) \/ LoseList(i)
      PROVE  RowTypes' /\ Unsent' /\ Holdings'
  <2>1. /\ fetch[i] # NoAnswer /\ fetch' = [fetch EXCEPT ![i] = NoAnswer]
        /\ listed' \in {listed, fetch[i]}
        /\ UNCHANGED <<screen, file, send, rows, playing>>
    BY <1>5 DEF ShowList, LoseList, sessionVars
  <2>2. SignedIn
    BY <2>1 DEF Holdings
  <2>3. fetch' \in [1..Fetches -> X \union {NoAnswer}]
        /\ \A k \in 1..Fetches : fetch'[k] \in {fetch[k], NoAnswer}
    BY <1>1, <2>1
  <2>4. Own(listed)' /\ \A k \in 1..Fetches : fetch'[k] # NoAnswer => Own(fetch[k])'
    BY <2>1, <2>2, <2>3 DEF Holdings, Own
  <2> QED  BY <2>1, <2>2, <2>3, <2>4 DEF Holdings, Unsent, SignedIn
<1> QED  BY <1>2, <1>3, <1>4, <1>5, <1>6, <1>7

LEMMA OwnNext == OwnInv /\ [Next]_vars => OwnInv'
<1> SUFFICES ASSUME OwnInv, [Next]_vars PROVE OwnInv'
  OBVIOUS
<1>1. SessionInv'
  BY SessionKept DEF OwnInv
<1>2. CASE UNCHANGED vars
  <2>1. UNCHANGED <<form, screen, file, send, rows, listed, fetch, deletes, playing>>
    BY <1>2 DEF vars, sessionVars, pageVars
  <2> QED
    BY <1>1, <2>1 DEF OwnInv, FormNamed, RowTypes, Unsent, Holdings, Own, Bare, SignedIn
<1>3. CASE \/ (SessionStep \/ SessionFault) /\ UNCHANGED <<file, send, pageVars>>
           \/ LoadPage \/ EnterPage \/ LeavePage \/ ReloadPage
  BY <1>1, <1>3, SessionOwn DEF OwnInv
<1>4. ASSUME NEW f \in Files, Upload(f) \/ LoseUpload(f) PROVE OwnInv'
  <2>1. form' = form
    BY <1>4 DEF Upload, Send, Store, Refuse, Settle, LoseUpload, sessionVars
  <2> QED  BY <1>1, <1>4, <2>1, UploadOwn DEF OwnInv, FormNamed
<1>5. CASE \/ \E S \in SUBSET Files : Choose(S)
           \/ \E f \in Files : Delete(f) \/ DeleteAnswered(f) \/ LoseDelete(f) \/ Play(f)
           \/ \E i \in 1..Fetches : ShowList(i) \/ LoseList(i)
  <2>1. form' = form
    BY <1>5 DEF Choose, Delete, DeleteAnswered, LoseDelete, Play, ShowList, LoseList, sessionVars
  <2> QED  BY <1>1, <1>5, <2>1, ListOwn DEF OwnInv, FormNamed
<1> QED  BY <1>2, <1>3, <1>4, <1>5 DEF Next, Calm, Fault

(***************************************************************************)
(* No account is shown, or played, what belongs to another (SignedInApp's  *)
(* state goes with it; AuthUser decides whose files a list has).           *)
(***************************************************************************)
THEOREM OwnShown == Spec => []ShownIsOwn
<1>1. OwnInv => ShownIsOwn
  BY DEF OwnInv, Holdings, Own, ShownIsOwn
<1> QED  BY <1>1, OwnInit, OwnNext, PTL DEF Spec
=============================================================================
