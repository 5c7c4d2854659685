------------------------------- MODULE AppProofs -------------------------------
(***************************************************************************)
(* What is proved of each page, in the app that shows one of them; and the *)
(* types of all of it.                                                     *)
(***************************************************************************)
EXTENDS App, PageProofs, SharedPageProofs, FiniteSetTheorems

\* A step of the app is a step of each page or none (App: they share nothing).
LEMMA AppIsItsPages == AppSpec => Spec /\ SharedSpec
<1>1. AppInit => Init /\ SharedInit
  BY DEF AppInit
<1>2. [AppNext]_appVars => [Next]_vars /\ [SharedNext]_sharedVars
  BY DEF AppNext, appVars
<1> QED  BY <1>1, <1>2, PTL DEF AppSpec, Spec, SharedSpec

(***************************************************************************)
(* In the app nobody is shown, or served as, somebody else ...             *)
(***************************************************************************)
THEOREM AppShowsOwn == AppSpec => []ShownIsOwn /\ []ServedAsShown
<1> QED  BY AppIsItsPages, OwnShown, ServedRight, PTL

(***************************************************************************)
(* ... and its public page keeps the word of its links, and says why a     *)
(* track does not play.                                                    *)
(***************************************************************************)
THEOREM AppKeepsLinks == AppSpec => []LinkKeepsItsWord /\ []SaysWhy
<1> QED  BY AppIsItsPages, LinkKept, WhySaid, PTL
-----------------------------------------------------------------------------
(***************************************************************************)
(* Types of the session.  A form under way names an account (FormNamed),   *)
(* which is what makes screen and users sets of accounts.                  *)
(***************************************************************************)
SessionTypes ==
    /\ users \subseteq Accounts
    /\ screen \in Accounts \union {"loading", "anon", "error"}
    /\ logouts \in [Tokens -> {"none", "sent", "unheard", "answered"}]

LEMMA SessionTypesInit == SessionsInit => SessionTypes
BY DEF SessionsInit, SessionTypes

LEMMA SessionTypesStep ==
    ASSUME SessionInv, FormNamed, SessionTypes, SessionSteps
    PROVE  SessionTypes'
<1>1. ASSUME NEW ok \in BOOLEAN, Register(ok) PROVE SessionTypes'
  <2>1. form.user \in Accounts /\ UNCHANGED <<screen, logouts>>
    BY <1>1 DEF Register, FormNamed
  <2>2. users' \in {users, users \union {form.user}}
    BY <1>1 DEF Register
  <2> QED  BY <2>1, <2>2 DEF SessionTypes
<1>2. ASSUME NEW ok \in BOOLEAN, Verify(ok) \/ StartSession(ok) PROVE SessionTypes'
  BY <1>2 DEF Verify, StartSession, SessionTypes
<1>3. ASSUME NEW k \in Tokens, NEW ok \in BOOLEAN, Logout(k, ok) PROVE SessionTypes'
  <2>1. UNCHANGED <<users, screen>> /\ \E to \in {"answered", "none"} : logouts' = [logouts EXCEPT ![k] = to]
    BY <1>3 DEF Logout, SessionTypes
  <2> QED  BY <2>1 DEF SessionTypes
<1>4. ASSUME NEW k \in Tokens, ForgetCookie(k) \/ Expire(k) PROVE SessionTypes'
  BY <1>4 DEF ForgetCookie, Expire, SessionTypes
<1>5. ASSUME NEW kind \in {"register", "login"}, NEW u \in Accounts, Submit(kind, u)
      PROVE  SessionTypes'
  BY <1>5 DEF Submit, SessionTypes
<1>6. CASE Lose
  BY <1>6 DEF Lose, SessionTypes
<1>7. ASSUME NEW ok \in BOOLEAN, Resolve(ok) PROVE SessionTypes'
  <2>1. cookie # NoToken => cookie \in Tokens
    BY MaxSessionsAssumption DEF SessionInv, TokensApart, Tokens, NoToken
  <2>2. Caller(cookie) \in Accounts \union {NoOne}
    BY <2>1 DEF Caller, SessionInv, TokensApart
  <2>3. screen' \in Accounts \union {"loading", "anon", "error"}
    BY <1>7, <2>2 DEF Resolve
  <2> QED  BY <1>7, <2>3 DEF Resolve, SessionTypes
<1>8. CASE SignIn
  BY <1>8 DEF SignIn, SessionTypes, FormNamed
<1>9. CASE SignOut
  <2>1. logouts' \in {logouts, [logouts EXCEPT ![cookie] = "sent"]} /\ screen' = "anon"
        /\ users' = users
    BY <1>9 DEF SignOut
  <2> QED  BY <2>1 DEF SessionTypes
<1>10. CASE Reload
  BY <1>10 DEF Reload, SessionTypes
<1> QED
  BY <1>1, <1>2, <1>3, <1>4, <1>5, <1>6, <1>7, <1>8, <1>9, <1>10
     DEF SessionSteps, SessionStep, SessionFault

LEMMA SessionTypesNext ==
    ASSUME OwnInv, SessionTypes, [Next]_vars
    PROVE  SessionTypes'
<1>1. CASE UNCHANGED sessionVars
  BY <1>1 DEF sessionVars, SessionTypes
<1> QED  BY <1>1, PageSession, SessionTypesStep DEF OwnInv
-----------------------------------------------------------------------------
(***************************************************************************)
(* Types of the page: a list that arrives is a list, and of the calls of   *)
(* uploadAll under way no two are numbered alike beyond the files.         *)
(***************************************************************************)
Calls == \A f \in Files : send[f].call \in 0..Cardinality(Files)

PageTypes ==
    /\ Calls
    /\ rows \subseteq Files
    /\ listed \in List
    /\ fetch \in [1..Fetches -> List \union {NoAnswer}]
    /\ deletes \subseteq Files
    /\ playing \in Files \union {NoFile}

LEMMA CountOfFiles == Cardinality(Files) \in Nat
BY FilesAssumption, FS_CardinalityType

LEMMA ListsAreLists ==
    /\ EmptyList \in List
    /\ \A u : Visible(u) \in List
    /\ \A u : Answer(u) \in List \union {NoAnswer}
BY DEF EmptyList, List, Visible, Answer

LEMMA PageTypesInit == Init => PageTypes
<1> SUFFICES ASSUME Init PROVE PageTypes
  OBVIOUS
<1>1. Calls
  BY CountOfFiles DEF Init, Calls, Unchosen
<1> QED  BY <1>1, ListsAreLists DEF Init, PageTypes

\* A component that mounts, or is thrown away.
LEMMA FreshTypes ==
    ASSUME NEW token, Mount(token) \/ Unmount
    PROVE  /\ rows' \subseteq Files /\ deletes' \subseteq Files
           /\ listed' \in List /\ playing' \in Files \union {NoFile}
           /\ fetch' \in [1..Fetches -> List \union {NoAnswer}]
<1>1. rows' = {} /\ listed' = EmptyList /\ deletes' = {} /\ playing' = NoFile
  BY DEF Mount, Unmount, Discarded
<1>2. Answer(Caller(token)) \in List \union {NoAnswer}
  BY ListsAreLists
<1>3. fetch' \in [1..Fetches -> List \union {NoAnswer}]
  BY <1>2 DEF Mount, Unmount
<1> QED  BY <1>1, <1>3, ListsAreLists

\* The session's steps, with what they do to the page.
LEMMA SessionPageTypes ==
    ASSUME PageTypes,
           \/ (SessionStep \/ SessionFault) /\ UNCHANGED <<file, send, pageVars>>
           \/ LoadPage \/ EnterPage \/ LeavePage \/ ReloadPage
    PROVE  PageTypes'
<1>1. CASE (SessionStep \/ SessionFault) /\ UNCHANGED <<file, send, pageVars>>
  BY <1>1 DEF pageVars, PageTypes, Calls
<1>2. CASE LoadPage \/ EnterPage \/ LeavePage
  <2>1. send' = send /\ \E token : Mount(token) \/ Unmount
    BY <1>2 DEF LoadPage, EnterPage, LeavePage
  <2> QED  BY <2>1, FreshTypes DEF PageTypes, Calls
<1>3. CASE ReloadPage
  <2>1. Unmount /\ \A f \in Files : send'[f] \in {send[f], Over}
    BY <1>3 DEF ReloadPage
  <2>2. Calls'
    BY <2>1, CountOfFiles DEF Calls, PageTypes, Over
  <2> QED  BY <2>1, <2>2, FreshTypes DEF PageTypes
<1> QED  BY <1>1, <1>2, <1>3

LEMMA UploadPageTypes ==
    ASSUME RowTypes, PageTypes, NEW f \in Files, Upload(f) \/ LoseUpload(f)
    PROVE  PageTypes'
<1> USE DEF PageTypes
<1>1. rows' \subseteq Files /\ UNCHANGED <<listed, deletes, playing>>
  BY DEF Upload, Send, Store, Refuse, Settle, LoseUpload, pageVars
<1>2. Calls'
  <2>1. CASE Settle(f)
    BY <2>1, CountOfFiles DEF Settle, Over, Calls, RowTypes
  <2>2. CASE Send(f) \/ Store(f) \/ Refuse(f) \/ LoseUpload(f)
    <3>1. PICK at \in InFlight : send' = [send EXCEPT ![f].at = at]
      BY <2>2 DEF Send, Store, Refuse, LoseUpload, Goto, InFlight
    <3> QED  BY <3>1 DEF Calls, RowTypes
  <2> QED  BY <2>1, <2>2 DEF Upload
<1>3. fetch' \in [1..Fetches -> List \union {NoAnswer}]
  <2>1. \/ fetch' = fetch
        \/ \E i \in 1..Fetches : fetch' = [fetch EXCEPT ![i] = Answer(Caller(cookie))]
    BY DEF Upload, Send, Store, Refuse, Settle, LoseUpload, Refresh, pageVars
  <2> QED  BY <2>1, ListsAreLists
<1> QED  BY <1>1, <1>2, <1>3

LEMMA ListPageTypes ==
    ASSUME RowTypes, PageTypes,
           \/ \E S \in SUBSET Files : Choose(S)
           \/ \E f \in Files : Delete(f) \/ DeleteAnswered(f) \/ LoseDelete(f) \/ Play(f)
           \/ \E i \in 1..Fetches : ShowList(i) \/ LoseList(i)
    PROVE  PageTypes'
<1> USE DEF PageTypes
<1>1. ASSUME NEW S \in SUBSET Files, Choose(S) PROVE PageTypes'
  <2>1. PICK call \in 1..Cardinality(Files) :
           send' = [f \in Files |-> IF f \in S THEN [at |-> "queued", call |-> call] ELSE send[f]]
    BY <1>1 DEF Choose
  <2>2. Calls'
    BY <2>1, CountOfFiles DEF Calls
  <2> QED  BY <1>1, <2>2 DEF Choose
<1>2. ASSUME NEW f \in Files, Delete(f) \/ LoseDelete(f) PROVE PageTypes'
  BY <1>2 DEF Delete, LoseDelete, Calls
<1>5. ASSUME NEW f \in Files, DeleteAnswered(f) PROVE PageTypes'
  <2>1. /\ UNCHANGED <<send, rows, listed>> /\ deletes' \subseteq deletes
        /\ playing' \in {playing, NoFile}
    BY <1>5 DEF DeleteAnswered
  <2>2. PICK j \in 1..Fetches : fetch' = [fetch EXCEPT ![j] = Answer(Caller(cookie))]
    BY <1>5 DEF DeleteAnswered, Refresh
  <2> QED  BY <2>1, <2>2, ListsAreLists DEF Calls
<1>3. ASSUME NEW f \in Files, Play(f) PROVE PageTypes'
  BY <1>3 DEF Play, Calls
<1>4. ASSUME NEW i \in 1..Fetches, ShowList(i) \/ LoseList(i) PROVE PageTypes'
  <2>1. /\ fetch[i] # NoAnswer /\ fetch' = [fetch EXCEPT ![i] = NoAnswer]
        /\ listed' \in {listed, fetch[i]}
        /\ UNCHANGED <<send, rows, deletes, playing>>
    BY <1>4 DEF ShowList, LoseList
  <2> QED  BY <2>1 DEF Calls
<1> QED  BY <1>1, <1>2, <1>3, <1>4, <1>5

LEMMA PageTypesNext ==
    ASSUME OwnInv, PageTypes, [Next]_vars
    PROVE  PageTypes'
<1>1. CASE UNCHANGED vars
  BY <1>1 DEF vars, pageVars, PageTypes, Calls
<1> QED
  BY <1>1, SessionPageTypes, UploadPageTypes, ListPageTypes DEF OwnInv, Next, Calm, Fault

\* What the page's invariants and these types make of TypeOK.
LEMMA PageTypeOK == OwnInv /\ SessionTypes /\ PageTypes => TypeOK
<1> SUFFICES ASSUME OwnInv, SessionTypes, PageTypes PROVE TypeOK
  OBVIOUS
<1>1. SessionsTypeOK
  <2>1. cookie \in Tokens \union {NoToken}
    BY MaxSessionsAssumption DEF OwnInv, SessionInv, TokensApart, Tokens, NoToken
  <2> QED
    BY <2>1 DEF SessionsTypeOK, SessionTypes, OwnInv, SessionInv, TokensApart, Forms
<1>2. file \in [Files -> [owner : Accounts \union {NoOne},
                          status : {"none", "uploading", "uploaded", "gone"}]]
  BY DEF OwnInv, RowTypes, Statuses
<1>3. send \in [Files -> [at : {"unchosen", "queued", "over"} \union InFlight,
                          call : 0..Cardinality(Files)]]
  <2>1. ASSUME NEW f \in Files
        PROVE  send[f] \in [at : {"unchosen", "queued", "over"} \union InFlight,
                            call : 0..Cardinality(Files)]
    BY DEF OwnInv, RowTypes, PageTypes, Calls
  <2> QED  BY <2>1 DEF OwnInv, RowTypes
<1> QED  BY <1>1, <1>2, <1>3 DEF TypeOK, PageTypes

(***************************************************************************)
(* Types of the app, both pages and the session under them: a screen shows *)
(* an account or none, the speed stays on the grid, the address bar holds  *)
(* a link.                                                                 *)
(***************************************************************************)
THEOREM AppTypeCorrect == AppSpec => []AppTypeOK
<1>1. Spec => [](OwnInv /\ SessionTypes /\ PageTypes)
  <2>1. Init => OwnInv /\ SessionTypes /\ PageTypes
    BY OwnInit, SessionTypesInit, PageTypesInit DEF Init
  <2>2. OwnInv /\ SessionTypes /\ PageTypes /\ [Next]_vars
          => (OwnInv /\ SessionTypes /\ PageTypes)'
    BY OwnNext, SessionTypesNext, PageTypesNext
  <2> QED  BY <2>1, <2>2, PTL DEF Spec
<1>2. SharedSpec => []LinkInv
  BY LinkInit, LinkNext, PTL DEF SharedSpec
<1>3. AppSpec => [](route \in {"own", "shared"})
  <2>1. AppInit => route \in {"own", "shared"}
    BY DEF AppInit
  <2>2. route \in {"own", "shared"} /\ [AppNext]_appVars => (route \in {"own", "shared"})'
    BY DEF AppNext, appVars
  <2> QED  BY <2>1, <2>2, PTL DEF AppSpec
<1>4. LinkInv => SharedTypeOK
  BY DEF LinkInv
<1>5. TypeOK /\ SharedTypeOK /\ route \in {"own", "shared"} => AppTypeOK
  BY DEF AppTypeOK
<1> QED  BY <1>1, <1>2, <1>3, <1>4, <1>5, AppIsItsPages, PageTypeOK, PTL
=============================================================================
