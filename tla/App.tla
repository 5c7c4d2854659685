--------------------------------- MODULE App ---------------------------------
(***************************************************************************)
(* The web app in one tab: the signed-in page at `/`, or a public library  *)
(* at `/u/<username>`.  Which one is settled by the address it is loaded   *)
(* from, ahead of the session, and a way from one to the other is a load   *)
(* of its own; so a tab is followed on one of them, and the pages share no *)
(* state of the script.                                                    *)
(***************************************************************************)
EXTENDS Page, SharedPage

VARIABLE route      \* App.tsx's route: "own" for null

appVars == <<vars, sharedVars, route>>

AppTypeOK == TypeOK /\ SharedTypeOK /\ route \in {"own", "shared"}

AppInit == Init /\ SharedInit /\ route \in {"own", "shared"}

AppNext ==
    /\ \/ route = "own" /\ Next /\ UNCHANGED sharedVars
       \/ route = "shared" /\ SharedNext /\ UNCHANGED vars
    /\ UNCHANGED route

AppSpec == AppInit /\ [][AppNext]_appVars /\ WF_vars(Network)
=============================================================================
