-------------------------------- MODULE Page --------------------------------
(***************************************************************************)
(* The signed-in page (SignedInApp): the uploads it sends, the list it     *)
(* shows, the file it plays; mounted by a sign-in and thrown away by a     *)
(* sign-out, while what it has already asked of the browser goes on.       *)
(*                                                                         *)
(* A file the user chooses is one row of audio_files.  What Uploads models *)
(* of its upload is reduced here to how it ends; transcodes are Progress.  *)
(***************************************************************************)
EXTENDS Sessions, FiniteSets

CONSTANTS
    Files,          \* files there are to upload
    NoFile,         \* nothing is playing
    NoAnswer,       \* no list is on its way
    Slots,          \* MAX_CONCURRENT_UPLOADS
    Fetches         \* bound: list answers on their way at once

(***************************************************************************)
(* A list is read when it is asked for: what matters of the request's way  *)
(* is the way back, on which the answer grows old.  For the same reason an *)
(* upload and a delete reach the api as they are sent.                     *)
(***************************************************************************)

ASSUME FilesAssumption == IsFiniteSet(Files)
ASSUME NoFileAssumption == NoFile \notin Files
ASSUME SlotsAssumption == Slots \in Nat \ {0}

VARIABLES
    file,           \* the owner and status of each row
    send,           \* of each file: where uploadAll has it, and in which call
    rows,           \* the page's uploads
    listed,         \* the page's files: the status shown of each row in the list
    fetch,          \* answers of list requests on their way back
    deletes,        \* files whose delete is done and its answer on its way back
    playing         \* nowPlaying

pageVars == <<rows, listed, fetch, deletes, playing>>
vars == <<sessionVars, file, send, pageVars>>

List == [Files -> {"absent", "uploading", "uploaded"}]
EmptyList == [f \in Files |-> "absent"]

InFlight == {"storing", "stored", "refused"}

TypeOK ==
    /\ SessionsTypeOK
    /\ file \in [Files -> [owner : Accounts \union {NoOne},
                           status : {"none", "uploading", "uploaded", "gone"}]]
    /\ send \in [Files -> [at : {"unchosen", "queued", "over"} \union InFlight,
                           call : 0..Cardinality(Files)]]
    /\ rows \subseteq Files
    /\ listed \in List
    /\ fetch \in [1..Fetches -> List \union {NoAnswer}]
    /\ deletes \subseteq Files
    /\ playing \in Files \union {NoFile}

Unchosen == [at |-> "unchosen", call |-> 0]
Over == [at |-> "over", call |-> 0]

Init ==
    /\ SessionsInit
    /\ file = [f \in Files |-> [owner |-> NoOne, status |-> "none"]]
    /\ send = [f \in Files |-> Unchosen]
    /\ rows = {} /\ listed = EmptyList
    /\ fetch = [i \in 1..Fetches |-> NoAnswer]
    /\ deletes = {} /\ playing = NoFile
-----------------------------------------------------------------------------
\* The rows of list_audio_for.
Visible(u) ==
    [f \in Files |-> IF file[f].owner = u /\ file[f].status \in {"uploading", "uploaded"}
                     THEN file[f].status ELSE "absent"]

\* GET /api/audio; an error leaves the list as it is.
Answer(u) == IF u = NoOne THEN NoAnswer ELSE Visible(u)

Refresh ==
    \E i \in 1..Fetches :
        /\ fetch[i] = NoAnswer
        /\ fetch' = [fetch EXCEPT ![i] = Answer(Caller(cookie))]

\* Slip: the state held in App, beside the session.
HeldInApp == UNCHANGED <<rows, listed, deletes, playing>>

\* useState: a component starts from nothing, and takes what it held with it.
Discarded == rows' = {} /\ listed' = EmptyList /\ deletes' = {} /\ playing' = NoFile

\* SignedInApp mounts, and fetches its list.
Mount(token) ==
    /\ Discarded
    /\ fetch' = [i \in 1..Fetches |-> IF i = 1 THEN Answer(Caller(token)) ELSE NoAnswer]

\* It unmounts: answers still to come find no component.
Unmount == Discarded /\ fetch' = [i \in 1..Fetches |-> NoAnswer]
-----------------------------------------------------------------------------
(***************************************************************************)
(* uploadAll, and the api at the other end.                                *)
(***************************************************************************)
Choose(S) ==
    /\ SignedIn
    /\ S # {} /\ \A f \in S : send[f] = Unchosen
    /\ \E call \in 1..Cardinality(Files) :
          /\ \A f \in Files : send[f].call # call
          /\ \A c \in 1..(call - 1) : \E f \in Files : send[f].call = c
          /\ send' = [f \in Files |-> IF f \in S
                                      THEN [at |-> "queued", call |-> call]
                                      ELSE send[f]]
    /\ rows' = rows \union S
    /\ UNCHANGED <<sessionVars, file, listed, fetch, deletes, playing>>

Goto(f, from, to) ==
    /\ send[f].at = from
    /\ send' = [send EXCEPT ![f].at = to]

\* The pool's next file, on a slot of its own call; AuthUser, then the INSERT.
Send(f) ==
    LET u == Caller(cookie)
    IN  /\ Cardinality({g \in Files : send[g].call = send[f].call /\ send[g].at \in InFlight})
              < Slots
        /\ Goto(f, "queued", IF u = NoOne THEN "refused" ELSE "storing")
        /\ file' = IF u = NoOne THEN file
                   ELSE [file EXCEPT ![f] = [owner |-> u, status |-> "uploading"]]
        /\ UNCHANGED <<sessionVars, pageVars>>

\* upload_audio's flip: 201 even if a delete was there first.
Store(f) ==
    /\ Goto(f, "storing", "stored")
    /\ file' = IF file[f].status = "uploading" THEN [file EXCEPT ![f].status = "uploaded"] ELSE file
    /\ UNCHANGED <<sessionVars, pageVars>>

\* A failed PUT or a duplicate.
Refuse(f) ==
    /\ Goto(f, "storing", "refused")
    /\ file' = IF file[f].status = "uploading" THEN [file EXCEPT ![f].status = "gone"] ELSE file
    /\ UNCHANGED <<sessionVars, pageVars>>

\* xhr.onerror: the answer, and with it what became of the row, is lost.
LoseUpload(f) ==
    /\ "loss" \in Faults
    /\ \E at \in {"storing", "stored"} : Goto(f, at, "refused")
    /\ UNCHANGED <<sessionVars, file, pageVars>>

\* Slip: a failed upload rejects, and its slot stops there.
SettleOrReject(f) ==
    /\ send[f].at = "stored"
    /\ send' = [send EXCEPT ![f] = Over]
    /\ rows' = rows \ {f}
    /\ IF f \in rows THEN Refresh ELSE UNCHANGED fetch
    /\ UNCHANGED <<sessionVars, file, listed, deletes, playing>>

\* onSettled: the row goes, and the list is fetched again.
Settle(f) ==
    /\ send[f].at \in {"stored", "refused"}
    /\ send' = [send EXCEPT ![f] = Over]
    /\ rows' = rows \ {f}
    /\ IF f \in rows THEN Refresh ELSE UNCHANGED fetch
    /\ UNCHANGED <<sessionVars, file, listed, deletes, playing>>
-----------------------------------------------------------------------------
(***************************************************************************)
(* The list, its Delete buttons and its rows.                              *)
(***************************************************************************)
ShowList(i) ==
    /\ fetch[i] # NoAnswer
    /\ listed' = fetch[i]
    /\ fetch' = [fetch EXCEPT ![i] = NoAnswer]
    /\ UNCHANGED <<sessionVars, file, send, rows, deletes, playing>>

LoseList(i) ==
    /\ "loss" \in Faults
    /\ fetch[i] # NoAnswer
    /\ fetch' = [fetch EXCEPT ![i] = NoAnswer]
    /\ UNCHANGED <<sessionVars, file, send, rows, listed, deletes, playing>>

\* onDelete: delete_audio's UPDATE.  A refusal is only a toast.
Delete(f) ==
    /\ listed[f] # "absent"
    /\ file[f].owner = Caller(cookie) /\ file[f].status \in {"uploading", "uploaded"}
    /\ file' = [file EXCEPT ![f].status = "gone"]
    /\ deletes' = deletes \union {f}
    /\ UNCHANGED <<sessionVars, send, rows, listed, fetch, playing>>

\* Its answer: the track stops, and the list is fetched again ...
DeleteAnswered(f) ==
    /\ f \in deletes
    /\ deletes' = deletes \ {f}
    /\ playing' = IF playing = f THEN NoFile ELSE playing
    /\ Refresh
    /\ UNCHANGED <<sessionVars, file, send, rows, listed>>

\* ... or a toast, of a file that is gone and still listed.
LoseDelete(f) ==
    /\ "loss" \in Faults
    /\ f \in deletes
    /\ deletes' = deletes \ {f}
    /\ UNCHANGED <<sessionVars, file, send, rows, listed, fetch, playing>>

\* onPlay, of a row with a tier ready.
Play(f) ==
    /\ listed[f] = "uploaded"
    /\ playing' = f
    /\ UNCHANGED <<sessionVars, file, send, rows, listed, fetch, deletes>>
-----------------------------------------------------------------------------
(***************************************************************************)
(* The session, with what it does to the page.                             *)
(***************************************************************************)
LoadPage ==
    /\ Resolve(TRUE)
    /\ IF screen' \in Accounts THEN Mount(cookie) ELSE Unmount
    /\ UNCHANGED <<file, send>>

EnterPage == SignIn /\ Mount(issued) /\ UNCHANGED <<file, send>>

LeavePage == SignOut /\ Unmount /\ UNCHANGED <<file, send>>

\* The script's own state goes, the pool with it.
ReloadPage ==
    /\ Reload
    /\ Unmount
    /\ send' = [f \in Files |-> IF send[f] = Unchosen THEN send[f] ELSE Over]
    /\ UNCHANGED file

Upload(f) == Send(f) \/ Store(f) \/ Refuse(f) \/ Settle(f)

Calm ==
    \/ SessionStep /\ UNCHANGED <<file, send, pageVars>>
    \/ LoadPage
    \/ EnterPage
    \/ LeavePage
    \/ ReloadPage
    \/ \E S \in SUBSET Files : Choose(S)
    \/ \E f \in Files : Upload(f) \/ Delete(f) \/ DeleteAnswered(f) \/ Play(f)
    \/ \E i \in 1..Fetches : ShowList(i)

Fault ==
    \/ SessionFault /\ UNCHANGED <<file, send, pageVars>>
    \/ \E f \in Files : LoseUpload(f) \/ LoseDelete(f)
    \/ \E i \in 1..Fetches : LoseList(i)

Next == Calm \/ Fault

Spec == Init /\ [][Next]_vars

(***************************************************************************)
(* Fairness.  As long as an upload or an answer is under way something     *)
(* comes of one of them: the requests are answered, or fail, and the       *)
(* page's callbacks run.  What the user does is up to the user.            *)
(***************************************************************************)
Network == (\E f \in Files : Upload(f)) \/ (\E i \in 1..Fetches : ShowList(i))

FairSpec == Spec /\ WF_vars(Network)
-----------------------------------------------------------------------------
(***************************************************************************)
(* Whatever the page shows or plays belongs to the account it says is      *)
(* signed in, however requests of an earlier sign-in are answered          *)
(* (SignedInApp: held in App, the list and the track would survive the     *)
(* logout).                                                                *)
(***************************************************************************)
ShownIsOwn ==
    SignedIn => \A f \in Files :
        listed[f] # "absent" \/ playing = f => file[f].owner = screen

(***************************************************************************)
(* "One bad file must not abandon the rest of the queue" (uploadAudio.ts): *)
(* every file of every selection is settled, and none is left waiting or   *)
(* under way, whatever became of the others and whoever is signed in by    *)
(* then.                                                                   *)
(***************************************************************************)
Unsettled == {f \in Files : send[f].at \notin {"unchosen", "over"}}

PoolDrains == []<>(Unsettled = {})

(***************************************************************************)
(* A signed-in page has a session that works: a flaky connection "can't    *)
(* strand the user in a signed-in UI that no longer has a working session" *)
(* (App.tsx), and no flakiness is needed.                                  *)
(***************************************************************************)
SignedInWorks ==
    SignedIn /\ (\A k \in Tokens : logouts[k] = "none") => Caller(cookie) = screen
=============================================================================
