------------------------------ MODULE Downloads ------------------------------
(***************************************************************************)
(* A listener over the system: the lists the api answers and the streams   *)
(* it proxies, to the owner and to anyone with a link.  The api keeps no   *)
(* state between the two requests of a download (the row, then the         *)
(* object), and none between a list and the play of what it offered, so    *)
(* what is in hand there was true once: offer.                             *)
(*                                                                         *)
(* One listener, as none of its steps changes what another sees.  The two  *)
(* routes differ only in that the public one names a tier, never the       *)
(* source: its requests are some of those of the owner's.                  *)
(***************************************************************************)
EXTENDS AudioSystem

VARIABLE offer      \* the object a list offered, or a row found promises

Nothing == [at |-> "nothing"]
OfferType == {Nothing} \union [at : {"listed", "found"}, key : Keys]

downloadVars == <<vars, offer>>

\* Slip: the flag left out of the WHERE.
MatchesUnflagged(key) == file[key[1]] = "uploaded"

\* The WHERE of either query: the row is live and, for a tier, flagged.
Matches(key) ==
    /\ file[key[1]] = "uploaded"
    /\ key[2] # "source" => key[2] \in flags[key[1]]

\* A row of list_audio_for that can be played: uploaded, with a ready tier.
ListTier(f, t) ==
    /\ offer = Nothing
    /\ file[f] = "uploaded" /\ t \in flags[f]
    /\ offer' = [at |-> "listed", key |-> DerivativeKey(f, t)]

\* download_audio_for up to its row; a player asks again at every seek.
FindRow(key) ==
    /\ offer = Nothing \/ offer = [at |-> "listed", key |-> key]
    /\ Matches(key)
    /\ offer' = [at |-> "found", key |-> key]

\* 404: the row is not, or no longer, there to serve.
RowNotFound ==
    /\ offer.at = "listed"
    /\ ~Matches(offer.key)
    /\ offer' = Nothing

\* Then its object: streamed, and the player plays on; or a 502.
GetObject(ok) ==
    /\ offer.at = "found"
    /\ ok => offer.key \in bucket
    /\ ~ok => offer.key \notin bucket \/ "garage" \in Faults
    /\ offer' = IF ok /\ offer.key[2] # "source"
                THEN [offer EXCEPT !.at = "listed"] ELSE Nothing

DownloadStep ==
    \/ \E f \in Files, t \in Targets : ListTier(f, t)
    \/ \E key \in Keys : FindRow(key)
    \/ RowNotFound
    \/ \E ok \in BOOLEAN : GetObject(ok)

DownloadInit == Init /\ offer = Nothing

DownloadNext ==
    \/ Next /\ UNCHANGED offer
    \/ DownloadStep /\ UNCHANGED vars

DownloadSpec == DownloadInit /\ [][DownloadNext]_downloadVars
-----------------------------------------------------------------------------
(***************************************************************************)
(* What was offered can be had until it is withdrawn: however long ago the *)
(* list or the row was read, the object is there and the row still admits  *)
(* it, or the file has been deleted since.  A 404 or a 502 that Garage is  *)
(* not to blame for thus means a deleted file and nothing else             *)
(* (download_audio_for's two steps against the worker and the sweep).      *)
(***************************************************************************)
OfferHolds ==
    /\ offer \in OfferType
    /\ offer # Nothing =>
          \/ offer.key \in Fetchable
          \/ file[offer.key[1]] \in Dead
=============================================================================
