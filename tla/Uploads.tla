------------------------------- MODULE Uploads -------------------------------
(***************************************************************************)
(* The api's two writers of audio_files: upload_audio, with the            *)
(* discard_duplicate it ends in, and delete_audio.                         *)
(*                                                                         *)
(* upload[f] is where the request that inserted row f stands: its next     *)
(* await, or the answer it gave.  Each action runs from one await to the   *)
(* next.  A request may vanish at any await: the api dies, or its client   *)
(* goes away and the handler is dropped.                                   *)
(***************************************************************************)
EXTENDS AudioStore

VARIABLE upload

InFlight == {"put", "cleanup", "retire", "flip",
             "discard", "discarded", "undiscarded", "lookup"}
Answers == {"created", "duplicate", "upload_failed", "internal"}
UploadState == {"none", "gone"} \union InFlight \union Answers

UploadTypeOK == upload \in [Files -> UploadState]
UploadInit == upload = [f \in Files |-> "none"]

Goto(f, from, to) ==
    /\ upload[f] = from
    /\ upload' = [upload EXCEPT ![f] = to]

\* INSERT INTO audio_files ... RETURNING id
InsertRow(f) ==
    /\ file[f] = "none"
    /\ Goto(f, "none", "put")
    /\ file' = [file EXCEPT ![f] = "uploading"]
    /\ UNCHANGED <<flags, queue, bucket>>

\* The body streams to Garage.
PutSource(f, ok) ==
    /\ Goto(f, "put", IF ok THEN "flip" ELSE "cleanup")
    /\ PutObject(SourceKey(f), ok)
    /\ UNCHANGED <<file, flags, queue>>

\* The failed PUT: a best-effort delete, its result only logged ...
CleanUpPut(f, ok) ==
    /\ Goto(f, "cleanup", "retire")
    /\ DeleteObject(SourceKey(f), ok)
    /\ UNCHANGED <<file, flags, queue>>

\* ... and the row handed to the sweep, unless a delete already took it.
RetireFailedPut(f, ok) ==
    /\ Goto(f, "retire", "upload_failed")
    /\ \E applied \in Applied(ok) : SetStatus(f, {"uploading"}, "delete_pending", applied)
    /\ UNCHANGED <<flags, queue, bucket>>

\* Slip: the queue rows inserted whatever the flip matched.
QueuedAlways(f, matched) ==
    [j \in Jobs |-> IF j[1] = f /\ queue[j].status = "none" THEN FreshRow ELSE queue[j]]

\* INSERT INTO transcode_jobs ... ON CONFLICT DO NOTHING, if the flip matched.
Queued(f, matched) ==
    [j \in Jobs |-> IF matched /\ j[1] = f /\ queue[j].status = "none"
                    THEN FreshRow ELSE queue[j]]

\* Slip: the result of the commit ignored.
FlipBlind(f, ok) ==
    /\ ~(file[f] = "uploading" /\ Collides(f))
    /\ Goto(f, "flip", "created")
    /\ \E applied \in Applied(ok) :
          /\ SetStatus(f, {"uploading"}, "uploaded", applied)
          /\ queue' = Queued(f, applied /\ file[f] = "uploading")
    /\ UNCHANGED <<flags, bucket>>

\* The transaction: the guarded flip and the queue rows.  The answer to a
\* commit is 201 whether the flip matched or not.
Flip(f, ok) ==
    /\ ~(file[f] = "uploading" /\ Collides(f))
    /\ Goto(f, "flip", IF ok THEN "created" ELSE "internal")
    /\ \E applied \in Applied(ok) :
          /\ SetStatus(f, {"uploading"}, "uploaded", applied)
          /\ queue' = Queued(f, applied /\ file[f] = "uploading")
    /\ UNCHANGED <<flags, bucket>>

\* The transaction fails before it reaches the UNIQUE index, or on it: a
\* violation rolls back and goes on to discard_duplicate.
FlipCollides(f, ok) ==
    /\ file[f] = "uploading" /\ Collides(f)
    /\ ok \/ "postgres" \in Faults
    /\ Goto(f, "flip", IF ok THEN "discard" ELSE "internal")
    /\ UNCHANGED storeVars

\* discard_duplicate: the redundant object goes first ...
DiscardObject(f, ok) ==
    /\ Goto(f, "discard", IF Removed(SourceKey(f), ok) THEN "discarded" ELSE "undiscarded")
    /\ DeleteObject(SourceKey(f), ok)
    /\ UNCHANGED <<file, flags, queue>>

\* Slip: the result of the delete ignored.
RetiredStatusBlind(deleted) == "deleted"

RetiredStatus(deleted) == IF deleted THEN "deleted" ELSE "delete_pending"

\* ... then its row, to a status that says whether the object is known gone ...
DiscardRow(f, ok) ==
    /\ \E from \in {"discarded", "undiscarded"} :
          /\ Goto(f, from, "lookup")
          /\ \E applied \in Applied(ok) :
                SetStatus(f, {"uploading"}, RetiredStatus(from = "discarded"), applied)
    /\ UNCHANGED <<flags, queue, bucket>>

\* ... then the live row it collided with is looked up for the 409.
LookupOriginal(f, ok) ==
    /\ ok \/ "postgres" \in Faults
    /\ Goto(f, "lookup",
            IF ok /\ \E g \in Files : file[g] = "uploaded" /\ Content[g] = Content[f]
            THEN "duplicate" ELSE "internal")
    /\ UNCHANGED storeVars

Abandon(f) ==
    /\ "abandon" \in Faults
    /\ upload[f] \in InFlight
    /\ upload' = [upload EXCEPT ![f] = "gone"]
    /\ UNCHANGED storeVars

UploadStep(f, ok) ==
    \/ PutSource(f, ok)
    \/ CleanUpPut(f, ok)
    \/ RetireFailedPut(f, ok)
    \/ Flip(f, ok)
    \/ FlipCollides(f, ok)
    \/ DiscardObject(f, ok)
    \/ DiscardRow(f, ok)
    \/ LookupOriginal(f, ok)

\* One UPDATE, allowed from both live statuses: an uploading row is in the
\* owner's list, so its button is there to press.
DeleteAudio(f) ==
    /\ file[f] \in {"uploading", "uploaded"}
    /\ SetStatus(f, {"uploading", "uploaded"}, "delete_pending", TRUE)
    /\ UNCHANGED <<flags, queue, bucket, upload>>
=============================================================================
