----------------------------- MODULE AudioSystem -----------------------------
(***************************************************************************)
(* The api's requests and the workers over the shared stores: every file   *)
(* from its upload, through its transcodes, to the end of its deletion.    *)
(***************************************************************************)
EXTENDS Uploads, WorkerLoop

vars == <<file, flags, queue, bucket, upload, stage, job, attempt, batch, keys>>

Init == StoreInit /\ UploadInit /\ WorkerInit

User(f) == (InsertRow(f) \/ DeleteAudio(f)) /\ UNCHANGED workerVars
Api(f) == UploadStep(f, TRUE) /\ UNCHANGED workerVars
Worker(w) == CalmStep(w) /\ UNCHANGED upload
Clock(j) == AbandonedLeaseAges(j) /\ UNCHANGED upload

Calm ==
    \/ \E f \in Files : User(f) \/ Api(f)
    \/ \E w \in Workers : Worker(w)
    \/ \E j \in Jobs : Clock(j)

Fault ==
    \/ \E f \in Files : (UploadStep(f, FALSE) \/ Abandon(f)) /\ UNCHANGED workerVars
    \/ \E w \in Workers : FaultStep(w) /\ UNCHANGED upload
    \/ \E j \in Jobs : StalledLeaseAges(j) /\ UNCHANGED upload

Next == Calm \/ Fault

Spec == Init /\ [][Next]_vars

(***************************************************************************)
(* Fairness.  Outages, crashes and stalls end.  From then on every replica *)
(* keeps going round its loop (Kubernetes restarts one that died), its     *)
(* clock keeps making sweeps due, leases nobody renews get old, and an api *)
(* handler that is still there reaches its answer.  Nothing is assumed of  *)
(* users or of ffmpeg's verdict.                                           *)
(***************************************************************************)
Fairness ==
    /\ <>[][Calm]_vars
    /\ \A w \in Workers : WF_vars(Worker(w)) /\ SF_vars(SweepDue(w) /\ UNCHANGED upload)
    /\ \A j \in Jobs : WF_vars(Clock(j))
    /\ \A f \in Files : WF_vars(Api(f))

FairSpec == Spec /\ Fairness
-----------------------------------------------------------------------------
TypeOK == StoreTypeOK /\ UploadTypeOK /\ WorkerTypeOK

Dead == {"delete_pending", "deleted"}

(***************************************************************************)
(* What a client may be offered can be served: a live row has its source   *)
(* in the bucket, and every tier its flags advertise has its object,       *)
(* whatever died, stalled or was done twice on the way (upload_audio's     *)
(* clean-ups, run_job's guarded flag and its orphan delete, finalize).     *)
(***************************************************************************)
LiveServable ==
    \A f \in Files : file[f] = "uploaded" =>
        /\ SourceKey(f) \in bucket
        /\ \A t \in flags[f] : DerivativeKey(f, t) \in bucket

(***************************************************************************)
(* A worker holds its row at in_progress from the claim to the end of the  *)
(* PUT and up to its last transaction (sweep.rs, clear_resolved_jobs;      *)
(* docs/delete-lifecycle.md, "Why in_progress is the barrier").            *)
(***************************************************************************)
BarrierHolds ==
    \A w \in Workers : stage[w] \in Working \union {"commit"} =>
        queue[job[w]].status = "in_progress"

(***************************************************************************)
(* Once a file is 'deleted' none of its derivatives is in the bucket, and  *)
(* none appears later (finalize against run_job's PUT).                    *)
(***************************************************************************)
DeletedLeavesNoDerivative ==
    \A f \in Files : file[f] = "deleted" =>
        \A t \in Targets : DerivativeKey(f, t) \notin bucket

(***************************************************************************)
(* The same of the source: 'deleted' means the bucket is clean (finalize   *)
(* and discard_duplicate against upload_audio's PUT).                      *)
(***************************************************************************)
DeletedLeavesNoSource ==
    \A f \in Files : file[f] = "deleted" => SourceKey(f) \notin bucket

(***************************************************************************)
(* It does mean that of a delete that comes once the upload's PUT is over, *)
(* by an answer or by the client's going away: nothing puts the source     *)
(* back, and no sweep finishes the row before it has seen it go (finalize  *)
(* and discard_duplicate, whatever fails).                                 *)
(***************************************************************************)
PutEnded(f) == upload[f] \notin {"none", "put"}

LateDeleteLeavesNoSource ==
    \A f \in Files :
        [](PutEnded(f) /\ file[f] \notin Dead =>
              [](file[f] = "deleted" => SourceKey(f) \notin bucket))

(***************************************************************************)
(* A row is never left 'pending' past the cap, where nothing would select  *)
(* it (record_failure's choice of status).                                 *)
(***************************************************************************)
PendingIsClaimable ==
    \A j \in Jobs : queue[j].status = "pending" => Claimable(queue[j])

(***************************************************************************)
(* A live file has a queue row per tier, and one that says 'done' is one   *)
(* whose flag is set: the two go into one transaction at the flip and      *)
(* again at the end of run_job, and the sweep never touches a live file.   *)
(***************************************************************************)
LiveQueueConsistent ==
    \A f \in Files, t \in Targets : file[f] = "uploaded" =>
        /\ queue[<<f, t>>].status # "none"
        /\ queue[<<f, t>>].status = "done" => t \in flags[f]

(***************************************************************************)
(* A 201 keeps its word: the file is in the library, or was and has been   *)
(* deleted since, or its delete came before the flip, whose commit is      *)
(* answered 201 whether it matched the row or not.                         *)
(***************************************************************************)
CreatedMeansPublished ==
    \A f \in Files : upload[f] = "created" => file[f] \in {"uploaded"} \union Dead

(***************************************************************************)
(* The status only moves forward, whichever of an upload, a delete, a      *)
(* discard and any number of sweeps race for the row.                      *)
(***************************************************************************)
Successors ==
    [s \in FileStatus |->
        CASE s = "none" -> {"uploading"}
          [] s = "uploading" -> {"uploaded", "delete_pending", "deleted"}
          [] s = "uploaded" -> {"delete_pending"}
          [] s = "delete_pending" -> {"deleted"}
          [] s = "deleted" -> {}]

StatusOnlyAdvances ==
    [][\A f \in Files : file'[f] = file[f] \/ file'[f] \in Successors[file[f]]]_vars

(***************************************************************************)
(* A deleting file whose queue rows are gone never gets one back: what     *)
(* claim_free_files saw is still true when finalize acts on it.            *)
(***************************************************************************)
FreedStaysFree ==
    [][\A f \in Files : file[f] \in Dead /\ NoJobs(f) => NoJobs(f)']_vars

(***************************************************************************)
(* A discarded duplicate leaves nothing behind: when its row is 'deleted'  *)
(* its object is gone, and does not come back (discard_duplicate's choice  *)
(* between 'deleted' and 'delete_pending').                                *)
(***************************************************************************)
DuplicateLeavesNothing ==
    \A f \in Files : upload[f] \in {"lookup", "duplicate"} /\ file[f] = "deleted" =>
        SourceKey(f) \notin bucket

(***************************************************************************)
(* Nobody's upload is thrown away for nothing.  When the api sets out to   *)
(* discard it, the same bytes are live under another row and can be        *)
(* fetched: not a tombstone's, not a failed upload's, not those of another *)
(* upload on its way out.  And they remain so until the owner deletes such *)
(* a row, whatever workers, sweeps and other uploads do meanwhile          *)
(* (upload_audio's hand-over to discard_duplicate; the UNIQUE index of     *)
(* docs/delete-lifecycle.md, over live rows only).                         *)
(***************************************************************************)
Discarding == {"discard", "discarded", "undiscarded", "lookup", "duplicate"}

LiveCopies(f) == {g \in Files \ {f} : Content[g] = Content[f] /\ file[g] = "uploaded"}

HeldElsewhere(f) == \E g \in LiveCopies(f) : SourceKey(g) \in bucket

CopyDeleted(f) == \E g \in LiveCopies(f) : file'[g] = "delete_pending"

DiscardKeepsACopy ==
    [][\A f \in Files : upload'[f] \in Discarding =>
        /\ upload[f] \notin Discarding => HeldElsewhere(f)'
        /\ HeldElsewhere(f) => HeldElsewhere(f)' \/ CopyDeleted(f)]_vars

(***************************************************************************)
(* The runs of a job are numbered: each worker at it was given a number of *)
(* its own, whatever lapsed, crashed or failed meanwhile, and the row, for *)
(* as long as there is one, has counted them all.  So a job is run at most *)
(* MAX_ATTEMPTS times, and at most one worker judges itself to be the last *)
(* (claim_job's attempts + 1, record_failure's job.attempts).              *)
(***************************************************************************)
RunsNumbered ==
    \A w \in Workers : job[w] # NoJob =>
        /\ attempt[w] > 0
        /\ queue[job[w]].status # "none" => attempt[w] <= queue[job[w]].attempts
        /\ \A v \in Workers \ {w} : job[v] = job[w] => attempt[v] # attempt[w]
-----------------------------------------------------------------------------
(***************************************************************************)
(* The system implements the library it promises: a file's phase is its    *)
(* row's status, and what may be fetched is whatever of a live row's       *)
(* objects really is in the bucket.                                        *)
(***************************************************************************)
Phase ==
    [s \in FileStatus |->
        CASE s = "none" -> "absent"
          [] s = "uploading" -> "arriving"
          [] s = "uploaded" -> "live"
          [] s = "delete_pending" -> "leaving"
          [] s = "deleted" -> "gone"]

Fetchable ==
    {k \in bucket : /\ file[k[1]] = "uploaded"
                    /\ k = SourceKey(k[1]) \/ k[2] \in flags[k[1]]}

Library == INSTANCE AudioLibrary WITH
    phase <- [f \in Files |-> Phase[file[f]]], ready <- flags, fetchable <- Fetchable

ImplementsLibrary == Library!LibrarySpec
-----------------------------------------------------------------------------
(***************************************************************************)
(* Every delete a user asks for, and every failed upload handed over,      *)
(* reaches the end: the sweep converges (sweep_once, with the stranded     *)
(* arm of clear_resolved_jobs), and a file Garage never lets go of, ahead  *)
(* of the others in every batch, does not hold them up.                    *)
(***************************************************************************)
DeleteConverges ==
    \A f \in Files \ Refused : file[f] = "delete_pending" ~> file[f] = "deleted"

(***************************************************************************)
(* A claim resolves, unless its worker died holding the last attempt.      *)
(***************************************************************************)
ClaimResolvesBelowCap ==
    \A j \in Jobs : queue[j].status = "in_progress" ~>
        (queue[j].status # "in_progress" \/ queue[j].attempts = MaxAttempts)

(***************************************************************************)
(* A job that failed leaves in_progress: its failure is recorded, or else  *)
(* "the lease lapses and another worker re-claims it" (record_failure).    *)
(***************************************************************************)
FailureResolves ==
    \A w \in Workers, j \in Jobs :
        stage[w] \in {"retryable", "terminal"} /\ job[w] = j ~>
            queue[j].status # "in_progress"
=============================================================================
