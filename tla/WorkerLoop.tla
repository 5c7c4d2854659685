----------------------------- MODULE WorkerLoop -----------------------------
(***************************************************************************)
(* The worker: main's claim loop, run_job with what it calls, and          *)
(* record_failure; and the deletion sweep that shares the loop.            *)
(*                                                                         *)
(* stage[w] is the next thing worker w awaits.  job[w] and attempt[w] are  *)
(* the Job it holds in memory (attempts is the value its claim returned),  *)
(* batch[w] and keys[w] the files its sweep still has to finalize and the  *)
(* keys of the first one still to delete.  All of it dies with the         *)
(* process; a restarted replica starts at the top of the loop.  A replica  *)
(* that drains leaves from the top of the loop.                            *)
(***************************************************************************)
EXTENDS AudioStore

VARIABLES stage, job, attempt, batch, keys

workerVars == <<stage, job, attempt, batch, keys>>

\* From the claim to the PUT of the derivative.
Working == {"lookup", "download", "renew", "transcode", "put"}
Settling == {"commit", "retryable", "terminal"}
Sweeping == {"clear", "select", "finalize"}
Stage == {"down", "top", "claim", "orphan"} \union Working \union Settling \union Sweeping

WorkerTypeOK ==
    /\ stage \in [Workers -> Stage]
    /\ job \in [Workers -> Jobs \union {NoJob}]
    /\ attempt \in [Workers -> 0..MaxAttempts]
    /\ batch \in [Workers -> SUBSET Files]
    /\ keys \in [Workers -> SUBSET Keys]

WorkerInit ==
    /\ stage = [w \in Workers |-> "top"]
    /\ job = [w \in Workers |-> NoJob]
    /\ attempt = [w \in Workers |-> 0]
    /\ batch = [w \in Workers |-> {}]
    /\ keys = [w \in Workers |-> {}]

Advance(w, from, to) ==
    /\ stage[w] = from
    /\ stage' = [stage EXCEPT ![w] = to]

Postgres(ok) == ok \/ "postgres" \in Faults

KeepJob == UNCHANGED <<job, attempt>>
KeepSweep == UNCHANGED <<batch, keys>>
DropJob(w) ==
    /\ job' = [job EXCEPT ![w] = NoJob]
    /\ attempt' = [attempt EXCEPT ![w] = 0]
-----------------------------------------------------------------------------
(***************************************************************************)
(* main: sweep if SWEEP_EVERY has elapsed, then claim.                     *)
(***************************************************************************)
SweepDue(w) == Advance(w, "top", "clear") /\ KeepJob /\ KeepSweep /\ UNCHANGED storeVars
SweepNotDue(w) == Advance(w, "top", "claim") /\ KeepJob /\ KeepSweep /\ UNCHANGED storeVars

\* The claim query orders by created_at and skips rows another claim has
\* locked; which claimable row it returns is left open.
Claim(w, j) ==
    /\ Claimable(queue[j])
    /\ Advance(w, "claim", "lookup")
    /\ queue' = [queue EXCEPT ![j] = [status |-> "in_progress", holder |-> w,
                                      attempts |-> @.attempts + 1, lease |-> "held"]]
    /\ job' = [job EXCEPT ![w] = j]
    /\ attempt' = [attempt EXCEPT ![w] = queue[j].attempts + 1]
    /\ UNCHANGED <<file, flags, bucket>> /\ KeepSweep

ClaimNothing(w) ==
    /\ \A j \in Jobs : ~Claimable(queue[j])
    /\ Advance(w, "claim", "top")
    /\ UNCHANGED storeVars /\ KeepJob /\ KeepSweep

\* The claim errors; if it was applied, the row waits for its lease to lapse.
ClaimFails(w) ==
    /\ "postgres" \in Faults
    /\ Advance(w, "claim", "top")
    /\ \/ UNCHANGED queue
       \/ \E j \in Jobs :
             /\ Claimable(queue[j])
             /\ queue' = [queue EXCEPT ![j] = [status |-> "in_progress", holder |-> w,
                                               attempts |-> @.attempts + 1, lease |-> "held"]]
    /\ UNCHANGED <<file, flags, bucket>> /\ KeepJob /\ KeepSweep
-----------------------------------------------------------------------------
(***************************************************************************)
(* run_job.  ffmpeg, ffprobe and the scratch disk may fail at any attempt, *)
(* either way (Retryable or Terminal).                                     *)
(***************************************************************************)
\* reset_scratch, then SELECT s3_key, status.
ReadStatus(w) ==
    /\ Advance(w, "lookup", IF file[job[w][1]] = "uploaded" THEN "download" ELSE "terminal")
    /\ UNCHANGED storeVars /\ KeepJob /\ KeepSweep

\* A missing source is a 404, which classify_s3 makes Terminal.
Download(w) ==
    /\ Advance(w, "download",
               IF SourceKey(job[w][1]) \in bucket THEN "renew" ELSE "terminal")
    /\ UNCHANGED storeVars /\ KeepJob /\ KeepSweep

\* UPDATE ... SET lease_expires_at WHERE id AND worker_id = me AND in_progress
Renewed(w, applied) ==
    queue' = IF /\ applied
                /\ queue[job[w]].holder = w
                /\ queue[job[w]].status = "in_progress"
             THEN [queue EXCEPT ![job[w]].lease = "held"] ELSE queue

RenewLease(w, ok) ==
    /\ Advance(w, "renew", "transcode")
    /\ \E applied \in Applied(ok) : Renewed(w, applied)
    /\ UNCHANGED <<file, flags, bucket>> /\ KeepJob /\ KeepSweep

\* ffprobe, then ffmpeg, renewing off its progress ticks.
TranscodeTick(w) ==
    /\ stage[w] = "transcode"
    /\ Renewed(w, TRUE)
    /\ UNCHANGED <<file, flags, bucket, stage>> /\ KeepJob /\ KeepSweep

Transcode(w) ==
    /\ Advance(w, "transcode", "put")
    /\ UNCHANGED storeVars /\ KeepJob /\ KeepSweep

\* Any step of run_job up to the PUT fails on its own account: the scratch
\* disk, a query, Garage, the binaries (Retryable); the input, an empty
\* output, a 4xx (Terminal).
RunFails(w, kind) ==
    /\ stage[w] \in {"lookup", "download", "transcode", "put"}
    /\ kind = "terminal" => stage[w] # "lookup"
    /\ stage' = [stage EXCEPT ![w] = kind]
    /\ UNCHANGED storeVars /\ KeepJob /\ KeepSweep

\* Slip: the result of the PUT ignored.
PutDerivativeBlind(w, ok) ==
    /\ Advance(w, "put", "commit")
    /\ PutObject(DerivativeKey(job[w][1], job[w][2]), ok)
    /\ UNCHANGED <<file, flags, queue>> /\ KeepJob /\ KeepSweep

PutDerivative(w, ok) ==
    /\ Advance(w, "put", IF ok THEN "commit" ELSE "retryable")
    /\ PutObject(DerivativeKey(job[w][1], job[w][2]), ok)
    /\ UNCHANGED <<file, flags, queue>> /\ KeepJob /\ KeepSweep

\* The last transaction: the flag guarded on 'uploaded', the job row not.
Commit(w, ok) ==
    LET f == job[w][1]
        live == file[f] = "uploaded"
    IN  /\ Advance(w, "commit", IF ~ok THEN "retryable" ELSE IF live THEN "top" ELSE "orphan")
        /\ \E applied \in Applied(ok) :
              /\ flags' = IF applied /\ live
                          THEN [flags EXCEPT ![f] = @ \union {job[w][2]}] ELSE flags
              /\ queue' = IF applied
                          THEN [queue EXCEPT ![job[w]] = Released(@, "done")] ELSE queue
        /\ IF ok /\ live THEN DropJob(w) ELSE KeepJob
        /\ UNCHANGED <<file, bucket>> /\ KeepSweep

\* A delete landed while the job ran: the worker removes what it wrote.
DeleteOrphan(w, ok) ==
    /\ Advance(w, "orphan", "top")
    /\ DeleteObject(DerivativeKey(job[w][1], job[w][2]), ok)
    /\ DropJob(w)
    /\ UNCHANGED <<file, flags, queue>> /\ KeepSweep

\* Slip: an off-by-one at the cap.
FailedStatusPastCap(kind, attempts) ==
    IF kind = "retryable" /\ attempts <= MaxAttempts THEN "pending" ELSE "failed"

FailedStatus(kind, attempts) ==
    IF kind = "retryable" /\ attempts < MaxAttempts THEN "pending" ELSE "failed"

\* Slip: the failed attempt is not counted.
RecordFailureUncounted(w, ok) ==
    /\ \E kind \in {"retryable", "terminal"} :
          /\ Advance(w, kind, "top")
          /\ \E applied \in Applied(ok) :
                queue' = IF applied /\ queue[job[w]].status # "none"
                         THEN [queue EXCEPT ![job[w]] =
                                 [Released(@, FailedStatus(kind, attempt[w])) EXCEPT
                                    !.attempts = attempt[w] - 1]]
                         ELSE queue
    /\ DropJob(w)
    /\ UNCHANGED <<file, flags, bucket>> /\ KeepSweep

\* record_failure: what becomes of the row is decided on the attempts this
\* worker's own claim returned, and written whoever holds the row by now.
RecordFailure(w, ok) ==
    /\ \E kind \in {"retryable", "terminal"} :
          /\ Advance(w, kind, "top")
          /\ \E applied \in Applied(ok) :
                queue' = IF applied
                         THEN [queue EXCEPT ![job[w]] =
                                 Released(@, FailedStatus(kind, attempt[w]))]
                         ELSE queue
    /\ DropJob(w)
    /\ UNCHANGED <<file, flags, bucket>> /\ KeepSweep
-----------------------------------------------------------------------------
(***************************************************************************)
(* sweep_once.  A statement that fails ends the pass; the next redoes it.  *)
(***************************************************************************)
\* Slip: the files' status left out of the WHERE.
ClearResolvedJobsOfAnyFile(w, ok) ==
    /\ Advance(w, "clear", IF ok THEN "select" ELSE "claim")
    /\ \E applied \in Applied(ok) :
          queue' = IF applied
                   THEN [j \in Jobs |-> IF Clearable(queue[j]) THEN NoRow ELSE queue[j]]
                   ELSE queue
    /\ UNCHANGED <<file, flags, bucket>> /\ KeepJob /\ KeepSweep

ClearResolvedJobs(w, ok) ==
    /\ Advance(w, "clear", IF ok THEN "select" ELSE "claim")
    /\ \E applied \in Applied(ok) :
          queue' = IF applied
                   THEN [j \in Jobs |-> IF file[j[1]] = "delete_pending" /\ Clearable(queue[j])
                                        THEN NoRow ELSE queue[j]]
                   ELSE queue
    /\ UNCHANGED <<file, flags, bucket>> /\ KeepJob /\ KeepSweep

\* The BATCH lowest ids, and the first of a set.
FirstBatch(S) == {f \in S : Cardinality({g \in S : g < f}) < Batch}
IsFirst(f, S) == f \in S /\ \A g \in S : f <= g

\* Slip: the barrier check forgotten.
FreeAlready == {f \in Files : file[f] = "delete_pending"}

Free == {f \in Files : file[f] = "delete_pending" /\ NoJobs(f)}

\* The sweep moves on to the first file of S, or back to the loop.
Resume(w, S) ==
    /\ batch' = [batch EXCEPT ![w] = S]
    /\ IF S = {}
       THEN stage' = [stage EXCEPT ![w] = "claim"] /\ keys' = [keys EXCEPT ![w] = {}]
       ELSE /\ stage' = [stage EXCEPT ![w] = "finalize"]
            /\ \E f \in S : IsFirst(f, S) /\ keys' = [keys EXCEPT ![w] = KeysOf(f)]

ClaimFreeFiles(w, ok) ==
    /\ stage[w] = "select"
    /\ Postgres(ok)
    /\ Resume(w, IF ok THEN FirstBatch(Free) ELSE {})
    /\ UNCHANGED storeVars /\ KeepJob

\* Slip: the result of a delete ignored.
FinalizeObjectBlind(w, ok) ==
    /\ stage[w] = "finalize"
    /\ \E f \in batch[w], key \in keys[w] :
          /\ IsFirst(f, batch[w])
          /\ SourceKey(f) \in keys[w] => key = SourceKey(f)
          /\ DeleteObject(key, ok)
          /\ keys' = [keys EXCEPT ![w] = @ \ {key}]
    /\ UNCHANGED <<file, flags, queue, stage, batch>> /\ KeepJob

\* finalize: every key, the source first; the first error gives the file up.
FinalizeObject(w, ok) ==
    /\ stage[w] = "finalize"
    /\ \E f \in batch[w], key \in keys[w] :
          /\ IsFirst(f, batch[w])
          /\ SourceKey(f) \in keys[w] => key = SourceKey(f)
          /\ DeleteObject(key, ok)
          /\ IF Removed(key, ok)
             THEN keys' = [keys EXCEPT ![w] = @ \ {key}] /\ UNCHANGED <<stage, batch>>
             ELSE Resume(w, batch[w] \ {f})
    /\ UNCHANGED <<file, flags, queue>> /\ KeepJob

\* The status write, last and only if every delete succeeded.
FinalizeRow(w, ok) ==
    /\ stage[w] = "finalize" /\ keys[w] = {}
    /\ \E f \in batch[w], applied \in Applied(ok) :
          /\ IsFirst(f, batch[w])
          /\ SetStatus(f, {"delete_pending"}, "deleted", applied)
          /\ Resume(w, batch[w] \ {f})
    /\ UNCHANGED <<flags, queue, bucket>> /\ KeepJob
-----------------------------------------------------------------------------
Crash(w) ==
    /\ "crash" \in Faults
    /\ stage[w] # "down"
    /\ stage' = [stage EXCEPT ![w] = "down"]
    /\ DropJob(w)
    /\ batch' = [batch EXCEPT ![w] = {}]
    /\ keys' = [keys EXCEPT ![w] = {}]
    /\ UNCHANGED storeVars

\* SIGTERM: the loop's condition, looked at between turns.
Exit(w) == Advance(w, "top", "down") /\ KeepJob /\ KeepSweep /\ UNCHANGED storeVars

Restart(w) == Advance(w, "down", "top") /\ KeepJob /\ KeepSweep /\ UNCHANGED storeVars

\* Steps whose request succeeds (ok) or errors (~ok).
RequestStep(w, ok) ==
    \/ RenewLease(w, ok)
    \/ PutDerivative(w, ok)
    \/ Commit(w, ok)
    \/ DeleteOrphan(w, ok)
    \/ RecordFailure(w, ok)
    \/ ClearResolvedJobs(w, ok)
    \/ ClaimFreeFiles(w, ok)
    \/ FinalizeObject(w, ok)
    \/ FinalizeRow(w, ok)

\* What a worker does while nothing it depends on is failing.  A transcode
\* that fails is part of it.
CalmStep(w) ==
    \/ SweepDue(w)
    \/ SweepNotDue(w)
    \/ \E j \in Jobs : Claim(w, j)
    \/ ClaimNothing(w)
    \/ ReadStatus(w)
    \/ Download(w)
    \/ TranscodeTick(w)
    \/ Transcode(w)
    \/ \E kind \in {"retryable", "terminal"} : RunFails(w, kind)
    \/ RequestStep(w, TRUE)
    \/ Exit(w)
    \/ Restart(w)

FaultStep(w) ==
    \/ ClaimFails(w)
    \/ RequestStep(w, FALSE)
    \/ Crash(w)
-----------------------------------------------------------------------------
(***************************************************************************)
(* Time.  The lease of a row whose worker is at work on it does not lapse  *)
(* (it is renewed in time) unless the worker stalls: a download or a PUT   *)
(* that outlasts the lease, or renewals that fail.                         *)
(***************************************************************************)
AtWorkOn(w, j) == job[w] = j /\ queue[j].holder = w

LeaseAges(j) ==
    /\ queue[j].status = "in_progress"
    /\ \E from \in {"held", "lapsed"} :
          /\ queue[j].lease = from
          /\ queue' = [queue EXCEPT ![j].lease =
                          IF from = "held" THEN "lapsed" ELSE "stranded"]
    /\ UNCHANGED <<file, flags, bucket>> /\ UNCHANGED workerVars

AbandonedLeaseAges(j) == LeaseAges(j) /\ \A w \in Workers : ~AtWorkOn(w, j)

StalledLeaseAges(j) ==
    /\ "stall" \in Faults
    /\ LeaseAges(j)
    /\ \E w \in Workers : AtWorkOn(w, j)
=============================================================================
