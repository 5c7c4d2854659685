----------------------------- MODULE AudioStore -----------------------------
(***************************************************************************)
(* The two stores every process of the system shares.                      *)
(*                                                                         *)
(*   file, flags   the table audio_files (status, has_<target> columns)    *)
(*   queue         the table transcode_jobs, one row per <<file, target>>  *)
(*   bucket        the keys that hold an object in the S3 bucket           *)
(*                                                                         *)
(* One operator per SQL statement or S3 call the code issues.  A statement *)
(* is atomic (Postgres runs each one in a transaction of its own, or in    *)
(* the transaction the code opens); the interleavings are between them.    *)
(*                                                                         *)
(* Left out as data no property reads: user_id, filename and content_hash  *)
(* (the constant Content says which files agree on all three), public_id,  *)
(* duration_seconds, deleted_at, last_error and the timestamps, of which   *)
(* only the age of a lease is kept.                                        *)
(***************************************************************************)
EXTENDS Integers, FiniteSets

CONSTANTS
    Files,          \* primary keys of audio_files
    Targets,        \* TARGETS: the derivative tiers
    Workers,        \* worker_id of each replica
    NoWorker,       \* a NULL worker_id
    NoJob,          \* a worker that holds no Job
    Content,        \* Content[f]: the (user, filename, bytes) of upload f
    MaxAttempts,    \* MAX_ATTEMPTS
    Batch,          \* BATCH
    Refused,        \* files whose objects Garage never agrees to delete
    Faults          \* what the environment may inject

FaultKinds == {"abandon", "crash", "garage", "postgres", "stall"}

ASSUME FilesAssumption == Files \subseteq Nat
ASSUME WorkersAssumption == NoWorker \notin Workers
ASSUME JobAssumption == NoJob \notin Files \X Targets
ASSUME MaxAttemptsAssumption == MaxAttempts \in Nat \ {0}
ASSUME BatchAssumption == Batch \in Nat \ {0}
ASSUME RefusedAssumption == Refused \subseteq Files
ASSUME TargetsAssumption == "source" \notin Targets
ASSUME ContentAssumption == DOMAIN Content = Files
ASSUME FaultsAssumption == Faults \subseteq FaultKinds

VARIABLES file, flags, queue, bucket

storeVars == <<file, flags, queue, bucket>>
-----------------------------------------------------------------------------
Jobs == Files \X Targets

\* s3_key and derivative_key: a random token per row and a suffix per target,
\* so the keys of two files never meet.
SourceKey(f) == <<f, "source">>
DerivativeKey(f, t) == <<f, t>>
KeysOf(f) == {SourceKey(f)} \union {DerivativeKey(f, t) : t \in Targets}
Keys == UNION {KeysOf(f) : f \in Files}

\* "none" stands for a row that does not exist.
FileStatus == {"none", "uploading", "uploaded", "delete_pending", "deleted"}
JobStatus == {"none", "pending", "in_progress", "done", "failed"}

\* lease_expires_at against now(): unset, in the future, in the past, and in
\* the past by more than STRANDED_AFTER.
LeaseAge == {"null", "held", "lapsed", "stranded"}

Row == [status : JobStatus, attempts : 0..MaxAttempts,
        holder : Workers \union {NoWorker}, lease : LeaseAge]

NoRow == [status |-> "none", attempts |-> 0, holder |-> NoWorker, lease |-> "null"]
FreshRow == [NoRow EXCEPT !.status = "pending"]

StoreTypeOK ==
    /\ file \in [Files -> FileStatus]
    /\ flags \in [Files -> SUBSET Targets]
    /\ queue \in [Jobs -> Row]
    /\ bucket \subseteq Keys

StoreInit ==
    /\ file = [f \in Files |-> "none"]
    /\ flags = [f \in Files |-> {}]
    /\ queue = [j \in Jobs |-> NoRow]
    /\ bucket = {}
-----------------------------------------------------------------------------
(***************************************************************************)
(* S3.  An error does not say whether the object was written or removed.   *)
(***************************************************************************)
PutObject(key, ok) ==
    /\ ok \/ "garage" \in Faults
    /\ bucket' \in IF ok THEN {bucket \union {key}} ELSE {bucket, bucket \union {key}}

\* What the caller of a DELETE learns.  A refusal lasts: the key's part of
\* Garage stays without a quorum when everything else is well again.
Removed(key, ok) == ok /\ key[1] \notin Refused

DeleteObject(key, ok) ==
    /\ ok \/ "garage" \in Faults
    /\ \/ key[1] \notin Refused /\ bucket' = bucket \ {key}
       \/ ~Removed(key, ok) /\ UNCHANGED bucket

(***************************************************************************)
(* Postgres.  A statement that returns an error was either not applied or  *)
(* applied with its acknowledgement lost.                                  *)
(***************************************************************************)
Applied(ok) == {applied \in BOOLEAN : IF ok THEN applied ELSE "postgres" \in Faults}

\* Slip: the UPDATE without its status guard.
SetStatusUnguarded(f, from, s, applied) ==
    file' = IF applied THEN [file EXCEPT ![f] = s] ELSE file

\* UPDATE audio_files SET status = s WHERE id = f AND status IN from
SetStatus(f, from, s, applied) ==
    file' = IF applied /\ file[f] \in from THEN [file EXCEPT ![f] = s] ELSE file

\* Slip: no index.
CollidesNever(f) == FALSE

\* Slip: an index that sees tombstones too.
CollidesTombstones(f) ==
    \E g \in Files \ {f} : file[g] \notin {"none", "uploading"} /\ Content[g] = Content[f]

\* The partial UNIQUE index over the live rows.
Collides(f) == \E g \in Files \ {f} : file[g] = "uploaded" /\ Content[g] = Content[f]

\* UPDATE transcode_jobs SET status = s, worker_id = NULL,
\*     lease_expires_at = NULL WHERE id = j
Released(row, s) ==
    IF row.status = "none"
    THEN row
    ELSE [row EXCEPT !.status = s, !.holder = NoWorker, !.lease = "null"]

\* Slips: an off-by-one at the cap; lapsed leases forgotten.
ClaimablePastCap(row) ==
    /\ row.attempts <= MaxAttempts
    /\ \/ row.status = "pending"
       \/ row.status = "in_progress" /\ row.lease \in {"lapsed", "stranded"}

ClaimablePendingOnly(row) == row.attempts < MaxAttempts /\ row.status = "pending"

\* WHERE of claim_job.
Claimable(row) ==
    /\ row.attempts < MaxAttempts
    /\ \/ row.status = "pending"
       \/ row.status = "in_progress" /\ row.lease \in {"lapsed", "stranded"}

\* Slips: the queue cleared wholesale; no arm for a dead worker at the cap.
ClearableAll(row) == row.status # "none"
ClearableResolvedOnly(row) == row.status # "in_progress"

\* WHERE of clear_resolved_jobs, for a deleting file.
Clearable(row) ==
    \/ row.status # "in_progress"
    \/ row.attempts >= MaxAttempts /\ row.lease = "stranded"

\* NOT EXISTS (SELECT 1 FROM transcode_jobs WHERE audio_file_id = f)
NoJobs(f) == \A t \in Targets : queue[<<f, t>>].status = "none"
=============================================================================
