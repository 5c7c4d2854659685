-------------------------- MODULE AudioSystemProofs --------------------------
(***************************************************************************)
(* What holds of AudioSystem for every set of files, tiers and replicas,   *)
(* every cap and batch, and every mix of faults.                           *)
(***************************************************************************)
EXTENDS AudioSystem, TLAPS

(***************************************************************************)
(* The next-state relation as a list of its actions, whichever of them     *)
(* errored.  The step lemmas below go through it.                          *)
(***************************************************************************)
ApiSteps(f) ==
    \/ InsertRow(f)
    \/ DeleteAudio(f)
    \/ Abandon(f)
    \/ \E ok \in BOOLEAN : UploadStep(f, ok)

WorkerSteps(w) ==
    \/ SweepDue(w) \/ SweepNotDue(w) \/ ClaimNothing(w)
    \/ ReadStatus(w) \/ Download(w) \/ TranscodeTick(w) \/ Transcode(w)
    \/ Exit(w) \/ Restart(w) \/ Crash(w) \/ ClaimFails(w)
    \/ \E j \in Jobs : Claim(w, j)
    \/ \E kind \in {"retryable", "terminal"} : RunFails(w, kind)
    \/ \E ok \in BOOLEAN : RequestStep(w, ok)

LEMMA NextCases ==
    ASSUME Next
    PROVE  \/ \E f \in Files : ApiSteps(f) /\ UNCHANGED workerVars
           \/ \E w \in Workers : WorkerSteps(w) /\ UNCHANGED upload
           \/ \E j \in Jobs : LeaseAges(j) /\ UNCHANGED upload
<1>1. CASE Calm
  <2>1. CASE \E f \in Files : User(f) \/ Api(f)
    BY <2>1 DEF User, Api, ApiSteps
  <2>2. CASE \E w \in Workers : Worker(w)
    BY <2>2 DEF Worker, CalmStep, WorkerSteps
  <2>3. CASE \E j \in Jobs : Clock(j)
    BY <2>3 DEF Clock, AbandonedLeaseAges
  <2> QED BY <1>1, <2>1, <2>2, <2>3 DEF Calm
<1>2. CASE Fault
  BY <1>2 DEF Fault, FaultStep, StalledLeaseAges, ApiSteps, WorkerSteps
<1> QED BY <1>1, <1>2 DEF Next
-----------------------------------------------------------------------------
(***************************************************************************)
(* Types.                                                                  *)
(***************************************************************************)
LEMMA AppliedType ==
    ASSUME NEW ok \in BOOLEAN, NEW applied \in Applied(ok)
    PROVE  applied \in BOOLEAN
BY DEF Applied

LEMMA RowTypes ==
    /\ NoRow \in Row
    /\ FreshRow \in Row
    /\ \A row \in Row, s \in JobStatus : Released(row, s) \in Row
<1>1. NoRow \in Row /\ FreshRow \in Row
  BY MaxAttemptsAssumption DEF NoRow, FreshRow, Row, JobStatus, LeaseAge
<1>2. ASSUME NEW row \in Row, NEW s \in JobStatus PROVE Released(row, s) \in Row
  BY DEF Released, Row, LeaseAge
<1> QED BY <1>1, <1>2

LEMMA KeyTypes ==
    /\ \A f \in Files : SourceKey(f) \in Keys /\ KeysOf(f) \subseteq Keys
    /\ \A f \in Files, t \in Targets : DerivativeKey(f, t) \in Keys
BY DEF Keys, KeysOf, SourceKey, DerivativeKey

LEMMA FirstBatchSubset == ASSUME NEW S PROVE FirstBatch(S) \subseteq S
BY DEF FirstBatch

LEMMA ApiType ==
    ASSUME TypeOK, NEW f \in Files, ApiSteps(f), UNCHANGED workerVars
    PROVE  TypeOK'
<1> USE RowTypes, KeyTypes DEF TypeOK, StoreTypeOK, UploadTypeOK, WorkerTypeOK, workerVars,
        storeVars, UploadState, InFlight, Answers, FileStatus
<1>1. CASE InsertRow(f)
  BY <1>1 DEF InsertRow, Goto
<1>2. CASE DeleteAudio(f)
  BY <1>2 DEF DeleteAudio, SetStatus
<1>3. CASE Abandon(f)
  BY <1>3 DEF Abandon
<1>4. ASSUME NEW ok \in BOOLEAN, UploadStep(f, ok) PROVE TypeOK'
  <2>1. CASE PutSource(f, ok)
    BY <2>1 DEF PutSource, Goto, PutObject
  <2>2. CASE CleanUpPut(f, ok)
    BY <2>2 DEF CleanUpPut, Goto, DeleteObject, Removed
  <2>3. CASE RetireFailedPut(f, ok)
    BY <2>3, AppliedType DEF RetireFailedPut, Goto, SetStatus
  <2>4. CASE Flip(f, ok)
    BY <2>4, AppliedType DEF Flip, Goto, SetStatus, Queued
  <2>5. CASE FlipCollides(f, ok)
    BY <2>5 DEF FlipCollides, Goto
  <2>6. CASE DiscardObject(f, ok)
    BY <2>6 DEF DiscardObject, Goto, DeleteObject, Removed
  <2>7. CASE DiscardRow(f, ok)
    BY <2>7, AppliedType DEF DiscardRow, Goto, SetStatus, RetiredStatus
  <2>8. CASE LookupOriginal(f, ok)
    BY <2>8 DEF LookupOriginal, Goto
  <2> QED BY <1>4, <2>1, <2>2, <2>3, <2>4, <2>5, <2>6, <2>7, <2>8 DEF UploadStep
<1> QED BY <1>1, <1>2, <1>3, <1>4 DEF ApiSteps

LEMMA JobTypes ==
    ASSUME TypeOK, NEW w \in Workers, job[w] \in Jobs
    PROVE  /\ job[w][1] \in Files
           /\ job[w][2] \in Targets
           /\ DerivativeKey(job[w][1], job[w][2]) \in Keys
BY KeyTypes DEF Jobs

LEMMA ResumeType ==
    ASSUME TypeOK, NEW w \in Workers, NEW S \in SUBSET Files, Resume(w, S)
    PROVE  /\ stage' \in [Workers -> Stage]
           /\ batch' \in [Workers -> SUBSET Files]
           /\ keys' \in [Workers -> SUBSET Keys]
BY KeyTypes DEF Resume, TypeOK, WorkerTypeOK, Stage, IsFirst, Sweeping

\* A worker with a job in hand, by stage.
HoldsJob ==
    \A w \in Workers :
        stage[w] \in Working \union Settling \union {"orphan"} => job[w] \in Jobs

LEMMA WorkerType ==
    ASSUME TypeOK, HoldsJob, NEW w \in Workers, WorkerSteps(w), UNCHANGED upload
    PROVE  TypeOK'
<1> USE RowTypes, KeyTypes DEF TypeOK, StoreTypeOK, UploadTypeOK, WorkerTypeOK, workerVars,
        storeVars, KeepJob, KeepSweep, DropJob, Advance, Stage, Working, Settling, Sweeping
<1>1. CASE SweepDue(w) \/ SweepNotDue(w) \/ ClaimNothing(w) \/ ReadStatus(w) \/ Download(w)
           \/ Transcode(w) \/ Exit(w) \/ Restart(w)
  BY <1>1 DEF SweepDue, SweepNotDue, ClaimNothing, ReadStatus, Download, Transcode, Exit, Restart
<1>2. CASE TranscodeTick(w)
  BY <1>2 DEF TranscodeTick, Renewed, HoldsJob, Row, LeaseAge
<1>3. CASE Crash(w)
  BY <1>3, MaxAttemptsAssumption DEF Crash
<1>4. CASE ClaimFails(w)
  BY <1>4, MaxAttemptsAssumption DEF ClaimFails, Claimable, Row, JobStatus, LeaseAge
<1>5. ASSUME NEW j \in Jobs, Claim(w, j) PROVE TypeOK'
  BY <1>5, MaxAttemptsAssumption DEF Claim, Claimable, Row, JobStatus, LeaseAge
<1>6. ASSUME NEW kind \in {"retryable", "terminal"}, RunFails(w, kind) PROVE TypeOK'
  BY <1>6 DEF RunFails
<1>7. ASSUME NEW ok \in BOOLEAN, RequestStep(w, ok) PROVE TypeOK'
  <2>1. CASE RenewLease(w, ok)
    BY <2>1 DEF RenewLease, Renewed, HoldsJob, Row, LeaseAge
  <2>2. CASE PutDerivative(w, ok)
    <3>1. job[w] \in Jobs
      BY <2>2 DEF PutDerivative, HoldsJob
    <3> QED BY <2>2, <3>1, JobTypes DEF PutDerivative, PutObject
  <2>3. CASE Commit(w, ok)
    <3>1. job[w] \in Jobs
      BY <2>3 DEF Commit, HoldsJob
    <3>2. PICK applied \in Applied(ok) :
              /\ flags' = IF applied /\ file[job[w][1]] = "uploaded"
                          THEN [flags EXCEPT ![job[w][1]] = @ \union {job[w][2]}] ELSE flags
              /\ queue' = IF applied
                          THEN [queue EXCEPT ![job[w]] = Released(@, "done")] ELSE queue
      BY <2>3 DEF Commit
    <3>3. flags' \in [Files -> SUBSET Targets]
      BY <3>1, <3>2, JobTypes
    <3>4. queue' \in [Jobs -> Row]
      BY <3>1, <3>2 DEF JobStatus
    <3>5. /\ file' = file /\ bucket' = bucket /\ batch' = batch /\ keys' = keys
          /\ stage' \in [Workers -> Stage]
      BY <2>3 DEF Commit
    <3>6. /\ job' \in [Workers -> Jobs \union {NoJob}]
          /\ attempt' \in [Workers -> 0..MaxAttempts]
      BY <2>3, MaxAttemptsAssumption DEF Commit
    <3> QED BY <3>3, <3>4, <3>5, <3>6
  <2>4. CASE DeleteOrphan(w, ok)
    <3>1. job[w] \in Jobs
      BY <2>4 DEF DeleteOrphan, HoldsJob
    <3> QED BY <2>4, <3>1, JobTypes, MaxAttemptsAssumption DEF DeleteOrphan, DeleteObject, Removed
  <2>5. CASE RecordFailure(w, ok)
    BY <2>5, MaxAttemptsAssumption DEF RecordFailure, FailedStatus, HoldsJob, JobStatus
  <2>6. CASE ClearResolvedJobs(w, ok)
    BY <2>6 DEF ClearResolvedJobs
  <2>7. CASE ClaimFreeFiles(w, ok)
    <3>1. /\ FirstBatch(Free) \in SUBSET Files
          /\ {} \in SUBSET Files
      BY FirstBatchSubset DEF Free
    <3> QED BY <2>7, <3>1, ResumeType DEF ClaimFreeFiles
  <2>8. CASE FinalizeObject(w, ok)
    BY <2>8, ResumeType DEF FinalizeObject, DeleteObject, Removed
  <2>9. CASE FinalizeRow(w, ok)
    BY <2>9, ResumeType, AppliedType DEF FinalizeRow, SetStatus, FileStatus
  <2> QED BY <1>7, <2>1, <2>2, <2>3, <2>4, <2>5, <2>6, <2>7, <2>8, <2>9 DEF RequestStep
<1> QED BY <1>1, <1>2, <1>3, <1>4, <1>5, <1>6, <1>7 DEF WorkerSteps

LEMMA ClockType ==
    ASSUME TypeOK, NEW j \in Jobs, LeaseAges(j), UNCHANGED upload
    PROVE  TypeOK'
BY DEF LeaseAges, TypeOK, StoreTypeOK, UploadTypeOK, WorkerTypeOK, workerVars, Row, LeaseAge
-----------------------------------------------------------------------------
(***************************************************************************)
(* The status moves forward, whoever races for the row.                    *)
(***************************************************************************)
Forward(f) == file'[f] = file[f] \/ file'[f] \in Successors[file[f]]

LEMMA SetStatusForward ==
    ASSUME StoreTypeOK, NEW f \in Files, NEW from, NEW s \in FileStatus, NEW applied,
           SetStatus(f, from, s, applied),
           \A old \in from \cap FileStatus : s \in Successors[old]
    PROVE  \A g \in Files : Forward(g)
BY DEF StoreTypeOK, SetStatus, Forward

LEMMA StepForward ==
    ASSUME TypeOK, Next
    PROVE  \A g \in Files : Forward(g)
<1> USE DEF TypeOK
<1>0. /\ "uploading" \in Successors["none"]
      /\ \A s \in {"uploaded", "delete_pending", "deleted"} : s \in Successors["uploading"]
      /\ "delete_pending" \in Successors["uploaded"]
      /\ "deleted" \in Successors["delete_pending"]
  BY DEF Successors, FileStatus
<1>1. SUFFICES ASSUME file' # file PROVE \A g \in Files : Forward(g)
  BY DEF Forward
<1>2. ASSUME NEW f \in Files, ApiSteps(f) PROVE \A g \in Files : Forward(g)
  <2>1. CASE InsertRow(f)
    BY <2>1, <1>0 DEF InsertRow, Forward, StoreTypeOK
  <2>2. CASE DeleteAudio(f)
    BY <2>2, <1>0, SetStatusForward DEF DeleteAudio, FileStatus
  <2>3. ASSUME NEW ok \in BOOLEAN, UploadStep(f, ok) PROVE \A g \in Files : Forward(g)
    <3>1. CASE RetireFailedPut(f, ok)
      BY <3>1, <1>0, SetStatusForward DEF RetireFailedPut, FileStatus
    <3>2. CASE Flip(f, ok)
      BY <3>2, <1>0, SetStatusForward DEF Flip, FileStatus
    <3>3. CASE DiscardRow(f, ok)
      BY <3>3, <1>0, SetStatusForward DEF DiscardRow, RetiredStatus, FileStatus
    <3> QED BY <2>3, <1>1, <3>1, <3>2, <3>3 DEF UploadStep, PutSource, CleanUpPut,
              FlipCollides, DiscardObject, LookupOriginal, storeVars
  <2> QED BY <1>1, <1>2, <2>1, <2>2, <2>3 DEF ApiSteps, Abandon, storeVars
<1>3. ASSUME NEW w \in Workers, WorkerSteps(w) PROVE \A g \in Files : Forward(g)
  <2>1. ASSUME NEW ok \in BOOLEAN, FinalizeRow(w, ok) PROVE \A g \in Files : Forward(g)
    <3>1. PICK f \in batch[w], applied \in Applied(ok) :
              SetStatus(f, {"delete_pending"}, "deleted", applied)
      BY <2>1 DEF FinalizeRow
    <3>2. f \in Files
      BY <3>1 DEF WorkerTypeOK
    <3> QED BY <3>1, <3>2, <1>0, SetStatusForward DEF FileStatus
  <2>2. CASE \E ok \in BOOLEAN : RequestStep(w, ok)
    BY <2>1, <2>2, <1>1 DEF RequestStep, RenewLease, PutDerivative, Commit, DeleteOrphan,
       RecordFailure, ClearResolvedJobs, ClaimFreeFiles, FinalizeObject, storeVars
  <2> QED BY <1>1, <1>3, <2>2 DEF WorkerSteps, SweepDue, SweepNotDue, ClaimNothing,
            ReadStatus, Download, TranscodeTick, Transcode, Exit, Restart, Crash, ClaimFails,
            Claim, RunFails, storeVars
<1>4. ASSUME NEW j \in Jobs, LeaseAges(j) PROVE \A g \in Files : Forward(g)
  BY <1>1, <1>4 DEF LeaseAges
<1> QED BY <1>2, <1>3, <1>4, NextCases
-----------------------------------------------------------------------------
(***************************************************************************)
(* What makes LiveServable inductive.  An object of a file that may still  *)
(* be live has only its own upload and its own workers to fear: an upload  *)
(* still in flight is of a row that is not live yet, and a worker bound to *)
(* delete something, in a sweep or as an orphan, holds keys of dead files. *)
(***************************************************************************)
UploadsApart ==
    \A f \in Files :
        /\ file[f] = "uploaded" => upload[f] \notin InFlight
        /\ file[f] = "uploading" /\ upload[f] = "flip" => SourceKey(f) \in bucket
        /\ file[f] \in {"none", "uploading"} => flags[f] = {}

Started == {"download", "renew", "transcode", "put", "commit"}

WorkerApart(w) ==
    /\ stage[w] \in Started => file[job[w][1]] \in {"uploaded"} \union Dead
    /\ stage[w] = "orphan" => file[job[w][1]] \in Dead
    /\ stage[w] = "commit" /\ file[job[w][1]] = "uploaded" =>
          DerivativeKey(job[w][1], job[w][2]) \in bucket

SweepApart(w) ==
    /\ \A f \in batch[w] : file[f] \in Dead
    /\ \A key \in keys[w] : file[key[1]] \in Dead

ServableInv ==
    /\ TypeOK
    /\ HoldsJob
    /\ UploadsApart
    /\ \A w \in Workers : WorkerApart(w) /\ SweepApart(w)
    /\ LiveServable

LEMMA StatusFacts ==
    ASSUME TypeOK, NEW g \in Files, Forward(g)
    PROVE  /\ file[g] \in Dead => file'[g] \in Dead
           /\ file[g] \in {"uploaded"} \union Dead => file'[g] \in {"uploaded"} \union Dead
           /\ file'[g] = "uploaded" => file[g] \in {"uploading", "uploaded"}
           /\ file'[g] \in {"none", "uploading"} => file[g] \in {"none", "uploading"}
BY DEF TypeOK, StoreTypeOK, FileStatus, Forward, Successors, Dead

LEMMA DistinctKeys ==
    ASSUME NEW f \in Files, NEW g \in Files, NEW t \in Targets, NEW u \in Targets
    PROVE  /\ DerivativeKey(g, t) # SourceKey(f)
           /\ SourceKey(f) = SourceKey(g) => f = g
           /\ DerivativeKey(f, t) = DerivativeKey(g, u) => f = g /\ t = u
BY TargetsAssumption DEF DerivativeKey, SourceKey

\* An upload touches the bucket at its own source key only, and takes that
\* away only where its row cannot be live.
LEMMA ApiServable ==
    ASSUME ServableInv, Next, NEW f \in Files, ApiSteps(f), UNCHANGED workerVars
    PROVE  /\ HoldsJob' /\ UploadsApart' /\ LiveServable'
           /\ \A w \in Workers : WorkerApart(w)' /\ SweepApart(w)'
<1> USE DEF ServableInv
<1>1. \A g \in Files : Forward(g)
  BY StepForward
<1>2. /\ flags' = flags
      /\ bucket' \in {bucket, bucket \union {SourceKey(f)}, bucket \ {SourceKey(f)}}
      /\ \A g \in Files \ {f} : file'[g] = file[g] /\ upload'[g] = upload[g]
  BY DEF ApiSteps, InsertRow, DeleteAudio, Abandon, UploadStep, PutSource, CleanUpPut,
     RetireFailedPut, Flip, FlipCollides, DiscardObject, DiscardRow, LookupOriginal, Goto,
     SetStatus, PutObject, DeleteObject, Removed, storeVars, TypeOK, StoreTypeOK, UploadTypeOK
<1>3. /\ file'[f] = "uploaded" => upload'[f] \notin InFlight /\ SourceKey(f) \in bucket'
      /\ file'[f] = "uploading" /\ upload'[f] = "flip" => SourceKey(f) \in bucket'
  <2> USE DEF InFlight, UploadsApart, LiveServable, Goto, storeVars, TypeOK, StoreTypeOK,
              UploadTypeOK, SetStatus
  <2>1. CASE InsertRow(f)
    BY <2>1 DEF InsertRow
  <2>2. CASE DeleteAudio(f)
    BY <2>2 DEF DeleteAudio
  <2>3. CASE Abandon(f)
    BY <2>3 DEF Abandon
  <2>4. ASSUME NEW ok \in BOOLEAN, UploadStep(f, ok)
        PROVE  /\ file'[f] = "uploaded" => upload'[f] \notin InFlight /\ SourceKey(f) \in bucket'
               /\ file'[f] = "uploading" /\ upload'[f] = "flip" => SourceKey(f) \in bucket'
    <3>1. CASE PutSource(f, ok)
      BY <3>1 DEF PutSource, PutObject
    <3>2. CASE CleanUpPut(f, ok)
      BY <3>2 DEF CleanUpPut
    <3>3. CASE RetireFailedPut(f, ok)
      BY <3>3 DEF RetireFailedPut
    <3>4. CASE Flip(f, ok)
      BY <3>4 DEF Flip
    <3>5. CASE FlipCollides(f, ok)
      BY <3>5 DEF FlipCollides
    <3>6. CASE DiscardObject(f, ok)
      BY <3>6 DEF DiscardObject
    <3>7. CASE DiscardRow(f, ok)
      BY <3>7 DEF DiscardRow, RetiredStatus
    <3>8. CASE LookupOriginal(f, ok)
      BY <3>8 DEF LookupOriginal
    <3> QED BY <2>4, <3>1, <3>2, <3>3, <3>4, <3>5, <3>6, <3>7, <3>8 DEF UploadStep
  <2> QED BY <2>1, <2>2, <2>3, <2>4 DEF ApiSteps
<1>4. \A g \in Files, t \in Targets :
          DerivativeKey(g, t) \in bucket' <=> DerivativeKey(g, t) \in bucket
  BY <1>2, DistinctKeys
<1>5. \A g \in Files \ {f} : SourceKey(g) \in bucket' <=> SourceKey(g) \in bucket
  BY <1>2 DEF SourceKey
<1>6. HoldsJob'
  BY DEF HoldsJob, workerVars
<1>7. UploadsApart'
  <2> SUFFICES ASSUME NEW g \in Files
               PROVE  /\ file'[g] = "uploaded" => upload'[g] \notin InFlight
                      /\ file'[g] = "uploading" /\ upload'[g] = "flip" => SourceKey(g) \in bucket'
                      /\ file'[g] \in {"none", "uploading"} => flags'[g] = {}
    BY DEF UploadsApart
  <2>1. file'[g] \in {"none", "uploading"} => flags'[g] = {}
    BY <1>1, <1>2, StatusFacts DEF UploadsApart
  <2> QED BY <2>1, <1>2, <1>3, <1>5 DEF UploadsApart
<1>8. ASSUME NEW w \in Workers PROVE WorkerApart(w)'
  <2>1. stage'[w] = stage[w] /\ job'[w] = job[w]
    BY DEF workerVars
  <2>2. CASE stage[w] \in Started \union {"orphan"}
    <3>1. job[w] \in Jobs
      BY <2>2 DEF HoldsJob, Started, Working, Settling
    <3>2. job[w][1] \in Files /\ job[w][2] \in Targets
      BY <3>1, JobTypes
    <3> QED BY <2>1, <3>2, <1>1, <1>4, StatusFacts DEF WorkerApart, Dead, Started
  <2> QED BY <2>1, <2>2 DEF Started, WorkerApart
<1>9. ASSUME NEW w \in Workers PROVE SweepApart(w)'
  <2>1. batch'[w] = batch[w] /\ keys'[w] = keys[w]
    BY DEF workerVars
  <2>2. \A k \in keys[w] : k[1] \in Files
    BY DEF TypeOK, WorkerTypeOK, Keys, KeysOf, SourceKey, DerivativeKey
  <2>3. batch[w] \subseteq Files
    BY DEF TypeOK, WorkerTypeOK
  <2> QED BY <2>1, <2>2, <2>3, <1>1, StatusFacts DEF SweepApart
<1>10. ASSUME NEW g \in Files, file'[g] = "uploaded"
       PROVE  SourceKey(g) \in bucket' /\ \A t \in flags'[g] : DerivativeKey(g, t) \in bucket'
  <2>1. SourceKey(g) \in bucket'
    BY <1>2, <1>3, <1>5, <1>10 DEF LiveServable
  <2>2. ASSUME NEW t \in flags'[g] PROVE DerivativeKey(g, t) \in bucket'
    <3>1. t \in Targets
      BY <1>2, <2>2 DEF TypeOK, StoreTypeOK
    \* A row just flipped has no flag yet.
    <3>2. file[g] = "uploaded"
      BY <1>1, <1>2, <1>10, <2>2, StatusFacts DEF UploadsApart
    <3> QED BY <3>1, <3>2, <1>2, <1>4, <2>2 DEF LiveServable
  <2> QED BY <2>1, <2>2
<1> QED BY <1>6, <1>7, <1>8, <1>9, <1>10 DEF LiveServable


\* What a worker does to the shared state: it removes keys of dead files
\* only, and flags a tier only of a live file whose derivative is there.
LEMMA WorkerEffects ==
    ASSUME ServableInv, NEW w \in Workers, WorkerSteps(w)
    PROVE  /\ \A key \in bucket \ bucket' : file[key[1]] \in Dead
           /\ \A g \in Files, t \in Targets :
                 t \in flags'[g] => \/ t \in flags[g]
                                    \/ file[g] = "uploaded" /\ DerivativeKey(g, t) \in bucket'
           /\ \A v \in Workers \ {w} :
                 /\ stage'[v] = stage[v] /\ job'[v] = job[v]
                 /\ batch'[v] = batch[v] /\ keys'[v] = keys[v]
<1> USE DEF ServableInv, TypeOK, StoreTypeOK, WorkerTypeOK, storeVars, workerVars, KeepJob,
        KeepSweep, DropJob, Advance
<1>1. CASE SweepDue(w) \/ SweepNotDue(w) \/ ClaimNothing(w) \/ ReadStatus(w) \/ Download(w)
           \/ TranscodeTick(w) \/ Transcode(w) \/ Exit(w) \/ Restart(w) \/ Crash(w) \/ ClaimFails(w)
  BY <1>1 DEF SweepDue, SweepNotDue, ClaimNothing, ReadStatus, Download, TranscodeTick,
     Transcode, Exit, Restart, Crash, ClaimFails
<1>2. CASE \/ \E j \in Jobs : Claim(w, j)
           \/ \E kind \in {"retryable", "terminal"} : RunFails(w, kind)
  BY <1>2 DEF Claim, RunFails
<1>3. ASSUME NEW ok \in BOOLEAN, RequestStep(w, ok)
      PROVE  /\ \A key \in bucket \ bucket' : file[key[1]] \in Dead
             /\ \A g \in Files, t \in Targets :
                   t \in flags'[g] => \/ t \in flags[g]
                                      \/ file[g] = "uploaded" /\ DerivativeKey(g, t) \in bucket'
             /\ \A v \in Workers \ {w} :
                   /\ stage'[v] = stage[v] /\ job'[v] = job[v]
                   /\ batch'[v] = batch[v] /\ keys'[v] = keys[v]
  <2>1. CASE RenewLease(w, ok) \/ RecordFailure(w, ok) \/ ClearResolvedJobs(w, ok)
    BY <2>1 DEF RenewLease, RecordFailure, ClearResolvedJobs
  <2>2. CASE ClaimFreeFiles(w, ok) \/ FinalizeRow(w, ok)
    BY <2>2 DEF ClaimFreeFiles, FinalizeRow, Resume
  <2>3. CASE PutDerivative(w, ok)
    BY <2>3 DEF PutDerivative, PutObject
  <2>4. CASE Commit(w, ok)
    <3>1. job[w] \in Jobs
      BY <2>4 DEF Commit, HoldsJob, Settling
    <3>2. /\ bucket' = bucket /\ stage[w] = "commit"
          /\ \/ flags' = flags
             \/ /\ file[job[w][1]] = "uploaded"
                /\ flags' = [flags EXCEPT ![job[w][1]] = @ \union {job[w][2]}]
      BY <2>4 DEF Commit
    <3>3. \A g \in Files, t \in Targets :
             t \in flags'[g] => \/ t \in flags[g]
                                \/ file[g] = "uploaded" /\ DerivativeKey(g, t) \in bucket'
      BY <3>1, <3>2, JobTypes DEF WorkerApart
    <3> QED BY <2>4, <3>2, <3>3 DEF Commit
  <2>5. CASE DeleteOrphan(w, ok)
    <3>1. /\ file[job[w][1]] \in Dead
          /\ DerivativeKey(job[w][1], job[w][2])[1] = job[w][1]
      BY <2>5 DEF DeleteOrphan, WorkerApart, DerivativeKey
    <3> QED BY <2>5, <3>1 DEF DeleteOrphan, DeleteObject, Removed
  <2>6. CASE FinalizeObject(w, ok)
    BY <2>6 DEF FinalizeObject, DeleteObject, Removed, SweepApart, Resume
  <2> QED BY <1>3, <2>1, <2>2, <2>3, <2>4, <2>5, <2>6 DEF RequestStep
<1> QED BY <1>1, <1>2, <1>3 DEF WorkerSteps

LEMMA ResumeApart ==
    ASSUME ServableInv, NEW w \in Workers, NEW S \in SUBSET Files, Resume(w, S),
           \A f \in S : file'[f] \in Dead
    PROVE  SweepApart(w)' /\ stage'[w] \in {"claim", "finalize"}
<1>1. \A f \in Files : \A k \in KeysOf(f) : k[1] = f
  BY DEF KeysOf, SourceKey, DerivativeKey
<1> QED BY <1>1 DEF ServableInv, TypeOK, WorkerTypeOK, Resume, SweepApart, IsFirst

\* What a worker does to itself.
LEMMA WorkerOwn ==
    ASSUME ServableInv, \A g \in Files : Forward(g), NEW w \in Workers, WorkerSteps(w)
    PROVE  /\ stage'[w] \in Working \union Settling \union {"orphan"} => job'[w] \in Jobs
           /\ WorkerApart(w)'
           /\ SweepApart(w)'
<1> USE DEF ServableInv, TypeOK, StoreTypeOK, WorkerTypeOK, storeVars, workerVars, KeepJob,
        KeepSweep, DropJob, Advance, Started, Working, Settling, HoldsJob
<1>a. /\ batch[w] \subseteq Files
      /\ \A k \in keys[w] : k[1] \in Files
  BY DEF Keys, KeysOf, SourceKey, DerivativeKey
<1>b. batch'[w] \subseteq batch[w] /\ keys'[w] \subseteq keys[w] => SweepApart(w)'
  BY <1>a, StatusFacts DEF SweepApart
<1>1. CASE SweepDue(w) \/ SweepNotDue(w) \/ ClaimNothing(w) \/ Exit(w) \/ Restart(w) \/ ClaimFails(w)
  BY <1>1, <1>b DEF SweepDue, SweepNotDue, ClaimNothing, Exit, Restart, ClaimFails, WorkerApart
<1>2. CASE Crash(w)
  BY <1>2, <1>b DEF Crash, WorkerApart
<1>3. CASE ReadStatus(w) \/ Download(w) \/ TranscodeTick(w) \/ Transcode(w)
  BY <1>3, <1>b DEF ReadStatus, Download, TranscodeTick, Transcode, WorkerApart
<1>4. ASSUME NEW j \in Jobs, Claim(w, j)
      PROVE  job'[w] \in Jobs /\ WorkerApart(w)' /\ SweepApart(w)'
  BY <1>4, <1>b DEF Claim, WorkerApart
<1>5. ASSUME NEW kind \in {"retryable", "terminal"}, RunFails(w, kind)
      PROVE  job'[w] \in Jobs /\ WorkerApart(w)' /\ SweepApart(w)'
  BY <1>5, <1>b DEF RunFails, WorkerApart
<1>6. ASSUME NEW ok \in BOOLEAN, RequestStep(w, ok)
      PROVE  /\ stage'[w] \in Working \union Settling \union {"orphan"} => job'[w] \in Jobs
             /\ WorkerApart(w)'
             /\ SweepApart(w)'
  <2>1. CASE RenewLease(w, ok)
    BY <2>1, <1>b DEF RenewLease, WorkerApart
  <2>2. CASE PutDerivative(w, ok)
    BY <2>2, <1>b DEF PutDerivative, PutObject, WorkerApart
  <2>3. CASE Commit(w, ok)
    BY <2>3, <1>b DEF Commit, WorkerApart
  <2>4. CASE DeleteOrphan(w, ok) \/ RecordFailure(w, ok) \/ ClearResolvedJobs(w, ok)
    BY <2>4, <1>b DEF DeleteOrphan, RecordFailure, ClearResolvedJobs, WorkerApart
  <2>5. CASE ClaimFreeFiles(w, ok)
    <3>1. /\ FirstBatch(Free) \in SUBSET Files
          /\ {} \in SUBSET Files
          /\ \A f \in FirstBatch(Free) : file[f] \in Dead
      BY FirstBatchSubset DEF Free, Dead
    <3>2. file' = file
      BY <2>5 DEF ClaimFreeFiles
    <3> QED BY <2>5, <3>1, <3>2, ResumeApart DEF ClaimFreeFiles, WorkerApart
  <2>6. CASE FinalizeObject(w, ok)
    <3>1. file' = file
      BY <2>6 DEF FinalizeObject
    <3>2. \A f \in batch[w] : file'[f] \in Dead
      BY <3>1 DEF SweepApart
    <3>3. CASE \E f \in batch[w] : Resume(w, batch[w] \ {f})
      BY <3>2, <3>3, ResumeApart DEF WorkerApart
    <3>4. CASE ~\E f \in batch[w] : Resume(w, batch[w] \ {f})
      BY <2>6, <3>4, <1>b DEF FinalizeObject, WorkerApart
    <3> QED BY <3>3, <3>4
  <2>7. CASE FinalizeRow(w, ok)
    <3>1. PICK f \in batch[w] : Resume(w, batch[w] \ {f})
      BY <2>7 DEF FinalizeRow
    <3>2. \A g \in batch[w] : file'[g] \in Dead
      BY <1>a, StatusFacts DEF SweepApart
    <3> QED BY <3>1, <3>2, ResumeApart DEF WorkerApart
  <2> QED BY <1>6, <2>1, <2>2, <2>3, <2>4, <2>5, <2>6, <2>7 DEF RequestStep
<1> QED BY <1>1, <1>2, <1>3, <1>4, <1>5, <1>6 DEF WorkerSteps

\* The only status a worker writes is 'deleted'.
LEMMA WorkerFile ==
    ASSUME TypeOK, NEW w \in Workers, WorkerSteps(w)
    PROVE  \A g \in Files : file'[g] = file[g] \/ file'[g] \in Dead
<1> USE DEF TypeOK, StoreTypeOK, storeVars
<1>1. CASE \E ok \in BOOLEAN : FinalizeRow(w, ok)
  BY <1>1 DEF FinalizeRow, SetStatus, Dead
<1>2. CASE ~\E ok \in BOOLEAN : FinalizeRow(w, ok)
  BY <1>2 DEF WorkerSteps, SweepDue, SweepNotDue, ClaimNothing, ReadStatus, Download,
     TranscodeTick, Transcode, Exit, Restart, Crash, ClaimFails, Claim, RunFails, RequestStep,
     RenewLease, PutDerivative, Commit, DeleteOrphan, RecordFailure, ClearResolvedJobs,
     ClaimFreeFiles, FinalizeObject
<1> QED BY <1>1, <1>2

LEMMA WorkerServable ==
    ASSUME ServableInv, TypeOK', Next, NEW w \in Workers, WorkerSteps(w), UNCHANGED upload
    PROVE  /\ HoldsJob' /\ UploadsApart' /\ LiveServable'
           /\ \A v \in Workers : WorkerApart(v)' /\ SweepApart(v)'
<1>1. \A g \in Files : Forward(g)
  BY StepForward DEF ServableInv
<1>2. \A g \in Files : file'[g] \notin Dead => file'[g] = file[g]
  BY WorkerFile DEF ServableInv
<1>3. /\ \A key \in bucket \ bucket' : file[key[1]] \in Dead
      /\ \A g \in Files, t \in Targets :
            t \in flags'[g] => \/ t \in flags[g]
                               \/ file[g] = "uploaded" /\ DerivativeKey(g, t) \in bucket'
      /\ \A v \in Workers \ {w} :
            /\ stage'[v] = stage[v] /\ job'[v] = job[v]
            /\ batch'[v] = batch[v] /\ keys'[v] = keys[v]
  BY WorkerEffects
<1>4. /\ stage'[w] \in Working \union Settling \union {"orphan"} => job'[w] \in Jobs
      /\ WorkerApart(w)'
      /\ SweepApart(w)'
  BY <1>1, WorkerOwn
\* Objects of files that are not dead stay.
<1>5. ASSUME NEW g \in Files, file[g] \notin Dead
      PROVE  /\ SourceKey(g) \in bucket => SourceKey(g) \in bucket'
             /\ \A t \in Targets : DerivativeKey(g, t) \in bucket => DerivativeKey(g, t) \in bucket'
  BY <1>3, <1>5 DEF SourceKey, DerivativeKey
<1>6. HoldsJob'
  BY <1>3, <1>4 DEF HoldsJob, ServableInv
<1>7. UploadsApart'
  <2> SUFFICES ASSUME NEW g \in Files
               PROVE  /\ file'[g] = "uploaded" => upload'[g] \notin InFlight
                      /\ file'[g] = "uploading" /\ upload'[g] = "flip" => SourceKey(g) \in bucket'
                      /\ file'[g] \in {"none", "uploading"} => flags'[g] = {}
    BY DEF UploadsApart
  <2>1. file'[g] = "uploaded" => upload'[g] \notin InFlight
    BY <1>2 DEF UploadsApart, ServableInv, Dead
  <2>2. file'[g] = "uploading" /\ upload'[g] = "flip" => SourceKey(g) \in bucket'
    BY <1>2, <1>5 DEF UploadsApart, ServableInv, Dead
  <2>3. ASSUME file'[g] \in {"none", "uploading"} PROVE flags'[g] = {}
    <3>1. file[g] = file'[g] /\ flags[g] = {}
      BY <1>2, <2>3 DEF UploadsApart, ServableInv, Dead
    <3>2. flags'[g] \subseteq Targets
      BY DEF TypeOK, StoreTypeOK
    <3> QED BY <3>1, <3>2, <2>3, <1>3
  <2> QED BY <2>1, <2>2, <2>3
<1>8. ASSUME NEW v \in Workers \ {w} PROVE WorkerApart(v)'
  <2>1. stage'[v] = stage[v] /\ job'[v] = job[v] /\ WorkerApart(v)
    BY <1>3 DEF ServableInv
  <2>2. CASE stage[v] \in Started \union {"orphan"}
    <3>1. job[v][1] \in Files /\ job[v][2] \in Targets
      BY <2>2, JobTypes DEF ServableInv, HoldsJob, Started, Working, Settling
    <3>2. /\ file[job[v][1]] \in Dead => file'[job[v][1]] \in Dead
          /\ file[job[v][1]] \in {"uploaded"} \union Dead =>
                file'[job[v][1]] \in {"uploaded"} \union Dead
      BY <3>1, <1>1, StatusFacts DEF ServableInv
    <3>3. ASSUME stage[v] = "commit", file'[job[v][1]] = "uploaded"
          PROVE  DerivativeKey(job[v][1], job[v][2]) \in bucket'
      BY <3>1, <3>3, <2>1, <1>2, <1>5 DEF WorkerApart, Dead
    <3> QED BY <2>1, <3>2, <3>3 DEF WorkerApart, Started
  <2> QED BY <2>1, <2>2 DEF WorkerApart, Started
<1>9. ASSUME NEW v \in Workers \ {w} PROVE SweepApart(v)'
  <2>1. batch'[v] = batch[v] /\ keys'[v] = keys[v]
    BY <1>3
  <2>2. \A k \in keys[v] : k[1] \in Files
    BY DEF ServableInv, TypeOK, WorkerTypeOK, Keys, KeysOf, SourceKey, DerivativeKey
  <2>3. batch[v] \subseteq Files
    BY DEF ServableInv, TypeOK, WorkerTypeOK
  <2> QED BY <2>1, <2>2, <2>3, <1>1, StatusFacts DEF SweepApart, ServableInv
<1>10. ASSUME NEW g \in Files, file'[g] = "uploaded"
       PROVE  SourceKey(g) \in bucket' /\ \A t \in flags'[g] : DerivativeKey(g, t) \in bucket'
  <2>1. file[g] = "uploaded" /\ file[g] \notin Dead
    BY <1>2, <1>10 DEF Dead
  <2>2. SourceKey(g) \in bucket'
    BY <2>1, <1>5 DEF LiveServable, ServableInv
  <2>3. ASSUME NEW t \in flags'[g] PROVE DerivativeKey(g, t) \in bucket'
    <3>1. t \in Targets
      BY <2>3 DEF TypeOK, StoreTypeOK
    <3> QED BY <3>1, <2>1, <2>3, <1>3, <1>5 DEF LiveServable, ServableInv
  <2> QED BY <2>2, <2>3
<1> QED BY <1>4, <1>6, <1>7, <1>8, <1>9, <1>10 DEF LiveServable

LEMMA ServableInit == Init => ServableInv
<1> SUFFICES ASSUME Init PROVE ServableInv
  OBVIOUS
<1> USE DEF Init, StoreInit, UploadInit, WorkerInit
<1>1. TypeOK
  BY RowTypes, MaxAttemptsAssumption DEF TypeOK, StoreTypeOK, UploadTypeOK, WorkerTypeOK,
     FileStatus, UploadState, Stage
<1>2. HoldsJob /\ UploadsApart /\ LiveServable
  BY DEF HoldsJob, UploadsApart, LiveServable, Working, Settling, InFlight
<1>3. \A w \in Workers : WorkerApart(w) /\ SweepApart(w)
  BY DEF WorkerApart, SweepApart, Started
<1> QED BY <1>1, <1>2, <1>3 DEF ServableInv

LEMMA ServableNext == ServableInv /\ [Next]_vars => ServableInv'
<1> SUFFICES ASSUME ServableInv, [Next]_vars PROVE ServableInv'
  OBVIOUS
<1>1. CASE UNCHANGED vars
  BY <1>1 DEF vars, ServableInv, TypeOK, StoreTypeOK, UploadTypeOK, WorkerTypeOK, HoldsJob,
     UploadsApart, WorkerApart, SweepApart, LiveServable
<1>2. ASSUME Next, NEW f \in Files, ApiSteps(f), UNCHANGED workerVars PROVE ServableInv'
  <2>1. TypeOK'
    BY <1>2, ApiType DEF ServableInv
  <2> QED BY <1>2, <2>1, ApiServable DEF ServableInv
<1>3. ASSUME Next, NEW w \in Workers, WorkerSteps(w), UNCHANGED upload PROVE ServableInv'
  <2>1. TypeOK'
    BY <1>3, WorkerType DEF ServableInv
  <2> QED BY <1>3, <2>1, WorkerServable DEF ServableInv
<1>4. ASSUME NEW j \in Jobs, LeaseAges(j), UNCHANGED upload PROVE ServableInv'
  <2>1. TypeOK'
    BY <1>4, ClockType DEF ServableInv
  <2> QED BY <1>4, <2>1 DEF LeaseAges, workerVars, ServableInv, HoldsJob, UploadsApart,
            WorkerApart, SweepApart, LiveServable
<1> QED BY <1>1, <1>2, <1>3, <1>4, NextCases

LEMMA ServableAlways == Spec => []ServableInv
BY ServableInit, ServableNext, PTL DEF Spec
-----------------------------------------------------------------------------
(***************************************************************************)
(* Every variable keeps to its type: in particular no claim ever takes a   *)
(* row past MAX_ATTEMPTS (claim_job's WHERE).                              *)
(***************************************************************************)
THEOREM TypeCorrect == Spec => []TypeOK
<1>1. ServableInv => TypeOK
  BY DEF ServableInv
<1> QED BY <1>1, ServableAlways, PTL

(***************************************************************************)
(* A live row has its source in the bucket and an object for every tier    *)
(* its flags advertise, whatever dies, stalls or is done twice.            *)
(***************************************************************************)
THEOREM Servable == Spec => []LiveServable
<1>1. ServableInv => LiveServable
  BY DEF ServableInv
<1> QED BY <1>1, ServableAlways, PTL

(***************************************************************************)
(* No step of any request or worker takes a row's status backwards.        *)
(***************************************************************************)
THEOREM StatusAdvances == Spec => StatusOnlyAdvances
<1>1. ServableInv /\ [Next]_vars =>
          [\A f \in Files : file'[f] = file[f] \/ file'[f] \in Successors[file[f]]]_vars
  BY StepForward DEF ServableInv, Forward
<1> QED BY <1>1, ServableAlways, PTL DEF Spec, StatusOnlyAdvances
=============================================================================
