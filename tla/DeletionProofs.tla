--------------------------- MODULE DeletionProofs ---------------------------
(***************************************************************************)
(* What 'deleted' means, for every set of files, tiers and replicas: a     *)
(* discarded duplicate leaves nothing whatever fails, and was a copy of    *)
(* something; no source is left of a file deleted after its PUT; and no    *)
(* derivative is left of any deleted file, as long as no lease lapses      *)
(* under a worker that is at work, for then in_progress is the barrier it  *)
(* is meant to be.  Also how the runs of a job are numbered, and which     *)
(* files a batch of the sweep takes.                                       *)
(***************************************************************************)
EXTENDS LibraryProofs, FiniteSetTheorems, WellFoundedInduction

(***************************************************************************)
(* The row of a worker's job is its own, as it claimed it, until it is     *)
(* done with it.  A last transaction that was applied, with its answer     *)
(* lost, leaves a row the worker has yet to write once more; by then it is *)
(* done, or a sweep may have cleared it.                                   *)
(***************************************************************************)
Barred == Working \union {"commit"}
Owning == Barred \union {"retryable", "terminal"}

Holding(w) ==
    /\ queue[job[w]].status = "in_progress"
    /\ queue[job[w]].holder = w
    /\ queue[job[w]].lease = "held"
    /\ queue[job[w]].attempts = attempt[w]

Resolved(w) ==
    \/ queue[job[w]].status = "none"
    \/ queue[job[w]].status = "done" /\ queue[job[w]].attempts = attempt[w]

OwnRow(w) ==
    /\ stage[w] \in Barred => Holding(w)
    /\ stage[w] \in Owning => /\ Holding(w) \/ Resolved(w)
                              /\ file[job[w][1]] \notin {"none", "uploading"}

Alone ==
    \A v, w \in Workers :
        v # w /\ stage[v] \in Owning /\ stage[w] \in Owning => job[v] # job[w]

BarrierInv ==
    /\ QueueInv
    /\ \A w \in Workers : OwnRow(w)
    /\ Alone
    /\ PendingIsClaimable

LEMMA OwningJob ==
    ASSUME TypeOK, HoldsJob, NEW w \in Workers, stage[w] \in Owning
    PROVE  job[w] \in Jobs /\ job[w][1] \in Files /\ job[w][2] \in Targets
           /\ job[w] = <<job[w][1], job[w][2]>>
BY DEF HoldsJob, Owning, Barred, Settling, Jobs

\* A worker writes a row it may claim, or its own; or its sweep clears it.
LEMMA WorkerTouches ==
    ASSUME TypeOK, HoldsJob, NEW w \in Workers, WorkerSteps(w), NEW j \in Jobs
    PROVE  \/ queue'[j] = queue[j]
           \/ Claimable(queue[j]) /\ queue'[j].status = "in_progress"
           \/ stage[w] \in Owning /\ job[w] = j
           \/ Clearable(queue[j]) /\ queue'[j] = NoRow
<1> USE DEF TypeOK, StoreTypeOK, WorkerTypeOK, storeVars
<1>1. CASE SweepDue(w) \/ SweepNotDue(w) \/ ClaimNothing(w) \/ ReadStatus(w) \/ Download(w)
           \/ Transcode(w) \/ Exit(w) \/ Restart(w) \/ Crash(w)
           \/ \E kind \in {"retryable", "terminal"} : RunFails(w, kind)
  BY <1>1 DEF SweepDue, SweepNotDue, ClaimNothing, ReadStatus, Download, Transcode, Exit,
     Restart, Crash, RunFails
<1>2. CASE ClaimFails(w) \/ \E i \in Jobs : Claim(w, i)
  BY <1>2 DEF ClaimFails, Claim
<1>3. CASE TranscodeTick(w)
  BY <1>3 DEF TranscodeTick, Renewed, Owning, Barred, Working
<1>4. ASSUME NEW ok \in BOOLEAN, RequestStep(w, ok)
      PROVE  \/ queue'[j] = queue[j]
             \/ stage[w] \in Owning /\ job[w] = j
             \/ Clearable(queue[j]) /\ queue'[j] = NoRow
  <2>1. CASE RenewLease(w, ok)
    BY <2>1 DEF RenewLease, Renewed, Advance, Owning, Barred, Working
  <2>2. CASE PutDerivative(w, ok) \/ DeleteOrphan(w, ok) \/ ClaimFreeFiles(w, ok)
             \/ FinalizeObject(w, ok) \/ FinalizeRow(w, ok)
    BY <2>2 DEF PutDerivative, DeleteOrphan, ClaimFreeFiles, FinalizeObject, FinalizeRow
  <2>3. CASE Commit(w, ok)
    BY <2>3 DEF Commit, Advance, Owning, Barred
  <2>4. CASE RecordFailure(w, ok)
    BY <2>4 DEF RecordFailure, Advance, Owning
  <2>5. CASE ClearResolvedJobs(w, ok)
    BY <2>5 DEF ClearResolvedJobs
  <2> QED  BY <1>4, <2>1, <2>2, <2>3, <2>4, <2>5 DEF RequestStep
<1> QED  BY <1>1, <1>2, <1>3, <1>4 DEF WorkerSteps

\* Where a worker comes from to a stage at which it owns a row.
LEMMA OwningFrom ==
    ASSUME TypeOK, NEW w \in Workers, WorkerSteps(w), stage'[w] \in Owning
    PROVE  \/ \E j \in Jobs : Claim(w, j)
           \/ /\ stage[w] \in Owning
              /\ job'[w] = job[w] /\ attempt'[w] = attempt[w]
              /\ stage[w] \notin Barred => stage'[w] \notin Barred
<1> USE DEF TypeOK, WorkerTypeOK, storeVars, workerVars, KeepJob, KeepSweep, DropJob, Advance,
        Owning, Barred, Working
<1>1. CASE SweepDue(w) \/ SweepNotDue(w) \/ ClaimNothing(w) \/ ReadStatus(w) \/ Download(w)
           \/ TranscodeTick(w) \/ Transcode(w) \/ Exit(w) \/ Restart(w) \/ Crash(w)
           \/ ClaimFails(w) \/ \E kind \in {"retryable", "terminal"} : RunFails(w, kind)
  BY <1>1 DEF SweepDue, SweepNotDue, ClaimNothing, ReadStatus, Download, TranscodeTick,
     Transcode, Exit, Restart, Crash, ClaimFails, RunFails
<1>2. ASSUME NEW ok \in BOOLEAN, RequestStep(w, ok)
      PROVE  /\ stage[w] \in Owning
             /\ job'[w] = job[w] /\ attempt'[w] = attempt[w]
             /\ stage[w] \notin Barred => stage'[w] \notin Barred
  <2>1. CASE RenewLease(w, ok) \/ PutDerivative(w, ok) \/ Commit(w, ok) \/ DeleteOrphan(w, ok)
             \/ RecordFailure(w, ok) \/ ClearResolvedJobs(w, ok)
    BY <2>1 DEF RenewLease, PutDerivative, Commit, DeleteOrphan, RecordFailure, ClearResolvedJobs
  <2>2. CASE ClaimFreeFiles(w, ok) \/ FinalizeObject(w, ok) \/ FinalizeRow(w, ok)
    BY <2>2 DEF ClaimFreeFiles, FinalizeObject, FinalizeRow, Resume
  <2> QED  BY <1>2, <2>1, <2>2 DEF RequestStep
<1> QED  BY <1>1, <1>2 DEF WorkerSteps

\* What a worker may find of its own row after a step that keeps the job.
LEMMA OwnRowAfter ==
    ASSUME TypeOK, HoldsJob, NEW w \in Workers, OwnRow(w), WorkerSteps(w),
           stage[w] \in Owning, stage'[w] \in Owning, job'[w] = job[w]
    PROVE  \/ queue'[job[w]] = queue[job[w]]
           \/ /\ stage[w] = "commit" /\ stage'[w] = "retryable"
              /\ queue'[job[w]] = Released(queue[job[w]], "done")
<1> USE DEF TypeOK, StoreTypeOK, WorkerTypeOK, storeVars, workerVars, KeepJob, KeepSweep,
        DropJob, Advance, Owning, Barred, Working
<1>1. job[w] \in Jobs
  BY OwningJob
<1>2. Holding(w) => [queue[job[w]] EXCEPT !.lease = "held"] = queue[job[w]]
  BY <1>1 DEF Holding, Row
<1>3. CASE TranscodeTick(w)
  BY <1>1, <1>2, <1>3 DEF TranscodeTick, Renewed, OwnRow
<1>4. CASE \/ SweepDue(w) \/ SweepNotDue(w) \/ ClaimNothing(w) \/ ReadStatus(w) \/ Download(w)
           \/ Transcode(w) \/ Exit(w) \/ Restart(w) \/ Crash(w)
           \/ \E kind \in {"retryable", "terminal"} : RunFails(w, kind)
  BY <1>4 DEF SweepDue, SweepNotDue, ClaimNothing, ReadStatus, Download, Transcode, Exit,
     Restart, Crash, RunFails
<1>5. CASE ClaimFails(w) \/ \E j \in Jobs : Claim(w, j)
  BY <1>5 DEF ClaimFails, Claim
<1>6. ASSUME NEW ok \in BOOLEAN, RequestStep(w, ok)
      PROVE  \/ queue'[job[w]] = queue[job[w]]
             \/ /\ stage[w] = "commit" /\ stage'[w] = "retryable"
                /\ queue'[job[w]] = Released(queue[job[w]], "done")
  <2>1. CASE RenewLease(w, ok)
    BY <1>1, <1>2, <2>1 DEF RenewLease, Renewed, OwnRow
  <2>2. CASE PutDerivative(w, ok) \/ DeleteOrphan(w, ok)
    BY <2>2 DEF PutDerivative, DeleteOrphan
  <2>3. CASE Commit(w, ok)
    BY <1>1, <2>3 DEF Commit
  <2>4. CASE RecordFailure(w, ok) \/ ClearResolvedJobs(w, ok)
    BY <2>4 DEF RecordFailure, ClearResolvedJobs
  <2>5. CASE ClaimFreeFiles(w, ok) \/ FinalizeObject(w, ok) \/ FinalizeRow(w, ok)
    BY <2>5 DEF ClaimFreeFiles, FinalizeObject, FinalizeRow
  <2> QED  BY <1>6, <2>1, <2>2, <2>3, <2>4, <2>5 DEF RequestStep
<1> QED  BY <1>3, <1>4, <1>5, <1>6 DEF WorkerSteps

\* Worker v takes no part.
KeepsTo(v) ==
    /\ stage'[v] = stage[v] /\ job'[v] = job[v] /\ attempt'[v] = attempt[v]
    /\ batch'[v] = batch[v] /\ keys'[v] = keys[v]

LEMMA OtherWorkers ==
    ASSUME TypeOK, NEW w \in Workers, WorkerSteps(w), NEW v \in Workers \ {w}
    PROVE  KeepsTo(v)
<1> USE DEF TypeOK, WorkerTypeOK, KeepJob, KeepSweep, DropJob, Advance, storeVars, workerVars,
        KeepsTo
<1>1. CASE SweepDue(w) \/ SweepNotDue(w) \/ ClaimNothing(w) \/ ReadStatus(w) \/ Download(w)
           \/ TranscodeTick(w) \/ Transcode(w) \/ Exit(w) \/ Restart(w) \/ Crash(w)
           \/ ClaimFails(w) \/ \E kind \in {"retryable", "terminal"} : RunFails(w, kind)
           \/ \E j \in Jobs : Claim(w, j)
  BY <1>1 DEF SweepDue, SweepNotDue, ClaimNothing, ReadStatus, Download, TranscodeTick,
     Transcode, Exit, Restart, Crash, ClaimFails, RunFails, Claim
<1>2. ASSUME NEW ok \in BOOLEAN, RequestStep(w, ok)
      PROVE  KeepsTo(v)
  <2>1. CASE RenewLease(w, ok) \/ PutDerivative(w, ok) \/ Commit(w, ok) \/ DeleteOrphan(w, ok)
             \/ RecordFailure(w, ok) \/ ClearResolvedJobs(w, ok)
    BY <2>1 DEF RenewLease, PutDerivative, Commit, DeleteOrphan, RecordFailure, ClearResolvedJobs
  <2>2. CASE ClaimFreeFiles(w, ok) \/ FinalizeObject(w, ok) \/ FinalizeRow(w, ok)
    BY <2>2 DEF ClaimFreeFiles, FinalizeObject, FinalizeRow, Resume
  <2> QED  BY <1>2, <2>1, <2>2 DEF RequestStep
<1> QED  BY <1>1, <1>2 DEF WorkerSteps

\* A row is made pending by the failure of an attempt below the cap.
LEMMA PendingAfter ==
    ASSUME BarrierInv, TypeOK, HoldsJob, NEW w \in Workers, WorkerSteps(w)
    PROVE  PendingIsClaimable'
<1> USE DEF TypeOK, StoreTypeOK, WorkerTypeOK, storeVars
<1> SUFFICES ASSUME NEW j \in Jobs, queue'[j].status = "pending" PROVE Claimable(queue'[j])
  BY DEF PendingIsClaimable
<1>0. CASE queue'[j] = queue[j]
  BY <1>0 DEF BarrierInv, PendingIsClaimable
<1>1. CASE SweepDue(w) \/ SweepNotDue(w) \/ ClaimNothing(w) \/ ReadStatus(w) \/ Download(w)
           \/ Transcode(w) \/ Exit(w) \/ Restart(w) \/ Crash(w)
           \/ \E kind \in {"retryable", "terminal"} : RunFails(w, kind)
  BY <1>0, <1>1 DEF SweepDue, SweepNotDue, ClaimNothing, ReadStatus, Download, Transcode, Exit,
     Restart, Crash, RunFails
<1>2. CASE ClaimFails(w) \/ \E i \in Jobs : Claim(w, i)
  BY <1>0, <1>2 DEF ClaimFails, Claim
<1>3. CASE TranscodeTick(w)
  BY <1>0, <1>3 DEF TranscodeTick, Renewed, Row
<1>4. ASSUME NEW ok \in BOOLEAN, RequestStep(w, ok) PROVE Claimable(queue'[j])
  <2>1. CASE RenewLease(w, ok)
    BY <1>0, <2>1 DEF RenewLease, Renewed, Row
  <2>2. CASE PutDerivative(w, ok) \/ DeleteOrphan(w, ok) \/ ClaimFreeFiles(w, ok)
             \/ FinalizeObject(w, ok) \/ FinalizeRow(w, ok)
    BY <1>0, <2>2 DEF PutDerivative, DeleteOrphan, ClaimFreeFiles, FinalizeObject, FinalizeRow
  <2>3. CASE Commit(w, ok)
    BY <1>0, <2>3 DEF Commit, Released, Row
  <2>4. CASE RecordFailure(w, ok)
    <3>1. PICK kind \in {"retryable", "terminal"}, applied \in Applied(ok) :
             /\ stage[w] = kind
             /\ queue' = IF applied
                         THEN [queue EXCEPT ![job[w]] = Released(@, FailedStatus(kind, attempt[w]))]
                         ELSE queue
      BY <2>4 DEF RecordFailure, Advance
    <3>2. CASE queue'[j] # queue[j]
      <4>1. j = job[w] /\ queue'[j] = Released(queue[j], FailedStatus(kind, attempt[w]))
        BY <3>1, <3>2
      <4>2. queue[j].status # "none"
        BY <3>2, <4>1 DEF Released
      <4>3. FailedStatus(kind, attempt[w]) = "pending" /\ queue'[j].attempts = queue[j].attempts
        BY <4>1, <4>2 DEF Released, Row
      <4>4. attempt[w] < MaxAttempts
        BY <4>3 DEF FailedStatus
      <4>5. queue[j].attempts = attempt[w]
        BY <3>1, <4>1, <4>2 DEF BarrierInv, OwnRow, Owning, Holding, Resolved
      <4> QED  BY <4>3, <4>4, <4>5 DEF Claimable
    <3> QED  BY <1>0, <3>2
  <2>5. CASE ClearResolvedJobs(w, ok)
    BY <1>0, <2>5 DEF ClearResolvedJobs, NoRow
  <2> QED  BY <1>4, <2>1, <2>2, <2>3, <2>4, <2>5 DEF RequestStep
<1> QED  BY <1>1, <1>2, <1>3, <1>4 DEF WorkerSteps

\* The barrier through a step of worker w.
LEMMA WorkerBarrier ==
    ASSUME BarrierInv, QueueInv', Next, NEW w \in Workers, WorkerSteps(w)
    PROVE  BarrierInv'
<1> USE DEF BarrierInv
<1>1. TypeOK /\ HoldsJob /\ TypeOK' /\ HoldsJob'
  BY DEF QueueInv, ServableInv
<1>2. \A v \in Workers : stage[v] \in Owning => job[v] \in Jobs
  BY <1>1, OwningJob
<1>3. \A g \in Files : file[g] \notin {"none", "uploading"} => file'[g] \notin {"none", "uploading"}
  BY <1>1, StepForward, StatusFacts
<1>4. \A v \in Workers \ {w} :
         stage'[v] = stage[v] /\ job'[v] = job[v] /\ attempt'[v] = attempt[v]
  BY <1>1, OtherWorkers DEF KeepsTo
\* Nobody else's row can be claimed, and only a resolved one cleared.
<1>5. ASSUME NEW v \in Workers, stage[v] \in Owning
      PROVE  /\ ~Claimable(queue[job[v]])
             /\ Clearable(queue[job[v]]) => Resolved(v)
  BY <1>5 DEF OwnRow, Holding, Resolved, Claimable, Clearable
<1>6. ASSUME NEW v \in Workers \ {w} PROVE OwnRow(v)'
  <2>1. CASE stage[v] \notin Owning
    BY <1>4, <2>1 DEF OwnRow, Owning
  <2>2. CASE stage[v] \in Owning
    <3>1. job[v] \in Jobs /\ job[v][1] \in Files
      BY <1>1, <2>2, OwningJob
    <3>2. stage[w] \in Owning => job[w] # job[v]
      BY <2>2 DEF Alone
    <3>3. \/ queue'[job[v]] = queue[job[v]]
          \/ Resolved(v) /\ queue'[job[v]] = NoRow
      BY <1>1, <1>5, <2>2, <3>1, <3>2, WorkerTouches
    <3>4. CASE queue'[job[v]] = queue[job[v]]
      BY <1>3, <1>4, <2>2, <3>1, <3>4 DEF OwnRow, Holding, Resolved, Owning
    <3>5. CASE Resolved(v) /\ queue'[job[v]] = NoRow
      <4>1. stage[v] \notin Barred
        BY <3>5 DEF OwnRow, Holding, Resolved
      <4> QED  BY <1>3, <1>4, <2>2, <3>1, <3>5, <4>1 DEF OwnRow, Resolved, NoRow
    <3> QED  BY <3>3, <3>4, <3>5
  <2> QED  BY <2>1, <2>2
<1>7. OwnRow(w)' /\ \A v \in Workers \ {w} :
                       stage'[w] \in Owning /\ stage[v] \in Owning => job'[w] # job[v]
  <2>1. CASE stage'[w] \notin Owning
    BY <2>1 DEF OwnRow, Owning
  <2>2. ASSUME NEW j \in Jobs, Claim(w, j)
        PROVE  OwnRow(w)' /\ \A v \in Workers \ {w} : stage[v] \in Owning => job'[w] # job[v]
    <3>1. /\ Claimable(queue[j]) /\ stage'[w] = "lookup" /\ job'[w] = j
          /\ attempt'[w] = queue[j].attempts + 1 /\ file' = file
          /\ queue'[j] = [status |-> "in_progress", holder |-> w,
                          attempts |-> queue[j].attempts + 1, lease |-> "held"]
      BY <1>1, <2>2 DEF Claim, Advance, TypeOK, StoreTypeOK, WorkerTypeOK
    <3>2. Holding(w)'
      BY <3>1 DEF Holding
    <3>3. file[j[1]] \notin {"none", "uploading"}
      <4>1. queue[j].status # "none" /\ j = <<j[1], j[2]>> /\ j[1] \in Files /\ j[2] \in Targets
        BY <3>1 DEF Claimable, Jobs
      <4> QED  BY <4>1 DEF QueueInv, QueueApart
    <3> QED  BY <1>5, <3>1, <3>2, <3>3 DEF OwnRow
  <2>3. CASE /\ stage[w] \in Owning /\ stage'[w] \in Owning
             /\ job'[w] = job[w] /\ attempt'[w] = attempt[w]
             /\ stage[w] \notin Barred => stage'[w] \notin Barred
    <3>1. job[w] \in Jobs /\ job[w][1] \in Files
      BY <1>1, <2>3, OwningJob
    <3>2. \A v \in Workers \ {w} : stage[v] \in Owning => job'[w] # job[v]
      BY <2>3 DEF Alone
    <3>3. CASE queue'[job[w]] = queue[job[w]]
      BY <1>3, <2>3, <3>1, <3>2, <3>3 DEF OwnRow, Holding, Resolved, Owning
    <3>4. CASE /\ stage[w] = "commit" /\ stage'[w] = "retryable"
               /\ queue'[job[w]] = Released(queue[job[w]], "done")
      <4>1. Holding(w)
        BY <3>4 DEF OwnRow, Barred
      <4>2. Resolved(w)'
        BY <1>1, <2>3, <3>1, <3>4, <4>1 DEF Holding, Resolved, Released, TypeOK, StoreTypeOK, Row
      <4> QED  BY <1>3, <2>3, <3>1, <3>2, <3>4, <4>2 DEF OwnRow, Barred, Working
    <3> QED  BY <1>1, <2>3, <3>3, <3>4, OwnRowAfter
  <2> QED  BY <1>1, <2>1, <2>2, <2>3, OwningFrom
<1>8. Alone'
  BY <1>4, <1>7 DEF Alone
<1>9. PendingIsClaimable'
  BY <1>1, PendingAfter
<1> QED  BY <1>6, <1>7, <1>8, <1>9

\* Through a step of the api: a flip fills in rows nobody owns.
LEMMA ApiBarrier ==
    ASSUME BarrierInv, QueueInv', Next, NEW f \in Files, ApiSteps(f), UNCHANGED workerVars
    PROVE  BarrierInv'
<1> USE DEF BarrierInv
<1>1. TypeOK /\ HoldsJob
  BY DEF QueueInv, ServableInv
<1>2. \A g \in Files : file[g] \notin {"none", "uploading"} => file'[g] \notin {"none", "uploading"}
  BY <1>1, StepForward, StatusFacts
<1>3. \A j \in Jobs : \/ queue'[j] = queue[j]
                      \/ queue'[j] = FreshRow /\ file[j[1]] = "uploading"
  <2>1. CASE queue' = queue
    BY <2>1
  <2>2. ASSUME NEW applied \in BOOLEAN, queue' = Queued(f, applied /\ file[f] = "uploading")
        PROVE  \A j \in Jobs : \/ queue'[j] = queue[j]
                               \/ queue'[j] = FreshRow /\ file[j[1]] = "uploading"
    BY <2>2 DEF Queued
  <2> QED  BY <1>1, <2>1, <2>2, ApiQueue
<1>4. ASSUME NEW w \in Workers PROVE OwnRow(w)'
  <2>1. stage'[w] = stage[w] /\ job'[w] = job[w] /\ attempt'[w] = attempt[w]
    BY DEF workerVars
  <2>2. CASE stage[w] \notin Owning
    BY <2>1, <2>2 DEF OwnRow, Owning
  <2>3. CASE stage[w] \in Owning
    <3>1. job[w] \in Jobs /\ job[w][1] \in Files
      BY <1>1, <2>3, OwningJob
    <3>2. queue'[job[w]] = queue[job[w]]
      BY <1>3, <2>3, <3>1 DEF OwnRow
    <3> QED  BY <1>2, <2>1, <2>3, <3>1, <3>2 DEF OwnRow, Holding, Resolved, Owning
  <2> QED  BY <2>2, <2>3
<1>5. Alone'
  BY DEF Alone, workerVars
<1>6. PendingIsClaimable'
  <2>1. Claimable(FreshRow)
    BY MaxAttemptsAssumption DEF Claimable, FreshRow, NoRow
  <2> QED  BY <1>3, <2>1 DEF PendingIsClaimable
<1> QED  BY <1>4, <1>5, <1>6

\* Through a tick of the clock: it ages no row whose worker is at work.
LEMMA ClockBarrier ==
    ASSUME BarrierInv, QueueInv', NEW j \in Jobs, AbandonedLeaseAges(j)
    PROVE  BarrierInv'
<1> USE DEF BarrierInv
<1>1. TypeOK /\ HoldsJob
  BY DEF QueueInv, ServableInv
<1>2. /\ file' = file /\ UNCHANGED workerVars /\ queue[j].status = "in_progress"
      /\ \A i \in Jobs \ {j} : queue'[i] = queue[i]
      /\ queue'[j].status = "in_progress"
  BY <1>1 DEF AbandonedLeaseAges, LeaseAges, TypeOK, StoreTypeOK, Row
<1>3. ASSUME NEW w \in Workers PROVE OwnRow(w)'
  <2>1. stage'[w] = stage[w] /\ job'[w] = job[w] /\ attempt'[w] = attempt[w]
    BY <1>2 DEF workerVars
  <2>2. CASE stage[w] \notin Owning
    BY <2>1, <2>2 DEF OwnRow, Owning
  <2>3. CASE stage[w] \in Owning
    <3>1. job[w] \in Jobs
      BY <1>1, <2>3, OwningJob
    <3>2. job[w] # j
      BY <1>2, <2>3 DEF AbandonedLeaseAges, AtWorkOn, OwnRow, Holding, Resolved
    <3> QED  BY <1>2, <2>1, <2>3, <3>1, <3>2 DEF OwnRow, Holding, Resolved, Owning
  <2> QED  BY <2>2, <2>3
<1>4. Alone'
  BY <1>2 DEF Alone, workerVars
<1>5. PendingIsClaimable'
  BY <1>2 DEF PendingIsClaimable
<1> QED  BY <1>3, <1>4, <1>5

\* The cases of a step when nothing stalls.
LEMMA CalmClock ==
    ASSUME "stall" \notin Faults, Next
    PROVE  \/ \E f \in Files : ApiSteps(f) /\ UNCHANGED workerVars
           \/ \E w \in Workers : WorkerSteps(w) /\ UNCHANGED upload
           \/ \E j \in Jobs : AbandonedLeaseAges(j) /\ UNCHANGED upload
<1>1. CASE Calm
  <2>1. CASE \E f \in Files : User(f) \/ Api(f)
    BY <2>1 DEF User, Api, ApiSteps
  <2>2. CASE \E w \in Workers : Worker(w)
    BY <2>2 DEF Worker, CalmStep, WorkerSteps
  <2>3. CASE \E j \in Jobs : Clock(j)
    BY <2>3 DEF Clock
  <2> QED BY <1>1, <2>1, <2>2, <2>3 DEF Calm
<1>2. CASE Fault
  BY <1>2 DEF Fault, FaultStep, StalledLeaseAges, ApiSteps, WorkerSteps
<1> QED  BY <1>1, <1>2 DEF Next

LEMMA BarrierInit == Init => BarrierInv
<1> SUFFICES ASSUME Init PROVE (\A w \in Workers : OwnRow(w)) /\ Alone /\ PendingIsClaimable
  BY QueueInit DEF BarrierInv
<1>1. \A w \in Workers : stage[w] \notin Owning /\ stage[w] \notin Barred
  BY DEF Init, WorkerInit, Owning, Barred, Working
<1>2. \A j \in Jobs : queue[j].status = "none"
  BY DEF Init, StoreInit, NoRow
<1> QED  BY <1>1, <1>2 DEF OwnRow, Alone, PendingIsClaimable

LEMMA BarrierNext ==
    ASSUME "stall" \notin Faults
    PROVE  BarrierInv /\ [Next]_vars => BarrierInv'
<1> SUFFICES ASSUME BarrierInv, [Next]_vars PROVE BarrierInv'
  OBVIOUS
<1>1. QueueInv'
  BY QueueNext DEF BarrierInv
<1>2. CASE UNCHANGED vars
  BY <1>1, <1>2 DEF vars, BarrierInv, OwnRow, Holding, Resolved, Alone, PendingIsClaimable
<1>3. CASE Next
  BY <1>1, <1>3, CalmClock, WorkerBarrier, ApiBarrier, ClockBarrier
<1> QED  BY <1>2, <1>3

LEMMA BarrierAlways ==
    ASSUME "stall" \notin Faults
    PROVE  Spec => []BarrierInv
BY BarrierInit, BarrierNext, PTL DEF Spec

(***************************************************************************)
(* Unless a lease lapses under a live worker, a row is in_progress from    *)
(* its claim to the end of the PUT (docs/delete-lifecycle.md, "Why         *)
(* in_progress is the barrier").                                           *)
(***************************************************************************)
THEOREM BarrierKept ==
    ASSUME "stall" \notin Faults
    PROVE  Spec => []BarrierHolds
<1>1. BarrierInv => BarrierHolds
  BY DEF BarrierInv, BarrierHolds, OwnRow, Holding, Barred
<1> QED  BY <1>1, BarrierAlways, PTL

(***************************************************************************)
(* And no row is left pending past the cap (record_failure).               *)
(***************************************************************************)
THEOREM PendingClaimable ==
    ASSUME "stall" \notin Faults
    PROVE  Spec => []PendingIsClaimable
<1>1. BarrierInv => PendingIsClaimable
  BY DEF BarrierInv
<1> QED  BY <1>1, BarrierAlways, PTL
-----------------------------------------------------------------------------
(***************************************************************************)
(* Objects.  They come from a PUT of an upload or of a worker, and a sweep *)
(* that has a key behind it has seen it go.                                *)
(***************************************************************************)
LEMMA ApiPuts ==
    ASSUME TypeOK, NEW f \in Files, ApiSteps(f), NEW key \in bucket' \ bucket
    PROVE  upload[f] = "put" /\ key = SourceKey(f)
BY DEF ApiSteps, InsertRow, DeleteAudio, Abandon, UploadStep, PutSource, CleanUpPut,
   RetireFailedPut, Flip, FlipCollides, DiscardObject, DiscardRow, LookupOriginal, Goto,
   PutObject, DeleteObject, storeVars

LEMMA WorkerPuts ==
    ASSUME TypeOK, NEW w \in Workers, WorkerSteps(w), NEW key \in bucket' \ bucket
    PROVE  stage[w] = "put" /\ key = DerivativeKey(job[w][1], job[w][2])
<1>1. ASSUME NEW ok \in BOOLEAN, RequestStep(w, ok), ~PutDerivative(w, ok) PROVE FALSE
  BY <1>1 DEF RequestStep, RenewLease, Commit, DeleteOrphan, RecordFailure, ClearResolvedJobs,
     ClaimFreeFiles, FinalizeObject, FinalizeRow, DeleteObject, storeVars
<1>2. ASSUME NEW ok \in BOOLEAN, PutDerivative(w, ok)
      PROVE  stage[w] = "put" /\ key = DerivativeKey(job[w][1], job[w][2])
  BY <1>2 DEF PutDerivative, PutObject, Advance
<1> QED
  BY <1>1, <1>2 DEF WorkerSteps, SweepDue, SweepNotDue, ClaimNothing, ReadStatus, Download,
     TranscodeTick, Transcode, Exit, Restart, Crash, ClaimFails, Claim, RunFails, storeVars

\* A row becomes 'deleted' as a discarded duplicate, or with nothing left of
\* it on a sweep's list.
LEMMA ApiDeletes ==
    ASSUME TypeOK, NEW f \in Files, ApiSteps(f), NEW g \in Files,
           file'[g] = "deleted", file[g] # "deleted"
    PROVE  /\ g = f /\ file[g] = "uploading" /\ upload[g] = "discarded"
           /\ bucket' = bucket /\ queue' = queue
<1> USE DEF TypeOK, StoreTypeOK, storeVars, SetStatus
<1>1. ASSUME NEW ok \in BOOLEAN, DiscardRow(f, ok)
      PROVE  /\ g = f /\ file[g] = "uploading" /\ upload[g] = "discarded"
             /\ bucket' = bucket /\ queue' = queue
  BY <1>1 DEF DiscardRow, RetiredStatus, Goto
<1>2. CASE ~\E ok \in BOOLEAN : DiscardRow(f, ok)
  BY <1>2 DEF ApiSteps, InsertRow, DeleteAudio, Abandon, UploadStep, PutSource, CleanUpPut,
     RetireFailedPut, Flip, FlipCollides, DiscardObject, LookupOriginal
<1> QED  BY <1>1, <1>2

LEMMA WorkerDeletes ==
    ASSUME TypeOK, NEW w \in Workers, WorkerSteps(w), NEW g \in Files,
           file'[g] = "deleted", file[g] # "deleted"
    PROVE  /\ stage[w] = "finalize" /\ keys[w] = {} /\ IsFirst(g, batch[w])
           /\ bucket' = bucket /\ queue' = queue
<1> USE DEF TypeOK, StoreTypeOK, storeVars, SetStatus
<1>1. ASSUME NEW ok \in BOOLEAN, FinalizeRow(w, ok)
      PROVE  /\ stage[w] = "finalize" /\ keys[w] = {} /\ IsFirst(g, batch[w])
             /\ bucket' = bucket /\ queue' = queue
  BY <1>1 DEF FinalizeRow
<1>2. CASE ~\E ok \in BOOLEAN : FinalizeRow(w, ok)
  BY <1>2 DEF WorkerSteps, SweepDue, SweepNotDue, ClaimNothing, ReadStatus, Download,
     TranscodeTick, Transcode, Exit, Restart, Crash, ClaimFails, Claim, RunFails, RequestStep,
     RenewLease, PutDerivative, Commit, DeleteOrphan, RecordFailure, ClearResolvedJobs,
     ClaimFreeFiles, FinalizeObject
<1> QED  BY <1>1, <1>2

\* How a sweep comes to be finalizing: on a fresh list of keys, or on what it
\* has left of one.
LEMMA Finalizing ==
    ASSUME TypeOK, NEW w \in Workers, WorkerSteps(w), stage'[w] = "finalize"
    PROVE  \/ \E S \in SUBSET Files :
                 /\ \/ S \subseteq Free /\ queue' = queue /\ bucket' = bucket
                    \/ S \subseteq batch[w] /\ stage[w] = "finalize"
                 /\ batch'[w] = S
                 /\ \E g \in S : IsFirst(g, S) /\ keys'[w] = KeysOf(g)
           \/ /\ stage[w] = "finalize" /\ batch'[w] = batch[w]
              /\ \E key \in keys[w] : keys'[w] = keys[w] \ {key} /\ bucket' = bucket \ {key}
<1> USE DEF TypeOK, WorkerTypeOK, storeVars, workerVars, KeepJob, KeepSweep, DropJob, Advance
<1>1. ASSUME NEW S \in SUBSET Files, Resume(w, S)
      PROVE  batch'[w] = S /\ \E g \in S : IsFirst(g, S) /\ keys'[w] = KeysOf(g)
  BY <1>1 DEF Resume, IsFirst
<1>2. ASSUME NEW ok \in BOOLEAN, ClaimFreeFiles(w, ok)
      PROVE  \E S \in SUBSET Files :
                 /\ S \subseteq Free /\ queue' = queue /\ bucket' = bucket
                 /\ batch'[w] = S
                 /\ \E g \in S : IsFirst(g, S) /\ keys'[w] = KeysOf(g)
  <2>1. Free \subseteq Files /\ FirstBatch(Free) \subseteq Free
    BY FirstBatchSubset DEF Free
  <2>2. PICK S \in {FirstBatch(Free), {}} : Resume(w, S)
    BY <1>2 DEF ClaimFreeFiles
  <2> QED  BY <1>1, <1>2, <2>1, <2>2 DEF ClaimFreeFiles
<1>3. ASSUME NEW ok \in BOOLEAN, FinalizeRow(w, ok) \/ FinalizeObject(w, ok)
      PROVE  \/ \E S \in SUBSET Files :
                   /\ S \subseteq batch[w] /\ stage[w] = "finalize"
                   /\ batch'[w] = S
                   /\ \E g \in S : IsFirst(g, S) /\ keys'[w] = KeysOf(g)
             \/ /\ stage[w] = "finalize" /\ batch'[w] = batch[w]
                /\ \E key \in keys[w] : keys'[w] = keys[w] \ {key} /\ bucket' = bucket \ {key}
  <2>1. stage[w] = "finalize" /\ batch[w] \subseteq Files
    BY <1>3 DEF FinalizeRow, FinalizeObject
  <2>2. CASE \E f \in batch[w] : Resume(w, batch[w] \ {f})
    BY <1>1, <2>1, <2>2
  <2>3. CASE ~\E f \in batch[w] : Resume(w, batch[w] \ {f})
    <3>1. PICK key \in keys[w] :
             DeleteObject(key, ok) /\ Removed(key, ok)
             /\ keys' = [keys EXCEPT ![w] = @ \ {key}] /\ UNCHANGED <<stage, batch>>
      BY <1>3, <2>3 DEF FinalizeRow, FinalizeObject
    <3> QED  BY <2>1, <3>1 DEF DeleteObject
  <2> QED  BY <2>2, <2>3
<1>4. CASE ~\E ok \in BOOLEAN : ClaimFreeFiles(w, ok) \/ FinalizeRow(w, ok) \/ FinalizeObject(w, ok)
  BY <1>4 DEF WorkerSteps, SweepDue, SweepNotDue, ClaimNothing, ReadStatus, Download,
     TranscodeTick, Transcode, Exit, Restart, Crash, ClaimFails, Claim, RunFails, RequestStep,
     RenewLease, PutDerivative, Commit, DeleteOrphan, RecordFailure, ClearResolvedJobs
<1> QED  BY <1>2, <1>3, <1>4
-----------------------------------------------------------------------------
(***************************************************************************)
(* Derivatives.  A file with no queue rows is one no worker is at work on, *)
(* so what a sweep has deleted of it stays away.                           *)
(***************************************************************************)
NoDerivative(f) == \A t \in Targets : DerivativeKey(f, t) \notin bucket

Clean(f) ==
    /\ file[f] \in {"none", "uploading"} => NoDerivative(f)
    /\ file[f] = "deleted" => NoJobs(f) /\ NoDerivative(f)

Swept(w) ==
    stage[w] = "finalize" => \A f \in batch[w] :
        /\ NoJobs(f)
        /\ IsFirst(f, batch[w]) =>
              \A t \in Targets : DerivativeKey(f, t) \in bucket => DerivativeKey(f, t) \in keys[w]

CleanInv ==
    /\ BarrierInv
    /\ \A f \in Files : Clean(f)
    /\ \A w \in Workers : Swept(w)

LEMMA FirstIsUnique ==
    ASSUME NEW S \in SUBSET Files, NEW f, NEW g, IsFirst(f, S), IsFirst(g, S)
    PROVE  f = g
BY FilesAssumption DEF IsFirst

LEMMA StaysAway ==
    ASSUME BarrierInv, Next, NEW f \in Files, NEW t \in Targets,
           file[f] \in {"none", "uploading"} \/ NoJobs(f), DerivativeKey(f, t) \notin bucket
    PROVE  DerivativeKey(f, t) \notin bucket'
<1> SUFFICES ASSUME DerivativeKey(f, t) \in bucket' PROVE FALSE
  OBVIOUS
<1>1. TypeOK /\ HoldsJob
  BY DEF BarrierInv, QueueInv, ServableInv
<1>2. ASSUME NEW g \in Files, ApiSteps(g) PROVE FALSE
  <2>1. DerivativeKey(f, t) = SourceKey(g)
    BY <1>1, <1>2, ApiPuts
  <2> QED  BY <2>1, DistinctKeys
<1>3. ASSUME NEW w \in Workers, WorkerSteps(w) PROVE FALSE
  <2>1. stage[w] = "put" /\ DerivativeKey(f, t) = DerivativeKey(job[w][1], job[w][2])
    BY <1>1, <1>3, WorkerPuts
  <2>2. stage[w] \in Barred /\ stage[w] \in Owning
    BY <2>1 DEF Barred, Owning, Working
  <2>3. job[w] = <<f, t>> /\ job[w][1] = f
    BY <1>1, <2>1, <2>2, OwningJob DEF DerivativeKey
  <2>4. queue[<<f, t>>].status = "in_progress" /\ file[f] \notin {"none", "uploading"}
    BY <2>2, <2>3 DEF BarrierInv, OwnRow, Holding
  <2> QED  BY <2>4 DEF NoJobs
<1>4. ASSUME NEW j \in Jobs, LeaseAges(j) PROVE FALSE
  BY <1>4 DEF LeaseAges
<1> QED  BY <1>2, <1>3, <1>4, NextCases

LEMMA CleanAfter ==
    ASSUME CleanInv, Next, NEW f \in Files
    PROVE  Clean(f)'
<1>1. BarrierInv /\ QueueInv /\ TypeOK /\ Clean(f)
  BY DEF CleanInv, BarrierInv, QueueInv, ServableInv
<1>2. ASSUME file'[f] \in {"none", "uploading"} PROVE NoDerivative(f)'
  <2>1. file[f] \in {"none", "uploading"}
    BY <1>1, <1>2, StepForward, StatusFacts
  <2> QED  BY <1>1, <2>1, StaysAway DEF Clean, NoDerivative
<1>3. ASSUME file[f] = "deleted" PROVE NoJobs(f)' /\ NoDerivative(f)'
  <2>1. NoJobs(f) /\ NoDerivative(f)
    BY <1>1, <1>3 DEF Clean
  <2>2. NoJobs(f)'
    BY <1>1, <1>3, <2>1, FreedStep DEF Dead
  <2> QED  BY <1>1, <2>1, <2>2, StaysAway DEF NoDerivative
<1>4. ASSUME file[f] # "deleted", file'[f] = "deleted" PROVE NoJobs(f)' /\ NoDerivative(f)'
  <2>1. ASSUME NEW g \in Files, ApiSteps(g)
        PROVE  NoJobs(f) /\ NoDerivative(f) /\ bucket' = bucket /\ queue' = queue
    <3>1. file[f] = "uploading" /\ bucket' = bucket /\ queue' = queue
      BY <1>1, <1>4, <2>1, ApiDeletes
    <3> QED  BY <1>1, <3>1 DEF QueueInv, QueueApart, NoJobs, Clean
  <2>2. ASSUME NEW w \in Workers, WorkerSteps(w)
        PROVE  NoJobs(f) /\ NoDerivative(f) /\ bucket' = bucket /\ queue' = queue
    <3>1. /\ stage[w] = "finalize" /\ keys[w] = {} /\ IsFirst(f, batch[w])
          /\ bucket' = bucket /\ queue' = queue
      BY <1>1, <1>4, <2>2, WorkerDeletes
    <3> QED  BY <3>1 DEF CleanInv, Swept, NoDerivative, IsFirst
  <2>3. ASSUME NEW j \in Jobs, LeaseAges(j) PROVE FALSE
    BY <1>4, <2>3 DEF LeaseAges
  <2> QED  BY <2>1, <2>2, <2>3, NextCases DEF NoJobs, NoDerivative
<1> QED  BY <1>2, <1>3, <1>4 DEF Clean

\* A sweep that takes no part in a step is no worse off for it.
LEMMA SweptOther ==
    ASSUME CleanInv, Next, NEW w \in Workers,
           stage'[w] = stage[w], batch'[w] = batch[w], keys'[w] = keys[w]
    PROVE  Swept(w)'
<1> SUFFICES ASSUME stage[w] = "finalize", NEW f \in batch[w]
             PROVE  /\ NoJobs(f)'
                    /\ IsFirst(f, batch[w]) =>
                          \A t \in Targets :
                             DerivativeKey(f, t) \in bucket' => DerivativeKey(f, t) \in keys[w]
  BY DEF Swept
<1>1. BarrierInv /\ QueueInv /\ f \in Files /\ file[f] \in Dead
  BY DEF CleanInv, BarrierInv, QueueInv, ServableInv, TypeOK, WorkerTypeOK, SweepApart
<1>2. NoJobs(f)
  BY DEF CleanInv, Swept
<1> QED  BY <1>1, <1>2, FreedStep, StaysAway DEF CleanInv, Swept

LEMMA SweptOwn ==
    ASSUME CleanInv, Next, NEW w \in Workers, WorkerSteps(w)
    PROVE  Swept(w)'
<1> SUFFICES ASSUME stage'[w] = "finalize" PROVE Swept(w)'
  BY DEF Swept
<1>1. BarrierInv /\ QueueInv /\ TypeOK
  BY DEF CleanInv, BarrierInv, QueueInv, ServableInv
<1>2. batch[w] \subseteq Files /\ \A f \in batch[w] : file[f] \in Dead
  BY <1>1 DEF QueueInv, ServableInv, TypeOK, WorkerTypeOK, SweepApart
<1>3. ASSUME NEW S \in SUBSET Files, S \subseteq Free \/ (S \subseteq batch[w] /\ stage[w] = "finalize"),
             batch'[w] = S, NEW g \in S, IsFirst(g, S), keys'[w] = KeysOf(g)
      PROVE  Swept(w)'
  <2>1. \A f \in S : file[f] \in Dead /\ NoJobs(f)
    BY <1>2, <1>3 DEF Free, Dead, CleanInv, Swept
  <2>2. \A f \in S : NoJobs(f)'
    BY <1>1, <2>1, FreedStep
  <2>3. \A f \in S : IsFirst(f, S) => f = g
    BY <1>3, FirstIsUnique
  <2>4. \A t \in Targets : DerivativeKey(g, t) \in keys'[w]
    BY <1>3 DEF KeysOf
  <2> QED  BY <1>3, <2>2, <2>3, <2>4 DEF Swept
<1>4. ASSUME stage[w] = "finalize", batch'[w] = batch[w], NEW key \in keys[w],
             keys'[w] = keys[w] \ {key}, bucket' = bucket \ {key}
      PROVE  Swept(w)'
  <2>1. \A f \in batch[w] : NoJobs(f)'
    BY <1>1, <1>2, <1>4, FreedStep DEF CleanInv, Swept
  <2> QED  BY <1>4, <2>1 DEF CleanInv, Swept
<1>5. CASE \E S \in SUBSET Files :
              /\ S \subseteq Free \/ (S \subseteq batch[w] /\ stage[w] = "finalize")
              /\ batch'[w] = S
              /\ \E g \in S : IsFirst(g, S) /\ keys'[w] = KeysOf(g)
  <2>1. PICK S \in SUBSET Files :
           /\ S \subseteq Free \/ (S \subseteq batch[w] /\ stage[w] = "finalize")
           /\ batch'[w] = S
           /\ \E g \in S : IsFirst(g, S) /\ keys'[w] = KeysOf(g)
    BY <1>5
  <2>2. PICK g \in S : IsFirst(g, S) /\ keys'[w] = KeysOf(g)
    BY <2>1
  <2> QED  BY <1>3, <2>1, <2>2
<1>6. CASE /\ stage[w] = "finalize" /\ batch'[w] = batch[w]
           /\ \E key \in keys[w] : keys'[w] = keys[w] \ {key} /\ bucket' = bucket \ {key}
  BY <1>4, <1>6
<1> QED  BY <1>1, <1>5, <1>6, Finalizing

LEMMA CleanNext ==
    ASSUME "stall" \notin Faults
    PROVE  CleanInv /\ [Next]_vars => CleanInv'
<1> SUFFICES ASSUME CleanInv, [Next]_vars PROVE CleanInv'
  OBVIOUS
<1>1. BarrierInv' /\ TypeOK
  BY BarrierNext DEF CleanInv, BarrierInv, QueueInv, ServableInv
<1>2. CASE UNCHANGED vars
  BY <1>1, <1>2 DEF vars, CleanInv, Clean, Swept, NoDerivative, NoJobs
<1>3. CASE Next
  <2>1. \A w \in Workers : Swept(w)'
    <3>1. ASSUME UNCHANGED workerVars PROVE \A w \in Workers : Swept(w)'
      BY <1>3, <3>1, SweptOther DEF workerVars
    <3>2. ASSUME NEW w \in Workers, WorkerSteps(w) PROVE \A v \in Workers : Swept(v)'
      BY <1>1, <1>3, <3>2, SweptOwn, SweptOther, OtherWorkers DEF KeepsTo
    <3> QED  BY <1>3, <3>1, <3>2, NextCases DEF LeaseAges
  <2> QED  BY <1>1, <1>3, <2>1, CleanAfter DEF CleanInv
<1> QED  BY <1>2, <1>3

LEMMA CleanInit == Init => CleanInv
<1> SUFFICES ASSUME Init PROVE (\A f \in Files : Clean(f)) /\ \A w \in Workers : Swept(w)
  BY BarrierInit DEF CleanInv
<1> QED  BY DEF Init, StoreInit, WorkerInit, Clean, NoDerivative, Swept

(***************************************************************************)
(* Once a file is 'deleted' none of its derivatives is in the bucket, and  *)
(* none appears later, unless a lease lapses under a live worker (finalize *)
(* against run_job's PUT).                                                 *)
(***************************************************************************)
THEOREM DeletedIsClean ==
    ASSUME "stall" \notin Faults
    PROVE  Spec => []DeletedLeavesNoDerivative
<1>1. CleanInv => DeletedLeavesNoDerivative
  BY DEF CleanInv, Clean, NoDerivative, DeletedLeavesNoDerivative
<1> QED  BY <1>1, CleanInit, CleanNext, PTL DEF Spec
-----------------------------------------------------------------------------
(***************************************************************************)
(* The source.  Once its request is past the PUT, nobody puts it back.     *)
(***************************************************************************)
Gone(f) ==
    upload[f] \in Discarding /\ (upload[f] = "discarded" \/ file[f] = "deleted") =>
        SourceKey(f) \notin bucket

SourceSwept(w) ==
    stage[w] = "finalize" => \A f \in batch[w] :
        upload[f] \in Discarding /\ IsFirst(f, batch[w]) /\ SourceKey(f) \notin keys[w] =>
            SourceKey(f) \notin bucket

DiscardInv ==
    /\ ServableInv
    /\ \A f \in Files : Gone(f)
    /\ \A w \in Workers : SourceSwept(w)

LEMMA SourceStaysAway ==
    ASSUME ServableInv, Next, NEW f \in Files, upload[f] # "put", SourceKey(f) \notin bucket
    PROVE  SourceKey(f) \notin bucket'
<1> SUFFICES ASSUME SourceKey(f) \in bucket' PROVE FALSE
  OBVIOUS
<1>1. TypeOK /\ HoldsJob
  BY DEF ServableInv
<1>2. ASSUME NEW g \in Files, ApiSteps(g) PROVE FALSE
  <2>1. upload[g] = "put" /\ SourceKey(f) = SourceKey(g)
    BY <1>1, <1>2, ApiPuts
  <2> QED  BY <2>1 DEF SourceKey
<1>3. ASSUME NEW w \in Workers, WorkerSteps(w) PROVE FALSE
  <2>1. stage[w] = "put" /\ SourceKey(f) = DerivativeKey(job[w][1], job[w][2])
    BY <1>1, <1>3, WorkerPuts
  <2>2. job[w][1] \in Files /\ job[w][2] \in Targets
    BY <1>1, <2>1, OwningJob DEF Owning, Barred, Working
  <2> QED  BY <2>1, <2>2, DistinctKeys
<1>4. ASSUME NEW j \in Jobs, LeaseAges(j) PROVE FALSE
  BY <1>4 DEF LeaseAges
<1> QED  BY <1>2, <1>3, <1>4, NextCases

\* A request discards only what is still uploading, and says "discarded" of
\* what it has seen deleted.
LEMMA ApiDiscards ==
    ASSUME TypeOK, NEW g \in Files, ApiSteps(g), NEW f \in Files, upload'[f] \in Discarding
    PROVE  /\ upload[f] \in Discarding \/ (file[f] = "uploading" /\ file' = file)
           /\ upload'[f] = "discarded" => upload[f] = "discarded" \/ SourceKey(f) \notin bucket'
<1> USE DEF TypeOK, UploadTypeOK, Discarding, Goto
<1>1. ASSUME NEW ok \in BOOLEAN, DiscardObject(g, ok)
      PROVE  /\ upload[f] \in Discarding
             /\ upload'[f] = "discarded" => upload[f] = "discarded" \/ SourceKey(f) \notin bucket'
  BY <1>1 DEF DiscardObject, DeleteObject
<1>2. ASSUME NEW ok \in BOOLEAN, FlipCollides(g, ok)
      PROVE  /\ upload[f] \in Discarding \/ (file[f] = "uploading" /\ file' = file)
             /\ upload'[f] = "discarded" => upload[f] = "discarded"
  BY <1>2 DEF FlipCollides, storeVars
<1>3. CASE ~\E ok \in BOOLEAN : DiscardObject(g, ok) \/ FlipCollides(g, ok)
  BY <1>3 DEF ApiSteps, InsertRow, DeleteAudio, Abandon, UploadStep, PutSource, CleanUpPut,
     RetireFailedPut, Flip, DiscardRow, LookupOriginal
<1> QED  BY <1>1, <1>2, <1>3

LEMMA GoneAfter ==
    ASSUME DiscardInv, Next, NEW f \in Files
    PROVE  Gone(f)'
<1> SUFFICES ASSUME upload'[f] \in Discarding, upload'[f] = "discarded" \/ file'[f] = "deleted"
             PROVE  SourceKey(f) \notin bucket'
  BY DEF Gone
<1>1. ServableInv /\ TypeOK /\ Gone(f)
  BY DEF DiscardInv, ServableInv
<1>2. CASE /\ upload[f] \in Discarding
           /\ upload[f] = "discarded" \/ file[f] = "deleted"
  BY <1>1, <1>2, SourceStaysAway DEF Gone, Discarding
<1>3. ASSUME NEW g \in Files, ApiSteps(g),
             ~(upload[f] \in Discarding /\ (upload[f] = "discarded" \/ file[f] = "deleted"))
      PROVE  SourceKey(f) \notin bucket'
  <2>1. /\ upload[f] \in Discarding \/ (file[f] = "uploading" /\ file' = file)
        /\ upload'[f] = "discarded" => upload[f] = "discarded" \/ SourceKey(f) \notin bucket'
    BY <1>1, <1>3, ApiDiscards
  <2>2. file'[f] = "deleted" => file[f] = "deleted" \/ upload[f] = "discarded"
    BY <1>1, <1>3, ApiDeletes
  <2> QED  BY <1>3, <2>1, <2>2 DEF Discarding
<1>4. ASSUME NEW w \in Workers, WorkerSteps(w), UNCHANGED upload, file[f] # "deleted",
             upload[f] # "discarded"
      PROVE  SourceKey(f) \notin bucket'
  <2>1. /\ stage[w] = "finalize" /\ keys[w] = {} /\ IsFirst(f, batch[w])
    BY <1>1, <1>4, WorkerDeletes
  <2>2. SourceKey(f) \notin bucket
    BY <1>4, <2>1 DEF DiscardInv, SourceSwept, IsFirst
  <2> QED  BY <1>1, <1>4, <2>2, SourceStaysAway DEF Discarding
<1>5. ASSUME NEW j \in Jobs, LeaseAges(j), UNCHANGED upload PROVE SourceKey(f) \notin bucket'
  BY <1>2, <1>5 DEF LeaseAges
<1> QED  BY <1>2, <1>3, <1>4, <1>5, NextCases

LEMMA SourceSweptOther ==
    ASSUME DiscardInv, Next, NEW w \in Workers,
           stage'[w] = stage[w], batch'[w] = batch[w], keys'[w] = keys[w]
    PROVE  SourceSwept(w)'
<1> SUFFICES ASSUME stage[w] = "finalize", NEW f \in batch[w], upload'[f] \in Discarding,
                    IsFirst(f, batch[w]), SourceKey(f) \notin keys[w]
             PROVE  SourceKey(f) \notin bucket'
  BY DEF SourceSwept
<1>1. ServableInv /\ TypeOK /\ f \in Files /\ file[f] \in Dead
  BY DEF DiscardInv, ServableInv, TypeOK, WorkerTypeOK, SweepApart
<1>2. upload[f] \in Discarding
  BY <1>1, NextCases, ApiDiscards DEF Dead
<1> QED  BY <1>1, <1>2, SourceStaysAway DEF DiscardInv, SourceSwept, Discarding

LEMMA SourceSweptOwn ==
    ASSUME DiscardInv, NEW w \in Workers, WorkerSteps(w), UNCHANGED upload
    PROVE  SourceSwept(w)'
<1> SUFFICES ASSUME stage'[w] = "finalize" PROVE SourceSwept(w)'
  BY DEF SourceSwept
<1>1. TypeOK
  BY DEF DiscardInv, ServableInv
<1>2. ASSUME NEW S \in SUBSET Files, batch'[w] = S, NEW g \in S, IsFirst(g, S), keys'[w] = KeysOf(g)
      PROVE  SourceSwept(w)'
  BY <1>2, FirstIsUnique DEF SourceSwept, KeysOf
<1>3. ASSUME stage[w] = "finalize", batch'[w] = batch[w], NEW key \in keys[w],
             keys'[w] = keys[w] \ {key}, bucket' = bucket \ {key}
      PROVE  SourceSwept(w)'
  BY <1>3 DEF DiscardInv, SourceSwept
<1>4. CASE \E S \in SUBSET Files :
              batch'[w] = S /\ \E g \in S : IsFirst(g, S) /\ keys'[w] = KeysOf(g)
  BY <1>2, <1>4
<1>5. CASE /\ stage[w] = "finalize" /\ batch'[w] = batch[w]
           /\ \E key \in keys[w] : keys'[w] = keys[w] \ {key} /\ bucket' = bucket \ {key}
  BY <1>3, <1>5
<1> QED  BY <1>1, <1>4, <1>5, Finalizing

LEMMA DiscardNext == DiscardInv /\ [Next]_vars => DiscardInv'
<1> SUFFICES ASSUME DiscardInv, [Next]_vars PROVE DiscardInv'
  OBVIOUS
<1>1. ServableInv' /\ TypeOK
  BY ServableNext DEF DiscardInv, ServableInv
<1>2. CASE UNCHANGED vars
  BY <1>1, <1>2 DEF vars, DiscardInv, Gone, SourceSwept
<1>3. CASE Next
  <2>1. ASSUME UNCHANGED workerVars PROVE \A w \in Workers : SourceSwept(w)'
    BY <1>3, <2>1, SourceSweptOther DEF workerVars
  <2>2. ASSUME NEW w \in Workers, WorkerSteps(w), UNCHANGED upload
        PROVE  \A v \in Workers : SourceSwept(v)'
    BY <1>1, <1>3, <2>2, SourceSweptOwn, SourceSweptOther, OtherWorkers DEF KeepsTo
  <2> QED  BY <1>1, <1>3, <2>1, <2>2, NextCases, GoneAfter DEF DiscardInv, LeaseAges
<1> QED  BY <1>2, <1>3

LEMMA DiscardInit == Init => DiscardInv
<1> SUFFICES ASSUME Init PROVE (\A f \in Files : Gone(f)) /\ \A w \in Workers : SourceSwept(w)
  BY ServableInit DEF DiscardInv
<1> QED  BY DEF Init, StoreInit, WorkerInit, Gone, SourceSwept

(***************************************************************************)
(* A discarded duplicate whose row is 'deleted' has left nothing, and      *)
(* nothing of it comes back, whatever fails (discard_duplicate's choice    *)
(* of status, and finalize's order of keys and row).                       *)
(***************************************************************************)
THEOREM DuplicateIsClean == Spec => []DuplicateLeavesNothing
<1>1. DiscardInv => DuplicateLeavesNothing
  BY DEF DiscardInv, Gone, Discarding, DuplicateLeavesNothing
<1> QED  BY <1>1, DiscardInit, DiscardNext, PTL DEF Spec

(***************************************************************************)
(* The same of every upload whose PUT was over before a delete came.  What *)
(* the sweep knows of the source then is for good.                         *)
(***************************************************************************)
SourceSettled(f) ==
    /\ PutEnded(f)
    /\ file[f] = "deleted" \/ upload[f] = "discarded" => SourceKey(f) \notin bucket
    /\ \A w \in Workers :
          stage[w] = "finalize" /\ IsFirst(f, batch[w]) /\ SourceKey(f) \notin keys[w] =>
              SourceKey(f) \notin bucket

LEMMA EndedForGood ==
    ASSUME TypeOK, Next, NEW f \in Files, PutEnded(f)
    PROVE  PutEnded(f)'
<1>1. ASSUME NEW g \in Files, ApiSteps(g) PROVE PutEnded(f)'
  BY <1>1 DEF TypeOK, UploadTypeOK, PutEnded, ApiSteps, InsertRow, DeleteAudio, Abandon, UploadStep,
     PutSource, CleanUpPut, RetireFailedPut, Flip, FlipCollides, DiscardObject, DiscardRow,
     LookupOriginal, Goto
<1> QED  BY <1>1, NextCases DEF PutEnded, LeaseAges

\* No sweep has a file that is not deleted yet, and "discarded" is the truth.
LEMMA SettledAtFirst ==
    ASSUME DiscardInv, NEW f \in Files, PutEnded(f), file[f] \notin Dead
    PROVE  SourceSettled(f)
<1>1. \A w \in Workers : f \notin batch[w]
  BY DEF DiscardInv, ServableInv, SweepApart
<1>2. upload[f] = "discarded" => SourceKey(f) \notin bucket
  BY DEF DiscardInv, Gone, Discarding
<1> QED  BY <1>1, <1>2 DEF SourceSettled, IsFirst, Dead

LEMMA SettledSweep ==
    ASSUME DiscardInv, NEW f \in Files, SourceSettled(f), NEW w \in Workers, WorkerSteps(w),
           stage'[w] = "finalize", IsFirst(f, batch'[w]), SourceKey(f) \notin keys'[w]
    PROVE  SourceKey(f) \notin bucket'
<1>1. TypeOK
  BY DEF DiscardInv, ServableInv
<1>2. ASSUME NEW S \in SUBSET Files, batch'[w] = S, NEW g \in S, IsFirst(g, S), keys'[w] = KeysOf(g)
      PROVE  FALSE
  BY <1>2, FirstIsUnique DEF KeysOf
<1>3. ASSUME stage[w] = "finalize", batch'[w] = batch[w], NEW key \in keys[w],
             keys'[w] = keys[w] \ {key}, bucket' = bucket \ {key}
      PROVE  SourceKey(f) \notin bucket'
  BY <1>3 DEF SourceSettled
<1>4. CASE \E S \in SUBSET Files :
              batch'[w] = S /\ \E g \in S : IsFirst(g, S) /\ keys'[w] = KeysOf(g)
  BY <1>2, <1>4
<1>5. CASE /\ stage[w] = "finalize" /\ batch'[w] = batch[w]
           /\ \E key \in keys[w] : keys'[w] = keys[w] \ {key} /\ bucket' = bucket \ {key}
  BY <1>3, <1>5
<1> QED  BY <1>1, <1>4, <1>5, Finalizing

LEMMA SettledNext ==
    ASSUME DiscardInv, NEW f \in Files, SourceSettled(f), [Next]_vars
    PROVE  SourceSettled(f)'
<1>1. ServableInv /\ TypeOK
  BY DEF DiscardInv, ServableInv
<1>2. CASE UNCHANGED vars
  BY <1>2 DEF vars, SourceSettled, PutEnded
<1>3. CASE Next
  <2>1. PutEnded(f)' /\ upload[f] # "put"
    BY <1>1, <1>3, EndedForGood DEF SourceSettled, PutEnded
  <2>2. SourceKey(f) \notin bucket => SourceKey(f) \notin bucket'
    BY <1>1, <1>3, <2>1, SourceStaysAway
  <2>3. ASSUME file'[f] = "deleted" \/ upload'[f] = "discarded" PROVE SourceKey(f) \notin bucket'
    <3>1. CASE file[f] = "deleted" \/ upload[f] = "discarded"
      BY <2>2, <3>1 DEF SourceSettled
    <3>2. ASSUME NEW g \in Files, ApiSteps(g), file[f] # "deleted", upload[f] # "discarded"
          PROVE  SourceKey(f) \notin bucket'
      BY <1>1, <2>3, <3>2, ApiDeletes, ApiDiscards DEF Discarding
    <3>3. ASSUME NEW w \in Workers, WorkerSteps(w), UNCHANGED upload, file[f] # "deleted",
                 upload[f] # "discarded"
          PROVE  SourceKey(f) \notin bucket'
      <4>1. stage[w] = "finalize" /\ keys[w] = {} /\ IsFirst(f, batch[w])
        BY <1>1, <2>3, <3>3, WorkerDeletes
      <4> QED  BY <2>2, <4>1 DEF SourceSettled
    <3>4. ASSUME NEW j \in Jobs, LeaseAges(j), UNCHANGED upload PROVE SourceKey(f) \notin bucket'
      BY <2>3, <3>1, <3>4 DEF LeaseAges
    <3> QED  BY <1>3, <3>1, <3>2, <3>3, <3>4, NextCases
  <2>4. ASSUME NEW w \in Workers, stage'[w] = "finalize", IsFirst(f, batch'[w]),
               SourceKey(f) \notin keys'[w]
        PROVE  SourceKey(f) \notin bucket'
    <3>1. CASE stage'[w] = stage[w] /\ batch'[w] = batch[w] /\ keys'[w] = keys[w]
      BY <2>2, <2>4, <3>1 DEF SourceSettled
    <3>2. ASSUME NEW v \in Workers, WorkerSteps(v), v # w PROVE SourceKey(f) \notin bucket'
      BY <1>1, <3>1, <3>2, OtherWorkers DEF KeepsTo
    <3>3. CASE WorkerSteps(w)
      BY <2>4, <3>3, SettledSweep
    <3> QED  BY <1>3, <3>1, <3>2, <3>3, NextCases DEF LeaseAges, workerVars
  <2> QED  BY <2>1, <2>3, <2>4 DEF SourceSettled
<1> QED  BY <1>2, <1>3

(***************************************************************************)
(* Every delete that comes after its upload's PUT is over leaves no source *)
(* behind it, for any number of sweeps, crashes and refusals: the race     *)
(* with the PUT is the only way to leave one (finalize, discard_duplicate).*)
(***************************************************************************)
THEOREM LateDeletesAreClean == Spec => LateDeleteLeavesNoSource
<1> SUFFICES ASSUME NEW f \in Files
             PROVE  Spec => [](PutEnded(f) /\ file[f] \notin Dead =>
                                  [](file[f] = "deleted" => SourceKey(f) \notin bucket))
  BY DEF LateDeleteLeavesNoSource
<1>1. DiscardInv /\ PutEnded(f) /\ file[f] \notin Dead => SourceSettled(f)
  BY SettledAtFirst
<1>2. DiscardInv /\ SourceSettled(f) /\ [Next]_vars => SourceSettled(f)'
  BY SettledNext
<1>3. SourceSettled(f) => (file[f] = "deleted" => SourceKey(f) \notin bucket)
  BY DEF SourceSettled
<1> QED  BY <1>1, <1>2, <1>3, DiscardInit, DiscardNext, PTL DEF Spec

LEMMA DiscardStarts ==
    ASSUME TypeOK, NEW g \in Files, ApiSteps(g), NEW f \in Files,
           upload'[f] \in Discarding, upload[f] \notin Discarding
    PROVE  Collides(f) /\ file' = file
<1> USE DEF TypeOK, UploadTypeOK, Discarding, Goto
<1>1. ASSUME NEW ok \in BOOLEAN, FlipCollides(g, ok) PROVE Collides(f) /\ file' = file
  BY <1>1 DEF FlipCollides, storeVars
<1>2. CASE ~\E ok \in BOOLEAN : FlipCollides(g, ok)
  BY <1>2 DEF ApiSteps, InsertRow, DeleteAudio, Abandon, UploadStep, PutSource, CleanUpPut,
     RetireFailedPut, Flip, DiscardObject, DiscardRow, LookupOriginal
<1> QED  BY <1>1, <1>2

\* A live copy stays one, with its object, until it is deleted.
LEMMA CopiesKept ==
    ASSUME ServableInv, ServableInv', Next, NEW f \in Files, HeldElsewhere(f), ~CopyDeleted(f)
    PROVE  HeldElsewhere(f)'
<1>1. PICK g \in LiveCopies(f) : SourceKey(g) \in bucket
  BY DEF HeldElsewhere
<1>2. g \in Files \ {f} /\ Content[g] = Content[f] /\ file[g] = "uploaded"
  BY <1>1 DEF LiveCopies
<1>3. file'[g] = file[g] \/ file'[g] \in Successors[file[g]]
  BY <1>2, StepForward DEF ServableInv, Forward
<1>4. file'[g] = "uploaded"
  <2>1. Successors["uploaded"] = {"delete_pending"}
    BY DEF Successors, FileStatus
  <2> QED  BY <1>1, <1>2, <1>3, <2>1 DEF CopyDeleted
<1>5. SourceKey(g) \in bucket'
  BY <1>2, <1>4 DEF ServableInv, LiveServable, SourceKey
<1> QED  BY <1>2, <1>4, <1>5 DEF HeldElsewhere, LiveCopies, SourceKey

(***************************************************************************)
(* Nobody's upload is thrown away as a duplicate unless the same bytes are *)
(* live, and there to be fetched, under another row, and they stay so till *)
(* such a row is deleted (upload_audio's arm for is_unique_violation,      *)
(* under every fault).                                                     *)
(***************************************************************************)
THEOREM DiscardsKeepCopies == Spec => DiscardKeepsACopy
<1>1. ASSUME ServableInv, Next, NEW f \in Files, upload'[f] \in Discarding
      PROVE  /\ upload[f] \notin Discarding => HeldElsewhere(f)'
             /\ HeldElsewhere(f) => HeldElsewhere(f)' \/ CopyDeleted(f)
  <2>1. ServableInv'
    BY <1>1, ServableNext
  <2>2. HeldElsewhere(f) => HeldElsewhere(f)' \/ CopyDeleted(f)
    BY <1>1, <2>1, CopiesKept
  <2>3. ASSUME upload[f] \notin Discarding PROVE HeldElsewhere(f)'
    <3>1. PICK g \in Files : ApiSteps(g)
      BY <1>1, <2>3, NextCases DEF LeaseAges
    <3>2. Collides(f) /\ file' = file
      BY <1>1, <2>3, <3>1, DiscardStarts DEF ServableInv
    <3>3. PICK h \in Files \ {f} : file[h] = "uploaded" /\ Content[h] = Content[f]
      BY <3>2 DEF Collides
    <3>4. SourceKey(h) \in bucket'
      BY <2>1, <3>2, <3>3 DEF ServableInv, LiveServable, SourceKey
    <3> QED  BY <3>2, <3>3, <3>4 DEF HeldElsewhere, LiveCopies, SourceKey
  <2> QED  BY <2>2, <2>3
<1>2. ServableInv /\ [Next]_vars =>
        [\A f \in Files : upload'[f] \in Discarding =>
            /\ upload[f] \notin Discarding => HeldElsewhere(f)'
            /\ HeldElsewhere(f) => HeldElsewhere(f)' \/ CopyDeleted(f)]_vars
  BY <1>1
<1> QED  BY <1>2, ServableInit, ServableNext, PTL DEF Spec, DiscardKeepsACopy
-----------------------------------------------------------------------------
(***************************************************************************)
(* The runs of a job.  A row only ever counts up while it is there, and    *)
(* one that is cleared is not inserted again, as its file is past its      *)
(* upload: a claim is always of a number nobody holds.                     *)
(***************************************************************************)
Counted(w) ==
    job[w] # NoJob =>
        /\ attempt[w] > 0
        /\ file[job[w][1]] \notin {"none", "uploading"}
        /\ queue[job[w]].status # "none" => attempt[w] <= queue[job[w]].attempts

RunInv == QueueInv /\ RunsNumbered /\ \A w \in Workers : Counted(w)

LEMMA WorkerCounts ==
    ASSUME TypeOK, HoldsJob, NEW w \in Workers, WorkerSteps(w), NEW j \in Jobs,
           queue'[j].status # "none"
    PROVE  queue[j].status # "none" /\ queue[j].attempts <= queue'[j].attempts
<1> USE DEF TypeOK, StoreTypeOK, WorkerTypeOK, storeVars
<1>0. queue[j].status # "none"
  BY WorkerQueue DEF RowsKept
<1>1. queue[j].attempts \in Nat /\ queue[j].attempts <= queue[j].attempts
  BY MaxAttemptsAssumption DEF Row
<1>2. SUFFICES ASSUME queue'[j] # queue[j] PROVE queue[j].attempts <= queue'[j].attempts
  BY <1>0, <1>1
<1>3. CASE ClaimFails(w) \/ \E i \in Jobs : Claim(w, i)
  <2>1. queue'[j] = [status |-> "in_progress", holder |-> w,
                     attempts |-> queue[j].attempts + 1, lease |-> "held"]
    BY <1>2, <1>3 DEF ClaimFails, Claim
  <2> QED  BY <1>1, <2>1
<1>4. CASE TranscodeTick(w)
  BY <1>1, <1>4 DEF TranscodeTick, Renewed, Row
<1>5. ASSUME NEW ok \in BOOLEAN, RequestStep(w, ok)
      PROVE  queue[j].attempts <= queue'[j].attempts
  <2>1. CASE RenewLease(w, ok)
    BY <1>1, <2>1 DEF RenewLease, Renewed, Row
  <2>2. CASE Commit(w, ok)
    BY <1>1, <2>2 DEF Commit, Released, Row
  <2>3. CASE RecordFailure(w, ok)
    BY <1>1, <2>3 DEF RecordFailure, Released, Row
  <2>4. CASE ClearResolvedJobs(w, ok)
    BY <1>1, <2>4 DEF ClearResolvedJobs, NoRow
  <2> QED  BY <1>2, <1>5, <2>1, <2>2, <2>3, <2>4
           DEF RequestStep, PutDerivative, DeleteOrphan, ClaimFreeFiles, FinalizeObject, FinalizeRow
<1> QED  BY <1>2, <1>3, <1>4, <1>5
         DEF WorkerSteps, SweepDue, SweepNotDue, ClaimNothing, ReadStatus, Download, Transcode,
             Exit, Restart, Crash, RunFails

\* The same of any step; a row that appears is of a file still uploading.
LEMMA RowCounts ==
    ASSUME TypeOK, HoldsJob, Next, NEW j \in Jobs, queue'[j].status # "none",
           file[j[1]] # "uploading"
    PROVE  queue[j].status # "none" /\ queue[j].attempts <= queue'[j].attempts
<1>1. queue[j].attempts \in Nat
  BY MaxAttemptsAssumption DEF TypeOK, StoreTypeOK, Row
<1>2. ASSUME NEW f \in Files, ApiSteps(f) PROVE queue'[j] = queue[j]
  BY <1>2, ApiQueue DEF Queued
<1>3. ASSUME NEW i \in Jobs, LeaseAges(i)
      PROVE  /\ queue'[j].status = queue[j].status
             /\ queue'[j].attempts = queue[j].attempts
  BY <1>3 DEF LeaseAges, TypeOK, StoreTypeOK, Row
<1> QED  BY <1>1, <1>2, <1>3, WorkerCounts, NextCases

\* A worker has a job from its claim.
LEMMA JobFrom ==
    ASSUME TypeOK, NEW w \in Workers, WorkerSteps(w), job'[w] # NoJob
    PROVE  \/ \E j \in Jobs : Claim(w, j)
           \/ job'[w] = job[w] /\ attempt'[w] = attempt[w]
BY DEF TypeOK, WorkerTypeOK, WorkerSteps, SweepDue, SweepNotDue, ClaimNothing, ReadStatus, Download,
   TranscodeTick, Transcode, Exit, Restart, Crash, ClaimFails, RunFails, RequestStep, RenewLease,
   PutDerivative, Commit, DeleteOrphan, RecordFailure, ClearResolvedJobs, ClaimFreeFiles,
   FinalizeObject, FinalizeRow, KeepJob, DropJob

LEMMA CountedKept ==
    ASSUME RunInv, Next, NEW w \in Workers, job'[w] = job[w], attempt'[w] = attempt[w]
    PROVE  Counted(w)'
<1> SUFFICES ASSUME job[w] # NoJob
             PROVE  /\ attempt[w] > 0
                    /\ file'[job[w][1]] \notin {"none", "uploading"}
                    /\ queue'[job[w]].status # "none" => attempt[w] <= queue'[job[w]].attempts
  BY DEF Counted
<1>1. /\ TypeOK /\ HoldsJob /\ TypeOK'
      /\ job[w] \in Jobs /\ job[w][1] \in Files /\ Counted(w)
  BY ServableNext DEF RunInv, QueueInv, ServableInv, TypeOK, WorkerTypeOK, Jobs
<1>2. file'[job[w][1]] \notin {"none", "uploading"}
  BY <1>1, StepForward, StatusFacts DEF Counted
<1>3. ASSUME queue'[job[w]].status # "none" PROVE attempt[w] <= queue'[job[w]].attempts
  <2>1. queue[job[w]].status # "none" /\ queue[job[w]].attempts <= queue'[job[w]].attempts
    BY <1>1, <1>3, RowCounts DEF Counted
  <2>2. attempt[w] <= queue[job[w]].attempts
    BY <1>1, <2>1 DEF Counted
  <2>3. attempt[w] \in Nat /\ queue[job[w]].attempts \in Nat /\ queue'[job[w]].attempts \in Nat
    BY <1>1, MaxAttemptsAssumption DEF TypeOK, StoreTypeOK, WorkerTypeOK, Row
  <2> QED  BY <2>1, <2>2, <2>3
<1> QED  BY <1>1, <1>2, <1>3 DEF Counted

\* The number a claim gives is beyond every number held.
LEMMA ClaimCounts ==
    ASSUME RunInv, NEW w \in Workers, NEW j \in Jobs, Claim(w, j)
    PROVE  /\ Counted(w)'
           /\ \A v \in Workers \ {w} : job[v] = job'[w] => attempt[v] # attempt'[w]
<1>1. TypeOK
  BY DEF RunInv, QueueInv, ServableInv
<1>2. /\ job'[w] = j /\ attempt'[w] = queue[j].attempts + 1 /\ file' = file
      /\ queue'[j].attempts = queue[j].attempts + 1
  BY <1>1 DEF Claim, TypeOK, StoreTypeOK, WorkerTypeOK
<1>3. queue[j].attempts \in Nat /\ queue[j].status # "none"
  BY <1>1, MaxAttemptsAssumption DEF Claim, Claimable, TypeOK, StoreTypeOK, Row
<1>4. file[j[1]] \notin {"none", "uploading"}
  <2>1. j = <<j[1], j[2]>> /\ j[1] \in Files /\ j[2] \in Targets
    BY DEF Jobs
  <2> QED  BY <1>3, <2>1 DEF RunInv, QueueInv, QueueApart
<1>5. Counted(w)'
  BY <1>2, <1>3, <1>4 DEF Counted
<1>6. ASSUME NEW v \in Workers, job[v] = j PROVE attempt[v] # attempt'[w]
  <2>1. j # NoJob /\ attempt[v] \in Nat
    BY <1>1, JobAssumption, MaxAttemptsAssumption DEF Jobs, TypeOK, WorkerTypeOK
  <2>2. attempt[v] <= queue[j].attempts
    BY <1>3, <1>6, <2>1 DEF RunInv, Counted
  <2> QED  BY <1>2, <1>3, <2>1, <2>2
<1> QED  BY <1>2, <1>5, <1>6

LEMMA RunNext == RunInv /\ [Next]_vars => RunInv'
<1> SUFFICES ASSUME RunInv, [Next]_vars
             PROVE  RunsNumbered' /\ \A w \in Workers : Counted(w)'
  BY QueueNext DEF RunInv
<1>1. TypeOK /\ HoldsJob
  BY DEF RunInv, QueueInv, ServableInv
<1>2. CASE UNCHANGED vars
  BY <1>2 DEF vars, RunInv, RunsNumbered, Counted
<1>3. CASE Next
  <2>1. CASE job' = job /\ attempt' = attempt
    <3>1. \A w \in Workers : Counted(w)'
      BY <1>3, <2>1, CountedKept
    <3> QED  BY <2>1, <3>1 DEF RunInv, RunsNumbered, Counted
  <2>2. ASSUME NEW w \in Workers, WorkerSteps(w)
        PROVE  RunsNumbered' /\ \A v \in Workers : Counted(v)'
    <3>1. \A v \in Workers \ {w} : job'[v] = job[v] /\ attempt'[v] = attempt[v]
      BY <1>1, <2>2, OtherWorkers DEF KeepsTo
    <3>2. /\ Counted(w)'
          /\ \A v \in Workers \ {w} :
                job'[w] # NoJob /\ job[v] = job'[w] => attempt[v] # attempt'[w]
      <4>1. CASE job'[w] = NoJob
        BY <4>1 DEF Counted
      <4>2. CASE \E j \in Jobs : Claim(w, j)
        BY <4>2, ClaimCounts
      <4>3. CASE job'[w] = job[w] /\ attempt'[w] = attempt[w]
        BY <1>3, <4>3, CountedKept DEF RunInv, RunsNumbered
      <4> QED  BY <1>1, <2>2, <4>1, <4>2, <4>3, JobFrom
    <3>3. \A v \in Workers : Counted(v)'
      BY <1>3, <3>1, <3>2, CountedKept
    <3>4. ASSUME NEW u \in Workers, NEW v \in Workers \ {u}, job'[u] # NoJob, job'[v] = job'[u]
          PROVE  attempt'[v] # attempt'[u]
      BY <3>1, <3>2, <3>4 DEF RunInv, RunsNumbered
    <3> QED  BY <3>3, <3>4 DEF RunsNumbered, Counted
  <2> QED  BY <1>3, <2>1, <2>2, NextCases DEF LeaseAges, workerVars
<1> QED  BY <1>2, <1>3

(***************************************************************************)
(* No two workers run the same attempt of a job, and none runs one its row *)
(* does not count, under every fault: leases that lapse over a worker at   *)
(* work, claims and last transactions whose answer is lost, crashes        *)
(* (claim_job's attempts + 1, and that nothing else writes the column).    *)
(***************************************************************************)
THEOREM RunsAreNumbered == Spec => []RunsNumbered
<1>1. Init => RunInv
  BY QueueInit DEF Init, WorkerInit, RunInv, RunsNumbered, Counted
<1>2. RunInv => RunsNumbered
  BY DEF RunInv
<1> QED  BY <1>1, <1>2, RunNext, PTL DEF Spec
-----------------------------------------------------------------------------
(***************************************************************************)
(* The sweep's batch (claim_free_files' ORDER BY id LIMIT BATCH).          *)
(***************************************************************************)
Ahead(S, f) == {g \in S : g < f}

LEMMA AheadFinite ==
    ASSUME NEW S \in SUBSET Nat, NEW f \in Nat
    PROVE  IsFiniteSet(Ahead(S, f)) /\ Cardinality(Ahead(S, f)) \in Nat
<1>1. Ahead(S, f) \subseteq S
  BY DEF Ahead
<1>2. \A g \in Ahead(S, f) : g <= f
  BY DEF Ahead
<1> QED  BY <1>1, <1>2, FS_BoundedSetOfNaturals, FS_CardinalityType

\* A later id has more ids ahead of it.
LEMMA AheadGrows ==
    ASSUME NEW S \in SUBSET Nat, NEW f \in S, NEW h \in S, f < h
    PROVE  Cardinality(Ahead(S, f)) < Cardinality(Ahead(S, h))
<1>1. Ahead(S, f) \subseteq Ahead(S, h)
  <2>1. \A g \in S : g < f => g < h
    OBVIOUS
  <2> QED  BY <2>1 DEF Ahead
<1>2. f \in Ahead(S, h) /\ f \notin Ahead(S, f)
  BY DEF Ahead
<1>3. IsFiniteSet(Ahead(S, h))
  BY AheadFinite
<1>4. Cardinality(Ahead(S, f)) \in Nat /\ Cardinality(Ahead(S, h)) \in Nat
  BY AheadFinite
<1>5. /\ Cardinality(Ahead(S, f)) <= Cardinality(Ahead(S, h))
      /\ Cardinality(Ahead(S, f)) # Cardinality(Ahead(S, h))
  BY <1>1, <1>2, <1>3, <1>4, FS_Subset
<1> QED  BY <1>4, <1>5

LEMMA BatchBounded ==
    ASSUME NEW S \in SUBSET Nat
    PROVE  IsFiniteSet(FirstBatch(S)) /\ Cardinality(FirstBatch(S)) <= Batch
<1> DEFINE Place == [f \in FirstBatch(S) |-> Cardinality(Ahead(S, f))]
           Places == 0..(Batch - 1)
<1>1. \A f \in FirstBatch(S) : f \in S /\ f \in Nat /\ Cardinality(Ahead(S, f)) \in Places
  BY AheadFinite, BatchAssumption DEF FirstBatch, Ahead
<1>2. ASSUME NEW f \in FirstBatch(S), NEW h \in FirstBatch(S), f # h PROVE Place[f] # Place[h]
  <2>1. f < h \/ h < f
    BY <1>1, <1>2
  <2>2. Place[f] \in Nat /\ Place[h] \in Nat
    BY <1>1, BatchAssumption
  <2>3. f < h => Place[f] < Place[h]
    BY <1>1, AheadGrows
  <2>4. h < f => Place[h] < Place[f]
    BY <1>1, AheadGrows
  <2> QED  BY <2>1, <2>2, <2>3, <2>4
<1>3. Place \in Injection(FirstBatch(S), Places)
  BY <1>1, <1>2 DEF Injection, IsInjective
<1>4. IsFiniteSet(Places) /\ Cardinality(Places) = Batch
  BY FS_Interval, BatchAssumption
<1> HIDE DEF Place, Places
<1> QED  BY <1>3, <1>4, FS_Injection

\* Ids that are free have a lowest.
LEMMA HasLowest ==
    ASSUME NEW S \in SUBSET Nat, S # {}
    PROVE  \E h \in S : \A g \in S : ~(g < h)
<1> DEFINE Less == OpToRel(<, Nat)
<1>1. \A g, h \in Nat : <<g, h>> \in Less <=> g < h
  BY DEF OpToRel
<1>2. IsWellFoundedOn(Less, Nat)
  BY NatLessThanWellFounded
<1> HIDE DEF Less
<1>3. \E h \in S : \A g \in S : ~(<<g, h>> \in Less)
  BY <1>2, WFMin
<1> QED  BY <1>1, <1>3

(***************************************************************************)
(* A batch is the BATCH lowest ids of what is free: no more than BATCH,    *)
(* none passed over, and fewer than BATCH only when it is all there is.    *)
(***************************************************************************)
THEOREM LowestBatch ==
    ASSUME NEW S \in SUBSET Files
    PROVE  /\ FirstBatch(S) \subseteq S
           /\ IsFiniteSet(FirstBatch(S)) /\ Cardinality(FirstBatch(S)) <= Batch
           /\ \A f \in FirstBatch(S) : \A g \in S : g < f => g \in FirstBatch(S)
           /\ FirstBatch(S) # S => Cardinality(FirstBatch(S)) = Batch
           /\ IsFiniteSet(S) /\ Cardinality(S) <= Batch => FirstBatch(S) = S
<1>1. S \in SUBSET Nat
  BY FilesAssumption
<1>2. ASSUME NEW f \in FirstBatch(S), NEW g \in S, g < f PROVE g \in FirstBatch(S)
  <2>1. f \in S /\ Cardinality(Ahead(S, f)) < Batch
    BY DEF FirstBatch, Ahead
  <2>2. Cardinality(Ahead(S, g)) < Cardinality(Ahead(S, f))
    BY <1>1, <1>2, <2>1, AheadGrows
  <2>3. Cardinality(Ahead(S, g)) \in Nat /\ Cardinality(Ahead(S, f)) \in Nat
    BY <1>1, <2>1, AheadFinite
  <2>4. Cardinality(Ahead(S, g)) < Batch
    BY <2>1, <2>2, <2>3, BatchAssumption
  <2> QED  BY <2>4 DEF FirstBatch, Ahead
<1>3. ASSUME IsFiniteSet(S), Cardinality(S) <= Batch, NEW f \in S PROVE f \in FirstBatch(S)
  <2>1. Ahead(S, f) \in SUBSET S /\ f \notin Ahead(S, f)
    BY <1>1 DEF Ahead
  <2>2. Cardinality(Ahead(S, f)) \in Nat /\ Cardinality(S) \in Nat
    BY <1>1, <1>3, AheadFinite, FS_CardinalityType
  <2>3. Cardinality(Ahead(S, f)) <= Cardinality(S) /\ Cardinality(Ahead(S, f)) # Cardinality(S)
    BY <1>3, <2>1, FS_Subset
  <2>4. Cardinality(Ahead(S, f)) < Batch
    BY <1>3, <2>2, <2>3, BatchAssumption
  <2> QED  BY <2>4 DEF FirstBatch, Ahead
<1>4. ASSUME FirstBatch(S) # S PROVE Cardinality(FirstBatch(S)) >= Batch
  <2>1. S \ FirstBatch(S) \in SUBSET Nat /\ S \ FirstBatch(S) # {}
    BY <1>1, <1>4, FirstBatchSubset
  <2>2. PICK h \in S \ FirstBatch(S) : \A g \in S \ FirstBatch(S) : ~(g < h)
    BY <2>1, HasLowest
  <2>3. ~(Cardinality(Ahead(S, h)) < Batch)
    BY <2>2 DEF FirstBatch, Ahead
  <2>4. Ahead(S, h) \subseteq FirstBatch(S)
    BY <2>2 DEF Ahead
  <2>5. Cardinality(Ahead(S, h)) <= Cardinality(FirstBatch(S))
    BY <1>1, <2>4, BatchBounded, FS_Subset
  <2>6. Cardinality(Ahead(S, h)) \in Nat /\ Cardinality(FirstBatch(S)) \in Nat
    BY <1>1, <2>2, AheadFinite, BatchBounded, FS_CardinalityType
  <2> QED  BY <2>3, <2>5, <2>6, BatchAssumption
<1>5. FirstBatch(S) # S => Cardinality(FirstBatch(S)) = Batch
  BY <1>1, <1>4, BatchBounded, FS_CardinalityType, BatchAssumption
<1>6. IsFiniteSet(S) /\ Cardinality(S) <= Batch => FirstBatch(S) = S
  BY <1>3, FirstBatchSubset
<1> QED  BY <1>1, <1>2, <1>5, <1>6, BatchBounded, FirstBatchSubset

(***************************************************************************)
(* Files Garage never lets go of, fewer than a batch, do not keep the      *)
(* first of the others out of it, however low their ids: what lets the     *)
(* sweep converge behind a backlog (BATCH in sweep.rs).                    *)
(***************************************************************************)
THEOREM BacklogIsPassed ==
    ASSUME IsFiniteSet(Refused), Cardinality(Refused) < Batch,
           NEW f, IsFirst(f, Free \ Refused)
    PROVE  f \in FirstBatch(Free)
<1>1. f \in Free /\ Free \in SUBSET Nat /\ f \in Nat
  BY FilesAssumption DEF IsFirst, Free
<1>2. Ahead(Free, f) \subseteq Refused
  <2>1. ASSUME NEW g \in Free \ Refused PROVE ~(g < f)
    <3>1. f <= g /\ g \in Nat
      BY <1>1, <2>1 DEF IsFirst
    <3> QED  BY <1>1, <3>1
  <2> QED  BY <2>1 DEF Ahead
<1>3. Cardinality(Ahead(Free, f)) \in Nat /\ Cardinality(Refused) \in Nat
  BY <1>1, AheadFinite, FS_CardinalityType
<1>4. Cardinality(Ahead(Free, f)) <= Cardinality(Refused)
  BY <1>2, FS_Subset
<1>5. Cardinality(Ahead(Free, f)) < Batch
  BY <1>3, <1>4, BatchAssumption
<1> QED  BY <1>1, <1>5 DEF FirstBatch, Ahead
=============================================================================
