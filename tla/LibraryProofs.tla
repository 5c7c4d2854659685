---------------------------- MODULE LibraryProofs ----------------------------
(***************************************************************************)
(* What the system promises those who use it, for every set of files,      *)
(* tiers and replicas and every mix of faults: a 201 and an offer keep     *)
(* their word, and the queue agrees with the flags they rest on.           *)
(***************************************************************************)
EXTENDS Downloads, AudioSystemProofs

(***************************************************************************)
(* The queue.  Its rows come with the flip and go with the sweep, so       *)
(* before the one there are none and, once the other is through, no more.  *)
(***************************************************************************)
QueueApart ==
    \A f \in Files, t \in Targets : file[f] \in {"none", "uploading"} => queue[<<f, t>>].status = "none"

QueueInv == ServableInv /\ QueueApart /\ LiveQueueConsistent

\* No row appears.
RowsKept == \A j \in Jobs : queue[j].status = "none" => queue'[j].status = "none"

LEMMA JobOf ==
    ASSUME NEW f \in Files, NEW t \in Targets
    PROVE  <<f, t>> \in Jobs
BY DEF Jobs

\* The only step that adds rows is a flip that matched.
LEMMA ApiQueue ==
    ASSUME TypeOK, NEW f \in Files, ApiSteps(f)
    PROVE  /\ flags' = flags
           /\ \/ queue' = queue /\ \A g \in Files : file'[g] = file[g] \/ file'[g] # "uploaded"
              \/ \E applied \in BOOLEAN :
                    /\ file' = IF applied /\ file[f] = "uploading"
                               THEN [file EXCEPT ![f] = "uploaded"] ELSE file
                    /\ queue' = Queued(f, applied /\ file[f] = "uploading")
<1> USE DEF TypeOK, StoreTypeOK, storeVars
<1>1. ASSUME NEW ok \in BOOLEAN, Flip(f, ok)
      PROVE  /\ flags' = flags
             /\ \E applied \in BOOLEAN :
                   /\ file' = IF applied /\ file[f] = "uploading"
                              THEN [file EXCEPT ![f] = "uploaded"] ELSE file
                   /\ queue' = Queued(f, applied /\ file[f] = "uploading")
  BY <1>1, AppliedType DEF Flip, SetStatus
<1>2. ASSUME InsertRow(f) \/ DeleteAudio(f) \/ Abandon(f)
      PROVE  /\ flags' = flags /\ queue' = queue
             /\ \A g \in Files : file'[g] = file[g] \/ file'[g] # "uploaded"
  BY <1>2 DEF InsertRow, DeleteAudio, Abandon, SetStatus
<1>3. ASSUME NEW ok \in BOOLEAN, UploadStep(f, ok), ~Flip(f, ok)
      PROVE  /\ flags' = flags /\ queue' = queue
             /\ \A g \in Files : file'[g] = file[g] \/ file'[g] # "uploaded"
  BY <1>3 DEF UploadStep, PutSource, CleanUpPut, RetireFailedPut, FlipCollides, DiscardObject,
     DiscardRow, RetiredStatus, LookupOriginal, SetStatus
<1> QED  BY <1>1, <1>2, <1>3 DEF ApiSteps

\* A worker never adds a row, takes one only from a file that is going, and
\* writes 'done' only with the flag.
LEMMA WorkerQueue ==
    ASSUME TypeOK, HoldsJob, NEW w \in Workers, WorkerSteps(w)
    PROVE  /\ RowsKept
           /\ \A j \in Jobs : file[j[1]] # "delete_pending" =>
                 /\ queue[j].status # "none" => queue'[j].status # "none"
                 /\ queue'[j].status = "done" =>
                       \/ queue[j].status = "done"
                       \/ file[j[1]] # "uploaded"
                       \/ j[2] \in flags'[j[1]]
           /\ \A g \in Files : flags[g] \subseteq flags'[g]
<1> USE DEF TypeOK, StoreTypeOK, WorkerTypeOK, storeVars, RowsKept
<1>1. CASE SweepDue(w) \/ SweepNotDue(w) \/ ClaimNothing(w) \/ ReadStatus(w) \/ Download(w)
           \/ Transcode(w) \/ Exit(w) \/ Restart(w) \/ Crash(w)
           \/ \E kind \in {"retryable", "terminal"} : RunFails(w, kind)
  BY <1>1 DEF SweepDue, SweepNotDue, ClaimNothing, ReadStatus, Download, Transcode, Exit,
     Restart, Crash, RunFails
<1>2. CASE ClaimFails(w) \/ \E j \in Jobs : Claim(w, j)
  BY <1>2 DEF ClaimFails, Claim, Claimable
<1>3. CASE TranscodeTick(w)
  BY <1>3 DEF TranscodeTick, Renewed, Row
<1>4. ASSUME NEW ok \in BOOLEAN, RequestStep(w, ok)
      PROVE  /\ RowsKept
             /\ \A j \in Jobs : file[j[1]] # "delete_pending" =>
                   /\ queue[j].status # "none" => queue'[j].status # "none"
                   /\ queue'[j].status = "done" =>
                         \/ queue[j].status = "done"
                         \/ file[j[1]] # "uploaded"
                         \/ j[2] \in flags'[j[1]]
             /\ \A g \in Files : flags[g] \subseteq flags'[g]
  <2>1. CASE RenewLease(w, ok)
    BY <2>1 DEF RenewLease, Renewed, Row
  <2>2. CASE PutDerivative(w, ok) \/ DeleteOrphan(w, ok) \/ ClaimFreeFiles(w, ok)
             \/ FinalizeObject(w, ok) \/ FinalizeRow(w, ok)
    BY <2>2 DEF PutDerivative, DeleteOrphan, ClaimFreeFiles, FinalizeObject, FinalizeRow
  <2>3. CASE Commit(w, ok)
    <3>1. /\ job[w] \in Jobs /\ job[w][1] \in Files /\ job[w][2] \in Targets
      BY <2>3, JobTypes DEF Commit, HoldsJob, Settling, Advance
    <3>2. PICK applied \in Applied(ok) :
             /\ flags' = IF applied /\ file[job[w][1]] = "uploaded"
                         THEN [flags EXCEPT ![job[w][1]] = @ \union {job[w][2]}] ELSE flags
             /\ queue' = IF applied
                         THEN [queue EXCEPT ![job[w]] = Released(@, "done")] ELSE queue
      BY <2>3 DEF Commit
    <3> QED  BY <3>1, <3>2 DEF Released, Row
  <2>4. CASE RecordFailure(w, ok)
    <3>1. job[w] \in Jobs /\ flags' = flags
      BY <2>4 DEF RecordFailure, HoldsJob, Settling, Advance
    <3>2. PICK kind \in {"retryable", "terminal"}, applied \in Applied(ok) :
             queue' = IF applied
                      THEN [queue EXCEPT ![job[w]] = Released(@, FailedStatus(kind, attempt[w]))]
                      ELSE queue
      BY <2>4 DEF RecordFailure
    <3> QED  BY <3>1, <3>2 DEF Released, FailedStatus, Row
  <2>5. CASE ClearResolvedJobs(w, ok)
    BY <2>5 DEF ClearResolvedJobs, NoRow
  <2> QED  BY <1>4, <2>1, <2>2, <2>3, <2>4, <2>5 DEF RequestStep
<1> QED  BY <1>1, <1>2, <1>3, <1>4 DEF WorkerSteps

LEMMA ClockQueue ==
    ASSUME TypeOK, NEW j \in Jobs, LeaseAges(j)
    PROVE  /\ flags' = flags /\ file' = file
           /\ \A i \in Jobs : queue'[i].status = queue[i].status
BY DEF LeaseAges, TypeOK, StoreTypeOK, Row

LEMMA QueueInit == Init => QueueInv
<1> SUFFICES ASSUME Init PROVE QueueApart /\ LiveQueueConsistent
  BY ServableInit DEF QueueInv
<1>1. \A f \in Files : file[f] = "none"
  BY DEF Init, StoreInit
<1>2. \A j \in Jobs : queue[j].status = "none"
  BY DEF Init, StoreInit, NoRow
<1> QED  BY <1>1, <1>2, JobOf DEF QueueApart, LiveQueueConsistent

LEMMA QueueNext == QueueInv /\ [Next]_vars => QueueInv'
<1> SUFFICES ASSUME QueueInv, [Next]_vars PROVE QueueApart' /\ LiveQueueConsistent'
  BY ServableNext DEF QueueInv
<1> USE DEF QueueInv
<1>1. TypeOK /\ HoldsJob /\ TypeOK'
  BY ServableNext DEF ServableInv
<1>2. CASE UNCHANGED vars
  BY <1>2 DEF vars, QueueApart, LiveQueueConsistent
<1>3. CASE Next
  <2>1. \A g \in Files : Forward(g)
    BY <1>1, <1>3, StepForward
  <2>2. ASSUME NEW f \in Files, ApiSteps(f) PROVE QueueApart' /\ LiveQueueConsistent'
    <3>1. flags' = flags
      BY <1>1, <2>2, ApiQueue
    <3>2. CASE queue' = queue /\ \A g \in Files : file'[g] = file[g] \/ file'[g] # "uploaded"
      BY <1>1, <2>1, <3>1, <3>2, StatusFacts DEF QueueApart, LiveQueueConsistent
    <3>3. ASSUME NEW applied \in BOOLEAN,
                 file' = IF applied /\ file[f] = "uploading"
                         THEN [file EXCEPT ![f] = "uploaded"] ELSE file,
                 queue' = Queued(f, applied /\ file[f] = "uploading")
          PROVE  QueueApart' /\ LiveQueueConsistent'
      <4>1. CASE applied /\ file[f] = "uploading"
        <5>1. /\ \A g \in Files : file'[g] = IF g = f THEN "uploaded" ELSE file[g]
              /\ \A j \in Jobs : queue'[j] = IF j[1] = f /\ queue[j].status = "none"
                                            THEN FreshRow ELSE queue[j]
          BY <1>1, <3>3, <4>1 DEF TypeOK, StoreTypeOK, Queued
        <5>2. FreshRow.status = "pending"
          BY DEF FreshRow, NoRow
        <5>3. QueueApart'
          BY <5>1, JobOf DEF QueueApart
        <5>4. LiveQueueConsistent'
          BY <3>1, <5>1, <5>2, <4>1, JobOf DEF QueueApart, LiveQueueConsistent
        <5> QED  BY <5>3, <5>4
      <4>2. CASE ~(applied /\ file[f] = "uploading")
        <5>1. file' = file /\ \A j \in Jobs : queue'[j] = queue[j]
          BY <3>3, <4>2 DEF Queued
        <5> QED  BY <3>1, <5>1, JobOf DEF QueueApart, LiveQueueConsistent
      <4> QED  BY <4>1, <4>2
    <3> QED  BY <1>1, <2>2, <3>2, <3>3, ApiQueue
  <2>3. ASSUME NEW w \in Workers, WorkerSteps(w) PROVE QueueApart' /\ LiveQueueConsistent'
    <3>1. /\ RowsKept
          /\ \A j \in Jobs : file[j[1]] # "delete_pending" =>
                /\ queue[j].status # "none" => queue'[j].status # "none"
                /\ queue'[j].status = "done" =>
                      \/ queue[j].status = "done"
                      \/ file[j[1]] # "uploaded"
                      \/ j[2] \in flags'[j[1]]
          /\ \A g \in Files : flags[g] \subseteq flags'[g]
      BY <1>1, <2>3, WorkerQueue
    <3>2. \A g \in Files : file'[g] = file[g] \/ file'[g] \in Dead
      BY <1>1, <2>3, WorkerFile
    <3>3. QueueApart'
      BY <3>1, <3>2, JobOf DEF QueueApart, RowsKept, Dead
    <3>4. LiveQueueConsistent'
      <4> SUFFICES ASSUME NEW g \in Files, NEW t \in Targets, file'[g] = "uploaded"
                   PROVE  /\ queue'[<<g, t>>].status # "none"
                          /\ queue'[<<g, t>>].status = "done" => t \in flags'[g]
        BY DEF LiveQueueConsistent
      <4>1. file[g] = "uploaded" /\ <<g, t>> \in Jobs
        BY <3>2, JobOf DEF Dead
      <4>2. queue[<<g, t>>].status # "none" /\ (queue[<<g, t>>].status = "done" => t \in flags[g])
        BY <4>1 DEF LiveQueueConsistent
      <4> QED  BY <3>1, <4>1, <4>2
    <3> QED  BY <3>3, <3>4
  <2>4. ASSUME NEW j \in Jobs, LeaseAges(j) PROVE QueueApart' /\ LiveQueueConsistent'
    BY <1>1, <2>4, ClockQueue, JobOf DEF QueueApart, LiveQueueConsistent
  <2> QED  BY <1>3, <2>2, <2>3, <2>4, NextCases
<1> QED  BY <1>2, <1>3

(***************************************************************************)
(* A live file has a queue row per tier, and a row that says 'done' is one *)
(* whose flag is set (upload_audio's and run_job's transactions, and the   *)
(* WHERE of clear_resolved_jobs).                                          *)
(***************************************************************************)
THEOREM QueueConsistent == Spec => []LiveQueueConsistent
<1>1. QueueInv => LiveQueueConsistent
  BY DEF QueueInv
<1> QED  BY <1>1, QueueInit, QueueNext, PTL DEF Spec

LEMMA FreedStep ==
    ASSUME QueueInv, Next, NEW f \in Files, file[f] \in Dead, NoJobs(f)
    PROVE  NoJobs(f)'
<1>1. TypeOK /\ HoldsJob
  BY DEF QueueInv, ServableInv
<1>2. \A t \in Targets : <<f, t>> \in Jobs /\ queue[<<f, t>>].status = "none"
  BY JobOf DEF NoJobs
<1>3. ASSUME NEW g \in Files, ApiSteps(g) PROVE NoJobs(f)'
  <2>1. CASE queue' = queue
    BY <2>1 DEF NoJobs
  <2>2. ASSUME NEW applied \in BOOLEAN, queue' = Queued(g, applied /\ file[g] = "uploading")
        PROVE  NoJobs(f)'
    <3>1. \A j \in Jobs : j[1] = f => queue'[j] = queue[j]
      BY <2>2 DEF Queued, Dead
    <3> QED  BY <1>2, <3>1 DEF NoJobs
  <2> QED  BY <1>1, <1>3, <2>1, <2>2, ApiQueue
<1>4. ASSUME NEW w \in Workers, WorkerSteps(w) PROVE NoJobs(f)'
  <2>1. RowsKept
    BY <1>1, <1>4, WorkerQueue
  <2> QED  BY <1>2, <2>1 DEF NoJobs, RowsKept
<1>5. ASSUME NEW j \in Jobs, LeaseAges(j) PROVE NoJobs(f)'
  BY <1>1, <1>2, <1>5, ClockQueue DEF NoJobs
<1> QED  BY <1>3, <1>4, <1>5, NextCases

(***************************************************************************)
(* A deleting file whose queue rows are gone gets none back, so what       *)
(* claim_free_files selected on still holds in finalize.                   *)
(***************************************************************************)
THEOREM FreedForGood == Spec => FreedStaysFree
<1>1. QueueInv /\ [Next]_vars =>
          [\A f \in Files : file[f] \in Dead /\ NoJobs(f) => NoJobs(f)']_vars
  BY FreedStep
<1> QED  BY <1>1, QueueInit, QueueNext, PTL DEF Spec, FreedStaysFree
-----------------------------------------------------------------------------
(***************************************************************************)
(* What a client was told.                                                 *)
(***************************************************************************)
\* A request that is under way, or was, has inserted its row.
Inserted == \A f \in Files : upload[f] # "none" => file[f] # "none"

ToldInv == ServableInv /\ Inserted /\ CreatedMeansPublished

LEMMA ToldNext == ToldInv /\ [Next]_vars => ToldInv'
<1> SUFFICES ASSUME ToldInv, [Next]_vars PROVE Inserted' /\ CreatedMeansPublished'
  BY ServableNext DEF ToldInv
<1>1. TypeOK /\ TypeOK'
  BY ServableNext DEF ToldInv, ServableInv
<1>2. CASE UNCHANGED vars
  BY <1>2 DEF vars, ToldInv, Inserted, CreatedMeansPublished
<1>3. CASE Next
  <2>1. \A g \in Files : Forward(g)
    BY <1>1, <1>3, StepForward
  <2>2. \A g \in Files :
           /\ file[g] \in {"uploaded"} \union Dead => file'[g] \in {"uploaded"} \union Dead
           /\ file[g] # "none" => file'[g] # "none"
    BY <1>1, <2>1, StatusFacts DEF Forward, Successors, Dead, TypeOK, StoreTypeOK, FileStatus
  <2>3. CASE upload' = upload
    BY <2>2, <2>3 DEF ToldInv, Inserted, CreatedMeansPublished
  <2>4. ASSUME NEW f \in Files, ApiSteps(f) PROVE Inserted' /\ CreatedMeansPublished'
    <3>1. \A g \in Files \ {f} : upload'[g] = upload[g]
      BY <1>1, <2>4
         DEF ApiSteps, InsertRow, DeleteAudio, Abandon, UploadStep, PutSource, CleanUpPut,
             RetireFailedPut, Flip, FlipCollides, DiscardObject, DiscardRow, LookupOriginal, Goto,
             TypeOK, UploadTypeOK
    <3>2. file'[f] # "none" \/ upload'[f] = upload[f]
      <4>1. CASE InsertRow(f)
        BY <1>1, <4>1 DEF InsertRow, TypeOK, StoreTypeOK
      <4>2. CASE DeleteAudio(f)
        BY <4>2 DEF DeleteAudio
      <4>3. CASE Abandon(f) \/ \E ok \in BOOLEAN : UploadStep(f, ok)
        <5>1. upload[f] # "none"
          BY <4>3
             DEF Abandon, InFlight, UploadStep, PutSource, CleanUpPut, RetireFailedPut, Flip,
                 FlipCollides, DiscardObject, DiscardRow, LookupOriginal, Goto
        <5> QED  BY <2>2, <5>1 DEF ToldInv, Inserted
      <4> QED  BY <2>4, <4>1, <4>2, <4>3 DEF ApiSteps
    <3>3. upload'[f] = "created" => file'[f] \in {"uploaded"} \union Dead
      <4>1. ASSUME NEW ok \in BOOLEAN, Flip(f, ok), upload'[f] = "created"
            PROVE  file'[f] \in {"uploaded"} \union Dead
        <5>1. ok /\ upload[f] = "flip"
          BY <1>1, <4>1 DEF Flip, Goto, TypeOK, UploadTypeOK
        <5>2. file' = IF file[f] = "uploading" THEN [file EXCEPT ![f] = "uploaded"] ELSE file
          BY <4>1, <5>1 DEF Flip, SetStatus, Applied
        <5>3. file[f] \in FileStatus \ {"none"}
          BY <1>1, <5>1 DEF ToldInv, Inserted, TypeOK, StoreTypeOK
        <5> QED  BY <1>1, <5>2, <5>3 DEF FileStatus, Dead, TypeOK, StoreTypeOK
      <4>2. CASE ~\E ok \in BOOLEAN : Flip(f, ok)
        <5>1. upload'[f] = "created" => upload[f] = "created"
          BY <1>1, <2>4, <4>2
             DEF ApiSteps, InsertRow, DeleteAudio, Abandon, UploadStep, PutSource, CleanUpPut,
                 RetireFailedPut, FlipCollides, DiscardObject, DiscardRow, LookupOriginal, Goto,
                 TypeOK, UploadTypeOK
        <5> QED  BY <2>2, <5>1 DEF ToldInv, CreatedMeansPublished
      <4> QED  BY <4>1, <4>2
    <3> QED
      BY <2>2, <3>1, <3>2, <3>3 DEF ToldInv, Inserted, CreatedMeansPublished
  <2> QED  BY <1>3, <2>3, <2>4, NextCases DEF LeaseAges
<1> QED  BY <1>2, <1>3

(***************************************************************************)
(* A 201 is never the answer to an upload that left nothing (upload_audio: *)
(* past the commit, the row was flipped or a delete was there first).      *)
(***************************************************************************)
THEOREM CreatedKept == Spec => []CreatedMeansPublished
<1>1. Init => ToldInv
  BY ServableInit DEF Init, UploadInit, ToldInv, Inserted, CreatedMeansPublished
<1>2. ToldInv => CreatedMeansPublished
  BY DEF ToldInv
<1> QED  BY <1>1, <1>2, ToldNext, PTL DEF Spec

(***************************************************************************)
(* What a listener was offered.                                            *)
(***************************************************************************)
\* Of a live row, what its flags advertise is there; and flags only grow.
LEMMA MatchesFetchable ==
    ASSUME ServableInv, NEW key \in Keys, Matches(key)
    PROVE  key \in Fetchable
<1>1. PICK f \in Files : key \in KeysOf(f)
  BY DEF Keys
<1>2. key[1] = f /\ file[f] = "uploaded"
  BY <1>1 DEF KeysOf, SourceKey, DerivativeKey, Matches
<1>3. CASE key = SourceKey(f)
  BY <1>2, <1>3 DEF ServableInv, LiveServable, Fetchable
<1>4. ASSUME NEW t \in Targets, key = DerivativeKey(f, t) PROVE key \in Fetchable
  <2>1. key[2] = t /\ t # "source"
    BY <1>4, TargetsAssumption DEF DerivativeKey
  <2>2. t \in flags[f]
    BY <1>2, <2>1 DEF Matches
  <2> QED  BY <1>2, <1>4, <2>1, <2>2 DEF ServableInv, LiveServable, Fetchable
<1> QED  BY <1>1, <1>3, <1>4 DEF KeysOf

LEMMA FlagsGrow ==
    ASSUME TypeOK, HoldsJob, Next
    PROVE  \A g \in Files : flags[g] \subseteq flags'[g]
BY NextCases, ApiQueue, WorkerQueue, ClockQueue

LEMMA FetchableStays ==
    ASSUME ServableInv, Next, NEW key \in Keys, key \in Fetchable
    PROVE  key \in Fetchable' \/ file'[key[1]] \in Dead
<1>1. ServableInv' /\ TypeOK /\ HoldsJob
  BY ServableNext DEF ServableInv
<1>2. PICK f \in Files : key \in KeysOf(f)
  BY DEF Keys
<1>3. key[1] = f /\ file[f] = "uploaded" /\ (key = SourceKey(f) \/ key[2] \in flags[f])
  BY <1>2 DEF KeysOf, SourceKey, DerivativeKey, Fetchable
<1>4. Forward(f) /\ flags[f] \subseteq flags'[f]
  BY <1>1, StepForward, FlagsGrow
<1>5. file'[f] = "uploaded" \/ file'[f] \in Dead
  BY <1>1, <1>3, <1>4, StatusFacts
<1>6. ASSUME file'[f] = "uploaded" PROVE Matches(key)'
  BY <1>3, <1>4, <1>6 DEF Matches, SourceKey
<1>7. ASSUME Matches(key)' PROVE key \in Fetchable'
  <2>1. ASSUME NEW g \in Files, NEW t \in Targets, key = DerivativeKey(g, t)
        PROVE  key \in Fetchable'
    <3>1. key[1] = g /\ key[2] = t /\ t # "source"
      BY <2>1, TargetsAssumption DEF DerivativeKey
    <3>2. file'[g] = "uploaded" /\ t \in flags'[g]
      BY <1>7, <3>1 DEF Matches
    <3> QED  BY <1>1, <2>1, <3>1, <3>2 DEF ServableInv, LiveServable, Fetchable
  <2>2. CASE key = SourceKey(f)
    BY <1>1, <1>3, <1>7, <2>2 DEF Matches, ServableInv, LiveServable, Fetchable
  <2> QED  BY <1>2, <2>1, <2>2 DEF KeysOf
<1> QED  BY <1>3, <1>5, <1>6, <1>7

OfferInv == ServableInv /\ OfferHolds

LEMMA OfferInit == DownloadInit => OfferInv
BY ServableInit DEF DownloadInit, OfferInv, OfferHolds, OfferType

LEMMA OfferNext == OfferInv /\ [DownloadNext]_downloadVars => OfferInv'
<1> SUFFICES ASSUME OfferInv, [DownloadNext]_downloadVars PROVE OfferInv'
  OBVIOUS
<1> USE DEF OfferInv
<1>1. offer = Nothing \/ (offer.key \in Keys /\ offer.at \in {"listed", "found"})
  BY DEF OfferHolds, OfferType
<1>2. CASE Next /\ UNCHANGED offer
  <2>1. ServableInv'
    BY <1>2, ServableNext
  <2>2. ASSUME offer # Nothing, offer.key \in Fetchable
        PROVE  offer.key \in Fetchable' \/ file'[offer.key[1]] \in Dead
    BY <1>1, <1>2, <2>2, FetchableStays
  <2>3. ASSUME offer # Nothing, file[offer.key[1]] \in Dead PROVE file'[offer.key[1]] \in Dead
    <3>1. PICK f \in Files : offer.key \in KeysOf(f)
      BY <1>1, <2>3 DEF Keys
    <3>2. offer.key[1] = f
      BY <3>1 DEF KeysOf, SourceKey, DerivativeKey
    <3> QED  BY <1>2, <2>3, <3>2, StepForward, StatusFacts DEF ServableInv
  <2> QED  BY <1>2, <2>1, <2>2, <2>3 DEF OfferHolds
<1>3. CASE DownloadStep /\ UNCHANGED vars
  <2>1. ServableInv'
    BY <1>3, ServableNext
  <2>2. file' = file /\ Fetchable' = Fetchable
    BY <1>3 DEF vars, Fetchable
  <2>3. CASE offer' = Nothing
    BY <2>1, <2>3 DEF OfferHolds, OfferType
  <2>4. ASSUME NEW key \in Keys, NEW at \in {"listed", "found"}, Matches(key),
               offer' = [at |-> at, key |-> key]
        PROVE  OfferHolds'
    BY <2>2, <2>4, MatchesFetchable DEF OfferHolds, OfferType
  <2>5. ASSUME NEW f \in Files, NEW t \in Targets, ListTier(f, t) PROVE OfferHolds'
    <3>1. DerivativeKey(f, t) \in Keys /\ Matches(DerivativeKey(f, t))
      BY <2>5, KeyTypes DEF ListTier, Matches, DerivativeKey
    <3> QED  BY <2>4, <2>5, <3>1 DEF ListTier
  <2>6. ASSUME NEW key \in Keys, FindRow(key) PROVE OfferHolds'
    BY <2>4, <2>6 DEF FindRow
  <2>7. ASSUME NEW ok \in BOOLEAN, GetObject(ok), offer' # Nothing PROVE OfferHolds'
    <3>1. offer' = [offer EXCEPT !.at = "listed"] /\ offer # Nothing
      BY <2>7 DEF GetObject, Nothing
    <3>2. offer \in [at : {"listed", "found"}, key : Keys]
      BY <3>1 DEF OfferHolds, OfferType
    <3>3. offer' \in [at : {"listed", "found"}, key : Keys] /\ offer'.key = offer.key
      BY <3>1, <3>2
    <3> QED  BY <2>2, <3>1, <3>3 DEF OfferHolds, OfferType
  <2> QED
    BY <1>3, <2>1, <2>3, <2>5, <2>6, <2>7 DEF DownloadStep, RowNotFound
<1>4. CASE UNCHANGED downloadVars
  <2>1. ServableInv' /\ offer' = offer /\ file' = file /\ Fetchable' = Fetchable
    BY <1>4, ServableNext DEF downloadVars, vars, Fetchable
  <2> QED  BY <2>1 DEF OfferHolds
<1> QED  BY <1>2, <1>3, <1>4 DEF DownloadNext

(***************************************************************************)
(* What a list offered, or a row found promised, is there until its file   *)
(* is deleted, for any number of files, tiers, replicas and workers.       *)
(***************************************************************************)
THEOREM OfferKept == DownloadSpec => []OfferHolds
<1>1. OfferInv => OfferHolds
  BY DEF OfferInv
<1> QED  BY <1>1, OfferInit, OfferNext, PTL DEF DownloadSpec
-----------------------------------------------------------------------------
(***************************************************************************)
(* The refinement.  What can be fetched follows from the rows alone, so a  *)
(* step is one of the library's by what it does to a status or a flag.     *)
(***************************************************************************)
ByRows == Fetchable = {key \in Keys : Matches(key)}

LEMMA FetchableByRows == ServableInv => ByRows
<1> SUFFICES ASSUME ServableInv PROVE ByRows
  OBVIOUS
<1>1. ASSUME NEW key \in Fetchable PROVE key \in Keys /\ Matches(key)
  BY <1>1 DEF Fetchable, Matches, SourceKey, ServableInv, TypeOK, StoreTypeOK
<1> QED  BY <1>1, MatchesFetchable DEF ByRows

LEMMA FetchableByRowsNext == ServableInv' => ByRows'
BY FetchableByRows, PTL

Stays == file' = file /\ flags' = flags
Moves(f, s) ==
    /\ file' = [file EXCEPT ![f] = s] /\ flags' = flags
    /\ s \in Successors[file[f]]
    /\ s = "uploaded" => ~Collides(f)
Flags(f, t) ==
    /\ file[f] = "uploaded" /\ file' = file
    /\ flags' = [flags EXCEPT ![f] = @ \union {t}]

LEMMA SetStatusMoves ==
    ASSUME NEW f \in Files, NEW from, NEW s, NEW applied,
           SetStatus(f, from, s, applied), flags' = flags,
           \A old \in from : s \in Successors[old],
           s # "uploaded" \/ ~(file[f] \in from /\ Collides(f))
    PROVE  Stays \/ Moves(f, s)
BY DEF SetStatus, Stays, Moves

LEMMA ApiShape ==
    ASSUME ServableInv, NEW f \in Files, ApiSteps(f)
    PROVE  Stays \/ \E s \in FileStatus : Moves(f, s)
<1> USE DEF ServableInv, TypeOK
<1>1. /\ \A s \in {"uploaded", "delete_pending", "deleted"} : s \in Successors["uploading"]
      /\ "delete_pending" \in Successors["uploaded"] /\ "uploading" \in Successors["none"]
      /\ \A s \in {"uploading", "uploaded", "delete_pending", "deleted"} : s \in FileStatus
      /\ \A s \in {"delete_pending", "deleted"} : s # "uploaded"
  BY DEF Successors, FileStatus
<1>2. CASE InsertRow(f)
  BY <1>1, <1>2 DEF InsertRow, Moves
<1>3. CASE DeleteAudio(f)
  <2>1. SetStatus(f, {"uploading", "uploaded"}, "delete_pending", TRUE) /\ flags' = flags
    BY <1>3 DEF DeleteAudio
  <2>2. Stays \/ Moves(f, "delete_pending")
    BY <1>1, <2>1 DEF SetStatus, Stays, Moves
  <2> QED  BY <1>1, <2>2
<1>4. CASE Abandon(f)
  BY <1>4 DEF Abandon, Stays, storeVars
<1>5. ASSUME NEW ok \in BOOLEAN, UploadStep(f, ok) PROVE Stays \/ \E s \in FileStatus : Moves(f, s)
  <2>1. CASE PutSource(f, ok) \/ CleanUpPut(f, ok) \/ FlipCollides(f, ok)
             \/ DiscardObject(f, ok) \/ LookupOriginal(f, ok)
    BY <2>1
       DEF PutSource, CleanUpPut, FlipCollides, DiscardObject, LookupOriginal, Stays, storeVars
  <2>2. CASE RetireFailedPut(f, ok)
    <3>1. PICK applied \in Applied(ok) : SetStatus(f, {"uploading"}, "delete_pending", applied)
      BY <2>2 DEF RetireFailedPut
    <3>2. flags' = flags
      BY <2>2 DEF RetireFailedPut
    <3>3. Stays \/ Moves(f, "delete_pending")
      BY <1>1, <3>1, <3>2, SetStatusMoves
    <3> QED  BY <1>1, <3>3
  <2>3. CASE Flip(f, ok)
    <3>1. PICK applied \in Applied(ok) : SetStatus(f, {"uploading"}, "uploaded", applied)
      BY <2>3 DEF Flip
    <3>2. flags' = flags /\ ~(file[f] \in {"uploading"} /\ Collides(f))
      BY <2>3 DEF Flip
    <3> QED  BY <1>1, <3>1, <3>2, SetStatusMoves
  <2>4. CASE DiscardRow(f, ok)
    <3>1. PICK from \in {"discarded", "undiscarded"}, applied \in Applied(ok) :
             SetStatus(f, {"uploading"}, RetiredStatus(from = "discarded"), applied)
      BY <2>4 DEF DiscardRow
    <3>2. /\ flags' = flags
          /\ RetiredStatus(from = "discarded") \in {"delete_pending", "deleted"}
      BY <2>4 DEF DiscardRow, RetiredStatus
    <3>3. Stays \/ Moves(f, RetiredStatus(from = "discarded"))
      BY <1>1, <3>1, <3>2, SetStatusMoves
    <3> QED  BY <1>1, <3>2, <3>3
  <2> QED  BY <1>5, <2>1, <2>2, <2>3, <2>4 DEF UploadStep
<1> QED  BY <1>2, <1>3, <1>4, <1>5 DEF ApiSteps

LEMMA WorkerShape ==
    ASSUME ServableInv, NEW w \in Workers, WorkerSteps(w)
    PROVE  \/ Stays
           \/ \E f \in Files : Moves(f, "deleted")
           \/ \E f \in Files, t \in Targets : Flags(f, t)
<1> USE DEF ServableInv, TypeOK
<1>1. CASE \E ok \in BOOLEAN : FinalizeRow(w, ok)
  <2>1. PICK f \in batch[w], applied \in BOOLEAN : SetStatus(f, {"delete_pending"}, "deleted", applied)
    BY <1>1, AppliedType DEF FinalizeRow
  <2>2. f \in Files /\ flags' = flags
    BY <1>1, <2>1 DEF FinalizeRow, WorkerTypeOK
  <2>3. /\ {"deleted", "delete_pending"} \subseteq FileStatus
        /\ "deleted" \in Successors["delete_pending"]
    BY DEF Successors, FileStatus
  <2> QED  BY <2>1, <2>2, <2>3, SetStatusMoves
<1>2. ASSUME NEW ok \in BOOLEAN, Commit(w, ok) PROVE Stays \/ \E f \in Files, t \in Targets : Flags(f, t)
  <2>1. job[w][1] \in Files /\ job[w][2] \in Targets
    BY <1>2, JobTypes DEF Commit, HoldsJob, Settling, Advance
  <2> QED  BY <1>2, <2>1 DEF Commit, Stays, Flags
<1>3. CASE ~\E ok \in BOOLEAN : FinalizeRow(w, ok) \/ Commit(w, ok)
  BY <1>3
     DEF WorkerSteps, SweepDue, SweepNotDue, ClaimNothing, ReadStatus, Download, TranscodeTick,
         Transcode, Exit, Restart, Crash, ClaimFails, Claim, RunFails, RequestStep, RenewLease,
         PutDerivative, DeleteOrphan, RecordFailure, ClearResolvedJobs, ClaimFreeFiles,
         FinalizeObject, Stays, storeVars
<1> QED  BY <1>1, <1>2, <1>3

\* The library's own view of each.
LibraryStep == Library!LibraryNext \/ UNCHANGED Library!libraryVars

LEMMA StaysMaps ==
    ASSUME ServableInv, ServableInv', Stays
    PROVE  LibraryStep
<1>1. Fetchable' = Fetchable
  BY FetchableByRows, FetchableByRowsNext DEF ByRows, Stays, Matches
<1> QED  BY <1>1 DEF LibraryStep, Stays, Library!libraryVars

LEMMA FlagsMaps ==
    ASSUME ServableInv, ServableInv', NEW f \in Files, NEW t \in Targets, Flags(f, t)
    PROVE  LibraryStep
<1>1. \A key \in Keys : Matches(key)' <=> Matches(key) \/ key = <<f, t>>
  <2> SUFFICES ASSUME NEW key \in Keys PROVE Matches(key)' <=> Matches(key) \/ key = <<f, t>>
    OBVIOUS
  <2>1. PICK g \in Files : key \in KeysOf(g)
    BY DEF Keys
  <2>2. t # "source" /\ \A u \in Targets : u # "source"
    BY TargetsAssumption
  <2>3. \A h \in Files : flags'[h] = IF h = f THEN flags[h] \union {t} ELSE flags[h]
    BY DEF Flags, ServableInv, TypeOK, StoreTypeOK
  <2> QED  BY <2>1, <2>2, <2>3 DEF KeysOf, SourceKey, DerivativeKey, Matches, Flags
<1>2. <<f, t>> \in Keys
  BY KeyTypes DEF DerivativeKey
<1>3. Fetchable' = Fetchable \union {<<f, t>>}
  BY <1>1, <1>2, FetchableByRows, FetchableByRowsNext DEF ByRows
<1>4. Library!MakeReady(f, t)
  BY <1>3 DEF Library!MakeReady, Flags, Phase, FileStatus
<1> QED  BY <1>4 DEF LibraryStep, Library!LibraryNext

LEMMA MovesMaps ==
    ASSUME ServableInv, ServableInv', NEW f \in Files, NEW s \in FileStatus, Moves(f, s)
    PROVE  LibraryStep
<1>1. /\ flags' = flags
      /\ \A g \in Files : file'[g] = IF g = f THEN s ELSE file[g]
      /\ \A g \in Files : file[g] \in FileStatus
  BY DEF Moves, ServableInv, TypeOK, StoreTypeOK
<1> DEFINE phase == [g \in Files |-> Phase[file[g]]]
           phaseNext == [g \in Files |-> Phase[file'[g]]]
<1>2. phaseNext = [phase EXCEPT ![f] = Phase[s]]
  BY <1>1
<1>3. \A g \in Files : \A key \in KeysOf(g) : key[1] = g /\ g \in Files
  BY DEF KeysOf, SourceKey, DerivativeKey
<1>4. \A key \in Keys : key[1] \in Files /\ key \in KeysOf(key[1])
  BY <1>3 DEF Keys
<1>5. \A key \in Keys : key[1] # f => (Matches(key)' <=> Matches(key))
  BY <1>1, <1>4 DEF Matches
\* A step to or from a row that was not live leaves what can be fetched.
<1>6. ASSUME file[f] # "uploaded", s # "uploaded" PROVE Fetchable' = Fetchable
  <2>1. \A key \in Keys : key[1] = f => ~Matches(key) /\ ~Matches(key)'
    BY <1>1, <1>6 DEF Matches
  <2> QED  BY <1>5, <2>1, FetchableByRows, FetchableByRowsNext DEF ByRows
<1>7. CASE file[f] = "none" /\ s = "uploading"
  <2>1. Library!Arrive(f)
    BY <1>1, <1>2, <1>6, <1>7 DEF Library!Arrive, Library!Move, Phase, FileStatus
  <2> QED  BY <2>1 DEF LibraryStep, Library!LibraryNext
<1>8. CASE file[f] = "uploading" /\ s = "uploaded"
  <2>1. flags[f] = {}
    BY <1>8 DEF ServableInv, UploadsApart
  <2>2. \A key \in Keys : key[1] = f => (Matches(key)' <=> key = <<f, "source">>)
    BY <1>1, <1>4, <1>8, <2>1, TargetsAssumption
       DEF Matches, KeysOf, SourceKey, DerivativeKey
  <2>3. \A key \in Keys : key[1] = f => ~Matches(key)
    BY <1>8 DEF Matches
  <2>4. <<f, "source">> \in Keys
    BY KeyTypes DEF SourceKey
  <2>5. Fetchable' = Fetchable \union {<<f, "source">>}
    BY <1>5, <2>2, <2>3, <2>4, FetchableByRows, FetchableByRowsNext DEF ByRows
  <2>6. \A g \in Files \ {f} : phase[g] = "live" => Content[g] # Content[f]
    <3>1. \A g \in Files : Phase[file[g]] = "live" => file[g] = "uploaded"
      BY <1>1 DEF Phase, FileStatus
    <3> QED  BY <1>8, <3>1 DEF Moves, Collides
  <2>7. phase[f] \in {"arriving"} /\ Phase[s] = "live"
    BY <1>8 DEF Phase, FileStatus
  <2>8. Library!Publish(f)
    BY <1>1, <1>2, <2>5, <2>6, <2>7 DEF Library!Publish, Library!Move
  <2> QED  BY <2>8 DEF LibraryStep, Library!LibraryNext
<1>9. CASE file[f] \in {"uploading", "uploaded"} /\ s = "delete_pending"
  <2>1. \A key \in Keys : key[1] = f => ~Matches(key)'
    BY <1>1, <1>9 DEF Matches
  <2>2. Fetchable' = {key \in Fetchable : key[1] # f}
    BY <1>5, <2>1, FetchableByRows, FetchableByRowsNext DEF ByRows
  <2>3. phase[f] \in {"arriving", "live"} /\ Phase[s] = "leaving"
    BY <1>9 DEF Phase, FileStatus
  <2>4. Library!Withdraw(f)
    BY <1>1, <1>2, <2>2, <2>3 DEF Library!Withdraw, Library!Move
  <2> QED  BY <2>4 DEF LibraryStep, Library!LibraryNext
<1>10. CASE file[f] = "uploading" /\ s = "deleted"
  <2>1. phase[f] \in {"arriving"} /\ Phase[s] = "gone"
    BY <1>10 DEF Phase, FileStatus
  <2>2. Library!TurnAway(f)
    BY <1>1, <1>2, <1>6, <1>10, <2>1 DEF Library!TurnAway, Library!Move
  <2> QED  BY <2>2 DEF LibraryStep, Library!LibraryNext
<1>11. CASE file[f] = "delete_pending" /\ s = "deleted"
  <2>1. phase[f] \in {"leaving"} /\ Phase[s] = "gone"
    BY <1>11 DEF Phase, FileStatus
  <2>2. Library!Erase(f)
    BY <1>1, <1>2, <1>6, <1>11, <2>1 DEF Library!Erase, Library!Move
  <2> QED  BY <2>2 DEF LibraryStep, Library!LibraryNext
<1>12. \/ file[f] = "none" /\ s = "uploading"
       \/ file[f] = "uploading" /\ s \in {"uploaded", "delete_pending", "deleted"}
       \/ file[f] = "uploaded" /\ s = "delete_pending"
       \/ file[f] = "delete_pending" /\ s = "deleted"
  BY <1>1 DEF Moves, Successors, FileStatus
<1> QED  BY <1>7, <1>8, <1>9, <1>10, <1>11, <1>12

LEMMA ImplementsInit == Init => Library!LibraryInit
<1> SUFFICES ASSUME Init PROVE Library!LibraryInit
  OBVIOUS
<1>1. /\ \A f \in Files : file[f] = "none"
      /\ flags = [f \in Files |-> {}] /\ bucket = {}
  BY DEF Init, StoreInit
<1>2. Phase["none"] = "absent"
  BY DEF Phase, FileStatus
<1>3. [f \in Files |-> Phase[file[f]]] = [f \in Files |-> "absent"]
  BY <1>1, <1>2
<1>4. Fetchable = {}
  BY <1>1 DEF Fetchable
<1> QED  BY <1>1, <1>3, <1>4 DEF Library!LibraryInit

LEMMA ImplementsNext == ServableInv /\ ServableInv' /\ [Next]_vars => LibraryStep
<1> SUFFICES ASSUME ServableInv, ServableInv', [Next]_vars PROVE LibraryStep
  OBVIOUS
<1>1. CASE UNCHANGED vars
  BY <1>1, StaysMaps DEF vars, Stays
<1>2. ASSUME NEW f \in Files, ApiSteps(f) PROVE LibraryStep
  BY <1>2, ApiShape, StaysMaps, MovesMaps
<1>3. ASSUME NEW w \in Workers, WorkerSteps(w) PROVE LibraryStep
  <2>1. "deleted" \in FileStatus
    BY DEF FileStatus
  <2> QED  BY <1>3, <2>1, WorkerShape, StaysMaps, MovesMaps, FlagsMaps
<1>4. ASSUME NEW j \in Jobs, LeaseAges(j) PROVE LibraryStep
  BY <1>4, StaysMaps DEF LeaseAges, Stays
<1> QED  BY <1>1, <1>2, <1>3, <1>4, NextCases

(***************************************************************************)
(* The system implements the library: seen from its rows and what can be   *)
(* fetched, files arrive, go live, gain tiers and leave as AudioLibrary    *)
(* says, no two live ones the same upload, and nothing else ever happens,  *)
(* for any number of files, tiers and replicas and every mix of faults.    *)
(***************************************************************************)
THEOREM Implements == Spec => ImplementsLibrary
<1>1. ServableInv /\ ServableInv' /\ [Next]_vars
      => [Library!LibraryNext]_(Library!libraryVars)
  BY ImplementsNext DEF LibraryStep
<1> QED
  BY <1>1, ImplementsInit, ServableAlways, PTL
     DEF Spec, ImplementsLibrary, Library!LibrarySpec
=============================================================================
