------------------------------ MODULE Progress ------------------------------
(***************************************************************************)
(* How the owner's page learns what became of one file's transcodes.       *)
(*                                                                         *)
(* Postgres knows (the flags and the queue rows).  A worker publishes on a *)
(* Redis channel, after its write to Postgres, what it just did; the api's *)
(* audio_progress answers an EventSource with a snapshot read from         *)
(* Postgres followed by whatever the channel carries from then on; and the *)
(* page shows, per tier, the last event of the stream over the last list   *)
(* it fetched.  Redis loses what nobody was subscribed to hear.            *)
(*                                                                         *)
(* The queue here is that of WorkerLoop reduced to what the messages are   *)
(* about: attempts number the claims of a row, so the attempt a worker     *)
(* remembers says whether the row is still its own.  Percentages, and with *)
(* them the key a worker also SETs, are left out.                          *)
(***************************************************************************)
EXTENDS Naturals, Sequences

CONSTANTS
    Targets,        \* TARGETS
    Workers,        \* worker replicas
    NoTier,         \* an idle worker's tier
    NotListed,      \* the page's list has no row for the file
    NoAnswer,       \* no list is on its way
    MaxAttempts,    \* MAX_ATTEMPTS
    Backlog,        \* bound: events a stream may hold undelivered when a worker ticks
    Faults          \* what the environment may inject

ASSUME TierAssumption == NoTier \notin Targets
ASSUME MaxAttemptsAssumption == MaxAttempts \in Nat
ASSUME ProgressFaultsAssumption ==
    Faults \subseteq {"crash", "drop", "postgres", "redis", "stall"}

VARIABLES
    live,           \* the file's row is 'uploaded'
    flags, queue,   \* tiers with has_<target> set; status and attempts of each row
    run,            \* what each worker is doing, for which tier, on which attempt
    link, seen,     \* the page's EventSource; the row its request read
    inbox,          \* events on their way to the page
    overlay,        \* the page's overlay
    listed, answer  \* the list the page shows; the one still on its way

storeVars == <<live, flags, queue>>
streamVars == <<link, seen, inbox>>
pageVars == <<overlay, listed, answer>>
vars == <<live, flags, queue, run, link, seen, inbox, overlay, listed, answer>>

TierState == {"ready", "failed", "running", "pending"}
States == [Targets -> TierState]
Event == [event : {"snapshot"}, states : States]
         \union [event : {"progress"}, target : Targets, state : TierState]

TypeOK ==
    /\ live \in BOOLEAN
    /\ flags \subseteq Targets
    /\ queue \in [Targets -> [status : {"pending", "in_progress", "done", "failed"},
                              attempts : 0..MaxAttempts]]
    /\ run \in [Workers -> [at : {"idle", "work", "retryable", "ready", "failed"},
                            tier : Targets \union {NoTier}, attempt : 0..MaxAttempts]]
    /\ link \in {"closed", "asked", "read", "open", "ended", "lost", "dead"}
    /\ seen \in States
    /\ inbox \in Seq(Event)
    /\ overlay \in [Targets -> TierState \union {"unset"}]
    /\ listed \in States \union {NotListed}
    /\ answer \in States \union {NotListed, NoAnswer}

Idle == [at |-> "idle", tier |-> NoTier, attempt |-> 0]
Unset == [t \in Targets |-> "unset"]

\* The file has just been uploaded; the page has not fetched its list yet.
Init ==
    /\ live = TRUE
    /\ flags = {}
    /\ queue = [t \in Targets |-> [status |-> "pending", attempts |-> 0]]
    /\ run = [w \in Workers |-> Idle]
    /\ link = "closed" /\ seen = [t \in Targets |-> "pending"] /\ inbox = <<>>
    /\ overlay = Unset /\ listed = NotListed /\ answer = NoAnswer
-----------------------------------------------------------------------------
(***************************************************************************)
(* The worker.                                                             *)
(***************************************************************************)
\* Only a stream that has subscribed hears it.
Publish(t, state, heard) ==
    inbox' = IF heard /\ link = "open"
             THEN Append(inbox, [event |-> "progress", target |-> t, state |-> state])
             ELSE inbox

AtWorkOn(w, t) ==
    run[w].at = "work" /\ run[w].tier = t /\ run[w].attempt = queue[t].attempts

\* A lease lapses when nobody is left to renew it, or its worker stalls.
Lapses(t) ==
    /\ queue[t].status = "in_progress"
    /\ "stall" \in Faults \/ \A w \in Workers : ~AtWorkOn(w, t)

\* Slip: an off-by-one at the cap.
ClaimablePastCap(t) ==
    queue[t].attempts <= MaxAttempts /\ (queue[t].status = "pending" \/ Lapses(t))

Claimable(t) ==
    queue[t].attempts < MaxAttempts /\ (queue[t].status = "pending" \/ Lapses(t))

Claim(w, t) ==
    /\ run[w] = Idle
    /\ Claimable(t)
    /\ queue' = [queue EXCEPT ![t] = [status |-> "in_progress", attempts |-> @.attempts + 1]]
    /\ run' = [run EXCEPT ![w] = [at |-> "work", tier |-> t, attempt |-> queue[t].attempts + 1]]
    /\ UNCHANGED <<live, flags, streamVars, pageVars>>

\* Slip: a reporter that outlives the job, up to the terminal announcement.
TickTillAnnounced(w) ==
    /\ run[w] # Idle
    /\ Len(inbox) < Backlog
    /\ Publish(run[w].tier, "running", TRUE)
    /\ UNCHANGED <<storeVars, run, link, seen, pageVars>>

\* ProgressReporter.report
Tick(w) ==
    /\ run[w].at = "work"
    /\ Len(inbox) < Backlog
    /\ Publish(run[w].tier, "running", TRUE)
    /\ UNCHANGED <<storeVars, run, link, seen, pageVars>>

Applied(ok) == {applied \in BOOLEAN : IF ok THEN applied ELSE "postgres" \in Faults}

\* Slip: READY announced before the outcome of the transaction is known.
CommitBlind(w, ok) ==
    /\ run[w].at = "work"
    /\ \E applied \in Applied(ok) :
          /\ flags' = IF applied /\ live THEN flags \union {run[w].tier} ELSE flags
          /\ queue' = IF applied THEN [queue EXCEPT ![run[w].tier].status = "done"] ELSE queue
    /\ run' = [run EXCEPT ![w].at = "ready"]
    /\ UNCHANGED <<live, streamVars, pageVars>>

\* run_job's last transaction: READY is to be announced once it has committed,
\* and not for a file that was deleted meanwhile.
Commit(w, ok) ==
    /\ run[w].at = "work"
    /\ \E applied \in Applied(ok) :
          /\ flags' = IF applied /\ live THEN flags \union {run[w].tier} ELSE flags
          /\ queue' = IF applied THEN [queue EXCEPT ![run[w].tier].status = "done"] ELSE queue
    /\ run' = [run EXCEPT ![w] = IF ~ok THEN [@ EXCEPT !.at = "retryable"]
                                 ELSE IF live THEN [@ EXCEPT !.at = "ready"] ELSE Idle]
    /\ UNCHANGED <<live, streamVars, pageVars>>

\* Slip: every failure announced, the ones to be retried too.
AnnouncedAlways(status) == TRUE

Announced(status) == status = "failed"

\* record_failure: FAILED is to be announced if that was the last of it,
\* whatever became of the UPDATE.
RecordFailure(w, ok) ==
    /\ run[w].at \in {"work", "retryable"}
    /\ \E terminal \in BOOLEAN, applied \in Applied(ok) :
          LET status == IF terminal \/ run[w].attempt >= MaxAttempts THEN "failed" ELSE "pending"
          IN  /\ terminal => run[w].at = "work"
              /\ queue' = IF applied THEN [queue EXCEPT ![run[w].tier].status = status] ELSE queue
              /\ run' = [run EXCEPT ![w] = IF Announced(status)
                                           THEN [@ EXCEPT !.at = "failed"] ELSE Idle]
    /\ UNCHANGED <<live, flags, streamVars, pageVars>>

\* publish_terminal, best-effort.
PublishTerminal(w, ok) ==
    /\ run[w].at \in {"ready", "failed"}
    /\ ok \/ "redis" \in Faults
    /\ Publish(run[w].tier, run[w].at, ok)
    /\ run' = [run EXCEPT ![w] = Idle]
    /\ UNCHANGED <<storeVars, link, seen, pageVars>>

Crash(w) ==
    /\ "crash" \in Faults
    /\ run[w] # Idle
    /\ run' = [run EXCEPT ![w] = Idle]
    /\ UNCHANGED <<storeVars, streamVars, pageVars>>

\* delete_audio, as far as this module can see it.
Delete ==
    /\ live
    /\ live' = FALSE
    /\ UNCHANGED <<flags, queue, run, streamVars, pageVars>>
-----------------------------------------------------------------------------
(***************************************************************************)
(* The api: audio_progress, and the list.                                  *)
(***************************************************************************)
\* TranscodeRow::state
TierStates ==
    [t \in Targets |->
        CASE t \in flags -> "ready"
          [] t \notin flags /\ queue[t].status = "failed" -> "failed"
          [] t \notin flags /\ queue[t].status = "in_progress" -> "running"
          [] OTHER -> "pending"]

\* An answer other than 200 ends an EventSource for good.
ReadRow(ok) ==
    /\ link = "asked"
    /\ ok \/ "postgres" \in Faults
    /\ IF ok /\ live
       THEN link' = "read" /\ seen' = TierStates
       ELSE link' = "dead" /\ UNCHANGED seen
    /\ UNCHANGED <<storeVars, run, inbox, pageVars>>

\* Slip: a stream with no snapshot.
SubscribeWithoutSnapshot(ok) ==
    /\ link = "read"
    /\ ok \/ "redis" \in Faults
    /\ link' = IF ok THEN "open" ELSE "ended"
    /\ UNCHANGED <<storeVars, run, seen, inbox, pageVars>>

\* The snapshot goes out first; if Redis cannot be reached, it is all.
Subscribe(ok) ==
    /\ link = "read"
    /\ ok \/ "redis" \in Faults
    /\ link' = IF ok THEN "open" ELSE "ended"
    /\ inbox' = <<[event |-> "snapshot", states |-> seen]>>
    /\ UNCHANGED <<storeVars, run, seen, pageVars>>

QueryList ==
    /\ answer = NoAnswer
    /\ answer' = IF live THEN TierStates ELSE NotListed
    /\ UNCHANGED <<storeVars, run, streamVars, overlay, listed>>
-----------------------------------------------------------------------------
(***************************************************************************)
(* The page: useTranscodeStates, and the list it is given.                 *)
(***************************************************************************)
Shown == [t \in Targets |-> IF overlay[t] = "unset" THEN listed[t] ELSE overlay[t]]
Mounted == listed # NotListed
Settled == \A t \in Targets : Shown[t] \in {"ready", "failed"}

Hangup == link' = "closed" /\ inbox' = <<>> /\ UNCHANGED seen

\* A list without the file unmounts its row, stream and overlay with it.
ShowList ==
    /\ answer # NoAnswer
    /\ answer' = NoAnswer
    /\ listed' = answer
    /\ IF answer = NotListed
       THEN overlay' = Unset /\ Hangup
       ELSE UNCHANGED <<overlay, streamVars>>
    /\ UNCHANGED <<storeVars, run>>

OpenStream ==
    /\ link = "closed" /\ Mounted /\ ~Settled
    /\ link' = "asked"
    /\ UNCHANGED <<storeVars, run, seen, inbox, pageVars>>

CloseStream ==
    /\ link # "closed" /\ Settled
    /\ Hangup
    /\ UNCHANGED <<storeVars, run, pageVars>>

Deliver ==
    /\ inbox # <<>>
    /\ LET e == Head(inbox)
       IN  overlay' = IF e.event = "snapshot" THEN e.states
                      ELSE [overlay EXCEPT ![e.target] = e.state]
    /\ inbox' = Tail(inbox)
    /\ UNCHANGED <<storeVars, run, link, seen, listed, answer>>

\* A stream that ends, or whose connection drops, is reopened by EventSource.
EndStream ==
    /\ link = "ended" /\ inbox = <<>>
    /\ link' = "lost"
    /\ UNCHANGED <<storeVars, run, seen, inbox, pageVars>>

DropStream ==
    /\ "drop" \in Faults
    /\ link \in {"asked", "read", "open", "ended"}
    /\ link' = "lost" /\ inbox' = <<>>
    /\ UNCHANGED <<storeVars, run, seen, pageVars>>

Reconnect ==
    /\ link = "lost"
    /\ link' = "asked"
    /\ UNCHANGED <<storeVars, run, seen, inbox, pageVars>>
-----------------------------------------------------------------------------
Work(w) ==
    \/ Commit(w, TRUE)
    \/ RecordFailure(w, TRUE)
    \/ PublishTerminal(w, TRUE)

Stream ==
    \/ ReadRow(TRUE)
    \/ Subscribe(TRUE)
    \/ Deliver
    \/ EndStream
    \/ Reconnect
    \/ OpenStream
    \/ CloseStream
    \/ ShowList

Calm ==
    \/ \E w \in Workers : Work(w) \/ Tick(w) \/ \E t \in Targets : Claim(w, t)
    \/ Stream
    \/ QueryList
    \/ Delete

Fault ==
    \/ \E w \in Workers :
          Commit(w, FALSE) \/ RecordFailure(w, FALSE) \/ PublishTerminal(w, FALSE) \/ Crash(w)
    \/ ReadRow(FALSE)
    \/ Subscribe(FALSE)
    \/ DropStream

Next == Calm \/ Fault

Spec == Init /\ [][Next]_vars

(***************************************************************************)
(* Fairness.  Faults end; a worker in the middle of a job gets on with it; *)
(* the browser and the api keep the stream going, and deliver what is on   *)
(* it.  That a connection ever drops, or that the page ever fetches its    *)
(* list again, is not assumed.                                             *)
(***************************************************************************)
Fairness ==
    /\ <>[][Calm]_vars
    /\ \A w \in Workers : WF_vars(Work(w))
    /\ WF_vars(ReadRow(TRUE)) /\ WF_vars(Subscribe(TRUE)) /\ WF_vars(Deliver)
    /\ WF_vars(EndStream) /\ WF_vars(Reconnect)
    /\ WF_vars(OpenStream) /\ WF_vars(CloseStream) /\ WF_vars(ShowList)

FairSpec == Spec /\ Fairness
-----------------------------------------------------------------------------
(***************************************************************************)
(* The page never offers to play a tier that is not there: READY is        *)
(* published after the commit, never before (run_job), and what a stream,  *)
(* a list or an overlay still holds is at worst out of date.               *)
(***************************************************************************)
ReadyIsTrue == Mounted => \A t \in Targets : Shown[t] = "ready" => t \in flags

(***************************************************************************)
(* A tier shown as failed has been given up: only a final failure is       *)
(* announced (record_failure), never one that goes back to 'pending'.      *)
(***************************************************************************)
FailedIsTrue ==
    Mounted => \A t \in Targets : Shown[t] = "failed" => TierStates[t] = "failed"

(***************************************************************************)
(* "Nothing further will happen to a tier that is ready or has given up"   *)
(* (TranscodeBars.tsx): once the stream has said how a tier ended, no      *)
(* late tick, reordered message or reconnect's snapshot, read before the   *)
(* subscription, ever takes it back; only the row's leaving the page does. *)
(***************************************************************************)
Ended == {"ready", "failed"}

EndIsFinal ==
    [][\A t \in Targets :
          overlay[t] \in Ended => overlay'[t] = overlay[t] \/ overlay' = Unset]_vars

(***************************************************************************)
(* "A dropped stream self-heals to the true state" (TranscodeBars.tsx):    *)
(* whatever was missed, the page shows how a tier ended once its stream    *)
(* has been reopened after that end.                                       *)
(***************************************************************************)
SelfHeals ==
    \A t \in Targets : \A end \in {"ready", "failed"} :
        link = "lost" /\ TierStates[t] = end ~>
            (Mounted => Shown[t] = end) \/ ~live

(***************************************************************************)
(* A listener that misses READY "still gets the right answer from the next *)
(* snapshot or list refresh" (worker main.rs, publish_terminal).           *)
(***************************************************************************)
RefreshHeals ==
    \A t \in Targets :
        Mounted /\ listed[t] = "ready" ~> (Mounted => Shown[t] = "ready") \/ ~live
=============================================================================
