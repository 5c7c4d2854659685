--------------------------- MODULE ProgressProofs ---------------------------
(***************************************************************************)
(* What the page is shown as ready is ready, for any number of tiers and   *)
(* workers and under every fault: "ready" is said of a tier only once its  *)
(* flag is set, flags stay set, and what is on its way to the page or held *)
(* by it repeats what was said.  The same of what it is shown as failed,   *)
(* as long as only a row's worker moves it on.                             *)
(***************************************************************************)
EXTENDS Progress, TLAPS

\* A worker that has started on something has a tier.
HoldsTier == \A w \in Workers : run[w].at # "idle" => run[w].tier \in Targets

\* Nothing but flags that are set is called ready: in a set of states ...
TrueStates(states, set) == \A t \in Targets : states[t] = "ready" => t \in set

\* ... in an event ...
TrueEvent(e, set) ==
    /\ e.event = "snapshot" => TrueStates(e.states, set)
    /\ e.event = "progress" /\ e.state = "ready" => e.target \in set

\* ... and wherever the system keeps either.
SaidTruly ==
    /\ \A w \in Workers : run[w].at = "ready" => run[w].tier \in flags
    /\ TrueStates(seen, flags)
    /\ \A i \in 1..Len(inbox) : TrueEvent(inbox[i], flags)
    /\ TrueStates(overlay, flags)
    /\ listed # NotListed => TrueStates(listed, flags)
    /\ answer \notin {NotListed, NoAnswer} => TrueStates(answer, flags)

ReadyInv == TypeOK /\ HoldsTier /\ SaidTruly
-----------------------------------------------------------------------------
LEMMA TierStatesType == TierStates \in States /\ TrueStates(TierStates, flags)
BY DEF TierStates, States, TierState, TrueStates

LEMMA UnsetType ==
    /\ Unset \in [Targets -> TierState \union {"unset"}]
    /\ \A t \in Targets : Unset[t] # "ready"
BY DEF Unset

\* What is published of one tier.
LEMMA PublishTrue ==
    ASSUME ReadyInv, NEW t \in Targets, NEW state \in TierState, NEW heard \in BOOLEAN,
           Publish(t, state, heard), state = "ready" => t \in flags, flags' = flags
    PROVE  inbox' \in Seq(Event) /\ \A i \in 1..Len(inbox') : TrueEvent(inbox'[i], flags')
<1> DEFINE e == [event |-> "progress", target |-> t, state |-> state]
<1>1. e \in Event /\ TrueEvent(e, flags')
  BY DEF Event, TrueEvent
<1>2. inbox \in Seq(Event) /\ \A i \in 1..Len(inbox) : TrueEvent(inbox[i], flags)
  BY DEF ReadyInv, TypeOK, SaidTruly, TrueEvent, TrueStates
<1> HIDE DEF e
<1>3. CASE inbox' = Append(inbox, e)
  BY <1>1, <1>2, <1>3
<1>4. CASE inbox' = inbox
  BY <1>2, <1>4
<1> QED  BY <1>3, <1>4 DEF Publish, e

\* A worker that turns to something else.
LEMMA RunAfter ==
    ASSUME ReadyInv, NEW w \in Workers, run[w].at # "idle",
           NEW to \in {"retryable", "ready", "failed"},
           run' = [run EXCEPT ![w] = [run[w] EXCEPT !.at = to]] \/ run' = [run EXCEPT ![w] = Idle]
    PROVE  /\ run' \in [Workers -> [at : {"idle", "work", "retryable", "ready", "failed"},
                                   tier : Targets \union {NoTier}, attempt : 0..MaxAttempts]]
           /\ HoldsTier'
<1> DEFINE r == [run[w] EXCEPT !.at = to]
<1> USE DEF ReadyInv, TypeOK, HoldsTier
<1>1. /\ r \in [at : {"idle", "work", "retryable", "ready", "failed"},
                tier : Targets \union {NoTier}, attempt : 0..MaxAttempts]
      /\ r.tier \in Targets
  <2>1. run[w] \in [at : {"idle", "work", "retryable", "ready", "failed"},
                    tier : Targets \union {NoTier}, attempt : 0..MaxAttempts]
    OBVIOUS
  <2>2. run[w].tier \in Targets
    OBVIOUS
  <2>3. r.tier = run[w].tier
    BY <2>1
  <2>4. to \in {"idle", "work", "retryable", "ready", "failed"}
    OBVIOUS
  <2>5. r \in [at : {"idle", "work", "retryable", "ready", "failed"},
               tier : Targets \union {NoTier}, attempt : 0..MaxAttempts]
    BY <2>1, <2>4
  <2> QED  BY <2>2, <2>3, <2>5
<1>2. Idle \in [at : {"idle", "work", "retryable", "ready", "failed"},
               tier : Targets \union {NoTier}, attempt : 0..MaxAttempts] /\ Idle.at = "idle"
  BY MaxAttemptsAssumption DEF Idle
<1> HIDE DEF r
<1>3. CASE run' = [run EXCEPT ![w] = r]
  BY <1>1, <1>3
<1>4. CASE run' = [run EXCEPT ![w] = Idle]
  BY <1>2, <1>4
<1> QED  BY <1>3, <1>4 DEF r

LEMMA ReadyInit == Init => ReadyInv
BY UnsetType, MaxAttemptsAssumption
   DEF Init, ReadyInv, TypeOK, HoldsTier, SaidTruly, TrueStates, States, TierState, Idle

LEMMA WorkerReady ==
    ASSUME ReadyInv, NEW w \in Workers,
           \/ \E ok \in BOOLEAN : Commit(w, ok) \/ RecordFailure(w, ok) \/ PublishTerminal(w, ok)
           \/ Crash(w) \/ Tick(w) \/ \E t \in Targets : Claim(w, t)
    PROVE  ReadyInv'
<1> USE DEF ReadyInv, TypeOK, HoldsTier, storeVars, streamVars, pageVars
<1>1. ASSUME NEW t \in Targets, Claim(w, t) PROVE ReadyInv'
  <2>1. SaidTruly'
    BY <1>1 DEF Claim, SaidTruly, TrueStates, TrueEvent
  <2>2. queue[t].attempts + 1 \in 0..MaxAttempts
    BY <1>1, MaxAttemptsAssumption DEF Claim, Claimable
  <2> QED  BY <1>1, <2>1, <2>2 DEF Claim
<1>2. CASE Tick(w)
  <2>1. run[w].tier \in Targets /\ "running" \in TierState /\ TRUE \in BOOLEAN
    BY <1>2 DEF Tick, TierState
  <2>2. inbox' \in Seq(Event) /\ \A i \in 1..Len(inbox') : TrueEvent(inbox'[i], flags')
    BY <1>2, <2>1, PublishTrue DEF Tick
  <2>3. SaidTruly'
    BY <1>2, <2>2 DEF Tick, SaidTruly, TrueStates
  <2> QED  BY <1>2, <2>2, <2>3 DEF Tick
<1>3. ASSUME NEW ok \in BOOLEAN, Commit(w, ok) PROVE ReadyInv'
  <2>1. run[w].tier \in Targets
    BY <1>3 DEF Commit
  <2>2. flags \subseteq flags' /\ flags' \subseteq Targets
    BY <1>3, <2>1 DEF Commit
  <2>3. ok /\ live => run[w].tier \in flags'
    BY <1>3 DEF Commit, Applied
  <2>4. SaidTruly'
    BY <1>3, <2>2, <2>3 DEF Commit, SaidTruly, TrueStates, TrueEvent, Idle
  <2>5. PICK applied \in BOOLEAN :
           queue' = IF applied THEN [queue EXCEPT ![run[w].tier].status = "done"] ELSE queue
    BY <1>3 DEF Commit, Applied
  <2>6. \/ run' = [run EXCEPT ![w] = [run[w] EXCEPT !.at = "retryable"]]
        \/ run' = [run EXCEPT ![w] = [run[w] EXCEPT !.at = "ready"]]
        \/ run' = [run EXCEPT ![w] = Idle]
    BY <1>3 DEF Commit
  <2>7. queue' \in [Targets -> [status : {"pending", "in_progress", "done", "failed"},
                                 attempts : 0..MaxAttempts]]
    BY <2>1, <2>5
  <2>8. /\ run' \in [Workers -> [at : {"idle", "work", "retryable", "ready", "failed"},
                               tier : Targets \union {NoTier}, attempt : 0..MaxAttempts]]
        /\ HoldsTier'
    BY <1>3, <2>6, RunAfter DEF Commit
  <2> QED  BY <1>3, <2>2, <2>4, <2>7, <2>8 DEF Commit
<1>4. ASSUME NEW ok \in BOOLEAN, RecordFailure(w, ok) PROVE ReadyInv'
  <2>1. run[w].tier \in Targets
    BY <1>4 DEF RecordFailure
  <2>2. SaidTruly'
    BY <1>4 DEF RecordFailure, SaidTruly, TrueStates, TrueEvent, Idle
  <2>3. PICK applied \in BOOLEAN, status \in {"failed", "pending"} :
           queue' = IF applied THEN [queue EXCEPT ![run[w].tier].status = status] ELSE queue
    BY <1>4 DEF RecordFailure, Applied
  <2>4. \/ run' = [run EXCEPT ![w] = [run[w] EXCEPT !.at = "failed"]]
        \/ run' = [run EXCEPT ![w] = Idle]
    BY <1>4 DEF RecordFailure
  <2>5. queue' \in [Targets -> [status : {"pending", "in_progress", "done", "failed"},
                                 attempts : 0..MaxAttempts]]
    BY <2>1, <2>3
  <2>6. /\ run' \in [Workers -> [at : {"idle", "work", "retryable", "ready", "failed"},
                               tier : Targets \union {NoTier}, attempt : 0..MaxAttempts]]
        /\ HoldsTier'
    BY <1>4, <2>4, RunAfter DEF RecordFailure
  <2> QED  BY <1>4, <2>2, <2>5, <2>6 DEF RecordFailure
<1>5. ASSUME NEW ok \in BOOLEAN, PublishTerminal(w, ok) PROVE ReadyInv'
  <2>1. run[w].tier \in Targets /\ run[w].at \in TierState
    BY <1>5 DEF PublishTerminal, TierState
  <2>2. run[w].at = "ready" => run[w].tier \in flags
    BY DEF SaidTruly
  <2>3. inbox' \in Seq(Event) /\ \A i \in 1..Len(inbox') : TrueEvent(inbox'[i], flags')
    BY <1>5, <2>1, <2>2, PublishTrue DEF PublishTerminal
  <2>4. SaidTruly'
    BY <1>5, <2>3 DEF PublishTerminal, SaidTruly, TrueStates, Idle
  <2> QED  BY <1>5, <2>3, <2>4, MaxAttemptsAssumption DEF PublishTerminal, Idle
<1>6. CASE Crash(w)
  <2>1. SaidTruly'
    BY <1>6 DEF Crash, SaidTruly, TrueStates, TrueEvent, Idle
  <2> QED  BY <1>6, <2>1, MaxAttemptsAssumption DEF Crash, Idle
<1> QED  BY <1>1, <1>2, <1>3, <1>4, <1>5, <1>6

LEMMA StreamReady ==
    ASSUME ReadyInv,
           \/ \E ok \in BOOLEAN : ReadRow(ok) \/ Subscribe(ok)
           \/ Deliver \/ EndStream \/ Reconnect \/ OpenStream \/ CloseStream \/ DropStream
           \/ ShowList \/ QueryList \/ Delete
    PROVE  ReadyInv'
<1> USE DEF ReadyInv, TypeOK, HoldsTier, storeVars, streamVars, pageVars
<1>1. ASSUME NEW ok \in BOOLEAN, ReadRow(ok) PROVE ReadyInv'
  <2>1. seen' \in States /\ TrueStates(seen', flags')
    BY <1>1, TierStatesType DEF ReadRow, SaidTruly, TrueStates
  <2>2. SaidTruly'
    BY <1>1, <2>1 DEF ReadRow, SaidTruly, TrueStates, TrueEvent
  <2> QED  BY <1>1, <2>1, <2>2 DEF ReadRow
<1>2. ASSUME NEW ok \in BOOLEAN, Subscribe(ok) PROVE ReadyInv'
  <2> DEFINE e == [event |-> "snapshot", states |-> seen]
  <2>1. e \in Event /\ TrueEvent(e, flags')
    BY <1>2 DEF Subscribe, Event, TrueEvent, SaidTruly, TrueStates
  <2>2. inbox' = <<e>>
    BY <1>2 DEF Subscribe
  <2> HIDE DEF e
  <2>3. inbox' \in Seq(Event) /\ \A i \in 1..Len(inbox') : TrueEvent(inbox'[i], flags')
    BY <2>1, <2>2
  <2>4. SaidTruly'
    BY <1>2, <2>3 DEF Subscribe, SaidTruly, TrueStates
  <2> QED  BY <1>2, <2>3, <2>4 DEF Subscribe
<1>3. CASE Deliver
  <2>1. inbox # <<>> /\ Head(inbox) \in Event /\ Head(inbox) = inbox[1] /\ inbox' = Tail(inbox)
    BY <1>3 DEF Deliver
  <2>2. TrueEvent(Head(inbox), flags)
    BY <2>1 DEF SaidTruly
  <2>3. /\ inbox' \in Seq(Event)
        /\ \A i \in 1..Len(inbox') : inbox'[i] = inbox[i + 1] /\ i + 1 \in 1..Len(inbox)
    BY <2>1
  <2>4. overlay' \in [Targets -> TierState \union {"unset"}] /\ TrueStates(overlay', flags')
    <3>1. CASE Head(inbox).event = "snapshot"
      BY <1>3, <2>1, <2>2, <3>1 DEF Deliver, Event, States, TrueEvent, TrueStates
    <3>2. CASE Head(inbox).event # "snapshot"
      <4>1. Head(inbox) \in [event : {"progress"}, target : Targets, state : TierState]
        BY <2>1, <3>2 DEF Event
      <4>2. overlay' = [overlay EXCEPT ![Head(inbox).target] = Head(inbox).state]
        BY <1>3, <3>2 DEF Deliver
      <4>3. Head(inbox).state = "ready" => Head(inbox).target \in flags
        BY <2>2, <4>1 DEF TrueEvent
      <4>4. TrueStates(overlay, flags) /\ flags' = flags
        BY <1>3 DEF Deliver, SaidTruly
      <4> QED  BY <4>1, <4>2, <4>3, <4>4 DEF TrueStates
    <3> QED  BY <3>1, <3>2
  <2>5. SaidTruly'
    BY <1>3, <2>3, <2>4 DEF Deliver, SaidTruly, TrueStates, TrueEvent
  <2> QED  BY <1>3, <2>3, <2>4, <2>5 DEF Deliver
<1>4. CASE EndStream \/ Reconnect \/ OpenStream \/ Delete
  <2>1. SaidTruly'
    BY <1>4 DEF EndStream, Reconnect, OpenStream, Delete, SaidTruly, TrueStates, TrueEvent
  <2> QED  BY <1>4, <2>1 DEF EndStream, Reconnect, OpenStream, Delete
<1>5. CASE CloseStream \/ DropStream
  <2>1. /\ inbox' = <<>> /\ link' \in {"closed", "lost"}
        /\ UNCHANGED <<storeVars, run, seen, pageVars>>
    BY <1>5 DEF CloseStream, DropStream, Hangup
  <2>2. SaidTruly'
    BY <2>1 DEF SaidTruly, TrueStates
  <2> QED  BY <2>1, <2>2
<1>6. CASE ShowList
  <2>1. answer # NoAnswer /\ listed' = answer /\ answer' = NoAnswer
        /\ UNCHANGED <<storeVars, run, seen>>
    BY <1>6 DEF ShowList, Hangup
  <2>2. \/ UNCHANGED <<overlay, link, inbox>>
        \/ overlay' = Unset /\ link' = "closed" /\ inbox' = <<>>
    BY <1>6 DEF ShowList, Hangup
  <2>3. SaidTruly'
    BY <2>1, <2>2, UnsetType DEF SaidTruly, TrueStates, TrueEvent
  <2>4. inbox' \in Seq(Event)
    <3>1. CASE inbox' = inbox
      BY <3>1
    <3>2. CASE inbox' = <<>>
      BY <3>2
    <3> QED  BY <2>2, <3>1, <3>2
  <2> QED  BY <2>1, <2>2, <2>3, <2>4, UnsetType
<1>7. CASE QueryList
  <2>1. SaidTruly'
    BY <1>7, TierStatesType DEF QueryList, SaidTruly, TrueStates, TrueEvent
  <2> QED  BY <1>7, <2>1, TierStatesType DEF QueryList
<1> QED  BY <1>1, <1>2, <1>3, <1>4, <1>5, <1>6, <1>7

LEMMA ReadyNext == ReadyInv /\ [Next]_vars => ReadyInv'
<1> SUFFICES ASSUME ReadyInv, [Next]_vars PROVE ReadyInv'
  OBVIOUS
<1>1. CASE UNCHANGED vars
  BY <1>1 DEF vars, ReadyInv, TypeOK, HoldsTier, SaidTruly, TrueStates, TrueEvent
<1>2. CASE Calm
  BY <1>2, WorkerReady, StreamReady DEF Calm, Work, Stream
<1>3. CASE Fault
  BY <1>3, WorkerReady, StreamReady DEF Fault
<1> QED  BY <1>1, <1>2, <1>3 DEF Next

LEMMA ReadyAlways == Spec => []ReadyInv
BY ReadyInit, ReadyNext, PTL DEF Spec

(***************************************************************************)
(* The page never offers to play a tier that is not there (run_job's READY *)
(* after its commit, audio_progress's snapshot, useTranscodeStates).       *)
(***************************************************************************)
THEOREM NeverFalselyReady == Spec => []ReadyIsTrue
<1>1. ReadyInv => ReadyIsTrue
  BY DEF ReadyInv, SaidTruly, TrueStates, ReadyIsTrue, Mounted, Shown
<1> QED  BY <1>1, ReadyAlways, PTL

(***************************************************************************)
(* Every variable keeps to its type: no claim takes a row past             *)
(* MAX_ATTEMPTS, and a stream carries what the page can read.              *)
(***************************************************************************)
THEOREM ProgressTyped == Spec => []TypeOK
<1>1. ReadyInv => TypeOK
  BY DEF ReadyInv
<1> QED  BY <1>1, ReadyAlways, PTL
-----------------------------------------------------------------------------
(***************************************************************************)
(* What is said to have failed.  While no lease lapses under a live worker *)
(* and Postgres does what it is told, a row has one worker, and only the   *)
(* row's worker moves it on.                                               *)
(***************************************************************************)
GivenUp == {t \in Targets : t \notin flags /\ queue[t].status = "failed"}

FailedStates(states, set) == \A t \in Targets : states[t] = "failed" => t \in set

FailedEvent(e, set) ==
    /\ e.event = "snapshot" => FailedStates(e.states, set)
    /\ e.event = "progress" /\ e.state = "failed" => e.target \in set

SaidFailed ==
    /\ \A w \in Workers : run[w].at = "failed" => run[w].tier \in GivenUp
    /\ FailedStates(seen, GivenUp)
    /\ \A i \in 1..Len(inbox) : FailedEvent(inbox[i], GivenUp)
    /\ FailedStates(overlay, GivenUp)
    /\ listed # NotListed => FailedStates(listed, GivenUp)
    /\ answer \notin {NotListed, NoAnswer} => FailedStates(answer, GivenUp)

OneWorker ==
    /\ \A w \in Workers : run[w].at # "retryable"
    /\ \A w \in Workers : run[w].at = "work" =>
          /\ queue[run[w].tier].status = "in_progress"
          /\ run[w].attempt = queue[run[w].tier].attempts
    /\ \A v, w \in Workers : run[v].at = "work" /\ run[w].at = "work" /\ v # w =>
          run[v].tier # run[w].tier
    /\ \A t \in flags : queue[t].status = "done"

FailedInv == ReadyInv /\ OneWorker /\ SaidFailed

LEMMA TierStatesFailed == FailedStates(TierStates, GivenUp)
BY DEF TierStates, FailedStates, GivenUp

LEMMA UnsetFailed == \A t \in Targets : Unset[t] # "failed"
BY DEF Unset

LEMMA FailedInit == Init => FailedInv
BY ReadyInit, UnsetFailed
   DEF Init, FailedInv, OneWorker, SaidFailed, FailedStates, Idle

(***************************************************************************)
(* The worker's steps, and what they mean to whom has a row.               *)
(***************************************************************************)
LEMMA WorkerAlone ==
    ASSUME {"stall", "postgres"} \cap Faults = {}, FailedInv, NEW w \in Workers,
           \/ \E ok \in BOOLEAN : Commit(w, ok) \/ RecordFailure(w, ok) \/ PublishTerminal(w, ok)
           \/ Crash(w) \/ Tick(w) \/ \E t \in Targets : Claim(w, t)
    PROVE  /\ OneWorker' /\ GivenUp \subseteq GivenUp'
           /\ run'[w].at = "failed" => run'[w].tier \in GivenUp'
           /\ \A v \in Workers \ {w} : run'[v] = run[v]
<1> USE DEF FailedInv, ReadyInv, TypeOK, HoldsTier, OneWorker, GivenUp
<1> DEFINE Goal == /\ OneWorker' /\ GivenUp \subseteq GivenUp'
                   /\ run'[w].at = "failed" => run'[w].tier \in GivenUp'
                   /\ \A v \in Workers \ {w} : run'[v] = run[v]
<1>1. ASSUME NEW t \in Targets, Claim(w, t) PROVE Goal
  <2>1. \A v \in Workers \ {w} : ~(run[v].at = "work" /\ run[v].tier = t)
    BY <1>1 DEF Claim, Claimable, Lapses, AtWorkOn
  <2>2. queue[t].status \in {"pending", "in_progress"} /\ t \notin flags
    BY <1>1 DEF Claim, Claimable, Lapses
  <2>3. /\ queue' = [queue EXCEPT ![t] = [status |-> "in_progress",
                                          attempts |-> queue[t].attempts + 1]]
        /\ run' = [run EXCEPT ![w] = [at |-> "work", tier |-> t,
                                      attempt |-> queue[t].attempts + 1]]
        /\ flags' = flags
    BY <1>1 DEF Claim
  <2>4. /\ run'[w].at = "work" /\ run'[w].tier = t /\ run'[w].attempt = queue[t].attempts + 1
        /\ \A v \in Workers \ {w} : run'[v] = run[v]
        /\ queue'[t].status = "in_progress" /\ queue'[t].attempts = queue[t].attempts + 1
        /\ \A u \in Targets \ {t} : queue'[u] = queue[u]
    BY <2>3
  <2>5. OneWorker'
    BY <2>1, <2>2, <2>3, <2>4
  <2>6. GivenUp \subseteq GivenUp'
    BY <2>2, <2>3, <2>4
  <2> QED  BY <2>4, <2>5, <2>6
<1>2. CASE Tick(w)
  BY <1>2 DEF Tick, storeVars
<1>3. ASSUME NEW ok \in BOOLEAN, Commit(w, ok) PROVE Goal
  <2>1. ok /\ Applied(ok) = {TRUE}
    BY <1>3 DEF Commit, Applied
  <2>2. /\ run[w].at = "work" /\ run[w].tier \in Targets
        /\ flags' \in {flags, flags \union {run[w].tier}}
        /\ queue' = [queue EXCEPT ![run[w].tier].status = "done"]
        /\ run' \in {[run EXCEPT ![w] = [run[w] EXCEPT !.at = "ready"]], [run EXCEPT ![w] = Idle]}
    BY <1>3, <2>1 DEF Commit
  <2>3. run'[w].at \in {"ready", "idle"} /\ \A v \in Workers \ {w} : run'[v] = run[v]
    BY <2>2 DEF Idle
  <2>4. \A t \in Targets \ {run[w].tier} : queue'[t] = queue[t] /\ (t \in flags' <=> t \in flags)
    BY <2>2
  <2>5. queue'[run[w].tier].status = "done"
    BY <2>2
  <2>6. OneWorker'
    <3>1. \A v \in Workers : run'[v].at = "work" => v # w /\ run[v].at = "work" /\ run'[v] = run[v]
      BY <2>2, <2>3, <2>4, <2>5
    <3>2. \A v \in Workers : run'[v].at = "work" =>
             run[v].tier \in Targets \ {run[w].tier} /\ queue'[run[v].tier] = queue[run[v].tier]
      BY <2>2, <2>3, <2>4, <2>5, <3>1
    <3>3. \A t \in flags' : queue'[t].status = "done"
      BY <2>2, <2>3, <2>4, <2>5
    <3>4. \A v \in Workers : run'[v].at # "retryable"
      BY <2>3
    <3> QED  BY <3>1, <3>2, <3>3, <3>4
  <2>7. GivenUp \subseteq GivenUp'
    BY <2>2, <2>4
  <2> QED  BY <2>3, <2>6, <2>7
<1>4. ASSUME NEW ok \in BOOLEAN, RecordFailure(w, ok) PROVE Goal
  <2>1. Applied(ok) \subseteq {TRUE} /\ run[w].at = "work" /\ run[w].tier \in Targets
    BY <1>4 DEF RecordFailure, Applied
  <2>2. PICK status \in {"failed", "pending"} :
           /\ queue' = [queue EXCEPT ![run[w].tier].status = status]
           /\ \/ status = "failed" /\ run' = [run EXCEPT ![w] = [run[w] EXCEPT !.at = "failed"]]
              \/ run' = [run EXCEPT ![w] = Idle]
    BY <1>4, <2>1 DEF RecordFailure, Announced
  <2>3. /\ run'[w].at \in {"failed", "idle"}
        /\ run'[w].at = "failed" => status = "failed" /\ run'[w].tier = run[w].tier
        /\ \A v \in Workers \ {w} : run'[v] = run[v]
    BY <2>1, <2>2 DEF Idle
  <2>4. /\ \A t \in Targets \ {run[w].tier} : queue'[t] = queue[t]
        /\ queue'[run[w].tier].status = status
        /\ run[w].tier \notin flags /\ flags' = flags
    BY <1>4, <2>1, <2>2 DEF RecordFailure
  <2>5. OneWorker'
    <3>1. \A v \in Workers : run'[v].at = "work" => v # w /\ run[v].at = "work" /\ run'[v] = run[v]
      BY <2>1, <2>3, <2>4
    <3>2. \A v \in Workers : run'[v].at = "work" =>
             run[v].tier \in Targets \ {run[w].tier} /\ queue'[run[v].tier] = queue[run[v].tier]
      BY <2>1, <2>3, <2>4, <3>1
    <3>3. \A t \in flags' : queue'[t].status = "done"
      BY <2>1, <2>3, <2>4
    <3>4. \A v \in Workers : run'[v].at # "retryable"
      BY <2>3
    <3> QED  BY <3>1, <3>2, <3>3, <3>4
  <2>6. GivenUp \subseteq GivenUp' /\ (run'[w].at = "failed" => run'[w].tier \in GivenUp')
    BY <2>1, <2>3, <2>4
  <2> QED  BY <2>3, <2>5, <2>6
<1>5. ASSUME NEW ok \in BOOLEAN, PublishTerminal(w, ok) \/ Crash(w) PROVE Goal
  <2>1. run' = [run EXCEPT ![w] = Idle] /\ UNCHANGED <<flags, queue>>
    BY <1>5 DEF PublishTerminal, Crash, storeVars
  <2>2. run'[w].at = "idle" /\ \A v \in Workers \ {w} : run'[v] = run[v]
    BY <2>1 DEF Idle
  <2> QED  BY <2>1, <2>2
<1> QED  BY <1>1, <1>2, <1>3, <1>4, <1>5

\* What is said stays said of the tiers it was said of.
LEMMA WorkerFailed ==
    ASSUME {"stall", "postgres"} \cap Faults = {}, FailedInv, NEW w \in Workers,
           \/ \E ok \in BOOLEAN : Commit(w, ok) \/ RecordFailure(w, ok) \/ PublishTerminal(w, ok)
           \/ Crash(w) \/ Tick(w) \/ \E t \in Targets : Claim(w, t)
    PROVE  OneWorker' /\ SaidFailed'
<1>1. /\ OneWorker' /\ GivenUp \subseteq GivenUp'
      /\ run'[w].at = "failed" => run'[w].tier \in GivenUp'
      /\ \A v \in Workers \ {w} : run'[v] = run[v]
  BY WorkerAlone
<1>2. UNCHANGED <<seen, overlay, listed, answer>>
  BY DEF Commit, RecordFailure, PublishTerminal, Crash, Tick, Claim, streamVars, pageVars
<1>3. \A i \in 1..Len(inbox') : FailedEvent(inbox'[i], GivenUp')
  <2>1. \A i \in 1..Len(inbox) : FailedEvent(inbox[i], GivenUp')
    BY <1>1 DEF FailedInv, SaidFailed, FailedEvent, FailedStates
  <2>2. CASE inbox' = inbox
    BY <2>1, <2>2
  <2>3. ASSUME inbox' # inbox
        PROVE  \E e \in Event : inbox' = Append(inbox, e) /\ FailedEvent(e, GivenUp')
    <3> DEFINE e(state) == [event |-> "progress", target |-> run[w].tier, state |-> state]
    <3>1. PICK state \in {"running", "ready", "failed"} :
             /\ inbox' = Append(inbox, e(state)) /\ run[w].at # "idle"
             /\ state = "failed" => run[w].at = "failed"
      BY <2>3 DEF Commit, RecordFailure, PublishTerminal, Crash, Tick, Claim, Publish,
                  streamVars
    <3>2. e(state) \in Event /\ FailedEvent(e(state), GivenUp')
      BY <1>1, <3>1 DEF Event, TierState, FailedEvent, FailedInv, ReadyInv, HoldsTier, SaidFailed
    <3> QED  BY <3>1, <3>2
  <2>4. inbox \in Seq(Event)
    BY DEF FailedInv, ReadyInv, TypeOK
  <2> QED  BY <2>1, <2>2, <2>3, <2>4
<1> QED  BY <1>1, <1>2, <1>3 DEF FailedInv, SaidFailed, FailedStates

LEMMA StreamFailed ==
    ASSUME FailedInv,
           \/ \E ok \in BOOLEAN : ReadRow(ok) \/ Subscribe(ok)
           \/ Deliver \/ EndStream \/ Reconnect \/ OpenStream \/ CloseStream \/ DropStream
           \/ ShowList \/ QueryList \/ Delete
    PROVE  OneWorker' /\ SaidFailed'
<1> USE DEF FailedInv
<1>1. UNCHANGED <<flags, queue, run>>
  BY DEF ReadRow, Subscribe, Deliver, EndStream, Reconnect, OpenStream, CloseStream, DropStream,
         ShowList, QueryList, Delete, Hangup, storeVars
<1>2. OneWorker' /\ GivenUp' = GivenUp
  BY <1>1 DEF OneWorker, GivenUp
<1>3. FailedStates(seen', GivenUp)
  BY TierStatesFailed
     DEF SaidFailed, ReadRow, Subscribe, Deliver, EndStream, Reconnect, OpenStream, CloseStream,
         DropStream, ShowList, QueryList, Delete, Hangup, streamVars
<1>4. answer' \in {answer, NoAnswer, NotListed, TierStates} /\ listed' \in {listed, answer}
      /\ (listed' # listed => answer # NoAnswer)
  BY DEF ReadRow, Subscribe, Deliver, EndStream, Reconnect, OpenStream, CloseStream,
         DropStream, ShowList, QueryList, Delete, Hangup, pageVars
<1>5. \A i \in 1..Len(inbox') : FailedEvent(inbox'[i], GivenUp)
  <2>1. inbox \in Seq(Event)
    BY DEF ReadyInv, TypeOK
  <2>2. \/ inbox' = inbox
        \/ inbox' = <<>>
        \/ inbox # <<>> /\ inbox' = Tail(inbox)
        \/ inbox' = <<[event |-> "snapshot", states |-> seen]>>
    <3>1. CASE Deliver
      BY <3>1 DEF Deliver
    <3>2. CASE \E ok \in BOOLEAN : Subscribe(ok)
      BY <3>2 DEF Subscribe
    <3>3. CASE ShowList \/ CloseStream \/ DropStream
      BY <3>3 DEF ShowList, CloseStream, DropStream, Hangup, streamVars
    <3>4. CASE \/ \E ok \in BOOLEAN : ReadRow(ok)
               \/ EndStream \/ Reconnect \/ OpenStream \/ QueryList \/ Delete
      BY <3>4 DEF ReadRow, EndStream, Reconnect, OpenStream, QueryList, Delete, streamVars
    <3> QED  BY <3>1, <3>2, <3>3, <3>4
  <2>3. CASE inbox' = inbox
    BY <2>3 DEF SaidFailed
  <2>4. CASE inbox' = <<>>
    BY <2>4
  <2>5. CASE inbox # <<>> /\ inbox' = Tail(inbox)
    <3>1. \A i \in 1..Len(inbox') : inbox'[i] = inbox[i + 1] /\ i + 1 \in 1..Len(inbox)
      BY <2>1, <2>5
    <3> QED  BY <3>1 DEF SaidFailed
  <2>6. CASE inbox' = <<[event |-> "snapshot", states |-> seen]>>
    BY <2>6 DEF SaidFailed, FailedEvent
  <2> QED  BY <2>2, <2>3, <2>4, <2>5, <2>6
<1>6. FailedStates(overlay', GivenUp)
  <2>1. CASE Deliver
    <3>1. inbox # <<>> /\ Head(inbox) \in Event /\ Head(inbox) = inbox[1]
      BY <2>1 DEF Deliver, ReadyInv, TypeOK
    <3>2. FailedEvent(Head(inbox), GivenUp)
      BY <3>1 DEF SaidFailed, ReadyInv, TypeOK
    <3>3. CASE Head(inbox).event = "snapshot"
      BY <2>1, <3>2, <3>3 DEF Deliver, FailedEvent
    <3>4. CASE Head(inbox).event # "snapshot"
      <4>1. Head(inbox) \in [event : {"progress"}, target : Targets, state : TierState]
        BY <3>1, <3>4 DEF Event
      <4>2. overlay' = [overlay EXCEPT ![Head(inbox).target] = Head(inbox).state]
        BY <2>1, <3>4 DEF Deliver
      <4>3. Head(inbox).state = "failed" => Head(inbox).target \in GivenUp
        BY <3>2, <4>1 DEF FailedEvent
      <4>4. overlay \in [Targets -> TierState \union {"unset"}] /\ FailedStates(overlay, GivenUp)
        BY DEF SaidFailed, ReadyInv, TypeOK
      <4> QED  BY <4>1, <4>2, <4>3, <4>4 DEF FailedStates
    <3> QED  BY <3>3, <3>4
  <2>2. CASE ~Deliver
    <3>1. overlay' \in {overlay, Unset}
      BY <2>2 DEF ReadRow, Subscribe, EndStream, Reconnect, OpenStream, CloseStream, DropStream,
                  ShowList, QueryList, Delete, pageVars
    <3> QED  BY <3>1, UnsetFailed DEF SaidFailed, FailedStates
  <2> QED  BY <2>1, <2>2
<1>7. /\ listed' # NotListed => FailedStates(listed', GivenUp)
      /\ answer' \notin {NotListed, NoAnswer} => FailedStates(answer', GivenUp)
  BY <1>4, TierStatesFailed DEF SaidFailed
<1> QED  BY <1>1, <1>2, <1>3, <1>5, <1>6, <1>7 DEF SaidFailed

LEMMA FailedNext ==
    ASSUME {"stall", "postgres"} \cap Faults = {}
    PROVE  FailedInv /\ [Next]_vars => FailedInv'
<1> SUFFICES ASSUME FailedInv, [Next]_vars PROVE FailedInv'
  OBVIOUS
<1>1. ReadyInv'
  BY ReadyNext DEF FailedInv
<1>2. CASE UNCHANGED vars
  BY <1>1, <1>2 DEF vars, FailedInv, OneWorker, SaidFailed, FailedStates, FailedEvent, GivenUp
<1>3. CASE Calm
  BY <1>1, <1>3, WorkerFailed, StreamFailed DEF Calm, Work, Stream, FailedInv
<1>4. CASE Fault
  BY <1>1, <1>4, WorkerFailed, StreamFailed DEF Fault, FailedInv
<1> QED  BY <1>2, <1>3, <1>4 DEF Next

(***************************************************************************)
(* A tier shown as failed has been given up (record_failure announces only *)
(* a final failure), as long as workers keep their leases and Postgres     *)
(* records what it is told.                                                *)
(***************************************************************************)
THEOREM FailedForGood ==
    ASSUME {"stall", "postgres"} \cap Faults = {}
    PROVE  Spec => []FailedIsTrue
<1>1. FailedInv => FailedIsTrue
  BY DEF FailedInv, SaidFailed, FailedStates, FailedIsTrue, Mounted, Shown, GivenUp, TierStates
<1> QED  BY <1>1, FailedInit, FailedNext, PTL DEF Spec
-----------------------------------------------------------------------------
(***************************************************************************)
(* The order of what is said.  What the stream says of a tier after it has *)
(* said how it ended repeats that end: the snapshot is first in its        *)
(* stream, a stream opened after an end was read after it, and nobody      *)
(* ticks for a row that has ended.                                         *)
(***************************************************************************)
Says(e, t) ==
    IF e.event = "snapshot" THEN e.states[t]
    ELSE IF e.target = t THEN e.state ELSE "unset"

NoNews == Ended \union {"unset"}

OrderKept ==
    \A t \in Targets :
        /\ overlay[t] \in Ended => \A i \in 1..Len(inbox) : Says(inbox[i], t) \in NoNews
        /\ \A i, j \in 1..Len(inbox) :
              i < j /\ Says(inbox[i], t) \in Ended => Says(inbox[j], t) \in NoNews
        /\ link = "read" /\ overlay[t] \in Ended => seen[t] \in Ended

OnlyAStream == link \notin {"open", "ended"} => inbox = <<>>

EndInv == FailedInv /\ OrderKept /\ OnlyAStream

LEMMA EndInit == Init => EndInv
BY FailedInit DEF Init, EndInv, OrderKept, OnlyAStream, Unset, Ended

\* Whoever says how a tier ended says what Postgres says.
LEMMA EndsAgree ==
    ASSUME FailedInv, NEW t \in Targets
    PROVE  /\ overlay[t] \in Ended => TierStates[t] = overlay[t]
           /\ \A i \in 1..Len(inbox) :
                 Says(inbox[i], t) \in Ended => TierStates[t] = Says(inbox[i], t)
<1>1. /\ t \in flags => TierStates[t] = "ready"
      /\ t \in GivenUp => TierStates[t] = "failed"
  BY DEF TierStates, GivenUp
<1>2. overlay[t] \in Ended => TierStates[t] = overlay[t]
  BY <1>1 DEF FailedInv, ReadyInv, SaidTruly, SaidFailed, TrueStates, FailedStates, Ended
<1>3. ASSUME NEW i \in 1..Len(inbox), Says(inbox[i], t) \in Ended
      PROVE  TierStates[t] = Says(inbox[i], t)
  <2>1. inbox[i] \in Event /\ TrueEvent(inbox[i], flags) /\ FailedEvent(inbox[i], GivenUp)
    BY DEF FailedInv, ReadyInv, TypeOK, SaidTruly, SaidFailed
  <2>2. CASE inbox[i].event = "snapshot"
    BY <1>1, <1>3, <2>1, <2>2
       DEF Says, TrueEvent, FailedEvent, TrueStates, FailedStates, Ended
  <2>3. CASE inbox[i].event # "snapshot"
    <3>1. inbox[i].event = "progress"
      BY <2>1, <2>3 DEF Event
    <3>2. inbox[i].target = t /\ Says(inbox[i], t) = inbox[i].state
      BY <1>3, <2>3 DEF Says, Ended
    <3> QED  BY <1>1, <1>3, <2>1, <3>1, <3>2 DEF TrueEvent, FailedEvent, Ended
  <2> QED  BY <2>2, <2>3
<1> QED  BY <1>2, <1>3

\* A tier somebody is at work on has not ended, for anybody.
LEMMA WorkIsNews ==
    ASSUME FailedInv, NEW w \in Workers, run[w].at = "work"
    PROVE  /\ run[w].tier \in Targets /\ overlay[run[w].tier] \notin Ended
           /\ \A i \in 1..Len(inbox) : Says(inbox[i], run[w].tier) \notin Ended
<1>1. run[w].tier \in Targets /\ TierStates[run[w].tier] = "running"
  BY DEF FailedInv, ReadyInv, HoldsTier, OneWorker, TierStates
<1> QED  BY <1>1, EndsAgree DEF Ended

\* One more event at the end of the stream.
LEMMA OneMoreEvent ==
    ASSUME FailedInv, OrderKept, NEW e \in Event, inbox' = Append(inbox, e),
           UNCHANGED <<overlay, seen, link>>,
           \A t \in Targets :
              \/ Says(e, t) \in NoNews
              \/ overlay[t] \notin Ended /\ \A i \in 1..Len(inbox) : Says(inbox[i], t) \notin Ended
    PROVE  OrderKept'
<1>1. inbox \in Seq(Event)
  BY DEF FailedInv, ReadyInv, TypeOK
<1>2. /\ Len(inbox') = Len(inbox) + 1 /\ Len(inbox) \in Nat
      /\ \A i \in 1..Len(inbox) : inbox'[i] = inbox[i]
      /\ inbox'[Len(inbox) + 1] = e
  BY <1>1
<1>3. \A i \in 1..Len(inbox') : i \in 1..Len(inbox) \/ i = Len(inbox) + 1
  BY <1>2
<1> SUFFICES ASSUME NEW t \in Targets
             PROVE  /\ overlay[t] \in Ended =>
                          \A i \in 1..Len(inbox') : Says(inbox'[i], t) \in NoNews
                    /\ \A i, j \in 1..Len(inbox') :
                          i < j /\ Says(inbox'[i], t) \in Ended => Says(inbox'[j], t) \in NoNews
                    /\ link = "read" /\ overlay[t] \in Ended => seen[t] \in Ended
  BY DEF OrderKept
<1>4. ASSUME overlay[t] \in Ended, NEW i \in 1..Len(inbox') PROVE Says(inbox'[i], t) \in NoNews
  BY <1>2, <1>3, <1>4 DEF OrderKept
<1>5. ASSUME NEW i \in 1..Len(inbox'), NEW j \in 1..Len(inbox'), i < j,
             Says(inbox'[i], t) \in Ended
      PROVE  Says(inbox'[j], t) \in NoNews
  <2>1. i \in 1..Len(inbox) /\ inbox'[i] = inbox[i]
    BY <1>2, <1>5
  <2>2. CASE j \in 1..Len(inbox)
    BY <1>2, <1>5, <2>1, <2>2 DEF OrderKept
  <2>3. CASE j = Len(inbox) + 1
    BY <1>2, <1>5, <2>1, <2>3
  <2> QED  BY <1>3, <2>2, <2>3
<1> QED  BY <1>4, <1>5 DEF OrderKept

LEMMA WorkerOrder ==
    ASSUME {"stall", "postgres"} \cap Faults = {}, EndInv, NEW w \in Workers,
           \/ \E ok \in BOOLEAN : Commit(w, ok) \/ RecordFailure(w, ok) \/ PublishTerminal(w, ok)
           \/ Crash(w) \/ Tick(w) \/ \E t \in Targets : Claim(w, t)
    PROVE  OrderKept' /\ OnlyAStream' /\ overlay' = overlay
<1> USE DEF EndInv
<1>1. UNCHANGED <<overlay, seen, link>>
  BY DEF Commit, RecordFailure, PublishTerminal, Crash, Tick, Claim, streamVars, pageVars
<1> DEFINE e(state) == [event |-> "progress", target |-> run[w].tier, state |-> state]
<1>2. CASE inbox' = inbox
  BY <1>1, <1>2 DEF OrderKept, OnlyAStream
<1>3. CASE inbox' # inbox
  <2>1. PICK state \in {"running", "ready", "failed"} :
           /\ inbox' = Append(inbox, e(state)) /\ link = "open" /\ run[w].at # "idle"
           /\ state = "running" => run[w].at = "work"
    BY <1>3 DEF Commit, RecordFailure, PublishTerminal, Crash, Tick, Claim, Publish, streamVars
  <2>2. run[w].tier \in Targets
    BY <2>1 DEF FailedInv, ReadyInv, HoldsTier
  <2>3. e(state) \in Event
    BY <2>1, <2>2 DEF Event, TierState
  <2>4. ASSUME NEW t \in Targets
        PROVE  \/ Says(e(state), t) \in NoNews
               \/ /\ overlay[t] \notin Ended
                  /\ \A i \in 1..Len(inbox) : Says(inbox[i], t) \notin Ended
    <3>1. Says(e(state), t) = IF run[w].tier = t THEN state ELSE "unset"
      BY DEF Says
    <3>2. CASE state = "running" /\ run[w].tier = t
      BY <2>1, <3>2, WorkIsNews
    <3>3. CASE state # "running" \/ run[w].tier # t
      BY <2>1, <3>1, <3>3 DEF NoNews, Ended
    <3> QED  BY <3>2, <3>3
  <2> HIDE DEF e
  <2>5. OrderKept'
    BY <1>1, <2>1, <2>3, <2>4, OneMoreEvent
  <2> QED  BY <1>1, <2>1, <2>5 DEF OnlyAStream
<1> QED  BY <1>1, <1>2, <1>3

\* What a delivery makes of the overlay.
LEMMA Delivered ==
    ASSUME ReadyInv, Deliver, NEW t \in Targets
    PROVE  /\ inbox # <<>> /\ Head(inbox) = inbox[1] /\ 1 \in 1..Len(inbox)
           /\ overlay'[t] = IF Says(inbox[1], t) = "unset" THEN overlay[t]
                            ELSE Says(inbox[1], t)
<1>1. inbox # <<>> /\ Head(inbox) \in Event /\ Head(inbox) = inbox[1] /\ 1 \in 1..Len(inbox)
  BY DEF Deliver, ReadyInv, TypeOK
<1>2. CASE Head(inbox).event = "snapshot"
  <2>1. Head(inbox).states \in States
    BY <1>1, <1>2 DEF Event
  <2>2. Head(inbox).states[t] # "unset"
    BY <2>1 DEF States, TierState
  <2> QED  BY <1>1, <1>2, <2>2 DEF Deliver, Says
<1>3. CASE Head(inbox).event # "snapshot"
  <2>1. Head(inbox) \in [event : {"progress"}, target : Targets, state : TierState]
    BY <1>1, <1>3 DEF Event
  <2>2. Head(inbox).state # "unset" /\ Head(inbox).target \in Targets
    BY <2>1 DEF TierState
  <2>3. overlay' = [overlay EXCEPT ![Head(inbox).target] = Head(inbox).state]
    BY <1>3 DEF Deliver
  <2>4. overlay \in [Targets -> TierState \union {"unset"}]
    BY DEF ReadyInv, TypeOK
  <2> QED  BY <1>1, <1>3, <2>2, <2>3, <2>4 DEF Says
<1> QED  BY <1>1, <1>2, <1>3

\* A delivery takes back no end.
LEMMA DeliveryKeepsEnds ==
    ASSUME EndInv, Deliver, NEW t \in Targets, overlay[t] \in Ended
    PROVE  overlay'[t] = overlay[t]
<1>1. 1 \in 1..Len(inbox)
      /\ overlay'[t] = IF Says(inbox[1], t) = "unset" THEN overlay[t] ELSE Says(inbox[1], t)
  BY Delivered DEF EndInv, FailedInv
<1>2. Says(inbox[1], t) \in NoNews
  BY <1>1 DEF EndInv, OrderKept
<1>3. Says(inbox[1], t) \in Ended => Says(inbox[1], t) = overlay[t]
  BY <1>1, EndsAgree DEF EndInv
<1> QED  BY <1>1, <1>2, <1>3 DEF NoNews

LEMMA DeliverOrder == ASSUME EndInv, Deliver PROVE OrderKept' /\ OnlyAStream'
<1> USE DEF EndInv
<1>1. inbox \in Seq(Event) /\ inbox # <<>> /\ inbox' = Tail(inbox) /\ UNCHANGED <<link, seen>>
  BY DEF Deliver, FailedInv, ReadyInv, TypeOK
<1>2. \A i \in 1..Len(inbox') :
         inbox'[i] = inbox[i + 1] /\ i + 1 \in 1..Len(inbox) /\ 1 < i + 1 /\ 1 \in 1..Len(inbox)
  BY <1>1
<1>3. link # "read"
  BY <1>1 DEF OnlyAStream
<1>4. ASSUME NEW t \in Targets, overlay'[t] \in Ended, NEW i \in 1..Len(inbox')
      PROVE  Says(inbox'[i], t) \in NoNews
  <2>1. overlay'[t] = IF Says(inbox[1], t) = "unset" THEN overlay[t] ELSE Says(inbox[1], t)
    BY Delivered DEF FailedInv
  <2>2. overlay[t] \in Ended \/ Says(inbox[1], t) \in Ended
    BY <1>4, <2>1
  <2> QED  BY <1>2, <2>2 DEF OrderKept
<1>5. ASSUME NEW t \in Targets, NEW i \in 1..Len(inbox'), NEW j \in 1..Len(inbox'), i < j,
             Says(inbox'[i], t) \in Ended
      PROVE  Says(inbox'[j], t) \in NoNews
  <2>1. i + 1 < j + 1
    BY <1>5
  <2> QED  BY <1>2, <1>5, <2>1 DEF OrderKept
<1>6. OrderKept'
  BY <1>1, <1>3, <1>4, <1>5 DEF OrderKept
<1> QED  BY <1>1, <1>6 DEF OnlyAStream

LEMMA StreamOrder ==
    ASSUME EndInv,
           \/ \E ok \in BOOLEAN : ReadRow(ok) \/ Subscribe(ok)
           \/ EndStream \/ Reconnect \/ OpenStream \/ CloseStream \/ DropStream
           \/ ShowList \/ QueryList \/ Delete
    PROVE  OrderKept' /\ OnlyAStream' /\ overlay' \in {overlay, Unset}
<1> USE DEF EndInv
<1>1. ASSUME NEW ok \in BOOLEAN, ReadRow(ok) PROVE OrderKept' /\ OnlyAStream' /\ overlay' = overlay
  <2>1. UNCHANGED <<inbox, overlay>> /\ link = "asked" /\ inbox = <<>>
        /\ (link' = "read" => seen' = TierStates) /\ link' \in {"read", "dead"}
    BY <1>1 DEF ReadRow, pageVars, OnlyAStream
  <2>2. \A t \in Targets : link' = "read" /\ overlay'[t] \in Ended => seen'[t] \in Ended
    BY <2>1, EndsAgree
  <2> QED  BY <2>1, <2>2 DEF OrderKept, OnlyAStream
<1>2. ASSUME NEW ok \in BOOLEAN, Subscribe(ok) PROVE OrderKept' /\ OnlyAStream' /\ overlay' = overlay
  <2> DEFINE e == [event |-> "snapshot", states |-> seen]
  <2>1. inbox' = <<e>> /\ link = "read" /\ link' \in {"open", "ended"} /\ UNCHANGED overlay
    BY <1>2 DEF Subscribe, pageVars
  <2>2. \A t \in Targets : Says(e, t) = seen[t]
    BY DEF Says
  <2> HIDE DEF e
  <2>3. \A i \in 1..Len(inbox') : i = 1 /\ inbox'[i] = e
    BY <2>1
  <2>4. \A t \in Targets : overlay'[t] \in Ended => Says(e, t) \in NoNews
    BY <2>1, <2>2 DEF OrderKept, NoNews
  <2>5. \A i, j \in 1..Len(inbox') : ~(i < j)
    BY <2>3
  <2>6. OrderKept'
    BY <2>1, <2>3, <2>4, <2>5 DEF OrderKept
  <2> QED  BY <2>1, <2>6 DEF OnlyAStream
<1>3. CASE EndStream \/ Reconnect \/ OpenStream
  <2>1. UNCHANGED <<inbox, overlay, seen>> /\ inbox = <<>> /\ link' \in {"lost", "asked"}
    BY <1>3 DEF EndStream, Reconnect, OpenStream, pageVars, OnlyAStream
  <2> QED  BY <2>1 DEF OrderKept, OnlyAStream
<1>4. CASE CloseStream \/ DropStream
  <2>1. inbox' = <<>> /\ link' \in {"closed", "lost"} /\ UNCHANGED overlay
    BY <1>4 DEF CloseStream, DropStream, Hangup, pageVars
  <2> QED  BY <2>1 DEF OrderKept, OnlyAStream
<1>5. CASE ShowList
  <2>1. \/ UNCHANGED <<overlay, link, seen, inbox>>
        \/ overlay' = Unset /\ link' = "closed" /\ inbox' = <<>>
    BY <1>5 DEF ShowList, Hangup, streamVars
  <2>2. CASE UNCHANGED <<overlay, link, seen, inbox>>
    BY <2>2 DEF OrderKept, OnlyAStream
  <2>3. CASE overlay' = Unset /\ link' = "closed" /\ inbox' = <<>>
    BY <2>3 DEF OrderKept, OnlyAStream
  <2> QED  BY <2>1, <2>2, <2>3
<1>6. CASE QueryList \/ Delete
  <2>1. UNCHANGED <<overlay, link, seen, inbox>>
    BY <1>6 DEF QueryList, Delete, streamVars, pageVars
  <2> QED  BY <2>1 DEF OrderKept, OnlyAStream
<1> QED  BY <1>1, <1>2, <1>3, <1>4, <1>5, <1>6

LEMMA EndNext ==
    ASSUME {"stall", "postgres"} \cap Faults = {}
    PROVE  EndInv /\ [Next]_vars =>
              /\ EndInv'
              /\ \A t \in Targets :
                    overlay[t] \in Ended => overlay'[t] = overlay[t] \/ overlay' = Unset
<1> SUFFICES ASSUME EndInv, [Next]_vars
             PROVE  /\ OrderKept' /\ OnlyAStream'
                    /\ \A t \in Targets :
                          overlay[t] \in Ended => overlay'[t] = overlay[t] \/ overlay' = Unset
  BY FailedNext DEF EndInv
<1>1. CASE UNCHANGED vars
  BY <1>1 DEF vars, EndInv, OrderKept, OnlyAStream
<1>2. CASE Deliver
  BY <1>2, DeliverOrder, DeliveryKeepsEnds
<1>3. CASE Calm /\ ~Deliver
  BY <1>3, WorkerOrder, StreamOrder DEF Calm, Work, Stream
<1>4. CASE Fault
  BY <1>4, WorkerOrder, StreamOrder DEF Fault
<1> QED  BY <1>1, <1>2, <1>3, <1>4 DEF Next

(***************************************************************************)
(* Once the stream has said how a tier ended, nothing takes it back while  *)
(* the row is on the page (useTranscodeStates, audio_progress's snapshot   *)
(* before its subscription, publish_terminal after the last tick).  The    *)
(* half of SelfHeals that is no matter of fairness.                        *)
(***************************************************************************)
THEOREM EndsAreFinal ==
    ASSUME {"stall", "postgres"} \cap Faults = {}
    PROVE  Spec => EndIsFinal
<1>1. EndInv /\ [Next]_vars =>
         [\A t \in Targets :
             overlay[t] \in Ended => overlay'[t] = overlay[t] \/ overlay' = Unset]_vars
  BY EndNext
<1>2. EndInv /\ [Next]_vars => EndInv'
  BY EndNext
<1> QED  BY <1>1, <1>2, EndInit, PTL DEF Spec, EndIsFinal
=============================================================================
