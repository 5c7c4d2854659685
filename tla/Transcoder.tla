----------------------------- MODULE Transcoder -----------------------------
(***************************************************************************)
(* One worker, the ffmpeg it starts and the two pipes between them: the    *)
(* inside of WorkerLoop's "transcode" stage, one attempt after another.    *)
(*                                                                         *)
(* A process that writes to a full pipe blocks, whatever else it has left  *)
(* to do.  transcode reads stdout itself, line by line, and reports what   *)
(* it reads to Redis between two lines; a task of its own drains stderr;   *)
(* and only after stdout has ended does it wait for the exit status.       *)
(*                                                                         *)
(* A line of stdout is the out_time it reports, or NoTime: another key of  *)
(* the block, or N/A.  Of stderr there matter the amount, and whether all  *)
(* of it is UTF-8: read_to_string returns everything or an error, and the  *)
(* task makes an empty string of an error.                                 *)
(*                                                                         *)
(* The lease renewed off a line is WorkerLoop's TranscodeTick; the length  *)
(* record_duration leaves on the file's row decides nothing anywhere.      *)
(***************************************************************************)
EXTENDS Naturals, Sequences

CONSTANTS
    Capacity,       \* what a pipe holds: lines, or pieces of stderr
    MaxLines,       \* bound: what one ffmpeg writes to stdout ...
    MaxErrors,      \* ... and to stderr
    Length,         \* out_time at the end of the source
    NoPercent,      \* last_percent or the Redis key unset
    NoTime,         \* a line of stdout that tells no time
    NoDuration,     \* a source whose length ffprobe cannot tell
    Faults          \* what the environment may inject

ASSUME CapacityAssumption == Capacity \in Nat \ {0}
ASSUME LengthAssumption == Length \in Nat \ {0}
ASSUME OutputAssumption == MaxLines \in Nat /\ MaxErrors \in Nat
ASSUME NoPercentAssumption == NoPercent \notin 0..100
ASSUME NoTimeAssumption == NoTime \notin 0..Length
ASSUME NoDurationAssumption == NoDuration \notin 1..Length
ASSUME TranscoderFaultsAssumption == Faults \subseteq {"kill", "pipe", "redis"}

VARIABLES
    at,             \* what run_job awaits, or how it ended
    duration,       \* what ffprobe made of the source
    last, conn,     \* last_percent; whether the reporter still has a connection
    key,            \* the percentage in Redis
    encoder,        \* ffmpeg: what it does next, what it has written, its status
    clock,          \* how far it has got
    stdout, stderr, \* what is in each pipe
    drain,          \* the task that reads stderr
    lost            \* reading stdout failed

workerVars == <<at, duration, last, conn, key, lost>>
encoderVars == <<encoder, clock>>
vars == <<workerVars, encoderVars, stdout, stderr, drain>>

Verdicts == {"done", "retryable", "terminal"}
Transcoding == {"read", "report", "wait", "join"}

TypeOK ==
    /\ at \in {"probe", "spawn"} \union Transcoding \union Verdicts
    /\ duration \in 1..Length \union {NoDuration}
    /\ last \in 0..100 \union {NoPercent} /\ key \in 0..100 \union {NoPercent}
    /\ conn \in BOOLEAN /\ lost \in BOOLEAN
    /\ encoder \in [next : {"none", "say", "complain", "exit", "gone"}, ok : BOOLEAN,
                    said : 0..MaxLines, complained : 0..MaxErrors, plain : BOOLEAN]
    /\ clock \in 0..Length
    /\ stdout \in Seq(0..Length \union {NoTime}) /\ Len(stdout) <= Capacity
    /\ stderr \in 0..Capacity
    /\ drain \in [over : BOOLEAN, broken : BOOLEAN, heard : 0..MaxErrors]

\* plain: everything it has written to stderr is UTF-8.
NoEncoder == [next |-> "none", ok |-> FALSE, said |-> 0, complained |-> 0, plain |-> TRUE]

NoDrain == [over |-> TRUE, broken |-> FALSE, heard |-> 0]

Init ==
    /\ at = "probe" /\ duration = NoDuration
    /\ last = NoPercent /\ conn = FALSE /\ key = NoPercent /\ lost = FALSE
    /\ encoder = NoEncoder /\ clock = 0
    /\ stdout = <<>> /\ stderr = 0
    /\ drain = NoDrain

\* run_job again, on this row; the key is whatever the last attempt left.
Fresh ==
    /\ at' = "probe" /\ duration' = NoDuration
    /\ last' = NoPercent /\ conn' = FALSE /\ lost' = FALSE
    /\ encoder' = NoEncoder /\ clock' = 0
    /\ stdout' = <<>> /\ stderr' = 0
    /\ drain' = NoDrain
    /\ UNCHANGED key

NextAttempt == at \in Verdicts /\ Fresh

\* The container goes, and ffmpeg with it.
Kill == "kill" \in Faults /\ at \notin Verdicts /\ Fresh

\* PROGRESS_TTL_SECS
ExpireKey ==
    /\ key # NoPercent
    /\ key' = NoPercent
    /\ UNCHANGED <<at, duration, last, conn, lost, encoderVars, stdout, stderr, drain>>
-----------------------------------------------------------------------------
(***************************************************************************)
(* ffmpeg.                                                                 *)
(***************************************************************************)
Alive == encoder.next \in {"say", "complain", "exit"}

\* What it may turn to next, having written so much.
Turns(said, complained) ==
    {"exit"} \union (IF said < MaxLines THEN {"say"} ELSE {})
             \union (IF complained < MaxErrors THEN {"complain"} ELSE {})

Say ==
    /\ encoder.next = "say" /\ Len(stdout) < Capacity
    /\ \E t \in clock..Length :
          /\ clock' = t
          /\ \E line \in {t, NoTime} : stdout' = Append(stdout, line)
    /\ \E turn \in Turns(encoder.said + 1, encoder.complained) :
          encoder' = [encoder EXCEPT !.said = @ + 1, !.next = turn]
    /\ UNCHANGED <<workerVars, stderr, drain>>

\* What is written to a pipe whose reader is gone goes nowhere (ffmpeg ignores
\* SIGPIPE; one that died of it would be an exit).
Complain ==
    /\ encoder.next = "complain" /\ (drain.over \/ stderr < Capacity)
    /\ stderr' = IF drain.over THEN stderr ELSE stderr + 1
    /\ \E turn \in Turns(encoder.said, encoder.complained + 1), utf8 \in BOOLEAN :
          encoder' = [encoder EXCEPT !.complained = @ + 1, !.next = turn,
                                     !.plain = @ /\ utf8]
    /\ UNCHANGED <<workerVars, clock, stdout, drain>>

Exit ==
    /\ encoder.next = "exit"
    /\ \E ok \in BOOLEAN : encoder' = [encoder EXCEPT !.next = "gone", !.ok = ok]
    /\ UNCHANGED <<workerVars, clock, stdout, stderr, drain>>
-----------------------------------------------------------------------------
(***************************************************************************)
(* The worker.                                                             *)
(***************************************************************************)
Step(from, to) == at = from /\ at' = to

\* probe_duration: no binary is Retryable, a rejected source Terminal, and a
\* length it cannot make out no failure.
Probe ==
    /\ \/ Step("probe", "spawn") /\ duration' \in 1..Length \union {NoDuration}
       \/ \E verdict \in {"retryable", "terminal"} : Step("probe", verdict) /\ UNCHANGED duration
    /\ UNCHANGED <<last, conn, key, lost, encoderVars, stdout, stderr, drain>>

\* The process, the task on its stderr, and the reporter's connection.
Spawn ==
    /\ Step("spawn", "read")
    /\ \E turn \in Turns(0, 0) : encoder' = [NoEncoder EXCEPT !.next = turn]
    /\ drain' = [NoDrain EXCEPT !.over = FALSE]
    /\ conn' \in IF "redis" \in Faults THEN BOOLEAN ELSE {TRUE}
    /\ UNCHANGED <<duration, last, key, lost, clock, stdout, stderr>>

SpawnFails ==
    /\ Step("spawn", "retryable")
    /\ UNCHANGED <<duration, last, conn, key, lost, encoderVars, stdout, stderr, drain>>

\* Slip: no clamp, and the cast to u8 saturates.
PercentUnclamped(t, d) == IF (t * 100) \div d > 255 THEN 255 ELSE (t * 100) \div d

\* A source may go on past the length ffprobe read off its header.
Percent(t, d) == IF t > d THEN 100 ELSE (t * 100) \div d

\* Slip: the line looked at and left in the buffer.
PeekLine ==
    /\ at = "read" /\ stdout # <<>>
    /\ LET line == Head(stdout)
           timed == line # NoTime /\ duration # NoDuration
       IN  IF timed /\ Percent(line, duration) # last
           THEN last' = Percent(line, duration) /\ at' = "report"
           ELSE UNCHANGED <<last, at>>
    /\ UNCHANGED <<duration, conn, key, lost, encoderVars, stdout, stderr, drain>>

ReadLine ==
    /\ at = "read" /\ stdout # <<>>
    /\ stdout' = Tail(stdout)
    /\ LET line == Head(stdout)
           timed == line # NoTime /\ duration # NoDuration
       IN  IF timed /\ Percent(line, duration) # last
           THEN last' = Percent(line, duration) /\ at' = "report"
           ELSE UNCHANGED <<last, at>>
    /\ UNCHANGED <<duration, conn, key, lost, encoderVars, stderr, drain>>

\* SET and PUBLISH; after one error, nothing more for the rest of the job.
Report(ok) ==
    /\ Step("report", "read")
    /\ ok \/ "redis" \in Faults
    /\ conn' = (conn /\ ok)
    /\ key' \in IF ~conn THEN {key} ELSE IF ok THEN {last} ELSE {key, last}
    /\ UNCHANGED <<duration, last, lost, encoderVars, stdout, stderr, drain>>

\* Slip: no more lines for now taken for no more lines.
EndOfLinesSoFar ==
    /\ stdout = <<>>
    /\ Step("read", "wait")
    /\ UNCHANGED <<duration, last, conn, key, lost, encoderVars, stdout, stderr, drain>>

EndOfLines ==
    /\ stdout = <<>> /\ ~Alive
    /\ Step("read", "wait")
    /\ UNCHANGED <<duration, last, conn, key, lost, encoderVars, stdout, stderr, drain>>

\* Slip: the attempt given up with its progress feed.
LosePipeAndGiveUp ==
    /\ "pipe" \in Faults
    /\ Step("read", "retryable")
    /\ lost' = TRUE
    /\ UNCHANGED <<duration, last, conn, key, encoderVars, stdout, stderr, drain>>

\* "The exit status decides", with the pipe neither read nor closed.
LosePipe ==
    /\ "pipe" \in Faults
    /\ Step("read", "wait")
    /\ lost' = TRUE
    /\ UNCHANGED <<duration, last, conn, key, encoderVars, stdout, stderr, drain>>

\* child.wait() errs only when there is no child left to wait for (ECHILD): so
\* neither of its arms leaves a running ffmpeg behind.
Wait ==
    /\ ~Alive
    /\ \E to \in {"join", "retryable"} : Step("wait", to)
    /\ UNCHANGED <<duration, last, conn, key, lost, encoderVars, stdout, stderr, drain>>

\* Slip: the exit status acted on without the task.
JoinAtOnce ==
    /\ Step("join", IF encoder.ok THEN "done" ELSE "terminal")
    /\ UNCHANGED <<duration, last, conn, key, lost, encoderVars, stdout, stderr, drain>>

Join ==
    /\ drain.over
    /\ Step("join", IF encoder.ok THEN "done" ELSE "terminal")
    /\ UNCHANGED <<duration, last, conn, key, lost, encoderVars, stdout, stderr, drain>>

\* The end of stderr, and with it the check that all of it is UTF-8.
EndOfErrors ==
    /\ stderr = 0 /\ ~Alive
    /\ drain' = [drain EXCEPT !.over = TRUE, !.heard = IF encoder.plain THEN @ ELSE 0]
    /\ UNCHANGED stderr

ReadErrors ==
    /\ stderr > 0
    /\ stderr' = 0 /\ drain' = [drain EXCEPT !.heard = @ + stderr]

\* Slip: stderr read once ffmpeg has been waited for.
DrainAfterWait ==
    /\ at = "join" /\ ~drain.over
    /\ ReadErrors \/ EndOfErrors
    /\ UNCHANGED <<workerVars, encoderVars, stdout>>

\* stderr_task, to the end of the pipe.
Drain ==
    /\ ~drain.over
    /\ ReadErrors \/ EndOfErrors
    /\ UNCHANGED <<workerVars, encoderVars, stdout>>

\* An error of the read itself: the pipe is closed, and of what was read the
\* task's buffer keeps nothing.
DrainFails ==
    /\ "pipe" \in Faults /\ ~drain.over
    /\ drain' = [over |-> TRUE, broken |-> TRUE, heard |-> 0]
    /\ stderr' = 0
    /\ UNCHANGED <<workerVars, encoderVars, stdout>>
-----------------------------------------------------------------------------
Ffmpeg == Say \/ Complain \/ Exit

RunJob ==
    \/ Probe
    \/ Spawn
    \/ SpawnFails
    \/ ReadLine
    \/ \E ok \in BOOLEAN : Report(ok)
    \/ EndOfLines
    \/ Wait
    \/ Join

Next ==
    \/ Ffmpeg
    \/ RunJob
    \/ Drain
    \/ DrainFails
    \/ LosePipe
    \/ Kill
    \/ NextAttempt
    \/ ExpireKey

Spec == Init /\ [][Next]_vars

(***************************************************************************)
(* Fairness: an ffmpeg that is not blocked gets on and, having only so     *)
(* much to write, ends; the runtime polls both tasks; Redis answers or     *)
(* errors.                                                                 *)
(***************************************************************************)
FairSpec == Spec /\ WF_vars(Ffmpeg) /\ WF_vars(RunJob) /\ WF_vars(Drain)
-----------------------------------------------------------------------------
(***************************************************************************)
(* What a Terminal failure of ffmpeg quotes is settled: all ffmpeg had to  *)
(* say for itself, or nothing where stderr could not be read or is not     *)
(* UTF-8 (the `let _` of stderr_task, the unwrap_or_default of its join),  *)
(* but never the part that happened to have been read when the exit status *)
(* came.  The quote is run_job's; record_failure stores its first          *)
(* MAX_ERROR_CHARS characters.                                             *)
(***************************************************************************)
Quotable == IF encoder.plain /\ ~drain.broken THEN encoder.complained ELSE 0

WholeStory == at = "terminal" /\ encoder.next = "gone" => drain.heard = Quotable

(***************************************************************************)
(* run_job never returns with its ffmpeg still running: the next attempt   *)
(* empties the scratch directory and writes to the same output path, and   *)
(* nothing kills the child of a dropped handle.                            *)
(***************************************************************************)
NoStrayEncoder == at \in Verdicts => ~Alive

(***************************************************************************)
(* While a transcode runs and stdout is being read, somebody can get on:   *)
(* ffmpeg, the task on its stderr, or the worker.  This is the wait that   *)
(* transcode's comment warns of ("a worker waiting on a process that is    *)
(* waiting on us is a deadlock"), told by what each of the three waits for.*)
(***************************************************************************)
FfmpegCanMove ==
    \/ encoder.next = "say" /\ Len(stdout) < Capacity
    \/ encoder.next = "complain" /\ (drain.over \/ stderr < Capacity)
    \/ encoder.next = "exit"

DrainCanMove == ~drain.over /\ (stderr > 0 \/ ~Alive)

WorkerCanMove ==
    \/ at = "read" /\ (stdout # <<>> \/ ~Alive)
    \/ at = "report"
    \/ at = "wait" /\ ~Alive
    \/ at = "join" /\ drain.over

NobodyStuck == at \in Transcoding /\ ~lost => FfmpegCanMove \/ DrainCanMove \/ WorkerCanMove

(***************************************************************************)
(* And no step of a transcode is for nothing: each line, each piece of     *)
(* stderr and each turn of the worker's comes off what is left to do, so   *)
(* that no loop of transcode goes round for ever.                          *)
(***************************************************************************)
Awaits == CASE at = "report" -> 4 [] at = "read" -> 3 [] at = "wait" -> 2 [] at = "join" -> 1
            [] OTHER -> 0

Running == IF Alive THEN 1 ELSE 0
Listening == IF drain.over THEN 0 ELSE 1

Unsaid == 3 * (MaxLines - encoder.said) + 2 * (MaxErrors - encoder.complained)
Unread == 2 * Len(stdout) + stderr
Left == Unsaid + Unread + Running + Listening + Awaits

LeftShrinks ==
    [][(at \in Transcoding /\ at' # "probe") => Left' < Left]_<<at, encoder, stdout, stderr, drain>>

(***************************************************************************)
(* A transcode ends: ffmpeg and the worker never wait for each other,      *)
(* however much either pipe is given to hold ("a worker waiting on a       *)
(* process that is waiting on us is a deadlock"), as long as reading       *)
(* stdout does not fail.                                                   *)
(***************************************************************************)
TranscodeEnds == at \in Transcoding ~> at \notin Transcoding \/ lost
=============================================================================
