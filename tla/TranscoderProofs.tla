--------------------------- MODULE TranscoderProofs ---------------------------
(***************************************************************************)
(* For pipes of every capacity and sources of every length: no attempt     *)
(* leaves its ffmpeg behind, a verdict has all of a readable stderr and    *)
(* none of another, and of ffmpeg, the task on its stderr and the worker   *)
(* one can always get on, each of its steps leaving less to do.            *)
(***************************************************************************)
EXTENDS Transcoder, TLAPS

(***************************************************************************)
(* While the task reads, what ffmpeg has written to stderr is in the pipe  *)
(* or has been read; the task ends with the pipe empty and its other end   *)
(* closed, or on an error; what it then has is settled, for the text of an *)
(* ffmpeg that is gone no longer changes; and the worker moves on from the *)
(* exit status only.                                                       *)
(***************************************************************************)
Amounts ==
    /\ stderr \in Nat
    /\ drain \in [over : BOOLEAN, broken : BOOLEAN, heard : Nat]
    /\ encoder \in [next : {"none", "say", "complain", "exit", "gone"}, ok : BOOLEAN,
                    said : Nat, complained : Nat, plain : BOOLEAN]
    /\ drain.heard <= encoder.complained
    /\ ~drain.over => ~drain.broken /\ drain.heard + stderr = encoder.complained

NothingSpawned == at \in {"probe", "spawn"} => encoder = NoEncoder /\ drain = NoDrain

DrainedAtTheEnd ==
    drain.over => stderr = 0 /\ drain.heard = Quotable /\ (drain.broken \/ ~Alive)

WaitedFor == at \in {"join"} \union Verdicts => ~Alive

JoinedBeforeVerdict == at = "terminal" /\ encoder.next = "gone" => drain.over

PipeInv == Amounts /\ NothingSpawned /\ DrainedAtTheEnd /\ WaitedFor /\ JoinedBeforeVerdict

\* What the pipe holds before an ffmpeg is there is nothing.
LEMMA NothingWritten ==
    ASSUME PipeInv, encoder = NoEncoder, drain = NoDrain
    PROVE  stderr = 0 /\ ~Alive
BY DEF PipeInv, DrainedAtTheEnd, NoEncoder, NoDrain, Alive

LEMMA FreshStep ==
    ASSUME Fresh
    PROVE  PipeInv'
<1>1. at' = "probe" /\ encoder' = NoEncoder /\ stderr' = 0 /\ drain' = NoDrain
  BY DEF Fresh
<1>2. Amounts'
  BY <1>1 DEF Amounts, NoEncoder, NoDrain
<1> QED
  BY <1>1, <1>2
     DEF PipeInv, NothingSpawned, DrainedAtTheEnd, WaitedFor, JoinedBeforeVerdict, Alive,
         NoEncoder, NoDrain, Quotable, Verdicts

LEMMA PipeInit == Init => PipeInv
<1> SUFFICES ASSUME Init PROVE PipeInv
  OBVIOUS
<1>1. Amounts
  BY DEF Init, Amounts, NoEncoder, NoDrain
<1> QED
  BY <1>1
     DEF Init, PipeInv, NothingSpawned, DrainedAtTheEnd, WaitedFor, JoinedBeforeVerdict, Alive,
         NoEncoder, NoDrain, Quotable, Verdicts

\* ffmpeg takes a step of its own.
LEMMA TurnsKnown ==
    ASSUME NEW said, NEW complained
    PROVE  Turns(said, complained) \subseteq {"say", "complain", "exit"}
BY DEF Turns

LEMMA FfmpegStep ==
    ASSUME PipeInv, Ffmpeg
    PROVE  PipeInv'
<1> USE DEF PipeInv
<1>1. Alive
  BY DEF Ffmpeg, Say, Complain, Exit, Alive
<1>2. UNCHANGED <<at, drain>>
  BY DEF Ffmpeg, Say, Complain, Exit, workerVars
<1>3. at \notin {"probe", "spawn"} /\ at \notin {"join"} \union Verdicts
  BY <1>1 DEF NothingSpawned, WaitedFor, NoEncoder, Alive
<1>4. Amounts' /\ (drain.over => stderr' = stderr)
  <2>1. CASE Say
    <3>1. PICK turn \in Turns(encoder.said + 1, encoder.complained) :
             encoder' = [encoder EXCEPT !.said = @ + 1, !.next = turn]
      BY <2>1 DEF Say
    <3>2. turn \in {"say", "complain", "exit"}
      BY TurnsKnown
    <3>3. stderr' = stderr
      BY <2>1 DEF Say
    <3>4. encoder' = [next |-> turn, ok |-> encoder.ok, said |-> encoder.said + 1,
                      complained |-> encoder.complained, plain |-> encoder.plain]
      BY <3>1 DEF Amounts
    <3> QED  BY <1>2, <3>2, <3>3, <3>4 DEF Amounts
  <2>2. CASE Complain
    <3>1. PICK turn \in Turns(encoder.said, encoder.complained + 1), utf8 \in BOOLEAN :
             encoder' = [encoder EXCEPT !.complained = @ + 1, !.next = turn,
                                        !.plain = @ /\ utf8]
      BY <2>2 DEF Complain
    <3>2. turn \in {"say", "complain", "exit"}
      BY TurnsKnown
    <3>3. stderr' = IF drain.over THEN stderr ELSE stderr + 1
      BY <2>2 DEF Complain
    <3>4. encoder' = [next |-> turn, ok |-> encoder.ok, said |-> encoder.said,
                      complained |-> encoder.complained + 1,
                      plain |-> (encoder.plain /\ utf8)]
      BY <3>1 DEF Amounts
    <3>5. (encoder.plain /\ utf8) \in BOOLEAN
      OBVIOUS
    <3>6. encoder' \in [next : {"none", "say", "complain", "exit", "gone"}, ok : BOOLEAN,
                        said : Nat, complained : Nat, plain : BOOLEAN]
      BY <3>2, <3>4, <3>5 DEF Amounts
    <3>7. encoder'.complained = encoder.complained + 1
      BY <3>4
    <3> QED  BY <1>2, <3>3, <3>6, <3>7 DEF Amounts
  <2>3. CASE Exit
    BY <1>2, <2>3 DEF Exit, Amounts
  <2> QED  BY <2>1, <2>2, <2>3 DEF Ffmpeg
<1>5. DrainedAtTheEnd'
  <2> SUFFICES ASSUME drain.over
               PROVE  stderr' = 0 /\ drain'.heard = Quotable' /\ drain'.broken
    BY <1>2 DEF DrainedAtTheEnd
  <2>1. stderr = 0 /\ drain.broken /\ drain.heard = 0
    BY <1>1 DEF DrainedAtTheEnd, Quotable
  <2> QED  BY <1>2, <1>4, <2>1 DEF Quotable
<1> QED
  BY <1>2, <1>3, <1>4, <1>5
     DEF NothingSpawned, WaitedFor, JoinedBeforeVerdict, Verdicts

\* The worker moves on, or not; whatever it did left ffmpeg and stderr alone.
LEMMA WorkerStep ==
    ASSUME PipeInv, UNCHANGED <<encoder, stderr, drain>>,
           at' \in {"probe", "spawn"} => encoder = NoEncoder /\ drain = NoDrain,
           at' \in {"join"} \union Verdicts => ~Alive,
           at' = "terminal" /\ encoder.next = "gone" => drain.over
    PROVE  PipeInv'
BY DEF PipeInv, Amounts, NothingSpawned, DrainedAtTheEnd, WaitedFor, JoinedBeforeVerdict, Alive,
       Quotable

LEMMA RunJobStep ==
    ASSUME PipeInv, RunJob
    PROVE  PipeInv'
<1> USE DEF PipeInv
<1>1. CASE Probe
  <2>1. encoder = NoEncoder /\ drain = NoDrain /\ UNCHANGED <<encoder, stderr, drain>>
    BY <1>1 DEF Probe, Step, encoderVars, NothingSpawned
  <2> QED  BY <1>1, <2>1, NothingWritten, WorkerStep DEF NoEncoder
<1>2. CASE Spawn
  <2>1. encoder = NoEncoder /\ drain = NoDrain
    BY <1>2 DEF Spawn, Step, NothingSpawned
  <2>2. PICK turn \in Turns(0, 0) : encoder' = [NoEncoder EXCEPT !.next = turn]
    BY <1>2 DEF Spawn
  <2>3. /\ at' = "read" /\ stderr' = stderr /\ stderr = 0
        /\ drain' = [over |-> FALSE, broken |-> FALSE, heard |-> 0]
    BY <1>2, <2>1, NothingWritten DEF Spawn, Step, NoDrain
  <2>4. Amounts'
    <3>1. turn \in {"say", "complain", "exit"}
      BY TurnsKnown
    <3>2. encoder' = [next |-> turn, ok |-> FALSE, said |-> 0, complained |-> 0,
                      plain |-> TRUE]
      BY <2>2 DEF NoEncoder
    <3> QED  BY <2>3, <3>1, <3>2 DEF Amounts
  <2> QED
    BY <2>3, <2>4
       DEF NothingSpawned, DrainedAtTheEnd, WaitedFor, JoinedBeforeVerdict, Verdicts
<1>3. CASE SpawnFails
  <2>1. /\ encoder = NoEncoder /\ drain = NoDrain /\ at' = "retryable"
        /\ UNCHANGED <<encoder, stderr, drain>>
    BY <1>3 DEF SpawnFails, Step, encoderVars, NothingSpawned
  <2> QED  BY <2>1, NothingWritten, WorkerStep DEF NoEncoder
<1>4. CASE ReadLine \/ (\E ok \in BOOLEAN : Report(ok)) \/ EndOfLines
  <2>1. at' \in {"read", "report", "wait"} /\ UNCHANGED <<encoder, stderr, drain>>
    BY <1>4 DEF ReadLine, Report, EndOfLines, Step, encoderVars
  <2> QED  BY <2>1, WorkerStep DEF Verdicts
<1>5. CASE Wait
  <2>1. ~Alive /\ at' \in {"join", "retryable"} /\ UNCHANGED <<encoder, stderr, drain>>
    BY <1>5 DEF Wait, Step, encoderVars
  <2> QED  BY <2>1, WorkerStep
<1>6. CASE Join
  <2>1. /\ ~Alive /\ drain.over /\ at' \in {"done", "terminal"}
        /\ UNCHANGED <<encoder, stderr, drain>>
    BY <1>6 DEF Join, Step, encoderVars, WaitedFor
  <2> QED  BY <2>1, WorkerStep
<1> QED  BY <1>1, <1>2, <1>3, <1>4, <1>5, <1>6 DEF RunJob

LEMMA DrainStep ==
    ASSUME PipeInv, Drain
    PROVE  PipeInv'
<1> USE DEF PipeInv
<1>1. ~drain.over /\ ~drain.broken /\ UNCHANGED <<at, encoder>>
  BY DEF Drain, workerVars, encoderVars, Amounts
<1>2. at \notin {"probe", "spawn"}
  BY <1>1 DEF NothingSpawned, NoDrain
<1>3. CASE ReadErrors
  <2>1. /\ stderr' = 0
        /\ drain' = [over |-> FALSE, broken |-> FALSE, heard |-> drain.heard + stderr]
    BY <1>1, <1>3 DEF ReadErrors, Amounts
  <2>2. Amounts'
    BY <1>1, <2>1 DEF Amounts
  <2> QED
    BY <1>1, <1>2, <2>1, <2>2
       DEF NothingSpawned, DrainedAtTheEnd, WaitedFor, JoinedBeforeVerdict, Alive
<1>4. CASE EndOfErrors
  <2>1. stderr = 0 /\ stderr' = 0 /\ ~Alive /\ ~Alive'
    BY <1>1, <1>4 DEF EndOfErrors, Alive
  <2>2. drain' = [over |-> TRUE, broken |-> FALSE,
                  heard |-> IF encoder.plain THEN drain.heard ELSE 0]
    BY <1>1, <1>4 DEF EndOfErrors, Amounts
  <2>3. Amounts'
    BY <1>1, <2>1, <2>2 DEF Amounts
  <2>4. drain'.heard = Quotable'
    BY <1>1, <2>1, <2>2 DEF Amounts, Quotable
  <2> QED
    BY <1>1, <1>2, <2>1, <2>2, <2>3, <2>4
       DEF NothingSpawned, DrainedAtTheEnd, WaitedFor, JoinedBeforeVerdict, Alive
<1> QED  BY <1>3, <1>4 DEF Drain

LEMMA DrainFailsStep ==
    ASSUME PipeInv, DrainFails
    PROVE  PipeInv'
<1> USE DEF PipeInv
<1>1. /\ ~drain.over /\ UNCHANGED <<at, encoder>>
      /\ stderr' = 0 /\ drain' = [over |-> TRUE, broken |-> TRUE, heard |-> 0]
  BY DEF DrainFails, workerVars, encoderVars
<1>2. at \notin {"probe", "spawn"}
  BY <1>1 DEF NothingSpawned, NoDrain
<1>3. Amounts'
  BY <1>1 DEF Amounts
<1>4. drain'.heard = Quotable'
  BY <1>1 DEF Quotable
<1> QED
  BY <1>1, <1>2, <1>3, <1>4
     DEF NothingSpawned, DrainedAtTheEnd, WaitedFor, JoinedBeforeVerdict, Alive

LEMMA PipeNext == PipeInv /\ [Next]_vars => PipeInv'
<1> SUFFICES ASSUME PipeInv, [Next]_vars PROVE PipeInv'
  OBVIOUS
<1>1. CASE LosePipe
  <2>1. at' = "wait" /\ UNCHANGED <<encoder, stderr, drain>>
    BY <1>1 DEF LosePipe, Step, encoderVars
  <2> QED  BY <2>1, WorkerStep DEF Verdicts
<1>2. CASE Kill \/ NextAttempt
  BY <1>2, FreshStep DEF Kill, NextAttempt
<1>3. CASE ExpireKey \/ UNCHANGED vars
  <2>1. UNCHANGED <<at, encoder, stderr, drain>>
    BY <1>3 DEF ExpireKey, vars, workerVars, encoderVars
  <2> QED
    BY <2>1, WorkerStep
       DEF PipeInv, NothingSpawned, WaitedFor, JoinedBeforeVerdict, Verdicts
<1> QED
  BY <1>1, <1>2, <1>3, FfmpegStep, RunJobStep, DrainStep, DrainFailsStep DEF Next

(***************************************************************************)
(* What a Terminal failure quotes is all of a stderr that was read and is  *)
(* UTF-8, and nothing of any other: never a part (stderr_task and its      *)
(* join), however little a pipe holds.                                     *)
(***************************************************************************)
THEOREM WholeStoryTold == Spec => []WholeStory
<1>1. PipeInv => WholeStory
  BY DEF PipeInv, JoinedBeforeVerdict, DrainedAtTheEnd, WholeStory
<1> QED  BY <1>1, PipeInit, PipeNext, PTL DEF Spec

(***************************************************************************)
(* No verdict of run_job leaves its ffmpeg running.                        *)
(***************************************************************************)
THEOREM NoneStray == Spec => []NoStrayEncoder
<1>1. PipeInv => NoStrayEncoder
  BY DEF PipeInv, WaitedFor, NoStrayEncoder
<1> QED  BY <1>1, PipeInit, PipeNext, PTL DEF Spec
-----------------------------------------------------------------------------
(***************************************************************************)
(* Types: what the worker keeps, the line pipe, and how much ffmpeg has    *)
(* written.                                                                *)
(***************************************************************************)
Words ==
    /\ at \in {"probe", "spawn"} \union Transcoding \union Verdicts
    /\ duration \in 1..Length \union {NoDuration}
    /\ last \in 0..100 \union {NoPercent}
    /\ key \in 0..100 \union {NoPercent}
    /\ conn \in BOOLEAN
    /\ lost \in BOOLEAN

Lines ==
    /\ clock \in 0..Length
    /\ stdout \in Seq(0..Length \union {NoTime})
    /\ Len(stdout) <= Capacity

\* ffmpeg says what it was about to say and no more.
Limits ==
    /\ encoder.said <= MaxLines /\ encoder.complained <= MaxErrors
    /\ encoder.next = "say" => encoder.said < MaxLines
    /\ encoder.next = "complain" => encoder.complained < MaxErrors
    /\ stderr <= Capacity

TypeInv == Words /\ Lines /\ Limits

LEMMA TypeInvImplies == PipeInv /\ TypeInv => TypeOK
<1> SUFFICES ASSUME PipeInv, TypeInv PROVE TypeOK
  OBVIOUS
<1> USE DEF PipeInv, TypeInv
<1>1. /\ encoder.said \in 0..MaxLines /\ encoder.complained \in 0..MaxErrors
      /\ encoder = [next |-> encoder.next, ok |-> encoder.ok, said |-> encoder.said,
                    complained |-> encoder.complained, plain |-> encoder.plain]
      /\ encoder.next \in {"none", "say", "complain", "exit", "gone"}
      /\ encoder.ok \in BOOLEAN /\ encoder.plain \in BOOLEAN
  BY OutputAssumption DEF Amounts, Limits
<1>2. encoder \in [next : {"none", "say", "complain", "exit", "gone"}, ok : BOOLEAN,
                   said : 0..MaxLines, complained : 0..MaxErrors, plain : BOOLEAN]
  BY <1>1
<1>3. /\ drain.heard \in 0..MaxErrors /\ drain.over \in BOOLEAN /\ drain.broken \in BOOLEAN
      /\ drain = [over |-> drain.over, broken |-> drain.broken, heard |-> drain.heard]
  BY OutputAssumption DEF Amounts, Limits
<1>4. drain \in [over : BOOLEAN, broken : BOOLEAN, heard : 0..MaxErrors]
  BY <1>3
<1>5. stderr \in 0..Capacity
  BY CapacityAssumption DEF Amounts, Limits
<1> QED
  BY <1>2, <1>4, <1>5 DEF TypeOK, Words, Lines

\* The percentage of a source that goes on past its length is clamped.
LEMMA PercentInRange ==
    ASSUME NEW t \in 0..Length, NEW d \in 1..Length
    PROVE  Percent(t, d) \in 0..100
<1>1. CASE t > d
  BY <1>1 DEF Percent
<1>2. CASE ~(t > d)
  <2> DEFINE q == (t * 100) \div d
             a == t * 100
  <2>1. t \in Nat /\ d \in Nat /\ d > 0 /\ a \in Nat /\ a <= 100 * d
    BY <1>2, LengthAssumption
  <2> HIDE DEF a
  <2>2. q \in Nat /\ a = d * q + (a % d) /\ a % d \in 0..(d - 1)
    BY <2>1, SMT DEF a
  <2> HIDE DEF q
  <2>3. d * q <= a
    BY <2>1, <2>2, SMT
  <2>4. ASSUME q >= 101 PROVE FALSE
    <3>1. d * q >= d * 101
      BY <2>1, <2>2, <2>4, SMT
    <3> QED  BY <2>1, <2>2, <2>3, <3>1, SMT
  <2>5. q \in 0..100
    BY <2>2, <2>4
  <2>6. Percent(t, d) = q
    BY <1>2 DEF Percent, q
  <2> QED  BY <2>5, <2>6
<1> QED  BY <1>1, <1>2

LEMMA TypeInit == Init => TypeInv
<1> SUFFICES ASSUME Init PROVE TypeInv
  OBVIOUS
<1>1. Words
  BY DEF Init, Words
<1>2. Lines
  BY CapacityAssumption, LengthAssumption DEF Init, Lines
<1>3. Limits
  BY CapacityAssumption, OutputAssumption DEF Init, Limits, NoEncoder
<1> QED  BY <1>1, <1>2, <1>3 DEF TypeInv

LEMMA FreshTypes ==
    ASSUME TypeInv, Fresh
    PROVE  TypeInv'
<1>1. Words'
  BY DEF Fresh, TypeInv, Words
<1>2. Lines'
  BY CapacityAssumption, LengthAssumption DEF Fresh, Lines
<1>3. encoder' = NoEncoder /\ stderr' = 0
  BY DEF Fresh
<1>4. Limits'
  BY <1>3, CapacityAssumption, OutputAssumption DEF Limits, NoEncoder
<1> QED  BY <1>1, <1>2, <1>4 DEF TypeInv

\* The turns of an ffmpeg that has written so much keep to its limits.
LEMMA TurnsKeepLimits ==
    ASSUME NEW said, NEW complained, NEW turn \in Turns(said, complained)
    PROVE  /\ turn = "say" => said < MaxLines
           /\ turn = "complain" => complained < MaxErrors
BY DEF Turns

LEMMA FfmpegTypes ==
    ASSUME PipeInv, TypeInv, Ffmpeg
    PROVE  TypeInv'
<1> USE DEF PipeInv, TypeInv
<1>1. Words'
  BY DEF Ffmpeg, Say, Complain, Exit, workerVars, Words
<1>2. CASE Say
  <2>0. PICK t \in clock..Length :
           clock' = t /\ \E line \in {t, NoTime} : stdout' = Append(stdout, line)
    BY <1>2 DEF Say
  <2>1. PICK line \in {t, NoTime} : stdout' = Append(stdout, line)
    BY <2>0
  <2>2. t \in 0..Length /\ line \in 0..Length \union {NoTime}
    BY LengthAssumption DEF Lines
  <2>3. Lines'
    <3>1. stdout' \in Seq(0..Length \union {NoTime}) /\ Len(stdout') = Len(stdout) + 1
      BY <2>1, <2>2 DEF Lines
    <3>2. Len(stdout) < Capacity /\ Len(stdout) \in Nat
      BY <1>2 DEF Say, Lines
    <3> QED  BY <2>0, <2>2, <3>1, <3>2, CapacityAssumption DEF Lines
  <2>4. PICK turn \in Turns(encoder.said + 1, encoder.complained) :
           encoder' = [encoder EXCEPT !.said = @ + 1, !.next = turn]
    BY <1>2 DEF Say
  <2>5. encoder' = [next |-> turn, ok |-> encoder.ok, said |-> encoder.said + 1,
                    complained |-> encoder.complained, plain |-> encoder.plain]
    BY <2>4 DEF Amounts
  <2>6. Limits'
    <3>1. encoder.said < MaxLines /\ stderr' = stderr
      BY <1>2 DEF Say, Limits
    <3> QED  BY <2>5, <3>1, TurnsKeepLimits, OutputAssumption DEF Limits, Amounts
  <2> QED  BY <1>1, <2>3, <2>6
<1>3. CASE Complain
  <2>1. PICK turn \in Turns(encoder.said, encoder.complained + 1), utf8 \in BOOLEAN :
           encoder' = [encoder EXCEPT !.complained = @ + 1, !.next = turn,
                                      !.plain = @ /\ utf8]
    BY <1>3 DEF Complain
  <2>2. /\ encoder'.next = turn /\ encoder'.said = encoder.said
        /\ encoder'.complained = encoder.complained + 1
    BY <2>1 DEF Amounts
  <2>3. Limits'
    <3>1. encoder.complained < MaxErrors
      BY <1>3 DEF Complain, Limits
    <3>2. stderr' <= Capacity
      BY <1>3, CapacityAssumption DEF Complain, Limits, Amounts
    <3> QED
      BY <2>2, <3>1, <3>2, TurnsKeepLimits, OutputAssumption DEF Limits, Amounts
  <2>4. Lines'
    BY <1>3 DEF Complain, Lines
  <2> QED  BY <1>1, <2>3, <2>4
<1>4. CASE Exit
  <2>1. PICK ok \in BOOLEAN : encoder' = [encoder EXCEPT !.next = "gone", !.ok = ok]
    BY <1>4 DEF Exit
  <2>2. encoder' = [next |-> "gone", ok |-> ok, said |-> encoder.said,
                    complained |-> encoder.complained, plain |-> encoder.plain]
    BY <2>1 DEF Amounts
  <2>3. UNCHANGED <<clock, stdout, stderr>>
    BY <1>4 DEF Exit
  <2> QED  BY <1>1, <2>2, <2>3 DEF Limits, Lines
<1> QED  BY <1>2, <1>3, <1>4 DEF Ffmpeg

LEMMA RunJobTypes ==
    ASSUME PipeInv, TypeInv, RunJob \/ LosePipe
    PROVE  TypeInv'
<1> USE DEF TypeInv
<1>1. CASE Probe \/ SpawnFails \/ EndOfLines \/ Wait \/ Join \/ LosePipe
  <2>1. UNCHANGED <<last, conn, key, encoder, clock, stdout, stderr>>
    BY <1>1 DEF Probe, SpawnFails, EndOfLines, Wait, Join, LosePipe, encoderVars
  <2>2. /\ at' \in {"spawn", "wait", "join"} \union Verdicts
        /\ duration' \in 1..Length \union {NoDuration}
        /\ lost' \in BOOLEAN
    BY <1>1
       DEF Probe, SpawnFails, EndOfLines, Wait, Join, LosePipe, Step, Words, Verdicts
  <2> QED  BY <2>1, <2>2 DEF Words, Lines, Limits, Transcoding
<1>2. CASE Spawn
  <2>1. PICK turn \in Turns(0, 0) : encoder' = [NoEncoder EXCEPT !.next = turn]
    BY <1>2 DEF Spawn
  <2>2. encoder' = [next |-> turn, ok |-> FALSE, said |-> 0, complained |-> 0, plain |-> TRUE]
    BY <2>1 DEF NoEncoder
  <2>3. /\ at' = "read" /\ conn' \in BOOLEAN
        /\ UNCHANGED <<duration, last, key, lost, clock, stdout, stderr>>
    BY <1>2 DEF Spawn, Step
  <2>4. Limits'
    BY <2>2, <2>3, TurnsKeepLimits, OutputAssumption DEF Limits
  <2> QED  BY <2>3, <2>4 DEF Words, Lines, Transcoding
<1>3. CASE ReadLine
  <2>1. stdout # <<>> /\ stdout' = Tail(stdout)
        /\ UNCHANGED <<duration, conn, key, lost, encoder, clock, stderr>>
    BY <1>3 DEF ReadLine, encoderVars
  <2>2. Lines'
    BY <2>1, CapacityAssumption DEF Lines
  <2>3. last' \in 0..100 \union {NoPercent} /\ at' \in {"read", "report"}
    <3>1. Head(stdout) \in 0..Length \union {NoTime}
      BY <2>1 DEF Lines
    <3>2. CASE Head(stdout) # NoTime /\ duration # NoDuration
      <4>1. Percent(Head(stdout), duration) \in 0..100
        BY <3>1, <3>2, PercentInRange DEF Words
      <4> QED  BY <1>3, <4>1 DEF ReadLine, Words
    <3>3. CASE ~(Head(stdout) # NoTime /\ duration # NoDuration)
      BY <1>3, <3>3 DEF ReadLine, Words
    <3> QED  BY <3>2, <3>3
  <2> QED  BY <2>1, <2>2, <2>3 DEF Words, Limits, Transcoding
<1>4. ASSUME NEW ok \in BOOLEAN, Report(ok) PROVE TypeInv'
  <2>1. /\ at' = "read" /\ conn' = (conn /\ ok)
        /\ UNCHANGED <<duration, last, lost, encoder, clock, stdout, stderr>>
    BY <1>4 DEF Report, Step, encoderVars
  <2>2. key' \in {key, last}
    BY <1>4 DEF Report
  <2>3. conn' \in BOOLEAN
    BY <2>1
  <2> QED  BY <2>1, <2>2, <2>3 DEF Words, Lines, Limits, Transcoding
<1> QED  BY <1>1, <1>2, <1>3, <1>4 DEF RunJob

LEMMA TypeNext == PipeInv /\ TypeInv /\ [Next]_vars => TypeInv'
<1> SUFFICES ASSUME PipeInv, TypeInv, [Next]_vars PROVE TypeInv'
  OBVIOUS
<1>1. CASE Drain \/ DrainFails
  <2>1. /\ UNCHANGED <<at, duration, last, key, conn, lost, encoder, clock, stdout>>
        /\ stderr' \in {0, stderr}
    BY <1>1 DEF Drain, DrainFails, ReadErrors, EndOfErrors, workerVars, encoderVars
  <2> QED
    BY <2>1, CapacityAssumption DEF TypeInv, Words, Lines, Limits
<1>2. CASE Kill \/ NextAttempt
  BY <1>2, FreshTypes DEF Kill, NextAttempt
<1>3. CASE ExpireKey
  BY <1>3 DEF ExpireKey, encoderVars, TypeInv, Words, Lines, Limits
<1>4. CASE UNCHANGED vars
  BY <1>4 DEF vars, workerVars, encoderVars, TypeInv, Words, Lines, Limits
<1> QED
  BY <1>1, <1>2, <1>3, <1>4, FfmpegTypes, RunJobTypes DEF Next

(***************************************************************************)
(* Types: in particular no pipe holds more than it can, and no percentage  *)
(* that reaches Redis is above 100, also of a source that outruns the      *)
(* length ffprobe read (ProgressReporter::observe).                        *)
(***************************************************************************)
THEOREM TypeCorrect == Spec => []TypeOK
<1> QED
  BY PipeInit, PipeNext, TypeInit, TypeNext, TypeInvImplies, PTL DEF Spec
-----------------------------------------------------------------------------
(***************************************************************************)
(* Nobody is stuck.  Unless the pipe was lost, the worker waits only for   *)
(* an ffmpeg that is gone.                                                 *)
(***************************************************************************)
WaitsForTheDead == at = "wait" /\ ~lost => ~Alive

LEMMA WaitInit == Init => WaitsForTheDead
BY DEF Init, WaitsForTheDead

LEMMA WaitNext == PipeInv /\ WaitsForTheDead /\ [Next]_vars => WaitsForTheDead'
<1> SUFFICES ASSUME PipeInv, WaitsForTheDead, [Next]_vars, at' = "wait", ~lost'
             PROVE  ~Alive'
  BY DEF WaitsForTheDead
<1> USE DEF WaitsForTheDead
<1>1. CASE Ffmpeg
  <2>1. Alive /\ UNCHANGED <<at, lost>>
    BY <1>1 DEF Ffmpeg, Say, Complain, Exit, Alive, workerVars
  <2> QED  BY <2>1
<1>2. CASE EndOfLines
  BY <1>2 DEF EndOfLines, Alive, encoderVars
<1>3. CASE Drain \/ DrainFails \/ ExpireKey \/ UNCHANGED vars
  BY <1>3 DEF Drain, DrainFails, ExpireKey, vars, workerVars, encoderVars, Alive
<1>4. CASE LosePipe
  BY <1>4 DEF LosePipe
<1>5. CASE Kill \/ NextAttempt
  BY <1>5 DEF Kill, NextAttempt, Fresh
<1>6. CASE Probe \/ Spawn \/ SpawnFails \/ ReadLine \/ (\E ok \in BOOLEAN : Report(ok))
             \/ Wait \/ Join
  BY <1>6 DEF Probe, Spawn, SpawnFails, ReadLine, Report, Wait, Join, Step
<1> QED  BY <1>1, <1>2, <1>3, <1>4, <1>5, <1>6 DEF Next, RunJob

(***************************************************************************)
(* At every moment of a transcode somebody can get on, for pipes of every  *)
(* capacity: transcode's three waits never wait for each other in a circle *)
(* while it reads stdout (transcode, stderr_task).                         *)
(***************************************************************************)
THEOREM NobodyIsStuck == Spec => []NobodyStuck
<1>1. PipeInv /\ TypeInv /\ WaitsForTheDead => NobodyStuck
  <2> SUFFICES ASSUME PipeInv, TypeInv, WaitsForTheDead, at \in Transcoding, ~lost
               PROVE  FfmpegCanMove \/ DrainCanMove \/ WorkerCanMove
    BY DEF NobodyStuck
  <2>1. CASE at = "read"
    <3>1. CASE stdout # <<>> \/ ~Alive
      BY <2>1, <3>1 DEF WorkerCanMove
    <3>2. CASE stdout = <<>> /\ Alive
      <4>1. Len(stdout) < Capacity
        BY <3>2, CapacityAssumption
      <4>2. CASE encoder.next \in {"say", "exit"}
        BY <4>1, <4>2 DEF FfmpegCanMove
      <4>3. CASE encoder.next = "complain"
        <5>1. stderr < Capacity \/ stderr > 0
          BY CapacityAssumption DEF PipeInv, Amounts
        <5> QED  BY <4>3, <5>1 DEF FfmpegCanMove, DrainCanMove
      <4> QED  BY <3>2, <4>2, <4>3 DEF Alive
    <3> QED  BY <3>1, <3>2
  <2>2. CASE at = "report"
    BY <2>2 DEF WorkerCanMove
  <2>3. CASE at = "wait"
    BY <2>3 DEF WorkerCanMove, WaitsForTheDead
  <2>4. CASE at = "join"
    <3>1. ~Alive
      BY <2>4 DEF PipeInv, WaitedFor
    <3> QED  BY <2>4, <3>1 DEF WorkerCanMove, DrainCanMove, PipeInv, Amounts
  <2> QED  BY <2>1, <2>2, <2>3, <2>4 DEF Transcoding
<1> QED
  BY <1>1, PipeInit, PipeNext, TypeInit, TypeNext, WaitInit, WaitNext, PTL DEF Spec

(***************************************************************************)
(* What is left of a transcode is a number, and each step takes from it.   *)
(***************************************************************************)
LEMMA PartsAreNatural ==
    ASSUME PipeInv, TypeInv
    PROVE  /\ Unsaid \in Nat /\ Unread \in Nat
           /\ Running \in {0, 1} /\ Listening \in {0, 1} /\ Awaits \in 0..4
<1>1. /\ encoder.said \in Nat /\ encoder.complained \in Nat /\ stderr \in Nat
      /\ encoder.said <= MaxLines /\ encoder.complained <= MaxErrors /\ Len(stdout) \in Nat
  BY DEF PipeInv, Amounts, TypeInv, Limits, Lines
<1>2. Unsaid \in Nat
  <2>1. MaxLines - encoder.said \in Nat /\ MaxErrors - encoder.complained \in Nat
    BY <1>1, OutputAssumption
  <2> QED  BY <2>1 DEF Unsaid
<1>3. Unread \in Nat
  BY <1>1 DEF Unread
<1>4. Running \in {0, 1} /\ Listening \in {0, 1} /\ Awaits \in 0..4
  BY DEF Running, Listening, Awaits
<1> QED  BY <1>2, <1>3, <1>4

LEMMA LeftFfmpeg ==
    ASSUME PipeInv, TypeInv, PipeInv', TypeInv', Ffmpeg
    PROVE  Left' < Left
<1>0. /\ encoder.said \in Nat /\ encoder.complained \in Nat /\ stderr \in Nat
      /\ Len(stdout) \in Nat
  BY DEF PipeInv, Amounts, TypeInv, Lines
<1>1. Awaits' = Awaits /\ Listening' = Listening
  BY DEF Ffmpeg, Say, Complain, Exit, workerVars, Awaits, Listening
<1>2. Running = 1 /\ Running' \in {0, 1}
  BY DEF Ffmpeg, Say, Complain, Exit, Alive, Running
<1>3. CASE Say
  <2>1. /\ encoder'.said = encoder.said + 1 /\ encoder'.complained = encoder.complained
        /\ stderr' = stderr
    BY <1>3 DEF Say, PipeInv, Amounts
  <2>2. Len(stdout') = Len(stdout) + 1
    BY <1>3 DEF Say, TypeInv, Lines
  <2>3. Unsaid' = Unsaid - 3
    BY <1>0, <2>1, OutputAssumption DEF Unsaid
  <2>4. Unread' = Unread + 2
    BY <1>0, <2>1, <2>2 DEF Unread
  <2> QED  BY <1>1, <1>2, <2>3, <2>4, PartsAreNatural DEF Left
<1>4. CASE Complain
  <2>1. /\ encoder'.said = encoder.said /\ encoder'.complained = encoder.complained + 1
        /\ stderr' \in {stderr, stderr + 1} /\ stdout' = stdout
    BY <1>4 DEF Complain, PipeInv, Amounts
  <2>2. Unsaid' = Unsaid - 2
    BY <1>0, <2>1, OutputAssumption DEF Unsaid
  <2>3. Unread' <= Unread + 1 /\ Unread' \in Nat
    BY <1>0, <2>1 DEF Unread
  <2> QED  BY <1>1, <1>2, <2>2, <2>3, PartsAreNatural DEF Left
<1>5. CASE Exit
  <2>1. /\ encoder'.said = encoder.said /\ encoder'.complained = encoder.complained
        /\ stderr' = stderr /\ stdout' = stdout
    BY <1>5 DEF Exit, PipeInv, Amounts
  <2>2. Running' = 0
    BY <1>5 DEF Exit, Alive, Running, PipeInv, Amounts
  <2>3. Unsaid' = Unsaid /\ Unread' = Unread
    BY <2>1 DEF Unsaid, Unread
  <2> QED  BY <1>1, <1>2, <2>2, <2>3, PartsAreNatural DEF Left
<1> QED  BY <1>3, <1>4, <1>5 DEF Ffmpeg

\* The worker's turns after the spawn, and a lost pipe.
LEMMA LeftWorker ==
    ASSUME PipeInv, TypeInv, PipeInv', TypeInv', at \in Transcoding, RunJob \/ LosePipe
    PROVE  Left' < Left
<1>1. UNCHANGED <<encoder, stderr, drain>>
  BY DEF RunJob, Probe, Spawn, SpawnFails, ReadLine, Report, EndOfLines, Wait, Join, LosePipe,
         Step, encoderVars, Transcoding
<1>2. Running' = Running /\ Listening' = Listening /\ Unsaid' = Unsaid
  BY <1>1 DEF Running, Listening, Alive, Unsaid
<1>3. CASE ReadLine
  <2>1. Len(stdout') = Len(stdout) - 1 /\ Len(stdout) \in Nat /\ stderr \in Nat
    BY <1>3 DEF ReadLine, TypeInv, Lines, PipeInv, Amounts
  <2>2. Awaits = 3 /\ Awaits' \in {3, 4}
    BY <1>3 DEF ReadLine, Awaits
  <2>3. Unread' = Unread - 2
    BY <1>1, <2>1 DEF Unread
  <2> QED  BY <1>2, <2>2, <2>3, PartsAreNatural DEF Left
<1>4. CASE ~ReadLine
  <2>1. Unread' = Unread
    BY <1>1, <1>4
       DEF RunJob, Probe, Spawn, SpawnFails, Report, EndOfLines, Wait, Join, LosePipe,
           Step, Transcoding, Unread
  <2>2. \/ at = "report" /\ at' = "read"
        \/ at = "read" /\ at' = "wait"
        \/ at = "wait" /\ at' \in {"join", "retryable"}
        \/ at = "join" /\ at' \in {"done", "terminal"}
    BY <1>4
       DEF RunJob, Probe, Spawn, SpawnFails, Report, EndOfLines, Wait, Join, LosePipe,
           Step, Transcoding
  <2>3. Awaits' < Awaits /\ Awaits' \in Nat
    BY <2>2 DEF Awaits
  <2> QED  BY <1>2, <2>1, <2>3, PartsAreNatural DEF Left
<1> QED  BY <1>3, <1>4

LEMMA LeftDrain ==
    ASSUME PipeInv, TypeInv, PipeInv', TypeInv', Drain \/ DrainFails
    PROVE  Left' < Left
<1>1. UNCHANGED <<at, encoder, stdout>> /\ ~drain.over
  BY DEF Drain, DrainFails, workerVars, encoderVars
<1>2. Awaits' = Awaits /\ Running' = Running /\ Unsaid' = Unsaid /\ Listening = 1
  BY <1>1 DEF Awaits, Running, Alive, Unsaid, Listening
<1>3. stderr \in Nat /\ Len(stdout) \in Nat
  BY DEF PipeInv, Amounts, TypeInv, Lines
<1>4. CASE Drain /\ ReadErrors
  <2>1. stderr' < stderr /\ stderr' \in Nat
    BY <1>3, <1>4 DEF ReadErrors
  <2>2. Unread' < Unread /\ Unread' \in Nat
    BY <1>1, <1>3, <2>1 DEF Unread
  <2>3. Listening' = 1
    BY <1>1, <1>4 DEF ReadErrors, Listening, PipeInv, Amounts
  <2> QED  BY <1>2, <2>2, <2>3, PartsAreNatural DEF Left
<1>5. CASE (Drain /\ EndOfErrors) \/ DrainFails
  <2>1. stderr' = 0 /\ drain'.over
    <3>1. CASE EndOfErrors
      BY <3>1 DEF EndOfErrors, PipeInv, Amounts
    <3>2. CASE DrainFails
      BY <3>2 DEF DrainFails
    <3> QED  BY <1>5, <3>1, <3>2
  <2>2. Unread' <= Unread /\ Unread' \in Nat /\ Listening' = 0
    BY <1>1, <1>3, <2>1 DEF Unread, Listening
  <2> QED  BY <1>2, <2>2, PartsAreNatural DEF Left
<1> QED  BY <1>4, <1>5 DEF Drain

(***************************************************************************)
(* Each step of a transcode leaves less to do, and what is left is never   *)
(* below nothing: with NobodyIsStuck, all of TranscodeEnds but the         *)
(* fairness (transcode's loop over the lines, its wait and its join).      *)
(***************************************************************************)
THEOREM LeftOnlyShrinks == Spec => LeftShrinks
<1>1. PipeInv /\ TypeInv /\ [Next]_vars
        => [(at \in Transcoding /\ at' # "probe") => Left' < Left]_<<at, encoder, stdout, stderr, drain>>
  <2> SUFFICES ASSUME PipeInv, TypeInv, [Next]_vars, at \in Transcoding, at' # "probe",
                      ~UNCHANGED <<at, encoder, stdout, stderr, drain>>
               PROVE  Left' < Left
    OBVIOUS
  <2>1. PipeInv' /\ TypeInv'
    BY PipeNext, TypeNext
  <2>2. ~(Kill \/ NextAttempt)
    BY DEF Kill, NextAttempt, Fresh
  <2>3. ~ExpireKey /\ ~UNCHANGED vars
    BY DEF ExpireKey, vars, workerVars, encoderVars
  <2> QED  BY <2>1, <2>2, <2>3, LeftFfmpeg, LeftWorker, LeftDrain DEF Next
<1> QED  BY <1>1, PipeInit, PipeNext, TypeInit, TypeNext, PTL DEF Spec, LeftShrinks

(***************************************************************************)
(* What is left to do is a natural number throughout (the lines, the       *)
(* pieces of stderr and the turns a transcode is made of).                 *)
(***************************************************************************)
THEOREM LeftIsNatural == Spec => [](Left \in Nat)
<1>1. PipeInv /\ TypeInv => Left \in Nat
  BY PartsAreNatural DEF Left
<1> QED
  BY <1>1, PipeInit, PipeNext, TypeInit, TypeNext, PTL DEF Spec
=============================================================================
