-------------------------------- MODULE Speed --------------------------------
(***************************************************************************)
(* The grid of playback speeds (speed.ts) and the way of a speed into a    *)
(* link and back (speedRateParam, speedStepFromRate).  A speed is a number *)
(* of steps of 2.5% either side of 100%; a rate, as a link carries it, is  *)
(* in ten-thousandths, so that every step is a whole number of them.       *)
(***************************************************************************)
EXTENDS Integers

CONSTANTS
    MinStep, MaxStep,   \* MIN_SPEED_STEP, MAX_SPEED_STEP
    NoSpeed             \* a link that names no usable speed

ASSUME GridAssumption == MinStep \in Int /\ MaxStep \in Int /\ MinStep <= 0 /\ 0 <= MaxStep
ASSUME NoSpeedAssumption == NoSpeed \notin Int

Steps == MinStep..MaxStep

Clamp(step) ==
    IF step < MinStep THEN MinStep ELSE IF step > MaxStep THEN MaxStep ELSE step

\* speedRateParam
Rate(step) == 10000 + 250 * step

\* "set well inside" what plays at all
ASSUME SlowestAssumption == Rate(MinStep) > 0

\* Math.round(x / 250).  x is computed in binary first, which tips some ties
\* (1.0875, 1.2125) down and leaves the others up: either neighbour will do.
Rounded(x) == {n \in {x \div 250, x \div 250 + 1} : x - 125 <= 250 * n /\ 250 * n <= x + 125}

\* speedStepFromRate
StepsFromRate(rate) ==
    IF rate <= 0 THEN {NoSpeed} ELSE {Clamp(n) : n \in Rounded(rate - 10000)}
=============================================================================
