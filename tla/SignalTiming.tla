---------------------------- MODULE SignalTiming ----------------------------
(***************************************************************************)
(* What a safe executor promises of one traffic light, without colours,    *)
(* stages or countdowns: the light is either in one of its green phases or *)
(* clearing the junction for the next one.  A green phase lasts at least   *)
(* MinGreen seconds, and the clearance between two of them exactly         *)
(* Clearance seconds, whoever asks for what and however often.             *)
(***************************************************************************)
EXTENDS Naturals

CONSTANTS
  Green,       \* the green phases
  MinGreen,    \* seconds a green phase lasts at least
  Clearance,   \* seconds between two green phases
  Horizon      \* bound: a green phase is timed up to Horizon seconds

VARIABLES
  clearing,    \* TRUE while no phase is green
  phase,       \* the green phase, or the one the clearance leads to
  seconds      \* how long the phase, or the clearance, has lasted

timingVars == <<clearing, phase, seconds>>

TimingInit == clearing = FALSE /\ phase \in Green /\ seconds = 0

(* A second passes in a green phase. *)
Stay == /\ ~clearing
        /\ seconds' = IF seconds < Horizon THEN seconds + 1 ELSE seconds
        /\ UNCHANGED <<clearing, phase>>

(* The phase ends for another one. *)
Leave(k) == /\ ~clearing
            /\ seconds >= MinGreen
            /\ k # phase
            /\ clearing' = TRUE
            /\ phase' = k
            /\ seconds' = 0

(* A second of clearance passes, the last one brings the next phase. *)
Clear == /\ clearing
         /\ IF seconds + 1 < Clearance
            THEN seconds' = seconds + 1 /\ UNCHANGED <<clearing, phase>>
            ELSE seconds' = 0 /\ clearing' = FALSE /\ UNCHANGED phase

TimingNext == Stay \/ Clear \/ \E k \in Green : Leave(k)

TimingSpec == TimingInit /\ [][TimingNext]_timingVars
=============================================================================
