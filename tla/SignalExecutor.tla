--------------------------- MODULE SignalExecutor ---------------------------
(***************************************************************************)
(* The local signal executor of src/ojcoms_poc/signals.py: one traffic     *)
(* light of the simulator, which any controller may ask for a green phase  *)
(* and which inserts yellow and all-red between two greens by itself.      *)
(*                                                                         *)
(* One Step is one simulated second: the simulator moves the traffic under *)
(* the lights shown, then the executor counts the second.  Between two     *)
(* Steps any number of requests may arrive: at most one from a local       *)
(* controller, several from a remote one whose messages were delayed.      *)
(***************************************************************************)
EXTENDS Naturals

CONSTANTS
  Link,          \* links of the junction, each with a light of its own
  GreenState,    \* green phase (an index from 0) -> link -> colour
  Yellow,        \* yellow_s
  AllRed,        \* all_red_s
  MinGreen,      \* min_green_s
  Horizon,       \* bound: phase_elapsed_s is counted up to Horizon
  None           \* no pending phase

Green == DOMAIN GreenState
Lit == {"G", "g"}
Dark == {"r", "s"}
Colour == Lit \cup Dark \cup {"y"}

(* from_traci keeps the phases without yellow that are not all red.        *)
ASSUME PlanAssumption ==
  /\ 0 \in Green /\ Green \subseteq Nat
  /\ GreenState \in [Green -> [Link -> Lit \cup Dark]]
  /\ \A k \in Green : \E l \in Link : GreenState[k][l] \in Lit
  /\ None \notin Green

ASSUME TimingAssumption ==
  /\ Yellow \in Nat /\ AllRed \in Nat /\ MinGreen \in Nat /\ Horizon \in Nat
  /\ MinGreen <= Horizon

VARIABLES
  current_green,      \* the green phase shown, or the one being left
  phase_elapsed_s,    \* seconds since it began, counted up to Horizon
  pending_green,      \* the phase a transition leads to
  stage,              \* "green", "yellow" or "all_red"
  stage_remaining_s,  \* seconds left of a yellow or all-red stage
  lights,             \* link -> colour the simulator shows
  dark_s,             \* history: link -> seconds since it was last lit
  lit_s               \* history: link -> seconds it has been lit

control == <<current_green, phase_elapsed_s, pending_green, stage, stage_remaining_s>>
vars == <<control, lights, dark_s, lit_s>>

Shows(colours, l) == colours[l] \in Lit
Conflict(l, m) == ~ \E k \in Green : Shows(GreenState[k], l) /\ Shows(GreenState[k], m)

(* A yellow stage without seconds still lasts the second it is counted in. *)
Clearance == (IF Yellow = 0 THEN 1 ELSE Yellow) + AllRed

(* Mutant of YellowState: the other lights already show the target. *)
YellowStateAhead(current, target) ==
  [l \in Link |-> IF current[l] \in Lit /\ target[l] \in Dark THEN "y" ELSE target[l]]

(* create_yellow_state: a green that the target ends turns yellow, every   *)
(* other light stays as it is.                                             *)
YellowState(current, target) ==
  [l \in Link |-> IF current[l] \in Lit /\ target[l] \in Dark THEN "y" ELSE current[l]]

AllRedState == [l \in Link |-> "r"]

UpTo(bound, n) == IF n <= bound THEN n ELSE bound

-----------------------------------------------------------------------------
(* initialize(): a light found in a green phase keeps it, any other state  *)
(* is replaced by phase 0 at once.  The history starts with the run.       *)
Init ==
  /\ current_green \in Green
  /\ phase_elapsed_s = 0
  /\ pending_green = None
  /\ stage = "green"
  /\ stage_remaining_s = 0
  /\ lights = GreenState[current_green]
  /\ dark_s = [l \in Link |-> IF Shows(lights, l) THEN 0 ELSE Clearance]
  /\ lit_s = [l \in Link |-> 0]

transitioning == stage # "green"

(* Mutants of Accepts: without the minimum green, without the transition.  *)
AcceptsAnyTime(target) == stage = "green" /\ target # current_green
AcceptsInTransition(target) == target # current_green /\ phase_elapsed_s >= MinGreen

(* request(): ignored during a transition, for the phase already shown and *)
(* before the minimum green has passed.                                    *)
Accepts(target) ==
  /\ ~transitioning
  /\ target # current_green
  /\ phase_elapsed_s >= MinGreen

Request(target) ==
  /\ Accepts(target)
  /\ pending_green' = target
  /\ stage' = "yellow"
  /\ stage_remaining_s' = Yellow
  /\ lights' = YellowState(GreenState[current_green], GreenState[target])
  /\ UNCHANGED <<current_green, phase_elapsed_s, dark_s, lit_s>>

-----------------------------------------------------------------------------
(* step(), after the simulator ran one second under the lights shown.      *)

SecondPasses ==
  /\ dark_s' = [l \in Link |-> IF Shows(lights, l) THEN 0
                               ELSE UpTo(Clearance, dark_s[l] + 1)]
  /\ lit_s' = [l \in Link |-> IF Shows(lights, l) THEN UpTo(Horizon, lit_s[l] + 1)
                              ELSE 0]

StepGreen ==
  /\ stage = "green"
  /\ phase_elapsed_s' = UpTo(Horizon, phase_elapsed_s + 1)
  /\ UNCHANGED <<current_green, pending_green, stage, stage_remaining_s, lights>>

(* Mutant of StepWaits: the countdown is never compared with its end.      *)
StepWaitsOn ==
  /\ transitioning
  /\ stage_remaining_s' = stage_remaining_s - 1
  /\ UNCHANGED <<current_green, phase_elapsed_s, pending_green, stage, lights>>

StepWaits ==
  /\ transitioning
  /\ stage_remaining_s > 1
  /\ stage_remaining_s' = stage_remaining_s - 1
  /\ UNCHANGED <<current_green, phase_elapsed_s, pending_green, stage, lights>>

StepToAllRed ==
  /\ stage = "yellow" /\ AllRed > 0
  /\ stage_remaining_s <= 1
  /\ stage' = "all_red"
  /\ stage_remaining_s' = AllRed
  /\ lights' = AllRedState
  /\ UNCHANGED <<current_green, phase_elapsed_s, pending_green>>

StepToGreen ==
  /\ stage = "all_red" \/ (stage = "yellow" /\ AllRed = 0)
  /\ stage_remaining_s <= 1
  /\ current_green' = pending_green
  /\ pending_green' = None
  /\ stage' = "green"
  /\ stage_remaining_s' = 0
  /\ phase_elapsed_s' = 0
  /\ lights' = GreenState[pending_green]

Step == SecondPasses /\ (StepGreen \/ StepWaits \/ StepToAllRed \/ StepToGreen)

Next == Step \/ \E target \in Green : Request(target)

Spec == Init /\ [][Next]_vars

(* The control loop of the runner counts every simulated second.           *)
FairSpec == Spec /\ WF_vars(Step)

-----------------------------------------------------------------------------
(* Properties. *)

TypeOK ==
  /\ current_green \in Green
  /\ phase_elapsed_s \in 0 .. Horizon
  /\ pending_green \in Green \cup {None}
  /\ stage \in {"green", "yellow", "all_red"}
  /\ stage_remaining_s \in Nat
  /\ lights \in [Link -> Colour]
  /\ dark_s \in [Link -> 0 .. Clearance]
  /\ lit_s \in [Link -> 0 .. Horizon]

(* While a link is lit, every link that no green phase lights together     *)
(* with it has been dark for the whole clearance time.                     *)
ConflictsCleared ==
  \A l, m \in Link :
    Shows(lights, l) /\ Conflict(l, m) => ~Shows(lights, m) /\ dark_s[m] >= Clearance

(* A green light is never taken away before the minimum green has passed.  *)
GreenNotCutShort ==
  [][\A l \in Link : Shows(lights, l) /\ ~Shows(lights', l) => lit_s[l] >= MinGreen]_lights

(* A light that turns from green to dark shows yellow in between.          *)
YellowBeforeRed ==
  [][\A l \in Link : Shows(lights, l) => lights'[l] \notin Dark]_lights

(* A transition that began ends in the phase it was begun for.             *)
TransitionEnds ==
  \A k \in Green : pending_green = k ~> (stage = "green" /\ current_green = k)

(* The executor implements the promised timing: greens of at least         *)
(* MinGreen seconds and clearances of exactly Clearance seconds.           *)
ClearedSeconds ==
  IF stage = "yellow" THEN (IF Yellow = 0 THEN 0 ELSE Yellow - stage_remaining_s)
                      ELSE Clearance - stage_remaining_s
Timing == INSTANCE SignalTiming WITH
  clearing <- transitioning,
  phase <- IF transitioning THEN pending_green ELSE current_green,
  seconds <- IF transitioning THEN ClearedSeconds ELSE phase_elapsed_s
ImplementsTiming == Timing!TimingSpec
=============================================================================
