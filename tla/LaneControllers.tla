-------------------------- MODULE LaneControllers --------------------------
(***************************************************************************)
(* The decisions of src/ojcoms_poc/controllers.py and agent_runtime.py as  *)
(* functions of what is seen of a junction: halted vehicles and longest    *)
(* waits by lane, the green phase and how long it has lasted.              *)
(***************************************************************************)
EXTENDS Integers, FiniteSets

CONSTANTS
  PhaseLanes,        \* phase (an index from 0) -> lanes it lets in
  PhaseOutLanes,     \* phase -> lanes those lead to
  MinimumHold,       \* minimum_hold_s of the coordinated controller
  SwitchMargin,      \* its switch_margin
  MaxApproachWait    \* max_approach_wait_s

Phases == DOMAIN PhaseLanes
InLanes == UNION {PhaseLanes[k] : k \in Phases}
OutLanes == UNION {PhaseOutLanes[k] : k \in Phases}

(* Vehicles halted in some lanes, each a lane and its place in the queue.  *)
Halted(queues, lanes) == Cardinality(UNION {{l} \X (1 .. queues[l]) : l \in lanes})
Waves(queues) == [k \in Phases |-> Halted(queues, PhaseLanes[k])]
Pressures(queues) ==
  [k \in Phases |-> Halted(queues, PhaseLanes[k]) - Halted(queues, PhaseOutLanes[k])]

(* np.argmax, and max over the indices: the first of the largest.          *)
Best(scores, among) ==
  CHOOSE k \in among : \A j \in among :
    scores[j] < scores[k] \/ (scores[j] = scores[k] /\ k <= j)

LocalMaxWave(queues, current) ==
  LET waves == Waves(queues)
      best == Best(waves, Phases)
  IN IF waves[current] >= waves[best] THEN current ELSE best

CoordinatedMaxPressure(queues, current, elapsed) ==
  LET pressures == Pressures(queues)
      best == Best(pressures, Phases)
  IN IF elapsed < MinimumHold \/ pressures[best] - pressures[current] <= SwitchMargin
     THEN current ELSE best

(* A score of minus infinity for one phase: any other one, if there is one.*)
BestBut(waves, barred) ==
  IF Phases = {barred} THEN barred ELSE Best(waves, Phases \ {barred})

ForcedAlternative(queues, current) == BestBut(Waves(queues), current)

(* supervised_target: where an intent leads.                               *)
SupervisedTarget(name, strength, queues, current, elapsed, emergency) ==
  LET coordinated == CoordinatedMaxPressure(queues, current, elapsed)
  IN CASE strength = 0 \/ name \in {"keep_local_plan", "request_fallback"} ->
            LocalMaxWave(queues, current)
       [] strength > 0 /\ name \in {"bias_corridor", "coordinate_offset"} -> coordinated
       [] strength > 0 /\ name = "emergency_priority" ->
            IF emergency \in Phases THEN emergency ELSE coordinated
       [] strength > 0 /\ name = "bias_cross_street" ->
            BestBut(Waves(queues), coordinated)

-----------------------------------------------------------------------------
(* Mutant of Longest: max over the dictionary without its key function.    *)
LongestByName(waits) == DOMAIN waits

(* fairness_override.  Of several lanes that have waited equally long the  *)
(* first in a dictionary filled from a set of strings is taken: any one.   *)
Longest(waits) ==
  {l \in DOMAIN waits : \A m \in DOMAIN waits : waits[m] <= waits[l]}

FirstServing(lane) == Best([k \in Phases |-> 0], {k \in Phases : lane \in PhaseLanes[k]})

(* No override when the lane has not waited long enough, and none when it  *)
(* is a lane vehicles leave by.                                            *)
Overdue(lane, waits) == waits[lane] >= MaxApproachWait /\ lane \in InLanes
=============================================================================
