-------------------------- MODULE JunctionControl --------------------------
(***************************************************************************)
(* One junction in a closed loop with its traffic, under every arm of      *)
(* src/ojcoms_poc/runner.py that controls signals: the deterministic       *)
(* controllers, any intents of a language model, and the controller in the *)
(* cloud, whose actions the network loses, delays and reorders.            *)
(*                                                                         *)
(* Each simulated second the loop reports to the cloud, takes a control    *)
(* step if one is due, hands the executor the cloud actions that arrived,  *)
(* and lets the simulator and the executor of SignalExecutor run a second. *)
(* The traffic is the simulator's and may do anything: a lane that is lit  *)
(* may move, move in part, or be closed or blocked ahead and stand.        *)
(***************************************************************************)
EXTENDS SignalExecutor, Integers, SequencesExt, FiniteSets

CONSTANTS
  Arms,              \* bound: the controllers under which the junction is run
  InLane, OutLane,   \* link -> lane it comes from, lane it leads to
  ControlInterval,   \* control_interval_s
  MinimumHold, SwitchMargin,
  MaxApproachWait,   \* max_approach_wait_s
  MaxGreen,          \* max_green_s
  Queue,             \* bound: vehicles that may be seen halted in a lane
  Behind,            \* bound: seconds the next vehicle of a lane has stood
  MaxDelay,          \* bound: seconds a cloud action is on its way
  MaxDisturbed       \* bound: disturbances of a behaviour

LitLinks(k) == {l \in Link : Shows(GreenState[k], l)}

INSTANCE LaneControllers WITH
  PhaseLanes <- [k \in Green |-> {InLane[l] : l \in LitLinks(k)}],
  PhaseOutLanes <- [k \in Green |-> {OutLane[l] : l \in LitLinks(k)}]

Arm == {"local_maxwave", "coordinated_maxpressure", "agentic", "cloud_maxpressure"}
IntentName == {"keep_local_plan", "bias_corridor", "bias_cross_street",
               "coordinate_offset", "emergency_priority", "request_fallback"}

ASSUME LoopAssumption ==
  /\ Arms \subseteq Arm
  /\ IsFiniteSet(Link) /\ IsFiniteSet(Green)
  /\ DOMAIN InLane = Link /\ DOMAIN OutLane = Link
  /\ InLanes = {InLane[l] : l \in Link} /\ InLanes \cap OutLanes = {}
  /\ ControlInterval \in Nat \ {0} /\ MaxDelay \in Nat \ {0}
  /\ MaxApproachWait \in Nat \ {0} /\ MaxGreen \in Nat /\ MaxGreen >= MinGreen
  /\ Queue \subseteq Nat /\ Behind \subseteq Nat /\ 0 \in Behind /\ MaxDisturbed \in Nat

VARIABLES
  arm,            \* controller_name of the run
  at,             \* where the loop stands in an iteration
  tick,           \* seconds since the last control step was due
  waits,          \* incoming lane -> longest getWaitingTime of its vehicles
  uplink,         \* what became of this second's report to the cloud
  pending_cloud,  \* cloud actions on their way, in the order they were sent
  disturbed       \* history: disturbances so far

loop == <<arm, at, tick, waits, uplink, pending_cloud, disturbed>>
junctionVars == <<vars, loop>>

(* A lane's turn: it is asked for, the junction clears and the minimum     *)
(* green passes before the next control step that may ask for another.     *)
Intervals(seconds) == ((seconds + ControlInterval - 1) \div ControlInterval) * ControlInterval
Turn == Intervals(Clearance + MinGreen)
WaitLimit == MaxApproachWait + (Cardinality(InLanes) + disturbed) * Turn
WaitHorizon == MaxApproachWait + (Cardinality(InLanes) + MaxDisturbed + 1) * Turn

(* Seconds an action of the arm may be on its way to the junction.         *)
Transit == IF arm = "cloud_maxpressure" THEN MaxDelay ELSE 0

Begin == IF arm = "cloud_maxpressure" THEN "report" ELSE "control"

JunctionInit ==
  /\ Init
  /\ arm \in Arms
  /\ at = Begin /\ tick = 0
  /\ waits = [l \in InLanes |-> 0]
  /\ uplink = "none" /\ pending_cloud = <<>>
  /\ disturbed = 0

-----------------------------------------------------------------------------
(* The raw state of the cloud arm goes through the emulated network every  *)
(* second; nothing waits for it.                                           *)
Report ==
  /\ at = "report"
  /\ uplink' \in {"sent", "lost"}
  /\ at' = "control"
  /\ UNCHANGED <<vars, arm, tick, waits, pending_cloud, disturbed>>

(* No control step is due, or the executor is in a transition.             *)
NoControl ==
  /\ at = "control"
  /\ tick # 0 \/ transitioning
  /\ at' = IF arm = "cloud_maxpressure" THEN "arrival" ELSE "second"
  /\ UNCHANGED <<vars, arm, tick, waits, uplink, pending_cloud, disturbed>>

(* What _observe sees of the waits: all of them, or, disturbed, none from  *)
(* the lanes whose detectors are out, or one of a vehicle that has waited  *)
(* longer in a lane leading away.                                          *)
Blind(missing) == [l \in InLanes |-> IF l \in missing THEN 0 ELSE waits[l]]
Seen(outgoing) ==
  [l \in InLanes \cup OutLanes |->
     IF l \in InLanes THEN waits[l] ELSE IF l \in outgoing THEN WaitHorizon ELSE 0]

(* The lanes that are lit, and have been for the minimum green, but are    *)
(* overdue all the same: a long queue, a closed lane, no room ahead.  The  *)
(* override may spend the control step on them, or give their turn away.   *)
Served(k) == {InLane[l] : l \in LitLinks(k)}
Stuck ==
  {l \in Served(current_green) :
     /\ ~transitioning /\ phase_elapsed_s > 0 /\ phase_elapsed_s >= MinGreen
     /\ waits[l] >= MaxApproachWait}

(* The target is asked of the executor, or sent to it through the network, *)
(* where it may be lost, another disturbance.                              *)
Issue(target, disturbances) ==
  /\ \/ /\ arm # "cloud_maxpressure"
        /\ Request(target) \/ (~Accepts(target) /\ UNCHANGED vars)
        /\ disturbed' = disturbed + disturbances
        /\ UNCHANGED pending_cloud
     \/ /\ arm = "cloud_maxpressure"
        /\ \E delay \in 1 .. MaxDelay :
             pending_cloud' = Append(pending_cloud, [due |-> delay, target |-> target])
        /\ disturbed' = disturbed + disturbances
        /\ UNCHANGED vars
     \/ /\ arm = "cloud_maxpressure"
        /\ disturbed' = disturbed + disturbances + 1
        /\ UNCHANGED <<vars, pending_cloud>>
  /\ disturbed' <= MaxDisturbed
  /\ at' = IF arm = "cloud_maxpressure" THEN "arrival" ELSE "second"
  /\ UNCHANGED <<arm, tick, waits, uplink>>

(* The decisions for every reading of the queues: with noisy and missing   *)
(* detectors they need not be those of the vehicles that wait.             *)
Readings == [InLanes \cup OutLanes -> Queue]
LocalTargets == [k \in Green |-> {LocalMaxWave(queues, k) : queues \in Readings}]
OtherTargets == [k \in Green |-> {ForcedAlternative(queues, k) : queues \in Readings}]
Held == {0, MinimumHold}
CoordinatedTargets ==
  [k \in Green |-> [elapsed \in Held |->
     {CoordinatedMaxPressure(queues, k, elapsed) : queues \in Readings}]]
IntentTargets ==
  [k \in Green |-> [elapsed \in Held |->
     {SupervisedTarget(name, strength, queues, k, elapsed, emergency) :
        name \in IntentName, strength \in 0 .. 1, queues \in Readings,
        emergency \in Green \cup {None}}]]
held_s == IF phase_elapsed_s < MinimumHold THEN 0 ELSE MinimumHold

Planned ==
  CASE arm = "local_maxwave" -> LocalTargets[current_green]
    [] arm = "agentic" -> LocalTargets[current_green] \cup
                          IntentTargets[current_green][held_s]
    [] OTHER -> CoordinatedTargets[current_green][held_s]

(* Mutant of Plan: the maximum green is compared with >.                   *)
PlanLate(observed, disturbances) ==
  \E lane \in Longest(observed) :
    IF Overdue(lane, observed) THEN Issue(FirstServing(lane), disturbances)
    ELSE IF phase_elapsed_s > MaxGreen
         THEN \E target \in OtherTargets[current_green] :
                Issue(target, disturbances)
         ELSE \E target \in Planned : Issue(target, disturbances)

(* One control step: the fairness override, then the maximum green, then   *)
(* the plan of the arm.                                                    *)
Plan(observed, disturbances) ==
  \E lane \in Longest(observed) :
    \/ /\ Overdue(lane, observed)
       /\ Issue(FirstServing(lane), disturbances)
    \/ /\ ~Overdue(lane, observed) /\ phase_elapsed_s >= MaxGreen
       /\ \E target \in OtherTargets[current_green] :
            Issue(target, disturbances)
    \/ /\ ~Overdue(lane, observed) /\ phase_elapsed_s < MaxGreen
       /\ \E target \in Planned : Issue(target, disturbances)

Decides == at = "control" /\ tick = 0 /\ ~transitioning

Control == Decides /\ Plan(Seen({}), Cardinality(Stuck))

ControlBlind ==
  /\ Decides
  /\ \E missing \in SUBSET InLanes \ {{}} : Plan(Blind(missing), Cardinality(Stuck) + 1)

ControlMasked ==
  /\ Decides
  /\ \E outgoing \in SUBSET OutLanes \ {{}} : Plan(Seen(outgoing), Cardinality(Stuck) + 1)

-----------------------------------------------------------------------------
Due == {i \in DOMAIN pending_cloud : pending_cloud[i].due <= 0}

(* The cloud actions that arrived are asked for in the order of the list,  *)
(* whatever their age.                                                     *)
Arrive ==
  /\ at = "arrival" /\ Due # {}
  /\ LET first == CHOOSE i \in Due : \A j \in Due : i <= j
         target == pending_cloud[first].target
     IN /\ Request(target) \/ (~Accepts(target) /\ UNCHANGED vars)
        /\ pending_cloud' = RemoveAt(pending_cloud, first)
  /\ UNCHANGED <<arm, at, tick, waits, uplink, disturbed>>

NoneArrived ==
  /\ at = "arrival" /\ Due = {}
  /\ at' = "second"
  /\ UNCHANGED <<vars, arm, tick, waits, uplink, pending_cloud, disturbed>>

(* The longest wait of every lane, a second later, under any lights: the   *)
(* vehicle stands on (or the first one stops), or it moved and the next    *)
(* one has stood no longer.                                                *)
WaitsAfter(standing, behind) ==
  [l \in InLanes |-> IF l \in standing THEN UpTo(WaitHorizon, waits[l] + 1)
                     ELSE UpTo(waits[l], behind[l])]
Traffic ==
  \E standing \in SUBSET InLanes : \E behind \in [InLanes \ standing -> Behind] :
    waits' = WaitsAfter(standing, behind)

(* Mutant of Second: the control interval does not start anew.             *)
SecondOnly ==
  /\ at = "second"
  /\ Step /\ Traffic
  /\ Cardinality(Stuck') <= MaxDisturbed - disturbed
  /\ pending_cloud' =
       [i \in DOMAIN pending_cloud |-> [pending_cloud[i] EXCEPT !.due = @ - 1]]
  /\ tick' = tick + 1
  /\ uplink' = "none"
  /\ at' = Begin
  /\ UNCHANGED <<arm, disturbed>>

Second ==
  /\ at = "second"
  /\ Step /\ Traffic
  /\ Cardinality(Stuck') <= MaxDisturbed - disturbed
  /\ pending_cloud' =
       [i \in DOMAIN pending_cloud |-> [pending_cloud[i] EXCEPT !.due = @ - 1]]
  /\ tick' = (tick + 1) % ControlInterval
  /\ uplink' = "none"
  /\ at' = Begin
  /\ UNCHANGED <<arm, disturbed>>

JunctionNext ==
  \/ Report
  \/ NoControl \/ Control \/ ControlBlind \/ ControlMasked
  \/ Arrive \/ NoneArrived
  \/ Second

JunctionSpec == JunctionInit /\ [][JunctionNext]_junctionVars

(* The loop never waits. *)
JunctionFairSpec == JunctionSpec /\ WF_junctionVars(JunctionNext)

-----------------------------------------------------------------------------
(* Properties. *)

(* Type invariant; every cloud action is still to arrive, and only the     *)
(* cloud arm has any.                                                      *)
JunctionTypeOK ==
  /\ TypeOK
  /\ arm \in Arm /\ at \in {"report", "control", "arrival", "second"}
  /\ tick \in 0 .. ControlInterval - 1
  /\ waits \in [InLanes -> 0 .. WaitHorizon]
  /\ uplink \in {"none", "sent", "lost"}
  /\ \A i \in DOMAIN pending_cloud :
       pending_cloud[i].due \in 0 .. MaxDelay /\ pending_cloud[i].target \in Green
  /\ pending_cloud # <<>> => arm = "cloud_maxpressure"
  /\ disturbed \in 0 .. MaxDisturbed

(* fairness_override gives every approach its turn: under an arm that      *)
(* decides at the junction, whatever the traffic, the intents, the queues  *)
(* read and the ties broken, no vehicle waits longer than the limit and a  *)
(* turn for every lane, every disturbance and every time a control step    *)
(* found a lane overdue that was lit: that lane did not use its turn, and  *)
(* the override, which does not look at the lights, may grant it another.  *)
WaitBounded ==
  arm # "cloud_maxpressure" => \A l \in InLanes : waits[l] <= WaitLimit

(* The maximum green ends a green at the next control step, whose action   *)
(* may be on its way to a junction for Transit seconds.  Only a disturbed  *)
(* control step, or one that finds a lit lane overdue, for which the       *)
(* override may keep the phase, lets it last another interval.             *)
GreenEnds ==
  stage = "green" =>
    phase_elapsed_s < MaxGreen + ControlInterval + Transit + disturbed * ControlInterval

(* "Passes observations and actions through the emulated WAN to represent  *)
(* cloud-dependent control." (docs/EXPERIMENT_DESIGN.md:42): a decision of *)
(* the cloud is taken in a second whose observation reached it.            *)
CloudDecidesOnReports ==
  [][Len(pending_cloud') > Len(pending_cloud) => uplink # "lost"]_loop
=============================================================================
