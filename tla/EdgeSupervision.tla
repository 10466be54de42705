-------------------------- MODULE EdgeSupervision --------------------------
(***************************************************************************)
(* The control loop of src/ojcoms_poc/runner.py in its agentic arms: every *)
(* simulated second the loop may ask the language model for an intent,     *)
(* takes the intents that have arrived, lets the policy shield decide on   *)
(* them, and lets an accepted intent, or the local controller, ask the     *)
(* signal executor of SignalExecutor for a green phase.                    *)
(*                                                                         *)
(* The junctions of a run are controlled independently of each other and   *)
(* one response carries one intent for each, so the model has one junction.*)
(* Queue lengths, occupancies and peers appear as what the loop decides on;*)
(* the phase a controller prefers is any phase.  Between request and       *)
(* arrival the network and the provider may lose, spoil, delay and reorder *)
(* responses.                                                              *)
(***************************************************************************)
EXTENDS SignalExecutor, FiniteSets

CONSTANTS
  Governed,           \* FALSE in the arm agentic_unguarded
  Pilot,              \* TRUE when the budget phase is pilot
  ControlInterval,    \* control_interval_s
  SupervisorInterval, \* supervisor_interval_s
  EventTimes,         \* times of the scenario's events, from the start of the run
  RateLimit,          \* event_rate_limit_s
  MaxAge,             \* max_intent_age_s
  MaxValid,           \* max_intent_duration_s
  MaxGreen,           \* max_green_s
  MinimumHold,        \* minimum_hold_s of the coordinated controller
  End,                \* end_s, from the start of the run
  MaxDelay,           \* bound: seconds from a request to its response's arrival
  Intent,             \* the intents the model may answer
  Observation         \* what the loop may observe of the junction

Passive == {"keep_local_plan", "request_fallback"}
Corridor == {"bias_corridor", "coordinate_offset"}
IntentName == Passive \cup Corridor \cup {"bias_cross_street", "emergency_priority"}

ASSUME LoopAssumption ==
  /\ Governed \in BOOLEAN /\ Pilot \in BOOLEAN
  /\ ControlInterval \in Nat \ {0} /\ SupervisorInterval \in Nat \ {0}
  /\ EventTimes \subseteq Nat /\ RateLimit \in Nat
  /\ MaxAge \in Nat /\ MaxValid \in Nat /\ MaxGreen \in Nat /\ MinimumHold \in Nat
  /\ End \in Nat /\ MaxDelay \in Nat

ASSUME InputAssumption ==
  /\ Intent \subseteq [name : IntentName, strength : 0 .. 3, valid_for_s : Nat,
                       duration_s : Nat, asks_neighbor : BOOLEAN]
  /\ Observation \subseteq
       [overdue : Green \cup {None},    \* fairness_override: phase of the lane
        waits : BOOLEAN,                \* ... waiting longest, if over the limit
        blocked : BOOLEAN,              \* downstream_blocked
        emergency : Green \cup {None},  \* emergency_phase
        complete : BOOLEAN,             \* sensor_complete
        bad_peer : BOOLEAN]             \* a peer is untrusted, stale or replayed
  /\ \A o \in Observation : o.overdue # None => o.waits
  /\ None \notin Observation

Response == [due : Nat, observed : Nat, intent : Intent]
ActiveIntent == [intent : Intent, observed : Nat, expires : Nat]
PolicyRow == [at : Nat, observed : Nat, fallback : BOOLEAN]

ASSUME NoRowAssumption == None \notin ActiveIntent \cup PolicyRow \cup Nat

(* As configured: an intent too old to be used is out of the way before    *)
(* a third control step, and a green that is due to end may end.           *)
ASSUME ConfiguredAssumption ==
  /\ MaxAge < 3 * ControlInterval
  /\ MinGreen <= MaxGreen
  /\ MaxGreen + ControlInterval <= Horizon

VARIABLES
  at,            \* where the loop stands in an iteration
  now,           \* simulated seconds since the start of the run
  seen,          \* the observation of this iteration
  last_request,  \* last_agent_request_s
  pending,       \* pending_agentic: responses on their way
  active,        \* the active intent and when it expires
  policy,        \* last row of policy_decisions.jsonl
  decision,      \* last row of decisions.jsonl: reason and target
  tally          \* counters of requests and of what became of them

loop == <<at, now, seen>>
agent == <<last_request, pending, active, policy>>
runVars == <<vars, loop, agent, decision, tally>>

(* api_calls, what became of each request, and, as history, the requests. *)
Counter == {"requests", "calls", "unavailable", "stale", "decided", "policy_fallback"}
Count(what) ==
  tally' = [c \in Counter |-> IF c \in what THEN tally[c] + 1 ELSE tally[c]]

RunInit ==
  /\ Init
  /\ at = "observe" /\ now = 0 /\ seen = None
  /\ last_request = None /\ pending = {} /\ active = None /\ policy = None
  /\ decision = [reason |-> "none", target |-> current_green]
  /\ tally = [c \in Counter |-> 0]

-----------------------------------------------------------------------------
(* The top of an iteration: the junction is observed every control         *)
(* interval, in the other seconds only the traffic moves.                  *)

(* Mutant of Observe: in every second. *)
ObserveEverySecond ==
  /\ at = "observe" /\ now < End
  /\ seen' \in Observation
  /\ at' = "request"
  /\ UNCHANGED <<vars, now, agent, decision, tally>>

Observe ==
  /\ at = "observe" /\ now < End
  /\ now % ControlInterval = 0
  /\ seen' \in Observation
  /\ at' = "request"
  /\ UNCHANGED <<vars, now, agent, decision, tally>>

PassOver ==
  /\ at = "observe" /\ now < End
  /\ now % ControlInterval # 0
  /\ at' = "second"
  /\ UNCHANGED <<vars, now, seen, agent, decision, tally>>

Finish ==
  /\ at = "observe" /\ now >= End
  /\ at' = "done"
  /\ UNCHANGED <<vars, now, seen, agent, decision, tally>>

-----------------------------------------------------------------------------
(* Asking the model.  decide() blocks the loop, not the simulated time:    *)
(* the seconds it took are added to the arrival of the response.           *)

ShouldRequest ==
  \/ now % SupervisorInterval = 0
  \/ now \in EventTimes /\ (last_request # None => now - last_request >= RateLimit)

NoRequest ==
  /\ at = "request" /\ ~ShouldRequest
  /\ at' = "deliver"
  /\ UNCHANGED <<vars, now, seen, agent, decision, tally>>

(* The request arrived, was answered, and the answer is on its way.        *)
RequestAnswered(intent, delay) ==
  /\ at = "request" /\ ShouldRequest
  /\ last_request' = now
  /\ pending' = pending \cup
       {[due |-> now + delay, observed |-> now, intent |-> intent]}
  /\ Count({"requests", "calls"})
  /\ at' = "deliver"
  /\ UNCHANGED <<vars, now, seen, active, policy, decision>>

(* The request or the response was lost, the response invalid, or every    *)
(* attempt failed; the last ends a pilot run that had no answer yet.       *)
RequestUnavailable ==
  /\ at = "request" /\ ShouldRequest
  /\ last_request' = now
  /\ \E answered \in {{}, {"calls"}} : Count({"requests", "unavailable"} \cup answered)
  /\ \/ at' = "deliver"
     \/ Pilot /\ tally'["calls"] = 0 /\ at' = "aborted"
  /\ UNCHANGED <<vars, now, seen, pending, active, policy, decision>>

(* BudgetExceeded, and every error decide() does not name, ends the run.   *)
RequestRaises ==
  /\ at = "request" /\ ShouldRequest
  /\ last_request' = now
  /\ Count({"requests"})
  /\ at' = "aborted"
  /\ UNCHANGED <<vars, now, seen, pending, active, policy, decision>>

-----------------------------------------------------------------------------
(* Taking the responses that have arrived, in the order of their requests. *)

Ready(m) == m \in pending /\ m.due <= now
Oldest(m) == Ready(m) /\ \A n \in pending : Ready(n) => m.observed <= n.observed

(* Mutant of Age: counted from the arrival. *)
AgeSinceArrival(m) == now - m.due
Age(m) == now - m.observed

(* PolicyShield.evaluate: the rules an intent breaks in the observed state.*)
(* The two rules on identities cannot be broken here: decide() refuses a   *)
(* response for other junctions.                                           *)
Flagged(i, o) ==
  \/ i.valid_for_s > MaxValid
  \/ i.duration_s > MaxGreen
  \/ i.name \notin Passive /\ (phase_elapsed_s < MinGreen \/ ~o.complete)
  \/ i.name \in Corridor /\ (o.waits \/ o.blocked)
  \/ i.name = "emergency_priority" /\ o.emergency = None
  \/ i.asks_neighbor /\ o.bad_peer

Fallback(i, o) == (Governed /\ Flagged(i, o)) \/ i.name = "request_fallback"

ValidFor(i) == UpTo(MaxValid, i.valid_for_s)

(* Mutant of DropStale: not counted. *)
DropStaleUncounted(m) ==
  /\ at = "deliver" /\ Oldest(m)
  /\ Age(m) > MaxAge
  /\ pending' = pending \ {m}
  /\ UNCHANGED <<vars, loop, last_request, active, policy, decision, tally>>

DropStale(m) ==
  /\ at = "deliver" /\ Oldest(m)
  /\ Age(m) > MaxAge
  /\ pending' = pending \ {m}
  /\ Count({"stale"})
  /\ UNCHANGED <<vars, loop, last_request, active, policy, decision>>

Decide(m) ==
  /\ at = "deliver" /\ Oldest(m)
  /\ Age(m) <= MaxAge
  /\ pending' = pending \ {m}
  /\ policy' = [at |-> now, observed |-> m.observed, fallback |-> Fallback(m.intent, seen)]
  /\ IF Fallback(m.intent, seen)
     THEN /\ Count({"decided", "policy_fallback"})
          /\ UNCHANGED active
     ELSE /\ Count({"decided"})
          /\ active' = [intent |-> m.intent, observed |-> m.observed,
                        expires |-> m.observed + ValidFor(m.intent)]
  /\ UNCHANGED <<vars, loop, last_request, decision>>

(* Mutant of AllDelivered: the loop waits for every response. *)
AllDeliveredAtLast ==
  /\ at = "deliver" /\ pending = {}
  /\ at' = "control"
  /\ UNCHANGED <<vars, now, seen, agent, decision, tally>>

AllDelivered ==
  /\ at = "deliver" /\ ~ \E m \in pending : Ready(m)
  /\ at' = "control"
  /\ UNCHANGED <<vars, now, seen, agent, decision, tally>>

-----------------------------------------------------------------------------
(* The control step. *)

Transition ==
  /\ at = "control" /\ transitioning
  /\ at' = "second"
  /\ UNCHANGED <<vars, now, seen, agent, decision, tally>>

(* Mutant of Ask: the lights are set without the executor. *)
AskLights(reason, target) ==
  /\ current_green' = target /\ lights' = GreenState[target]
  /\ UNCHANGED <<phase_elapsed_s, pending_green, stage, stage_remaining_s, dark_s, lit_s>>
  /\ decision' = [reason |-> reason, target |-> target]
  /\ at' = "second"
  /\ UNCHANGED <<now, seen, last_request, pending, policy, tally>>

(* executor.request(target) and the row of decisions.jsonl. *)
Ask(reason, target) ==
  /\ \/ Request(target)
     \/ ~Accepts(target) /\ UNCHANGED vars
  /\ decision' = [reason |-> reason, target |-> target]
  /\ at' = "second"
  /\ UNCHANGED <<now, seen, last_request, pending, policy, tally>>

(* Mutant of Overridden: without the maximum green. *)
OverriddenByFairness == seen.overdue # None
Overridden == seen.overdue # None \/ phase_elapsed_s >= MaxGreen

FairnessOverride ==
  /\ at = "control" /\ ~transitioning
  /\ seen.overdue # None
  /\ Ask("fairness_override", seen.overdue)
  /\ UNCHANGED active

(* forced_alternative: another phase, if there is one. *)
MaximumGreenOverride ==
  /\ at = "control" /\ ~transitioning
  /\ seen.overdue = None /\ phase_elapsed_s >= MaxGreen
  /\ \E target \in Green : /\ target = current_green => Green = {current_green}
                           /\ Ask("maximum_green_override", target)
  /\ UNCHANGED active

(* Mutant of Expired: only a missing intent. *)
ExpiredNever == active = None
Expired == active # None => active.expires < now

(* The local controller may prefer any phase. *)
LocalFallback ==
  /\ at = "control" /\ ~transitioning /\ ~Overridden
  /\ Expired
  /\ active' = None
  /\ \E target \in Green : Ask("local_fallback", target)

(* supervised_target: the phases an intent may lead to. *)
Coordinated == IF phase_elapsed_s < MinimumHold THEN {current_green} ELSE Green

Targets(i) ==
  IF i.name = "emergency_priority" /\ i.strength > 0 /\ seen.emergency # None
  THEN {seen.emergency}
  ELSE IF i.name \in Corridor \cup {"emergency_priority"} /\ i.strength > 0
  THEN Coordinated
  ELSE Green

Supervise ==
  /\ at = "control" /\ ~transitioning /\ ~Overridden
  /\ ~Expired
  /\ \E target \in Targets(active.intent) : Ask("supervised", target)
  /\ UNCHANGED active

(* simulationStep() and the executor's step(). *)
Second ==
  /\ at = "second"
  /\ Step
  /\ now' = now + 1
  /\ seen' = None
  /\ at' = "observe"
  /\ UNCHANGED <<agent, decision, tally>>

Ended == at \in {"done", "aborted"} /\ UNCHANGED runVars

Deliver == \E m \in pending : DropStale(m) \/ Decide(m)
AskModel == \E i \in Intent, d \in 1 .. MaxDelay : RequestAnswered(i, d)

RunNext ==
  \/ Observe \/ PassOver \/ Finish
  \/ NoRequest \/ AskModel \/ RequestUnavailable \/ RequestRaises
  \/ Deliver \/ AllDelivered
  \/ Transition \/ FairnessOverride \/ MaximumGreenOverride \/ LocalFallback \/ Supervise
  \/ Second \/ Ended

RunSpec == RunInit /\ [][RunNext]_runVars

(* One thread runs the loop and nothing in it waits without a timeout.     *)
FairRunSpec == RunSpec /\ WF_runVars(RunNext)

-----------------------------------------------------------------------------
(* Properties. *)

Reason == {"none", "fairness_override", "maximum_green_override",
           "local_fallback", "supervised"}

LoopTypeOK ==
  /\ at \in {"observe", "request", "deliver", "control", "second", "done", "aborted"}
  /\ now \in Nat
  /\ seen \in Observation \cup {None}
  /\ at \in {"request", "deliver", "control"} =>
       seen # None /\ now % ControlInterval = 0
  /\ last_request \in Nat \cup {None}
  /\ pending \subseteq Response
  /\ active \in ActiveIntent \cup {None}
  /\ policy \in PolicyRow \cup {None}
  /\ decision \in [reason : Reason, target : Green]
  /\ tally \in [Counter -> Nat]

RunTypeOK == TypeOK /\ LoopTypeOK

(* No intent is decided on after a more recent one, however the responses  *)
(* are delayed and reordered: the age limit keeps old ones out.            *)
DecidedInOrder ==
  [][policy # None => policy'.observed > policy.observed]_policy

(* A control step that lets the active intent choose the phase. *)
Supervising ==
  at = "control" /\ at' = "second" /\ ~transitioning /\ decision'.reason = "supervised"

(* Only an intent whose observation is at most MaxValid seconds old steers *)
(* the junction, whatever validity the model asked for.                    *)
SupervisedWhileValid ==
  [][Supervising => now <= active.observed + MaxValid]_runVars

(* Where there is another phase, a green lasts at most MaxGreen seconds    *)
(* and what is left of a control interval, unless the lane that waits      *)
(* longest is served by it.                                                *)
HeldByFairness == decision = [reason |-> "fairness_override", target |-> current_green]
GreenBounded ==
  stage = "green" /\ Green # {current_green} /\ ~HeldByFairness =>
    phase_elapsed_s < MaxGreen + ControlInterval

(* Every request ends in exactly one of the counters of the summary, or    *)
(* its response is still on its way.                                       *)
RequestsAccounted ==
  at # "aborted" =>
    tally["requests"] =
      tally["unavailable"] + tally["stale"] + tally["decided"] + Cardinality(pending)

(* Whatever the loop does, the junction's lights follow SignalExecutor.    *)
ImplementsExecutor == Spec

(* The run reaches its end, or is ended by an error, whatever the provider *)
(* and the network do.                                                     *)
RunEnds == <>(at \in {"done", "aborted"})

(* A rejected proposal, and one that asks for it, falls back to local      *)
(* control.                                                                *)
FallbackIsLocal ==
  [][Supervising => ~policy.fallback]_runVars
=============================================================================
