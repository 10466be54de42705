# Verification of the governed edge traffic controller

TLA+ models of the program in this repository (`src/ojcoms_poc`), TLC
configurations that check them on small instances, and proofs, checked by TLAPS,
that hold for every value of the constants. Source paths below are relative to the
repository's root.

## 1. The system: inventory

A SUMO simulation of several signalized junctions is advanced one second at a time.
Every five seconds a deterministic controller chooses a green phase for each
junction; every 120 seconds (and at declared events) a language model may be asked
for an *intent*, which a policy shield checks and which then biases the choice of
the phase until it expires. Calls of the model cost money and pass a ledger that many
processes share.

| Component | Keeps | Operations | Talks to | Hard part | Correct when | Module |
|---|---|---|---|---|---|---|
| `budget.py`, `file_lock.py` | usage log, reservation log, lock file; per object a thread lock | `authorize`, `append` | threads and processes of the experiment, through files | interleaving, kills between two writes, failing writes, ceilings reached exactly | no ceiling of calls or cost is ever exceeded; no call is lost from the accounts; nobody waits for ever | `BudgetLedger` |
| `signals.py` | current phase, elapsed seconds, pending phase, stage, countdown, lights | `initialize`, `request`, `step` | simulator; every controller | requests at any point of a transition, zero durations, several phases | conflicting links are never lit together and are separated by the clearance; greens are not cut short; transitions end | `SignalExecutor` |
| `runner.py`, agentic loop | time, pending responses, active intents, counters | one iteration per second | model, network, shield, executor | responses lost, invalid, delayed, reordered; stale intents; overrides | intents are decided in order and expire; green is bounded; requests are accounted for; the executor is never bypassed; the run ends | `EdgeSupervision` |
| `policy.py` | limits | `evaluate` | loop | a rule missing for one intent | a flagged intent is not accepted in a governed run | in `EdgeSupervision` |
| `controllers.py`, `agent_runtime.py` | none | `act`, `fairness_override`, `forced_alternative`, `supervised_target` | loop | ties, masked and missing readings, lit lanes that do not empty, precedence of the overrides | whatever the plan, an approach waits no longer than a turn for each lane, and one for each turn that was lost or not used | `LaneControllers`, in closed loop in `JunctionControl`; abstracted in `EdgeSupervision` |
| `network.py` | random stream, transmissions | `transmit`, `transmit_size` | loop | loss, delay, reordering | a message is delivered later than it is sent, or never | abstracted in `EdgeSupervision`, `JunctionControl`, `LiveCalls` |
| `agents.py`, `models.py` | audit log, attempts | `OpenAISupervisor.decide`, `ReplaySupervisor.decide` | provider, ledger, loop, audits | retries, failure after the answer, replay order | each attempt is authorized and recorded once; summaries agree with records | `LiveCalls`; its ledger protocol in `BudgetLedger`, its outcomes in `EdgeSupervision` |
| `runner.py`, other arms | delayed actions | report, send, arrive | network, executor | old actions after new ones | the executor keeps its timing, greens end | `JunctionControl` |
| `orchestration.py` | run directories, transcript | `run_matrix`, `_run_ordered`, `verify_live_gate`, `planned_calls` | runner, processes | kill and resume, parallel workers, ceilings used up by reruns | each run is completed once, attempts are preserved, an approved plan fits | `RunOrchestration`; gate and plan in `LiveCalls` |
| audits (`independent_latency_audit.py`, `model_validation.py`, `repeatability_audit.py`), `replay.py`, `prepare_budget_manifest.py` | tables, replayed logs, manifest | select, ask in parallel or in turn, write; replay and compare | supervisor, records of runs | one of several calls raises; records of unfinished runs | a table has every row; a replay passes exactly for a clean run | `LiveCalls` |
| `network_harness.py`, `reconcile_pcap.py` | counters, latencies, result files | connect, publish, `on_message`, stop; compare | MQTT broker | duplicates, late subscriptions, lost stop message, timeouts | counters match exactly; everyone ends | `NetworkHarness` |
| `topology.py`, `scenario.py` | none | neighbours, scaled routes | files | boundaries of a rate | against a reference definition | not modelled: functions over XML files |
| `metrics.py`, `analysis.py`, `config.py`, `cli.py`, remaining scripts | files | parsing, statistics, hashing, training | files, third-party code | none of concurrency | — | not modelled: pure I/O, floating-point statistics or third-party training |

Interactions: the loop calls `OpenAISupervisor.decide`, which calls the ledger before
and after every attempt; the answer travels through the emulated network, waits in
`pending_agentic`, is decided by the shield, becomes an entry of `active_intents`,
chooses a target through `supervised_target`, and is handed to `executor.request`;
`simulationStep` and `executor.step` end the second.

## 2. The modules

| Module | Role |
|---|---|
| `SpendCap` | abstract: what the ledger promises to whoever pays |
| `BudgetLedger` | the ledger, its locks, files, threads and processes |
| `BudgetLedgerProofs` | its theorems |
| `SignalTiming` | abstract: what a safe executor promises of one traffic light |
| `SignalExecutor` | the executor and the lights it shows |
| `SignalExecutorProofs` | its theorems |
| `EdgeSupervision` | the agentic control loop; EXTENDS `SignalExecutor`, whose `Request` and `Step` are its own steps |
| `EdgeSupervisionProofs` | its theorems; EXTENDS the proofs of the executor |
| `RunOrchestration` | the matrix of runs: sweeps, workers, run directories, transcript |
| `RunOrchestrationProofs` | its theorems |
| `LaneControllers` | the controllers and overrides as functions of what is seen of the lanes |
| `JunctionControl` | every arm's control step on one junction, with its traffic and the cloud's network; EXTENDS `SignalExecutor`, instantiates `LaneControllers` |
| `JunctionControlProofs` | its theorems; EXTENDS the proofs of the executor |
| `LiveCalls` | gate, retries, runs, audits and replays over one phase's ceiling |
| `LiveCallsProofs` | its theorems |
| `NetworkHarness` | the MQTT measurement and the reconciliation of its counters |
| `NetworkHarnessProofs` | its theorems |
| `MC*` | instances for TLC |

### BudgetLedger

State: the usage log is only read for a row count and a cost sum, per phase and for
all phases, so it is kept as those totals (`usage`, per *view*); the reservation log
is the set of reservations with a `reserved` event and the set with a `settled` one.
`mutex` is `BudgetLedger._lock` of each process, `flock` the lock on the lock file.
`pc` says where a thread stands:

| Action | Code |
|---|---|
| `Request`, `TakeMutex`, `TakeFileLock`, `Check` | `authorize`, the two `with` statements, the reading and the comparisons (`budget.py:106-138`) |
| `Grant`, `Refuse`, `GrantFails` | the `reserved` event is appended; `BudgetExceeded`; the append raises |
| `Send`, `Answer` | the call to the provider (`agents.py:155-211`), any cost within the worst case |
| `WriteRow`, `WriteSettled` | the two writes of `append` (`budget.py:181-196`), in this order |
| `AppendFails` | either write raises; the handler of `decide` appends again or the error ends the run (`agents.py:284-295`) |
| `Crash` | the process is killed between any two steps and restarted; the operating system releases its locks, the files stay |

`recorded` and `paid` are history variables: which reservations have a row, and what
those calls cost counted once each (a row written twice is counted twice by the
code, on the safe side).

Abstractions. Costs are natural numbers, units of the smallest cost the ledger tells
apart; the code adds floats. An answered call is recorded at no more than the worst
case it was authorized at: that is what `worst_case_billed_input_tokens` and
`max_output_tokens` are for, and it is an assumption about the provider. A call that
fails is recorded at cost 0, as in the code; a call the provider bills although it
timed out is outside the ledger's knowledge and the model's. `append` without a
reservation id, and the `_local_reservation_ids` that serve it, are used by tests only
and left out. A torn last line makes every later reading raise (the ledger fails
closed); that is not modelled.

### SignalExecutor

State: the attributes of `SafeSignalExecutor` under their names, the `lights` the
simulator shows, and two history clocks per link, `dark_s` and `lit_s`. A step is one
second: the simulator runs under the lights shown, then `step()` counts. Between two
steps any number of `request` calls may arrive. `Conflict` is derived from the plan:
two links conflict when no green phase lights both.

Left out: `action_count`, `transition_log`, the `ValueError` for an index out of range
(no controller returns one). `initialize()` may set phase 0 at once when the
simulation is not in a green phase; the history begins after it.

### EdgeSupervision

One junction. The junctions of a run do not influence each other inside the program
except through the observations, and a response carries one intent per junction.
An iteration of the loop is the sequence *observe, request, deliver, control, second*;
in the seconds that are not a control step only the last happens.

| Action | Code |
|---|---|
| `Observe`, `PassOver`, `Finish` | `runner.py:492-547` |
| `NoRequest`, `RequestAnswered`, `RequestUnavailable`, `RequestRaises` | `runner.py:565-705`: schedule and rate limit, both transmissions, the errors caught and not caught, the abort of a pilot |
| `DropStale`, `Decide`, `AllDelivered` | `runner.py:707-813`: age limit, shield, active intent, counters |
| `Transition`, `FairnessOverride`, `MaximumGreenOverride`, `LocalFallback`, `Supervise` | `runner.py:815-881`, in this precedence |
| `Second` | `runner.py:904-906` |

Abstractions. Queues, occupancies and peers appear as what the loop decides on (the
record `Observation`); the phase a controller prefers is any phase, within the limits
its code sets (`Coordinated`, `Targets`, `forced_alternative`). A forced outage is one
way to lose a request. `pending` is a set: the list is in the order of the requests,
and `Oldest` takes them in this order. A response arrives in a later second than its
request, because serialization takes time and arrival is rounded up. The rules on
identities of the shield cannot be broken behind `decide()`, which refuses a response
for other junctions or in another order. `BudgetExceeded` and every error the loop
does not name end the run (`aborted`). Responses still pending when the run ends are
in no counter; `RequestsAccounted` counts them as pending.

### RunOrchestration

State: the parent (`sweep`), for each worker its place in the shuffled list and in
`_run_ordered`, and what is on disk. A directory appears as the *attempt* that wrote it
(`attempt`, with how far its files got), either under the name of its run (`dir`) or
renamed (`aside`); `transcript` is the set of its rows. `listed` counts how often the
results of the sweep contain a run.

| Action | Code |
|---|---|
| `Launch`, `Return` | `run_matrix` (`orchestration.py:94-128`): dealing, pool, waiting for the futures, the first exception |
| `Skip`, `ReadTorn`, `SetAside`, `LogAside`, `NoneLeft` | `_run_ordered` before a run (`:143-165`) |
| `Begin`, `OpenSummary`, `WriteSummary`, `WriteExtras`, `Fail` | `SumoExperimentRunner.run` by the files it leaves (`runner.py:332`, `:1103-1122`) |
| `LogFailed`, `LogCompleted` | the rows after a run (`orchestration.py:176-199`) |
| `Kill` | pool and parent are killed between any two steps; the files stay |

Summary and remaining files are separate steps, and opening `summary.json` is separate
from filling it, because the next sweep decides by the existence of that file. So a
kill may leave a summary that cannot be read: `ReadTorn` raises in every later sweep.
The shuffle is a constant, since the seed fixes it; the number of workers may differ
from sweep to sweep. A start that the live gate refuses changes nothing. Left out:
workers that outlive their parent, a run that raises before it makes its directory,
an append to the transcript that raises, a time stamp used twice.

### LaneControllers and JunctionControl

`LaneControllers` has no state: `LocalMaxWave`, `CoordinatedMaxPressure`,
`ForcedAlternative` and `SupervisedTarget` are the functions of the code over queues by
lane, `Longest`, `Overdue` and `FirstServing` the parts of `fairness_override`. The lane
dictionary is filled in the order of a set of strings, so of several lanes with the
longest wait any may be taken.

`JunctionControl` closes the loop: the waits of the lanes decide the override, the
override the lights, and the traffic under these lights the waits.

| Action | Code |
|---|---|
| `Report` | the cloud arm's observation goes through the network, result ignored (`runner.py:508-522`) |
| `NoControl`, `Control`, `ControlBlind`, `ControlMasked` | the control step of every arm (`:815-881`): all detectors, some out, or a longer wait in a lane leading away |
| `Arrive`, `NoneArrived` | delayed cloud actions, in the order of the list (`:883-902`) |
| `Second` | the simulator and the executor (`:904-906`) |

The traffic is SUMO's and external, and may do anything under any lights. What the loop
sees of a lane is the longest `getWaitingTime` of its vehicles, over all of them
(`:167-171`): in a second that vehicle stands on, or the first one stops, and the wait
is a second more; or it moves, and the next one has stood no longer (`Behind`). So a lit
lane may empty, empty in part, or stand: a long queue, the lane `incident_lane` closes
(`:496-504`), no room ahead, or a lane whose turning links are lit in another phase than
`FirstServing` picks. `fairness_override` does not look at the lights and goes on serving
such a lane. Queues are read independently of the waits (noise and outages make them
so), any value of `Queue`; any intent at any strength may be active. `arm` is `agentic`
for the three agentic arms: shield, expiry and delivery are in `EdgeSupervision`, here
the intent is any.

`disturbed` is history and counts what costs the lanes a turn: a control step with
masked or missing readings, a cloud action that is lost, and, at every control step, each
lane in `Stuck`: lit for the minimum green and overdue all the same. `WaitLimit` and
`GreenEnds` grant a turn and an interval for each. No limit of waits in seconds alone
would hold: while a lit lane stays blocked the override keeps its phase, so the others
wait as long as that lasts. No bound of waits is claimed for the cloud's arm, whose
decisions are carried out after the state they were taken in.

### LiveCalls

The ledger of `BudgetLedger` is reduced to the number of attempts granted and its
ceiling (the contract `CallCap` and `GrantStillAdmissible` establish). One phase has
runs (`Run`), which ask for their requests in turn, and audits, whose `Agent`s are
threads or repetitions. `rows` is what each caller appended to its record.

| Action | Code |
|---|---|
| `Prepare`, `GateOpen` | `prepare_budget_manifest.py`, `verify_live_gate`; costs are proportional to calls and compared once |
| `Authorize`, `Refuse`, `Answer`, `Retry`, `Concludes` | the loop of `OpenAISupervisor.decide` (`agents.py:146-317`), one row for each attempt |
| `Start`, `Lose`, `Ask`, `Conclude`, `AnswerLost`, `Summarize` | a run (`runner.py:594-705`), set aside whole before it is tried again |
| `AuditStart`, `AskBatch`, `CallEnds`, `BatchEnds`, `WriteTable` | the audits, in parallel (`InParallel`) or one call after the other (`Repeatedly`) |
| `KillRun`, `KillAudit` | a process is killed between any two steps |
| `Replay` | `replay.py` and `ReplaySupervisor`: same seed, hence the same losses; valid rows in order; logs appended to |

A row is its request and its kind: `ok`, `invalid` (a response that fails validation),
`transient` (the three errors that are retried), `other`. A replay puts the requests of
the run that were not lost (`Repeated`) to the valid rows (`Valid`); `Reproduced` says by
position what the code says by an index that moves on: the row a request meets is as far
in the record as the request is in the run, and none is left over. `past` is history. An audit's
table is written once per behaviour. Left out: the token estimate, and raising file
appends, which are in `BudgetLedger`.

### NetworkHarness

Simulator, edge and cloud are processes. What a client published and the broker has not
is in its `outbox`; `Route` moves the first of these to the `queue` of every subscriber
and remembers it in `taken`, what the broker took from that connection. Broker and
client library are external, modelled from how the code uses them: QoS 1, one ordered
connection per client, no persistent session. `Drop` breaks a connection: the
acknowledgements of the last messages taken are lost with it, so the client will send
these again, before the rest of the outbox, and what the broker had for the client is
gone. Payloads are of one length, so counters of bytes say
what counters of messages say. Timeouts (15, 60 and 90 seconds) are always enabled: the
model has no clock, which is every timing. The edge publishes its peer messages before the
action, and the simulator stops after it has all actions: that is why the counters
match, and `CountersMatch` checks it over late subscriptions too.

## 3. The runs

| Run | Question | Bounds |
|---|---|---|
| `BudgetLedger_safety` | Do the locks make check and reservation one step, do the ceilings hold, and does the ledger implement `SpendCap`, when a kill and a failing write meet? | 2 processes, 3 threads, 2 phases, ceilings of 3 calls and 5 units, 1 kill, 1 failing write |
| `BudgetLedger_liveness` | Is every granted reservation of a thread that lives settled? | 3 threads, 1 kill, 1 failing write |
| `SignalExecutor` | Separation, minimum green, timing, end of transitions | 3 phases over 4 links, configured 3/2/5 seconds |
| `SignalExecutor_yellow` | *violated*: does every light that turns from green to red show yellow? | as `SignalExecutor` |
| `EdgeSupervision_governed` | Order and age of intents, bounded green, accounting, refinement of the executor, end of the run | 2 phases, 6 control steps, 3 requests, arrivals up to 7 s late, every rule of the shield that `decide()` leaves possible, pilot, transitions longer than a control interval |
| `EdgeSupervision_fallback` | *violated*: does a rejection hand the junction to local control? | as governed, shorter transitions |
| `RunOrchestration` | Do completed runs stay, are attempts kept, does a sweep that returns have every run, does every sweep end? | 3 runs, up to 2 workers, 1 kill, 1 failing run, any number of sweeps |
| `JunctionControl` | Does every approach get its turn under the arms that decide at the junction, and do end of greens, separation and timing survive late, lost and reordered cloud actions, whatever the traffic? | all arms, 3 phases, 2 lanes (one with links in two phases) and 2 they lead to, zero yellow and all-red seconds, control interval 2, actions up to 4 s late, 2 disturbances |
| `JunctionControl_cloud` | *violated*: does the cloud decide on what reached it? | the cloud's arm, actions up to 3 s late, 1 disturbance |
| `LiveCalls` | Do ledger, records, summaries, tables and replays agree? | runs of 2 and 1 requests, 1 state for 2 agents, ceilings 4 and 5 for a plan of 5, 1 retry, 3 starts, 1 kill, 1 replay, 1 lost message, every part of the gate closed once |
| `LiveCalls_replay` | *violated*: is a completed run reproduced by its replay? | 1 start, nothing killed or lost, 2 replays |
| `NetworkHarness` | Do counters match, does a match mean no duplicate telemetry or action, does everyone end? | 2 telemetry messages, 1 intersection, 1 broken connection |

Why the bounds are enough. Ceilings: the smallest at which one phase is refused
while another is still granted, with a ceiling of calls and one of cost each reached
first in some behaviour. Two threads contend for a mutex, two processes for the file
lock; one kill can hit every pair of steps. Executor: three phases make a
link that stays green, one that stops and one that starts; `Horizon` only caps the
clocks above every comparison. Loop: the end of the run admits three requests, two
of them between two control steps, so that responses can overtake each other and an
intent can be old, expired, replaced and rejected; the age limit (5) has the relation
to the control interval (2) that the configured one (10) has to 5. In the
configured system yellow and all-red together last one control interval, so a
control step never meets a transition; `EdgeSupervision_governed` takes a longer
one to check that branch too. The unguarded arm differs in one guard only, which the
proofs cover for both values of `Governed`. With the shipped limits `valid_for_s` cannot exceed
`max_intent_duration_s` (the schema has the same 120 s); the runs take a lower limit,
which a configuration may set. Orchestration: with three runs and two workers one
worker has two runs and the other one, and a sweep of one worker can resume what two
began; the kill and the failure together can set the same run aside twice. Junction:
two lanes can be overdue together, in either order, with a lane that leads away as a
third; two disturbances let a lane twice, or both lanes once, stay overdue while they are
lit; a delay of four seconds at an interval of two lets a younger action overtake an
older one (the configured profiles delay by about one second at an interval of five).
`WaitLimit` is `MaxApproachWait` and a turn for every lane and disturbance, where a turn
is a transition and a minimum green, rounded up to control steps; in the instance waits
come within a second of it and greens reach the last second of theirs. More lanes than
two are left to the theorem. Live calls:
a plan of five under ceilings of four and five closes the gate or leaves no room, so a
retry, a rerun or a lost audit is what makes a planned call fail. Harness: with two
messages one may be lost and another delivered twice, one broken connection does both.

Fairness. `BudgetLedger`: weak fairness of each thread's own next step inside
`authorize`, the call and `append`: `flock` and the lock are released by `finally` and
`with`, the client has a timeout, attempts are finite; no fairness for asking, for
kills or for failures. TLC shows this suffices in the instance checked, although
locks in the operating system need not be first come, first served: threads stop
asking when the ceilings are reached. `SignalExecutor`: weak fairness of `Step`, the
simulator is stepped in every iteration. `EdgeSupervision`: weak fairness of the next
step of the only thread, each of whose waits has a timeout. `RunOrchestration`: weak
fairness of each worker's next step and of the parent's return: workers are processes
that do not wait for each other, a simulation has an end time, the parent waits for
the futures; nobody has to start a sweep. `NetworkHarness`: weak fairness of the next
step of the whole; every wait has a timeout, and TLC finds no behaviour in which one
process is kept from ending by the steps of others, since messages are finite.
`JunctionControl` and `LiveCalls` check safety; the fair specification of the former
only says the loop is not stopped.

## 4. What the runs found

- **Green to red without yellow** (`SignalExecutor_yellow`). A link that is green both
  in the phase that is left and in the target stays green through the yellow stage,
  and the all-red stage then turns it red at once (`signals.py:7-14`, `:130`). The
  package README promises safe yellow transitions; the test has no such link.
- **A rejected intent does not bring local control** (`EdgeSupervision_fallback`).
  Rejection, and an accepted request for fallback, leave an older accepted intent active
  until it expires (`runner.py:774-786`), whereas `docs/EXPERIMENT_DESIGN.md:89` says local control
  continues.
- **The cloud decides on what it was not told** (`JunctionControl_cloud`). Its report is
  put through the emulated network and the result ignored (`runner.py:522`); the
  decision uses the simulator's present state, also when the report was lost, whereas
  `docs/EXPERIMENT_DESIGN.md:42` says observations pass through the emulated WAN.
- **Not every recorded run can be replayed** (`LiveCalls_replay`). A run with a failed or
  invalid call is completed, but its replay raises at the request that has no valid row
  (`agents.py:372`), and the second replay of any run appends to the logs of the first
  and is reported as different; `scripts/README.md:14` promises exact replay.

The shield is evaluated when a response arrives (`runner.py:729`) and not again before
the control steps that apply the intent, although `docs/EXPERIMENT_DESIGN.md:18` gives
its interval as "Before every intent execution". What follows from it is bounded by
`SupervisedWhileValid`.

Nor does any document promise a bound on waits. The override serves the lane that waits
longest whether it is lit or not, and does so before the maximum green is looked at: a
lane that stays overdue while it is lit keeps its phase, and the others wait for as long
as that lasts (`WaitBounded` and `GreenEnds` say how long otherwise). The waits of several
hundred seconds in the released data of scenario S2, with its limit of 180 s, are of
this size.

## 5. What is proved

All for every value of the constants, from the named assumptions of the modules; a
theorem with further hypotheses names them. Every safety invariant and action property
of a passing run is proved, except where this section says otherwise.

| Theorem | Says | Argument |
|---|---|---|
| `BudgetLedgerProofs!CallsWithinCeilings`, `CostWithinCeilings` | no ceiling of calls or cost is exceeded | inductive invariant: types, mutual exclusion of `Locked` threads, every granted thread's reservation open, `recorded` rows counted in `usage` at least as `paid`, and the ceilings over rows plus open reservations; cost sums are cardinalities of sets of units, so sums of disjoint sets add up |
| `GrantsStayAdmissible` | a check that passed is still true at the write | mutual exclusion: nothing a thread read changes while it holds the file lock |
| `SettledHaveRows` | no settlement without a row | where a thread stands between the two writes |
| `LedgerImplementsSpendCap` | the ledger refines `SpendCap` | `Grant` is `Commit`, the first `WriteRow` of a reservation is `Pay`, the rest stutters |
| `SignalExecutorProofs!ConflictingGreensSeparated` | conflicting links are separated by the clearance | the invariant ties the stage and its countdown to the colours and to the seconds each link has been dark |
| `GreensLastLongEnough`, `ExecutorImplementsTiming` | minimum green; refinement of `SignalTiming` | the same invariant, with the seconds each link has been lit |
| `EdgeSupervisionProofs!LoopImplementsExecutor`, `SupervisedGreensSeparated` | supervision cannot break the executor's properties | every step of the loop is a step of the executor or leaves it alone |
| `IntentsDecidedInOrder` | intents are decided in the order of their observations | a decided one is at most `MaxAge` old, requests are made at control steps only, and `MaxAge < 3 * ControlInterval` leaves no room for an older one |
| `GreensBounded` | a green ends within `MaxGreen + ControlInterval` unless fairness holds it | at a control step at `MaxGreen` or later the executor accepts another phase; between two control steps the seconds passed are `now % ControlInterval` |
| `IntentsExpire`, `RequestsAreAccounted` | no intent steers after its longest validity; requests equal the sum of their outcomes | invariants over the active intent, the pending set and the counters |
| `RunOrchestrationProofs!SharesAreDisjoint` | two workers never hold one run | the shares `ordered[w::workers]` are the classes of the indices modulo the number of workers |
| `AttemptsAreKept`, `CompletedRunsStay` | every attempt is on disk under its name or set aside; no step takes a summary away | a directory holds an attempt of its run, and what a worker still has to do tells what the directory of its run holds |
| `SweepsAreComplete` | a sweep that returns lists every run once, with its summary | the runs a worker has passed are listed once and have a summary; a worker that is done has passed its share |
| `JunctionControlProofs!JunctionConflictsCleared`, `JunctionImplementsTiming` | the executor's promises under every arm | every step of the junction is a step of the executor or leaves it alone |
| `GreensEnd` | a green ends by its maximum, an interval and the way of a cloud action, but for one interval for each disturbance and stuck lane, under every arm and any traffic | either the green is at most as old as the control steps passed allow, or an action that ends it is on its way; an override that keeps the phase serves a lane in `Stuck`; for `MaxGreen >= 1` and more than one phase |
| `WaitsAreBounded` | under an arm that decides at the junction and any traffic, no wait exceeds the limit of the override and a turn for each lane, disturbance and stuck lane | see below; for `MinGreen >= 1` |
| `LiveCallsProofs!RecordsMatchLedger` | attempts granted are rows on record, set aside or cut short, or open | each step moves one attempt from one of these sets to another |
| `TablesAreComplete` | an audit's table has every state and agent | the batches left, the present one and the rows collected are, without overlap, the calls of one sample |
| `ApprovedPlansFit` | a planned call is refused only when attempts outside the plan took its room | the attempts within the plan are an injective image in `Asks` and the sample, which has room for the present one |
| `SummariesMatchRecords` | counters of a completed run are those of its record and of what the network lost | the same of a run under way, up to its present request |
| `CleanRunsReplay` | a first replay passes exactly for a clean run | of the rows of a request only the last can tell of an answer; so in a clean run the valid rows and the requests put are in a bijection that keeps the order, and so are those before any of them |
| `NetworkHarnessProofs!ReconciledRunsAreExact` | when the counters of a good run reconcile no telemetry and no action was delivered twice, whatever connections broke; peer messages are not covered | a counter is at least the size of the set of what arrived, more by every second delivery; with every answer there the sets are full, and equal counters leave no surplus |
| `CountersAgree` | without a broken connection and a passed deadline all counters match | while no connection broke, lists keep the order of the sequences and what is under way is younger than what arrived, so each message is counted once; peer messages published are received or on their way, and none is behind the stop |
| `TypeCorrect` (twice), `RunTypeCorrect`, `OrchestrationTypeCorrect`, `JunctionTypeCorrect`, `CallsTypeCorrect`, `HarnessTypeCorrect` | type invariants | the typing half of each inductive invariant |

None of the safety properties is inductive alone: the ceilings, for instance, are kept
only because a thread that stands at `grant` holds the locks and what it checked still
holds (`GrantStillAdmissible`). The inductive invariants are stated at the head of the
proof modules, in layers each of which rests on the ones before: `TypeOK`, `Directories`,
`Dealt`, `Places` and `Listed` for the sweeps; `Basics`, `Auditing`, `Records`, `Answers`
and `Replays` for the calls; `Typing`, `Carried`, `Stands`, `Tallied` and, while no
connection has broken, `InOrder` and `PeersFlow` for the harness. TLC checked every layer
on the instances of the runs before it was proved.

`WaitsAreBounded` is an argument by ranking, at every level `x` that a wait has reached.
`Ahead(x)` are the lanes that have waited `x` seconds or more and whose phase is neither
shown nor promised. There is always a control step ahead, at most a `Turn` away, at which
the executor will accept; `x`, the time to that step and a `Turn` for every lane in
`Ahead(x)` stay within `WaitLimit` together. A second raises the level by one and brings
the step as much closer. At the step, when `x` is above the limit of the override, the
override serves a lane that waits longest. The lanes at level `x` are then those of
`Ahead(x)` and, of those that were lit, the ones in `Stuck`, without the lane served: one
fewer, and `WaitLimit` has grown by a `Turn` for each stuck one. If the lane served is
lit already it is stuck itself, and its `Turn` pays for the control interval until the
next step. Below the limit of the override there are turns to spare, whatever happens.
Ties, the intent, the queues and the phase that `FirstServing` picks may be any. A minimum
green of 0 would let the override take a green away in the second it was given, before
its lane counts as stuck, hence `MinGreen >= 1` (5 s as shipped, and `MaxGreen` is 50 s).

What the assumptions on the constants ask for, beyond types: that links, green phases
and callers are finite; that an audit has an agent; that `MaxAge < 3 * ControlInterval`, on which the
order of intents rests (10 and 5 as shipped); that `None` is no record of counters. TLC
evaluates them for every instance.

Only model-checked:

- `EverySettled`, `TransitionEnds`, `RunEnds`, `SweepEnds` and `EveryoneEnds`, since
  liveness under fairness is out of the prover's reach;
- everything listed in section 4, which is false.

## 6. Not covered, and the plan

`PROJECT.json` lists each hazard at its line; those without a property say why. Not
modelled: statistics and plotting over files (`metrics.py`, `analysis.py`, `analyze*.py`,
`shield_audit.py`, `pilot_report.py`), the functions over XML of `topology.py` and
`scenario.py`, parsing of configuration and command line, single probes of the API,
third-party training (`resco_idqn.py`) and release tooling: none keeps state that
survives a call or meets another actor.

Next, in this order:

1. A bound on waits in the cloud's arm, where an action is on its way while the next one
   is decided: the ranking has to count the actions in the list.
2. Workers that outlive their parent; several junctions and their peers' messages.
3. `ScaledRoutes`: `scaled_route_file` against its declarative meaning over bounded flows.
