---------------------------- MODULE BudgetLedger ----------------------------
(***************************************************************************)
(* The crash-safe budget ledger of src/ojcoms_poc/budget.py, shared by the *)
(* threads of several processes.                                           *)
(*                                                                         *)
(* Two append-only files persist: the usage log, which is only ever read   *)
(* for its row count and its cost sum per phase (so it is kept as those    *)
(* totals), and the reservation log, kept as the set of reservations it    *)
(* reserved and the set it settled.  A process has one BudgetLedger object *)
(* with a thread lock (mutex); the advisory lock on the lock file (flock)  *)
(* excludes the processes.  A thread that was granted a reservation makes  *)
(* one call to the provider and then appends the usage under the id of its *)
(* reservation, as the supervisor does.                                    *)
(*                                                                         *)
(* Costs are integers: units of the smallest cost the ledger tells apart.  *)
(***************************************************************************)
EXTENDS Naturals, FiniteSets

CONSTANTS
  Process,    \* processes that share the ledger files
  Thread,     \* threads of those processes that call the supervisor
  ProcessOf,  \* thread -> its process
  Phase,      \* phases of the experiment
  All,        \* the view of all phases together
  Id,         \* reservation ids (uuid4)
  CallLimit,  \* view -> max_attempts (All) and phase_call_limits (some phases)
  CostLimit,  \* view -> local_limit_usd (All) and phase_limits_usd
  WorstCost,  \* worst-case costs a request may be authorized at
  None,       \* no thread, no request, no reservation
  MaxCrashes, \* bound: processes killed in a behaviour
  MaxFaults   \* bound: file appends that raise in a behaviour

View == Phase \cup {All}
ViewsOf(p) == {p, All}

ASSUME LedgerAssumption ==
  /\ ProcessOf \in [Thread -> Process]
  /\ All \notin Phase
  /\ DOMAIN CallLimit \subseteq View
  /\ \A v \in DOMAIN CallLimit : CallLimit[v] \in Nat
  /\ CostLimit \in [View -> Nat]
  /\ WorstCost \subseteq Nat
  /\ None \notin Thread
  /\ MaxCrashes \in Nat
  /\ MaxFaults \in Nat

Job == [phase : Phase, worst : WorstCost]
Reservation == [id : Id, phase : Phase, worst : WorstCost]

ASSUME NoneAssumption == None \notin Job \cup Reservation

VARIABLES
  usage,      \* view -> totals of the usage log: rows and recorded cost
  reserved,   \* reservations with a "reserved" event in the reservation log
  settled,    \* reservations with a "settled" event in the reservation log
  mutex,      \* process -> the thread holding its BudgetLedger._lock
  flock,      \* the thread holding the lock file
  pc,         \* thread -> where it is
  job,        \* thread -> phase and worst-case cost it is asking for
  held,       \* thread -> the reservation it was granted
  bill,       \* thread -> the cost its answered call is recorded at
  recorded,   \* history: reservations whose usage row was written
  paid,       \* history: view -> cost of those calls, each counted once
  crashes,    \* bounded by MaxCrashes
  faults      \* bounded by MaxFaults

logs == <<usage, reserved, settled>>
locks == <<mutex, flock>>
history == <<recorded, paid>>
bounds == <<crashes, faults>>
vars == <<logs, locks, pc, job, held, bill, history, bounds>>

(* Program counters: where a thread stands in authorize, in the call and   *)
(* in append.  Those of Locked hold both locks.                            *)
Authorizing == {"lockAuthorize", "flockAuthorize", "check", "grant", "refuse"}
Calling == {"send", "answer"}
Appending == {"lockAppend", "flockAppend", "writeRow", "writeSettled"}
Where == {"idle", "stopped"} \cup Authorizing \cup Calling \cup Appending
Locked == {"check", "grant", "refuse", "writeRow", "writeSettled"}
WaitsForFile == {"flockAuthorize", "flockAppend"}

-----------------------------------------------------------------------------
(* Reading the files. *)

InView(S, v) == {r \in S : v \in ViewsOf(r.phase)}

(* Mutant of Active: open reservations are remembered by their process.    *)
ActiveInMemory == {r \in reserved \ settled : \E t \in Thread : held[t] = r}

(* _active_reservations: reserved and not settled. *)
Active == reserved \ settled

(* The worst-case cost of a set of reservations, counted unit by unit. *)
Units(S) == UNION {{r} \X (1 .. r.worst) : r \in S}
Held(S) == Cardinality(Units(S))

(* Mutants of CallsLeft and CostFits: calls still open are not counted.    *)
CallsLeftByRows(v) == v \in DOMAIN CallLimit => usage[v].calls < CallLimit[v]
CostFitsByRows(v, w) == usage[v].cost + w <= CostLimit[v]

(* The four ceilings authorize checks: for the request's phase and for the *)
(* ledger as a whole, rows plus active reservations against the call       *)
(* ceiling, recorded plus reserved plus worst-case cost against the cost   *)
(* ceiling.                                                                *)
CallsLeft(v) ==
  v \in DOMAIN CallLimit =>
    usage[v].calls + Cardinality(InView(Active, v)) < CallLimit[v]

CostFits(v, w) == usage[v].cost + Held(InView(Active, v)) + w <= CostLimit[v]

Admissible(j) == \A v \in ViewsOf(j.phase) : CallsLeft(v) /\ CostFits(v, j.worst)

-----------------------------------------------------------------------------
Init ==
  /\ usage = [v \in View |-> [calls |-> 0, cost |-> 0]]
  /\ reserved = {}
  /\ settled = {}
  /\ mutex = [p \in Process |-> None]
  /\ flock = None
  /\ pc = [t \in Thread |-> "idle"]
  /\ job = [t \in Thread |-> None]
  /\ held = [t \in Thread |-> None]
  /\ bill = [t \in Thread |-> 0]
  /\ recorded = {}
  /\ paid = [v \in View |-> 0]
  /\ crashes = 0
  /\ faults = 0

Goto(t, to) == pc' = [pc EXCEPT ![t] = to]

(* Mutant of ReleaseLocks: the thread lock is kept. *)
ReleaseFileLockOnly(t) == flock' = None /\ UNCHANGED mutex

ReleaseLocks(t) ==
  /\ flock' = None
  /\ mutex' = [mutex EXCEPT ![ProcessOf[t]] = None]

-----------------------------------------------------------------------------
(* authorize() *)

(* A thread asks for a reservation. *)
Request(t, j) ==
  /\ pc[t] = "idle"
  /\ job' = [job EXCEPT ![t] = j]
  /\ Goto(t, "lockAuthorize")
  /\ UNCHANGED <<logs, locks, held, bill, history, bounds>>

(* with self._lock *)
TakeMutex(t) ==
  /\ pc[t] \in {"lockAuthorize", "lockAppend"}
  /\ mutex[ProcessOf[t]] = None
  /\ mutex' = [mutex EXCEPT ![ProcessOf[t]] = t]
  /\ Goto(t, IF pc[t] = "lockAuthorize" THEN "flockAuthorize" ELSE "flockAppend")
  /\ UNCHANGED <<logs, flock, job, held, bill, history, bounds>>

(* Mutants of TakeFileLock: the lock file excludes nobody; append settles  *)
(* before it writes the row.                                               *)
TakeFileLockUnlocked(t) ==
  /\ pc[t] \in WaitsForFile
  /\ flock' = t
  /\ Goto(t, IF pc[t] = "flockAuthorize" THEN "check" ELSE "writeRow")
  /\ UNCHANGED <<logs, mutex, job, held, bill, history, bounds>>

TakeFileLockSettlesFirst(t) ==
  /\ pc[t] \in WaitsForFile
  /\ flock = None
  /\ flock' = t
  /\ Goto(t, IF pc[t] = "flockAuthorize" THEN "check" ELSE "writeSettled")
  /\ UNCHANGED <<logs, mutex, job, held, bill, history, bounds>>

(* with interprocess_lock(...) *)
TakeFileLock(t) ==
  /\ pc[t] \in WaitsForFile
  /\ flock = None
  /\ flock' = t
  /\ Goto(t, IF pc[t] = "flockAuthorize" THEN "check" ELSE "writeRow")
  /\ UNCHANGED <<logs, mutex, job, held, bill, history, bounds>>

(* Both files are read and the four ceilings compared. *)
Check(t) ==
  /\ pc[t] = "check"
  /\ Goto(t, IF Admissible(job[t]) THEN "grant" ELSE "refuse")
  /\ UNCHANGED <<logs, locks, job, held, bill, history, bounds>>

(* Mutant of Grant: the reservation is handed out but not written. *)
GrantUnwritten(t) ==
  /\ pc[t] = "grant"
  /\ \E i \in Id : held' = [held EXCEPT ![t] =
                       [id |-> i, phase |-> job[t].phase, worst |-> job[t].worst]]
  /\ job' = [job EXCEPT ![t] = None]
  /\ ReleaseLocks(t)
  /\ Goto(t, "send")
  /\ UNCHANGED <<logs, bill, history, bounds>>

(* The "reserved" event is appended under a fresh id, the locks released.  *)
Grant(t) ==
  /\ pc[t] = "grant"
  /\ \E i \in Id :
       LET r == [id |-> i, phase |-> job[t].phase, worst |-> job[t].worst]
       IN  /\ \A s \in reserved : s.id # i
           /\ reserved' = reserved \cup {r}
           /\ held' = [held EXCEPT ![t] = r]
  /\ job' = [job EXCEPT ![t] = None]
  /\ ReleaseLocks(t)
  /\ Goto(t, "send")
  /\ UNCHANGED <<usage, settled, bill, history, bounds>>

(* BudgetExceeded: it leaves decide() and ends the run of this thread.     *)
Refuse(t) ==
  /\ pc[t] = "refuse"
  /\ job' = [job EXCEPT ![t] = None]
  /\ ReleaseLocks(t)
  /\ Goto(t, "stopped")
  /\ UNCHANGED <<logs, held, bill, history, bounds>>

(* Appending the "reserved" event raises: nothing is reserved, no call is  *)
(* made, the error ends the run.                                           *)
GrantFails(t) ==
  /\ pc[t] = "grant"
  /\ faults < MaxFaults
  /\ faults' = faults + 1
  /\ job' = [job EXCEPT ![t] = None]
  /\ ReleaseLocks(t)
  /\ Goto(t, "stopped")
  /\ UNCHANGED <<logs, held, bill, history, crashes>>

-----------------------------------------------------------------------------
(* The call between authorize() and append(). *)

Send(t) ==
  /\ pc[t] = "send"
  /\ Goto(t, "answer")
  /\ UNCHANGED <<logs, locks, job, held, bill, history, bounds>>

(* The provider answers at a cost within the worst case, or the call fails *)
(* and is recorded at no cost.                                             *)
Answer(t) ==
  /\ pc[t] = "answer"
  /\ \E c \in 0 .. held[t].worst : bill' = [bill EXCEPT ![t] = c]
  /\ Goto(t, "lockAppend")
  /\ UNCHANGED <<logs, locks, job, held, history, bounds>>

-----------------------------------------------------------------------------
(* append() *)

AddTo(total, p, c) ==
  [v \in View |-> IF v \in ViewsOf(p) THEN total[v] + c ELSE total[v]]

(* The usage row goes to disk first. *)
WriteRow(t) ==
  LET r == held[t]
  IN  /\ pc[t] = "writeRow"
      /\ usage' = [v \in View |->
                     IF v \in ViewsOf(r.phase)
                     THEN [calls |-> usage[v].calls + 1,
                           cost |-> usage[v].cost + bill[t]]
                     ELSE usage[v]]
      /\ recorded' = recorded \cup {r}
      /\ paid' = IF r \in recorded THEN paid ELSE AddTo(paid, r.phase, bill[t])
      /\ Goto(t, "writeSettled")
      /\ UNCHANGED <<reserved, settled, locks, job, held, bill, bounds>>

(* Then the reservation is settled, and the locks are released. *)
WriteSettled(t) ==
  /\ pc[t] = "writeSettled"
  /\ settled' = settled \cup {held[t]}
  /\ held' = [held EXCEPT ![t] = None]
  /\ bill' = [bill EXCEPT ![t] = 0]
  /\ ReleaseLocks(t)
  /\ Goto(t, "idle")
  /\ UNCHANGED <<usage, reserved, job, history, bounds>>

(* Either write raises: the locks are released and the caller appends once *)
(* more (decide() records the failure of an answered call) or the error    *)
(* ends its run, with the reservation still active.                        *)
AppendFails(t) ==
  /\ pc[t] \in {"writeRow", "writeSettled"}
  /\ faults < MaxFaults
  /\ faults' = faults + 1
  /\ ReleaseLocks(t)
  /\ \/ Goto(t, "lockAppend") /\ UNCHANGED <<held, bill>>
     \/ /\ Goto(t, "stopped")
        /\ held' = [held EXCEPT ![t] = None]
        /\ bill' = [bill EXCEPT ![t] = 0]
  /\ UNCHANGED <<logs, job, history, crashes>>

-----------------------------------------------------------------------------
(* Process p is killed at any point and started again: its locks are       *)
(* released by the operating system, its memory is lost, the files stay.   *)
Crash(p) ==
  LET dead == {t \in Thread : ProcessOf[t] = p}
  IN  /\ crashes < MaxCrashes
      /\ crashes' = crashes + 1
      /\ pc' = [t \in Thread |-> IF t \in dead THEN "idle" ELSE pc[t]]
      /\ job' = [t \in Thread |-> IF t \in dead THEN None ELSE job[t]]
      /\ held' = [t \in Thread |-> IF t \in dead THEN None ELSE held[t]]
      /\ bill' = [t \in Thread |-> IF t \in dead THEN 0 ELSE bill[t]]
      /\ mutex' = [mutex EXCEPT ![p] = None]
      /\ flock' = IF flock \in dead THEN None ELSE flock
      /\ UNCHANGED <<logs, history, faults>>

(* Every run of every process has ended. *)
AllStopped == (\A t \in Thread : pc[t] = "stopped") /\ UNCHANGED vars

Step(t) ==
  \/ \E j \in Job : Request(t, j)
  \/ TakeMutex(t) \/ TakeFileLock(t)
  \/ Check(t) \/ Grant(t) \/ Refuse(t) \/ GrantFails(t)
  \/ Send(t) \/ Answer(t)
  \/ WriteRow(t) \/ WriteSettled(t) \/ AppendFails(t)

Next ==
  \/ \E t \in Thread : Step(t)
  \/ \E p \in Process : Crash(p)
  \/ AllStopped

Spec == Init /\ [][Next]_vars

(* A thread inside authorize or append is never kept from its next step    *)
(* for ever, and the client's timeout bounds the wait for an answer.       *)
Proceeds(t) ==
  \/ TakeMutex(t) \/ TakeFileLock(t)
  \/ Check(t) \/ Grant(t) \/ Refuse(t)
  \/ Send(t) \/ Answer(t)
  \/ WriteRow(t) \/ WriteSettled(t)

FairSpec == Spec /\ \A t \in Thread : WF_vars(Proceeds(t))

-----------------------------------------------------------------------------
(* Properties. *)

TypeOK ==
  /\ usage \in [View -> [calls : Nat, cost : Nat]]
  /\ reserved \subseteq Reservation
  /\ settled \subseteq reserved
  /\ mutex \in [Process -> Thread \cup {None}]
  /\ flock \in Thread \cup {None}
  /\ pc \in [Thread -> Where]
  /\ job \in [Thread -> Job \cup {None}]
  /\ held \in [Thread -> reserved \cup {None}]
  /\ bill \in [Thread -> Nat]
  /\ recorded \subseteq reserved
  /\ paid \in [View -> Nat]
  /\ crashes \in 0 .. MaxCrashes
  /\ faults \in 0 .. MaxFaults

(* No phase, and not the ledger as a whole, is ever granted more calls     *)
(* than its ceiling, whatever the processes interleave and wherever they   *)
(* are killed.                                                             *)
Granted(v) == Cardinality(InView(reserved, v))
CallCap == \A v \in DOMAIN CallLimit : Granted(v) <= CallLimit[v]

(* The cost recorded so far plus the worst case of every call not yet      *)
(* recorded never exceeds a ceiling.                                       *)
Exposure(v) == paid[v] + Held(InView(reserved \ recorded, v))
CostCap == \A v \in View : Exposure(v) <= CostLimit[v]

(* A check that passed is still true when its reservation is written: no   *)
(* other thread or process changed what it read.                           *)
GrantStillAdmissible == \A t \in Thread : pc[t] = "grant" => Admissible(job[t])

(* A reservation is settled only when its usage row is on disk: a crash    *)
(* between the two writes counts the call twice and never not at all.      *)
RowBeforeSettled == settled \subseteq recorded

(* A thread comes to the end of every call it was granted: it settles the  *)
(* reservation, or is killed, or gives up when its append fails; a lock of *)
(* a killed process or of a thread that raised stops nobody else.          *)
EverySettled ==
  \A t \in Thread : (held[t] # None) ~> (held[t] = None)

(* The ledger keeps the promise of SpendCap.                               *)
Cap == INSTANCE SpendCap WITH
  calls <- [v \in View |-> Granted(v)],
  exposure <- [v \in View |-> Exposure(v)]
ImplementsSpendCap == Cap!CapSpec
=============================================================================
