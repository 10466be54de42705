-------------------------- MODULE RunOrchestration --------------------------
(***************************************************************************)
(* The matrix of runs of src/ojcoms_poc/orchestration.py: a shuffled list  *)
(* of runs is dealt to worker processes, each of which takes its share in  *)
(* order.  A run leaves its results in a directory of its own; a directory *)
(* with a summary is taken for a completed run, one without is set aside   *)
(* under a new name before the run is tried again.                         *)
(*                                                                         *)
(* A sweep may be killed at any point and started again, with any number   *)
(* of workers.  The kill takes the pool and the parent together: a worker  *)
(* that dies breaks the pool, which terminates the others.  A start that   *)
(* the live gate refuses changes nothing and is not an action.             *)
(***************************************************************************)
EXTENDS Naturals, Sequences

CONSTANTS
  Order,        \* the runs, in the shuffled order, which the seed fixes
  MaxWorkers,   \* largest number of workers a sweep is started with
  MaxKills,     \* bound: sweeps killed in a behaviour
  MaxFailures   \* bound: runs that raise in a behaviour

Run == {Order[i] : i \in DOMAIN Order}
Worker == 0 .. MaxWorkers - 1

ASSUME OrderAssumption ==
  /\ Order \in Seq(Run)
  /\ \A i, j \in DOMAIN Order : Order[i] = Order[j] => i = j
ASSUME BoundAssumption ==
  MaxWorkers \in Nat \ {0} /\ MaxKills \in Nat /\ MaxFailures \in Nat

VARIABLES
  sweep,       \* "off", "on", "returned" or "raised"
  workers,     \* number of workers of this sweep
  pos,         \* worker -> index from 0 of its run in the shuffled list
  pc,          \* worker -> where it stands in _run_ordered and in run
  attempt,     \* every attempt begun: its run and how far its files got
  dir,         \* run -> the attempt in the directory of the run, 0 if none
  aside,       \* attempts in directories that were renamed
  transcript,  \* rows of command_transcript.jsonl: attempt and status
  listed,      \* run -> how often the results of this sweep list it
  kills,       \* bounded by MaxKills
  failures     \* bounded by MaxFailures

disk == <<attempt, dir, aside, transcript>>
bounds == <<kills, failures>>
vars == <<sweep, workers, pos, pc, disk, listed, bounds>>

(* How far the files of an attempt got: logs only; summary.json opened but *)
(* not written; written; and the four files after it too.                  *)
Files == {"begun", "torn", "summary", "full"}
Writing == {"simulate", "summary", "extras", "row", "failing"}
Where == {"look", "logAside", "begin", "ended", "raised"} \cup Writing

RunOf(w) == Order[pos[w] + 1]
Left(w) == pos[w] < Len(Order)
At(w, where) == sweep = "on" /\ pc[w] = where
Goto(w, to) == pc' = [pc EXCEPT ![w] = to]

FilesOf(r) == IF dir[r] = 0 THEN "none" ELSE attempt[dir[r]].files
Summarized(r) == FilesOf(r) \in {"summary", "full"}

Init ==
  /\ sweep = "off" /\ workers = 1
  /\ pos = [w \in Worker |-> 0] /\ pc = [w \in Worker |-> "ended"]
  /\ attempt = <<>> /\ dir = [r \in Run |-> 0]
  /\ aside = {} /\ transcript = {}
  /\ listed = [r \in Run |-> 0]
  /\ kills = 0 /\ failures = 0

-----------------------------------------------------------------------------
(* run_matrix(): worker w takes ordered[w::workers]. *)

(* Mutant of Share: worker w takes everything from its first run on. *)
ShareRest(n) == 1
Share(n) == n

Launch(n) ==
  /\ sweep # "on"
  /\ sweep' = "on" /\ workers' = n
  /\ pos' = [w \in Worker |-> w]
  /\ pc' = [w \in Worker |-> IF w < n THEN "look" ELSE "ended"]
  /\ listed' = [r \in Run |-> 0]
  /\ UNCHANGED <<disk, bounds>>

Advance(w) == pos' = [pos EXCEPT ![w] = pos[w] + Share(workers)]
List(w) == listed' = [listed EXCEPT ![RunOf(w)] = listed[RunOf(w)] + 1]

(* Mutant of Finished: the parent waits for results only. *)
FinishedWell(w) == pc[w] = "ended"
Finished(w) == pc[w] \in {"ended", "raised"}

(* Mutant of Return: the exception of a worker is dropped. *)
ReturnAnyway ==
  /\ sweep = "on" /\ \A w \in Worker : Finished(w)
  /\ sweep' = "returned"
  /\ UNCHANGED <<workers, pos, pc, disk, listed, bounds>>

(* Every future is waited for; the first exception is raised after that.   *)
Return ==
  /\ sweep = "on" /\ \A w \in Worker : Finished(w)
  /\ sweep' = IF \E w \in Worker : pc[w] = "raised" THEN "raised" ELSE "returned"
  /\ UNCHANGED <<workers, pos, pc, disk, listed, bounds>>

-----------------------------------------------------------------------------
(* _run_ordered(): before a run. *)

NoneLeft(w) ==
  /\ At(w, "look") /\ ~Left(w)
  /\ Goto(w, "ended")
  /\ UNCHANGED <<sweep, workers, pos, disk, listed, bounds>>

(* Mutant of Completed: what the transcript calls completed. *)
CompletedByTranscript(r) ==
  dir[r] # 0 /\ [attempt |-> dir[r], status |-> "completed"] \in transcript
Completed(r) == Summarized(r)

(* The summary exists: it is listed and the run is not made again. *)
Skip(w) ==
  /\ At(w, "look") /\ Left(w) /\ Completed(RunOf(w))
  /\ List(w) /\ Advance(w)
  /\ UNCHANGED <<sweep, workers, pc, disk, bounds>>

(* It exists but was not written to its end: json.loads raises. *)
ReadTorn(w) ==
  /\ At(w, "look") /\ Left(w) /\ FilesOf(RunOf(w)) = "torn"
  /\ Goto(w, "raised")
  /\ UNCHANGED <<sweep, workers, pos, disk, listed, bounds>>

(* Mutant of Keep: the new name has no time stamp. *)
KeepOne(n) == {m \in aside : attempt[m].run # attempt[n].run} \cup {n}
Keep(n) == aside \cup {n}

SetAside(w) ==
  /\ At(w, "look") /\ Left(w) /\ ~Completed(RunOf(w))
  /\ FilesOf(RunOf(w)) \notin {"none", "torn"}
  /\ aside' = Keep(dir[RunOf(w)])
  /\ dir' = [dir EXCEPT ![RunOf(w)] = 0]
  /\ Goto(w, "logAside")
  /\ UNCHANGED <<sweep, workers, pos, attempt, transcript, listed, bounds>>

(* Mutant of LogAside: the row names the directory by its old path. *)
LogAsideOldPath(w) ==
  /\ At(w, "logAside")
  /\ transcript' = transcript
                     \cup {[attempt |-> dir[RunOf(w)], status |-> "preserved"]}
  /\ Goto(w, "begin")
  /\ UNCHANGED <<sweep, workers, pos, attempt, dir, aside, listed, bounds>>

LogAside(w) ==
  /\ At(w, "logAside")
  /\ \E n \in aside :
       /\ attempt[n].run = RunOf(w)
       /\ \A m \in aside : attempt[m].run = RunOf(w) => m <= n
       /\ transcript' = transcript \cup {[attempt |-> n, status |-> "preserved"]}
  /\ Goto(w, "begin")
  /\ UNCHANGED <<sweep, workers, pos, attempt, dir, aside, listed, bounds>>

-----------------------------------------------------------------------------
(* SumoExperimentRunner.run(), by the files it leaves. *)

Begin(w) ==
  /\ \/ At(w, "look") /\ Left(w) /\ FilesOf(RunOf(w)) = "none"
     \/ At(w, "begin")
  /\ attempt' = Append(attempt, [run |-> RunOf(w), files |-> "begun"])
  /\ dir' = [dir EXCEPT ![RunOf(w)] = Len(attempt) + 1]
  /\ Goto(w, "simulate")
  /\ UNCHANGED <<sweep, workers, pos, aside, transcript, listed, bounds>>

Write(w, from, files, to) ==
  /\ At(w, from)
  /\ attempt' = [attempt EXCEPT ![dir[RunOf(w)]].files = files]
  /\ Goto(w, to)
  /\ UNCHANGED <<sweep, workers, pos, dir, aside, transcript, listed, bounds>>

(* The simulation ends; write_text opens summary.json, then fills it. *)
OpenSummary(w) == Write(w, "simulate", "torn", "summary")
WriteSummary(w) == Write(w, "summary", "summary", "extras")
WriteExtras(w) == Write(w, "extras", "full", "row")

Fail(w) ==
  /\ \E where \in {"simulate", "summary", "extras"} : At(w, where)
  /\ failures < MaxFailures /\ failures' = failures + 1
  /\ Goto(w, "failing")
  /\ UNCHANGED <<sweep, workers, pos, disk, listed, kills>>

-----------------------------------------------------------------------------
(* _run_ordered(): after a run. *)

Log(w, status) ==
  transcript' = transcript \cup {[attempt |-> dir[RunOf(w)], status |-> status]}

LogFailed(w) ==
  /\ At(w, "failing")
  /\ Log(w, "failed")
  /\ Goto(w, "raised")
  /\ UNCHANGED <<sweep, workers, pos, attempt, dir, aside, listed, bounds>>

LogCompleted(w) ==
  /\ At(w, "row")
  /\ Log(w, "completed") /\ List(w)
  /\ Advance(w) /\ Goto(w, "look")
  /\ UNCHANGED <<sweep, workers, attempt, dir, aside, bounds>>

Kill ==
  /\ sweep = "on" /\ kills < MaxKills
  /\ kills' = kills + 1 /\ sweep' = "off"
  /\ UNCHANGED <<workers, pos, pc, disk, listed, failures>>

Step(w) ==
  \/ NoneLeft(w) \/ Skip(w) \/ ReadTorn(w) \/ SetAside(w) \/ LogAside(w)
  \/ Begin(w) \/ OpenSummary(w) \/ WriteSummary(w) \/ WriteExtras(w) \/ Fail(w)
  \/ LogFailed(w) \/ LogCompleted(w)

Next ==
  \/ \E n \in 1 .. MaxWorkers : Launch(n)
  \/ Return \/ Kill
  \/ \E w \in Worker : Step(w)

Spec == Init /\ [][Next]_vars

(* The workers run by themselves, a simulation has an end, the parent      *)
(* waits for the futures; nobody has to start a sweep.                     *)
FairSpec == Spec /\ WF_vars(Return) /\ \A w \in Worker : WF_vars(Step(w))

-----------------------------------------------------------------------------
(* Properties. *)

TypeOK ==
  /\ sweep \in {"off", "on", "returned", "raised"}
  /\ workers \in 1 .. MaxWorkers
  /\ pos \in [Worker -> Nat]
  /\ pc \in [Worker -> Where]
  /\ attempt \in Seq([run : Run, files : Files])
  /\ dir \in [Run -> 0 .. Len(attempt)]
  /\ aside \subseteq DOMAIN attempt
  /\ transcript \subseteq [attempt : DOMAIN attempt,
                           status : {"completed", "failed", "preserved"}]
  /\ listed \in [Run -> Nat]
  /\ kills \in 0 .. MaxKills
  /\ failures \in 0 .. MaxFailures

(* A run with a summary keeps it: no later sweep, of whatever number of    *)
(* workers, runs it again or moves its directory.                          *)
CompletedStays ==
  [][\A r \in Run : Summarized(r) => Summarized(r)' /\ dir'[r] = dir[r]]_vars

(* Nothing an attempt wrote is deleted or overwritten by a later one.      *)
AttemptsKept ==
  \A n \in DOMAIN attempt : n \in aside \/ dir[attempt[n].run] = n

(* No two workers ever work on one run. *)
Busy(w) == sweep = "on" /\ pc[w] \notin {"ended", "raised"} /\ Left(w)
OneWorkerPerRun ==
  \A v, w \in Worker : Busy(v) /\ Busy(w) /\ RunOf(v) = RunOf(w) => v = w

(* A sweep that returns lists every run once, and each has its summary.    *)
ReturnsEveryRun ==
  sweep = "returned" => \A r \in Run : listed[r] = 1 /\ Summarized(r)

(* A sweep ends, also when some of its workers raise. *)
SweepEnds == sweep = "on" ~> sweep # "on"
=============================================================================
