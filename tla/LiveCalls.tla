----------------------------- MODULE LiveCalls -----------------------------
(***************************************************************************)
(* The live calls of one budget phase and the records they leave: the gate *)
(* of src/ojcoms_poc/orchestration.py, the retry loop of                   *)
(* OpenAISupervisor.decide in agents.py, the simulation runs that ask it   *)
(* one request after the other (runner.py), the audits that ask it anew    *)
(* for recorded states from a pool of threads                              *)
(* (scripts/independent_latency_audit.py) or several times over            *)
(* (repeatability_audit.py; once, model_validation.py), and the replay of  *)
(* a recorded run (scripts/replay.py).                                     *)
(*                                                                         *)
(* The ledger of BudgetLedger appears as the number of attempts it granted *)
(* and their ceiling.                                                      *)
(***************************************************************************)
EXTENDS Integers, SequencesExt, FiniteSetsExt

CONSTANTS
  Run,           \* live runs of the plan
  Agent,         \* an audit's threads, one for each agent, or its repetitions
  Requests,      \* run -> requests it makes
  States,        \* recorded states an audit asks for
  MaxRetries,    \* max_retries
  Platforms,     \* what the platform's record and the environment may say
  Ceilings,      \* values of the phase's ceiling of request attempts
  Workers,       \* processes of a sweep
  Pilot,         \* TRUE when the budget phase is the pilot
  MaxStarts,     \* bound: how often runs and audits are started
  MaxKills,      \* bound: kills of a process
  MaxReplays,    \* bound: replays of recorded runs
  MaxLost,       \* bound: messages the emulated network loses
  None

Caller == Run \cup Agent
Platform ==
  [limit : {"none", "soft", "hard"}, acknowledged : BOOLEAN, fits : BOOLEAN,
   local_matches : BOOLEAN, key : BOOLEAN]
Kind == {"ok", "invalid", "transient", "other"}

ASSUME CallsAssumption ==
  /\ IsFiniteSet(Caller) /\ Run \cap Agent = {} /\ Agent # {}
  /\ Requests \in [Run -> Nat \ {0}] /\ States \in Nat \ {0}
  /\ Platforms \subseteq Platform
  /\ MaxRetries \in Nat /\ Ceilings \subseteq Nat /\ Workers \in Nat \ {0}
  /\ Pilot \in BOOLEAN /\ {MaxStarts, MaxKills, MaxReplays, MaxLost} \subseteq Nat

(* planned_calls and CALLS: one call for each request, and for each agent  *)
(* or repetition of an audited state.                                      *)
Asks == UNION {{r} \X (1 .. Requests[r]) : r \in Run}
Planned == Cardinality(Asks) + States * Cardinality(Agent)

VARIABLES
  platform,  \* platform_budget_gate.json and the environment
  manifest,  \* budget_manifest_<phase>.json
  ceiling,   \* the phase's ceiling of attempts
  spent,     \* attempts the ledger granted in the phase
  pc,        \* caller -> where it stands
  turn,      \* run -> its present request
  lost,      \* run -> requests and responses the emulated network lost
  attempt,   \* caller -> attempts of its present call
  rows,      \* caller -> what it appended to its api_calls.jsonl
  tally,     \* run -> api_calls, api_failures, api_invalid_responses
  summary,   \* run -> the counters in its summary.json
  audit,     \* the audit: batches of calls left, the present one, rows collected
  table,     \* the audit's table
  replays,   \* run -> verdicts of its replays
  past       \* history: starts, kills, rows set aside, attempts without a row

gate == <<platform, manifest, ceiling>>
calls == <<spent, attempt, rows>>
loop == <<turn, lost, tally, summary>>
callVars == <<gate, calls, pc, loop, audit, table, replays, past>>

Asking(c) == pc[c] \in {"authorize", "sent"} \cup Kind
Open(c) == pc[c] \in {"sent"} \cup Kind
Running(r) == pc[r] = "loop" \/ Asking(r)

Put(f, x, v) == [f EXCEPT ![x] = v]

NoneLost == [requests |-> {}, responses |-> {}]
NoCalls == [calls |-> 0, failures |-> 0, invalid |-> 0]
Idle == [at |-> "off", todo |-> {}, asked |-> {}, collected |-> {}]

CallsInit ==
  /\ platform \in Platforms /\ manifest = None /\ ceiling \in Ceilings
  /\ spent = 0
  /\ pc = [c \in Caller |-> "off"]
  /\ turn = [r \in Run |-> 1] /\ lost = [r \in Run |-> NoneLost]
  /\ attempt = [c \in Caller |-> 0]
  /\ rows = [c \in Caller |-> <<>>]
  /\ tally = [r \in Run |-> NoCalls] /\ summary = [r \in Run |-> None]
  /\ audit = Idle /\ table = None
  /\ replays = [r \in Run |-> <<>>]
  /\ past = [starts |-> 0, kills |-> 0, lost |-> 0, aside |-> 0, cut |-> 0]

-----------------------------------------------------------------------------
(* The gate. *)

(* prepare_budget_manifest, whose cost and call ceilings are proportional. *)
Prepare ==
  /\ manifest = None
  /\ manifest' = [planned |-> Planned, proceed |-> Planned <= ceiling]
  /\ UNCHANGED <<platform, ceiling, calls, pc, loop, audit, table, replays, past>>

(* Mutant of GateOpen: the plan is not compared with the ceiling. *)
GateOpenUnplanned ==
  /\ \/ platform.limit = "hard"
     \/ platform.limit = "soft" /\ platform.acknowledged /\ platform.local_matches
  /\ platform.fits /\ platform.key
  /\ manifest # None

(* verify_live_gate *)
GateOpen ==
  /\ \/ platform.limit = "hard"
     \/ platform.limit = "soft" /\ platform.acknowledged /\ platform.local_matches
  /\ platform.fits /\ platform.key
  /\ manifest # None
  /\ manifest.proceed /\ manifest.planned <= ceiling

-----------------------------------------------------------------------------
(* OpenAISupervisor.decide: the ledger grants every attempt; its usage row *)
(* is appended when the answer is there, then the row of the record.       *)

Refused == spent >= ceiling

Authorize(c) ==
  /\ pc[c] = "authorize" /\ ~Refused
  /\ spent' = spent + 1
  /\ attempt' = Put(attempt, c, attempt[c] + 1)
  /\ pc' = Put(pc, c, "sent")
  /\ UNCHANGED <<gate, rows, loop, audit, table, replays, past>>

(* BudgetExceededError passes every handler: the run or the audit ends.    *)
Refuse(c) ==
  /\ pc[c] = "authorize" /\ Refused
  /\ pc' = Put(pc, c, "raised")
  /\ UNCHANGED <<gate, calls, loop, audit, table, replays, past>>

Answer(c, kind) ==
  /\ pc[c] = "sent"
  /\ pc' = Put(pc, c, kind)
  /\ UNCHANGED <<gate, calls, loop, audit, table, replays, past>>

Row(c) == [k |-> IF c \in Run THEN turn[c] ELSE 0, kind |-> pc[c]]
Log(c) == rows' = Put(rows, c, Append(rows[c], Row(c)))

(* Mutants of Retry: one more than allowed, and without a row. *)
RetryOnceMore(c) ==
  /\ pc[c] = "transient" /\ attempt[c] <= MaxRetries + 1
  /\ Log(c)
  /\ pc' = Put(pc, c, "authorize")
  /\ UNCHANGED <<gate, spent, attempt, loop, audit, table, replays, past>>
RetryUnlogged(c) ==
  /\ pc[c] = "transient" /\ attempt[c] <= MaxRetries
  /\ pc' = Put(pc, c, "authorize")
  /\ UNCHANGED <<gate, calls, loop, audit, table, replays, past>>

Retry(c) ==
  /\ pc[c] = "transient" /\ attempt[c] <= MaxRetries
  /\ Log(c)
  /\ pc' = Put(pc, c, "authorize")
  /\ UNCHANGED <<gate, spent, attempt, loop, audit, table, replays, past>>

Concludes(c) == pc[c] \in Kind /\ (pc[c] = "transient" => attempt[c] > MaxRetries)

-----------------------------------------------------------------------------
(* A run of the simulator, whose loop asks for one request at a time.      *)

Started == past' = [past EXCEPT !.starts = past.starts + 1]

(* _run_ordered: what a run that did not end left is set aside, whole.     *)
(* Mutant of Start: the run goes on in the directory it finds. *)
StartInPlace(r) ==
  /\ pc[r] \in {"off", "raised", "killed"} /\ summary[r] = None
  /\ GateOpen /\ past.starts < MaxStarts
  /\ Cardinality({s \in Run : Running(s)}) < Workers
  /\ pc' = Put(pc, r, "loop")
  /\ turn' = Put(turn, r, 1) /\ lost' = Put(lost, r, NoneLost)
  /\ tally' = Put(tally, r, NoCalls)
  /\ Started
  /\ UNCHANGED <<gate, calls, summary, audit, table, replays>>

Start(r) ==
  /\ pc[r] \in {"off", "raised", "killed"} /\ summary[r] = None
  /\ GateOpen /\ past.starts < MaxStarts
  /\ Cardinality({s \in Run : Running(s)}) < Workers
  /\ pc' = Put(pc, r, "loop")
  /\ turn' = Put(turn, r, 1) /\ lost' = Put(lost, r, NoneLost)
  /\ tally' = Put(tally, r, NoCalls)
  /\ rows' = Put(rows, r, <<>>)
  /\ past' = [past EXCEPT !.starts = past.starts + 1,
                          !.aside = past.aside + Len(rows[r])]
  /\ UNCHANGED <<gate, spent, attempt, summary, audit, table, replays>>

(* The next request is lost by the emulated network, or put to decide().   *)
Loses == past.lost < MaxLost /\ past' = [past EXCEPT !.lost = past.lost + 1]

Lose(r) ==
  /\ pc[r] = "loop" /\ turn[r] <= Requests[r] /\ Loses
  /\ lost' = [lost EXCEPT ![r].requests = lost[r].requests \cup {turn[r]}]
  /\ turn' = Put(turn, r, turn[r] + 1)
  /\ tally' = [tally EXCEPT ![r].failures = tally[r].failures + 1]
  /\ UNCHANGED <<gate, calls, pc, summary, audit, table, replays>>

Ask(r) ==
  /\ pc[r] = "loop" /\ turn[r] <= Requests[r]
  /\ pc' = Put(pc, r, "authorize")
  /\ attempt' = Put(attempt, r, 0)
  /\ UNCHANGED <<gate, spent, rows, loop, audit, table, replays, past>>

(* The loop counts an answer, an invalid one and a failure and goes on; an *)
(* error it does not name ends the run, and so does, in the pilot, a       *)
(* failure before the first answer.  An answer lost on its way back is     *)
(* counted as an answer and as a failure.                                  *)
Ends(r) ==
  \/ pc[r] = "other"
  \/ pc[r] = "transient" /\ Pilot /\ tally[r].calls = 0

Counted(t, kind) ==
  CASE kind = "ok" -> [t EXCEPT !.calls = t.calls + 1]
    [] kind = "invalid" -> [t EXCEPT !.failures = t.failures + 1, !.invalid = t.invalid + 1]
    [] kind = "transient" -> [t EXCEPT !.failures = t.failures + 1]
    [] OTHER -> t

Conclude(r) ==
  /\ r \in Run /\ Concludes(r)
  /\ Log(r)
  /\ tally' = Put(tally, r, Counted(tally[r], pc[r]))
  /\ IF Ends(r) THEN pc' = Put(pc, r, "raised") /\ UNCHANGED turn
     ELSE pc' = Put(pc, r, "loop") /\ turn' = Put(turn, r, turn[r] + 1)
  /\ UNCHANGED <<gate, spent, attempt, lost, summary, audit, table, replays, past>>

AnswerLost(r) ==
  /\ pc[r] = "ok" /\ Loses
  /\ Log(r)
  /\ lost' = [lost EXCEPT ![r].responses = lost[r].responses \cup {turn[r]}]
  /\ tally' = [tally EXCEPT ![r].calls = tally[r].calls + 1,
                            ![r].failures = tally[r].failures + 1]
  /\ pc' = Put(pc, r, "loop") /\ turn' = Put(turn, r, turn[r] + 1)
  /\ UNCHANGED <<gate, spent, attempt, summary, audit, table, replays>>

Summarize(r) ==
  /\ pc[r] = "loop" /\ turn[r] > Requests[r]
  /\ pc' = Put(pc, r, "done")
  /\ summary' = Put(summary, r, tally[r])
  /\ UNCHANGED <<gate, calls, turn, lost, tally, audit, table, replays, past>>

-----------------------------------------------------------------------------
(* An audit asks for some recorded states anew and writes its table at the *)
(* end: the calls of a state in parallel, from a pool of threads, or all   *)
(* one after the other.                                                    *)

OnRecord(runs) ==
  {at \in UNION {{r} \X DOMAIN rows[r] : r \in runs} : rows[at[1]][at[2]].kind = "ok"}

Candidates == OnRecord({r \in Run : summary[r] # None})

InParallel(chosen) == {{state} \X Agent : state \in chosen}
Repeatedly(chosen) == {{call} : call \in chosen \X Agent}

(* repeatability_audit.py raises when a record has no summary beside it.   *)
Readable == past.aside = 0 /\ \A r \in Run : rows[r] # <<>> => summary[r] # None

(* The sample is stratified; any selection of the right size.              *)
Selections == kSubset(States, Candidates)

AuditStart ==
  /\ audit.at \in {"off", "ended"} /\ table = None
  /\ GateOpen /\ past.starts < MaxStarts
  /\ \E chosen \in Selections :
       \/ audit' = [Idle EXCEPT !.at = "next", !.todo = InParallel(chosen)]
       \/ Readable /\ audit' = [Idle EXCEPT !.at = "next", !.todo = Repeatedly(chosen)]
  /\ Started
  /\ UNCHANGED <<gate, calls, pc, loop, table, replays>>

Asked(batch) == {call[2] : call \in batch}

AskBatch(batch) ==
  /\ audit.at = "next" /\ batch \in audit.todo
  /\ audit' = [audit EXCEPT !.at = "batch", !.todo = audit.todo \ {batch}, !.asked = batch]
  /\ pc' = [c \in Caller |-> IF c \in Asked(batch) THEN "authorize" ELSE pc[c]]
  /\ attempt' = [c \in Caller |-> IF c \in Asked(batch) THEN 0 ELSE attempt[c]]
  /\ UNCHANGED <<gate, spent, rows, loop, table, replays, past>>

CallEnds(a) ==
  /\ a \in Agent /\ Concludes(a)
  /\ Log(a)
  /\ pc' = Put(pc, a, CASE pc[a] = "ok" -> "answered" [] pc[a] = "other" -> "raised"
                        [] OTHER -> "failed")
  /\ UNCHANGED <<gate, spent, attempt, loop, audit, table, replays, past>>

Joined ==
  audit.at = "batch" /\ \A a \in Asked(audit.asked) : pc[a] \in {"answered", "failed", "raised"}
Collected ==
  audit.collected \cup
    {[state |-> call[1], agent |-> call[2], status |-> pc[call[2]]] :
       call \in {asked \in audit.asked : pc[asked[2]] # "raised"}}
Dismissed == [c \in Caller |-> IF c \in Agent THEN "off" ELSE pc[c]]

(* Mutant of BatchEnds: the audit goes on with the rows it has. *)
BatchEndsAnyway ==
  /\ Joined
  /\ audit' = [audit EXCEPT !.at = "next", !.collected = Collected]
  /\ pc' = Dismissed
  /\ UNCHANGED <<gate, calls, loop, table, replays, past>>

(* Leaving the pool waits for every thread.  An error the audit does not   *)
(* name ends it, and the rows it has are lost.                             *)
BatchEnds ==
  /\ Joined
  /\ audit' = IF \E a \in Agent : pc[a] = "raised" THEN [Idle EXCEPT !.at = "ended"]
              ELSE [audit EXCEPT !.at = "next", !.collected = Collected]
  /\ pc' = Dismissed
  /\ UNCHANGED <<gate, calls, loop, table, replays, past>>

WriteTable ==
  /\ audit.at = "next" /\ audit.todo = {}
  /\ table' = audit.collected
  /\ audit' = [Idle EXCEPT !.at = "ended"]
  /\ UNCHANGED <<gate, calls, pc, loop, replays, past>>

-----------------------------------------------------------------------------
(* A process is killed: what it was granted leaves no row of its record.   *)
Cut(callers) ==
  past' = [past EXCEPT !.kills = past.kills + 1,
                       !.cut = past.cut + Cardinality({c \in callers : Open(c)})]

KillRun(r) ==
  /\ Running(r) /\ past.kills < MaxKills
  /\ pc' = Put(pc, r, "killed")
  /\ Cut({r})
  /\ UNCHANGED <<gate, calls, loop, audit, table, replays>>

KillAudit ==
  /\ audit.at \in {"next", "batch"} /\ past.kills < MaxKills
  /\ pc' = Dismissed
  /\ audit' = [Idle EXCEPT !.at = "ended"]
  /\ Cut(Agent)
  /\ UNCHANGED <<gate, calls, loop, table, replays>>

-----------------------------------------------------------------------------
(* replay.py runs a completed run again, with the same seed, answered from *)
(* the valid rows of its record: each request must match the next row, and *)
(* all must be consumed.  Then the logs are compared, to which the same    *)
(* replay made before has written its own.                                 *)

(* Mutant of Valid: the rows of failed attempts too. *)
ValidOrNot(r) == DOMAIN rows[r]
Valid(r) == {i \in DOMAIN rows[r] : rows[r][i].kind = "ok"}

Repeated(r) == 1 .. Requests[r] \ lost[r].requests
Earlier(positions, x) == {y \in positions : y < x}

(* The row a request meets is as far in the record as the request is in    *)
(* the run.                                                                *)
Matched(r, k) ==
  \E i \in Valid(r) :
    /\ rows[r][i].k = k
    /\ Cardinality(Earlier(Valid(r), i)) = Cardinality(Earlier(Repeated(r), k))
Reproduced(r) ==
  /\ Valid(r) # {} /\ Cardinality(Valid(r)) = Cardinality(Repeated(r))
  /\ \A k \in Repeated(r) : Matched(r, k)

Replay(r) ==
  /\ summary[r] # None /\ Len(replays[r]) < MaxReplays
  /\ LET verdict == IF ~Reproduced(r) THEN "raised"
                    ELSE IF replays[r] # <<>> THEN "differs" ELSE "passed"
     IN replays' = Put(replays, r, Append(replays[r], verdict))
  /\ UNCHANGED <<gate, calls, pc, loop, audit, table, past>>

-----------------------------------------------------------------------------
Quiet ==
  /\ \A c \in Caller : ~Asking(c) /\ pc[c] # "loop"
  /\ audit.at \in {"off", "ended"}
  /\ UNCHANGED callVars

CallsNext ==
  \/ Prepare
  \/ \E c \in Caller :
       \/ Authorize(c) \/ Refuse(c) \/ Retry(c) \/ Conclude(c) \/ CallEnds(c)
       \/ \E kind \in Kind : Answer(c, kind)
  \/ \E r \in Run :
       \/ Start(r) \/ Lose(r) \/ Ask(r) \/ AnswerLost(r) \/ Summarize(r)
       \/ KillRun(r) \/ Replay(r)
  \/ AuditStart \/ (\E batch \in audit.todo : AskBatch(batch))
  \/ BatchEnds \/ WriteTable \/ KillAudit
  \/ Quiet

CallsSpec == CallsInit /\ [][CallsNext]_callVars

-----------------------------------------------------------------------------
(* Properties. *)

(* Type invariant; a call is tried max_retries times more, and the ceiling *)
(* of the phase holds.                                                     *)
CallsTypeOK ==
  /\ platform \in Platforms /\ ceiling \in Ceilings /\ spent \in 0 .. ceiling
  /\ pc \in [Caller -> {"off", "loop", "authorize", "sent", "raised", "killed", "done",
                        "answered", "failed"} \cup Kind]
  /\ \A r \in Run : turn[r] \in 1 .. Requests[r] + 1
  /\ attempt \in [Caller -> 0 .. MaxRetries + 1]
  /\ audit.at \in {"off", "next", "batch", "ended"}

(* Every attempt the ledger granted is a row of one record, open, or one a *)
(* kill cut short: records and ledger tell the same story.                 *)
Logged == UNION {{c} \X DOMAIN rows[c] : c \in Caller}
AttemptsAccounted ==
  spent = Cardinality(Logged) + past.aside + past.cut + Cardinality({c \in Caller : Open(c)})

(* The counters of a completed run are those of its own record and of what *)
(* the network lost: one valid row for each answer, an invalid one for each*)
(* invalid answer, a failure for each request given up; the requests are in*)
(* order and none is tried too often, whatever was killed before.          *)
OfKind(r, kind) == {i \in DOMAIN rows[r] : rows[r][i].kind = kind}
Tries(r, k) == {i \in DOMAIN rows[r] : rows[r][i].k = k}
GivenUp(r) ==
  {k \in 1 .. Requests[r] : Tries(r, k) # {} /\ Tries(r, k) \subseteq OfKind(r, "transient")}
SummaryMatchesRecord ==
  \A r \in Run : summary[r] # None =>
    /\ summary[r].calls = Cardinality(OfKind(r, "ok"))
    /\ summary[r].invalid = Cardinality(OfKind(r, "invalid"))
    /\ summary[r].failures =
         Cardinality(lost[r].requests) + Cardinality(lost[r].responses)
           + summary[r].invalid + Cardinality(GivenUp(r))
    /\ \A i, j \in DOMAIN rows[r] : i < j => rows[r][i].k <= rows[r][j].k
    /\ \A k \in 1 .. Requests[r] : Cardinality(Tries(r, k)) <= MaxRetries + 1

(* The plan the gate approved fits the ceiling: no call is refused its     *)
(* first attempt unless attempts outside the plan (retries, those of runs  *)
(* and audits that did not end) have used up the room it left.             *)
Begun(r) ==
  {k \in 1 .. Requests[r] \ lost[r].requests :
     k < turn[r] \/ (k = turn[r] /\ pc[r] # "loop" /\ attempt[r] > 0)}
Underway == {r \in Run : Running(r) \/ summary[r] # None}
AuditWork ==
  (IF table # None THEN Cardinality(table) ELSE Cardinality(audit.collected))
  + (IF audit.at = "batch" THEN Cardinality({a \in Asked(audit.asked) : attempt[a] > 0}) ELSE 0)
Useful == Cardinality(UNION {{r} \X Begun(r) : r \in Underway}) + AuditWork
PlanFits ==
  (\E c \in Caller : pc[c] = "authorize" /\ attempt[c] = 0) /\ Refused =>
    spent > Useful /\ spent - Useful > ceiling - Planned

(* The table of an audit has a row for every state and agent, from states  *)
(* that completed runs have on record.                                     *)
AuditComplete ==
  table # None =>
    LET asked == {row.state : row \in table}
    IN /\ asked \subseteq Candidates /\ Cardinality(asked) = States
       /\ \A state \in asked, a \in Agent :
            \E row \in table : row.state = state /\ row.agent = a

(* The first replay of a run passes exactly when the run got an answer to  *)
(* every request the network did not lose, after retries or not.           *)
CleanReplay ==
  \A r \in Run : replays[r] # <<>> =>
    (replays[r][1] = "passed" <=>
       /\ summary[r].failures = Cardinality(lost[r].requests) + Cardinality(lost[r].responses)
       /\ summary[r].calls > 0)

(* replay.py "Exactly replays one recorded live run against payload hashes *)
(* and recorded responses." (scripts/README.md:14)                         *)
ReplayReproduces ==
  \A r \in Run : \A i \in DOMAIN replays[r] : replays[r][i] = "passed"
=============================================================================
