--------------------------- MODULE LiveCallsProofs ---------------------------
(* Proofs about LiveCalls, for every plan, ceiling and number of retries,  *)
(* any number of kills, restarts, audits and lost messages.                *)
EXTENDS LiveCalls, FiniteSetTheorems, SequenceTheorems, TLAPS

-----------------------------------------------------------------------------
(* The inductive invariant, in layers. *)

Status == {"off", "loop", "authorize", "sent", "raised", "killed", "done",
           "answered", "failed"} \cup Kind
RecordRow == [k : Nat, kind : Kind]
Counters == [calls : Nat, failures : Nat, invalid : Nat]
Losses == [requests : SUBSET Nat, responses : SUBSET Nat]
AuditCall == (Run \X Nat) \X Agent
TableRow == [state : Run \X Nat, agent : Agent, status : {"answered", "failed"}]

AuditState ==
  [at : {"off", "next", "batch", "ended"}, todo : SUBSET SUBSET AuditCall,
   asked : SUBSET AuditCall, collected : SUBSET TableRow]
History == [starts : Nat, kills : Nat, lost : Nat, aside : Nat, cut : Nat]

Shapes ==
  /\ turn \in [Run -> Nat] /\ lost \in [Run -> Losses]
  /\ rows \in [Caller -> Seq(RecordRow)]
  /\ tally \in [Run -> Counters] /\ summary \in [Run -> Counters \cup {None}]
  /\ audit \in AuditState /\ past \in History

(* A caller asks within its retries, a run within its requests; nobody     *)
(* asks before the gate was open; what a run left is final at its end.     *)
Tried ==
  \A c \in Caller :
    /\ pc[c] = "authorize" => attempt[c] <= MaxRetries
    /\ Open(c) => attempt[c] >= 1
AsksWithin == \A r \in Run : Asking(r) => turn[r] <= Requests[r]
Gated ==
  /\ manifest # None => manifest = [planned |-> Planned, proceed |-> Planned <= ceiling]
  /\ \/ past.starts = 0 /\ audit.at = "off" /\ \A c \in Caller : pc[c] = "off"
     \/ manifest # None /\ Planned <= ceiling
Final ==
  \A r \in Run : summary[r] # None =>
    pc[r] = "done" /\ summary[r] = tally[r] /\ turn[r] = Requests[r] + 1

Basics == CallsTypeOK /\ Shapes /\ Tried /\ AsksWithin /\ Gated /\ Final

(* A thread of the pool is busy only with a call of the present batch; the *)
(* batches left, the present one and the rows collected are, without any   *)
(* overlap, the calls for a sample of the states on record.                *)
Pairs(rowset) == {<<row.state, row.agent>> : row \in rowset}
OneEach(rowset) ==
  \A x, y \in rowset : x.state = y.state /\ x.agent = y.agent => x = y
OncePerAgent(batch) == \A x, y \in batch : x[2] = y[2] => x = y
Present == IF audit.at = "batch" THEN audit.asked ELSE {}
Covered == (UNION audit.todo) \cup Present \cup Pairs(audit.collected)

Separate(todo, present, collected) ==
  /\ \A b \in todo :
       /\ b \cap present = {} /\ b \cap Pairs(collected) = {}
       /\ \A d \in todo \ {b} : b \cap d = {}
       /\ OncePerAgent(b)
  /\ present \cap Pairs(collected) = {} /\ OncePerAgent(present) /\ OneEach(collected)
Apart == Separate(audit.todo, Present, audit.collected)
Sampled ==
  audit.at \in {"next", "batch"} =>
    table = None /\ Apart /\ \E chosen \in Selections : Covered = chosen \X Agent
Threads ==
  \A a \in Agent : pc[a] # "off" => audit.at = "batch" /\ a \in Asked(audit.asked)
Tabled ==
  table # None =>
    /\ table \subseteq TableRow /\ OneEach(table)
    /\ \E chosen \in Selections : Pairs(table) = chosen \X Agent

Auditing ==
  /\ Threads /\ Sampled /\ Tabled
  /\ audit.at \in {"off", "ended"} => audit.collected = {}

(* The record of a run under way, up to its present request.               *)
Past(r) == 1 .. turn[r] - 1
RecordSoFar(r) ==
  /\ tally[r].calls = Cardinality(OfKind(r, "ok"))
  /\ tally[r].invalid = Cardinality(OfKind(r, "invalid"))
  /\ lost[r].requests \subseteq Past(r) /\ lost[r].responses \subseteq Past(r)
  /\ tally[r].failures =
       Cardinality(lost[r].requests) + Cardinality(lost[r].responses)
         + tally[r].invalid + Cardinality(GivenUp(r) \cap Past(r))
  /\ \A i, j \in DOMAIN rows[r] : i < j => rows[r][i].k <= rows[r][j].k
  /\ \A k \in 1 .. Requests[r] : Cardinality(Tries(r, k)) <= MaxRetries + 1
  /\ \A i \in DOMAIN rows[r] :
       /\ rows[r][i].k <= turn[r]
       /\ rows[r][i].k = turn[r] => Asking(r) /\ rows[r][i].kind = "transient"
  /\ Asking(r) =>
       Cardinality(Tries(r, turn[r])) = attempt[r] - (IF Open(r) THEN 1 ELSE 0)
Records == \A r \in Run : Running(r) \/ pc[r] = "done" => RecordSoFar(r)

(* Every request that was not lost has a row, a lost one has none; only    *)
(* the last row of a request may be other than that of a failed attempt.   *)
AnsweredSoFar(r) ==
  /\ \A k \in Past(r) : Tries(r, k) = {} <=> k \in lost[r].requests
  /\ \A i, j \in DOMAIN rows[r] :
       i < j /\ rows[r][i].k = rows[r][j].k => rows[r][i].kind = "transient"
  /\ \A i \in DOMAIN rows[r] : rows[r][i].k >= 1 /\ rows[r][i].kind # "other"
Answers == \A r \in Run : Running(r) \/ pc[r] = "done" => AnsweredSoFar(r)

Verdict == {"raised", "differs", "passed"}
Replays ==
  /\ replays \in [Run -> Seq(Verdict)]
  /\ \A r \in Run : replays[r] # <<>> =>
       summary[r] # None /\ (replays[r][1] = "passed" <=> Reproduced(r))

-----------------------------------------------------------------------------
(* The pairs of a key of a finite set with a member of its finite set. *)
LEMMA PairsFinite ==
  ASSUME NEW S, IsFiniteSet(S), NEW f, \A s \in S : IsFiniteSet(f[s])
  PROVE  IsFiniteSet(UNION {{s} \X f[s] : s \in S})
<1> DEFINE g == [s \in S |-> {s} \X f[s]]
           T == {{s} \X f[s] : s \in S}
<1>1. g \in Surjection(S, T)
  BY DEF Surjection
<1>2. IsFiniteSet(T)
  BY <1>1, FS_Surjection, Zenon
<1>3. ASSUME NEW t \in T
      PROVE  IsFiniteSet(t)
  <2>1. PICK s \in S : t = {s} \X f[s]
    OBVIOUS
  <2>2. IsFiniteSet({s}) /\ IsFiniteSet(f[s])
    BY FS_Singleton
  <2>3. QED
    BY <2>1, <2>2, FS_Product
<1>4. QED
  BY <1>2, <1>3, FS_UNION, Zenon

LEMMA AsksFinite == IsFiniteSet(Asks)
<1> DEFINE f == [r \in Run |-> 1 .. Requests[r]]
<1>1. IsFiniteSet(Run)
  BY CallsAssumption, FS_Subset DEF Caller
<1>2. ASSUME NEW r \in Run
      PROVE  IsFiniteSet(f[r])
  <2>1. 1 \in Int /\ Requests[r] \in Int
    BY CallsAssumption
  <2>2. QED
    BY <2>1, FS_Interval
<1> HIDE DEF f
<1>3. IsFiniteSet(UNION {{r} \X f[r] : r \in Run})
  BY <1>1, <1>2, PairsFinite
<1> USE DEF f
<1>4. UNION {{r} \X f[r] : r \in Run} = UNION {{r} \X (1 .. Requests[r]) : r \in Run}
  BY SMT
<1>5. QED
  BY <1>3, <1>4, Zenon DEF Asks

LEMMA ConstantFacts ==
  /\ IsFiniteSet(Run) /\ IsFiniteSet(Agent) /\ IsFiniteSet(Caller)
  /\ Run \subseteq Caller /\ Agent \subseteq Caller
  /\ \A r \in Run : r \notin Agent /\ Requests[r] \in Nat \ {0}
  /\ Planned \in Nat /\ States \in Nat \ {0} /\ MaxRetries \in Nat
  /\ Cardinality(Agent) \in Nat
<1>1. Run \subseteq Caller /\ Agent \subseteq Caller
  BY DEF Caller
<1>2. IsFiniteSet(Caller) /\ IsFiniteSet(Run) /\ IsFiniteSet(Agent)
  BY <1>1, CallsAssumption, FS_Subset
<1>3. /\ \A r \in Run : r \notin Agent /\ Requests[r] \in Nat \ {0}
      /\ States \in Nat \ {0} /\ MaxRetries \in Nat
  BY CallsAssumption
<1>4. Cardinality(Agent) \in Nat
  BY <1>2, FS_CardinalityType
<1>5. Cardinality(Asks) \in Nat
  BY AsksFinite, FS_CardinalityType
<1>6. Planned \in Nat
  BY <1>3, <1>4, <1>5 DEF Planned
<1>7. QED
  BY <1>1, <1>2, <1>3, <1>4, <1>6

LEMMA BasicsInit == CallsInit => Basics
<1> SUFFICES ASSUME CallsInit PROVE Basics
  OBVIOUS
<1> USE ConstantFacts
<1>1. CallsTypeOK
  BY CallsAssumption DEF CallsInit, CallsTypeOK, Idle
<1>2. Shapes
  <2>1. rows \in [Caller -> Seq(RecordRow)]
    BY EmptySeq, Zenon DEF CallsInit
  <2>2. QED
    BY <2>1 DEF CallsInit, Shapes, Losses, NoneLost, Counters, NoCalls, Idle, AuditState, History
<1>3. Tried /\ AsksWithin /\ Gated /\ Final
  BY DEF CallsInit, Tried, AsksWithin, Gated, Final, Open, Asking, Kind, Idle
<1>4. QED
  BY <1>1, <1>2, <1>3 DEF Basics

LEMMA Audits ==
  ASSUME NEW x \in AuditState, NEW y \in {"off", "next", "batch", "ended"},
         NEW todo \in SUBSET SUBSET AuditCall, NEW asked \in SUBSET AuditCall,
         NEW collected \in SUBSET TableRow
  PROVE  /\ [Idle EXCEPT !.at = "ended"] \in AuditState
         /\ [Idle EXCEPT !.at = "next", !.todo = todo] \in AuditState
         /\ [Idle EXCEPT !.at = "next", !.todo = todo].at = "next"
         /\ [Idle EXCEPT !.at = "ended"].at = "ended"
         /\ [x EXCEPT !.at = "batch", !.todo = todo, !.asked = asked] \in AuditState
         /\ [x EXCEPT !.at = "next", !.collected = collected] \in AuditState
         /\ x.at \in {"off", "next", "batch", "ended"}
         /\ x.todo \subseteq SUBSET AuditCall /\ x.asked \subseteq AuditCall
         /\ x.collected \subseteq TableRow
<1>1. Idle \in AuditState
  BY DEF Idle, AuditState
<1>2. \A z \in AuditState :
        /\ [z EXCEPT !.at = "ended"] \in AuditState
        /\ [z EXCEPT !.at = "next", !.todo = todo] \in AuditState
        /\ [z EXCEPT !.at = "batch", !.todo = todo, !.asked = asked] \in AuditState
        /\ [z EXCEPT !.at = "next", !.collected = collected] \in AuditState
  BY Zenon DEF AuditState
<1>3. /\ x.at \in {"off", "next", "batch", "ended"}
      /\ x.todo \subseteq SUBSET AuditCall /\ x.asked \subseteq AuditCall
      /\ x.collected \subseteq TableRow
  BY DEF AuditState
<1>4. /\ [Idle EXCEPT !.at = "next", !.todo = todo].at = "next"
      /\ [Idle EXCEPT !.at = "ended"].at = "ended"
  BY DEF Idle
<1>5. QED
  BY <1>1, <1>2, <1>3, <1>4, Zenon

LEMMA CandidateFacts ==
  ASSUME Shapes
  PROVE  /\ IsFiniteSet(Candidates) /\ Candidates \subseteq Run \X Nat
         /\ \A chosen \in SUBSET Candidates :
              /\ InParallel(chosen) \subseteq SUBSET AuditCall
              /\ Repeatedly(chosen) \subseteq SUBSET AuditCall
<1> DEFINE Ended == {r \in Run : summary[r] # None}
           All == UNION {{r} \X DOMAIN rows[r] : r \in Ended}
<1>1. ASSUME NEW r \in Run
      PROVE  DOMAIN rows[r] \subseteq Nat /\ IsFiniteSet(DOMAIN rows[r])
  <2>1. rows[r] \in Seq(RecordRow)
    BY ConstantFacts DEF Shapes
  <2>2. Len(rows[r]) \in Nat /\ DOMAIN rows[r] = 1 .. Len(rows[r])
    BY <2>1, LenProperties
  <2>3. IsFiniteSet(1 .. Len(rows[r]))
    BY <2>2, FS_Interval
  <2>4. QED
    BY <2>2, <2>3
<1>2. IsFiniteSet(Ended) /\ Ended \subseteq Run
  BY ConstantFacts, FS_Subset
<1>3. IsFiniteSet(All)
  <2> DEFINE f == [r \in Ended |-> DOMAIN rows[r]]
  <2>1. \A r \in Ended : IsFiniteSet(f[r])
    BY <1>1
  <2> HIDE DEF f, Ended
  <2>2. IsFiniteSet(UNION {{r} \X f[r] : r \in Ended})
    BY <1>2, <2>1, PairsFinite
  <2> USE DEF f
  <2>3. UNION {{r} \X f[r] : r \in Ended} = All
    BY SMT
  <2>4. QED
    BY <2>2, <2>3
<1>4. Candidates \subseteq All
  BY DEF Candidates, OnRecord
<1>5. All \subseteq Run \X Nat
  <2>1. ASSUME NEW x \in All
        PROVE  x \in Run \X Nat
    <3>1. PICK r \in Ended : x \in {r} \X DOMAIN rows[r]
      OBVIOUS
    <3>2. r \in Run /\ DOMAIN rows[r] \subseteq Nat
      BY <1>1
    <3>3. QED
      BY <3>1, <3>2
  <2>2. QED
    BY <2>1
<1>6. ASSUME NEW chosen \in SUBSET Candidates
      PROVE  /\ InParallel(chosen) \subseteq SUBSET AuditCall
             /\ Repeatedly(chosen) \subseteq SUBSET AuditCall
  <2>1. chosen \subseteq Run \X Nat
    BY <1>4, <1>5
  <2>2. InParallel(chosen) \subseteq SUBSET AuditCall
    BY <2>1 DEF InParallel, AuditCall
  <2>3. Repeatedly(chosen) \subseteq SUBSET AuditCall
    BY <2>1 DEF Repeatedly, AuditCall
  <2>4. QED
    BY <2>2, <2>3
<1>7. IsFiniteSet(Candidates)
  BY <1>3, <1>4, FS_Subset
<1>8. QED
  BY <1>4, <1>5, <1>6, <1>7

LEMMA AskedFacts ==
  ASSUME NEW batch \in SUBSET AuditCall
  PROVE  Asked(batch) \subseteq Agent /\ \A r \in Run : r \notin Asked(batch)
<1>1. Asked(batch) \subseteq Agent
  BY DEF Asked, AuditCall
<1>2. QED
  BY <1>1, ConstantFacts

LEMMA RowFacts ==
  ASSUME Basics, NEW c \in Caller, pc[c] \in Kind
  PROVE  /\ Row(c) \in RecordRow /\ Row(c).kind = pc[c]
         /\ c \in Run => Row(c).k = turn[c]
         /\ [rows EXCEPT ![c] = Append(rows[c], Row(c))] \in [Caller -> Seq(RecordRow)]
<1>1. Row(c) \in RecordRow /\ Row(c).kind = pc[c] /\ (c \in Run => Row(c).k = turn[c])
  BY DEF Row, RecordRow, Basics, Shapes
<1>2. rows \in [Caller -> Seq(RecordRow)]
  BY DEF Basics, Shapes
<1>3. Append(rows[c], Row(c)) \in Seq(RecordRow)
  BY <1>1, <1>2, AppendProperties
<1>4. [rows EXCEPT ![c] = Append(rows[c], Row(c))] \in [Caller -> Seq(RecordRow)]
  BY <1>2, <1>3, Zenon
<1>5. QED
  BY <1>1, <1>4

LEMMA Histories ==
  ASSUME NEW p \in History, NEW n \in Nat
  PROVE  /\ [p EXCEPT !.starts = p.starts + 1] \in History
         /\ [p EXCEPT !.lost = p.lost + 1] \in History
         /\ [p EXCEPT !.starts = p.starts + 1, !.aside = p.aside + n] \in History
         /\ [p EXCEPT !.kills = p.kills + 1, !.cut = p.cut + n] \in History
<1>1. /\ p.starts + 1 \in Nat /\ p.lost + 1 \in Nat /\ p.kills + 1 \in Nat
      /\ p.aside + n \in Nat /\ p.cut + n \in Nat
  BY DEF History
<1>2. \A i, j \in Nat :
        /\ [p EXCEPT !.starts = i] \in History /\ [p EXCEPT !.lost = i] \in History
        /\ [p EXCEPT !.starts = i, !.aside = j] \in History
        /\ [p EXCEPT !.kills = i, !.cut = j] \in History
  BY Zenon DEF History
<1>3. QED
  BY <1>1, <1>2, Zenon

LEMMA Tallies ==
  ASSUME NEW t \in Counters, NEW kind \in Kind
  PROVE  /\ Counted(t, kind) \in Counters
         /\ [t EXCEPT !.failures = t.failures + 1] \in Counters
         /\ [t EXCEPT !.calls = t.calls + 1, !.failures = t.failures + 1] \in Counters
<1>1. t.calls + 1 \in Nat /\ t.failures + 1 \in Nat /\ t.invalid + 1 \in Nat
  BY DEF Counters
<1>2. \A i, j \in Nat :
        /\ [t EXCEPT !.calls = i] \in Counters /\ [t EXCEPT !.failures = i] \in Counters
        /\ [t EXCEPT !.calls = i, !.failures = j] \in Counters
        /\ [t EXCEPT !.failures = i, !.invalid = j] \in Counters
  BY Zenon DEF Counters
<1>3. /\ [t EXCEPT !.failures = t.failures + 1] \in Counters
      /\ [t EXCEPT !.calls = t.calls + 1, !.failures = t.failures + 1] \in Counters
  BY <1>1, <1>2, Zenon
<1>4. Counted(t, kind) \in Counters
  BY <1>1, <1>2 DEF Counted
<1>5. QED
  BY <1>3, <1>4

-----------------------------------------------------------------------------
(* Each action keeps the basics. *)

LEMMA PrepareBasics ==
  ASSUME Basics, Prepare
  PROVE  Basics'
<1> USE DEF Basics, Prepare, gate, calls, loop, Put
<1>1. CallsTypeOK'
  BY ConstantFacts, CallsAssumption, SMT DEF CallsTypeOK, Kind, Open
<1>2. Shapes'
  BY ConstantFacts DEF Shapes, Counters, Losses
<1>3. Tried'
  BY ConstantFacts DEF Tried, CallsTypeOK, Open, Kind
<1>4. AsksWithin'
  BY ConstantFacts DEF AsksWithin, Asking, Kind, CallsTypeOK, Shapes, Final
<1>5. Gated'
  <2>1. manifest' = [planned |-> Planned, proceed |-> Planned <= ceiling] /\ manifest = None
    OBVIOUS
  <2>2. QED
    BY <2>1, Zenon DEF Gated
<1>6. Final'
  BY ConstantFacts DEF Final, Shapes
<1>7. QED
  BY <1>1, <1>2, <1>3, <1>4, <1>5, <1>6

LEMMA AuthorizeBasics ==
  ASSUME Basics, NEW c \in Caller, Authorize(c)
  PROVE  Basics'
<1> USE DEF Basics, Authorize, gate, calls, loop, Put, Refused
<1>1. CallsTypeOK'
  <2>1. spent' \in 0 .. ceiling'
    BY CallsAssumption, SMT DEF CallsTypeOK
  <2>2. attempt' \in [Caller -> 0 .. MaxRetries + 1]
    BY ConstantFacts, SMT DEF CallsTypeOK, Tried
  <2>3. pc' \in [Caller -> Status]
    BY Zenon DEF CallsTypeOK, Status
  <2>4. QED
    BY <2>1, <2>2, <2>3, Zenon DEF CallsTypeOK, Status
<1>2. Shapes'
  BY ConstantFacts DEF Shapes, Counters, Losses
<1>3. Tried'
  BY ConstantFacts DEF Tried, CallsTypeOK, Open, Kind
<1>4. AsksWithin'
  BY ConstantFacts DEF AsksWithin, Asking, Kind, CallsTypeOK, Shapes, Final
<1>5. Gated'
  BY ConstantFacts DEF Gated, Shapes
<1>6. Final'
  BY ConstantFacts DEF Final, Shapes
<1>7. QED
  BY <1>1, <1>2, <1>3, <1>4, <1>5, <1>6

LEMMA RefuseBasics ==
  ASSUME Basics, NEW c \in Caller, Refuse(c)
  PROVE  Basics'
<1> USE DEF Basics, Refuse, gate, calls, loop, Put
<1>1. CallsTypeOK'
  BY ConstantFacts, CallsAssumption, SMT DEF CallsTypeOK, Kind, Open
<1>2. Shapes'
  BY ConstantFacts DEF Shapes, Counters, Losses
<1>3. Tried'
  BY ConstantFacts DEF Tried, CallsTypeOK, Open, Kind
<1>4. AsksWithin'
  BY ConstantFacts DEF AsksWithin, Asking, Kind, CallsTypeOK, Shapes, Final
<1>5. Gated'
  BY ConstantFacts DEF Gated, Shapes
<1>6. Final'
  BY ConstantFacts DEF Final, Shapes
<1>7. QED
  BY <1>1, <1>2, <1>3, <1>4, <1>5, <1>6

LEMMA AnswerBasics ==
  ASSUME Basics, NEW c \in Caller, NEW kind \in Kind, Answer(c, kind)
  PROVE  Basics'
<1> USE DEF Basics, Answer, gate, calls, loop, Put
<1>1. CallsTypeOK'
  BY ConstantFacts, CallsAssumption, SMT DEF CallsTypeOK, Kind, Open
<1>2. Shapes'
  BY ConstantFacts DEF Shapes, Counters, Losses
<1>3. Tried'
  BY ConstantFacts DEF Tried, CallsTypeOK, Open, Kind
<1>4. AsksWithin'
  BY ConstantFacts DEF AsksWithin, Asking, Kind, CallsTypeOK, Shapes, Final
<1>5. Gated'
  BY ConstantFacts DEF Gated, Shapes
<1>6. Final'
  BY ConstantFacts DEF Final, Shapes
<1>7. QED
  BY <1>1, <1>2, <1>3, <1>4, <1>5, <1>6

LEMMA RetryBasics ==
  ASSUME Basics, NEW c \in Caller, Retry(c)
  PROVE  Basics'
<1> USE DEF Basics, Retry, gate, calls, loop, Put, Log, Row
<1>1. CallsTypeOK'
  BY ConstantFacts, CallsAssumption, SMT DEF CallsTypeOK, Kind, Open
<1>2. Shapes'
  <2>1. rows' \in [Caller -> Seq(RecordRow)]
    BY RowFacts, Zenon DEF Kind
  <2>2. QED
    BY <2>1, ConstantFacts DEF Shapes
<1>3. Tried'
  BY ConstantFacts DEF Tried, CallsTypeOK, Open, Kind
<1>4. AsksWithin'
  BY ConstantFacts DEF AsksWithin, Asking, Kind, CallsTypeOK, Shapes, Final
<1>5. Gated'
  BY ConstantFacts DEF Gated, Shapes
<1>6. Final'
  BY ConstantFacts DEF Final, Shapes
<1>7. QED
  BY <1>1, <1>2, <1>3, <1>4, <1>5, <1>6

LEMMA ConcludeBasics ==
  ASSUME Basics, NEW r \in Run, Conclude(r)
  PROVE  Basics'
<1> USE DEF Basics, Conclude, gate, calls, loop, Put, Log, Row, Concludes, Counted, Ends
<1>1. CallsTypeOK'
  <2>1. turn[r] \in 1 .. Requests[r] + 1 /\ turn[r] <= Requests[r] /\ turn[r] \in Nat
    BY ConstantFacts, SMT DEF CallsTypeOK, AsksWithin, Asking, Kind, Shapes, Concludes
  <2>2. turn[r] + 1 \in 1 .. Requests[r] + 1
    BY <2>1, ConstantFacts
  <2>3. turn' = turn \/ turn' = [turn EXCEPT ![r] = turn[r] + 1]
    BY Zenon
  <2>4. \A q \in Run : turn'[q] \in 1 .. Requests[q] + 1
    BY <2>2, <2>3, Zenon DEF CallsTypeOK, Shapes
  <2>5. pc' \in [Caller -> Status]
    BY Zenon DEF CallsTypeOK, Status
  <2>6. QED
    BY <2>4, <2>5, Zenon DEF CallsTypeOK, Status
<1>2. Shapes'
  <2>1. rows' \in [Caller -> Seq(RecordRow)]
    BY RowFacts, ConstantFacts, Zenon DEF Kind
  <2>2. tally' \in [Run -> Counters]
    BY Tallies, Zenon DEF Shapes, Kind
  <2>3. turn' \in [Run -> Nat]
    <3>1. turn[r] + 1 \in Nat
      BY DEF Shapes
    <3>2. QED
      BY <3>1, Zenon DEF Shapes
  <2>4. QED
    BY <2>1, <2>2, <2>3, Zenon DEF Shapes
<1>3. Tried'
  BY ConstantFacts DEF Tried, CallsTypeOK, Open, Kind
<1>4. AsksWithin'
  BY ConstantFacts DEF AsksWithin, Asking, Kind, CallsTypeOK, Shapes, Final
<1>5. Gated'
  <2>1. pc[r] # "off" /\ r \in Caller
    BY ConstantFacts DEF Kind
  <2>2. past.starts # 0 \/ (Planned <= ceiling /\ manifest # None)
    BY <2>1, Zenon DEF Gated
  <2>3. QED
    BY <2>1, <2>2, Zenon DEF Gated
<1>6. Final'
  <2>1. pc[r] # "done"
    BY Zenon DEF Kind, Asking, Running
  <2>2. summary[r] = None
    BY <2>1 DEF Final
  <2>3. \A q \in Run \ {r} : pc'[q] = pc[q] /\ tally'[q] = tally[q] /\ turn'[q] = turn[q]
    BY ConstantFacts, SMT DEF Shapes, CallsTypeOK
  <2>4. QED
    BY <2>2, <2>3, Zenon DEF Final
<1>7. QED
  BY <1>1, <1>2, <1>3, <1>4, <1>5, <1>6

LEMMA CallEndsBasics ==
  ASSUME Basics, NEW c \in Caller, CallEnds(c)
  PROVE  Basics'
<1> USE DEF Basics, CallEnds, gate, calls, loop, Put, Log, Row, Concludes
<1>1. CallsTypeOK'
  BY ConstantFacts, CallsAssumption, SMT DEF CallsTypeOK, Kind, Open
<1>2. Shapes'
  <2>1. rows' \in [Caller -> Seq(RecordRow)]
    BY RowFacts, Zenon DEF Kind
  <2>2. QED
    BY <2>1, ConstantFacts DEF Shapes
<1>3. Tried'
  BY ConstantFacts DEF Tried, CallsTypeOK, Open, Kind
<1>4. AsksWithin'
  BY ConstantFacts DEF AsksWithin, Asking, Kind, CallsTypeOK, Shapes, Final
<1>5. Gated'
  BY Zenon DEF Gated, Kind
<1>6. Final'
  BY ConstantFacts DEF Final, Shapes
<1>7. QED
  BY <1>1, <1>2, <1>3, <1>4, <1>5, <1>6

LEMMA StartBasics ==
  ASSUME Basics, NEW r \in Run, Start(r)
  PROVE  Basics'
<1> USE DEF Basics, Start, gate, calls, loop, Put, GateOpen, Running, Started
<1>1. CallsTypeOK'
  BY ConstantFacts, CallsAssumption, SMTT(30) DEF CallsTypeOK, Kind, Open
<1>2. Shapes'
  <2>1. rows[r] \in Seq(RecordRow) /\ Len(rows[r]) \in Nat
    BY ConstantFacts, LenProperties DEF Shapes
  <2>2. rows' \in [Caller -> Seq(RecordRow)]
    BY EmptySeq, Zenon DEF Shapes
  <2>3. tally' \in [Run -> Counters] /\ lost' \in [Run -> Losses] /\ turn' \in [Run -> Nat]
    BY DEF Shapes, Counters, NoCalls, Losses, NoneLost
  <2>4. past' \in History
    BY <2>1, Histories, Zenon DEF Shapes
  <2>5. QED
    BY <2>2, <2>3, <2>4, Zenon DEF Shapes
<1>3. Tried'
  BY ConstantFacts DEF Tried, CallsTypeOK, Open, Kind
<1>4. AsksWithin'
  BY ConstantFacts DEF AsksWithin, Asking, Kind, CallsTypeOK, Shapes, Final
<1>5. Gated'
  <2>1. manifest' # None /\ Planned <= ceiling'
    BY SMT DEF Gated
  <2>2. QED
    BY <2>1, Zenon DEF Gated
<1>6. Final'
  <2>1. \A q \in Run \ {r} : pc'[q] = pc[q] /\ tally'[q] = tally[q] /\ turn'[q] = turn[q]
    BY ConstantFacts, SMT DEF Shapes, CallsTypeOK
  <2>2. QED
    BY <2>1, Zenon DEF Final
<1>7. QED
  BY <1>1, <1>2, <1>3, <1>4, <1>5, <1>6

LEMMA LoseBasics ==
  ASSUME Basics, NEW r \in Run, Lose(r)
  PROVE  Basics'
<1> USE DEF Basics, Lose, gate, calls, loop, Put, Loses
<1>1. CallsTypeOK'
  BY ConstantFacts, CallsAssumption, SMT DEF CallsTypeOK, Kind, Open
<1>2. Shapes'
  <2>1. tally' \in [Run -> Counters]
    <3>1. tally[r] \in Counters
      BY Zenon DEF Shapes
    <3>2. [tally[r] EXCEPT !.failures = tally[r].failures + 1] \in Counters
      BY <3>1, Tallies DEF Kind
    <3>3. QED
      BY <3>2, Zenon DEF Shapes
  <2>2. turn' \in [Run -> Nat]
    BY DEF Shapes
  <2>3. past' \in History
    BY Histories, Zenon DEF Shapes
  <2>4. lost' \in [Run -> Losses]
    BY ZenonT(40) DEF Shapes, Losses
  <2>5. QED
    BY <2>1, <2>2, <2>3, <2>4, Zenon DEF Shapes
<1>3. Tried'
  BY ConstantFacts DEF Tried, CallsTypeOK, Open, Kind
<1>4. AsksWithin'
  BY ConstantFacts DEF AsksWithin, Asking, Kind, CallsTypeOK, Shapes, Final
<1>5. Gated'
  BY ConstantFacts DEF Gated, Shapes
<1>6. Final'
  BY ConstantFacts DEF Final, Shapes
<1>7. QED
  BY <1>1, <1>2, <1>3, <1>4, <1>5, <1>6

LEMMA AskBasics ==
  ASSUME Basics, NEW r \in Run, Ask(r)
  PROVE  Basics'
<1> USE DEF Basics, Ask, gate, calls, loop, Put
<1>1. CallsTypeOK'
  BY ConstantFacts, CallsAssumption, SMT DEF CallsTypeOK, Kind, Open
<1>2. Shapes'
  BY ConstantFacts DEF Shapes, Counters, Losses
<1>3. Tried'
  BY ConstantFacts DEF Tried, CallsTypeOK, Open, Kind
<1>4. AsksWithin'
  BY ConstantFacts DEF AsksWithin, Asking, Kind, CallsTypeOK, Shapes, Final
<1>5. Gated'
  BY ConstantFacts DEF Gated, Shapes
<1>6. Final'
  BY ConstantFacts DEF Final, Shapes
<1>7. QED
  BY <1>1, <1>2, <1>3, <1>4, <1>5, <1>6

LEMMA AnswerLostBasics ==
  ASSUME Basics, NEW r \in Run, AnswerLost(r)
  PROVE  Basics'
<1> USE DEF Basics, AnswerLost, gate, calls, loop, Put, Log, Row, Loses
<1>1. CallsTypeOK'
  <2>1. turn[r] \in 1 .. Requests[r] + 1 /\ turn[r] <= Requests[r] /\ turn[r] \in Nat
    BY ConstantFacts, SMT DEF CallsTypeOK, AsksWithin, Asking, Kind, Shapes, Concludes
  <2>2. turn[r] + 1 \in 1 .. Requests[r] + 1
    BY <2>1, ConstantFacts
  <2>3. turn' = turn \/ turn' = [turn EXCEPT ![r] = turn[r] + 1]
    BY Zenon
  <2>4. \A q \in Run : turn'[q] \in 1 .. Requests[q] + 1
    BY <2>2, <2>3, Zenon DEF CallsTypeOK, Shapes
  <2>5. pc' \in [Caller -> Status]
    BY Zenon DEF CallsTypeOK, Status
  <2>6. QED
    BY <2>4, <2>5, Zenon DEF CallsTypeOK, Status
<1>2. Shapes'
  <2>1. rows' \in [Caller -> Seq(RecordRow)]
    BY RowFacts, ConstantFacts, Zenon DEF Kind
  <2>2. tally' \in [Run -> Counters]
    <3>1. tally[r] \in Counters
      BY Zenon DEF Shapes
    <3>2. [tally[r] EXCEPT !.calls = tally[r].calls + 1, !.failures = tally[r].failures + 1]
            \in Counters
      BY <3>1, Tallies DEF Kind
    <3>3. QED
      BY <3>2, Zenon DEF Shapes
  <2>3. turn' \in [Run -> Nat]
    BY DEF Shapes
  <2>4. past' \in History
    BY Histories, Zenon DEF Shapes
  <2>5. lost' \in [Run -> Losses]
    BY ZenonT(40) DEF Shapes, Losses
  <2>6. QED
    BY <2>1, <2>2, <2>3, <2>4, <2>5, Zenon DEF Shapes
<1>3. Tried'
  BY ConstantFacts DEF Tried, CallsTypeOK, Open, Kind
<1>4. AsksWithin'
  BY ConstantFacts DEF AsksWithin, Asking, Kind, CallsTypeOK, Shapes, Final
<1>5. Gated'
  BY ConstantFacts DEF Gated, Shapes
<1>6. Final'
  BY ConstantFacts DEF Final, Shapes
<1>7. QED
  BY <1>1, <1>2, <1>3, <1>4, <1>5, <1>6

LEMMA SummarizeBasics ==
  ASSUME Basics, NEW r \in Run, Summarize(r)
  PROVE  Basics'
<1> USE DEF Basics, Summarize, gate, calls, loop, Put
<1>1. CallsTypeOK'
  BY ConstantFacts, CallsAssumption, SMT DEF CallsTypeOK, Kind, Open
<1>2. Shapes'
  BY Zenon DEF Shapes
<1>3. Tried'
  BY ConstantFacts DEF Tried, CallsTypeOK, Open, Kind
<1>4. AsksWithin'
  BY ConstantFacts DEF AsksWithin, Asking, Kind, CallsTypeOK, Shapes, Final
<1>5. Gated'
  BY ConstantFacts DEF Gated, Shapes
<1>6. Final'
  <2>1. turn[r] = Requests[r] + 1
    BY ConstantFacts, SMT DEF CallsTypeOK, Shapes
  <2>2. QED
    BY <2>1, ConstantFacts, Zenon DEF Final, Shapes, CallsTypeOK
<1>7. QED
  BY <1>1, <1>2, <1>3, <1>4, <1>5, <1>6

LEMMA KillRunBasics ==
  ASSUME Basics, NEW r \in Run, KillRun(r)
  PROVE  Basics'
<1> USE DEF Basics, KillRun, gate, calls, loop, Put, Cut, Running
<1>1. CallsTypeOK'
  BY ConstantFacts, CallsAssumption, SMT DEF CallsTypeOK, Kind, Open
<1>2. Shapes'
  <2>1. IsFiniteSet({c \in {r} : Open(c)})
    BY ConstantFacts, FS_Singleton, FS_Subset
  <2>2. Cardinality({c \in {r} : Open(c)}) \in Nat
    BY <2>1, FS_CardinalityType
  <2>3. past' \in History
    BY <2>2, Histories, Zenon DEF Shapes
  <2>4. QED
    BY <2>3, Zenon DEF Shapes
<1>3. Tried'
  BY ConstantFacts DEF Tried, CallsTypeOK, Open, Kind
<1>4. AsksWithin'
  BY ConstantFacts DEF AsksWithin, Asking, Kind, CallsTypeOK, Shapes, Final
<1>5. Gated'
  BY Zenon, ConstantFacts DEF Gated, Asking, Kind, Cut
<1>6. Final'
  <2>1. pc[r] # "done"
    BY Zenon DEF Kind, Asking, Running
  <2>2. summary[r] = None
    BY <2>1 DEF Final
  <2>3. \A q \in Run \ {r} : pc'[q] = pc[q] /\ tally'[q] = tally[q] /\ turn'[q] = turn[q]
    BY ConstantFacts, SMT DEF Shapes, CallsTypeOK
  <2>4. QED
    BY <2>2, <2>3, Zenon DEF Final
<1>7. QED
  BY <1>1, <1>2, <1>3, <1>4, <1>5, <1>6

LEMMA ReplayBasics ==
  ASSUME Basics, NEW r \in Run, Replay(r)
  PROVE  Basics'
<1> USE DEF Basics, Replay, gate, calls, loop, Put
<1>1. CallsTypeOK'
  BY ConstantFacts, CallsAssumption, SMT DEF CallsTypeOK, Kind, Open
<1>2. Shapes'
  BY ConstantFacts DEF Shapes, Counters, Losses
<1>3. Tried'
  BY ConstantFacts DEF Tried, CallsTypeOK, Open, Kind
<1>4. AsksWithin'
  BY ConstantFacts DEF AsksWithin, Asking, Kind, CallsTypeOK, Shapes, Final
<1>5. Gated'
  BY ConstantFacts DEF Gated, Shapes
<1>6. Final'
  BY ConstantFacts DEF Final, Shapes
<1>7. QED
  BY <1>1, <1>2, <1>3, <1>4, <1>5, <1>6

LEMMA AuditStartBasics ==
  ASSUME Basics, AuditStart
  PROVE  Basics'
<1> USE DEF Basics, AuditStart, gate, calls, loop, Put, GateOpen, Started
<1>1. CallsTypeOK'
  <2>1. audit'.at = "next"
    BY DEF Idle
  <2>2. QED
    BY <2>1, Zenon DEF CallsTypeOK
<1>2. Shapes'
  <2>1. PICK chosen \in Selections :
          \/ audit' = [Idle EXCEPT !.at = "next", !.todo = InParallel(chosen)]
          \/ audit' = [Idle EXCEPT !.at = "next", !.todo = Repeatedly(chosen)]
    BY Zenon
  <2>2. chosen \subseteq Candidates
    BY DEF Selections, kSubset
  <2>3. audit' \in AuditState
    <3>1. /\ InParallel(chosen) \subseteq SUBSET AuditCall
          /\ Repeatedly(chosen) \subseteq SUBSET AuditCall
      BY <2>2, CandidateFacts
    <3>2. audit \in AuditState
      BY DEF Shapes
    <3>3. \A todo \in SUBSET SUBSET AuditCall :
            [Idle EXCEPT !.at = "next", !.todo = todo] \in AuditState
      BY <3>2, Audits
    <3>4. QED
      BY <2>1, <3>1, <3>3
  <2>4. past' \in History
    BY Histories, Zenon DEF Shapes
  <2>5. QED
    BY <2>3, <2>4, Zenon DEF Shapes
<1>3. Tried'
  BY ConstantFacts DEF Tried, CallsTypeOK, Open, Kind
<1>4. AsksWithin'
  BY ConstantFacts DEF AsksWithin, Asking, Kind, CallsTypeOK, Shapes, Final
<1>5. Gated'
  BY ConstantFacts DEF Gated, Shapes
<1>6. Final'
  BY ConstantFacts DEF Final, Shapes
<1>7. QED
  BY <1>1, <1>2, <1>3, <1>4, <1>5, <1>6

LEMMA AskBatchBasics ==
  ASSUME Basics, NEW batch \in audit.todo, AskBatch(batch)
  PROVE  Basics'
<1> USE DEF Basics, AskBatch, gate, calls, loop, Put, Asked
<1>1. CallsTypeOK'
  BY ConstantFacts, CallsAssumption, SMT DEF CallsTypeOK, Kind, Open
<1>2. Shapes'
  <2>1. audit \in AuditState
    BY DEF Shapes
  <2>2. audit.todo \subseteq SUBSET AuditCall
    BY <2>1 DEF AuditState
  <2>3. audit' \in AuditState
    BY <2>1, <2>2, Zenon DEF AuditState
  <2>4. QED
    BY <2>3, Zenon DEF Shapes
<1>3. Tried'
  BY ConstantFacts DEF Tried, CallsTypeOK, Open, Kind
<1>4. AsksWithin'
  <2>1. batch \in SUBSET AuditCall
    BY DEF Shapes, AuditState
  <2>2. \A r \in Run : pc'[r] = pc[r]
    BY <2>1, AskedFacts, ConstantFacts
  <2>3. QED
    BY <2>2, Zenon DEF AsksWithin, Asking
<1>5. Gated'
  BY ConstantFacts DEF Gated, Shapes
<1>6. Final'
  <2>1. batch \in SUBSET AuditCall
    BY DEF Shapes, AuditState
  <2>2. \A r \in Run : pc'[r] = pc[r]
    BY <2>1, AskedFacts, ConstantFacts
  <2>3. QED
    BY <2>2, Zenon DEF Final
<1>7. QED
  BY <1>1, <1>2, <1>3, <1>4, <1>5, <1>6

LEMMA BatchEndsBasics ==
  ASSUME Basics, BatchEnds
  PROVE  Basics'
<1> USE DEF Basics, BatchEnds, gate, calls, loop, Put, Joined, Dismissed, Collected, Idle
<1>1. CallsTypeOK'
  BY ConstantFacts, CallsAssumption, SMT DEF CallsTypeOK, Kind, Open
<1>2. Shapes'
  <2>1. audit \in AuditState /\ audit.asked \subseteq AuditCall /\ audit.collected \subseteq TableRow
    BY DEF Shapes, AuditState
  <2>2. Collected \subseteq TableRow
    <3>1. ASSUME NEW call \in audit.asked, pc[call[2]] # "raised"
          PROVE  [state |-> call[1], agent |-> call[2], status |-> pc[call[2]]] \in TableRow
      <4>1. call[1] \in Run \X Nat /\ call[2] \in Agent
        BY <2>1 DEF AuditCall
      <4>2. call[2] \in Asked(audit.asked)
        BY DEF Asked
      <4>3. pc[call[2]] \in {"answered", "failed"}
        BY <3>1, <4>2
      <4>4. QED
        BY <4>1, <4>3, Zenon DEF TableRow
    <3>2. QED
      BY <2>1, <3>1
  <2>3. audit' \in AuditState
    <3> HIDE DEF Collected
    <3>1. QED
      BY <2>1, <2>2, Audits, Zenon
  <2>4. QED
    BY <2>3, Zenon DEF Shapes
<1>3. Tried'
  BY ConstantFacts DEF Tried, CallsTypeOK, Open, Kind
<1>4. AsksWithin'
  BY ConstantFacts DEF AsksWithin, Asking, Kind, CallsTypeOK, Shapes, Final
<1>5. Gated'
  BY ConstantFacts DEF Gated, Shapes
<1>6. Final'
  BY ConstantFacts DEF Final, Shapes
<1>7. QED
  BY <1>1, <1>2, <1>3, <1>4, <1>5, <1>6

LEMMA WriteTableBasics ==
  ASSUME Basics, WriteTable
  PROVE  Basics'
<1> USE DEF Basics, WriteTable, gate, calls, loop, Put, Idle
<1>1. CallsTypeOK'
  BY ConstantFacts, CallsAssumption, SMT DEF CallsTypeOK, Kind, Open
<1>2. Shapes'
  <2>1. audit' \in AuditState
    BY DEF AuditState
  <2>2. QED
    BY <2>1, Zenon DEF Shapes
<1>3. Tried'
  BY ConstantFacts DEF Tried, CallsTypeOK, Open, Kind
<1>4. AsksWithin'
  BY ConstantFacts DEF AsksWithin, Asking, Kind, CallsTypeOK, Shapes, Final
<1>5. Gated'
  BY ConstantFacts DEF Gated, Shapes
<1>6. Final'
  BY ConstantFacts DEF Final, Shapes
<1>7. QED
  BY <1>1, <1>2, <1>3, <1>4, <1>5, <1>6

LEMMA KillAuditBasics ==
  ASSUME Basics, KillAudit
  PROVE  Basics'
<1> USE DEF Basics, KillAudit, gate, calls, loop, Put, Cut, Dismissed, Idle
<1>1. CallsTypeOK'
  BY ConstantFacts, CallsAssumption, SMT DEF CallsTypeOK, Kind, Open
<1>2. Shapes'
  <2>1. IsFiniteSet({c \in Agent : Open(c)})
    BY ConstantFacts, FS_Subset
  <2>2. Cardinality({c \in Agent : Open(c)}) \in Nat
    BY <2>1, FS_CardinalityType
  <2>3. past' \in History
    BY <2>2, Histories, Zenon DEF Shapes
  <2>4. audit' \in AuditState
    BY DEF AuditState
  <2>5. QED
    BY <2>3, <2>4, Zenon DEF Shapes
<1>3. Tried'
  BY ConstantFacts DEF Tried, CallsTypeOK, Open, Kind
<1>4. AsksWithin'
  BY ConstantFacts DEF AsksWithin, Asking, Kind, CallsTypeOK, Shapes, Final
<1>5. Gated'
  BY ConstantFacts DEF Gated, Shapes
<1>6. Final'
  BY ConstantFacts DEF Final, Shapes
<1>7. QED
  BY <1>1, <1>2, <1>3, <1>4, <1>5, <1>6

LEMMA IdleBasics ==
  ASSUME Basics, UNCHANGED callVars
  PROVE  Basics'
<1> USE DEF Basics, gate, calls, loop, Put, callVars
<1>1. CallsTypeOK'
  BY ConstantFacts, CallsAssumption, SMT DEF CallsTypeOK, Kind, Open
<1>2. Shapes'
  BY ConstantFacts DEF Shapes, Counters, Losses
<1>3. Tried'
  BY ConstantFacts DEF Tried, CallsTypeOK, Open, Kind
<1>4. AsksWithin'
  BY ConstantFacts DEF AsksWithin, Asking, Kind, CallsTypeOK, Shapes, Final
<1>5. Gated'
  BY ConstantFacts DEF Gated, Shapes
<1>6. Final'
  BY ConstantFacts DEF Final, Shapes
<1>7. QED
  BY <1>1, <1>2, <1>3, <1>4, <1>5, <1>6

LEMMA BasicsNext == Basics /\ [CallsNext]_callVars => Basics'
<1> SUFFICES ASSUME Basics, [CallsNext]_callVars PROVE Basics'
  OBVIOUS
<1>1. CASE Quiet \/ UNCHANGED callVars
  BY <1>1, IdleBasics DEF Quiet
<1>2. ASSUME NEW c \in Caller,
             \/ Authorize(c) \/ Refuse(c) \/ Retry(c) \/ CallEnds(c)
             \/ \E kind \in Kind : Answer(c, kind)
      PROVE  Basics'
  BY <1>2, AuthorizeBasics, RefuseBasics, RetryBasics, CallEndsBasics, AnswerBasics
<1>3. ASSUME NEW r \in Run,
             \/ Conclude(r) \/ Start(r) \/ Lose(r) \/ Ask(r) \/ AnswerLost(r)
             \/ Summarize(r) \/ KillRun(r) \/ Replay(r)
      PROVE  Basics'
  BY <1>3, ConcludeBasics, StartBasics, LoseBasics, AskBasics, AnswerLostBasics,
     SummarizeBasics, KillRunBasics, ReplayBasics
<1>4. CASE \/ Prepare \/ AuditStart \/ \E batch \in audit.todo : AskBatch(batch)
           \/ BatchEnds \/ WriteTable \/ KillAudit
  BY <1>4, PrepareBasics, AuditStartBasics, AskBatchBasics, BatchEndsBasics,
     WriteTableBasics, KillAuditBasics
<1>5. \A c \in Caller : Conclude(c) => c \in Run
  BY DEF Conclude
<1>6. QED
  BY <1>1, <1>2, <1>3, <1>4, <1>5 DEF CallsNext

(* The ceiling holds, no call is tried more than max_retries times more,   *)
(* and every caller stands where the code can stand, for every plan and    *)
(* every interleaving of runs, threads and kills.                          *)
THEOREM CallsTypeCorrect == CallsSpec => []CallsTypeOK
<1>1. Basics => CallsTypeOK
  BY DEF Basics
<1>2. QED
  BY BasicsInit, BasicsNext, <1>1, PTL DEF CallsSpec

-----------------------------------------------------------------------------
(* The audits. *)

(* What a completed run left on record stays. *)
KeepsRecords ==
  \A r \in Run : summary[r] # None =>
    summary'[r] = summary[r] /\ rows'[r] = rows[r] /\ lost'[r] = lost[r]

LEMMA RecordsAreKept ==
  ASSUME Basics, [CallsNext]_callVars
  PROVE  KeepsRecords
<1> USE DEF calls, loop, gate, Put
<1>1. \A r \in Run : summary[r] # None => pc[r] = "done" /\ r \in Caller
  BY ConstantFacts DEF Basics, Final
<1>2. rows \in [Caller -> Seq(RecordRow)] /\ summary \in [Run -> Counters \cup {None}]
      /\ lost \in [Run -> Losses]
  BY DEF Basics, Shapes
<1>3. ASSUME NEW c \in Caller, pc[c] # "done", UNCHANGED <<summary, lost>>, Log(c)
      PROVE  KeepsRecords
  BY <1>1, <1>2, <1>3, Zenon DEF KeepsRecords, Log
<1>4. CASE UNCHANGED <<rows, summary, lost>>
  BY <1>4, Zenon DEF KeepsRecords
<1>5. CASE \E c \in Caller : Retry(c) \/ Conclude(c) \/ CallEnds(c)
  BY <1>3, <1>5 DEF Retry, Conclude, CallEnds, Concludes, Kind
<1>6. ASSUME NEW r \in Run, Start(r) \/ Lose(r) \/ AnswerLost(r) \/ Summarize(r)
      PROVE  KeepsRecords
  <2>1. pc[r] # "done"
    BY <1>6 DEF Start, Lose, AnswerLost, Summarize
  <2>2. \A q \in Run \ {r} : /\ rows'[q] = rows[q] /\ summary'[q] = summary[q]
                             /\ lost'[q] = lost[q]
    BY <1>2, <1>6, ConstantFacts, Zenon DEF Start, Lose, AnswerLost, Summarize, Log
  <2>3. QED
    BY <1>1, <2>1, <2>2, Zenon DEF KeepsRecords
<1>7. CASE \/ Prepare \/ AuditStart \/ (\E batch \in audit.todo : AskBatch(batch))
           \/ BatchEnds \/ WriteTable \/ KillAudit \/ Quiet \/ UNCHANGED callVars
           \/ \E c \in Caller : \/ Authorize(c) \/ Refuse(c)
                              \/ \E kind \in Kind : Answer(c, kind)
           \/ \E r \in Run : Ask(r) \/ KillRun(r) \/ Replay(r)
  BY <1>4, <1>7 DEF Prepare, AuditStart, AskBatch, BatchEnds, WriteTable, KillAudit, Quiet,
     callVars, Authorize, Refuse, Answer, Ask, KillRun, Replay
<1>8. QED
  BY <1>5, <1>6, <1>7 DEF CallsNext

LEMMA SelectionsGrow ==
  ASSUME KeepsRecords
  PROVE  Selections \subseteq Selections'
<1>1. Candidates \subseteq Candidates'
  <2>1. ASSUME NEW at \in Candidates
        PROVE  at \in Candidates'
    <3>1. PICK r \in {r \in Run : summary[r] # None} : at \in {r} \X DOMAIN rows[r]
      BY DEF Candidates, OnRecord
    <3>2. at[1] = r /\ rows[at[1]][at[2]].kind = "ok"
      BY <3>1 DEF Candidates, OnRecord
    <3>3. summary'[r] # None /\ rows'[r] = rows[r]
      BY DEF KeepsRecords
    <3>4. at \in {r} \X DOMAIN rows'[r] /\ rows'[at[1]][at[2]].kind = "ok"
      BY <3>1, <3>2, <3>3
    <3>5. r \in {q \in Run : summary'[q] # None}
      BY <3>3
    <3>6. QED
      BY <3>4, <3>5 DEF Candidates, OnRecord
  <2>2. QED
    BY <2>1
<1>2. QED
  BY <1>1 DEF Selections, kSubset

LEMMA AuditingInit == CallsInit => Auditing
BY ConstantFacts DEF CallsInit, Auditing, Threads, Sampled, Tabled, Idle

(* A step that leaves the audit alone and wakes no thread. *)
LEMMA AuditingFrame ==
  ASSUME Auditing, Selections \subseteq Selections', UNCHANGED <<audit, table>>,
         \A a \in Agent : pc[a] = "off" => pc'[a] = "off"
  PROVE  Auditing'
<1>1. Threads'
  BY DEF Auditing, Threads, Asked
<1>2. Apart' = Apart /\ Covered' = Covered
  BY DEF Apart, Separate, Covered, Present, Pairs, OneEach, OncePerAgent
<1>3. Sampled'
  BY <1>2, Zenon DEF Auditing, Sampled
<1>4. Tabled'
  BY DEF Auditing, Tabled, Pairs, OneEach
<1>5. QED
  BY <1>1, <1>3, <1>4 DEF Auditing

LEMMA Batches ==
  ASSUME NEW chosen, NEW todo, todo \in {InParallel(chosen), Repeatedly(chosen)}
  PROVE  /\ UNION todo = chosen \X Agent
         /\ \A b, d \in todo : b # d => b \cap d = {}
         /\ \A b \in todo : OncePerAgent(b)
<1>1. CASE todo = InParallel(chosen)
  <2>1. todo = {{state} \X Agent : state \in chosen}
    BY <1>1 DEF InParallel
  <2>2. UNION todo = chosen \X Agent
    BY <2>1
  <2>3. ASSUME NEW b \in todo, NEW d \in todo, b # d
        PROVE  b \cap d = {}
    <3>1. PICK s \in chosen, t \in chosen : b = {s} \X Agent /\ d = {t} \X Agent
      BY <2>1
    <3>2. QED
      BY <2>3, <3>1
  <2>4. ASSUME NEW b \in todo
        PROVE  OncePerAgent(b)
    BY <2>1 DEF OncePerAgent
  <2>5. QED
    BY <2>2, <2>3, <2>4
<1>2. CASE todo = Repeatedly(chosen)
  <2>1. todo = {{call} : call \in chosen \X Agent}
    BY <1>2 DEF Repeatedly
  <2>2. QED
    BY <2>1 DEF OncePerAgent
<1>3. QED
  BY <1>1, <1>2

LEMMA AuditStartAuditing ==
  ASSUME Basics, Auditing, AuditStart
  PROVE  Auditing'
<1>0. PICK chosen \in Selections :
        \/ audit' = [Idle EXCEPT !.at = "next", !.todo = InParallel(chosen)]
        \/ audit' = [Idle EXCEPT !.at = "next", !.todo = Repeatedly(chosen)]
  BY Zenon DEF AuditStart
<1>1. PICK todo \in {InParallel(chosen), Repeatedly(chosen)} :
        audit' = [Idle EXCEPT !.at = "next", !.todo = todo]
  BY <1>0
<1>2. /\ audit'.at = "next" /\ audit'.todo = todo /\ audit'.collected = {}
      /\ table' = None /\ UNCHANGED <<pc, rows, summary>>
  BY <1>1 DEF AuditStart, Idle, calls, loop
<1>3. \A a \in Agent : pc[a] = "off"
  BY DEF AuditStart, Auditing, Threads
<1>4. Present' = {} /\ Pairs({}) = {} /\ OneEach({}) /\ OncePerAgent({})
  BY <1>2 DEF Present, Pairs, OneEach, OncePerAgent
<1>5. Covered' = chosen \X Agent
  <2>1. Covered' = (UNION todo) \cup {} \cup Pairs({})
    BY <1>2, <1>4 DEF Covered
  <2>2. QED
    BY <1>4, <2>1, Batches
<1>6. Apart'
  <2>1. Separate(todo, {}, {})
    BY <1>4, Batches DEF Separate
  <2>2. QED
    BY <1>2, <1>4, <2>1, Zenon DEF Apart
<1>7. Selections' = Selections
  BY <1>2 DEF Selections, kSubset, Candidates, OnRecord
<1>8. Sampled'
  BY <1>2, <1>5, <1>6, <1>7 DEF Sampled
<1>9. QED
  BY <1>2, <1>3, <1>8 DEF Auditing, Threads, Tabled

LEMMA AskBatchAuditing ==
  ASSUME Basics, Auditing, NEW batch \in audit.todo, AskBatch(batch)
  PROVE  Auditing'
<1>1. /\ audit.at = "next" /\ audit \in AuditState
      /\ audit' = [audit EXCEPT !.at = "batch", !.todo = audit.todo \ {batch}, !.asked = batch]
      /\ UNCHANGED <<rows, summary, table>>
  BY DEF AskBatch, Basics, Shapes, calls, loop
<1>2. /\ audit'.at = "batch" /\ audit'.todo = audit.todo \ {batch} /\ audit'.asked = batch
      /\ audit'.collected = audit.collected
  BY <1>1 DEF AuditState
<1>3. Present = {} /\ Present' = batch
  BY <1>1, <1>2 DEF Present
<1>4. Threads'
  <2>1. \A a \in Agent : pc[a] = "off" /\ a \in Caller
    BY <1>1, ConstantFacts DEF Auditing, Threads
  <2>2. \A a \in Agent : pc'[a] # "off" => a \in Asked(batch)
    BY <2>1, Zenon DEF AskBatch
  <2>3. QED
    BY <1>2, <2>2 DEF Threads, Asked
<1>5. Sampled
  BY DEF Auditing
<1>6. table = None /\ Apart /\ \E chosen \in Selections : Covered = chosen \X Agent
  BY <1>1, <1>5 DEF Sampled
<1>7. Covered' = Covered
  <2>1. UNION audit.todo = (UNION (audit.todo \ {batch})) \cup batch
    <3> DEFINE all == UNION audit.todo
               others == UNION (audit.todo \ {batch})
    <3>1. \A x : x \in all <=> x \in others \/ x \in batch
      BY Zenon
    <3> HIDE DEF all, others
    <3>2. all = others \cup batch
      BY <3>1, SMT
    <3>3. QED
      BY <3>2 DEF all, others
  <2>2. QED
    BY <1>2, <1>3, <2>1 DEF Covered, Pairs
<1>8. Apart'
  <2>1. Separate(audit.todo, {}, audit.collected)
    BY <1>3, <1>6 DEF Apart
  <2>2. Separate(audit.todo \ {batch}, batch, audit.collected)
    BY <2>1 DEF Separate
  <2>3. QED
    BY <1>2, <1>3, <2>2, Zenon DEF Apart
<1>9. Selections' = Selections
  BY <1>1 DEF Selections, kSubset, Candidates, OnRecord
<1>10. Sampled'
  BY <1>1, <1>6, <1>7, <1>8, <1>9, Zenon DEF Sampled
<1>11. QED
  BY <1>1, <1>2, <1>4, <1>6, <1>10 DEF Auditing, Tabled

LEMMA BatchEndsAuditing ==
  ASSUME Basics, Auditing, BatchEnds
  PROVE  Auditing'
<1>1. /\ audit.at = "batch" /\ audit \in AuditState /\ UNCHANGED <<rows, summary, table>>
      /\ audit.asked \subseteq AuditCall
  BY DEF BatchEnds, Joined, Basics, Shapes, calls, loop, AuditState
<1>2. \A a \in Agent : pc'[a] = "off"
  BY ConstantFacts DEF BatchEnds, Dismissed
<1>3. table = None /\ Apart /\ \E chosen \in Selections : Covered = chosen \X Agent
  BY <1>1 DEF Auditing, Sampled
<1>4. CASE \E a \in Agent : pc[a] = "raised"
  <2>1. audit'.at = "ended" /\ audit'.collected = {}
    BY <1>4 DEF BatchEnds, Idle
  <2>2. QED
    BY <1>1, <1>2, <1>3, <2>1 DEF Auditing, Threads, Sampled, Tabled
<1>5. CASE ~\E a \in Agent : pc[a] = "raised"
  <2>1. audit' = [audit EXCEPT !.at = "next", !.collected = Collected]
    BY <1>5, Zenon DEF BatchEnds
  <2>2. audit'.at = "next" /\ audit'.todo = audit.todo /\ audit'.collected = Collected
    BY <1>1, <2>1 DEF AuditState
  <2>3. \A call \in audit.asked : call[2] \in Agent /\ call = <<call[1], call[2]>>
    BY <1>1 DEF AuditCall
  <2>4. Collected = audit.collected \cup
          {[state |-> call[1], agent |-> call[2], status |-> pc[call[2]]] : call \in audit.asked}
    BY <1>5, <2>3 DEF Collected
  <2>5. Pairs(Collected) = Pairs(audit.collected) \cup audit.asked
    <3> DEFINE TableRowOf(call) == [state |-> call[1], agent |-> call[2], status |-> pc[call[2]]]
    <3>1. \A call \in audit.asked : <<TableRowOf(call).state, TableRowOf(call).agent>> = call
      BY <2>3
    <3>2. Collected = audit.collected \cup {TableRowOf(call) : call \in audit.asked}
      BY <2>4
    <3> HIDE DEF Row
    <3>3. QED
      BY <3>1, <3>2, ZenonT(40) DEF Pairs
  <2>6. Present = audit.asked /\ Present' = {}
    BY <1>1, <2>2 DEF Present
  <2>7. Covered' = Covered
    BY <2>2, <2>5, <2>6 DEF Covered, Pairs
  <2>8. OneEach(Collected)
    <3>1. ASSUME NEW x \in Collected, NEW y \in Collected, x.state = y.state, x.agent = y.agent
          PROVE  x = y
      <4>1. CASE x \in audit.collected /\ y \in audit.collected
        BY <1>3, <3>1, <4>1 DEF Apart, Separate, OneEach
      <4>2. \A z \in audit.collected : <<z.state, z.agent>> \notin audit.asked
        BY <1>3, <2>6 DEF Apart, Separate, Pairs
      <4>3. \A z \in Collected \ audit.collected :
              <<z.state, z.agent>> \in audit.asked /\
              z = [state |-> z.state, agent |-> z.agent, status |-> pc[z.agent]]
        BY <2>3, <2>4
      <4>4. QED
        BY <3>1, <4>1, <4>2, <4>3
    <3>2. QED
      BY <3>1 DEF OneEach
  <2>9. Apart'
    <3>1. Separate(audit.todo, audit.asked, audit.collected)
      BY <1>3, <2>6 DEF Apart
    <3>2. OncePerAgent({})
      BY DEF OncePerAgent
    <3>3. Separate(audit.todo, {}, Collected)
      BY <2>5, <2>8, <3>1, <3>2 DEF Separate
    <3>4. QED
      BY <2>2, <2>6, <3>3, Zenon DEF Apart
  <2>10. Selections' = Selections
    BY <1>1 DEF Selections, kSubset, Candidates, OnRecord
  <2>11. Sampled'
    BY <1>1, <1>3, <2>7, <2>9, <2>10, Zenon DEF Sampled
  <2>12. QED
    BY <1>1, <1>2, <1>3, <2>2, <2>11 DEF Auditing, Threads, Tabled
<1>6. QED
  BY <1>4, <1>5

LEMMA WriteTableAuditing ==
  ASSUME Basics, Auditing, WriteTable
  PROVE  Auditing'
<1>1. /\ audit.at = "next" /\ audit.todo = {} /\ table' = audit.collected
      /\ audit.collected \subseteq TableRow /\ UNCHANGED <<pc, rows, summary>>
      /\ audit'.at = "ended" /\ audit'.collected = {}
  BY DEF WriteTable, Basics, Shapes, calls, loop, AuditState, Idle
<1>2. Apart /\ \E chosen \in Selections : Covered = chosen \X Agent
  BY <1>1 DEF Auditing, Sampled
<1>3. Covered = Pairs(audit.collected)
  <2>1. UNION {} = {}
    OBVIOUS
  <2>2. QED
    <3>1. Present = {}
      BY <1>1 DEF Present
    <3>2. UNION audit.todo = {}
      BY <1>1, <2>1
    <3>3. QED
      BY <3>1, <3>2 DEF Covered
<1>4. Selections' = Selections
  BY <1>1 DEF Selections, kSubset, Candidates, OnRecord
<1>5. Tabled'
  BY <1>1, <1>2, <1>3, <1>4 DEF Tabled, Apart, Separate, Pairs, OneEach
<1>6. Threads'
  BY <1>1 DEF Auditing, Threads
<1>7. QED
  BY <1>1, <1>5, <1>6 DEF Auditing, Sampled

LEMMA KillAuditAuditing ==
  ASSUME Basics, Auditing, KillAudit
  PROVE  Auditing'
<1>1. /\ audit.at \in {"next", "batch"} /\ audit'.at = "ended" /\ audit'.collected = {}
      /\ UNCHANGED table /\ \A a \in Agent : pc'[a] = "off"
  BY ConstantFacts DEF KillAudit, Dismissed, Idle
<1>2. table = None
  BY <1>1 DEF Auditing, Sampled
<1>3. QED
  BY <1>1, <1>2 DEF Auditing, Threads, Sampled, Tabled

LEMMA AuditingNext == Basics /\ Auditing /\ [CallsNext]_callVars => Auditing'
<1> SUFFICES ASSUME Basics, Auditing, [CallsNext]_callVars PROVE Auditing'
  OBVIOUS
<1>1. Selections \subseteq Selections'
  BY RecordsAreKept, SelectionsGrow
<1>2. pc \in [Caller -> Status]
  BY DEF Basics, CallsTypeOK, Status
<1>3. ASSUME NEW c \in Caller, pc[c] # "off", NEW at, pc' = [pc EXCEPT ![c] = at],
             UNCHANGED <<audit, table>>
      PROVE  Auditing'
  BY <1>1, <1>2, <1>3, ConstantFacts, AuditingFrame
<1>4. ASSUME NEW r \in Run, NEW at, pc' = [pc EXCEPT ![r] = at], UNCHANGED <<audit, table>>
      PROVE  Auditing'
  BY <1>1, <1>2, <1>4, ConstantFacts, AuditingFrame
<1>5. CASE UNCHANGED <<pc, audit, table>>
  BY <1>1, <1>5, AuditingFrame
<1> USE DEF Put, calls, loop, gate
<1>6. ASSUME NEW c \in Caller,
             \/ Authorize(c) \/ Refuse(c) \/ Retry(c) \/ CallEnds(c)
             \/ \E kind \in Kind : Answer(c, kind)
      PROVE  Auditing'
  BY <1>3, <1>6 DEF Authorize, Refuse, Retry, CallEnds, Answer, Concludes, Kind
<1>7. ASSUME NEW r \in Run,
             \/ Conclude(r) \/ Start(r) \/ Ask(r) \/ AnswerLost(r)
             \/ Summarize(r) \/ KillRun(r)
      PROVE  Auditing'
  BY <1>4, <1>7 DEF Conclude, Start, Ask, AnswerLost, Summarize, KillRun
<1>8. CASE \/ Prepare \/ Quiet \/ UNCHANGED callVars
           \/ \E r \in Run : Lose(r) \/ Replay(r)
  BY <1>5, <1>8 DEF Prepare, Quiet, callVars, Lose, Replay
<1>9. CASE \/ AuditStart \/ \E batch \in audit.todo : AskBatch(batch)
           \/ BatchEnds \/ WriteTable \/ KillAudit
  BY <1>9, AuditStartAuditing, AskBatchAuditing, BatchEndsAuditing, WriteTableAuditing,
     KillAuditAuditing
<1>10. \A c \in Caller : Conclude(c) => c \in Run
  BY DEF Conclude
<1>11. QED
  BY <1>6, <1>7, <1>8, <1>9, <1>10 DEF CallsNext

(* A table an audit wrote has the row of every agent for every state of a  *)
(* sample of the wanted size, all of them from records of completed runs,  *)
(* whatever was killed, raised or failed before.                           *)
THEOREM TablesAreComplete == CallsSpec => []AuditComplete
<1>1. ASSUME Auditing PROVE AuditComplete
  <2> SUFFICES ASSUME table # None PROVE AuditComplete
    BY DEF AuditComplete
  <2> DEFINE asked == {row.state : row \in table}
  <2>1. PICK chosen \in Selections : Pairs(table) = chosen \X Agent
    BY <1>1 DEF Auditing, Tabled
  <2>2. chosen \subseteq Candidates /\ Cardinality(chosen) = States
    BY DEF Selections, kSubset
  <2>3. \A row \in table : row.state \in chosen
    <3>1. \A row \in table : <<row.state, row.agent>> \in chosen \X Agent
      BY <2>1, Zenon DEF Pairs
    <3>2. QED
      BY <3>1
  <2>4. ASSUME NEW state \in chosen, NEW a \in Agent
        PROVE  \E row \in table : row.state = state /\ row.agent = a
    <3>1. <<state, a>> \in Pairs(table)
      BY <2>1
    <3>2. PICK row \in table : <<state, a>> = <<row.state, row.agent>>
      BY <3>1, Zenon DEF Pairs
    <3>3. QED
      BY <3>2
  <2>5. asked = chosen
    BY <2>3, <2>4, CallsAssumption
  <2>6. QED
    BY <2>2, <2>4, <2>5 DEF AuditComplete
<1>2. QED
  BY BasicsInit, BasicsNext, AuditingInit, AuditingNext, <1>1, PTL DEF CallsSpec

-----------------------------------------------------------------------------
(* Every attempt is accounted for. *)

OpenCalls == {c \in Caller : Open(c)}

LEMMA OpenFacts ==
  /\ IsFiniteSet(OpenCalls) /\ Cardinality(OpenCalls) \in Nat
  /\ \A callers \in SUBSET Caller :
       /\ {c \in callers : Open(c)} = OpenCalls \cap callers
       /\ Cardinality(OpenCalls \ callers) =
            Cardinality(OpenCalls) - Cardinality(OpenCalls \cap callers)
       /\ Cardinality(OpenCalls \cap callers) \in Nat
<1>1. IsFiniteSet(OpenCalls)
  BY ConstantFacts, FS_Subset DEF OpenCalls
<1>2. ASSUME NEW callers \in SUBSET Caller
      PROVE  /\ {c \in callers : Open(c)} = OpenCalls \cap callers
             /\ Cardinality(OpenCalls \ callers) =
                  Cardinality(OpenCalls) - Cardinality(OpenCalls \cap callers)
             /\ Cardinality(OpenCalls \cap callers) \in Nat
  BY <1>1, FS_Difference, FS_Intersection, FS_CardinalityType DEF OpenCalls
<1>3. QED
  BY <1>1, <1>2, FS_CardinalityType

LogLists ==
  /\ IsFiniteSet(Logged) /\ Cardinality(Logged) \in Nat
  /\ \A x : x \in Logged <=> \E c \in Caller : \E n \in 1 .. Len(rows[c]) : x = <<c, n>>
  /\ \A c \in Caller : Len(rows[c]) \in Nat

LEMMA LoggedFacts == Shapes => LogLists
<1> SUFFICES ASSUME Shapes PROVE LogLists
  OBVIOUS
<1>1. ASSUME NEW c \in Caller
      PROVE  Len(rows[c]) \in Nat /\ DOMAIN rows[c] = 1 .. Len(rows[c])
  BY LenProperties DEF Shapes
<1>2. IsFiniteSet(Logged)
  <2> DEFINE f == [c \in Caller |-> 1 .. Len(rows[c])]
  <2>1. \A c \in Caller : IsFiniteSet(f[c])
    BY <1>1, FS_Interval
  <2> HIDE DEF f
  <2>2. IsFiniteSet(UNION {{c} \X f[c] : c \in Caller})
    BY <2>1, ConstantFacts, PairsFinite
  <2>3. UNION {{c} \X f[c] : c \in Caller} = Logged
    BY <1>1, SMT DEF f, Logged
  <2>4. QED
    BY <2>2, <2>3
<1>3. \A x : x \in Logged <=> \E c \in Caller : \E n \in 1 .. Len(rows[c]) : x = <<c, n>>
  <2>1. \A x : x \in Logged <=> \E c \in Caller : x \in {c} \X DOMAIN rows[c]
    BY Zenon DEF Logged
  <2>2. QED
    BY <1>1, <2>1
<1>4. QED
  BY <1>1, <1>2, <1>3, FS_CardinalityType DEF LogLists

(* A call that logs its row is not open any more. *)
LEMMA LogAccounts ==
  ASSUME Basics, Shapes', NEW c \in Caller, pc[c] \in Kind, Log(c),
         NEW at, at \notin {"sent"} \cup Kind, pc' = [pc EXCEPT ![c] = at]
  PROVE  /\ Cardinality(Logged') = Cardinality(Logged) + 1
         /\ Cardinality(OpenCalls') = Cardinality(OpenCalls) - 1
<1>1. Shapes /\ rows[c] \in Seq(RecordRow) /\ DOMAIN rows = Caller /\ pc \in [Caller -> Status]
  BY DEF Basics, Shapes, CallsTypeOK, Status
<1>2. Row(c) \in RecordRow
  BY RowFacts
<1>3. Len(Append(rows[c], Row(c))) = Len(rows[c]) + 1 /\ Len(rows[c]) \in Nat
  BY <1>1, <1>2, AppendProperties, LenProperties
<1>4. /\ Len(rows'[c]) = Len(rows[c]) + 1
      /\ \A d \in Caller \ {c} : rows'[d] = rows[d]
  BY <1>1, <1>3 DEF Log, Put
<1>5. \A x : x \in Logged' <=> \E d \in Caller : \E n \in 1 .. Len(rows'[d]) : x = <<d, n>>
  <2>1. LogLists'
    BY LoggedFacts, PTL
  <2>2. QED
    BY <2>1 DEF LogLists
<1>6. \A x : x \in Logged <=> \E d \in Caller : \E n \in 1 .. Len(rows[d]) : x = <<d, n>>
  BY <1>1, LoggedFacts DEF LogLists
<1>7. Logged' = Logged \cup {<<c, Len(rows[c]) + 1>>}
  <2>1. 1 .. Len(rows[c]) + 1 = (1 .. Len(rows[c])) \cup {Len(rows[c]) + 1}
    BY <1>3
  <2>2. \A x : x \in Logged' <=> x \in Logged \/ x = <<c, Len(rows[c]) + 1>>
    BY <1>4, <1>5, <1>6, <2>1, Zenon
  <2>3. QED
    BY <2>2, SMT
<1>8. <<c, Len(rows[c]) + 1>> \notin Logged
  BY <1>3, <1>6
<1>9. Cardinality(Logged') = Cardinality(Logged) + 1
  BY <1>1, <1>7, <1>8, LoggedFacts, FS_AddElement DEF LogLists
<1>10. OpenCalls' = OpenCalls \ {c} /\ c \in OpenCalls
  <2>1. c \in OpenCalls
    BY DEF OpenCalls, Open
  <2>2. \A d \in Caller : pc'[d] = IF d = c THEN at ELSE pc[d]
    BY <1>1
  <2>3. QED
    BY <2>1, <2>2 DEF OpenCalls, Open
<1>11. Cardinality(OpenCalls') = Cardinality(OpenCalls) - 1
  BY <1>10, OpenFacts, FS_RemoveElement
<1>12. QED
  BY <1>9, <1>11

LEMMA StartAccounts ==
  ASSUME Basics, Shapes', NEW r \in Run, Start(r)
  PROVE  Cardinality(Logged) = Cardinality(Logged') + Len(rows[r])
<1>1. Shapes /\ rows \in [Caller -> Seq(RecordRow)] /\ r \in Caller
  BY ConstantFacts DEF Basics, Shapes
<1>2. rows'[r] = <<>> /\ \A d \in Caller \ {r} : rows'[d] = rows[d]
  BY <1>1 DEF Start, Put
<1>3. \A x : x \in Logged' <=> \E d \in Caller : \E n \in 1 .. Len(rows'[d]) : x = <<d, n>>
  <2>1. LogLists'
    BY LoggedFacts, PTL
  <2>2. QED
    BY <2>1 DEF LogLists
<1>4. \A x : x \in Logged <=> \E d \in Caller : \E n \in 1 .. Len(rows[d]) : x = <<d, n>>
  BY <1>1, LoggedFacts DEF LogLists
<1> DEFINE mine == {r} \X (1 .. Len(rows[r]))
<1>5. 1 .. Len(rows'[r]) = {}
  BY <1>2
<1>6. Logged = Logged' \cup mine /\ Logged' \cap mine = {}
  <2>1. \A x : x \in mine <=> \E n \in 1 .. Len(rows[r]) : x = <<r, n>>
    OBVIOUS
  <2>2. \A x \in Logged' : x \notin mine
    BY <1>3, <1>5, <2>1
  <2>3. \A x : x \in Logged <=> x \in Logged' \/ x \in mine
    <3>1. ASSUME NEW x, x \in Logged
          PROVE  x \in Logged' \/ x \in mine
      <4>1. PICK d \in Caller : \E n \in 1 .. Len(rows[d]) : x = <<d, n>>
        BY <1>4, <3>1
      <4>2. QED
        BY <1>2, <1>3, <2>1, <4>1, Zenon
    <3>2. ASSUME NEW x, x \in Logged'
          PROVE  x \in Logged
      <4>1. PICK d \in Caller : \E n \in 1 .. Len(rows'[d]) : x = <<d, n>>
        BY <1>3, <3>2
      <4>2. d # r
        BY <1>5, <4>1
      <4>3. QED
        BY <1>2, <1>4, <4>1, <4>2, Zenon
    <3>3. \A x \in mine : x \in Logged
      BY <1>1, <1>4, <2>1
    <3>4. QED
      BY <3>1, <3>2, <3>3
  <2> HIDE DEF mine
  <2>4. QED
    BY <2>2, <2>3, SMT
<1>7. Len(rows[r]) \in Nat
  BY <1>1, LoggedFacts DEF LogLists
<1>8. IsFiniteSet(mine) /\ Cardinality(mine) = Len(rows[r])
  <2>1. IsFiniteSet(1 .. Len(rows[r])) /\ Cardinality(1 .. Len(rows[r])) = Len(rows[r])
    BY <1>7, FS_Interval
  <2>2. IsFiniteSet({r}) /\ Cardinality({r}) = 1
    BY FS_Singleton
  <2>3. Cardinality(mine) = 1 * Len(rows[r]) /\ IsFiniteSet(mine)
    BY <2>1, <2>2, FS_Product, ZenonT(40)
  <2>4. QED
    BY <2>3, <1>7
<1>9. IsFiniteSet(Logged') /\ Cardinality(Logged') \in Nat
  <2>1. LogLists'
    BY LoggedFacts, PTL
  <2>2. QED
    BY <2>1 DEF LogLists
<1> HIDE DEF mine
<1>10. Cardinality(Logged' \cup mine) = Cardinality(Logged') + Cardinality(mine) - Cardinality({})
  BY <1>6, <1>8, <1>9, FS_Union
<1>11. QED
  BY <1>6, <1>7, <1>8, <1>9, <1>10, FS_EmptySet

LEMMA AccountsInit == CallsInit => AttemptsAccounted
<1> SUFFICES ASSUME CallsInit PROVE AttemptsAccounted
  OBVIOUS
<1>1. \A c \in Caller : rows[c] = <<>> /\ Len(rows[c]) = 0
  BY DEF CallsInit
<1>2. Shapes
  BY BasicsInit DEF Basics
<1>3. Logged = {}
  BY <1>1, <1>2, LoggedFacts DEF LogLists
<1>4. OpenCalls = {}
  BY DEF CallsInit, OpenCalls, Open, Kind
<1>5. spent = 0 /\ past.aside = 0 /\ past.cut = 0
  BY DEF CallsInit
<1>6. QED
  BY <1>3, <1>4, <1>5, FS_EmptySet DEF AttemptsAccounted, OpenCalls

LEMMA AccountsNext ==
  ASSUME Basics, Auditing, AttemptsAccounted, [CallsNext]_callVars
  PROVE  AttemptsAccounted'
<1> USE DEF Put, calls, loop, gate
<1>1. /\ Shapes /\ Shapes' /\ pc \in [Caller -> Status] /\ spent \in Nat
      /\ past \in History /\ past' \in History
  BY BasicsNext, CallsAssumption DEF Basics, CallsTypeOK, Status, Shapes
<1> DEFINE logged == Cardinality(Logged)
           open == Cardinality(OpenCalls)
           Balance == spent = logged + past.aside + past.cut + open
<1>2. Balance
  BY DEF AttemptsAccounted, OpenCalls
<1>3. logged \in Nat /\ open \in Nat /\ past.aside \in Nat /\ past.cut \in Nat
  BY <1>1, LoggedFacts, OpenFacts DEF LogLists, History
<1>4. SUFFICES Balance'
  BY DEF AttemptsAccounted, OpenCalls
<1>5. (UNCHANGED rows) => logged' = logged
  BY DEF Logged
<1>6. (\A c \in Caller : Open(c)' <=> Open(c)) => open' = open
  BY DEF OpenCalls
<1> HIDE DEF logged, open
<1>7. ASSUME UNCHANGED <<spent, rows, past>>, \A c \in Caller : Open(c)' <=> Open(c)
      PROVE  Balance'
  BY <1>2, <1>5, <1>6, <1>7
<1>8. ASSUME NEW c \in Caller, Authorize(c)
      PROVE  Balance'
  <2>1. OpenCalls' = OpenCalls \cup {c} /\ c \notin OpenCalls
    BY <1>1, <1>8 DEF Authorize, OpenCalls, Open, Kind
  <2>2. open' = open + 1
    BY <2>1, OpenFacts, FS_AddElement DEF open
  <2>3. spent' = spent + 1 /\ UNCHANGED <<rows, past>>
    BY <1>8 DEF Authorize
  <2>4. QED
    BY <1>1, <1>2, <1>3, <1>5, <2>2, <2>3
<1>9. ASSUME NEW c \in Caller, pc[c] \in Kind, Log(c), UNCHANGED <<spent, past.aside, past.cut>>,
             NEW at, at \notin {"sent"} \cup Kind, pc' = [pc EXCEPT ![c] = at]
      PROVE  Balance'
  <2>1. logged' = logged + 1 /\ open' = open - 1
    BY <1>1, <1>9, LogAccounts DEF logged, open
  <2>2. QED
    BY <1>1, <1>2, <1>3, <1>9, <2>1
<1>10. ASSUME NEW c \in Caller, Retry(c) \/ Conclude(c) \/ CallEnds(c)
       PROVE  Balance'
  <2>1. pc[c] \in Kind /\ Log(c) /\ UNCHANGED <<spent, past.aside, past.cut>>
    BY <1>10 DEF Retry, Conclude, CallEnds, Concludes, Kind
  <2>2. \E at \in {"authorize", "raised", "loop", "answered", "failed"} :
           pc' = [pc EXCEPT ![c] = at]
    BY <1>10, Zenon DEF Retry, Conclude, CallEnds
  <2>3. QED
    BY <1>9, <2>1, <2>2 DEF Kind
<1>11. ASSUME NEW r \in Run, AnswerLost(r)
       PROVE  Balance'
  <2>1. past' = [past EXCEPT !.lost = past.lost + 1]
    BY <1>11 DEF AnswerLost, Loses
  <2>2. past'.aside = past.aside /\ past'.cut = past.cut
    BY <1>1, <2>1 DEF History
  <2>3. r \in Caller /\ pc[r] \in Kind /\ Log(r) /\ UNCHANGED spent
        /\ pc' = [pc EXCEPT ![r] = "loop"]
    BY <1>11, ConstantFacts DEF AnswerLost, Kind
  <2>4. QED
    BY <1>9, <2>2, <2>3 DEF Kind
<1>12. ASSUME NEW r \in Run, Start(r)
       PROVE  Balance'
  <2>1. logged = logged' + Len(rows[r])
    BY <1>1, <1>12, StartAccounts DEF logged
  <2>2. open' = open
    <3>1. \A c \in Caller : Open(c)' <=> Open(c)
      BY <1>1, <1>12 DEF Start, Open, Kind
    <3>2. QED
      BY <1>6, <3>1
  <2>3. past' = [past EXCEPT !.starts = past.starts + 1, !.aside = past.aside + Len(rows[r])]
        /\ UNCHANGED spent
    BY <1>12 DEF Start
  <2>4. past'.aside = past.aside + Len(rows[r]) /\ past'.cut = past.cut
    BY <1>1, <2>3 DEF History
  <2>5. Len(rows[r]) \in Nat
    BY <1>1, ConstantFacts, LoggedFacts DEF LogLists
  <2>6. logged' \in Nat
    <3>1. LogLists'
      BY <1>1, LoggedFacts, PTL
    <3>2. QED
      BY <3>1 DEF LogLists, logged
  <2>7. QED
    BY <1>2, <1>3, <2>1, <2>2, <2>3, <2>4, <2>5, <2>6
<1>13. ASSUME NEW callers \in SUBSET Caller, Cut(callers), UNCHANGED <<spent, rows>>,
              OpenCalls' = OpenCalls \ callers
       PROVE  Balance'
  <2>1. PICK n \in Nat : n = Cardinality({c \in callers : Open(c)}) /\ open' = open - n
    BY <1>13, OpenFacts DEF open
  <2>2. past' = [past EXCEPT !.kills = past.kills + 1, !.cut = past.cut + n]
    BY <1>13, <2>1 DEF Cut
  <2>3. past'.aside = past.aside /\ past'.cut = past.cut + n
    BY <1>1, <2>2 DEF History
  <2>4. QED
    BY <1>1, <1>2, <1>3, <1>5, <1>13, <2>1, <2>3
<1>14. ASSUME NEW r \in Run, KillRun(r)
       PROVE  Balance'
  <2>1. Cut({r}) /\ UNCHANGED <<spent, rows>> /\ pc' = [pc EXCEPT ![r] = "killed"]
    BY <1>14 DEF KillRun
  <2>2. OpenCalls' = OpenCalls \ {r} /\ {r} \in SUBSET Caller
    BY <1>1, <2>1, ConstantFacts DEF OpenCalls, Open, Kind
  <2>3. QED
    BY <1>13, <2>1, <2>2
<1>15. CASE KillAudit
  <2>1. Cut(Agent) /\ UNCHANGED <<spent, rows>> /\ pc' = Dismissed
    BY <1>15 DEF KillAudit
  <2>2. OpenCalls' = OpenCalls \ Agent /\ Agent \in SUBSET Caller
    BY <1>1, <2>1, ConstantFacts DEF OpenCalls, Open, Kind, Dismissed
  <2>3. QED
    BY <1>13, <2>1, <2>2
<1>16. CASE BatchEnds
  <2>1. UNCHANGED <<spent, rows, past>> /\ pc' = Dismissed
    BY <1>16 DEF BatchEnds
  <2>2. \A a \in Agent : pc[a] \in {"off", "answered", "failed", "raised"}
    BY <1>16 DEF BatchEnds, Joined, Auditing, Threads
  <2>3. \A c \in Caller : Open(c)' <=> Open(c)
    BY <2>1, <2>2 DEF Open, Kind, Dismissed
  <2>4. QED
    BY <1>7, <2>1, <2>3
<1>17. ASSUME NEW batch \in audit.todo, AskBatch(batch)
       PROVE  Balance'
  <2>1. UNCHANGED <<spent, rows, past>>
    BY <1>17 DEF AskBatch
  <2>2. Asked(batch) \subseteq Agent
    BY <1>1, AskedFacts DEF Shapes, AuditState
  <2>3. \A a \in Asked(batch) : pc[a] = "off"
    BY <1>17, <2>2 DEF AskBatch, Auditing, Threads
  <2>4. pc' = [c \in Caller |-> IF c \in Asked(batch) THEN "authorize" ELSE pc[c]]
    BY <1>17 DEF AskBatch
  <2>5. \A c \in Caller : Open(c)' <=> Open(c)
    BY <2>3, <2>4 DEF Open, Kind
  <2>6. QED
    BY <1>7, <2>1, <2>5
<1>18. ASSUME UNCHANGED <<spent, rows, past.aside, past.cut>>,
              \A c \in Caller : Open(c)' <=> Open(c)
       PROVE  Balance'
  BY <1>2, <1>5, <1>6, <1>18
<1>19. ASSUME NEW r \in Run, Lose(r) \/ Ask(r) \/ Summarize(r) \/ Replay(r)
       PROVE  Balance'
  <2>1. past'.aside = past.aside /\ past'.cut = past.cut
    BY <1>1, <1>19 DEF Lose, Loses, Ask, Summarize, Replay, History
  <2>2. \A c \in Caller : Open(c)' <=> Open(c)
    BY <1>1, <1>19 DEF Lose, Ask, Summarize, Replay, Open, Kind
  <2>3. UNCHANGED <<spent, rows>>
    BY <1>19 DEF Lose, Ask, Summarize, Replay
  <2>4. QED
    BY <1>18, <2>1, <2>2, <2>3
<1>20. ASSUME NEW c \in Caller, Refuse(c) \/ \E kind \in Kind : Answer(c, kind)
       PROVE  Balance'
  <2>1. \A d \in Caller : Open(d)' <=> Open(d)
    BY <1>1, <1>20 DEF Refuse, Answer, Open, Kind
  <2>2. UNCHANGED <<spent, rows, past>>
    BY <1>20 DEF Refuse, Answer
  <2>3. QED
    BY <1>7, <2>1, <2>2
<1>21. CASE Prepare \/ AuditStart \/ WriteTable \/ Quiet \/ UNCHANGED callVars
  <2>1. UNCHANGED <<spent, rows, pc>> /\ past'.aside = past.aside /\ past'.cut = past.cut
    BY <1>1, <1>21 DEF Prepare, AuditStart, Started, WriteTable, Quiet, callVars, History
  <2>2. QED
    BY <1>18, <2>1 DEF Open
<1> HIDE DEF Balance
<1>22. QED
  BY <1>8, <1>10, <1>11, <1>12, <1>14, <1>15, <1>16, <1>17, <1>19, <1>20, <1>21 DEF CallsNext

(* The ledger and the records tell the same story: every attempt granted   *)
(* has one row, is open, was set aside with its record or cut by a kill.   *)
THEOREM RecordsMatchLedger == CallsSpec => []AttemptsAccounted
<1>1. Basics /\ Auditing /\ AttemptsAccounted /\ [CallsNext]_callVars => AttemptsAccounted'
  BY AccountsNext
<1>2. QED
  BY BasicsInit, BasicsNext, AuditingInit, AuditingNext, AccountsInit, <1>1, PTL DEF CallsSpec

-----------------------------------------------------------------------------
(* An approved plan fits. *)

LEMMA RowsArePairs ==
  ASSUME NEW rowset, OneEach(rowset), IsFiniteSet(Pairs(rowset))
  PROVE  IsFiniteSet(rowset) /\ Cardinality(rowset) <= Cardinality(Pairs(rowset))
<1> DEFINE f == [row \in rowset |-> <<row.state, row.agent>>]
<1>1. f \in Injection(rowset, Pairs(rowset))
  <2>1. f \in [rowset -> Pairs(rowset)]
    BY DEF Pairs
  <2>2. ASSUME NEW x \in rowset, NEW y \in rowset, f[x] = f[y]
        PROVE  x = y
    <3>1. x.state = y.state /\ x.agent = y.agent
      BY <2>2
    <3>2. QED
      BY <3>1 DEF OneEach
  <2> HIDE DEF f
  <2>3. QED
    BY <2>1, <2>2 DEF Injection, IsInjective
<1> HIDE DEF f
<1>2. QED
  BY <1>1, FS_Injection

LEMMA SampleSize ==
  ASSUME Shapes, NEW chosen \in Selections
  PROVE  /\ IsFiniteSet(chosen \X Agent)
         /\ Cardinality(chosen \X Agent) = States * Cardinality(Agent)
<1>1. chosen \subseteq Candidates /\ Cardinality(chosen) = States
  BY DEF Selections, kSubset
<1>2. IsFiniteSet(chosen)
  BY <1>1, CandidateFacts, FS_Subset
<1>3. QED
  BY <1>1, <1>2, ConstantFacts, FS_Product

(* The requests of the runs that count, and those of the audit. *)
LEMMA RunsWithinPlan ==
  ASSUME Basics
  PROVE  LET begun == UNION {{r} \X Begun(r) : r \in Underway}
         IN  /\ Cardinality(begun) \in Nat /\ Cardinality(begun) <= Cardinality(Asks)
             /\ Cardinality(Asks) \in Nat
             /\ \A c \in Run : pc[c] = "authorize" /\ attempt[c] = 0 =>
                  Cardinality(begun) <= Cardinality(Asks) - 1
<1> DEFINE begun == UNION {{r} \X Begun(r) : r \in Underway}
<1>1. IsFiniteSet(Asks) /\ Cardinality(Asks) \in Nat
  BY AsksFinite, FS_CardinalityType
<1>2. \A x : x \in begun <=> \E r \in Underway : \E k \in Begun(r) : x = <<r, k>>
  <2>1. \A x : x \in begun <=> \E r \in Underway : x \in {r} \X Begun(r)
    BY Zenon
  <2> HIDE DEF begun
  <2>2. QED
    BY <2>1
<1>3. \A x : x \in Asks <=> \E r \in Run : \E k \in 1 .. Requests[r] : x = <<r, k>>
  <2>1. \A x : x \in Asks <=> \E r \in Run : x \in {r} \X (1 .. Requests[r])
    BY Zenon DEF Asks
  <2>2. QED
    BY <2>1
<1> HIDE DEF begun
<1>4. begun \subseteq Asks
  BY <1>2, <1>3 DEF Underway, Begun
<1>5. Cardinality(begun) \in Nat /\ Cardinality(begun) <= Cardinality(Asks)
  BY <1>1, <1>4, FS_Subset, FS_CardinalityType
<1>6. ASSUME NEW c \in Run, pc[c] = "authorize", attempt[c] = 0
      PROVE  Cardinality(begun) <= Cardinality(Asks) - 1
  <2>1. turn[c] \in 1 .. Requests[c]
    BY <1>6, ConstantFacts DEF Basics, CallsTypeOK, AsksWithin, Asking
  <2>2. <<c, turn[c]>> \in Asks
    BY <1>3, <2>1
  <2>3. turn[c] \notin Begun(c)
    BY <1>6, <2>1, ConstantFacts DEF Begun
  <2>4. <<c, turn[c]>> \notin begun
    BY <1>2, <2>3
  <2>5. begun \subseteq Asks \ {<<c, turn[c]>>}
    BY <1>4, <2>4
  <2>6. /\ IsFiniteSet(Asks \ {<<c, turn[c]>>})
        /\ Cardinality(Asks \ {<<c, turn[c]>>}) = Cardinality(Asks) - 1
    BY <1>1, <2>2, FS_RemoveElement
  <2>7. QED
    BY <2>5, <2>6, FS_Subset
<1>7. QED
  BY <1>1, <1>5, <1>6 DEF begun

LEMMA AuditWithinPlan ==
  ASSUME Basics, Auditing
  PROVE  /\ AuditWork \in Nat /\ AuditWork <= States * Cardinality(Agent)
         /\ \A c \in Agent : pc[c] = "authorize" /\ attempt[c] = 0 =>
              AuditWork <= States * Cardinality(Agent) - 1
<1>1. Shapes /\ audit \in AuditState /\ attempt \in [Caller -> 0 .. MaxRetries + 1]
  BY DEF Basics, Shapes, CallsTypeOK
<1>2. States * Cardinality(Agent) \in Nat
  BY ConstantFacts
<1>3. CASE audit.at \in {"next", "batch"}
  <2>1. table = None /\ Apart /\ \E chosen \in Selections : Covered = chosen \X Agent
    BY <1>3 DEF Auditing, Sampled
  <2>2. PICK chosen \in Selections : Covered = chosen \X Agent
    BY <2>1
  <2> DEFINE tried == {call \in Present : attempt[call[2]] > 0}
             busy == {a \in Asked(audit.asked) : attempt[a] > 0}
             got == Pairs(audit.collected)
             all == chosen \X Agent
  <2>3. IsFiniteSet(all) /\ Cardinality(all) = States * Cardinality(Agent)
    BY <1>1, SampleSize
  <2>4. got \subseteq all /\ Present \subseteq all /\ tried \subseteq all
    BY <2>2 DEF Covered
  <2>5. got \cap tried = {}
    BY <2>1 DEF Apart, Separate
  <2>6. /\ IsFiniteSet(got) /\ IsFiniteSet(tried) /\ IsFiniteSet(got \cup tried)
        /\ Cardinality(got \cup tried) = Cardinality(got) + Cardinality(tried)
        /\ Cardinality(got) \in Nat /\ Cardinality(tried) \in Nat
    <3>1. IsFiniteSet(got) /\ IsFiniteSet(tried)
      BY <2>3, <2>4, FS_Subset
    <3>2. Cardinality(got) \in Nat /\ Cardinality(tried) \in Nat
      BY <3>1, FS_CardinalityType
    <3> HIDE DEF got, tried
    <3>3. /\ IsFiniteSet(got \cup tried)
          /\ Cardinality(got \cup tried) = Cardinality(got) + Cardinality(tried) - Cardinality({})
      BY <3>1, <2>5, FS_Union
    <3>4. QED
      BY <3>1, <3>2, <3>3, FS_EmptySet
  <2>7. IsFiniteSet(audit.collected) /\ Cardinality(audit.collected) <= Cardinality(got)
    BY <2>1, <2>6, RowsArePairs DEF Apart, Separate
  <2>8. audit.at = "batch" =>
          IsFiniteSet(busy) /\ Cardinality(busy) <= Cardinality(tried)
    <3> SUFFICES ASSUME audit.at = "batch"
                 PROVE  IsFiniteSet(busy) /\ Cardinality(busy) <= Cardinality(tried)
      OBVIOUS
    <3> DEFINE f == [call \in tried |-> call[2]]
    <3>1. f \in Surjection(tried, busy)
      <4>1. busy = {call[2] : call \in tried}
        BY DEF Present, Asked
      <4>2. QED
        BY <4>1 DEF Surjection
    <3> HIDE DEF f, tried, busy
    <3>2. QED
      BY <2>6, <3>1, FS_Surjection
  <2>9. /\ AuditWork = Cardinality(audit.collected) +
             (IF audit.at = "batch" THEN Cardinality(busy) ELSE 0)
        /\ Cardinality(audit.collected) \in Nat
        /\ audit.at = "batch" => Cardinality(busy) \in Nat
    BY <2>1, <2>7, <2>8, FS_CardinalityType DEF AuditWork
  <2> HIDE DEF got, tried, busy, all
  <2>10. AuditWork \in Nat /\ AuditWork <= Cardinality(got \cup tried)
    BY <2>6, <2>7, <2>8, <2>9
  <2>11. Cardinality(got \cup tried) <= Cardinality(all)
    BY <2>3, <2>4, FS_Subset
  <2>12. ASSUME NEW c \in Agent, pc[c] = "authorize", attempt[c] = 0
         PROVE  Cardinality(got \cup tried) <= Cardinality(all) - 1
    <3>1. audit.at = "batch" /\ c \in Asked(audit.asked)
      BY <2>12 DEF Auditing, Threads
    <3>2. PICK call \in audit.asked : c = call[2]
      BY <3>1 DEF Asked
    <3>3. call \in Present /\ Present \cap got = {}
      BY <3>1, <3>2, <2>1 DEF Present, Apart, Separate, got
    <3>4. call \in all /\ call \notin got /\ call \notin tried
      BY <2>4, <2>12, <3>2, <3>3 DEF tried
    <3>5. IsFiniteSet(all \ {call}) /\ Cardinality(all \ {call}) = Cardinality(all) - 1
      BY <2>3, <3>4, FS_RemoveElement
    <3>6. got \cup tried \subseteq all \ {call}
      BY <2>4, <3>4
    <3>7. QED
      BY <3>5, <3>6, FS_Subset
  <2>13. QED
    <3>1. Cardinality(got \cup tried) \in Nat
      BY <2>6, FS_CardinalityType
    <3> DEFINE u == Cardinality(got \cup tried)
               v == States * Cardinality(Agent)
    <3>2. /\ AuditWork \in Nat /\ AuditWork <= u /\ u <= v /\ u \in Nat /\ v \in Nat
          /\ \A c \in Agent : pc[c] = "authorize" /\ attempt[c] = 0 => u <= v - 1
      BY <1>2, <2>3, <2>10, <2>11, <2>12, <3>1
    <3> HIDE DEF u, v
    <3>3. AuditWork <= v /\ (u <= v - 1 => AuditWork <= v - 1)
      BY <3>2
    <3>4. QED
      BY <3>2, <3>3 DEF v
<1>4. CASE audit.at \in {"off", "ended"}
  <2>1. audit.collected = {} /\ \A c \in Agent : pc[c] = "off"
    BY <1>4 DEF Auditing, Threads
  <2>2. ASSUME table # None
        PROVE  Cardinality(table) \in Nat /\ Cardinality(table) <= States * Cardinality(Agent)
    <3>1. OneEach(table) /\ \E chosen \in Selections : Pairs(table) = chosen \X Agent
      BY <2>2 DEF Auditing, Tabled
    <3>2. PICK chosen \in Selections : Pairs(table) = chosen \X Agent
      BY <3>1
    <3>3. /\ IsFiniteSet(Pairs(table))
          /\ Cardinality(Pairs(table)) = States * Cardinality(Agent)
      BY <1>1, <3>2, SampleSize
    <3>4. IsFiniteSet(table) /\ Cardinality(table) <= Cardinality(Pairs(table))
      BY <3>1, <3>3, RowsArePairs
    <3>5. QED
      BY <3>3, <3>4, FS_CardinalityType
  <2>3. AuditWork = IF table # None THEN Cardinality(table) ELSE 0
    <3>1. audit.at # "batch" /\ Cardinality(audit.collected) = 0
      BY <1>4, <2>1, FS_EmptySet
    <3>2. CASE table # None
      BY <2>2, <3>1, <3>2 DEF AuditWork
    <3>3. CASE table = None
      BY <3>1, <3>3 DEF AuditWork
    <3>4. QED
      BY <3>2, <3>3
  <2>4. QED
    BY <1>2, <2>1, <2>2, <2>3
<1>5. QED
  BY <1>1, <1>3, <1>4 DEF AuditState

(* No call of an approved plan is refused its first attempt unless the     *)
(* attempts outside the plan have used up more than the room it left.      *)
THEOREM ApprovedPlansFit == CallsSpec => []PlanFits
<1>1. ASSUME Basics, Auditing
      PROVE  PlanFits
  <2> SUFFICES ASSUME NEW c \in Caller, pc[c] = "authorize", attempt[c] = 0, Refused
               PROVE  spent > Useful /\ spent - Useful > ceiling - Planned
    BY DEF PlanFits
  <2>1. spent = ceiling /\ spent \in Nat
    BY <1>1, CallsAssumption DEF Refused, Basics, CallsTypeOK
  <2>2. Planned <= ceiling
    BY <1>1 DEF Basics, Gated
  <2> DEFINE n == Cardinality(UNION {{r} \X Begun(r) : r \in Underway})
             m == Cardinality(Asks)
             all == States * Cardinality(Agent)
  <2>3. Useful = n + AuditWork /\ Planned = m + all /\ all \in Nat
    <3>1. all \in Nat
      BY ConstantFacts
    <3>2. n \in Nat /\ AuditWork \in Nat
      BY <1>1, RunsWithinPlan, AuditWithinPlan
    <3>3. QED
      BY <3>1, <3>2 DEF Useful, Planned
  <2>4. n \in Nat /\ n <= m /\ m \in Nat /\ (c \in Run => n <= m - 1)
    BY <1>1, RunsWithinPlan
  <2>5. AuditWork \in Nat /\ AuditWork <= all /\ (c \in Agent => AuditWork <= all - 1)
    BY <1>1, AuditWithinPlan
  <2>6. c \in Run \/ c \in Agent
    BY DEF Caller
  <2> HIDE DEF n, m, all
  <2>7. QED
    BY <2>1, <2>2, <2>3, <2>4, <2>5, <2>6
<1>2. QED
  BY BasicsInit, BasicsNext, AuditingInit, AuditingNext, <1>1, PTL DEF CallsSpec

-----------------------------------------------------------------------------
(* The record of a run. *)

LogsDue(r) == attempt[r] - (IF Open(r) THEN 1 ELSE 0)

LEMMA RecordsInit == CallsInit => Records
BY ConstantFacts DEF CallsInit, Records, Running, Asking, Kind

LEMMA RecordSets ==
  ASSUME Shapes, NEW r \in Run
  PROVE  /\ rows[r] \in Seq(RecordRow) /\ Len(rows[r]) \in Nat /\ DOMAIN rows[r] = 1 .. Len(rows[r])
         /\ \A i \in DOMAIN rows[r] : rows[r][i] \in RecordRow
         /\ \A kind : IsFiniteSet(OfKind(r, kind)) /\ Cardinality(OfKind(r, kind)) \in Nat
         /\ \A k : IsFiniteSet(Tries(r, k)) /\ Cardinality(Tries(r, k)) \in Nat
         /\ IsFiniteSet(Past(r))
         /\ IsFiniteSet(GivenUp(r) \cap Past(r)) /\ Cardinality(GivenUp(r) \cap Past(r)) \in Nat
<1>1. rows[r] \in Seq(RecordRow)
  BY ConstantFacts DEF Shapes
<1>2. Len(rows[r]) \in Nat /\ DOMAIN rows[r] = 1 .. Len(rows[r])
  BY <1>1, LenProperties
<1>3. \A i \in DOMAIN rows[r] : rows[r][i] \in RecordRow
  BY <1>1, ElementOfSeq, <1>2
<1>4. IsFiniteSet(DOMAIN rows[r])
  BY <1>2, FS_Interval
<1>5. \A kind : IsFiniteSet(OfKind(r, kind)) /\ Cardinality(OfKind(r, kind)) \in Nat
  BY <1>4, FS_Subset, FS_CardinalityType DEF OfKind
<1>6. \A k : IsFiniteSet(Tries(r, k)) /\ Cardinality(Tries(r, k)) \in Nat
  BY <1>4, FS_Subset, FS_CardinalityType DEF Tries
<1>7. turn[r] - 1 \in Int /\ 1 \in Int
  BY DEF Shapes
<1>8. IsFiniteSet(Past(r))
  BY <1>7, FS_Interval DEF Past
<1>9. IsFiniteSet(GivenUp(r) \cap Past(r)) /\ Cardinality(GivenUp(r) \cap Past(r)) \in Nat
  BY <1>8, FS_Intersection, FS_CardinalityType
<1>10. QED
  BY <1>1, <1>2, <1>3, <1>5, <1>6, <1>8, <1>9

(* A step that leaves the record alone. *)
LEMMA RecordFrame ==
  ASSUME Shapes, NEW r \in Run, RecordSoFar(r),
         UNCHANGED <<rows[r], lost[r], tally[r], turn[r]>>,
         Asking(r) => Asking(r)',
         Asking(r)' => Cardinality(Tries(r, turn[r])) = LogsDue(r)'
  PROVE  RecordSoFar(r)'
<1>1. \A kind : OfKind(r, kind)' = OfKind(r, kind)
  BY DEF OfKind
<1>2. \A k : Tries(r, k)' = Tries(r, k)
  BY DEF Tries
<1>3. GivenUp(r)' = GivenUp(r)
  BY <1>1, <1>2 DEF GivenUp
<1>4. Past(r)' = Past(r)
  BY DEF Past
<1>5. /\ (tally[r].calls = Cardinality(OfKind(r, "ok")))'
      /\ (tally[r].invalid = Cardinality(OfKind(r, "invalid")))'
      /\ (lost[r].requests \subseteq Past(r) /\ lost[r].responses \subseteq Past(r))'
      /\ (tally[r].failures =
             Cardinality(lost[r].requests) + Cardinality(lost[r].responses)
               + tally[r].invalid + Cardinality(GivenUp(r) \cap Past(r)))'
  BY <1>1, <1>3, <1>4 DEF RecordSoFar
<1>6. /\ (\A i, j \in DOMAIN rows[r] : i < j => rows[r][i].k <= rows[r][j].k)'
      /\ (\A i \in DOMAIN rows[r] :
            /\ rows[r][i].k <= turn[r]
            /\ rows[r][i].k = turn[r] => Asking(r) /\ rows[r][i].kind = "transient")'
  BY DEF RecordSoFar
<1>7. (\A k \in 1 .. Requests[r] : Cardinality(Tries(r, k)) <= MaxRetries + 1)'
  BY <1>2 DEF RecordSoFar
<1>8. (Asking(r) => Cardinality(Tries(r, turn[r])) = LogsDue(r))'
  BY <1>2
<1>9. QED
  BY <1>5, <1>6, <1>7, <1>8 DEF RecordSoFar, LogsDue

(* A row is added to the record of a run. *)
LEMMA RowAdded ==
  ASSUME Basics, Shapes', NEW r \in Run, pc[r] \in Kind, Log(r)
  PROVE  LET n == Len(rows[r]) + 1
             row == Row(r)
         IN  /\ n \notin DOMAIN rows[r] /\ DOMAIN rows'[r] = DOMAIN rows[r] \cup {n}
             /\ \A i \in DOMAIN rows[r] : i < n /\ i \in Nat
             /\ rows'[r][n] = row /\ row.k = turn[r] /\ row.kind = pc[r]
             /\ \A i \in DOMAIN rows[r] : rows'[r][i] = rows[r][i]
             /\ \A kind : Cardinality(OfKind(r, kind)') =
                            Cardinality(OfKind(r, kind)) + (IF kind = pc[r] THEN 1 ELSE 0)
             /\ \A k : Cardinality(Tries(r, k)') =
                         Cardinality(Tries(r, k)) + (IF k = turn[r] THEN 1 ELSE 0)
             /\ \A k : k # turn[r] => Tries(r, k)' = Tries(r, k)
             /\ \A k : k = turn[r] => Tries(r, k)' = Tries(r, k) \cup {n}
             /\ \A kind : OfKind(r, kind)' \subseteq OfKind(r, kind) \cup {n}
             /\ \A kind : OfKind(r, kind) \subseteq OfKind(r, kind)'
             /\ \A kind : n \in OfKind(r, kind)' <=> kind = pc[r]
<1> DEFINE n == Len(rows[r]) + 1
           row == Row(r)
<1>1. Shapes /\ r \in Caller /\ rows[r] \in Seq(RecordRow) /\ DOMAIN rows = Caller
  BY ConstantFacts DEF Basics, Shapes
<1>2. Len(rows[r]) \in Nat /\ DOMAIN rows[r] = 1 .. Len(rows[r])
  BY <1>1, RecordSets
<1>3. row \in RecordRow /\ row.kind = pc[r] /\ row.k = turn[r]
  BY <1>1, RowFacts
<1>4. rows'[r] = Append(rows[r], row)
  BY <1>1 DEF Log, Put
<1> HIDE DEF row
<1>5. /\ DOMAIN rows'[r] = 1 .. n /\ rows'[r][n] = row
      /\ \A i \in 1 .. Len(rows[r]) : rows'[r][i] = rows[r][i]
  BY <1>1, <1>2, <1>3, <1>4, AppendProperties, LenProperties
<1>6. /\ n \notin DOMAIN rows[r] /\ DOMAIN rows'[r] = DOMAIN rows[r] \cup {n}
      /\ \A i \in DOMAIN rows[r] : i < n /\ i \in Nat
  BY <1>2, <1>5
<1> HIDE DEF n
<1>7. \A i \in DOMAIN rows[r] : rows'[r][i] = rows[r][i]
  BY <1>2, <1>5
<1>8. \A kind : OfKind(r, kind)' = IF kind = pc[r] THEN OfKind(r, kind) \cup {n} ELSE OfKind(r, kind)
  BY <1>3, <1>5, <1>6, <1>7 DEF OfKind
<1>9. \A k : Tries(r, k)' = IF k = turn[r] THEN Tries(r, k) \cup {n} ELSE Tries(r, k)
  BY <1>3, <1>5, <1>6, <1>7 DEF Tries
<1>10. \A kind : n \notin OfKind(r, kind) /\ \A k : n \notin Tries(r, k)
  BY <1>6 DEF OfKind, Tries
<1>11. ASSUME NEW kind
       PROVE  Cardinality(OfKind(r, kind)') =
                Cardinality(OfKind(r, kind)) + (IF kind = pc[r] THEN 1 ELSE 0)
  <2>1. IsFiniteSet(OfKind(r, kind)) /\ Cardinality(OfKind(r, kind)) \in Nat
    BY <1>1, RecordSets
  <2>2. CASE kind = pc[r]
    <3>1. OfKind(r, kind)' = OfKind(r, kind) \cup {n} /\ n \notin OfKind(r, kind)
      BY <1>8, <1>10, <2>2
    <3>2. QED
      BY <2>1, <2>2, <3>1, FS_AddElement
  <2>3. CASE kind # pc[r]
    BY <1>8, <2>1, <2>3
  <2>4. QED
    BY <2>2, <2>3
<1>12. ASSUME NEW k
       PROVE  Cardinality(Tries(r, k)') =
                Cardinality(Tries(r, k)) + (IF k = turn[r] THEN 1 ELSE 0)
  <2>1. IsFiniteSet(Tries(r, k)) /\ Cardinality(Tries(r, k)) \in Nat
    BY <1>1, RecordSets
  <2>2. CASE k = turn[r]
    <3>1. Tries(r, k)' = Tries(r, k) \cup {n} /\ n \notin Tries(r, k)
      BY <1>9, <1>10, <2>2
    <3>2. QED
      BY <2>1, <2>2, <3>1, FS_AddElement
  <2>3. CASE k # turn[r]
    BY <1>9, <2>1, <2>3
  <2>4. QED
    BY <2>2, <2>3
<1>13. /\ \A kind : OfKind(r, kind)' \subseteq OfKind(r, kind) \cup {n}
       /\ \A kind : OfKind(r, kind) \subseteq OfKind(r, kind)'
       /\ \A kind : n \in OfKind(r, kind)' <=> kind = pc[r]
  BY <1>8, <1>10
<1>14. /\ \A k : k # turn[r] => Tries(r, k)' = Tries(r, k)
       /\ \A k : k = turn[r] => Tries(r, k)' = Tries(r, k) \cup {n}
  BY <1>9
<1>15. QED
  BY <1>3, <1>5, <1>6, <1>7, <1>11, <1>12, <1>13, <1>14 DEF n, row

(* The requests given up, after the present one has its last row.          *)
LEMMA TurnEnds ==
  ASSUME Basics, Shapes', NEW r \in Run, pc[r] \in Kind, Log(r), RecordSoFar(r),
         turn'[r] = turn[r] + 1
  PROVE  /\ Past(r)' = Past(r) \cup {turn[r]} /\ turn[r] \notin Past(r)
         /\ Cardinality(GivenUp(r)' \cap Past(r)') =
              Cardinality(GivenUp(r) \cap Past(r)) + (IF pc[r] = "transient" THEN 1 ELSE 0)
<1>1. Shapes /\ turn[r] \in 1 .. Requests[r] /\ turn[r] \in Nat
  BY ConstantFacts DEF Basics, Shapes, CallsTypeOK, AsksWithin, Asking
<1>2. Past(r)' = Past(r) \cup {turn[r]} /\ turn[r] \notin Past(r)
  BY <1>1 DEF Past
<1> DEFINE n == Len(rows[r]) + 1
<1>3. /\ \A k : k # turn[r] => Tries(r, k)' = Tries(r, k)
      /\ \A k : k = turn[r] => Tries(r, k)' = Tries(r, k) \cup {n}
      /\ OfKind(r, "transient")' \subseteq OfKind(r, "transient") \cup {n}
      /\ OfKind(r, "transient") \subseteq OfKind(r, "transient")'
      /\ n \in OfKind(r, "transient")' <=> pc[r] = "transient"
      /\ n \notin DOMAIN rows[r]
  BY RowAdded, Zenon
<1>4. Tries(r, turn[r]) \subseteq OfKind(r, "transient")
  BY DEF RecordSoFar, Tries, OfKind
<1>5. \A k : n \notin Tries(r, k)
  BY <1>3 DEF Tries
<1> HIDE DEF n
<1>6. \A k \in Past(r) : k \in GivenUp(r)' <=> k \in GivenUp(r)
  <2> SUFFICES ASSUME NEW k \in Past(r)
               PROVE  k \in GivenUp(r)' <=> k \in GivenUp(r)
    OBVIOUS
  <2>1. Tries(r, k)' = Tries(r, k) /\ n \notin Tries(r, k)
    BY <1>2, <1>3, <1>5
  <2>2. Tries(r, k) \subseteq OfKind(r, "transient")' <=> Tries(r, k) \subseteq OfKind(r, "transient")
    BY <1>3, <2>1
  <2>3. QED
    BY <2>1, <2>2 DEF GivenUp
<1>7. turn[r] \in GivenUp(r)' <=> pc[r] = "transient"
  <2>1. PICK k : k = turn[r]
    OBVIOUS
  <2>2. Tries(r, k)' = Tries(r, k) \cup {n} /\ k \in 1 .. Requests[r]
    BY <1>1, <1>3, <2>1
  <2>3. Tries(r, k)' \subseteq OfKind(r, "transient")' <=> pc[r] = "transient"
    BY <1>3, <1>4, <2>1, <2>2
  <2>4. k \in GivenUp(r)' <=> pc[r] = "transient"
    BY <2>2, <2>3 DEF GivenUp
  <2>5. QED
    BY <2>1, <2>4
<1> DEFINE old == GivenUp(r) \cap Past(r)
           new == GivenUp(r)' \cap Past(r)'
<1>8. new = IF pc[r] = "transient" THEN old \cup {turn[r]} ELSE old
  BY <1>2, <1>6, <1>7
<1>9. turn[r] \notin old /\ IsFiniteSet(old) /\ Cardinality(old) \in Nat
  BY <1>1, <1>2, RecordSets
<1> HIDE DEF old, new
<1>10. Cardinality(new) = Cardinality(old) + (IF pc[r] = "transient" THEN 1 ELSE 0)
  <2>1. CASE pc[r] = "transient"
    <3>1. new = old \cup {turn[r]}
      BY <1>8, <2>1
    <3>2. QED
      BY <1>9, <2>1, <3>1, FS_AddElement
  <2>2. CASE pc[r] # "transient"
    BY <1>8, <1>9, <2>2
  <2>3. QED
    BY <2>1, <2>2
<1>11. QED
  BY <1>2, <1>10 DEF old, new

LEMMA LostSets ==
  ASSUME Shapes, NEW r \in Run, RecordSoFar(r)
  PROVE  /\ IsFiniteSet(lost[r].requests) /\ Cardinality(lost[r].requests) \in Nat
         /\ IsFiniteSet(lost[r].responses) /\ Cardinality(lost[r].responses) \in Nat
<1>1. IsFiniteSet(Past(r)) /\ lost[r].requests \subseteq Past(r) /\ lost[r].responses \subseteq Past(r)
  BY RecordSets DEF RecordSoFar
<1>2. QED
  BY <1>1, FS_Subset, FS_CardinalityType

(* The order of the rows, and the tries of each request, with one more row.*)
LEMMA RowInOrder ==
  ASSUME Basics, Shapes', NEW r \in Run, pc[r] \in Kind, Log(r), RecordSoFar(r)
  PROVE  /\ \A i, j \in DOMAIN rows'[r] : i < j => rows'[r][i].k <= rows'[r][j].k
         /\ \A k \in 1 .. Requests[r] : Cardinality(Tries(r, k)') <= MaxRetries + 1
         /\ \A k : k = turn[r] => Cardinality(Tries(r, k)') = attempt[r]
         /\ \A i \in DOMAIN rows'[r] : rows'[r][i].k \in Nat /\ rows'[r][i].k <= turn[r]
<1> DEFINE n == Len(rows[r]) + 1
<1>1. /\ n \notin DOMAIN rows[r] /\ DOMAIN rows'[r] = DOMAIN rows[r] \cup {n}
      /\ \A i \in DOMAIN rows[r] : i < n /\ i \in Nat
      /\ rows'[r][n].k = turn[r]
      /\ \A i \in DOMAIN rows[r] : rows'[r][i] = rows[r][i]
      /\ \A k : Cardinality(Tries(r, k)') =
                  Cardinality(Tries(r, k)) + (IF k = turn[r] THEN 1 ELSE 0)
  BY RowAdded, Zenon
<1>2. Shapes /\ turn[r] \in Nat /\ Len(rows[r]) \in Nat /\ n \in Nat
  BY RecordSets DEF Basics, Shapes
<1> HIDE DEF n
<1>3. \A i \in DOMAIN rows[r] : rows[r][i].k \in Nat /\ rows[r][i].k <= turn[r]
  BY <1>2, RecordSets DEF RecordSoFar, RecordRow
<1>4. \A i \in DOMAIN rows'[r] : rows'[r][i].k \in Nat /\ rows'[r][i].k <= turn[r]
  BY <1>1, <1>2, <1>3
<1>5. ASSUME NEW i \in DOMAIN rows'[r], NEW j \in DOMAIN rows'[r], i < j
      PROVE  rows'[r][i].k <= rows'[r][j].k
  <2>1. CASE i \in DOMAIN rows[r] /\ j \in DOMAIN rows[r]
    BY <1>1, <1>5, <2>1 DEF RecordSoFar
  <2>2. CASE i = n
    BY <1>1, <1>2, <1>5, <2>2
  <2>3. CASE i \in DOMAIN rows[r] /\ j = n
    BY <1>1, <1>3, <2>3
  <2>4. QED
    BY <1>1, <2>1, <2>2, <2>3
<1>6. attempt[r] \in 0 .. MaxRetries + 1 /\ MaxRetries \in Nat /\ r \in Caller
  BY ConstantFacts DEF Basics, CallsTypeOK
<1>7. Cardinality(Tries(r, turn[r])) = attempt[r] - 1
  BY DEF RecordSoFar, Asking, Open
<1>8. \A k : k = turn[r] => Cardinality(Tries(r, k)') = attempt[r]
  BY <1>1, <1>6, <1>7
<1>9. ASSUME NEW k \in 1 .. Requests[r]
      PROVE  Cardinality(Tries(r, k)') <= MaxRetries + 1
  <2>1. CASE k = turn[r]
    BY <1>6, <1>8, <2>1
  <2>2. Cardinality(Tries(r, k)) \in Nat
    BY <1>2, RecordSets
  <2>3. CASE k # turn[r]
    <3>1. Cardinality(Tries(r, k)') = Cardinality(Tries(r, k))
      BY <1>1, <2>2, <2>3
    <3>2. QED
      BY <3>1 DEF RecordSoFar
  <2>4. QED
    BY <2>1, <2>3
<1>10. QED
  BY <1>4, <1>5, <1>8, <1>9

LEMMA RetryRecords ==
  ASSUME Basics, Shapes', NEW r \in Run, Retry(r), RecordSoFar(r)
  PROVE  RecordSoFar(r)'
<1>1. /\ pc[r] = "transient" /\ pc[r] \in Kind /\ Log(r) /\ pc'[r] = "authorize"
      /\ UNCHANGED <<lost, tally, turn, attempt>>
  BY ConstantFacts DEF Retry, Kind, Put, loop, Basics, CallsTypeOK
<1> DEFINE n == Len(rows[r]) + 1
<1>2. /\ n \notin DOMAIN rows[r] /\ DOMAIN rows'[r] = DOMAIN rows[r] \cup {n}
      /\ rows'[r][n].kind = "transient"
      /\ \A i \in DOMAIN rows[r] : rows'[r][i] = rows[r][i]
      /\ \A kind : Cardinality(OfKind(r, kind)') =
                     Cardinality(OfKind(r, kind)) + (IF kind = pc[r] THEN 1 ELSE 0)
      /\ \A k : k # turn[r] => Tries(r, k)' = Tries(r, k)
      /\ OfKind(r, "transient")' \subseteq OfKind(r, "transient") \cup {n}
      /\ OfKind(r, "transient") \subseteq OfKind(r, "transient")'
  BY <1>1, RowAdded, Zenon
<1> HIDE DEF n
<1>3. Shapes /\ turn[r] \in Nat
  BY DEF Basics, Shapes
<1>4. \A kind : Cardinality(OfKind(r, kind)) \in Nat
  BY <1>3, RecordSets
<1>5. Cardinality(OfKind(r, "ok")') = Cardinality(OfKind(r, "ok"))
      /\ Cardinality(OfKind(r, "invalid")') = Cardinality(OfKind(r, "invalid"))
  BY <1>1, <1>2, <1>4
<1>6. Past(r)' = Past(r) /\ turn[r] \notin Past(r)
  BY <1>1, <1>3 DEF Past
<1>7. GivenUp(r)' \cap Past(r) = GivenUp(r) \cap Past(r)
  <2> SUFFICES ASSUME NEW k \in Past(r)
               PROVE  k \in GivenUp(r)' <=> k \in GivenUp(r)
    OBVIOUS
  <2>1. Tries(r, k)' = Tries(r, k) /\ n \notin Tries(r, k)
    BY <1>2, <1>6 DEF Tries
  <2>2. Tries(r, k) \subseteq OfKind(r, "transient")' <=> Tries(r, k) \subseteq OfKind(r, "transient")
    BY <1>2, <2>1
  <2>3. QED
    BY <2>1, <2>2 DEF GivenUp
<1>8. Asking(r)'
  BY <1>1 DEF Asking
<1>9. /\ (tally[r].calls = Cardinality(OfKind(r, "ok")))'
      /\ (tally[r].invalid = Cardinality(OfKind(r, "invalid")))'
      /\ (lost[r].requests \subseteq Past(r) /\ lost[r].responses \subseteq Past(r))'
      /\ (tally[r].failures =
             Cardinality(lost[r].requests) + Cardinality(lost[r].responses)
               + tally[r].invalid + Cardinality(GivenUp(r) \cap Past(r)))'
  BY <1>1, <1>5, <1>6, <1>7 DEF RecordSoFar
<1>10. /\ (\A i, j \in DOMAIN rows[r] : i < j => rows[r][i].k <= rows[r][j].k)'
       /\ (\A k \in 1 .. Requests[r] : Cardinality(Tries(r, k)) <= MaxRetries + 1)'
  BY <1>1, RowInOrder
<1>11. (\A i \in DOMAIN rows[r] :
          /\ rows[r][i].k <= turn[r]
          /\ rows[r][i].k = turn[r] => Asking(r) /\ rows[r][i].kind = "transient")'
  <2>1. \A i \in DOMAIN rows'[r] : rows'[r][i].k <= turn[r]
    BY <1>1, RowInOrder
  <2>2. \A i \in DOMAIN rows'[r] : rows'[r][i].k = turn[r] => rows'[r][i].kind = "transient"
    BY <1>2 DEF RecordSoFar
  <2>3. QED
    BY <1>1, <1>8, <2>1, <2>2
<1>12. (Asking(r) => Cardinality(Tries(r, turn[r])) = attempt[r] - (IF Open(r) THEN 1 ELSE 0))'
  <2>1. PICK k : k = turn[r]
    OBVIOUS
  <2>2. Cardinality(Tries(r, k)') = attempt[r]
    BY <1>1, <2>1, RowInOrder
  <2>3. ~Open(r)' /\ attempt'[r] \in Int /\ turn'[r] = k /\ attempt'[r] = attempt[r]
    BY <1>1, <2>1, ConstantFacts DEF Open, Kind, Basics, CallsTypeOK
  <2>4. QED
    BY <2>2, <2>3 DEF Tries
<1>13. QED
  BY <1>9, <1>10, <1>11, <1>12 DEF RecordSoFar

(* A request has its last row, and the loop goes on. *)
LEMMA TurnRecords ==
  ASSUME Basics, Shapes', NEW r \in Run, pc[r] \in Kind, Log(r), RecordSoFar(r),
         turn'[r] = turn[r] + 1, pc'[r] = "loop",
         LET late == IF lost'[r] = lost[r] THEN 0 ELSE 1
         IN  /\ lost'[r].requests = lost[r].requests
             /\ lost'[r].responses = IF late = 0 THEN lost[r].responses
                                     ELSE lost[r].responses \cup {turn[r]}
             /\ tally'[r].calls = tally[r].calls + (IF pc[r] = "ok" THEN 1 ELSE 0)
             /\ tally'[r].invalid = tally[r].invalid + (IF pc[r] = "invalid" THEN 1 ELSE 0)
             /\ tally'[r].failures = tally[r].failures + late
                   + (IF pc[r] \in {"invalid", "transient"} THEN 1 ELSE 0)
  PROVE  RecordSoFar(r)'
<1> DEFINE late == IF lost'[r] = lost[r] THEN 0 ELSE 1
<1>1. Shapes /\ turn[r] \in Nat /\ tally[r] \in Counters /\ late \in {0, 1}
  BY DEF Basics, Shapes
<1>2. /\ \A kind : Cardinality(OfKind(r, kind)') =
                     Cardinality(OfKind(r, kind)) + (IF kind = pc[r] THEN 1 ELSE 0)
      /\ \A kind : Cardinality(OfKind(r, kind)) \in Nat
  BY <1>1, RowAdded, RecordSets, Zenon
<1>3. (tally[r].calls = Cardinality(OfKind(r, "ok")))'
  BY <1>2 DEF RecordSoFar
<1>4. (tally[r].invalid = Cardinality(OfKind(r, "invalid")))'
  BY <1>2 DEF RecordSoFar
<1>5. Past(r)' = Past(r) \cup {turn[r]} /\ turn[r] \notin Past(r)
      /\ Cardinality(GivenUp(r)' \cap Past(r)') =
           Cardinality(GivenUp(r) \cap Past(r)) + (IF pc[r] = "transient" THEN 1 ELSE 0)
  BY TurnEnds
<1>6. (lost[r].requests \subseteq Past(r) /\ lost[r].responses \subseteq Past(r))'
  BY <1>5 DEF RecordSoFar
<1>7. Cardinality(lost'[r].responses) = Cardinality(lost[r].responses) + late
  <2>1. IsFiniteSet(lost[r].responses) /\ Cardinality(lost[r].responses) \in Nat
        /\ turn[r] \notin lost[r].responses
    BY <1>1, <1>5, LostSets DEF RecordSoFar
  <2>2. CASE late = 0
    BY <2>1, <2>2
  <2>3. CASE late = 1
    <3>1. lost'[r].responses = lost[r].responses \cup {turn[r]}
      BY <2>3
    <3> HIDE DEF late
    <3>2. QED
      BY <2>1, <2>3, <3>1, FS_AddElement
  <2>4. QED
    BY <1>1, <2>2, <2>3
<1>8. (tally[r].failures =
         Cardinality(lost[r].requests) + Cardinality(lost[r].responses)
           + tally[r].invalid + Cardinality(GivenUp(r) \cap Past(r)))'
  <2>1. PICK a \in Nat, b \in Nat, g \in Nat, v \in Nat, f \in Nat :
          /\ a = Cardinality(lost[r].requests) /\ b = Cardinality(lost[r].responses)
          /\ g = Cardinality(GivenUp(r) \cap Past(r)) /\ v = tally[r].invalid
          /\ f = tally[r].failures /\ f = a + b + v + g
    <3>1. /\ Cardinality(lost[r].requests) \in Nat /\ Cardinality(lost[r].responses) \in Nat
          /\ Cardinality(GivenUp(r) \cap Past(r)) \in Nat
      BY <1>1, LostSets, RecordSets
    <3>2. tally[r].invalid \in Nat /\ tally[r].failures \in Nat
      BY <1>1 DEF Counters
    <3>3. tally[r].failures = Cardinality(lost[r].requests) + Cardinality(lost[r].responses)
                                + tally[r].invalid + Cardinality(GivenUp(r) \cap Past(r))
      BY DEF RecordSoFar
    <3>4. QED
      BY <3>1, <3>2, <3>3, Zenon
  <2>2. /\ Cardinality(lost'[r].requests) = a /\ Cardinality(lost'[r].responses) = b + late
        /\ tally'[r].invalid = v + (IF pc[r] = "invalid" THEN 1 ELSE 0)
        /\ Cardinality(GivenUp(r)' \cap Past(r)') = g + (IF pc[r] = "transient" THEN 1 ELSE 0)
        /\ tally'[r].failures = f + late + (IF pc[r] \in {"invalid", "transient"} THEN 1 ELSE 0)
    BY <1>5, <1>7, <2>1
  <2> HIDE DEF late
  <2>3. tally'[r].failures =
          Cardinality(lost'[r].requests) + Cardinality(lost'[r].responses)
            + tally'[r].invalid + Cardinality(GivenUp(r)' \cap Past(r)')
    BY <1>1, <2>1, <2>2
  <2>4. QED
    BY <2>3
<1>9. /\ (\A i, j \in DOMAIN rows[r] : i < j => rows[r][i].k <= rows[r][j].k)'
      /\ (\A k \in 1 .. Requests[r] : Cardinality(Tries(r, k)) <= MaxRetries + 1)'
  BY RowInOrder
<1>10. (\A i \in DOMAIN rows[r] :
          /\ rows[r][i].k <= turn[r]
          /\ rows[r][i].k = turn[r] => Asking(r) /\ rows[r][i].kind = "transient")'
  <2>1. \A i \in DOMAIN rows'[r] : rows'[r][i].k \in Nat /\ rows'[r][i].k <= turn[r]
    BY RowInOrder
  <2>2. QED
    BY <1>1, <2>1
<1>11. ~Asking(r)'
  BY DEF Asking, Kind
<1>12. QED
  BY <1>3, <1>4, <1>6, <1>8, <1>9, <1>10, <1>11 DEF RecordSoFar

LEMMA ConcludeRecords ==
  ASSUME Basics, Shapes', NEW r \in Run, Conclude(r), RecordSoFar(r), Running(r)'
  PROVE  RecordSoFar(r)'
<1>1. /\ pc[r] \in Kind /\ Log(r) /\ UNCHANGED lost /\ tally[r] \in Counters
      /\ pc \in [Caller -> Status] /\ r \in Caller /\ turn \in [Run -> Nat]
      /\ tally'[r] = Counted(tally[r], pc[r])
  BY ConstantFacts DEF Conclude, Concludes, Kind, Put, Basics, Shapes, CallsTypeOK, Status
<1>2. ~Ends(r)
  <2> SUFFICES ASSUME Ends(r) PROVE FALSE
    OBVIOUS
  <2>1. pc'[r] = "raised"
    BY <1>1 DEF Conclude, Put
  <2>2. QED
    BY <2>1 DEF Running, Asking, Kind
<1>3. pc'[r] = "loop" /\ turn'[r] = turn[r] + 1 /\ pc[r] # "other"
  BY <1>1, <1>2 DEF Conclude, Put, Ends
<1>4. /\ tally'[r].calls = tally[r].calls + (IF pc[r] = "ok" THEN 1 ELSE 0)
      /\ tally'[r].invalid = tally[r].invalid + (IF pc[r] = "invalid" THEN 1 ELSE 0)
      /\ tally'[r].failures = tally[r].failures + 0
            + (IF pc[r] \in {"invalid", "transient"} THEN 1 ELSE 0)
  <2>1. CASE pc[r] = "ok"
    BY <1>1, <2>1 DEF Counted, Counters
  <2>2. CASE pc[r] = "invalid"
    <3>1. tally'[r] = [tally[r] EXCEPT !.failures = tally[r].failures + 1,
                                       !.invalid = tally[r].invalid + 1]
      BY <1>1, <2>2 DEF Counted
    <3>2. /\ tally'[r].failures = tally[r].failures + 1
          /\ tally'[r].invalid = tally[r].invalid + 1 /\ tally'[r].calls = tally[r].calls
      BY <1>1, <3>1, Zenon DEF Counters
    <3>3. tally[r].failures \in Nat /\ tally[r].calls \in Nat
      BY <1>1 DEF Counters
    <3>4. QED
      BY <2>2, <3>2, <3>3
  <2>3. CASE pc[r] = "transient"
    BY <1>1, <2>3 DEF Counted, Counters
  <2>4. QED
    BY <1>1, <1>3, <2>1, <2>2, <2>3 DEF Kind
<1>5. QED
  BY <1>1, <1>3, <1>4, TurnRecords

LEMMA AnswerLostRecords ==
  ASSUME Basics, Shapes', NEW r \in Run, AnswerLost(r), RecordSoFar(r)
  PROVE  RecordSoFar(r)'
<1>1. /\ pc[r] = "ok" /\ pc[r] \in Kind /\ Log(r) /\ tally[r] \in Counters
      /\ lost[r] \in Losses /\ turn[r] \in Nat
      /\ pc'[r] = "loop" /\ turn'[r] = turn[r] + 1
  BY ConstantFacts DEF AnswerLost, Kind, Put, Basics, Shapes, CallsTypeOK
<1>2. /\ lost'[r] = [lost[r] EXCEPT !.responses = lost[r].responses \cup {turn[r]}]
      /\ tally'[r] = [tally[r] EXCEPT !.calls = tally[r].calls + 1,
                                      !.failures = tally[r].failures + 1]
  BY Zenon DEF AnswerLost, Basics, Shapes
<1>3. /\ lost'[r].requests = lost[r].requests
      /\ lost'[r].responses = lost[r].responses \cup {turn[r]}
      /\ tally'[r].calls = tally[r].calls + 1 /\ tally'[r].failures = tally[r].failures + 1
      /\ tally'[r].invalid = tally[r].invalid /\ tally[r].invalid \in Nat
      /\ tally[r].failures \in Nat
  BY <1>1, <1>2 DEF Losses, Counters
<1>4. turn[r] \notin lost[r].responses
  BY <1>1 DEF RecordSoFar, Past
<1>5. lost'[r] # lost[r]
  BY <1>3, <1>4
<1> DEFINE late == IF lost'[r] = lost[r] THEN 0 ELSE 1
<1>6. /\ late = 1
      /\ lost'[r].responses = IF late = 0 THEN lost[r].responses
                              ELSE lost[r].responses \cup {turn[r]}
      /\ tally'[r].calls = tally[r].calls + (IF pc[r] = "ok" THEN 1 ELSE 0)
      /\ tally'[r].invalid = tally[r].invalid + (IF pc[r] = "invalid" THEN 1 ELSE 0)
      /\ tally'[r].failures = tally[r].failures + late
            + (IF pc[r] \in {"invalid", "transient"} THEN 1 ELSE 0)
  BY <1>1, <1>3, <1>5
<1>7. QED
  BY <1>1, <1>3, <1>6, TurnRecords

LEMMA LoseRecords ==
  ASSUME Basics, Shapes', NEW r \in Run, Lose(r), RecordSoFar(r)
  PROVE  RecordSoFar(r)'
<1>1. /\ Shapes /\ pc[r] = "loop" /\ UNCHANGED <<pc, rows, attempt>> /\ tally[r] \in Counters
      /\ lost[r] \in Losses /\ turn[r] \in 1 .. Requests[r] /\ turn[r] \in Nat
      /\ turn'[r] = turn[r] + 1
  BY ConstantFacts DEF Lose, calls, Put, Basics, Shapes, CallsTypeOK
<1>2. /\ lost'[r] = [lost[r] EXCEPT !.requests = lost[r].requests \cup {turn[r]}]
      /\ tally'[r] = [tally[r] EXCEPT !.failures = tally[r].failures + 1]
  BY Zenon DEF Lose, Basics, Shapes
<1>3. /\ lost'[r].responses = lost[r].responses
      /\ lost'[r].requests = lost[r].requests \cup {turn[r]}
      /\ tally'[r].calls = tally[r].calls /\ tally'[r].failures = tally[r].failures + 1
      /\ tally'[r].invalid = tally[r].invalid
  BY <1>1, <1>2 DEF Losses, Counters
<1>4. \A kind : OfKind(r, kind)' = OfKind(r, kind)
  BY <1>1 DEF OfKind
<1>5. \A k : Tries(r, k)' = Tries(r, k)
  BY <1>1 DEF Tries
<1>6. GivenUp(r)' = GivenUp(r)
  BY <1>4, <1>5 DEF GivenUp
<1>7. Past(r)' = Past(r) \cup {turn[r]} /\ turn[r] \notin Past(r)
  BY <1>1 DEF Past
<1>8. \A i \in DOMAIN rows[r] : rows[r][i].k # turn[r]
  BY <1>1 DEF RecordSoFar, Asking, Kind
<1>9. GivenUp(r)' \cap Past(r)' = GivenUp(r) \cap Past(r)
  <2>1. Tries(r, turn[r]) = {}
    BY <1>8 DEF Tries
  <2>2. turn[r] \notin GivenUp(r)
    BY <2>1 DEF GivenUp
  <2>3. QED
    BY <1>6, <1>7, <2>2
<1>10. Cardinality(lost'[r].requests) = Cardinality(lost[r].requests) + 1
  <2>1. IsFiniteSet(lost[r].requests) /\ turn[r] \notin lost[r].requests
    BY <1>1, <1>7, LostSets DEF RecordSoFar
  <2>2. QED
    BY <1>3, <2>1, FS_AddElement
<1>11. (tally[r].failures =
         Cardinality(lost[r].requests) + Cardinality(lost[r].responses)
           + tally[r].invalid + Cardinality(GivenUp(r) \cap Past(r)))'
  <2>1. PICK a \in Nat, b \in Nat, g \in Nat, v \in Nat, f \in Nat :
          /\ a = Cardinality(lost[r].requests) /\ b = Cardinality(lost[r].responses)
          /\ g = Cardinality(GivenUp(r) \cap Past(r)) /\ v = tally[r].invalid
          /\ f = tally[r].failures /\ f = a + b + v + g
    <3>1. /\ Cardinality(lost[r].requests) \in Nat /\ Cardinality(lost[r].responses) \in Nat
          /\ Cardinality(GivenUp(r) \cap Past(r)) \in Nat
      BY <1>1, LostSets, RecordSets
    <3>2. tally[r].invalid \in Nat /\ tally[r].failures \in Nat
      BY <1>1 DEF Counters
    <3>3. tally[r].failures = Cardinality(lost[r].requests) + Cardinality(lost[r].responses)
                                + tally[r].invalid + Cardinality(GivenUp(r) \cap Past(r))
      BY DEF RecordSoFar
    <3>4. QED
      BY <3>1, <3>2, <3>3, Zenon
  <2>2. f + 1 = (a + 1) + b + v + g
    BY <2>1
  <2>3. QED
    BY <1>3, <1>9, <1>10, <2>1, <2>2
<1>12. (lost[r].requests \subseteq Past(r) /\ lost[r].responses \subseteq Past(r))'
  BY <1>3, <1>7 DEF RecordSoFar
<1>13. (\A k \in 1 .. Requests[r] : Cardinality(Tries(r, k)) <= MaxRetries + 1)'
  BY <1>5 DEF RecordSoFar
<1>14. /\ (\A i, j \in DOMAIN rows[r] : i < j => rows[r][i].k <= rows[r][j].k)'
       /\ (\A i \in DOMAIN rows[r] :
             /\ rows[r][i].k <= turn[r]
             /\ rows[r][i].k = turn[r] => Asking(r) /\ rows[r][i].kind = "transient")'
  <2>1. \A i \in DOMAIN rows[r] : rows[r][i].k <= turn[r] /\ rows[r][i].k \in Nat
    BY <1>1, RecordSets DEF RecordSoFar, RecordRow
  <2>2. QED
    BY <1>1, <2>1 DEF RecordSoFar
<1>15. ~Asking(r)'
  BY <1>1 DEF Asking, Kind
<1>16. /\ (tally[r].calls = Cardinality(OfKind(r, "ok")))'
       /\ (tally[r].invalid = Cardinality(OfKind(r, "invalid")))'
  BY <1>3, <1>4 DEF RecordSoFar
<1>17. QED
  BY <1>11, <1>12, <1>13, <1>14, <1>15, <1>16 DEF RecordSoFar

LEMMA StartRecords ==
  ASSUME Basics, NEW r \in Run, Start(r)
  PROVE  RecordSoFar(r)'
<1>1. /\ rows'[r] = <<>> /\ lost'[r] = NoneLost /\ tally'[r] = NoCalls /\ turn'[r] = 1
      /\ pc'[r] = "loop"
  BY ConstantFacts DEF Start, Put, Basics, Shapes, CallsTypeOK
<1>2. \A kind : OfKind(r, kind)' = {}
  BY <1>1 DEF OfKind
<1>3. \A k : Tries(r, k)' = {}
  BY <1>1 DEF Tries
<1>4. GivenUp(r)' = {}
  BY <1>3 DEF GivenUp
<1>5. DOMAIN rows'[r] = {} /\ Cardinality({}) = 0 /\ MaxRetries \in Nat
  BY <1>1, FS_EmptySet, ConstantFacts
<1>6. ~Asking(r)'
  BY <1>1 DEF Asking, Kind
<1>7. /\ lost'[r].requests = {} /\ lost'[r].responses = {}
      /\ tally'[r].calls = 0 /\ tally'[r].invalid = 0 /\ tally'[r].failures = 0
  BY <1>1 DEF NoneLost, NoCalls
<1>8. /\ (tally[r].calls = Cardinality(OfKind(r, "ok")))'
      /\ (tally[r].invalid = Cardinality(OfKind(r, "invalid")))'
      /\ (tally[r].failures =
             Cardinality(lost[r].requests) + Cardinality(lost[r].responses)
               + tally[r].invalid + Cardinality(GivenUp(r) \cap Past(r)))'
  BY <1>2, <1>4, <1>5, <1>7, SMTT(30)
<1>9. /\ (lost[r].requests \subseteq Past(r) /\ lost[r].responses \subseteq Past(r))'
      /\ (\A k \in 1 .. Requests[r] : Cardinality(Tries(r, k)) <= MaxRetries + 1)'
  BY <1>3, <1>5, <1>7
<1>10. QED
  BY <1>5, <1>6, <1>8, <1>9 DEF RecordSoFar

LEMMA RecordsNext ==
  ASSUME Basics, Records, [CallsNext]_callVars
  PROVE  Records'
<1> SUFFICES ASSUME NEW r \in Run, Running(r)' \/ (pc[r] = "done")'
             PROVE  RecordSoFar(r)'
  BY DEF Records
<1> USE DEF Put, calls, loop, gate
<1>1. /\ Shapes /\ Shapes' /\ r \in Caller /\ r \notin Agent /\ pc \in [Caller -> Status]
      /\ attempt \in [Caller -> 0 .. MaxRetries + 1] /\ turn \in [Run -> Nat]
      /\ rows \in [Caller -> Seq(RecordRow)] /\ lost \in [Run -> Losses]
      /\ tally \in [Run -> Counters] /\ MaxRetries \in Nat
  BY BasicsNext, ConstantFacts DEF Basics, CallsTypeOK, Status, Shapes
<1>2. Running(r) \/ pc[r] = "done" => RecordSoFar(r)
  BY DEF Records
<1>3. ASSUME UNCHANGED <<rows[r], lost[r], tally[r], turn[r], pc[r], attempt[r]>>
      PROVE  RecordSoFar(r)'
  <2>1. RecordSoFar(r)
    BY <1>2, <1>3 DEF Running, Asking
  <2>2. Asking(r)' <=> Asking(r)
    BY <1>3 DEF Asking
  <2>3. LogsDue(r)' = LogsDue(r)
    BY <1>3 DEF LogsDue, Open
  <2>4. Asking(r) => Cardinality(Tries(r, turn[r])) = LogsDue(r)
    BY <2>1 DEF RecordSoFar, LogsDue
  <2>5. QED
    BY <1>1, <1>3, <2>1, <2>2, <2>3, <2>4, RecordFrame
<1>4. ASSUME NEW c \in Caller, c # r,
             \/ Authorize(c) \/ Refuse(c) \/ Retry(c) \/ Conclude(c) \/ CallEnds(c)
             \/ \E kind \in Kind : Answer(c, kind)
      PROVE  RecordSoFar(r)'
  <2>1. UNCHANGED <<rows[r], lost[r], tally[r], turn[r], pc[r], attempt[r]>>
    BY <1>1, <1>4, Zenon DEF Authorize, Refuse, Retry, Conclude, CallEnds, Answer, Log
  <2>2. QED
    BY <1>3, <2>1
<1>5. ASSUME NEW q \in Run, q # r,
             \/ Start(q) \/ Lose(q) \/ Ask(q) \/ AnswerLost(q) \/ Summarize(q)
             \/ KillRun(q) \/ Replay(q)
      PROVE  RecordSoFar(r)'
  <2>1. UNCHANGED <<rows[r], lost[r], tally[r], turn[r], pc[r], attempt[r]>>
    BY <1>1, <1>5, Zenon DEF Start, Lose, Ask, AnswerLost, Summarize, KillRun, Replay, Log
  <2>2. QED
    BY <1>3, <2>1
<1>6. CASE \/ Prepare \/ AuditStart \/ (\E batch \in audit.todo : AskBatch(batch))
           \/ BatchEnds \/ WriteTable \/ KillAudit \/ Quiet \/ UNCHANGED callVars \/ Replay(r)
  <2>1. CASE \E batch \in audit.todo : AskBatch(batch)
    <3>1. PICK batch \in audit.todo : AskBatch(batch)
      BY <2>1
    <3>2. r \notin Asked(batch)
      BY <1>1, AskedFacts DEF Shapes, AuditState
    <3>3. UNCHANGED <<rows[r], lost[r], tally[r], turn[r], pc[r], attempt[r]>>
      BY <1>1, <3>1, <3>2 DEF AskBatch
    <3>4. QED
      BY <1>3, <3>3
  <2>2. CASE \/ Prepare \/ AuditStart \/ BatchEnds \/ WriteTable \/ KillAudit \/ Quiet
             \/ UNCHANGED callVars \/ Replay(r)
    <3>1. UNCHANGED <<rows[r], lost[r], tally[r], turn[r], pc[r], attempt[r]>>
      BY <1>1, <2>2 DEF Prepare, AuditStart, BatchEnds, WriteTable, KillAudit, Quiet, callVars,
         Dismissed, Replay
    <3>2. QED
      BY <1>3, <3>1
  <2>3. QED
    BY <1>6, <2>1, <2>2
<1>7. ASSUME Authorize(r) \/ \E kind \in Kind : Answer(r, kind)
      PROVE  RecordSoFar(r)'
  <2>1. /\ UNCHANGED <<rows[r], lost[r], tally[r], turn[r]>>
        /\ Asking(r) /\ Asking(r)'
    BY <1>1, <1>7 DEF Authorize, Answer, Asking, Kind
  <2>2. LogsDue(r)' = LogsDue(r)
    BY <1>1, <1>7 DEF Authorize, Answer, LogsDue, Open, Kind
  <2>3. RecordSoFar(r)
    BY <1>2, <2>1 DEF Running
  <2>4. Cardinality(Tries(r, turn[r])) = LogsDue(r)'
    BY <2>1, <2>2, <2>3 DEF RecordSoFar, LogsDue
  <2>5. QED
    BY <1>1, <2>1, <2>3, <2>4, RecordFrame
<1>8. CASE Refuse(r) \/ KillRun(r)
  <2>1. pc'[r] \in {"raised", "killed"}
    BY <1>1, <1>8 DEF Refuse, KillRun
  <2>2. QED
    BY <2>1 DEF Running, Asking, Kind
<1>9. CASE Ask(r)
  <2>1. /\ UNCHANGED <<rows[r], lost[r], tally[r], turn[r]>> /\ pc[r] = "loop"
        /\ pc'[r] = "authorize" /\ attempt'[r] = 0
    BY <1>1, <1>9 DEF Ask
  <2>2. RecordSoFar(r) /\ ~Asking(r)
    BY <1>2, <2>1 DEF Running, Asking, Kind
  <2>3. Tries(r, turn[r]) = {}
    BY <2>2 DEF RecordSoFar, Tries
  <2>4. LogsDue(r)' = 0
    <3>1. ~Open(r)'
      BY <2>1 DEF Open, Kind
    <3>2. LogsDue(r)' = attempt'[r] - 0
      BY <3>1 DEF LogsDue
    <3>3. QED
      BY <2>1, <3>2
  <2>5. Cardinality(Tries(r, turn[r])) = LogsDue(r)'
    BY <2>3, <2>4, FS_EmptySet
  <2>6. QED
    BY <1>1, <2>1, <2>2, <2>5, RecordFrame
<1>10. CASE Summarize(r)
  <2>1. /\ UNCHANGED <<rows[r], lost[r], tally[r], turn[r]>> /\ pc[r] = "loop"
        /\ pc'[r] = "done"
    BY <1>1, <1>10 DEF Summarize
  <2>2. RecordSoFar(r) /\ ~Asking(r) /\ ~Asking(r)'
    BY <1>2, <2>1 DEF Running, Asking, Kind
  <2>3. QED
    BY <1>1, <2>1, <2>2, RecordFrame
<1>11. CASE Start(r)
  BY <1>11, StartRecords
<1>12. CASE Lose(r)
  BY <1>1, <1>2, <1>12, LoseRecords DEF Lose, Running
<1>13. CASE AnswerLost(r)
  BY <1>1, <1>2, <1>13, AnswerLostRecords DEF AnswerLost, Running, Asking, Kind
<1>14. CASE Retry(r)
  BY <1>1, <1>2, <1>14, RetryRecords DEF Retry, Running, Asking, Kind
<1>15. CASE Conclude(r)
  <2>1. RecordSoFar(r)
    BY <1>2, <1>15 DEF Conclude, Concludes, Running, Asking
  <2>2. pc'[r] \in {"raised", "loop"}
    BY <1>1, <1>15 DEF Conclude
  <2>3. Running(r)'
    BY <2>2
  <2>4. QED
    BY <1>1, <1>15, <2>1, <2>3, ConcludeRecords
<1>16. ~CallEnds(r)
  BY <1>1 DEF CallEnds
<1>17. QED
  BY <1>4, <1>5, <1>6, <1>7, <1>8, <1>9, <1>10, <1>11, <1>12, <1>13, <1>14, <1>15, <1>16
     DEF CallsNext

(* The counters in the summary of a completed run are those of its record  *)
(* and of what the network lost, its requests are in order and none was    *)
(* tried too often: for every run, whatever was killed or refused before.  *)
THEOREM SummariesMatchRecords == CallsSpec => []SummaryMatchesRecord
<1>1. ASSUME Basics, Records
      PROVE  SummaryMatchesRecord
  <2> SUFFICES ASSUME NEW r \in Run, summary[r] # None
               PROVE  /\ summary[r].calls = Cardinality(OfKind(r, "ok"))
                      /\ summary[r].invalid = Cardinality(OfKind(r, "invalid"))
                      /\ summary[r].failures =
                           Cardinality(lost[r].requests) + Cardinality(lost[r].responses)
                             + summary[r].invalid + Cardinality(GivenUp(r))
                      /\ \A i, j \in DOMAIN rows[r] : i < j => rows[r][i].k <= rows[r][j].k
                      /\ \A k \in 1 .. Requests[r] : Cardinality(Tries(r, k)) <= MaxRetries + 1
    BY DEF SummaryMatchesRecord
  <2>1. pc[r] = "done" /\ summary[r] = tally[r] /\ turn[r] = Requests[r] + 1
    BY <1>1 DEF Basics, Final
  <2>2. RecordSoFar(r)
    BY <1>1, <2>1 DEF Records
  <2>3. GivenUp(r) \cap Past(r) = GivenUp(r)
    BY <2>1, ConstantFacts DEF GivenUp, Past
  <2>4. QED
    BY <2>1, <2>2, <2>3 DEF RecordSoFar
<1>2. Basics /\ Records /\ [CallsNext]_callVars => Records'
  BY RecordsNext
<1>3. QED
  BY BasicsInit, BasicsNext, RecordsInit, <1>1, <1>2, PTL DEF CallsSpec

-----------------------------------------------------------------------------
(* The rows of each request, and the replay that meets them. *)

LEMMA AnswersInit == CallsInit => Answers
BY ConstantFacts DEF CallsInit, Answers, Running, Asking, Kind

(* A step that leaves the record alone. *)
LEMMA AnswersFrame ==
  ASSUME NEW r \in Run, AnsweredSoFar(r), UNCHANGED <<rows[r], lost[r], turn[r]>>
  PROVE  AnsweredSoFar(r)'
<1>1. \A k : Tries(r, k)' = Tries(r, k)
  BY DEF Tries
<1>2. Past(r)' = Past(r)
  BY DEF Past
<1>3. (\A k \in Past(r) : Tries(r, k) = {} <=> k \in lost[r].requests)'
  BY <1>1, <1>2 DEF AnsweredSoFar
<1>4. QED
  BY <1>3 DEF AnsweredSoFar

(* A row is added: the one before it, for the same request, was that of a  *)
(* failed attempt.                                                         *)
LEMMA RowAnswers ==
  ASSUME Basics, Shapes', NEW r \in Run, pc[r] \in Kind, pc[r] # "other", Log(r),
         RecordSoFar(r), AnsweredSoFar(r),
         turn'[r] \in {turn[r], turn[r] + 1}, lost'[r].requests = lost[r].requests
  PROVE  AnsweredSoFar(r)'
<1> DEFINE n == Len(rows[r]) + 1
<1>1. /\ n \notin DOMAIN rows[r] /\ DOMAIN rows'[r] = DOMAIN rows[r] \cup {n}
      /\ \A i \in DOMAIN rows[r] : i < n /\ i \in Nat
      /\ rows'[r][n].k = turn[r] /\ rows'[r][n].kind = pc[r]
      /\ \A i \in DOMAIN rows[r] : rows'[r][i] = rows[r][i]
      /\ \A k : k # turn[r] => Tries(r, k)' = Tries(r, k)
      /\ \A k : k = turn[r] => Tries(r, k)' = Tries(r, k) \cup {n}
  BY RowAdded, Zenon
<1>2. /\ Shapes /\ Len(rows[r]) \in Nat /\ n \in Nat /\ turn[r] \in Nat
      /\ turn[r] >= 1
  BY RecordSets, ConstantFacts DEF Basics, Shapes, CallsTypeOK
<1> HIDE DEF n
<1>3. ASSUME NEW k \in Past(r)'
      PROVE  Tries(r, k)' = {} <=> k \in lost'[r].requests
  <2>1. CASE k = turn[r]
    <3>1. Tries(r, k)' # {}
      BY <1>1, <2>1
    <3>2. k \notin lost[r].requests
      BY <1>2, <2>1 DEF RecordSoFar, Past
    <3>3. QED
      BY <3>1, <3>2
  <2>2. CASE k # turn[r]
    <3>1. k \in Past(r)
      BY <1>2, <1>3, <2>2 DEF Past
    <3>2. Tries(r, k)' = Tries(r, k)
      BY <1>1, <2>2
    <3>3. QED
      BY <3>1, <3>2 DEF AnsweredSoFar
  <2>3. QED
    BY <2>1, <2>2
<1>4. ASSUME NEW i \in DOMAIN rows'[r], NEW j \in DOMAIN rows'[r],
             i < j, rows'[r][i].k = rows'[r][j].k
      PROVE  rows'[r][i].kind = "transient"
  <2>1. i # n
    BY <1>1, <1>2, <1>4
  <2>2. CASE j = n
    BY <1>1, <1>4, <2>1, <2>2 DEF RecordSoFar
  <2>3. CASE j # n
    BY <1>1, <1>4, <2>1, <2>3 DEF AnsweredSoFar
  <2>4. QED
    BY <2>2, <2>3
<1>5. \A i \in DOMAIN rows'[r] : rows'[r][i].k >= 1 /\ rows'[r][i].kind # "other"
  BY <1>1, <1>2 DEF AnsweredSoFar
<1>6. QED
  BY <1>3, <1>4, <1>5 DEF AnsweredSoFar, Tries

LEMMA LoseAnswers ==
  ASSUME Basics, NEW r \in Run, Lose(r), RecordSoFar(r), AnsweredSoFar(r)
  PROVE  AnsweredSoFar(r)'
<1>1. /\ pc[r] = "loop" /\ UNCHANGED rows /\ lost[r] \in Losses /\ turn[r] \in Nat
      /\ turn'[r] = turn[r] + 1
  BY ConstantFacts DEF Lose, calls, Put, Basics, Shapes, CallsTypeOK
<1>2. lost'[r] = [lost[r] EXCEPT !.requests = lost[r].requests \cup {turn[r]}]
  BY Zenon DEF Lose, Basics, Shapes
<1>3. lost'[r].requests = lost[r].requests \cup {turn[r]}
  BY <1>1, <1>2 DEF Losses
<1>4. \A k : Tries(r, k)' = Tries(r, k)
  BY <1>1 DEF Tries
<1>5. \A k : k = turn[r] => Tries(r, k) = {}
  BY <1>1 DEF RecordSoFar, Asking, Kind, Tries
<1>6. Past(r)' = Past(r) \cup {turn[r]}
  BY <1>1, ConstantFacts DEF Past, Basics, CallsTypeOK
<1>7. (\A k \in Past(r) : Tries(r, k) = {} <=> k \in lost[r].requests)'
  BY <1>3, <1>4, <1>5, <1>6 DEF AnsweredSoFar
<1>8. QED
  BY <1>1, <1>7 DEF AnsweredSoFar

LEMMA StartAnswers ==
  ASSUME Basics, NEW r \in Run, Start(r)
  PROVE  AnsweredSoFar(r)'
<1>1. /\ rows'[r] = <<>> /\ turn'[r] = 1
  BY ConstantFacts DEF Start, Put, Basics, Shapes, CallsTypeOK
<1>2. Past(r)' = {} /\ DOMAIN rows'[r] = {}
  BY <1>1 DEF Past
<1>3. QED
  BY <1>2 DEF AnsweredSoFar

LEMMA AnswersNext ==
  ASSUME Basics, Records, Answers, [CallsNext]_callVars
  PROVE  Answers'
<1> SUFFICES ASSUME NEW r \in Run, Running(r)' \/ (pc[r] = "done")'
             PROVE  AnsweredSoFar(r)'
  BY DEF Answers
<1> USE DEF Put, calls, loop, gate
<1>1. /\ Shapes /\ Shapes' /\ r \in Caller /\ r \notin Agent /\ pc \in [Caller -> Status]
      /\ turn \in [Run -> Nat]
      /\ rows \in [Caller -> Seq(RecordRow)] /\ lost \in [Run -> Losses]
  BY BasicsNext, ConstantFacts DEF Basics, CallsTypeOK, Status, Shapes
<1>2. Running(r) \/ pc[r] = "done" => RecordSoFar(r) /\ AnsweredSoFar(r)
  BY DEF Records, Answers
<1>3. ASSUME UNCHANGED <<rows[r], lost[r], turn[r]>>, Running(r) \/ pc[r] = "done"
      PROVE  AnsweredSoFar(r)'
  BY <1>2, <1>3, AnswersFrame
<1>4. ASSUME NEW c \in Caller, c # r,
             \/ Authorize(c) \/ Refuse(c) \/ Retry(c) \/ Conclude(c) \/ CallEnds(c)
             \/ \E kind \in Kind : Answer(c, kind)
      PROVE  AnsweredSoFar(r)'
  <2>1. UNCHANGED <<rows[r], lost[r], turn[r], pc[r]>>
    BY <1>1, <1>4, Zenon DEF Authorize, Refuse, Retry, Conclude, CallEnds, Answer, Log
  <2>2. QED
    BY <1>3, <2>1 DEF Running, Asking
<1>5. ASSUME NEW q \in Run, q # r,
             \/ Start(q) \/ Lose(q) \/ Ask(q) \/ AnswerLost(q) \/ Summarize(q)
             \/ KillRun(q) \/ Replay(q)
      PROVE  AnsweredSoFar(r)'
  <2>1. UNCHANGED <<rows[r], lost[r], turn[r], pc[r]>>
    BY <1>1, <1>5, Zenon DEF Start, Lose, Ask, AnswerLost, Summarize, KillRun, Replay, Log
  <2>2. QED
    BY <1>3, <2>1 DEF Running, Asking
<1>6. CASE \/ Prepare \/ AuditStart \/ (\E batch \in audit.todo : AskBatch(batch))
           \/ BatchEnds \/ WriteTable \/ KillAudit \/ Quiet \/ UNCHANGED callVars \/ Replay(r)
  <2>1. CASE \E batch \in audit.todo : AskBatch(batch)
    <3>1. PICK batch \in audit.todo : AskBatch(batch)
      BY <2>1
    <3>2. r \notin Asked(batch)
      BY <1>1, AskedFacts DEF Shapes, AuditState
    <3>3. UNCHANGED <<rows[r], lost[r], turn[r], pc[r]>>
      BY <1>1, <3>1, <3>2 DEF AskBatch
    <3>4. QED
      BY <1>3, <3>3 DEF Running, Asking
  <2>2. CASE \/ Prepare \/ AuditStart \/ BatchEnds \/ WriteTable \/ KillAudit \/ Quiet
             \/ UNCHANGED callVars \/ Replay(r)
    <3>1. UNCHANGED <<rows[r], lost[r], turn[r], pc[r]>>
      BY <1>1, <2>2 DEF Prepare, AuditStart, BatchEnds, WriteTable, KillAudit, Quiet, callVars,
         Dismissed, Replay
    <3>2. QED
      BY <1>3, <3>1 DEF Running, Asking
  <2>3. QED
    BY <1>6, <2>1, <2>2
<1>7. CASE Authorize(r) \/ (\E kind \in Kind : Answer(r, kind)) \/ Ask(r) \/ Summarize(r)
  <2>1. UNCHANGED <<rows[r], lost[r], turn[r]>> /\ Running(r)
    BY <1>1, <1>7 DEF Authorize, Answer, Ask, Summarize, Running, Asking
  <2>2. QED
    BY <1>3, <2>1
<1>8. CASE Refuse(r) \/ KillRun(r)
  <2>1. pc'[r] \in {"raised", "killed"}
    BY <1>1, <1>8 DEF Refuse, KillRun
  <2>2. QED
    BY <2>1 DEF Running, Asking, Kind
<1>9. CASE Start(r)
  BY <1>9, StartAnswers
<1>10. CASE Lose(r)
  BY <1>2, <1>10, LoseAnswers DEF Lose, Running
<1>11. CASE AnswerLost(r)
  <2>1. /\ pc[r] = "ok" /\ pc[r] \in Kind /\ pc[r] # "other" /\ Log(r)
        /\ turn'[r] = turn[r] + 1 /\ lost[r] \in Losses
    BY <1>1, <1>11 DEF AnswerLost, Kind
  <2>2. lost'[r] = [lost[r] EXCEPT !.responses = lost[r].responses \cup {turn[r]}]
    BY <1>11, Zenon DEF AnswerLost, Basics, Shapes
  <2>3. lost'[r].requests = lost[r].requests
    BY <2>1, <2>2 DEF Losses
  <2>4. RecordSoFar(r) /\ AnsweredSoFar(r)
    BY <1>2, <2>1 DEF Running, Asking
  <2>5. QED
    BY <1>1, <2>1, <2>3, <2>4, RowAnswers
<1>12. CASE Retry(r)
  <2>1. /\ pc[r] = "transient" /\ pc[r] \in Kind /\ pc[r] # "other" /\ Log(r)
        /\ turn'[r] = turn[r] /\ lost'[r].requests = lost[r].requests
    BY <1>12 DEF Retry, Kind
  <2>2. RecordSoFar(r) /\ AnsweredSoFar(r)
    BY <1>2, <2>1 DEF Running, Asking
  <2>3. QED
    BY <1>1, <2>1, <2>2, RowAnswers
<1>13. CASE Conclude(r)
  <2>1. pc'[r] \in {"raised", "loop"} /\ (Ends(r) => pc'[r] = "raised")
    BY <1>1, <1>13 DEF Conclude
  <2>2. ~Ends(r)
    BY <2>1 DEF Running, Asking, Kind
  <2>3. /\ pc[r] \in Kind /\ pc[r] # "other" /\ Log(r)
        /\ turn'[r] = turn[r] + 1 /\ lost'[r].requests = lost[r].requests
    BY <1>1, <1>13, <2>2 DEF Conclude, Concludes, Ends
  <2>4. RecordSoFar(r) /\ AnsweredSoFar(r)
    BY <1>2, <2>3 DEF Running, Asking
  <2>5. QED
    BY <1>1, <2>3, <2>4, RowAnswers
<1>14. ~CallEnds(r)
  BY <1>1 DEF CallEnds
<1>15. QED
  BY <1>4, <1>5, <1>6, <1>7, <1>8, <1>9, <1>10, <1>11, <1>12, <1>13, <1>14
     DEF CallsNext

LEMMA ReplaysInit == CallsInit => Replays
BY DEF CallsInit, Replays

(* What a completed run left stays as it is. *)
LEMMA CompletedKept ==
  ASSUME Basics, [CallsNext]_callVars, NEW r \in Run, summary[r] # None
  PROVE  UNCHANGED <<rows[r], lost[r], summary[r]>>
<1> USE DEF Put, calls, loop, gate
<1>1. /\ r \in Caller /\ r \notin Agent /\ pc[r] = "done" /\ pc[r] \notin Kind
      /\ rows \in [Caller -> Seq(RecordRow)] /\ lost \in [Run -> Losses]
      /\ summary \in [Run -> Counters \cup {None}]
  BY ConstantFacts DEF Basics, Final, Shapes, Kind
<1>2. ASSUME NEW c \in Caller,
             \/ Authorize(c) \/ Refuse(c) \/ Retry(c) \/ Conclude(c) \/ CallEnds(c)
             \/ \E kind \in Kind : Answer(c, kind)
      PROVE  UNCHANGED <<rows[r], lost[r], summary[r]>>
  <2>1. Log(c) => c # r
    BY <1>1, <1>2 DEF Authorize, Refuse, Retry, Conclude, Concludes, CallEnds, Answer, Kind
  <2>2. UNCHANGED <<lost, summary>> /\ (rows' = rows \/ Log(c))
    BY <1>2 DEF Authorize, Refuse, Retry, Conclude, CallEnds, Answer
  <2>3. UNCHANGED rows[r]
    BY <1>1, <2>1, <2>2, Zenon DEF Log
  <2>4. QED
    BY <2>2, <2>3
<1>3. ASSUME NEW q \in Run,
             \/ Start(q) \/ Lose(q) \/ Ask(q) \/ AnswerLost(q) \/ Summarize(q)
             \/ KillRun(q) \/ Replay(q)
      PROVE  UNCHANGED <<rows[r], lost[r], summary[r]>>
  <2>1. CASE Ask(q) \/ KillRun(q) \/ Replay(q)
    BY <2>1 DEF Ask, KillRun, Replay
  <2>2. CASE Start(q) \/ Lose(q) \/ AnswerLost(q) \/ Summarize(q)
    <3>1. q # r
      BY <1>1, <2>2 DEF Start, Lose, AnswerLost, Summarize
    <3>2. QED
      BY <1>1, <2>2, <3>1, Zenon DEF Start, Lose, AnswerLost, Summarize, Log
  <2>3. QED
    BY <1>3, <2>1, <2>2
<1>4. CASE \/ Prepare \/ AuditStart \/ (\E batch \in audit.todo : AskBatch(batch))
           \/ BatchEnds \/ WriteTable \/ KillAudit \/ Quiet \/ UNCHANGED callVars
  BY <1>4 DEF Prepare, AuditStart, AskBatch, BatchEnds, WriteTable, KillAudit, Quiet, callVars
<1>5. QED
  BY <1>2, <1>3, <1>4 DEF CallsNext

LEMMA ReplaysNext ==
  ASSUME Basics, Replays, [CallsNext]_callVars
  PROVE  Replays'
<1> USE DEF Put, calls, loop, gate
<1>1. ASSUME NEW r \in Run, summary[r] # None
      PROVE  Reproduced(r)' <=> Reproduced(r)
  <2>1. UNCHANGED <<rows[r], lost[r]>>
    BY <1>1, CompletedKept
  <2>2. Valid(r)' = Valid(r) /\ Repeated(r)' = Repeated(r)
    BY <2>1 DEF Valid, Repeated
  <2>3. \A k : Matched(r, k)' <=> Matched(r, k)
    BY <2>1, <2>2 DEF Matched, Earlier
  <2>4. QED
    BY <2>2, <2>3 DEF Reproduced
<1>2. ASSUME UNCHANGED replays
      PROVE  Replays'
  BY <1>1, <1>2, CompletedKept DEF Replays
<1>3. ASSUME NEW q \in Run, Replay(q)
      PROVE  Replays'
  <2>1. PICK verdict \in Verdict :
          /\ replays' = [replays EXCEPT ![q] = Append(replays[q], verdict)]
          /\ replays[q] = <<>> => (verdict = "passed" <=> Reproduced(q))
          /\ summary[q] # None
    BY <1>3 DEF Replay, Verdict
  <2>2. replays[q] \in Seq(Verdict) /\ replays \in [Run -> Seq(Verdict)]
    BY DEF Replays
  <2>3. /\ Append(replays[q], verdict) \in Seq(Verdict)
        /\ replays[q] = <<>> => Append(replays[q], verdict)[1] = verdict
        /\ replays[q] # <<>> => Append(replays[q], verdict)[1] = replays[q][1]
    BY <2>2, AppendProperties, LenProperties, EmptySeq
  <2>4. replays' \in [Run -> Seq(Verdict)]
    BY <2>1, <2>2, <2>3
  <2>5. ASSUME NEW r \in Run, replays'[r] # <<>>
        PROVE  summary'[r] # None /\ (replays'[r][1] = "passed" <=> Reproduced(r)')
    <3>1. CASE r # q
      <4>1. replays'[r] = replays[r]
        BY <2>1, <2>2, <3>1
      <4>2. summary[r] # None /\ (replays[r][1] = "passed" <=> Reproduced(r))
        BY <2>5, <4>1 DEF Replays
      <4>3. QED
        BY <1>1, <4>1, <4>2, CompletedKept
    <3>2. CASE r = q
      <4>1. summary[r] # None /\ replays'[r] = Append(replays[r], verdict)
        BY <2>1, <2>2, <3>2
      <4>2. replays'[r][1] = "passed" <=> Reproduced(r)
        BY <2>1, <2>3, <3>2, <4>1 DEF Replays
      <4>3. QED
        BY <1>1, <4>1, <4>2, CompletedKept
    <3>3. QED
      BY <3>1, <3>2
  <2>6. QED
    BY <2>4, <2>5 DEF Replays
<1>4. ASSUME NEW c \in Caller,
             \/ Authorize(c) \/ Refuse(c) \/ Retry(c) \/ Conclude(c) \/ CallEnds(c)
             \/ \E kind \in Kind : Answer(c, kind)
      PROVE  UNCHANGED replays
  BY <1>4 DEF Authorize, Refuse, Retry, Conclude, CallEnds, Answer
<1>5. ASSUME NEW q \in Run,
             \/ Start(q) \/ Lose(q) \/ Ask(q) \/ AnswerLost(q) \/ Summarize(q) \/ KillRun(q)
      PROVE  UNCHANGED replays
  BY <1>5 DEF Start, Lose, Ask, AnswerLost, Summarize, KillRun
<1>6. CASE \/ Prepare \/ AuditStart \/ (\E batch \in audit.todo : AskBatch(batch))
           \/ BatchEnds \/ WriteTable \/ KillAudit \/ Quiet \/ UNCHANGED callVars
  <2>1. UNCHANGED replays
    BY <1>6 DEF Prepare, AuditStart, AskBatch, BatchEnds, WriteTable, KillAudit, Quiet, callVars
  <2>2. QED
    BY <1>2, <2>1
<1>7. QED
  BY <1>2, <1>3, <1>4, <1>5, <1>6 DEF CallsNext

LEMMA OneForEach ==
  ASSUME NEW S, NEW T, IsFiniteSet(S), NEW f \in [S -> T],
         \A x, y \in S : f[x] = f[y] => x = y,
         \A z \in T : \E x \in S : f[x] = z
  PROVE  Cardinality(S) = Cardinality(T)
<1>1. f \in Bijection(S, T)
  <2>1. f \in Injection(S, T)
    BY Zenon DEF Injection, IsInjective
  <2>2. f \in Surjection(S, T)
    BY Zenon DEF Surjection
  <2>3. QED
    BY <2>1, <2>2 DEF Bijection
<1>2. ExistsBijection(S, T)
  BY <1>1 DEF ExistsBijection
<1>3. QED
  BY <1>2, FS_Bijection

(* The rows of a completed run: every request that was not lost has some,  *)
(* and of those only the last may tell of an answer.                       *)
LEMMA CompletedRows ==
  ASSUME Basics, Records, Answers, NEW r \in Run, summary[r] # None
  PROVE  /\ Shapes /\ RecordSoFar(r) /\ summary[r] = tally[r] /\ IsFiniteSet(Valid(r))
         /\ Valid(r) = OfKind(r, "ok") /\ Valid(r) \subseteq Nat
         /\ \A i \in DOMAIN rows[r] :
              i \in Nat /\ rows[r][i].k \in Repeated(r)
                /\ rows[r][i].kind \in {"ok", "invalid", "transient"}
         /\ \A k \in Repeated(r) : k \in Nat /\ k \in 1 .. Requests[r] /\ Tries(r, k) # {}
         /\ \A i, j \in DOMAIN rows[r] :
              rows[r][i].k = rows[r][j].k /\ i # j =>
                rows[r][i].kind = "transient" \/ rows[r][j].kind = "transient"
<1>1. pc[r] = "done" /\ summary[r] = tally[r] /\ turn[r] = Requests[r] + 1
  BY DEF Basics, Final
<1>2. Shapes /\ RecordSoFar(r) /\ AnsweredSoFar(r)
  BY <1>1 DEF Basics, Records, Answers
<1>3. Requests[r] \in Nat /\ ~Asking(r)
  BY <1>1, ConstantFacts DEF Asking, Kind
<1>4. Past(r) = 1 .. Requests[r]
  BY <1>1, <1>3 DEF Past
<1>5. \A i \in DOMAIN rows[r] : rows[r][i] \in RecordRow /\ i \in Nat
  <2>1. /\ Len(rows[r]) \in Nat /\ DOMAIN rows[r] = 1 .. Len(rows[r])
        /\ \A i \in DOMAIN rows[r] : rows[r][i] \in RecordRow
    BY <1>2, RecordSets
  <2>2. QED
    BY <2>1
<1>6. \A i \in DOMAIN rows[r] : rows[r][i].k \in 1 .. Requests[r]
  <2> SUFFICES ASSUME NEW i \in DOMAIN rows[r] PROVE rows[r][i].k \in 1 .. Requests[r]
    OBVIOUS
  <2>1. rows[r][i].k \in Nat /\ rows[r][i].k >= 1
    BY <1>2, <1>5 DEF RecordRow, AnsweredSoFar
  <2>2. rows[r][i].k <= Requests[r] + 1 /\ rows[r][i].k # Requests[r] + 1
    BY <1>1, <1>2, <1>3 DEF RecordSoFar
  <2>3. QED
    BY <1>3, <2>1, <2>2
<1>7. \A i \in DOMAIN rows[r] : rows[r][i].k \in Repeated(r)
  <2> SUFFICES ASSUME NEW i \in DOMAIN rows[r] PROVE rows[r][i].k \in Repeated(r)
    OBVIOUS
  <2>1. PICK k \in 1 .. Requests[r] : k = rows[r][i].k
    BY <1>6
  <2>2. Tries(r, k) # {}
    BY <2>1 DEF Tries
  <2>3. k \notin lost[r].requests
    BY <1>2, <1>4, <2>2 DEF AnsweredSoFar
  <2>4. QED
    BY <2>1, <2>3 DEF Repeated
<1>8. \A i \in DOMAIN rows[r] : rows[r][i].kind \in {"ok", "invalid", "transient"}
  BY <1>2, <1>5 DEF RecordRow, AnsweredSoFar, Kind
<1>9. \A k \in Repeated(r) : k \in Nat /\ k \in 1 .. Requests[r] /\ Tries(r, k) # {}
  BY <1>2, <1>3, <1>4 DEF Repeated, AnsweredSoFar
<1>10. ASSUME NEW i \in DOMAIN rows[r], NEW j \in DOMAIN rows[r],
              rows[r][i].k = rows[r][j].k, i # j
       PROVE  rows[r][i].kind = "transient" \/ rows[r][j].kind = "transient"
  <2>1. i < j \/ j < i
    BY <1>5, <1>10
  <2>2. QED
    BY <1>2, <1>10, <2>1 DEF AnsweredSoFar
<1>11. Valid(r) = OfKind(r, "ok") /\ Valid(r) \subseteq Nat
  BY <1>5 DEF Valid, OfKind
<1>12. IsFiniteSet(Valid(r))
  <2>1. \A kind : IsFiniteSet(OfKind(r, kind))
    BY <1>2, RecordSets
  <2>2. QED
    BY <1>11, <2>1
<1>13. QED
  BY <1>1, <1>2, <1>5, <1>7, <1>8, <1>9, <1>10, <1>11, <1>12

(* A run that got an answer to every request it put has one valid row for  *)
(* each of them, in their order.                                           *)
LEMMA CleanRunReproduced ==
  ASSUME Basics, Records, Answers, NEW r \in Run, summary[r] # None,
         Valid(r) # {}, OfKind(r, "invalid") = {}, GivenUp(r) = {}
  PROVE  Reproduced(r)
<1>1. /\ Valid(r) = OfKind(r, "ok") /\ Valid(r) \subseteq Nat /\ IsFiniteSet(Valid(r))
      /\ \A i \in DOMAIN rows[r] :
           i \in Nat /\ rows[r][i].k \in Repeated(r)
             /\ rows[r][i].kind \in {"ok", "invalid", "transient"}
      /\ \A k \in Repeated(r) : k \in Nat /\ k \in 1 .. Requests[r] /\ Tries(r, k) # {}
      /\ \A i, j \in DOMAIN rows[r] :
           rows[r][i].k = rows[r][j].k /\ i # j =>
             rows[r][i].kind = "transient" \/ rows[r][j].kind = "transient"
      /\ RecordSoFar(r)
  BY CompletedRows
<1>2. \A i \in Valid(r) : i \in DOMAIN rows[r] /\ rows[r][i].kind = "ok"
  BY DEF Valid
<1>3. ASSUME NEW k \in Repeated(r)
      PROVE  \E i \in Valid(r) : rows[r][i].k = k
  <2>1. ~(Tries(r, k) \subseteq OfKind(r, "transient"))
    BY <1>1 DEF GivenUp
  <2>2. PICK i \in DOMAIN rows[r] : rows[r][i].k = k /\ rows[r][i].kind # "transient"
    BY <2>1 DEF Tries, OfKind
  <2>3. rows[r][i].kind # "invalid"
    BY DEF OfKind
  <2>4. QED
    BY <1>1, <2>2, <2>3 DEF Valid
<1>4. ASSUME NEW i \in Valid(r), NEW j \in Valid(r), rows[r][i].k = rows[r][j].k
      PROVE  i = j
  BY <1>1, <1>2, <1>4
<1>5. \A i, j \in Valid(r) : i < j => rows[r][i].k < rows[r][j].k
  <2> SUFFICES ASSUME NEW i \in Valid(r), NEW j \in Valid(r), i < j
               PROVE  rows[r][i].k < rows[r][j].k
    OBVIOUS
  <2>1. rows[r][i].k <= rows[r][j].k
    BY <1>1, <1>2 DEF RecordSoFar
  <2>2. rows[r][i].k \in Nat /\ rows[r][j].k \in Nat /\ i \in Nat /\ j \in Nat
    BY <1>1, <1>2
  <2>3. rows[r][i].k # rows[r][j].k
    BY <1>4, <2>2
  <2>4. QED
    BY <2>1, <2>2, <2>3
<1>6. Cardinality(Valid(r)) = Cardinality(Repeated(r))
  <2> DEFINE f == [i \in Valid(r) |-> rows[r][i].k]
  <2>1. f \in [Valid(r) -> Repeated(r)] /\ \A i \in Valid(r) : f[i] = rows[r][i].k
    BY <1>1, <1>2
  <2> HIDE DEF f
  <2>2. \A i, j \in Valid(r) : f[i] = f[j] => i = j
    BY <1>4, <2>1
  <2>3. \A k \in Repeated(r) : \E i \in Valid(r) : f[i] = k
    BY <1>3, <2>1
  <2>4. QED
    BY <1>1, <2>1, <2>2, <2>3, OneForEach
<1>7. ASSUME NEW k \in Repeated(r)
      PROVE  Matched(r, k)
  <2>1. PICK i \in Valid(r) : rows[r][i].k = k
    BY <1>3
  <2> DEFINE S == Earlier(Valid(r), i)
             T == Earlier(Repeated(r), k)
             f == [j \in S |-> rows[r][j].k]
  <2>2. S \subseteq Valid(r) /\ IsFiniteSet(S)
    BY <1>1, FS_Subset DEF Earlier
  <2>3. \A j \in S : rows[r][j].k \in T
    BY <1>1, <1>2, <1>5, <2>1 DEF Earlier
  <2>4. \A l \in T : \E j \in S : rows[r][j].k = l
    <3> SUFFICES ASSUME NEW l \in T PROVE \E j \in S : rows[r][j].k = l
      OBVIOUS
    <3>1. l \in Repeated(r) /\ l < k /\ l \in Nat /\ k \in Nat
      BY <1>1 DEF Earlier
    <3>2. PICK j \in Valid(r) : rows[r][j].k = l
      BY <1>3, <3>1
    <3>3. ~(i < j) /\ i # j /\ i \in Nat /\ j \in Nat
      BY <1>1, <1>5, <2>1, <3>1, <3>2
    <3>4. j < i
      BY <3>3
    <3>5. QED
      BY <3>2, <3>4 DEF Earlier
  <2> HIDE DEF S, T
  <2>5. f \in [S -> T] /\ \A j \in S : f[j] = rows[r][j].k
    BY <2>3
  <2> HIDE DEF f
  <2>6. \A j, l \in S : f[j] = f[l] => j = l
    BY <1>4, <2>2, <2>5
  <2>7. \A l \in T : \E j \in S : f[j] = l
    BY <2>4, <2>5
  <2>8. Cardinality(S) = Cardinality(T)
    BY <2>2, <2>5, <2>6, <2>7, OneForEach
  <2>9. QED
    BY <2>1, <2>8 DEF Matched, S, T
<1>8. QED
  BY <1>6, <1>7 DEF Reproduced

LEMMA ReproducedIsClean ==
  ASSUME Basics, Records, Answers, NEW r \in Run, summary[r] # None, Reproduced(r)
  PROVE  Valid(r) # {} /\ OfKind(r, "invalid") = {} /\ GivenUp(r) = {}
<1>1. /\ \A i \in DOMAIN rows[r] :
           i \in Nat /\ rows[r][i].k \in Repeated(r)
             /\ rows[r][i].kind \in {"ok", "invalid", "transient"}
      /\ \A i, j \in DOMAIN rows[r] :
           rows[r][i].k = rows[r][j].k /\ i # j =>
             rows[r][i].kind = "transient" \/ rows[r][j].kind = "transient"
  BY CompletedRows
<1>2. \A k \in Repeated(r) : \E i \in DOMAIN rows[r] : rows[r][i].k = k /\ rows[r][i].kind = "ok"
  BY DEF Reproduced, Matched, Valid
<1>3. ASSUME NEW j \in OfKind(r, "invalid")
      PROVE  FALSE
  <2>1. j \in DOMAIN rows[r] /\ rows[r][j].kind = "invalid"
    BY DEF OfKind
  <2>2. PICK i \in DOMAIN rows[r] : rows[r][i].k = rows[r][j].k /\ rows[r][i].kind = "ok"
    BY <1>1, <1>2, <2>1
  <2>3. QED
    BY <1>1, <2>1, <2>2
<1>4. ASSUME NEW k \in GivenUp(r)
      PROVE  FALSE
  <2>1. PICK j \in DOMAIN rows[r] : rows[r][j].k = k
    BY DEF GivenUp, Tries
  <2>2. PICK i \in DOMAIN rows[r] : rows[r][i].k = k /\ rows[r][i].kind = "ok"
    BY <1>1, <1>2, <2>1
  <2>3. i \in Tries(r, k) /\ i \notin OfKind(r, "transient")
    BY <2>2 DEF Tries, OfKind
  <2>4. QED
    BY <2>3 DEF GivenUp
<1>5. QED
  BY <1>3, <1>4 DEF Reproduced

(* The first replay of a run passes exactly when its summary tells of no   *)
(* failure but what the network lost, and of some answer: for every run,   *)
(* whatever was retried, lost, killed or set aside before.                 *)
THEOREM CleanRunsReplay == CallsSpec => []CleanReplay
<1>1. ASSUME Basics, Records, Answers, Replays
      PROVE  CleanReplay
  <2> SUFFICES ASSUME NEW r \in Run, replays[r] # <<>>
               PROVE  replays[r][1] = "passed" <=>
                        /\ summary[r].failures =
                             Cardinality(lost[r].requests) + Cardinality(lost[r].responses)
                        /\ summary[r].calls > 0
    BY DEF CleanReplay
  <2>1. summary[r] # None /\ (replays[r][1] = "passed" <=> Reproduced(r))
    BY <1>1 DEF Replays
  <2>2. /\ Shapes /\ RecordSoFar(r) /\ summary[r] = tally[r] /\ IsFiniteSet(Valid(r))
        /\ Valid(r) = OfKind(r, "ok")
    BY <1>1, <2>1, CompletedRows
  <2>3. GivenUp(r) \cap Past(r) = GivenUp(r)
    BY <1>1, <2>1, ConstantFacts DEF GivenUp, Past, Basics, Final
  <2>4. Cardinality(Valid(r)) \in Nat /\ (Cardinality(Valid(r)) > 0 <=> Valid(r) # {})
    BY <2>2, FS_CardinalityType, FS_EmptySet
  <2>5. /\ IsFiniteSet(OfKind(r, "invalid")) /\ Cardinality(OfKind(r, "invalid")) \in Nat
        /\ Cardinality(OfKind(r, "invalid")) = 0 <=> OfKind(r, "invalid") = {}
    BY <2>2, RecordSets, FS_EmptySet
  <2>6. /\ Cardinality(GivenUp(r)) \in Nat
        /\ Cardinality(GivenUp(r)) = 0 <=> GivenUp(r) = {}
    BY <2>2, <2>3, RecordSets, FS_EmptySet
  <2>7. /\ Cardinality(lost[r].requests) \in Nat /\ Cardinality(lost[r].responses) \in Nat
    BY <2>2, LostSets
  <2>8. /\ summary[r].calls = Cardinality(Valid(r))
        /\ summary[r].failures =
             Cardinality(lost[r].requests) + Cardinality(lost[r].responses)
               + Cardinality(OfKind(r, "invalid")) + Cardinality(GivenUp(r))
    BY <2>2, <2>3 DEF RecordSoFar
  <2>9. /\ summary[r].failures =
             Cardinality(lost[r].requests) + Cardinality(lost[r].responses)
        /\ summary[r].calls > 0
        <=> Valid(r) # {} /\ OfKind(r, "invalid") = {} /\ GivenUp(r) = {}
    BY <2>4, <2>5, <2>6, <2>7, <2>8
  <2>10. Reproduced(r) <=> Valid(r) # {} /\ OfKind(r, "invalid") = {} /\ GivenUp(r) = {}
    BY <1>1, <2>1, CleanRunReproduced, ReproducedIsClean
  <2>11. QED
    BY <2>1, <2>9, <2>10
<1>2. Basics /\ Records /\ Answers /\ Replays /\ [CallsNext]_callVars
        => Answers' /\ Replays'
  BY AnswersNext, ReplaysNext
<1>3. Basics /\ Records /\ [CallsNext]_callVars => Records'
  BY RecordsNext
<1>4. QED
  BY BasicsInit, BasicsNext, RecordsInit, AnswersInit, ReplaysInit, <1>1, <1>2, <1>3, PTL
     DEF CallsSpec

=============================================================================
