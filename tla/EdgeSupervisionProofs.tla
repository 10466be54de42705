----------------------- MODULE EdgeSupervisionProofs -----------------------
(* Proofs about EdgeSupervision, for every junction, every timing and      *)
(* every set of intents and observations.                                  *)
EXTENDS EdgeSupervision, SignalExecutorProofs, FiniteSetTheorems

(* Division with remainder, in the form the solver knows it. *)
LEMMA Division ==
  ASSUME NEW n \in Nat, NEW c \in Nat \ {0}
  PROVE  \E q \in Nat, r \in 0 .. c - 1 : n = c * q + r /\ n % c = r
BY SMT

(* Two multiples of c are at least c apart. *)
LEMMA Multiples ==
  ASSUME NEW a \in Nat, NEW b \in Nat, NEW c \in Nat \ {0},
         a % c = 0, b % c = 0, a < b
  PROVE  a + c <= b
<1>1. a = c * (a \div c) /\ b = c * (b \div c) /\ a \div c \in Nat /\ b \div c \in Nat
  BY SMT
<1>2. a \div c < b \div c
  BY <1>1, SMT
<1>3. QED
  BY <1>1, <1>2, SMT

-----------------------------------------------------------------------------
(* Every step of the loop leaves the executor alone, asks it for a phase   *)
(* or lets a second pass.                                                  *)

LEMMA AskSteps ==
  ASSUME NEW reason \in Reason, NEW target \in Green, Ask(reason, target)
  PROVE  [Next]_vars /\ decision' \in [reason : Reason, target : Green]
BY DEF Ask, Next

LEMMA TargetsAreGreen ==
  ASSUME TypeOK, LoopTypeOK, seen # None, NEW i \in Intent
  PROVE  Targets(i) \subseteq Green
BY InputAssumption DEF Targets, Coordinated, TypeOK, LoopTypeOK

LEMMA ValidForNat ==
  ASSUME NEW i \in Intent
  PROVE  ValidFor(i) \in Nat /\ ValidFor(i) <= MaxValid
BY InputAssumption, LoopAssumption DEF ValidFor, UpTo

LEMMA CountFacts ==
  ASSUME LoopTypeOK, NEW what, Count(what)
  PROVE  tally' \in [Counter -> Nat]
BY DEF Count, LoopTypeOK

LEMMA LoopStep ==
  ASSUME TypeOK, LoopTypeOK, [RunNext]_runVars
  PROVE  [Next]_vars /\ LoopTypeOK'
<1> USE DEF loop, agent
<1>1. CASE Observe
  BY <1>1, InputAssumption DEF Observe, LoopTypeOK
<1>2. CASE PassOver
  BY <1>2 DEF PassOver, LoopTypeOK
<1>3. CASE Finish
  BY <1>3 DEF Finish, LoopTypeOK
<1>4. CASE NoRequest
  BY <1>4 DEF NoRequest, LoopTypeOK
<1>5. ASSUME NEW i \in Intent, NEW d \in 1 .. MaxDelay, RequestAnswered(i, d)
      PROVE  [Next]_vars /\ LoopTypeOK'
  <2>1. now \in Nat /\ now + d \in Nat
    BY LoopAssumption DEF LoopTypeOK
  <2>2. [due |-> now + d, observed |-> now, intent |-> i] \in Response
    BY <2>1 DEF Response
  <2>3. QED
    BY <1>5, <2>1, <2>2, CountFacts DEF RequestAnswered, LoopTypeOK
<1>6. CASE RequestUnavailable
  BY <1>6, CountFacts DEF RequestUnavailable, LoopTypeOK
<1>7. CASE RequestRaises
  BY <1>7, CountFacts DEF RequestRaises, LoopTypeOK
<1>8. ASSUME NEW m \in pending, DropStale(m)
      PROVE  [Next]_vars /\ LoopTypeOK'
  BY <1>8, CountFacts DEF DropStale, LoopTypeOK
<1>9. ASSUME NEW m \in pending, Decide(m)
      PROVE  [Next]_vars /\ LoopTypeOK'
  <2>1. m \in Response /\ now \in Nat
    BY DEF LoopTypeOK
  <2>2. [at |-> now, observed |-> m.observed, fallback |-> Fallback(m.intent, seen)] \in PolicyRow
    BY <2>1 DEF PolicyRow, Response, Fallback
  <2>3. [intent |-> m.intent, observed |-> m.observed,
         expires |-> m.observed + ValidFor(m.intent)] \in ActiveIntent
    BY <2>1, ValidForNat DEF ActiveIntent, Response
  <2>4. active' \in ActiveIntent \cup {None} /\ tally' \in [Counter -> Nat]
    BY <1>9, <2>3, CountFacts DEF Decide, LoopTypeOK
  <2>5. QED
    BY <1>9, <2>2, <2>4 DEF Decide, LoopTypeOK
<1>10. CASE AllDelivered
  BY <1>10 DEF AllDelivered, LoopTypeOK
<1>11. CASE Transition
  BY <1>11 DEF Transition, LoopTypeOK
<1>12. CASE FairnessOverride
  <2>1. seen.overdue \in Green
    BY <1>12, InputAssumption DEF FairnessOverride, LoopTypeOK
  <2>2. QED
    BY <1>12, <2>1, AskSteps DEF FairnessOverride, Ask, LoopTypeOK, Reason
<1>13. CASE MaximumGreenOverride
  BY <1>13, AskSteps DEF MaximumGreenOverride, Ask, LoopTypeOK, Reason
<1>14. CASE LocalFallback
  BY <1>14, AskSteps DEF LocalFallback, Ask, LoopTypeOK, Reason
<1>15. CASE Supervise
  <2>1. active \in ActiveIntent /\ active.intent \in Intent /\ seen # None
    BY <1>15 DEF Supervise, Expired, LoopTypeOK, ActiveIntent
  <2>2. PICK target \in Green : Ask("supervised", target)
    BY <1>15, <2>1, TargetsAreGreen DEF Supervise
  <2>3. QED
    BY <1>15, <2>2, AskSteps DEF Supervise, Ask, LoopTypeOK, Reason
<1>16. CASE Second
  BY <1>16 DEF Second, Next, LoopTypeOK
<1>17. CASE Ended \/ UNCHANGED runVars
  BY <1>17 DEF Ended, runVars, LoopTypeOK
<1>18. QED
  BY <1>1, <1>2, <1>3, <1>4, <1>5, <1>6, <1>7, <1>8, <1>9, <1>10, <1>11, <1>12, <1>13,
     <1>14, <1>15, <1>16, <1>17 DEF RunNext, AskModel, Deliver

LEMMA LoopInit == RunInit => LoopTypeOK
<1> SUFFICES ASSUME RunInit PROVE LoopTypeOK
  OBVIOUS
<1>1. current_green \in Green
  BY DEF RunInit, Init
<1>2. QED
  BY <1>1 DEF RunInit, LoopTypeOK, Reason

LEMMA RunInvariant == RunSpec => [](IInv /\ LoopTypeOK)
<1>1. RunInit => IInv /\ LoopTypeOK
  BY LoopInit, InvariantInit DEF RunInit
<1>2. IInv /\ LoopTypeOK /\ [RunNext]_runVars => (IInv /\ LoopTypeOK)'
  BY LoopStep, InvariantNext DEF IInv
<1>3. QED
  BY <1>1, <1>2, PTL DEF RunSpec

-----------------------------------------------------------------------------
(* The loop's variables keep their types: in particular every control step *)
(* of the loop has an observation of the same second.                      *)
THEOREM RunTypeCorrect == RunSpec => []RunTypeOK
<1>1. IInv /\ LoopTypeOK => RunTypeOK
  BY DEF IInv, RunTypeOK
<1>2. QED
  BY <1>1, RunInvariant, PTL

(* Under the control loop the lights of a junction do nothing that the     *)
(* executor's specification does not allow, so every property of that      *)
(* specification holds of the running system, whatever the model answers.  *)
THEOREM LoopImplementsExecutor == RunSpec => ImplementsExecutor
<1>1. RunInit => Init
  BY DEF RunInit
<1>2. IInv /\ LoopTypeOK /\ [RunNext]_runVars => [Next]_vars
  BY LoopStep DEF IInv
<1>3. QED
  BY <1>1, <1>2, RunInvariant, PTL DEF RunSpec, ImplementsExecutor, Spec

(* So, whatever the model answers and however late, conflicting links are  *)
(* separated by the clearance time.                                        *)
THEOREM SupervisedGreensSeparated == RunSpec => []ConflictsCleared
BY LoopImplementsExecutor, ConflictingGreensSeparated, PTL DEF ImplementsExecutor

-----------------------------------------------------------------------------
(* Responses on their way and the last decision: when they were observed,  *)
(* and that a response older than the last decision had not arrived then.  *)

PendingOrder ==
  /\ \A m \in pending :
       /\ m.observed < m.due /\ m.observed <= now
       /\ m.observed % ControlInterval = 0
       /\ at \in {"observe", "request"} => m.observed < now
  /\ \A m, n \in pending : m.observed = n.observed => m = n

DecisionOrder ==
  policy # None =>
    /\ policy.observed < policy.at /\ policy.at <= now
    /\ policy.observed % ControlInterval = 0 /\ policy.at % ControlInterval = 0
    /\ \A m \in pending : /\ m.observed # policy.observed
                          /\ m.observed < policy.observed => m.due > policy.at

Order == PendingOrder /\ DecisionOrder

(* A step that answers and decides nothing.                                *)
LEMMA OrderUndisturbed ==
  ASSUME LoopTypeOK, Order, UNCHANGED policy, pending' \subseteq pending,
         \/ now' = now /\ (at' \in {"observe", "request"} => at \in {"observe", "request"})
         \/ now' = now + 1
  PROVE  Order'
<1>1. \A m \in pending : m.observed \in Nat
  BY DEF LoopTypeOK, Response
<1>2. now \in Nat /\ now' \in Nat /\ now <= now'
  BY DEF LoopTypeOK
<1>3. PendingOrder'
  BY <1>1, <1>2 DEF Order, PendingOrder
<1>4. policy # None => policy.at \in Nat
  BY DEF LoopTypeOK, PolicyRow
<1>5. DecisionOrder'
  BY <1>2, <1>4 DEF Order, DecisionOrder
<1>6. QED
  BY <1>3, <1>5 DEF Order

LEMMA OrderRequest ==
  ASSUME LoopTypeOK, Order, NEW i \in Intent, NEW d \in 1 .. MaxDelay,
         RequestAnswered(i, d)
  PROVE  Order'
<1> DEFINE new == [due |-> now + d, observed |-> now, intent |-> i]
<1>1. /\ at = "request" /\ at' = "deliver" /\ now' = now /\ policy' = policy
      /\ pending' = pending \cup {new}
  BY DEF RequestAnswered
<1>2. now \in Nat /\ d \in Nat /\ d >= 1 /\ now % ControlInterval = 0
  BY <1>1, LoopAssumption DEF LoopTypeOK
<1>3. new.observed = now /\ new.due = now + d
  OBVIOUS
<1>4. \A m \in pending : m.observed \in Nat /\ m.observed < now
  BY <1>1 DEF LoopTypeOK, Response, Order, PendingOrder
<1> HIDE DEF new
<1>5. PendingOrder'
  BY <1>1, <1>2, <1>3, <1>4 DEF Order, PendingOrder
<1>6. DecisionOrder'
  <2>1. policy # None => policy.observed \in Nat /\ policy.at \in Nat
    BY DEF LoopTypeOK, PolicyRow
  <2>2. QED
    BY <1>1, <1>2, <1>3, <2>1 DEF Order, DecisionOrder
<1>7. QED
  BY <1>5, <1>6 DEF Order

LEMMA OrderDecide ==
  ASSUME LoopTypeOK, Order, NEW m \in pending, Decide(m)
  PROVE  Order'
<1>1. /\ at = "deliver" /\ at' = at /\ now' = now /\ pending' = pending \ {m}
      /\ m.due <= now
      /\ \A n \in pending : n.due <= now => m.observed <= n.observed
  BY DEF Decide, loop, Oldest, Ready
<1>2. policy'.observed = m.observed /\ policy'.at = now
  BY DEF Decide
<1>3. \A n \in pending : n.observed \in Nat /\ n.due \in Nat
  BY DEF LoopTypeOK, Response
<1>4. now \in Nat /\ now % ControlInterval = 0
  BY <1>1 DEF LoopTypeOK
<1>5. PendingOrder'
  BY <1>1 DEF Order, PendingOrder
<1>6. m.observed < now /\ m.observed % ControlInterval = 0
  BY <1>1, <1>3, <1>4 DEF Order, PendingOrder
<1>7. ASSUME NEW n \in pending \ {m}
      PROVE  n.observed # m.observed /\ (n.observed < m.observed => n.due > now)
  BY <1>1, <1>3, <1>4 DEF Order, PendingOrder
<1>8. DecisionOrder'
  BY <1>1, <1>2, <1>4, <1>6, <1>7 DEF DecisionOrder
<1>9. QED
  BY <1>5, <1>8 DEF Order

(* The heart of it: an intent that arrives after a decision on a more      *)
(* recent one was observed three control intervals ago.                    *)
LEMMA DecidesInOrder ==
  ASSUME LoopTypeOK, Order, NEW m \in pending, Decide(m), policy # None
  PROVE  policy'.observed > policy.observed
<1>1. /\ policy'.observed = m.observed /\ m.due <= now /\ now - m.observed <= MaxAge
      /\ at = "deliver"
  BY DEF Decide, Oldest, Ready, Age
<1>2. /\ m.observed \in Nat /\ m.due \in Nat /\ now \in Nat
      /\ policy.observed \in Nat /\ policy.at \in Nat
  BY DEF LoopTypeOK, Response, PolicyRow
<1>3. /\ now % ControlInterval = 0 /\ m.observed % ControlInterval = 0
      /\ policy.observed % ControlInterval = 0 /\ policy.at % ControlInterval = 0
      /\ policy.observed < policy.at /\ m.observed # policy.observed
      /\ m.observed < policy.observed => m.due > policy.at
  BY <1>1 DEF LoopTypeOK, Order, PendingOrder, DecisionOrder
<1>4. SUFFICES ASSUME m.observed < policy.observed PROVE FALSE
  BY <1>1, <1>2, <1>3
<1>5. m.observed + ControlInterval <= policy.observed
  BY <1>2, <1>3, <1>4, LoopAssumption, Multiples
<1>6. policy.observed + ControlInterval <= policy.at
  BY <1>2, <1>3, LoopAssumption, Multiples
<1>7. policy.at < now
  BY <1>1, <1>2, <1>3, <1>4
<1>8. policy.at + ControlInterval <= now
  BY <1>2, <1>3, <1>7, LoopAssumption, Multiples
<1>9. QED
  BY <1>1, <1>2, <1>5, <1>6, <1>8, LoopAssumption, ConfiguredAssumption

LEMMA OrderStep ==
  ASSUME LoopTypeOK, Order, [RunNext]_runVars
  PROVE  Order' /\ [policy # None => policy'.observed > policy.observed]_policy
<1> USE DEF loop, agent
<1>1. CASE \E i \in Intent, d \in 1 .. MaxDelay : RequestAnswered(i, d)
  BY <1>1, OrderRequest DEF RequestAnswered
<1>2. CASE \E m \in pending : Decide(m)
  BY <1>2, OrderDecide, DecidesInOrder
<1>3. CASE Observe \/ PassOver \/ Finish \/ NoRequest \/ RequestUnavailable
           \/ RequestRaises \/ AllDelivered \/ Transition
  BY <1>3, OrderUndisturbed DEF Observe, PassOver, Finish, NoRequest,
     RequestUnavailable, RequestRaises, AllDelivered, Transition
<1>4. CASE \E m \in pending : DropStale(m)
  BY <1>4, OrderUndisturbed DEF DropStale
<1>5. CASE FairnessOverride \/ MaximumGreenOverride \/ LocalFallback \/ Supervise
  BY <1>5, OrderUndisturbed DEF FairnessOverride, MaximumGreenOverride, LocalFallback,
     Supervise, Ask
<1>6. CASE Second
  BY <1>6, OrderUndisturbed DEF Second
<1>7. CASE Ended \/ UNCHANGED runVars
  BY <1>7, OrderUndisturbed DEF Ended, runVars
<1>8. QED
  BY <1>1, <1>2, <1>3, <1>4, <1>5, <1>6, <1>7 DEF RunNext, AskModel, Deliver

(* No intent is decided on after a more recent one, for every timing in    *)
(* which the age limit is below three control intervals.                   *)
THEOREM IntentsDecidedInOrder == RunSpec => DecidedInOrder
<1>1. RunInit => Order
  BY DEF RunInit, Order, PendingOrder, DecisionOrder
<1>2. LoopTypeOK /\ Order /\ [RunNext]_runVars => Order'
  BY OrderStep
<1>3. LoopTypeOK /\ Order /\ [RunNext]_runVars =>
        [policy # None => policy'.observed > policy.observed]_policy
  BY OrderStep
<1>4. QED
  BY <1>1, <1>2, <1>3, RunInvariant, PTL DEF RunSpec, DecidedInOrder

-----------------------------------------------------------------------------
(* How long a green may have lasted in each second of a control interval.  *)

Late == IF at = "second" \/ now % ControlInterval # 0 THEN now % ControlInterval
                                                      ELSE ControlInterval

GreenInTime ==
  stage = "green" /\ Green # {current_green} /\ ~HeldByFairness =>
    phase_elapsed_s < MaxGreen + Late

LEMMA NextRemainder ==
  ASSUME NEW n \in Nat, NEW c \in Nat \ {0}
  PROVE  /\ n % c \in 0 .. c - 1
         /\ (n + 1) % c = IF n % c = c - 1 THEN 0 ELSE (n % c) + 1
<1>1. PICK q \in Nat, r \in 0 .. c - 1 : n = c * q + r /\ n % c = r
  BY Division
<1>2. PICK p \in Nat, s \in 0 .. c - 1 : n + 1 = c * p + s /\ (n + 1) % c = s
  BY Division
<1>3. ASSUME NEW x \in Nat, NEW y \in Nat, x < y PROVE c * x + c <= c * y
  <2>1. c * y = c * x + c + c * (y - x - 1)
    BY <1>3
  <2>2. c * (y - x - 1) >= 0
    BY <1>3
  <2>3. QED
    BY <2>1, <2>2
<1>4. ~(p < q)
  BY <1>1, <1>2, <1>3
<1>5. ~(q + 1 < p)
  <2>1. c * (q + 1) = c * q + c
    BY <1>1
  <2>2. ASSUME q + 1 < p PROVE c * (q + 1) + c <= c * p
    BY <1>1, <1>2, <1>3, <2>2
  <2>3. QED
    BY <1>1, <1>2, <2>1, <2>2
<1>6. CASE p = q
  BY <1>1, <1>2, <1>6
<1>7. CASE p = q + 1
  <2>1. c * p = c * q + c
    BY <1>1, <1>7
  <2>2. QED
    BY <1>1, <1>2, <2>1
<1>8. QED
  BY <1>4, <1>5, <1>6, <1>7

LEMMA LateFacts == LoopTypeOK => Late \in 0 .. ControlInterval
BY NextRemainder, LoopAssumption DEF Late, LoopTypeOK

(* Between control steps the loop's bookkeeping leaves the bound alone.    *)
LEMMA GreenUndisturbed ==
  ASSUME GreenInTime, UNCHANGED <<vars, decision>>, Late' = Late
  PROVE  GreenInTime'
BY DEF GreenInTime, HeldByFairness, vars, control

(* A control step: whatever asks for a phase, a green that has reached     *)
(* MaxGreen ends or is held by the fairness override.                      *)
LEMMA GreenAsked ==
  ASSUME IInv, LoopTypeOK, NEW reason \in Reason, NEW target \in Green, Ask(reason, target),
         at = "control", ~transitioning,
         \/ phase_elapsed_s < MaxGreen
         \/ reason = "fairness_override"
         \/ target = current_green => Green = {current_green}
  PROVE  GreenInTime'
<1>1. at' = "second" /\ decision' = [reason |-> reason, target |-> target] /\ now' = now
  BY DEF Ask
<1>2. CASE Request(target)
  BY <1>2 DEF Request, GreenInTime
<1>3. CASE ~Accepts(target) /\ UNCHANGED vars
  <2>1. Late' = 0
    BY <1>1, LoopAssumption DEF Late, LoopTypeOK
  <2>2. target = current_green \/ phase_elapsed_s < MaxGreen
    BY <1>3, ConfiguredAssumption, TimingAssumption, LoopAssumption
    DEF Accepts, IInv, TypeOK
  <2>3. phase_elapsed_s' = phase_elapsed_s /\ current_green' = current_green
    BY <1>3 DEF vars, control
  <2>4. QED
    BY <1>1, <2>1, <2>2, <2>3, LoopAssumption DEF GreenInTime, HeldByFairness, IInv, TypeOK
<1>4. QED
  BY <1>2, <1>3 DEF Ask

LEMMA GreenSecond ==
  ASSUME IInv, LoopTypeOK, GreenInTime, Second
  PROVE  GreenInTime'
<1>1. /\ at = "second" /\ at' = "observe" /\ now' = now + 1 /\ UNCHANGED decision
      /\ now \in Nat /\ phase_elapsed_s \in Nat
  BY DEF Second, LoopTypeOK, IInv, TypeOK
<1>2. Late' = Late + 1 /\ Late \in Nat
  <2>1. /\ now % ControlInterval \in 0 .. ControlInterval - 1
        /\ (now + 1) % ControlInterval =
             IF now % ControlInterval = ControlInterval - 1 THEN 0
             ELSE (now % ControlInterval) + 1
    BY <1>1, NextRemainder, LoopAssumption
  <2>2. Late = now % ControlInterval
    BY <1>1 DEF Late
  <2>3. Late' = IF (now + 1) % ControlInterval # 0 THEN (now + 1) % ControlInterval
                                                  ELSE ControlInterval
    BY <1>1 DEF Late
  <2>4. QED
    BY <2>1, <2>2, <2>3, LoopAssumption
<1>3. CASE StepGreen
  <2>1. /\ phase_elapsed_s' <= phase_elapsed_s + 1 /\ phase_elapsed_s' \in Nat
        /\ UNCHANGED <<current_green, stage>>
    BY <1>1, <1>3, TimingAssumption DEF StepGreen, UpTo, IInv, TypeOK
  <2>2. QED
    BY <1>1, <1>2, <2>1, LoopAssumption DEF GreenInTime, HeldByFairness
<1>4. CASE StepWaits \/ StepToAllRed
  BY <1>4 DEF StepWaits, StepToAllRed, transitioning, GreenInTime
<1>5. CASE StepToGreen
  BY <1>2, <1>5, LoopAssumption DEF StepToGreen, GreenInTime
<1>6. QED
  BY <1>3, <1>4, <1>5 DEF Second, Step

LEMMA GreenStep ==
  ASSUME IInv, LoopTypeOK, GreenInTime, [RunNext]_runVars
  PROVE  GreenInTime'
<1>1. CASE Observe \/ Finish \/ NoRequest \/ AskModel \/ RequestUnavailable
           \/ RequestRaises \/ Deliver \/ AllDelivered
  <2>1. /\ UNCHANGED <<vars, decision, now>>
        /\ at # "second" /\ at' # "second"
    BY <1>1 DEF Observe, Finish, NoRequest, AskModel, RequestAnswered, RequestUnavailable,
       RequestRaises, Deliver, DropStale, Decide, AllDelivered, loop
  <2>2. QED
    BY <2>1, GreenUndisturbed DEF Late
<1>2. CASE PassOver
  BY <1>2, GreenUndisturbed DEF PassOver, Late
<1>3. CASE Transition
  BY <1>3 DEF Transition, GreenInTime, transitioning, vars, control
<1>4. CASE FairnessOverride
  <2>1. seen.overdue \in Green
    BY <1>4, InputAssumption DEF FairnessOverride, LoopTypeOK
  <2>2. QED
    BY <1>4, <2>1, GreenAsked DEF FairnessOverride, Reason
<1>5. CASE MaximumGreenOverride
  BY <1>5, GreenAsked DEF MaximumGreenOverride, Reason
<1>6. phase_elapsed_s \in Nat /\ MaxGreen \in Nat
  BY LoopAssumption DEF IInv, TypeOK
<1>7. CASE LocalFallback
  BY <1>6, <1>7, GreenAsked DEF LocalFallback, Overridden, Reason
<1>8. CASE Supervise
  <2>1. active \in ActiveIntent /\ active.intent \in Intent /\ seen # None
    BY <1>8 DEF Supervise, Expired, LoopTypeOK, ActiveIntent
  <2>2. PICK target \in Green : Ask("supervised", target)
    BY <1>8, <2>1, TargetsAreGreen DEF Supervise, IInv
  <2>3. QED
    BY <1>6, <1>8, <2>2, GreenAsked DEF Supervise, Overridden, Reason
<1>9. CASE Second
  BY <1>9, GreenSecond
<1>10. CASE Ended \/ UNCHANGED runVars
  BY <1>10, GreenUndisturbed DEF Ended, runVars, loop, Late
<1>11. QED
  BY <1>1, <1>2, <1>3, <1>4, <1>5, <1>7, <1>8, <1>9, <1>10 DEF RunNext

(* Whatever the intents ask for, no green outlasts MaxGreen by a control   *)
(* interval unless the fairness override holds it.                         *)
THEOREM GreensBounded == RunSpec => []GreenBounded
<1>1. RunInit => GreenInTime
  <2> SUFFICES ASSUME RunInit PROVE GreenInTime
    OBVIOUS
  <2>1. phase_elapsed_s = 0 /\ at = "observe" /\ now = 0
    BY DEF RunInit, Init
  <2>2. Late >= 1
    BY <2>1, NextRemainder, LoopAssumption DEF Late
  <2>3. Late \in Nat
    BY <2>1, NextRemainder, LoopAssumption DEF Late
  <2>4. QED
    BY <2>1, <2>2, <2>3, LoopAssumption DEF GreenInTime
<1>2. IInv /\ LoopTypeOK /\ GreenInTime /\ [RunNext]_runVars => GreenInTime'
  BY GreenStep
<1>3. IInv /\ LoopTypeOK /\ GreenInTime => GreenBounded
  BY LateFacts, LoopAssumption DEF GreenInTime, GreenBounded, IInv, TypeOK
<1>4. QED
  BY <1>1, <1>2, <1>3, RunInvariant, PTL DEF RunSpec

-----------------------------------------------------------------------------
(* The active intent never outlives its validity. *)
ActiveInTime == active # None => active.expires <= active.observed + MaxValid

(* An intent steers a junction for at most MaxValid seconds after its      *)
(* observation, in both arms and whatever validity the model asked for.    *)
THEOREM IntentsExpire == RunSpec => SupervisedWhileValid
<1>1. RunInit => ActiveInTime
  BY DEF RunInit, ActiveInTime
<1>2. LoopTypeOK /\ ActiveInTime /\ [RunNext]_runVars => ActiveInTime'
  <2> SUFFICES ASSUME LoopTypeOK, ActiveInTime, [RunNext]_runVars, ~ UNCHANGED active
               PROVE  ActiveInTime'
    BY DEF ActiveInTime
  <2>1. CASE LocalFallback
    BY <2>1 DEF LocalFallback, ActiveInTime
  <2>2. CASE Deliver
    <3>1. PICK m \in pending : Decide(m)
      BY <2>2 DEF Deliver, DropStale
    <3>2. m.intent \in Intent /\ m.observed \in Nat
      BY DEF LoopTypeOK, Response
    <3>3. active'.expires = active'.observed + ValidFor(m.intent)
          /\ active'.observed = m.observed
      BY <3>1 DEF Decide
    <3>4. QED
      BY <3>2, <3>3, ValidForNat, LoopAssumption DEF ActiveInTime
  <2>3. QED
    BY <2>1, <2>2 DEF RunNext, Observe, PassOver, Finish, NoRequest, AskModel,
       RequestAnswered, RequestUnavailable, RequestRaises, AllDelivered, Transition,
       FairnessOverride, MaximumGreenOverride, Supervise, Ask, Second, Ended, runVars, agent
<1>3. LoopTypeOK /\ ActiveInTime /\ [RunNext]_runVars =>
        [Supervising => now <= active.observed + MaxValid]_runVars
  <2> SUFFICES ASSUME LoopTypeOK, ActiveInTime, RunNext, Supervising
               PROVE  now <= active.observed + MaxValid
    OBVIOUS
  <2>1. Supervise
    BY DEF Supervising, RunNext, Observe, PassOver, Finish, NoRequest, AskModel,
       RequestAnswered, RequestUnavailable, RequestRaises, Deliver, DropStale, Decide,
       AllDelivered, Transition, FairnessOverride, MaximumGreenOverride, LocalFallback, Ask,
       Second, Ended, runVars
  <2>2. active \in ActiveIntent /\ active # None /\ ~(active.expires < now)
    BY <2>1 DEF Supervise, Expired, LoopTypeOK
  <2>3. QED
    BY <2>2, LoopAssumption DEF ActiveInTime, ActiveIntent, LoopTypeOK
<1>4. QED
  BY <1>1, <1>2, <1>3, RunInvariant, PTL DEF RunSpec, SupervisedWhileValid

-----------------------------------------------------------------------------
(* The counters of the summary. *)

Accounted == IsFiniteSet(pending) /\ RequestsAccounted

LEMMA CountersAre ==
  ASSUME LoopTypeOK
  PROVE  \A c \in Counter : tally[c] \in Nat
BY DEF LoopTypeOK

LEMMA AccountedRequest ==
  ASSUME LoopTypeOK, Order, Accounted, NEW i \in Intent, NEW d \in 1 .. MaxDelay,
         RequestAnswered(i, d)
  PROVE  Accounted'
<1> DEFINE new == [due |-> now + d, observed |-> now, intent |-> i]
<1>1. /\ at = "request" /\ at' = "deliver" /\ pending' = pending \cup {new}
      /\ Count({"requests", "calls"})
  BY DEF RequestAnswered
<1>2. \A m \in pending : m.observed < now /\ m.observed \in Nat
  BY <1>1 DEF Order, PendingOrder, LoopTypeOK, Response
<1>3. new \notin pending
  <2>1. new.observed = now /\ ~(now < now)
    BY DEF LoopTypeOK
  <2>2. QED
    BY <1>2, <2>1
<1>4. IsFiniteSet(pending') /\ Cardinality(pending') = Cardinality(pending) + 1
      /\ Cardinality(pending) \in Nat
  BY <1>1, <1>3, FS_AddElement, FS_CardinalityType DEF Accounted
<1>5. /\ tally'["requests"] = tally["requests"] + 1
      /\ \A c \in {"unavailable", "stale", "decided"} : tally'[c] = tally[c]
  BY <1>1 DEF Count, Counter
<1>6. QED
  BY <1>1, <1>4, <1>5, CountersAre DEF Accounted, RequestsAccounted, Counter

LEMMA AccountedTaken ==
  ASSUME LoopTypeOK, Accounted, at = "deliver", NEW m \in pending, pending' = pending \ {m},
         NEW what \in {"stale", "decided"},
         \/ Count({what})
         \/ what = "decided" /\ Count({"decided", "policy_fallback"})
  PROVE  Accounted'
<1>1. IsFiniteSet(pending') /\ Cardinality(pending') = Cardinality(pending) - 1
      /\ Cardinality(pending) \in Nat
  BY FS_RemoveElement, FS_CardinalityType DEF Accounted
<1>2. /\ tally'[what] = tally[what] + 1
      /\ \A c \in {"requests", "unavailable", "stale", "decided"} \ {what} :
           tally'[c] = tally[c]
  BY DEF Count, Counter
<1>3. QED
  BY <1>1, <1>2, CountersAre DEF Accounted, RequestsAccounted, Counter

LEMMA AccountedLost ==
  ASSUME LoopTypeOK, Accounted, RequestUnavailable
  PROVE  Accounted'
<1>1. at = "request" /\ pending' = pending
  BY DEF RequestUnavailable
<1>2. /\ tally'["requests"] = tally["requests"] + 1
      /\ tally'["unavailable"] = tally["unavailable"] + 1
      /\ \A c \in {"stale", "decided"} : tally'[c] = tally[c]
  BY DEF RequestUnavailable, Count, Counter
<1>3. Cardinality(pending) \in Nat
  BY FS_CardinalityType DEF Accounted
<1>4. QED
  BY <1>1, <1>2, <1>3, CountersAre DEF Accounted, RequestsAccounted, Counter

(* No request is lost from the summary's counters or counted twice.        *)
THEOREM RequestsAreAccounted == RunSpec => []RequestsAccounted
<1>1. RunInit => Accounted
  BY FS_EmptySet DEF RunInit, Accounted, RequestsAccounted, Counter
<1>2. RunInit => Order
  BY DEF RunInit, Order, PendingOrder, DecisionOrder
<1>3. LoopTypeOK /\ Order /\ Accounted /\ [RunNext]_runVars => Accounted'
  <2> SUFFICES ASSUME LoopTypeOK, Order, Accounted, [RunNext]_runVars PROVE Accounted'
    OBVIOUS
  <2>1. CASE AskModel
    BY <2>1, AccountedRequest DEF AskModel
  <2>2. CASE RequestUnavailable
    BY <2>2, AccountedLost
  <2>3. CASE RequestRaises
    BY <2>3 DEF RequestRaises, Accounted, RequestsAccounted
  <2>4. ASSUME NEW m \in pending, DropStale(m) PROVE Accounted'
    BY <2>4, AccountedTaken DEF DropStale
  <2>5. ASSUME NEW m \in pending, Decide(m) PROVE Accounted'
    BY <2>5, AccountedTaken DEF Decide
  <2>6. CASE UNCHANGED <<pending, tally>> /\ (at' # "aborted" => at # "aborted")
    BY <2>6 DEF Accounted, RequestsAccounted
  <2>7. QED
    BY <2>1, <2>2, <2>3, <2>4, <2>5, <2>6
    DEF RunNext, Deliver, Observe, PassOver, Finish, NoRequest, AllDelivered, Transition,
        FairnessOverride, MaximumGreenOverride, LocalFallback, Supervise, Ask, Second, Ended,
        runVars, loop, agent
<1>4. LoopTypeOK /\ Order /\ [RunNext]_runVars => Order'
  BY OrderStep
<1>5. Accounted => RequestsAccounted
  BY DEF Accounted
<1>6. QED
  BY <1>1, <1>2, <1>3, <1>4, <1>5, RunInvariant, PTL DEF RunSpec
=============================================================================
