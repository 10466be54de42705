------------------------ MODULE JunctionControlProofs ------------------------
(* Proofs about JunctionControl and the decisions of LaneControllers, for  *)
(* every junction, timing, traffic and reading of the detectors.           *)
EXTENDS JunctionControl, SignalExecutorProofs, FiniteSetTheorems, TLAPS

-----------------------------------------------------------------------------
(* The controllers always choose a phase of the junction. *)

(* Which of two scored phases np.argmax prefers. *)
Before(f, k, j) == f[j] < f[k] \/ (f[j] = f[k] /\ k <= j)

LEMMA BestExists ==
  ASSUME NEW S \in SUBSET Nat, IsFiniteSet(S), S # {},
         NEW f, \A k \in S : f[k] \in Int
  PROVE  \E k \in S : \A j \in S : Before(f, k, j)
<1> DEFINE Without == {T \in FiniteSubsetsOf(S) :
                         T # {} /\ ~ \E k \in T : \A j \in T : Before(f, k, j)}
<1>1. ASSUME Without # {} PROVE FALSE
  <2>1. PICK T \in Without : \A U \in Without : <<U, T>> \notin StrictSubsetOrdering(S)
    <3>1. IsWellFoundedOn(StrictSubsetOrdering(S), FiniteSubsetsOf(S))
      BY FS_StrictSubsetOrderingWellFounded
    <3>2. Without \subseteq FiniteSubsetsOf(S)
      OBVIOUS
    <3> HIDE DEF Without
    <3>3. QED
      BY <1>1, <3>1, <3>2, WFMin, Zenon
  <2>2. PICK x \in T : TRUE
    OBVIOUS
  <2>3. T \in SUBSET S /\ T \ {x} \in FiniteSubsetsOf(S)
    BY FS_RemoveElement DEF FiniteSubsetsOf
  <2>4. T \ {x} \notin Without
    <3>1. <<T \ {x}, T>> \in StrictSubsetOrdering(S)
      BY <2>2, <2>3 DEF StrictSubsetOrdering
    <3>2. QED
      BY <2>1, <3>1
  <2>5. CASE T \ {x} = {}
    <3>1. T = {x} /\ x \in Nat /\ f[x] \in Int
      BY <2>2, <2>3, <2>5
    <3>2. Before(f, x, x)
      BY <3>1 DEF Before
    <3>3. QED
      BY <3>1, <3>2
  <2>6. CASE T \ {x} # {}
    <3>1. PICK b \in T \ {x} : \A j \in T \ {x} : Before(f, b, j)
      BY <2>3, <2>4, <2>6
    <3>2. \A j \in T : j \in Nat /\ f[j] \in Int
      BY <2>3
    <3>3. CASE Before(f, b, x)
      BY <3>1, <3>3
    <3>4. CASE ~Before(f, b, x)
      <4>1. \A j \in T : Before(f, x, j)
        BY <2>2, <3>1, <3>2, <3>4 DEF Before
      <4>2. QED
        BY <2>2, <4>1
    <3>5. QED
      BY <3>3, <3>4
  <2>7. QED
    BY <2>5, <2>6
<1>2. S \in FiniteSubsetsOf(S)
  BY DEF FiniteSubsetsOf
<1>3. QED
  BY <1>1, <1>2

LEMMA BestChosen ==
  ASSUME NEW S \in SUBSET Nat, IsFiniteSet(S), S # {},
         NEW f, \A k \in S : f[k] \in Int
  PROVE  Best(f, S) \in S
<1>1. \E k \in S : \A j \in S : f[j] < f[k] \/ (f[j] = f[k] /\ k <= j)
  BY BestExists DEF Before
<1>2. QED
  BY <1>1 DEF Best

(* The phases and lanes of the junction. *)
LEMMA PhaseFacts ==
  /\ Phases = Green /\ Green \subseteq Nat /\ IsFiniteSet(Green) /\ 0 \in Green
  /\ InLanes = UNION {Served(k) : k \in Green}
  /\ OutLanes = UNION {{OutLane[l] : l \in LitLinks(k)} : k \in Green}
BY PlanAssumption, LoopAssumption DEF Phases, Green, InLanes, OutLanes, Served

LEMMA LanesFinite ==
  /\ IsFiniteSet(InLanes)
  /\ \A k \in Green : /\ IsFiniteSet(Served(k)) /\ Served(k) # {} /\ Served(k) \subseteq InLanes
                      /\ IsFiniteSet({OutLane[l] : l \in LitLinks(k)})
                      /\ {OutLane[l] : l \in LitLinks(k)} \subseteq OutLanes
<1>1. InLanes = {InLane[l] : l \in Link} /\ IsFiniteSet(Link)
  BY LoopAssumption
<1>2. [l \in Link |-> InLane[l]] \in Surjection(Link, {InLane[l] : l \in Link})
  BY DEF Surjection
<1>3. IsFiniteSet(InLanes)
  BY <1>1, <1>2, FS_Surjection
<1>4. [l \in Link |-> OutLane[l]] \in Surjection(Link, {OutLane[l] : l \in Link})
  BY DEF Surjection
<1>5. IsFiniteSet({OutLane[l] : l \in Link})
  BY <1>1, <1>4, FS_Surjection
<1>6. ASSUME NEW k \in Green
      PROVE  /\ IsFiniteSet(Served(k)) /\ Served(k) # {} /\ Served(k) \subseteq InLanes
             /\ IsFiniteSet({OutLane[l] : l \in LitLinks(k)})
             /\ {OutLane[l] : l \in LitLinks(k)} \subseteq OutLanes
  <2>1. Served(k) \in SUBSET InLanes
    BY <1>1 DEF Served, LitLinks
  <2>2. {OutLane[l] : l \in LitLinks(k)} \in SUBSET {OutLane[l] : l \in Link}
    BY DEF LitLinks
  <2>3. Served(k) # {}
    <3>1. PICK l \in Link : Shows(GreenState[k], l)
      BY PlanAssumption DEF Shows
    <3>2. InLane[l] \in Served(k)
      BY <3>1 DEF Served, LitLinks
    <3>3. QED
      BY <3>2
  <2>4. {OutLane[l] : l \in LitLinks(k)} \subseteq OutLanes
    BY PhaseFacts
  <2>5. QED
    BY <1>3, <1>5, <2>1, <2>2, <2>3, <2>4, FS_Subset
<1>7. QED
  BY <1>3, <1>6

LEMMA HaltedCounts ==
  ASSUME NEW queues, NEW lanes, IsFiniteSet(lanes), \A l \in lanes : queues[l] \in Nat
  PROVE  Halted(queues, lanes) \in Nat
<1> DEFINE U == {{l} \X (1 .. queues[l]) : l \in lanes}
           f == [l \in lanes |-> {l} \X (1 .. queues[l])]
<1>1. IsFiniteSet(U)
  <2>1. f \in Surjection(lanes, U)
    BY DEF Surjection
  <2>2. QED
    BY <2>1, FS_Surjection
<1>2. \A u \in U : IsFiniteSet(u)
  <2>1. ASSUME NEW l \in lanes PROVE IsFiniteSet({l} \X (1 .. queues[l]))
    <3>1. 1 \in Int /\ queues[l] \in Int
      OBVIOUS
    <3>2. IsFiniteSet(1 .. queues[l])
      BY <3>1, FS_Interval
    <3>3. IsFiniteSet({l})
      BY FS_Singleton
    <3>4. QED
      BY <3>2, <3>3, FS_Product
  <2>2. QED
    BY <2>1
<1>3. IsFiniteSet(UNION U)
  <2> HIDE DEF U
  <2> QED BY <1>1, <1>2, FS_UNION
<1>4. QED
  BY <1>3, FS_CardinalityType DEF Halted

LEMMA Scores ==
  ASSUME NEW queues \in Readings
  PROVE  /\ Waves(queues) \in [Green -> Nat]
         /\ Pressures(queues) \in [Green -> Int]
<1>1. \A l \in InLanes \cup OutLanes : queues[l] \in Nat
  BY LoopAssumption DEF Readings
<1>2. ASSUME NEW k \in Green
      PROVE  /\ Halted(queues, Served(k)) \in Nat
             /\ Halted(queues, {OutLane[l] : l \in LitLinks(k)}) \in Nat
  BY <1>1, HaltedCounts, LanesFinite
<1>3. QED
  <2>1. Waves(queues) = [k \in Green |-> Halted(queues, Served(k))]
    BY PhaseFacts DEF Waves, Served
  <2>2. Pressures(queues) =
          [k \in Green |-> Halted(queues, Served(k))
                            - Halted(queues, {OutLane[l] : l \in LitLinks(k)})]
    BY PhaseFacts DEF Pressures, Served
  <2>3. \A k \in Green : Halted(queues, Served(k))
                           - Halted(queues, {OutLane[l] : l \in LitLinks(k)}) \in Int
    BY <1>2
  <2>4. QED
    BY <1>2, <2>1, <2>2, <2>3, Zenon

LEMMA LocalChosen ==
  ASSUME NEW queues \in Readings, NEW k \in Green
  PROVE  LocalMaxWave(queues, k) \in Green
BY Scores, PhaseFacts, BestChosen DEF LocalMaxWave

LEMMA CoordinatedChosen ==
  ASSUME NEW queues \in Readings, NEW k \in Green, NEW elapsed
  PROVE  CoordinatedMaxPressure(queues, k, elapsed) \in Green
BY Scores, PhaseFacts, BestChosen DEF CoordinatedMaxPressure

LEMMA OtherChosen ==
  ASSUME NEW queues \in Readings, NEW k \in Green
  PROVE  /\ BestBut(Waves(queues), k) \in Green
         /\ Green # {k} => BestBut(Waves(queues), k) # k
<1>1. CASE Green = {k}
  BY <1>1, PhaseFacts DEF BestBut
<1>2. CASE Green # {k}
  <2>1. IsFiniteSet(Green \ {k}) /\ Green \ {k} # {} /\ Green \ {k} \in SUBSET Nat
    BY <1>2, PhaseFacts, FS_RemoveElement
  <2>2. Best(Waves(queues), Green \ {k}) \in Green \ {k}
    BY <2>1, Scores, BestChosen
  <2>3. QED
    BY <1>2, <2>2, PhaseFacts DEF BestBut
<1>3. QED
  BY <1>1, <1>2

LEMMA IntentChosen ==
  ASSUME NEW queues \in Readings, NEW k \in Green, NEW elapsed, NEW name \in IntentName,
         NEW strength \in 0 .. 1, NEW emergency
  PROVE  SupervisedTarget(name, strength, queues, k, elapsed, emergency) \in Green
<1>1. LocalMaxWave(queues, k) \in Green
  BY LocalChosen
<1>2. CoordinatedMaxPressure(queues, k, elapsed) \in Green
  BY CoordinatedChosen
<1>3. BestBut(Waves(queues), CoordinatedMaxPressure(queues, k, elapsed)) \in Green
  BY <1>2, OtherChosen
<1>4. QED
  BY <1>1, <1>2, <1>3, PhaseFacts DEF SupervisedTarget, IntentName

(* The fairness override picks a phase that serves the lane. *)
LEMMA ServingChosen ==
  ASSUME NEW lane \in InLanes
  PROVE  FirstServing(lane) \in Green /\ lane \in Served(FirstServing(lane))
<1> DEFINE serving == {k \in Green : lane \in Served(k)}
<1>1. serving # {}
  BY PhaseFacts
<1>2. serving \in SUBSET Nat /\ IsFiniteSet(serving)
  BY PhaseFacts, FS_Subset
<1>3. Best([k \in Green |-> 0], serving) \in serving
  <2>1. \A k \in serving : [j \in Green |-> 0][k] \in Int
    OBVIOUS
  <2> HIDE DEF serving
  <2>2. QED
    BY <1>1, <1>2, <2>1, BestChosen
<1>4. FirstServing(lane) = Best([k \in Green |-> 0], serving)
  BY PhaseFacts DEF FirstServing, Served
<1>5. QED
  BY <1>3, <1>4

(* Whatever the readings, the plan of an arm is a phase of the junction,   *)
(* and the alternative is another one where there is another one.          *)
LEMMA TargetsAreGreens ==
  ASSUME current_green \in Green
  PROVE  /\ Planned \subseteq Green
         /\ OtherTargets[current_green] \subseteq Green
         /\ Green # {current_green} => current_green \notin OtherTargets[current_green]
<1>1. LocalTargets[current_green] \subseteq Green
  BY LocalChosen DEF LocalTargets
<1>2. held_s \in Held
  BY DEF held_s, Held
<1>3. CoordinatedTargets[current_green][held_s] \subseteq Green
  BY <1>2, CoordinatedChosen DEF CoordinatedTargets
<1>4. IntentTargets[current_green][held_s] \subseteq Green
  <2>1. ASSUME NEW target \in IntentTargets[current_green][held_s]
        PROVE  target \in Green
    <3>1. PICK name \in IntentName, strength \in 0 .. 1, queues \in Readings,
               emergency \in Green \cup {None} :
             target = SupervisedTarget(name, strength, queues, current_green, held_s,
                                       emergency)
      BY <1>2, <2>1 DEF IntentTargets
    <3>2. QED
      BY <3>1, IntentChosen
  <2>2. QED
    BY <2>1
<1>5. QED
  BY <1>1, <1>3, <1>4, OtherChosen DEF Planned, OtherTargets, ForcedAlternative

-----------------------------------------------------------------------------
(* The executor in the loop is the executor. *)

(* A control step asks for a phase of the junction, or sends one.          *)
LEMMA PlanIssues ==
  ASSUME current_green \in Green, NEW observed, NEW n, Plan(observed, n)
  PROVE  \E target \in Green : Issue(target, n)
<1>1. PICK lane \in Longest(observed) :
        \/ /\ Overdue(lane, observed)
           /\ Issue(FirstServing(lane), n)
        \/ \E target \in OtherTargets[current_green] : Issue(target, n)
        \/ \E target \in Planned : Issue(target, n)
  BY DEF Plan
<1>2. CASE Overdue(lane, observed) /\ Issue(FirstServing(lane), n)
  BY <1>2, ServingChosen DEF Overdue
<1>3. CASE \E target \in OtherTargets[current_green] : Issue(target, n)
  BY <1>3, TargetsAreGreens
<1>4. CASE \E target \in Planned : Issue(target, n)
  BY <1>4, TargetsAreGreens
<1>5. QED
  BY <1>1, <1>2, <1>3, <1>4

LEMMA StuckFacts ==
  ASSUME current_green \in Green
  PROVE  /\ Stuck \subseteq Served(current_green) /\ Stuck \subseteq InLanes
         /\ IsFiniteSet(Stuck) /\ Cardinality(Stuck) \in Nat
<1>1. Stuck \subseteq Served(current_green)
  BY DEF Stuck
<1>2. IsFiniteSet(Served(current_green)) /\ Served(current_green) \subseteq InLanes
  BY LanesFinite
<1>3. IsFiniteSet(Stuck)
  BY <1>1, <1>2, FS_Subset
<1>4. QED
  BY <1>1, <1>2, <1>3, FS_CardinalityType

LEMMA ControlIssues ==
  ASSUME current_green \in Green, Control \/ ControlBlind \/ ControlMasked
  PROVE  Decides /\ \E target \in Green, n \in Nat : Issue(target, n)
<1>1. ASSUME NEW observed, NEW n \in Nat, Plan(observed, n)
      PROVE  \E target \in Green, m \in Nat : Issue(target, m)
  BY <1>1, PlanIssues
<1>2. Cardinality(Stuck) \in Nat /\ Cardinality(Stuck) + 1 \in Nat
  BY StuckFacts
<1>3. QED
  BY <1>1, <1>2 DEF Control, ControlBlind, ControlMasked

(* A cloud action on its way. *)
Action == [due : 0 .. MaxDelay, target : Green]

LEMMA ActionOfList ==
  ASSUME NEW q \in Seq(Action), NEW i \in DOMAIN q
  PROVE  /\ i \in 1 .. Len(q) /\ q[i] \in Action
         /\ q[i].due \in 0 .. MaxDelay /\ q[i].target \in Green
<1>1. i \in 1 .. Len(q) /\ q[i] \in Action
  OBVIOUS
<1>2. QED
  BY <1>1 DEF Action

LEMMA FirstDue ==
  ASSUME pending_cloud \in Seq(Action), Due # {}
  PROVE  LET first == CHOOSE i \in Due : \A j \in Due : i <= j
         IN  first \in Due /\ first \in 1 .. Len(pending_cloud)
             /\ pending_cloud[first] \in Action /\ pending_cloud[first].due = 0
<1> DEFINE first == CHOOSE i \in Due : \A j \in Due : i <= j
<1>1. Due \subseteq 1 .. Len(pending_cloud) /\ Due \subseteq Nat
  BY DEF Due
<1>2. PICK i \in Due : \A j \in Due : <<j, i>> \notin OpToRel(<, Nat)
  BY <1>1, WFMin, NatLessThanWellFounded, Zenon
<1>3. ASSUME NEW j \in Due, ~(i <= j) PROVE FALSE
  <2>1. i \in Nat /\ j \in Nat
    BY <1>1
  <2>2. j < i
    BY <1>3, <2>1
  <2>3. <<j, i>> \in OpToRel(<, Nat)
    BY <2>1, <2>2 DEF OpToRel
  <2>4. QED
    BY <1>2, <2>3
<1>4. first \in Due
  <2>1. \A j \in Due : i <= j
    BY <1>3
  <2>2. QED
    BY <2>1, Zenon
<1> HIDE DEF first
<1>5. pending_cloud[first] \in Action
  BY <1>1, <1>4
<1>6. pending_cloud[first].due = 0
  <2>1. pending_cloud[first].due <= 0
    BY <1>4 DEF Due
  <2>2. pending_cloud[first].due \in 0 .. MaxDelay
    BY <1>5 DEF Action
  <2>3. QED
    BY <2>1, <2>2, LoopAssumption
<1>7. QED
  BY <1>1, <1>4, <1>5, <1>6 DEF first

LEMMA ExecutorStep ==
  ASSUME TypeOK, pending_cloud \in Seq(Action), [JunctionNext]_junctionVars
  PROVE  [Next]_vars
<1>1. current_green \in Green
  BY DEF TypeOK
<1>2. ASSUME NEW target \in Green, NEW n, Issue(target, n) PROVE [Next]_vars
  BY <1>2 DEF Issue, Next
<1>3. CASE Report \/ NoControl \/ NoneArrived
  BY <1>3 DEF Report, NoControl, NoneArrived
<1>4. CASE Control \/ ControlBlind \/ ControlMasked
  BY <1>1, <1>2, <1>4, ControlIssues
<1>5. CASE Arrive
  BY <1>5, FirstDue DEF Arrive, Action, Next
<1>6. CASE Second
  BY <1>6 DEF Second, Next
<1>7. CASE UNCHANGED junctionVars
  BY <1>7 DEF junctionVars
<1>8. QED
  BY <1>3, <1>4, <1>5, <1>6, <1>7 DEF JunctionNext

-----------------------------------------------------------------------------
(* Types. *)

(* x \div c * c, the multiples of the control interval. *)
LEMMA Division ==
  ASSUME NEW x \in Nat, NEW c \in Nat \ {0}
  PROVE  /\ x \div c \in Nat /\ x % c \in 0 .. c - 1
         /\ x = c * (x \div c) + (x % c)
BY SMT

LEMMA Multiples ==
  ASSUME NEW x \in Nat, NEW c \in Nat \ {0}
  PROVE  /\ (x \div c) * c \in Nat /\ (x \div c) * c <= x /\ x < (x \div c) * c + c
         /\ ((x \div c) * c) % c = 0
<1>1. /\ x \div c \in Nat /\ x % c \in 0 .. c - 1
      /\ x = c * (x \div c) + (x % c)
  BY Division
<1>2. PICK q \in Nat : q = x \div c
  BY <1>1
<1>3. q * c = c * q /\ q * c \in Nat
  BY <1>2
<1>4. (q * c) % c = 0
  BY <1>2, SMT
<1>5. QED
  BY <1>1, <1>2, <1>3, <1>4

LEMMA IntervalFacts ==
  ASSUME NEW n \in Nat
  PROVE  /\ Intervals(n) \in Nat /\ Intervals(n) >= n
         /\ Intervals(n) % ControlInterval = 0
<1> DEFINE x == n + ControlInterval - 1
<1>1. ControlInterval \in Nat \ {0} /\ x \in Nat
  BY LoopAssumption
<1>2. /\ Intervals(n) = (x \div ControlInterval) * ControlInterval
  BY DEF Intervals
<1>3. /\ Intervals(n) \in Nat /\ x < Intervals(n) + ControlInterval
      /\ Intervals(n) % ControlInterval = 0
  <2> HIDE DEF x
  <2> QED BY <1>1, <1>2, Multiples
<1>4. QED
  BY <1>1, <1>3

LEMMA Products ==
  ASSUME NEW x \in Nat, NEW y \in Nat
  PROVE  x * y \in Nat
BY SMT

LEMMA ConstantFacts ==
  /\ ControlInterval \in Nat /\ ControlInterval >= 1
  /\ MaxDelay \in Nat /\ MaxDelay >= 1 /\ MaxDisturbed \in Nat
  /\ MaxApproachWait \in Nat /\ MaxApproachWait >= 1
  /\ MinGreen \in Nat /\ MaxGreen \in Nat /\ MinGreen <= MaxGreen
  /\ Cardinality(InLanes) \in Nat /\ Cardinality(InLanes) >= 1
  /\ Intervals(Clearance + MinGreen) \in Nat
  /\ WaitHorizon \in Nat /\ WaitHorizon >= 1
<1>1. Cardinality(InLanes) \in Nat /\ Cardinality(InLanes) >= 1
  <2>1. InLanes # {}
    BY PhaseFacts, LanesFinite
  <2>2. Cardinality(InLanes) \in Nat /\ Cardinality(InLanes) # 0
    BY <2>1, LanesFinite, FS_CardinalityType, FS_EmptySet
  <2>3. QED
    BY <2>2
<1>2. Intervals(Clearance + MinGreen) \in Nat
  BY IntervalFacts, ClearanceFacts, TimingAssumption
<1>3. (Cardinality(InLanes) + MaxDisturbed + 1) * Turn \in Nat
  BY <1>1, <1>2, Products, LoopAssumption DEF Turn
<1>4. QED
  BY <1>1, <1>2, <1>3, LoopAssumption, TimingAssumption DEF WaitHorizon

(* The actions on their way are still to arrive, those that are not asked  *)
(* for in this second a second or more; only the cloud sends any.          *)
OnTheWay ==
  /\ pending_cloud \in Seq(Action)
  /\ arm # "cloud_maxpressure" => pending_cloud = <<>>
  /\ at = "second" => \A i \in DOMAIN pending_cloud : pending_cloud[i].due >= 1

LoopTyped ==
  /\ arm \in Arm /\ at \in {"report", "control", "arrival", "second"}
  /\ tick \in 0 .. ControlInterval - 1
  /\ waits \in [InLanes -> 0 .. WaitHorizon]
  /\ uplink \in {"none", "sent", "lost"}
  /\ disturbed \in 0 .. MaxDisturbed

JInv == IInv /\ LoopTyped /\ OnTheWay

LEMMA TypedInit == JunctionInit => JInv
<1> SUFFICES ASSUME JunctionInit PROVE JInv
  OBVIOUS
<1>1. IInv
  BY InvariantInit DEF JunctionInit
<1>2. LoopTyped
  <2>1. arm \in Arm
    BY LoopAssumption DEF JunctionInit
  <2>2. QED
    BY <2>1, ConstantFacts DEF JunctionInit, LoopTyped, Begin
<1>3. OnTheWay
  BY DEF JunctionInit, OnTheWay
<1>4. QED
  BY <1>1, <1>2, <1>3 DEF JInv

LEMMA TypedIssue ==
  ASSUME JInv, NEW target \in Green, NEW n \in Nat, Issue(target, n)
  PROVE  LoopTyped' /\ OnTheWay'
<1>1. LoopTyped'
  <2>1. disturbed' \in 0 .. MaxDisturbed
    BY ConstantFacts DEF Issue, JInv, LoopTyped
  <2>2. at' \in {"arrival", "second"} /\ UNCHANGED <<arm, tick, waits, uplink>>
    BY DEF Issue
  <2>3. QED
    BY <2>1, <2>2 DEF JInv, LoopTyped
<1>2. OnTheWay'
  <2>1. CASE arm = "cloud_maxpressure"
    <3>1. at' = "arrival" /\ arm' = arm
      BY <2>1 DEF Issue
    <3>2. pending_cloud' \in Seq(Action)
      <4>1. \/ pending_cloud' = pending_cloud
            \/ \E delay \in 1 .. MaxDelay :
                 pending_cloud' = Append(pending_cloud, [due |-> delay, target |-> target])
        BY <2>1 DEF Issue
      <4>2. \A delay \in 1 .. MaxDelay : [due |-> delay, target |-> target] \in Action
        BY ConstantFacts DEF Action
      <4>3. pending_cloud \in Seq(Action)
        BY DEF JInv, OnTheWay
      <4>4. \A action \in Action : Append(pending_cloud, action) \in Seq(Action)
        BY <4>3
      <4>5. QED
        BY <4>1, <4>2, <4>3, <4>4, Zenon
    <3>3. QED
      BY <2>1, <3>1, <3>2 DEF OnTheWay
  <2>2. CASE arm # "cloud_maxpressure"
    <3>1. pending_cloud' = <<>> /\ arm' = arm
      BY <2>2 DEF Issue, JInv, OnTheWay
    <3>2. QED
      BY <3>1 DEF OnTheWay
  <2>3. QED
    BY <2>1, <2>2
<1>3. QED
  BY <1>1, <1>2

LEMMA TypedArrive ==
  ASSUME JInv, Arrive
  PROVE  LoopTyped' /\ OnTheWay'
<1>1. at = "arrival" /\ Due # {} /\ UNCHANGED <<arm, at, tick, waits, uplink, disturbed>>
  BY DEF Arrive
<1>2. PICK first \in 1 .. Len(pending_cloud) :
        pending_cloud' = SubSeq(pending_cloud, 1, first - 1)
                           \o SubSeq(pending_cloud, first + 1, Len(pending_cloud))
  BY FirstDue DEF Arrive, RemoveAt, JInv, OnTheWay
<1>3. pending_cloud \in Seq(Action) /\ arm = "cloud_maxpressure"
  BY <1>2 DEF JInv, OnTheWay
<1>4. pending_cloud' \in Seq(Action)
  <2>1. SubSeq(pending_cloud, 1, first - 1) \in Seq(Action)
    BY <1>2, <1>3
  <2>2. SubSeq(pending_cloud, first + 1, Len(pending_cloud)) \in Seq(Action)
    BY <1>2, <1>3
  <2>3. QED
    BY <1>2, <2>1, <2>2
<1>5. QED
  BY <1>1, <1>3, <1>4 DEF JInv, LoopTyped, OnTheWay

LEMMA WaitsOfSecond ==
  ASSUME LoopTyped, Traffic
  PROVE  /\ waits' \in [InLanes -> 0 .. WaitHorizon]
         /\ \A l \in InLanes : waits'[l] <= waits[l] + 1
<1>1. PICK standing \in SUBSET InLanes :
        \E behind \in [InLanes \ standing -> Behind] : waits' = WaitsAfter(standing, behind)
  BY DEF Traffic
<1>2. PICK behind \in [InLanes \ standing -> Behind] : waits' = WaitsAfter(standing, behind)
  BY <1>1
<1>3. ASSUME NEW l \in InLanes
      PROVE  LET w == IF l \in standing THEN UpTo(WaitHorizon, waits[l] + 1)
                      ELSE UpTo(waits[l], behind[l])
             IN  w \in 0 .. WaitHorizon /\ w <= waits[l] + 1
  <2>1. waits[l] \in 0 .. WaitHorizon
    BY DEF LoopTyped
  <2>2. l \notin standing => behind[l] \in Nat
    BY LoopAssumption
  <2>3. QED
    BY <2>1, <2>2, ConstantFacts DEF UpTo
<1>4. QED
  BY <1>2, <1>3 DEF WaitsAfter

LEMMA SecondCounts ==
  ASSUME JInv, Second
  PROVE  /\ Len(pending_cloud') = Len(pending_cloud) /\ pending_cloud' \in Seq(Action)
         /\ \A i \in DOMAIN pending_cloud :
              /\ i \in DOMAIN pending_cloud'
              /\ pending_cloud'[i].target = pending_cloud[i].target
              /\ pending_cloud'[i].due = pending_cloud[i].due - 1
<1>1. /\ pending_cloud' =
           [i \in DOMAIN pending_cloud |-> [pending_cloud[i] EXCEPT !.due = @ - 1]]
      /\ at = "second"
  BY DEF Second
<1>2. /\ pending_cloud \in Seq(Action)
      /\ \A i \in DOMAIN pending_cloud : pending_cloud[i].due >= 1
  BY <1>1 DEF JInv, OnTheWay
<1>3. ASSUME NEW i \in DOMAIN pending_cloud
      PROVE  /\ [pending_cloud[i] EXCEPT !.due = @ - 1] \in Action
             /\ [pending_cloud[i] EXCEPT !.due = @ - 1].target = pending_cloud[i].target
             /\ [pending_cloud[i] EXCEPT !.due = @ - 1].due = pending_cloud[i].due - 1
  <2>1. pending_cloud[i] \in Action /\ pending_cloud[i].due >= 1
    BY <1>2
  <2>2. QED
    BY <2>1, ConstantFacts DEF Action
<1>4. DOMAIN pending_cloud = 1 .. Len(pending_cloud)
  BY <1>2
<1>5. pending_cloud' \in Seq(Action) /\ Len(pending_cloud') = Len(pending_cloud)
  BY <1>1, <1>3, <1>4, <1>2
<1>6. QED
  BY <1>1, <1>3, <1>5

LEMMA TypedSecond ==
  ASSUME JInv, Second
  PROVE  LoopTyped' /\ OnTheWay'
<1>1. /\ tick' = (tick + 1) % ControlInterval /\ at' = Begin /\ uplink' = "none"
      /\ UNCHANGED <<arm, disturbed>> /\ at = "second"
  BY DEF Second
<1>2. tick' \in 0 .. ControlInterval - 1
  BY <1>1, ConstantFacts, Division DEF JInv, LoopTyped
<1>3. waits' \in [InLanes -> 0 .. WaitHorizon]
  BY WaitsOfSecond DEF Second, JInv
<1>4. at' \in {"report", "control"}
  BY <1>1 DEF Begin
<1>5. pending_cloud' \in Seq(Action) /\ (pending_cloud = <<>> => pending_cloud' = <<>>)
  BY SecondCounts DEF JInv, OnTheWay
<1>6. LoopTyped'
  BY <1>1, <1>2, <1>3, <1>4 DEF JInv, LoopTyped
<1>7. OnTheWay'
  BY <1>1, <1>4, <1>5 DEF JInv, OnTheWay
<1>8. QED
  BY <1>6, <1>7

LEMMA TypedNext == JInv /\ [JunctionNext]_junctionVars => JInv'
<1> SUFFICES ASSUME JInv, [JunctionNext]_junctionVars PROVE JInv'
  OBVIOUS
<1>1. TypeOK /\ pending_cloud \in Seq(Action)
  BY DEF JInv, IInv, OnTheWay
<1>2. IInv'
  BY <1>1, ExecutorStep, InvariantNext DEF JInv
<1>3. LoopTyped' /\ OnTheWay'
  <2>1. CASE Report
    BY <2>1 DEF Report, JInv, LoopTyped, OnTheWay
  <2>2. CASE NoControl
    BY <2>2 DEF NoControl, JInv, LoopTyped, OnTheWay
  <2>3. CASE Control \/ ControlBlind \/ ControlMasked
    BY <1>1, <2>3, ControlIssues, TypedIssue DEF TypeOK
  <2>4. CASE Arrive
    BY <2>4, TypedArrive
  <2>5. CASE NoneArrived
    <3>1. ASSUME NEW i \in DOMAIN pending_cloud PROVE pending_cloud[i].due >= 1
      <4>1. ~(pending_cloud[i].due <= 0)
        BY <2>5 DEF NoneArrived, Due
      <4>2. pending_cloud[i].due \in 0 .. MaxDelay
        BY <1>1, ActionOfList
      <4>3. QED
        BY <4>1, <4>2, ConstantFacts
    <3>2. QED
      BY <2>5, <3>1 DEF NoneArrived, JInv, LoopTyped, OnTheWay
  <2>6. CASE Second
    BY <2>6, TypedSecond
  <2>7. CASE UNCHANGED junctionVars
    BY <2>7 DEF junctionVars, loop, JInv, LoopTyped, OnTheWay
  <2>8. QED
    BY <2>1, <2>2, <2>3, <2>4, <2>5, <2>6, <2>7 DEF JunctionNext
<1>4. QED
  BY <1>2, <1>3 DEF JInv

LEMMA Typed == JunctionSpec => []JInv
  BY TypedInit, TypedNext, PTL DEF JunctionSpec

(* The variables of the loop keep their types, and a cloud action is asked *)
(* for in the second in which it arrives.                                  *)
THEOREM JunctionTypeCorrect == JunctionSpec => []JunctionTypeOK
<1>1. JInv => JunctionTypeOK
  <2> SUFFICES ASSUME JInv PROVE JunctionTypeOK
    OBVIOUS
  <2>1. \A i \in DOMAIN pending_cloud :
          pending_cloud[i].due \in 0 .. MaxDelay /\ pending_cloud[i].target \in Green
    BY ActionOfList DEF JInv, OnTheWay
  <2>2. QED
    BY <2>1 DEF JInv, IInv, LoopTyped, OnTheWay, JunctionTypeOK
<1>2. QED
  BY <1>1, Typed, PTL

(* The loop asks the executor for nothing but phases: closed in a loop, it *)
(* is the executor of SignalExecutor.                                      *)
LEMMA LoopRunsExecutor == JunctionSpec => Spec
<1>1. JunctionInit => Init
  BY DEF JunctionInit
<1>2. JInv /\ [JunctionNext]_junctionVars => [Next]_vars
  BY ExecutorStep DEF JInv, IInv, OnTheWay
<1>3. QED
  BY <1>1, <1>2, Typed, PTL DEF JunctionSpec, Spec

(* Under every arm, the cloud's delayed and reordered actions included, a  *)
(* link is lit only when the links in conflict with it have been dark for  *)
(* the clearance time.                                                     *)
THEOREM JunctionConflictsCleared == JunctionSpec => []ConflictsCleared
  BY LoopRunsExecutor, ConflictingGreensSeparated, PTL

(* Under every arm the greens and the clearances last what SignalTiming    *)
(* promises.                                                               *)
THEOREM JunctionImplementsTiming == JunctionSpec => ImplementsTiming
  BY LoopRunsExecutor, ExecutorImplementsTiming, PTL

-----------------------------------------------------------------------------
(* Greens end. *)

(* Seconds until a control step is due. *)
ToControl ==
  IF tick = 0 /\ at \in {"report", "control"} THEN 0 ELSE ControlInterval - tick

GreenLimit == MaxGreen + ControlInterval - 1 + disturbed * ControlInterval

(* A cloud action that will end the green when it arrives. *)
Ends(action) ==
  /\ action.target # current_green /\ phase_elapsed_s >= MinGreen
  /\ phase_elapsed_s + action.due <= GreenLimit + MaxDelay

(* The next control step comes in time to end the green, or what ends it   *)
(* is on its way.                                                          *)
GreenEnding ==
  stage = "green" =>
    \/ phase_elapsed_s + ToControl <= GreenLimit
    \/ \E i \in DOMAIN pending_cloud : Ends(pending_cloud[i])

(* What a second does in each stage. *)
LEMMA SecondOfStage ==
  ASSUME JInv, Second
  PROVE  /\ stage = "green" =>
              /\ stage' = "green" /\ current_green' = current_green
              /\ phase_elapsed_s \in Nat /\ phase_elapsed_s' \in Nat
              /\ phase_elapsed_s <= phase_elapsed_s' /\ phase_elapsed_s' <= phase_elapsed_s + 1
              /\ phase_elapsed_s < MinGreen => phase_elapsed_s' = phase_elapsed_s + 1
         /\ stage # "green" /\ stage' = "green" =>
              phase_elapsed_s' = 0 /\ current_green' = pending_green
<1>1. CASE stage = "green"
  <2>1. StepGreen
    BY <1>1 DEF Second, Step, StepWaits, StepToAllRed, StepToGreen, transitioning
  <2>2. phase_elapsed_s \in 0 .. Horizon
    BY DEF JInv, IInv, TypeOK
  <2>3. QED
    BY <1>1, <2>1, <2>2, TimingAssumption DEF StepGreen, UpTo
<1>2. CASE stage # "green"
  BY <1>2 DEF Second, Step, StepGreen, StepWaits, StepToAllRed, StepToGreen, transitioning
<1>3. QED
  BY <1>1, <1>2

LEMMA NextTick ==
  ASSUME NEW t \in 0 .. ControlInterval - 1
  PROVE  (t + 1) % ControlInterval = IF t + 1 = ControlInterval THEN 0 ELSE t + 1
BY ConstantFacts

LEMMA ToControlOfSecond ==
  ASSUME JInv, Second
  PROVE  ToControl \in Nat /\ ToControl >= 1 /\ ToControl' = ToControl - 1
<1>1. at = "second" /\ at' \in {"report", "control"} /\ tick' = (tick + 1) % ControlInterval
  BY DEF Second, Begin
<1>2. tick \in 0 .. ControlInterval - 1
  BY DEF JInv, LoopTyped
<1>3. tick' = IF tick + 1 = ControlInterval THEN 0 ELSE tick + 1
  BY <1>1, <1>2, NextTick
<1>4. QED
  BY <1>1, <1>2, <1>3, ConstantFacts DEF ToControl

LEMMA Scaled ==
  ASSUME NEW x \in Nat, NEW y \in Nat, NEW c \in Nat
  PROVE  /\ x <= y => x * c <= y * c
         /\ x + 1 <= y => x * c + c <= y * c
<1>1. ASSUME x <= y PROVE x * c <= y * c
  <2>1. PICK k \in Nat : y = x + k
    <3>1. y - x \in Nat /\ y = x + (y - x)
      BY <1>1
    <3>2. QED
      BY <3>1
  <2>2. (x + k) * c = x * c + k * c
    BY SMT
  <2>3. x * c \in Nat /\ k * c \in Nat
    BY Products
  <2>4. QED
    BY <2>1, <2>2, <2>3
<1>2. ASSUME x + 1 <= y PROVE x * c + c <= y * c
  <2>1. PICK k \in Nat : y = x + 1 + k
    <3>1. y - x - 1 \in Nat /\ y = x + 1 + (y - x - 1)
      BY <1>2
    <3>2. QED
      BY <3>1
  <2>2. (x + 1 + k) * c = x * c + c + k * c
    BY SMT
  <2>3. x * c \in Nat /\ k * c \in Nat
    BY Products
  <2>4. QED
    BY <2>1, <2>2, <2>3
<1>3. QED
  BY <1>1, <1>2

LEMMA LimitGrows ==
  ASSUME JInv, disturbed' \in Nat, disturbed <= disturbed'
  PROVE  /\ GreenLimit \in Nat /\ GreenLimit' \in Nat
         /\ GreenLimit' >= MaxGreen + ControlInterval - 1
         /\ GreenLimit <= GreenLimit'
         /\ disturbed + 1 <= disturbed' => GreenLimit + ControlInterval <= GreenLimit'
<1>1. /\ disturbed \in Nat /\ disturbed' \in Nat /\ ControlInterval \in Nat
      /\ ControlInterval >= 1 /\ MaxGreen \in Nat
  BY ConstantFacts DEF JInv, LoopTyped
<1>2. PICK x \in Nat, y \in Nat : /\ x = disturbed * ControlInterval
                                  /\ y = disturbed' * ControlInterval
  BY <1>1, Products
<1>3. x <= y /\ (disturbed + 1 <= disturbed' => x + ControlInterval <= y)
  BY <1>1, <1>2, Scaled
<1>4. /\ GreenLimit = MaxGreen + ControlInterval - 1 + x
      /\ GreenLimit' = MaxGreen + ControlInterval - 1 + y
  BY <1>2 DEF GreenLimit
<1>5. QED
  BY <1>1, <1>3, <1>4

(* The end of a green that is on its way stays so. *)
LEMMA StillEnding ==
  ASSUME JInv, UNCHANGED <<stage, current_green, phase_elapsed_s>>,
         disturbed' \in Nat, disturbed <= disturbed', NEW action \in Action, Ends(action)
  PROVE  Ends(action)'
<1>1. GreenLimit \in Nat /\ GreenLimit' \in Nat /\ GreenLimit <= GreenLimit'
  BY LimitGrows
<1>2. action.due \in Nat /\ phase_elapsed_s \in Nat
  BY DEF Action, JInv, IInv, TypeOK
<1>3. QED
  BY <1>1, <1>2, ConstantFacts DEF Ends

LEMMA IssueEnds ==
  ASSUME JInv, GreenEnding, Decides, NEW target \in Green, NEW n \in Nat,
         Issue(target, n),
         n >= 1 \/ phase_elapsed_s < MaxGreen \/ target # current_green
  PROVE  GreenEnding'
<1> SUFFICES ASSUME stage' = "green" PROVE GreenEnding'
  BY DEF GreenEnding
<1>1. stage = "green" /\ tick = 0 /\ at = "control" /\ ToControl = 0
  BY DEF Decides, transitioning, ToControl
<1>2. ToControl' = ControlInterval
  <2>1. tick' = 0 /\ at' \in {"arrival", "second"}
    BY <1>1 DEF Issue
  <2>2. QED
    BY <2>1, ConstantFacts DEF ToControl
<1>3. /\ phase_elapsed_s \in Nat /\ pending_cloud \in Seq(Action)
      /\ disturbed \in Nat /\ disturbed' \in Nat /\ disturbed + n <= disturbed'
      /\ disturbed <= disturbed'
  BY DEF Issue, JInv, IInv, TypeOK, OnTheWay, LoopTyped
<1>4. /\ UNCHANGED <<stage, current_green, phase_elapsed_s>>
      /\ arm # "cloud_maxpressure" => ~Accepts(target)
  BY <1>1 DEF Issue, Request, vars, control
<1>5. /\ GreenLimit \in Nat /\ GreenLimit' \in Nat /\ GreenLimit <= GreenLimit'
      /\ GreenLimit' >= MaxGreen + ControlInterval - 1
      /\ disturbed + 1 <= disturbed' => GreenLimit + ControlInterval <= GreenLimit'
  BY <1>3, LimitGrows
<1>6. CASE \E i \in DOMAIN pending_cloud : Ends(pending_cloud[i])
  <2>1. PICK i \in DOMAIN pending_cloud : Ends(pending_cloud[i])
    BY <1>6
  <2>2. i \in DOMAIN pending_cloud' /\ pending_cloud'[i] = pending_cloud[i]
    <3>1. CASE pending_cloud' = pending_cloud
      BY <3>1
    <3>2. ASSUME NEW action \in Action, pending_cloud' = Append(pending_cloud, action)
          PROVE  i \in DOMAIN pending_cloud' /\ pending_cloud'[i] = pending_cloud[i]
      BY <1>3, <3>2
    <3>3. \A delay \in 1 .. MaxDelay : [due |-> delay, target |-> target] \in Action
      BY ConstantFacts DEF Action
    <3>4. QED
      BY <3>1, <3>2, <3>3 DEF Issue
  <2>3. \A action \in Action : Ends(action) => Ends(action)'
    BY <1>3, <1>4, StillEnding
  <2>4. pending_cloud[i] \in Action
    BY <1>3
  <2>5. \A j \in DOMAIN pending_cloud' : \A action \in Action :
          action = pending_cloud'[j] /\ Ends(action)' => GreenEnding'
    BY DEF GreenEnding, Ends
  <2>6. QED
    BY <2>1, <2>2, <2>3, <2>4, <2>5
<1>7. CASE phase_elapsed_s < MaxGreen
  BY <1>2, <1>3, <1>4, <1>5, <1>7, ConstantFacts DEF GreenEnding
<1>8. CASE /\ phase_elapsed_s + ToControl <= GreenLimit
           /\ disturbed + 1 <= disturbed'
  BY <1>1, <1>2, <1>3, <1>4, <1>5, <1>8, ConstantFacts DEF GreenEnding
<1>9. CASE /\ phase_elapsed_s + ToControl <= GreenLimit
           /\ disturbed' = disturbed /\ n = 0
           /\ phase_elapsed_s >= MaxGreen /\ target # current_green
  <2>1. phase_elapsed_s >= MinGreen
    BY <1>3, <1>9, ConstantFacts
  <2>2. Accepts(target)
    BY <1>1, <1>9, <2>1 DEF Accepts, transitioning
  <2>3. PICK delay \in 1 .. MaxDelay :
          pending_cloud' = Append(pending_cloud, [due |-> delay, target |-> target])
    BY <1>3, <1>4, <1>9, <2>2 DEF Issue
  <2>4. [due |-> delay, target |-> target] \in Action
    BY ConstantFacts DEF Action
  <2>5. /\ Len(pending_cloud) + 1 \in DOMAIN pending_cloud'
        /\ pending_cloud'[Len(pending_cloud) + 1] = [due |-> delay, target |-> target]
    BY <1>3, <2>3, <2>4
  <2>6. phase_elapsed_s + delay <= GreenLimit' + MaxDelay
    <3>1. phase_elapsed_s <= GreenLimit
      BY <1>1, <1>3, <1>9
    <3>2. delay \in Nat /\ MaxDelay \in Nat /\ delay <= MaxDelay
      BY ConstantFacts
    <3>3. phase_elapsed_s \in Nat /\ GreenLimit \in Nat /\ GreenLimit' \in Nat
          /\ GreenLimit <= GreenLimit'
      BY <1>3, <1>5
    <3>4. phase_elapsed_s + delay <= GreenLimit + MaxDelay
      BY <3>1, <3>2, <3>3
    <3>5. \A g \in Nat : GreenLimit <= g => phase_elapsed_s + delay <= g + MaxDelay
      BY <3>2, <3>3, <3>4
    <3>6. QED
      BY <3>3, <3>5
  <2>7. QED
    BY <1>4, <1>9, <2>1, <2>5, <2>6 DEF GreenEnding, Ends
<1>10. QED
  BY <1>1, <1>3, <1>6, <1>7, <1>8, <1>9, ConstantFacts DEF GreenEnding

(* A control step that is not disturbed, finds no lit lane overdue and     *)
(* that the green has lasted long enough asks for another phase.           *)
LEMMA ControlEnds ==
  ASSUME JInv, GreenEnding, MaxGreen >= 1, \E k \in Green : k # 0,
         Control \/ ControlBlind \/ ControlMasked
  PROVE  GreenEnding'
<1>1. /\ Decides /\ current_green \in Green /\ stage = "green" /\ phase_elapsed_s \in Nat
      /\ ~transitioning
  BY ControlIssues DEF JInv, IInv, TypeOK, Decides, transitioning
<1>2. PICK n \in Nat : n = Cardinality(Stuck)
  BY <1>1, StuckFacts
<1>3. CASE ControlBlind \/ ControlMasked
  <2>1. \E target \in Green : Issue(target, n + 1)
    BY <1>1, <1>2, <1>3, PlanIssues DEF ControlBlind, ControlMasked
  <2>2. n + 1 \in Nat /\ n + 1 >= 1
    BY <1>2
  <2>3. QED
    BY <1>1, <2>1, <2>2, IssueEnds
<1>4. CASE Control
  <2>1. PICK lane \in Longest(Seen({})) :
          \/ Overdue(lane, Seen({})) /\ Issue(FirstServing(lane), n)
          \/ /\ phase_elapsed_s >= MaxGreen
             /\ \E target \in OtherTargets[current_green] : Issue(target, n)
          \/ phase_elapsed_s < MaxGreen /\ \E target \in Planned : Issue(target, n)
    BY <1>2, <1>4 DEF Control, Plan
  <2>2. CASE Overdue(lane, Seen({})) /\ Issue(FirstServing(lane), n)
    <3>1. lane \in InLanes /\ waits[lane] >= MaxApproachWait
      BY <2>2 DEF Overdue, Seen
    <3>2. FirstServing(lane) \in Green /\ lane \in Served(FirstServing(lane))
      BY <3>1, ServingChosen
    <3>3. CASE FirstServing(lane) = current_green /\ phase_elapsed_s >= MaxGreen
      <4>1. lane \in Stuck
        BY <1>1, <3>1, <3>2, <3>3, ConstantFacts DEF Stuck
      <4>2. n >= 1
        BY <1>1, <1>2, <4>1, StuckFacts, FS_EmptySet
      <4>3. QED
        BY <1>1, <2>2, <3>2, <4>2, IssueEnds
    <3>4. CASE FirstServing(lane) # current_green \/ phase_elapsed_s < MaxGreen
      BY <1>1, <2>2, <3>2, <3>4, IssueEnds
    <3>5. QED
      BY <1>1, <3>3, <3>4, ConstantFacts
  <2>3. CASE \E target \in OtherTargets[current_green] : Issue(target, n)
    <3>1. Green # {current_green}
      BY PhaseFacts
    <3>2. \E target \in Green : target # current_green /\ Issue(target, n)
      BY <1>1, <2>3, <3>1, TargetsAreGreens
    <3>3. QED
      BY <1>1, <3>2, IssueEnds
  <2>4. CASE phase_elapsed_s < MaxGreen /\ \E target \in Planned : Issue(target, n)
    BY <1>1, <2>4, TargetsAreGreens, IssueEnds
  <2>5. QED
    BY <2>1, <2>2, <2>3, <2>4
<1>5. QED
  BY <1>3, <1>4

LEMMA ArriveEnds ==
  ASSUME JInv, GreenEnding, Arrive
  PROVE  GreenEnding'
<1> SUFFICES ASSUME stage' = "green" PROVE GreenEnding'
  BY DEF GreenEnding
<1>1. at = "arrival" /\ Due # {} /\ UNCHANGED <<arm, at, tick, waits, uplink, disturbed>>
  BY DEF Arrive
<1>2. PICK first \in 1 .. Len(pending_cloud) :
        /\ Request(pending_cloud[first].target)
           \/ (~Accepts(pending_cloud[first].target) /\ UNCHANGED vars)
        /\ pending_cloud' = SubSeq(pending_cloud, 1, first - 1)
                              \o SubSeq(pending_cloud, first + 1, Len(pending_cloud))
  BY FirstDue DEF Arrive, RemoveAt, JInv, OnTheWay
<1>3. /\ ~Accepts(pending_cloud[first].target) /\ stage = "green"
      /\ UNCHANGED <<stage, current_green, phase_elapsed_s>>
  BY <1>2 DEF Request, vars, control
<1>4. ToControl' = ToControl /\ GreenLimit' = GreenLimit
  BY <1>1 DEF ToControl, GreenLimit
<1>5. CASE phase_elapsed_s + ToControl <= GreenLimit
  BY <1>3, <1>4, <1>5 DEF GreenEnding
<1>6. CASE \E i \in DOMAIN pending_cloud : Ends(pending_cloud[i])
  <2>1. PICK i \in DOMAIN pending_cloud : Ends(pending_cloud[i])
    BY <1>6
  <2>2. i # first
    BY <1>3, <2>1 DEF Ends, Accepts, transitioning
  <2>3. pending_cloud \in Seq(Action) /\ i \in 1 .. Len(pending_cloud)
    BY <2>1 DEF JInv, OnTheWay
  <2>4. \E j \in DOMAIN pending_cloud' : pending_cloud'[j] = pending_cloud[i]
    <3> DEFINE front == SubSeq(pending_cloud, 1, first - 1)
               back == SubSeq(pending_cloud, first + 1, Len(pending_cloud))
    <3>1. /\ front \in Seq(Action) /\ Len(front) = first - 1
          /\ \A j \in 1 .. first - 1 : front[j] = pending_cloud[j]
      BY <1>2, <2>3
    <3>2. /\ back \in Seq(Action) /\ Len(back) = Len(pending_cloud) - first
          /\ \A j \in 1 .. Len(pending_cloud) - first : back[j] = pending_cloud[first + j]
      BY <1>2, <2>3
    <3>3. pending_cloud' = front \o back /\ Len(pending_cloud) \in Nat
      BY <1>2, <2>3
    <3> HIDE DEF front, back
    <3>4. CASE i < first
      <4>1. i \in 1 .. Len(front) /\ i \in DOMAIN (front \o back)
        BY <2>3, <3>1, <3>2, <3>4
      <4>2. (front \o back)[i] = front[i]
        BY <3>1, <3>2, <4>1
      <4>3. QED
        BY <2>3, <3>1, <3>3, <3>4, <4>1, <4>2
    <3>5. CASE i > first
      <4>1. /\ i - 1 \in DOMAIN (front \o back) /\ i - 1 > Len(front)
            /\ i - 1 - Len(front) = i - first /\ i - first \in 1 .. Len(pending_cloud) - first
        BY <2>3, <3>1, <3>2, <3>5
      <4>2. (front \o back)[i - 1] = back[i - first]
        BY <3>1, <3>2, <4>1, SMTT(30)
      <4>3. back[i - first] = pending_cloud[first + (i - first)] /\ first + (i - first) = i
        BY <2>3, <3>2, <4>1
      <4>4. QED
        BY <3>3, <4>1, <4>2, <4>3
    <3>6. QED
      BY <2>2, <2>3, <3>4, <3>5
  <2>5. PICK action \in Action : action = pending_cloud[i]
    BY <2>3
  <2>6. Ends(action)'
    BY <1>3, <1>4, <2>1, <2>5 DEF Ends
  <2>7. QED
    BY <2>4, <2>5, <2>6 DEF GreenEnding, Ends
<1>7. QED
  BY <1>3, <1>5, <1>6 DEF GreenEnding

LEMMA SecondEnds ==
  ASSUME JInv, GreenEnding, Second
  PROVE  GreenEnding'
<1> SUFFICES ASSUME stage' = "green" PROVE GreenEnding'
  BY DEF GreenEnding
<1>1. ToControl \in Nat /\ ToControl >= 1 /\ ToControl' = ToControl - 1
  BY ToControlOfSecond
<1>2. /\ GreenLimit' = GreenLimit /\ GreenLimit' \in Nat
      /\ GreenLimit' >= MaxGreen + ControlInterval - 1
  <2>1. disturbed' = disturbed /\ disturbed \in Nat
    BY DEF Second, JInv, LoopTyped
  <2>2. QED
    BY <2>1, LimitGrows DEF GreenLimit
<1>3. CASE stage = "green"
  <2>1. /\ current_green' = current_green
        /\ phase_elapsed_s \in Nat /\ phase_elapsed_s' \in Nat
        /\ phase_elapsed_s <= phase_elapsed_s' /\ phase_elapsed_s' <= phase_elapsed_s + 1
    BY <1>3, SecondOfStage
  <2>2. CASE phase_elapsed_s + ToControl <= GreenLimit
    <3>1. \A e, f, t, g \in Nat :
            f <= e + 1 /\ t >= 1 /\ e + t <= g => f + (t - 1) <= g
      OBVIOUS
    <3>2. phase_elapsed_s' + (ToControl - 1) <= GreenLimit
      BY <1>1, <1>2, <2>1, <2>2, <3>1
    <3>3. QED
      BY <1>1, <1>2, <3>2 DEF GreenEnding
  <2>3. CASE \E i \in DOMAIN pending_cloud : Ends(pending_cloud[i])
    <3>1. PICK i \in DOMAIN pending_cloud : Ends(pending_cloud[i])
      BY <2>3
    <3>2. /\ i \in DOMAIN pending_cloud'
          /\ pending_cloud'[i].target = pending_cloud[i].target
          /\ pending_cloud'[i].due = pending_cloud[i].due - 1
      BY <3>1, SecondCounts
    <3>3. pending_cloud[i].due \in Nat
      BY <3>1, ActionOfList, ConstantFacts DEF JInv, OnTheWay
    <3>4. /\ pending_cloud'[i].target # current_green' /\ phase_elapsed_s' >= MinGreen
          /\ phase_elapsed_s' + pending_cloud'[i].due <= GreenLimit' + MaxDelay
      BY <1>2, <2>1, <3>1, <3>2, <3>3, ConstantFacts DEF Ends
    <3>5. QED
      BY <3>2, <3>4 DEF GreenEnding, Ends
  <2>4. QED
    BY <1>3, <2>2, <2>3 DEF GreenEnding
<1>4. CASE stage # "green"
  <2>1. phase_elapsed_s' = 0
    BY <1>4, SecondOfStage
  <2>2. ToControl' <= ControlInterval - 1
    BY <1>1, ConstantFacts DEF ToControl, JInv, LoopTyped
  <2>3. QED
    BY <1>1, <1>2, <2>1, <2>2, ConstantFacts DEF GreenEnding
<1>5. QED
  BY <1>3, <1>4

LEMMA GreenEndingNext ==
  ASSUME MaxGreen >= 1, \E k \in Green : k # 0,
         JInv, GreenEnding, [JunctionNext]_junctionVars
  PROVE  GreenEnding'
<1>1. CASE Report
  BY <1>1 DEF Report, vars, control, GreenEnding, ToControl, GreenLimit, Ends
<1>2. CASE NoControl
  BY <1>2 DEF NoControl, vars, control, GreenEnding, ToControl, GreenLimit, Ends,
              transitioning
<1>3. CASE Control \/ ControlBlind \/ ControlMasked
  BY <1>3, ControlEnds
<1>4. CASE Arrive
  BY <1>4, ArriveEnds
<1>5. CASE NoneArrived
  BY <1>5 DEF NoneArrived, vars, control, GreenEnding, ToControl, GreenLimit, Ends
<1>6. CASE Second
  BY <1>6, SecondEnds
<1>7. CASE UNCHANGED junctionVars
  BY <1>7 DEF junctionVars, loop, vars, control, GreenEnding, ToControl, GreenLimit, Ends
<1>8. QED
  BY <1>1, <1>2, <1>3, <1>4, <1>5, <1>6, <1>7 DEF JunctionNext

(* On a junction with more than one phase, the maximum green ends every    *)
(* green at a control step, under every arm and whatever the traffic does: *)
(* a green lasts no longer than that, the way of an action from the cloud  *)
(* and an interval for every disturbance and for every lit lane that a     *)
(* control step found overdue.                                             *)
THEOREM GreensEnd ==
  ASSUME MaxGreen >= 1, \E k \in Green : k # 0
  PROVE  JunctionSpec => []GreenEnds
<1>1. JunctionInit => GreenEnding
  <2> SUFFICES ASSUME JunctionInit PROVE GreenEnding
    OBVIOUS
  <2>1. phase_elapsed_s = 0 /\ tick = 0 /\ at \in {"report", "control"} /\ disturbed = 0
    BY DEF JunctionInit, Init, Begin
  <2>2. ToControl = 0 /\ GreenLimit = MaxGreen + ControlInterval - 1
    BY <2>1, ConstantFacts DEF ToControl, GreenLimit
  <2>3. QED
    BY <2>1, <2>2, ConstantFacts DEF GreenEnding
<1>2. JInv /\ GreenEnding /\ [JunctionNext]_junctionVars => GreenEnding'
  BY GreenEndingNext
<1>3. JInv /\ GreenEnding => GreenEnds
  <2> SUFFICES ASSUME JInv, GreenEnding, stage = "green"
               PROVE  phase_elapsed_s < MaxGreen + ControlInterval + Transit
                                          + disturbed * ControlInterval
    BY DEF GreenEnds
  <2>1. /\ phase_elapsed_s \in Nat /\ disturbed \in Nat /\ tick \in 0 .. ControlInterval - 1
    BY DEF JInv, IInv, TypeOK, LoopTyped
  <2>2. disturbed * ControlInterval \in Nat
    BY <2>1, ConstantFacts, Products
  <2>3. CASE phase_elapsed_s + ToControl <= GreenLimit
    <3>1. ToControl \in Nat /\ Transit \in Nat
      BY <2>1, ConstantFacts DEF ToControl, Transit
    <3>2. QED
      BY <2>1, <2>2, <2>3, <3>1, ConstantFacts DEF GreenLimit
  <2>4. CASE \E i \in DOMAIN pending_cloud : Ends(pending_cloud[i])
    <3>1. PICK i \in DOMAIN pending_cloud : Ends(pending_cloud[i])
      BY <2>4
    <3>2. pending_cloud[i].due \in Nat
      BY <3>1, ActionOfList, ConstantFacts DEF JInv, OnTheWay
    <3>3. Transit = MaxDelay
      BY <3>1 DEF JInv, OnTheWay, Transit
    <3>4. QED
      BY <2>1, <2>2, <3>1, <3>2, <3>3, ConstantFacts DEF Ends, GreenLimit
  <2>5. QED
    BY <2>3, <2>4 DEF GreenEnding
<1>4. QED
  BY <1>1, <1>2, <1>3, Typed, PTL DEF JunctionSpec

-----------------------------------------------------------------------------
(* Waits are bounded. *)

(* The phase that is shown, or that the transition leads to. *)
Destination == IF transitioning THEN pending_green ELSE current_green
Promised == Served(Destination)

(* Seconds until another one may be asked for. *)
UntilReady ==
  IF transitioning THEN Clearance - ClearedSeconds + MinGreen
  ELSE IF phase_elapsed_s < MinGreen THEN MinGreen - phase_elapsed_s ELSE 0

(* A control step is due in s seconds, when the executor will accept.      *)
Chance(s) ==
  /\ s \in 0 .. Turn /\ s >= UntilReady
  /\ (tick + s) % ControlInterval = 0
  /\ at = "second" => s >= 1

(* The lanes that have waited x seconds or more and are not promised their *)
(* turn yet: each of them may be served before any of those lanes again.   *)
Ahead(x) == {m \in InLanes \ Promised : waits[m] >= x}
Waited(x) == \E l \in InLanes : waits[l] >= x

NextChance == \E s \in Nat : Chance(s)

(* At every level that a wait has reached there is time left for a turn of *)
(* each lane that is ahead.                                                *)
Ranked ==
  \A x \in Nat : Waited(x) =>
    \E s \in Nat : Chance(s) /\ x + s + Cardinality(Ahead(x)) * Turn <= WaitLimit

(* Control steps of an arm that decides at the junction. *)
LocalArm == arm # "cloud_maxpressure" /\ at \in {"control", "second"} /\ MinGreen >= 1

LEMMA Shifted ==
  ASSUME NEW p \in Nat, NEW n \in Nat \ {0}
  PROVE  (p + n) % n = p % n
<1> DEFINE q == p \div n
           k == (p + n) \div n
           r == p % n
           t == (p + n) % n
<1>1. /\ p = n * q + r /\ p + n = n * k + t
      /\ q \in Nat /\ k \in Nat /\ r \in 0 .. n - 1 /\ t \in 0 .. n - 1
  BY SMT
<1> HIDE DEF q, k, r, t
<1>2. n * k + t = n * (q + 1) + r
  BY <1>1, SMT
<1>3. ~(k < q + 1) /\ ~(q + 1 < k)
  BY <1>1, <1>2, SMT
<1>4. k = q + 1
  BY <1>1, <1>3, SMT
<1>5. r = t
  BY <1>1, <1>2, <1>4, SMT
<1>6. QED
  BY <1>5 DEF r, t

(* A turn takes a transition and a minimum green, and ends when a control  *)
(* step is due.                                                            *)
LEMMA TurnFacts ==
  LocalArm => /\ Turn \in Nat /\ Turn >= Clearance + MinGreen
              /\ Clearance \in Nat /\ Clearance >= 1
              /\ Turn >= ControlInterval /\ Turn % ControlInterval = 0
<1> SUFFICES ASSUME LocalArm
             PROVE  /\ Turn \in Nat /\ Turn >= Clearance + MinGreen
                    /\ Clearance \in Nat /\ Clearance >= 1
                    /\ Turn >= ControlInterval /\ Turn % ControlInterval = 0
  OBVIOUS
<1>1. Clearance \in Nat /\ Clearance >= 1 /\ Clearance + MinGreen \in Nat
  BY ClearanceFacts, ConstantFacts
<1>2. Turn = Intervals(Clearance + MinGreen)
  BY <1>1, IntervalFacts DEF Turn
<1>3. /\ Turn \in Nat /\ Turn >= Clearance + MinGreen /\ Turn % ControlInterval = 0
  BY <1>1, <1>2, IntervalFacts
<1>4. Turn >= ControlInterval
  <2>1. ASSUME NEW x \in Nat, NEW c \in Nat, x >= 1, x < c PROVE x % c = x
    BY <2>1, SMT
  <2>2. Turn >= 1 /\ Turn # 0
    BY <1>1, <1>3, ConstantFacts
  <2>3. QED
    BY <1>3, <2>1, <2>2, ConstantFacts
<1>5. QED
  BY <1>1, <1>3, <1>4

LEMMA DestinationFacts ==
  JInv => /\ Destination \in Green
          /\ Promised \subseteq InLanes /\ Promised # {}
BY LanesFinite DEF JInv, IInv, TypeOK, Stages, Destination, Promised

AheadBounded ==
  \A x \in Nat : /\ Ahead(x) \subseteq InLanes /\ IsFiniteSet(Ahead(x))
                 /\ Cardinality(Ahead(x)) \in Nat
                 /\ Cardinality(Ahead(x)) + 1 <= Cardinality(InLanes)

LEMMA AheadFacts == JInv => AheadBounded
<1> SUFFICES ASSUME JInv, NEW x \in Nat
             PROVE  /\ Ahead(x) \subseteq InLanes /\ IsFiniteSet(Ahead(x))
                    /\ Cardinality(Ahead(x)) \in Nat
                    /\ Cardinality(Ahead(x)) + 1 <= Cardinality(InLanes)
  BY DEF AheadBounded
<1>1. PICK l \in Promised : l \in InLanes
  BY DestinationFacts
<1>2. /\ IsFiniteSet(InLanes \ {l})
      /\ Cardinality(InLanes \ {l}) = Cardinality(InLanes) - 1
  BY <1>1, LanesFinite, FS_RemoveElement
<1>3. Ahead(x) \in SUBSET (InLanes \ {l})
  BY <1>1 DEF Ahead
<1>4. /\ IsFiniteSet(Ahead(x))
      /\ Cardinality(Ahead(x)) <= Cardinality(InLanes \ {l})
  BY <1>2, <1>3, FS_Subset
<1>5. Cardinality(Ahead(x)) \in Nat
  BY <1>4, FS_CardinalityType
<1>6. QED
  BY <1>2, <1>3, <1>4, <1>5, ConstantFacts

LEMMA LimitFacts ==
  JInv /\ LocalArm =>
    /\ WaitLimit \in Nat
    /\ Cardinality(InLanes) * Turn \in Nat
    /\ MaxApproachWait + Cardinality(InLanes) * Turn <= WaitLimit
<1> SUFFICES ASSUME JInv, LocalArm
             PROVE  /\ WaitLimit \in Nat
                    /\ Cardinality(InLanes) * Turn \in Nat
                    /\ MaxApproachWait + Cardinality(InLanes) * Turn <= WaitLimit
  OBVIOUS
<1>1. PICK n \in Nat, t \in Nat, d \in Nat :
        n = Cardinality(InLanes) /\ t = Turn /\ d = disturbed
  BY TurnFacts, ConstantFacts DEF JInv, LoopTyped
<1>2. PICK a \in Nat, b \in Nat : a = n * t /\ b = (n + d) * t
  BY Products
<1>3. a <= b
  BY <1>1, <1>2, Scaled
<1>4. WaitLimit = MaxApproachWait + b
  BY <1>1, <1>2 DEF WaitLimit
<1>5. QED
  BY <1>1, <1>2, <1>3, <1>4, ConstantFacts

(* Every disturbance adds a turn. *)
LEMMA LimitWidens ==
  ASSUME JInv, LocalArm, NEW n \in Nat, disturbed' = disturbed + n
  PROVE  /\ Turn' = Turn /\ WaitLimit' \in Nat
         /\ n * Turn \in Nat /\ WaitLimit' = WaitLimit + n * Turn
<1>1. Turn' = Turn
  BY DEF Turn
<1>2. PICK c \in Nat, t \in Nat, d \in Nat :
        c = Cardinality(InLanes) /\ t = Turn /\ d = disturbed
  BY TurnFacts, ConstantFacts DEF JInv, LoopTyped
<1>3. PICK a \in Nat, b \in Nat : a = (c + d) * t /\ b = n * t
  BY Products
<1>4. (c + (d + n)) * t = a + b
  BY <1>3, SMT
<1>5. WaitLimit = MaxApproachWait + a /\ WaitLimit' = MaxApproachWait + (a + b)
  BY <1>1, <1>2, <1>3, <1>4 DEF WaitLimit
<1>6. QED
  BY <1>1, <1>2, <1>3, <1>5, ConstantFacts

(* Until the override looks at a wait there are turns to spare. *)
LEMMA Fresh ==
  JInv /\ LocalArm =>
    \A x \in Nat : \A s \in Nat :
      x <= MaxApproachWait /\ Chance(s) =>
        x + s + Cardinality(Ahead(x)) * Turn <= WaitLimit
<1> SUFFICES ASSUME JInv, LocalArm, NEW x \in Nat, NEW s \in Nat,
                    x <= MaxApproachWait, Chance(s)
             PROVE  x + s + Cardinality(Ahead(x)) * Turn <= WaitLimit
  OBVIOUS
<1>1. PICK t \in Nat, c \in Nat, n \in Nat :
        t = Turn /\ c = Cardinality(Ahead(x)) /\ n = Cardinality(InLanes) /\ c + 1 <= n
  BY TurnFacts, AheadFacts, ConstantFacts DEF AheadBounded
<1>2. s <= t
  BY <1>1 DEF Chance
<1>3. PICK y \in Nat, z \in Nat : y = c * t /\ z = n * t
  BY Products
<1>4. y + t <= z
  BY <1>1, <1>3, Scaled
<1>5. MaxApproachWait + z <= WaitLimit /\ WaitLimit \in Nat
  BY <1>1, <1>3, LimitFacts
<1>6. x + s + y <= WaitLimit
  BY <1>2, <1>4, <1>5, ConstantFacts
<1>7. QED
  BY <1>1, <1>3, <1>6

LEMMA UntilFacts ==
  JInv /\ LocalArm =>
    /\ UntilReady \in 0 .. Turn
    /\ UntilReady = 0 => ~transitioning
    /\ ~transitioning => /\ phase_elapsed_s \in Nat
                         /\ UntilReady = 0 <=> phase_elapsed_s >= MinGreen
<1> SUFFICES ASSUME JInv, LocalArm
             PROVE  /\ UntilReady \in 0 .. Turn
                    /\ UntilReady = 0 => ~transitioning
                    /\ ~transitioning => /\ phase_elapsed_s \in Nat
                                         /\ UntilReady = 0 <=> phase_elapsed_s >= MinGreen
  OBVIOUS
<1>1. /\ Clearance \in Nat /\ Turn \in Nat /\ Turn >= Clearance + MinGreen /\ MinGreen >= 1
      /\ MinGreen \in Nat /\ phase_elapsed_s \in Nat
  BY TurnFacts, ConstantFacts DEF LocalArm, JInv, IInv, TypeOK
<1>2. CASE transitioning
  <2>1. ClearedSeconds \in 0 .. Clearance - 1
    BY <1>2, ClearanceFacts, TimingAssumption
    DEF JInv, IInv, TypeOK, Stages, ClearedSeconds, transitioning
  <2>2. QED
    BY <1>1, <1>2, <2>1 DEF UntilReady
<1>3. CASE ~transitioning
  BY <1>1, <1>3 DEF UntilReady
<1>4. QED
  BY <1>2, <1>3

InTime == NextChance /\ Ranked

LEMMA SameExecutor ==
  ASSUME UNCHANGED vars
  PROVE  /\ Promised' = Promised /\ UntilReady' = UntilReady
         /\ waits' = waits => \A x \in Nat : Ahead(x)' = Ahead(x)
BY DEF vars, control, Promised, Destination, UntilReady, transitioning, ClearedSeconds,
   Ahead

(* Nothing happens to the executor and the waits, and no chance is lost.   *)
LEMMA QuietInTime ==
  ASSUME JInv, LocalArm, InTime, UNCHANGED <<vars, waits>>,
         NEW n \in Nat, disturbed' = disturbed + n,
         \A s \in Nat : Chance(s) => Chance(s)'
  PROVE  InTime'
<1>1. /\ Turn' = Turn /\ WaitLimit \in Nat /\ WaitLimit' \in Nat /\ WaitLimit <= WaitLimit'
  BY LimitWidens, LimitFacts
<1>2. \A x \in Nat : Ahead(x)' = Ahead(x)
  BY SameExecutor
<1>3. NextChance'
  BY DEF InTime, NextChance
<1>4. Ranked'
  <2> SUFFICES ASSUME NEW x \in Nat, Waited(x)
               PROVE  \E s \in Nat : Chance(s)' /\
                        x + s + Cardinality(Ahead(x)) * Turn <= WaitLimit'
    BY <1>1, <1>2 DEF Ranked, Waited
  <2>1. PICK s \in Nat : Chance(s) /\ x + s + Cardinality(Ahead(x)) * Turn <= WaitLimit
    BY DEF InTime, Ranked
  <2>2. PICK y \in Nat : y = Cardinality(Ahead(x)) * Turn
    BY AheadFacts, TurnFacts, Products DEF AheadBounded
  <2>3. x + s + y <= WaitLimit'
    BY <1>1, <2>1, <2>2
  <2>4. QED
    BY <2>1, <2>2, <2>3
<1>5. QED
  BY <1>3, <1>4 DEF InTime

(* A control step counts the lit lanes that are overdue and, undisturbed   *)
(* otherwise, asks for a phase that serves a lane that waits longest, when *)
(* that is too long.                                                       *)
ServesLongest(target) ==
  \A l \in InLanes : waits[l] > MaxApproachWait =>
    \E m \in Served(target) \cap InLanes : waits[m] >= waits[l]

LEMMA ControlServes ==
  ASSUME JInv, Control \/ ControlBlind \/ ControlMasked
  PROVE  \E target \in Green, n \in Nat :
           /\ Issue(target, n)
           /\ \/ n = Cardinality(Stuck) + 1
              \/ n = Cardinality(Stuck) /\ ServesLongest(target)
<1>1. current_green \in Green /\ \A l \in InLanes : waits[l] \in Nat
  BY ConstantFacts DEF JInv, IInv, TypeOK, LoopTyped
<1>2. PICK stuck \in Nat : stuck = Cardinality(Stuck)
  BY <1>1, StuckFacts
<1>3. CASE ControlBlind \/ ControlMasked
  <2>1. \E target \in Green : Issue(target, stuck + 1)
    BY <1>1, <1>2, <1>3, PlanIssues DEF ControlBlind, ControlMasked
  <2>2. QED
    BY <1>2, <2>1
<1>4. CASE Control
  <2>1. Plan(Seen({}), stuck)
    BY <1>2, <1>4 DEF Control
  <2>2. PICK target \in Green : Issue(target, stuck) /\ ServesLongest(target)
    <3>1. PICK lane \in Longest(Seen({})) :
            \/ Overdue(lane, Seen({})) /\ Issue(FirstServing(lane), stuck)
            \/ ~Overdue(lane, Seen({})) /\
               \/ \E target \in OtherTargets[current_green] : Issue(target, stuck)
               \/ \E target \in Planned : Issue(target, stuck)
      BY <2>1 DEF Plan
    <3>2. /\ lane \in InLanes \cup OutLanes
          /\ \A m \in InLanes : Seen({})[m] <= Seen({})[lane] /\ Seen({})[m] = waits[m]
          /\ lane \in InLanes => Seen({})[lane] = waits[lane]
          /\ lane \notin InLanes => Seen({})[lane] = 0
      BY DEF Longest, Seen
    <3>3. CASE Overdue(lane, Seen({})) /\ Issue(FirstServing(lane), stuck)
      <4>1. lane \in InLanes
        BY <3>3 DEF Overdue
      <4>2. FirstServing(lane) \in Green /\ lane \in Served(FirstServing(lane))
        BY <4>1, ServingChosen
      <4>3. \A l \in InLanes : waits[lane] >= waits[l]
        BY <1>1, <3>2, <4>1
      <4>4. QED
        BY <3>3, <4>1, <4>2, <4>3 DEF ServesLongest
    <3>4. CASE ~Overdue(lane, Seen({}))
      <4>1. \A l \in InLanes : ~(waits[l] > MaxApproachWait)
        <5>1. CASE lane \in InLanes
          <6>1. ~(waits[lane] >= MaxApproachWait)
            BY <3>2, <3>4, <5>1 DEF Overdue
          <6>2. \A l \in InLanes : waits[l] <= waits[lane]
            BY <3>2, <5>1
          <6>3. QED
            BY <1>1, <5>1, <6>1, <6>2, ConstantFacts
        <5>2. CASE lane \notin InLanes
          BY <1>1, <3>2, <5>2, ConstantFacts
        <5>3. QED
          BY <5>1, <5>2
      <4>2. \A target \in Green : ServesLongest(target)
        BY <4>1 DEF ServesLongest
      <4>3. \E target \in Green : Issue(target, stuck)
        BY <1>1, <2>1, PlanIssues
      <4>4. QED
        BY <4>2, <4>3
    <3>5. QED
      BY <3>1, <3>3, <3>4
  <2>3. QED
    BY <1>2, <2>2
<1>5. QED
  BY <1>3, <1>4

(* The facts about a state, after a step. *)
LEMMA FactsAfter ==
  ASSUME JInv', LocalArm'
  PROVE  /\ \A x \in Nat : /\ Ahead(x)' \subseteq InLanes /\ IsFiniteSet(Ahead(x)')
                          /\ Cardinality(Ahead(x)') \in Nat
         /\ Turn' \in Nat /\ WaitLimit' \in Nat /\ UntilReady' \in 0 .. Turn'
         /\ \A x \in Nat : \A s \in Nat :
              x <= MaxApproachWait /\ Chance(s)' =>
                x + s + Cardinality(Ahead(x)') * Turn' <= WaitLimit'
<1>1. AheadBounded'
  BY AheadFacts, PTL
<1>2. (Turn \in Nat)'
  BY TurnFacts, PTL
<1>3. (WaitLimit \in Nat)'
  BY LimitFacts, PTL
<1>4. (UntilReady \in 0 .. Turn)'
  BY UntilFacts, PTL
<1>5. (\A x \in Nat : \A s \in Nat :
      x <= MaxApproachWait /\ Chance(s) =>
        x + s + Cardinality(Ahead(x)) * Turn <= WaitLimit)'
  BY Fresh, PTL
<1>6. QED
  BY <1>1, <1>2, <1>3, <1>4, <1>5 DEF AheadBounded

(* A phase is granted: the lanes that were promised their turn and are     *)
(* overdue still are lit, so stuck, and the limit has grown by a turn for  *)
(* each; the others are ahead as before, but for those the phase serves.   *)
LEMMA AcceptedInTime ==
  ASSUME JInv, LocalArm, InTime, JInv', LocalArm', Decides,
         NEW target \in Green, NEW n \in Nat, Issue(target, n), Accepts(target),
         n = Cardinality(Stuck) + 1 \/ (n = Cardinality(Stuck) /\ ServesLongest(target))
  PROVE  InTime'
<1>1. /\ tick = 0 /\ phase_elapsed_s \in Nat /\ phase_elapsed_s >= MinGreen
      /\ phase_elapsed_s > 0 /\ ~transitioning /\ current_green \in Green
  BY ConstantFacts DEF Decides, Accepts, transitioning, LocalArm, JInv, IInv, TypeOK
<1>2. /\ Request(target) /\ at' = "second" /\ UNCHANGED <<arm, tick, waits>>
      /\ disturbed' = disturbed + n
  BY DEF Issue, LocalArm
<1>3. /\ transitioning' /\ pending_green' = target /\ ClearedSeconds' = 0
  BY <1>2, TimingAssumption DEF Request, transitioning, ClearedSeconds
<1>4. Promised' = Served(target) /\ UntilReady' = Clearance + MinGreen
  BY <1>3, ClearanceFacts, ConstantFacts DEF Promised, Destination, UntilReady
<1>5. /\ Turn' = Turn /\ Turn \in Nat /\ Turn >= Clearance + MinGreen
      /\ Turn % ControlInterval = 0 /\ Turn >= 1
      /\ WaitLimit \in Nat /\ WaitLimit' = WaitLimit + n * Turn
  BY <1>2, LimitWidens, LimitFacts, TurnFacts, ConstantFacts
<1>6. Chance(Turn)'
  <2>1. PICK t \in Nat : t = Turn
    BY <1>5
  <2>2. Chance(t)'
    BY <1>1, <1>2, <1>4, <1>5, <2>1 DEF Chance
  <2>3. QED
    BY <1>5, <2>1, <2>2 DEF Chance
<1>7. \A l \in InLanes : waits[l] \in Nat
  BY ConstantFacts DEF JInv, LoopTyped
<1>8. NextChance'
  BY <1>5, <1>6 DEF NextChance, Chance
<1>9. Ranked'
  <2> SUFFICES ASSUME NEW x \in Nat, Waited(x)
               PROVE  x + Turn + Cardinality(Ahead(x)') * Turn <= WaitLimit'
    BY <1>2, <1>5, <1>6 DEF Ranked, Waited, Chance
  <2>1. CASE x <= MaxApproachWait
    BY <1>5, <1>6, <2>1, FactsAfter
  <2>2. CASE x > MaxApproachWait
    <3>1. PICK s \in Nat, c \in Nat :
             /\ c = Cardinality(Ahead(x))
             /\ x + s + c * Turn <= WaitLimit
      BY AheadFacts DEF InTime, Ranked, AheadBounded
    <3>2. PICK k \in Nat : /\ k = Cardinality(Stuck) /\ IsFiniteSet(Stuck)
                           /\ Stuck \subseteq InLanes
      BY <1>1, StuckFacts
    <3> DEFINE both == Ahead(x) \cup Stuck
    <3>3. PICK b \in Nat : /\ b = Cardinality(both) /\ IsFiniteSet(both) /\ b <= c + k
      <4>1. IsFiniteSet(Ahead(x))
        BY AheadFacts DEF AheadBounded
      <4>2. /\ IsFiniteSet(both)
            /\ Cardinality(both) = c + k - Cardinality(Ahead(x) \cap Stuck)
        BY <3>1, <3>2, <4>1, FS_Union
      <4>3. Cardinality(Ahead(x) \cap Stuck) \in Nat /\ Cardinality(both) \in Nat
        BY <4>1, <4>2, FS_Intersection, FS_CardinalityType
      <4>4. QED
        BY <4>2, <4>3
    <3>4. \A m \in InLanes : waits[m] >= x => m \in both
      <4>1. ASSUME NEW m \in InLanes, waits[m] >= x, m \in Promised PROVE m \in Stuck
        <5>1. m \in Served(current_green)
          BY <1>1, <4>1 DEF Promised, Destination
        <5>2. waits[m] >= MaxApproachWait
          BY <1>7, <2>2, <4>1, ConstantFacts
        <5>3. QED
          BY <1>1, <5>1, <5>2 DEF Stuck
      <4>2. QED
        BY <4>1 DEF Ahead
    <3>5. \A m : m \in Ahead(x)' <=> m \in InLanes /\ m \notin Served(target) /\ waits[m] >= x
      BY <1>2, <1>4 DEF Ahead
    <3>6. PICK d \in Nat : d = Cardinality(Ahead(x)')
      BY FactsAfter
    <3>7. d + 1 <= c + n
      <4>1. CASE n = k + 1
        <5>1. Ahead(x)' \in SUBSET both
          BY <3>4, <3>5
        <5>2. d <= b
          BY <3>3, <3>6, <5>1, FS_Subset
        <5>3. QED
          BY <3>3, <4>1, <5>2
      <4>2. CASE ServesLongest(target) /\ n = k
        <5>1. PICK l \in InLanes : waits[l] >= x
          BY DEF Waited
        <5>2. waits[l] > MaxApproachWait
          BY <1>7, <2>2, <5>1, ConstantFacts
        <5>3. PICK m \in Served(target) \cap InLanes : waits[m] >= waits[l]
          BY <4>2, <5>2 DEF ServesLongest
        <5>4. waits[m] >= x
          BY <1>7, <5>1, <5>3
        <5>5. m \in both /\ m \notin Ahead(x)'
          BY <3>4, <3>5, <5>3, <5>4
        <5>6. Ahead(x)' \in SUBSET (both \ {m})
          BY <3>4, <3>5, <5>5
        <5> HIDE DEF both
        <5>7. IsFiniteSet(both \ {m}) /\ Cardinality(both \ {m}) = b - 1
          BY <3>3, <5>5, FS_RemoveElement
        <5>8. d <= b - 1
          BY <3>6, <5>6, <5>7, FS_Subset
        <5>9. QED
          BY <3>3, <4>2, <5>8
      <4>3. QED
        BY <3>2, <4>1, <4>2
    <3>8. PICK t \in Nat, y \in Nat, z \in Nat, w \in Nat :
             t = Turn /\ y = c * t /\ z = n * t /\ w = d * t
      BY <1>5, Products
    <3>9. w + t <= y + z
      <4>1. (c + n) * t = y + z
        BY <3>8, SMT
      <4>2. d * t + t <= (c + n) * t
        BY <3>7, Scaled
      <4>3. QED
        BY <3>8, <4>1, <4>2
    <3>10. x + s + y <= WaitLimit /\ WaitLimit' = WaitLimit + z
      BY <1>5, <3>1, <3>8
    <3>11. x + t + w <= WaitLimit'
      BY <1>5, <3>9, <3>10
    <3>12. QED
      BY <3>6, <3>8, <3>11
  <2>3. QED
    BY <2>1, <2>2, ConstantFacts
<1>10. QED
  BY <1>8, <1>9 DEF InTime

(* A phase is refused: the minimum green is not over, so this was no       *)
(* chance, or the phase is the one that is lit and, undisturbed, the lane  *)
(* it was asked for is stuck.                                              *)
LEMMA RefusedInTime ==
  ASSUME JInv, LocalArm, InTime, JInv', LocalArm', Decides,
         NEW target \in Green, NEW n \in Nat, Issue(target, n), ~Accepts(target),
         n = Cardinality(Stuck) + 1 \/ (n = Cardinality(Stuck) /\ ServesLongest(target))
  PROVE  InTime'
<1>1. /\ tick = 0 /\ phase_elapsed_s \in Nat /\ ~transitioning /\ current_green \in Green
  BY DEF Decides, transitioning, JInv, IInv, TypeOK
<1>2. /\ at' = "second" /\ UNCHANGED <<vars, arm, tick, waits>>
      /\ disturbed' = disturbed + n
  BY DEF Issue, Request, LocalArm
<1>3. /\ Turn' = Turn /\ Turn \in Nat /\ ControlInterval <= Turn
      /\ WaitLimit \in Nat /\ WaitLimit' = WaitLimit + n * Turn
  BY <1>2, LimitWidens, LimitFacts, TurnFacts
<1>4. /\ UntilReady' = UntilReady /\ \A x \in Nat : Ahead(x)' = Ahead(x)
  BY <1>2, SameExecutor
<1>5. UntilReady \in Nat /\ (UntilReady = 0 <=> phase_elapsed_s >= MinGreen)
  BY <1>1, <1>3, UntilFacts
<1>6. CASE phase_elapsed_s < MinGreen
  <2>1. UntilReady >= 1
    BY <1>1, <1>5, <1>6, ConstantFacts
  <2>2. ASSUME NEW s \in Nat, Chance(s) PROVE Chance(s)'
    BY <1>2, <1>3, <1>4, <1>5, <2>1, <2>2 DEF Chance
  <2>3. QED
    BY <1>2, <2>2, QuietInTime
<1>7. CASE phase_elapsed_s >= MinGreen
  <2>1. target = current_green /\ phase_elapsed_s > 0
    BY <1>1, <1>7, ConstantFacts DEF Accepts, LocalArm
  <2>2. Chance(ControlInterval)'
    <3>1. (0 + ControlInterval) % ControlInterval = 0
      BY ConstantFacts, SMT
    <3>2. UntilReady' = 0 /\ tick' = 0
      BY <1>1, <1>2, <1>4, <1>5, <1>7
    <3>3. QED
      BY <1>3, <3>1, <3>2, ConstantFacts DEF Chance
  <2>3. \A l \in InLanes : waits[l] \in Nat
    BY ConstantFacts DEF JInv, LoopTyped
  <2>4. NextChance'
    BY <2>2, ConstantFacts DEF NextChance
  <2>5. Ranked'
    <3> SUFFICES ASSUME NEW x \in Nat, Waited(x)
                 PROVE  x + ControlInterval + Cardinality(Ahead(x)) * Turn <= WaitLimit'
      BY <1>2, <1>3, <1>4, <2>2, ConstantFacts DEF Ranked, Waited
    <3>1. CASE x <= MaxApproachWait
      BY <1>3, <1>4, <2>2, <3>1, FactsAfter, ConstantFacts
    <3>2. CASE x > MaxApproachWait
      <4>1. PICK s \in Nat, y \in Nat :
               /\ y = Cardinality(Ahead(x)) * Turn
               /\ x + s + y <= WaitLimit
        BY <1>3, AheadFacts, Products DEF InTime, Ranked, AheadBounded
      <4>2. n >= 1
        <5>1. PICK k \in Nat : k = Cardinality(Stuck) /\ IsFiniteSet(Stuck)
          BY <1>1, StuckFacts
        <5>2. CASE n = k + 1
          BY <5>1, <5>2
        <5>3. CASE n = k /\ ServesLongest(target)
          <6>1. PICK l \in InLanes : waits[l] >= x
            BY DEF Waited
          <6>2. waits[l] > MaxApproachWait
            BY <2>3, <3>2, <6>1, ConstantFacts
          <6>3. PICK m \in Served(target) \cap InLanes : waits[m] >= waits[l]
            BY <5>3, <6>2 DEF ServesLongest
          <6>4. waits[m] >= MaxApproachWait
            BY <2>3, <6>1, <6>2, <6>3, ConstantFacts
          <6>5. m \in Stuck
            BY <1>1, <1>7, <2>1, <6>3, <6>4 DEF Stuck
          <6>6. QED
            BY <5>1, <5>3, <6>5, FS_EmptySet
        <5>4. QED
          BY <5>1, <5>2, <5>3
      <4>3. PICK z \in Nat : z = n * Turn /\ Turn <= z
        <5>1. PICK t \in Nat, z \in Nat : t = Turn /\ z = n * t
          BY <1>3, Products
        <5>2. 1 * t <= n * t /\ 1 * t = t
          BY <4>2, Scaled, SMT
        <5>3. QED
          BY <5>1, <5>2
      <4>4. x + ControlInterval + y <= WaitLimit'
        BY <1>3, <4>1, <4>3, ConstantFacts
      <4>5. QED
        BY <4>1, <4>4
    <3>3. QED
      BY <3>1, <3>2, ConstantFacts
  <2>6. QED
    BY <2>4, <2>5 DEF InTime
<1>8. QED
  BY <1>1, <1>6, <1>7, ConstantFacts

(* A second brings every chance a second closer. *)
LEMMA SecondUntil ==
  ASSUME JInv, LocalArm, Second
  PROVE  /\ Promised' = Promised
         /\ UntilReady \in Nat /\ UntilReady' \in Nat /\ UntilReady' <= UntilReady
         /\ UntilReady >= 1 => UntilReady' <= UntilReady - 1
<1>1. UntilReady \in Nat /\ MinGreen \in Nat /\ MinGreen >= 1 /\ Clearance \in Nat
  BY UntilFacts, TurnFacts, ConstantFacts
  DEF LocalArm
<1>2. CASE ~transitioning
  <2>1. /\ stage = "green" /\ stage' = "green" /\ ~transitioning'
        /\ current_green' = current_green
        /\ phase_elapsed_s \in Nat /\ phase_elapsed_s' \in Nat
        /\ phase_elapsed_s <= phase_elapsed_s' /\ phase_elapsed_s' <= phase_elapsed_s + 1
        /\ phase_elapsed_s < MinGreen => phase_elapsed_s' = phase_elapsed_s + 1
    BY <1>2, SecondOfStage DEF transitioning
  <2>2. Promised' = Promised
    BY <1>2, <2>1 DEF Promised, Destination
  <2>3. /\ UntilReady = IF phase_elapsed_s < MinGreen THEN MinGreen - phase_elapsed_s ELSE 0
        /\ UntilReady' = IF phase_elapsed_s' < MinGreen THEN MinGreen - phase_elapsed_s' ELSE 0
    BY <1>2, <2>1 DEF UntilReady
  <2>4. CASE phase_elapsed_s < MinGreen
    BY <1>1, <1>2, <2>1, <2>2, <2>3, <2>4
  <2>5. CASE ~(phase_elapsed_s < MinGreen)
    <3>1. \A e, f, g \in Nat : ~(e < g) /\ e <= f => ~(f < g)
      OBVIOUS
    <3>2. ~(phase_elapsed_s' < MinGreen)
      BY <1>1, <2>1, <2>5, <3>1
    <3>3. UntilReady = 0 /\ UntilReady' = 0
      BY <2>3, <2>5, <3>2
    <3>4. QED
      BY <1>2, <2>2, <3>3
  <2>6. QED
    BY <2>4, <2>5
<1>3. CASE transitioning
  <2>1. ClearedSeconds \in 0 .. Clearance - 1
    BY <1>3, ClearanceFacts, TimingAssumption
    DEF JInv, IInv, TypeOK, Stages, ClearedSeconds, transitioning
  <2>2. CASE StepWaits
    <3>1. /\ transitioning' /\ pending_green' = pending_green
          /\ stage_remaining_s > 1 /\ stage_remaining_s' = stage_remaining_s - 1
          /\ stage' = stage
      BY <2>2 DEF StepWaits, transitioning
    <3>2. ClearedSeconds + 1 < Clearance /\ ClearedSeconds' = ClearedSeconds + 1
      BY <1>3, <3>1, ClearanceFacts, TimingAssumption
      DEF JInv, IInv, TypeOK, Stages, ClearedSeconds, transitioning
    <3>3. QED
      BY <1>1, <1>3, <2>1, <3>1, <3>2 DEF UntilReady, Promised, Destination
  <2>3. CASE StepToAllRed
    <3>1. /\ transitioning' /\ pending_green' = pending_green
          /\ stage = "yellow" /\ stage' = "all_red" /\ AllRed > 0
          /\ stage_remaining_s <= 1 /\ stage_remaining_s' = AllRed
      BY <2>3 DEF StepToAllRed, transitioning
    <3>2. ClearedSeconds + 1 < Clearance /\ ClearedSeconds' = ClearedSeconds + 1
      BY <3>1, ClearanceFacts, TimingAssumption
      DEF JInv, IInv, TypeOK, Stages, ClearedSeconds
    <3>3. QED
      BY <1>1, <1>3, <2>1, <3>1, <3>2 DEF UntilReady, Promised, Destination
  <2>4. CASE StepToGreen
    <3>1. /\ ~transitioning' /\ current_green' = pending_green
          /\ phase_elapsed_s' = 0 /\ stage_remaining_s <= 1
          /\ stage = "all_red" \/ (stage = "yellow" /\ AllRed = 0)
      BY <2>4 DEF StepToGreen, transitioning
    <3>2. ClearedSeconds + 1 = Clearance
      BY <2>1, <3>1, ClearanceFacts, TimingAssumption
      DEF JInv, IInv, TypeOK, Stages, ClearedSeconds
    <3>3. QED
      BY <1>1, <1>3, <2>1, <3>1, <3>2 DEF UntilReady, Promised, Destination
  <2>5. QED
    BY <1>3, <2>2, <2>3, <2>4 DEF Second, Step, StepGreen, transitioning
<1>4. QED
  BY <1>2, <1>3

LEMMA SecondInTime ==
  ASSUME JInv, LocalArm, InTime, JInv', LocalArm', Second
  PROVE  InTime'
<1>1. /\ at = "second" /\ tick' = (tick + 1) % ControlInterval /\ at' = "control"
      /\ UNCHANGED disturbed /\ tick \in 0 .. ControlInterval - 1
  BY DEF Second, Begin, LocalArm, JInv, LoopTyped
<1>2. /\ Turn' = Turn /\ Turn \in Nat
      /\ WaitLimit' = WaitLimit /\ WaitLimit \in Nat
  <2>1. Turn' = Turn
    BY DEF Turn
  <2>2. WaitLimit' = WaitLimit
    BY <1>1, <2>1 DEF WaitLimit
  <2>3. QED
    BY <2>1, <2>2, TurnFacts, LimitFacts
<1>3. /\ Promised' = Promised
      /\ UntilReady \in Nat /\ UntilReady' \in Nat /\ UntilReady' <= UntilReady
      /\ UntilReady >= 1 => UntilReady' <= UntilReady - 1
  BY SecondUntil
<1>4. ASSUME NEW s \in Nat, Chance(s)
      PROVE  s >= 1 /\ s - 1 \in Nat /\ Chance(s - 1)'
  <2>1. s >= 1 /\ s <= Turn /\ s >= UntilReady /\ (tick + s) % ControlInterval = 0
    BY <1>1, <1>4 DEF Chance
  <2>2. s - 1 \in Nat /\ s - 1 \in 0 .. Turn /\ s - 1 >= UntilReady'
    BY <1>2, <1>3, <2>1
  <2>3. (tick' + (s - 1)) % ControlInterval = 0
    <3>1. CASE tick + 1 = ControlInterval
      <4>1. tick' = 0
        BY <1>1, <3>1, NextTick
      <4>2. PICK p \in Nat : p = s - 1 /\ tick + s = p + ControlInterval
        BY <1>1, <2>2, <3>1, ConstantFacts
      <4>3. (p + ControlInterval) % ControlInterval = p % ControlInterval
        BY Shifted, LoopAssumption
      <4>4. tick' + (s - 1) = p
        BY <4>1, <4>2
      <4>5. QED
        BY <2>1, <4>2, <4>3, <4>4, Zenon
    <3>2. CASE tick + 1 # ControlInterval
      <4>1. tick' = tick + 1
        BY <1>1, <3>2, NextTick
      <4>2. tick' + (s - 1) = tick + s
        BY <1>1, <4>1
      <4>3. QED
        BY <2>1, <4>2, Zenon
    <3>3. QED
      BY <3>1, <3>2
  <2>4. QED
    BY <1>1, <1>2, <2>1, <2>2, <2>3 DEF Chance
<1>5. \A l \in InLanes : /\ waits[l] \in Nat /\ waits'[l] \in Nat
                         /\ waits'[l] <= waits[l] + 1
  BY WaitsOfSecond, ConstantFacts DEF Second, JInv, LoopTyped
<1>6. NextChance'
  <2>1. PICK s \in Nat : Chance(s)
    BY DEF InTime, NextChance
  <2>2. QED
    BY <1>4, <2>1 DEF NextChance
<1>7. Ranked'
  <2> SUFFICES ASSUME NEW x \in Nat, \E l \in InLanes : waits'[l] >= x
               PROVE  \E s \in Nat : Chance(s)' /\
                        x + s + Cardinality(Ahead(x)') * Turn <= WaitLimit
    BY <1>2 DEF Ranked, Waited
  <2>1. CASE x <= MaxApproachWait
    <3>1. PICK s \in Nat : Chance(s)'
      BY <1>6 DEF NextChance
    <3>2. QED
      BY <1>2, <2>1, <3>1, FactsAfter
  <2>2. CASE x > MaxApproachWait
    <3>1. PICK y \in Nat : x = y + 1
      <4>1. x - 1 \in Nat /\ x = (x - 1) + 1
        BY <2>2, ConstantFacts
      <4>2. QED
        BY <4>1
    <3>2. Waited(y)
      BY <1>5, <3>1 DEF Waited
    <3>3. PICK s \in Nat, c \in Nat :
             /\ c = Cardinality(Ahead(y)) /\ Chance(s)
             /\ y + s + c * Turn <= WaitLimit
      BY <3>2, AheadFacts DEF InTime, Ranked, AheadBounded
    <3>4. s >= 1 /\ s - 1 \in Nat /\ Chance(s - 1)'
      BY <1>4, <3>3
    <3>5. Ahead(x)' \in SUBSET Ahead(y)
      BY <1>3, <1>5, <3>1 DEF Ahead
    <3>6. PICK d \in Nat : d = Cardinality(Ahead(x)')
      BY FactsAfter
    <3>7. d <= c
      BY <3>3, <3>5, <3>6, AheadFacts, FS_Subset DEF AheadBounded
    <3>8. PICK t \in Nat, v \in Nat, w \in Nat : t = Turn /\ v = c * t /\ w = d * t
      BY <1>2, Products
    <3>9. w <= v
      BY <3>7, <3>8, Scaled
    <3>10. y + s + v <= WaitLimit
      BY <3>3, <3>8
    <3>11. x + (s - 1) + w <= WaitLimit
      BY <1>2, <3>1, <3>4, <3>9, <3>10
    <3>12. QED
      BY <3>4, <3>6, <3>8, <3>11
  <2>3. QED
    BY <2>1, <2>2, ConstantFacts
<1>8. QED
  BY <1>6, <1>7 DEF InTime

LEMMA LocalArmNext ==
  ASSUME JInv, LocalArm, [JunctionNext]_junctionVars
  PROVE  LocalArm'
<1>1. arm # "cloud_maxpressure" /\ at \in {"control", "second"} /\ current_green \in Green
  BY DEF LocalArm, JInv, IInv, TypeOK
<1>2. CASE Report \/ NoControl \/ Arrive \/ NoneArrived
  BY <1>1, <1>2 DEF Report, NoControl, Arrive, NoneArrived, LocalArm
<1>3. CASE Control \/ ControlBlind \/ ControlMasked
  <2>1. PICK target \in Green, n \in Nat : Issue(target, n)
    BY <1>1, <1>3, ControlIssues
  <2>2. QED
    BY <1>1, <2>1 DEF Issue, LocalArm
<1>4. CASE Second
  BY <1>1, <1>4 DEF Second, Begin, LocalArm
<1>5. CASE UNCHANGED junctionVars
  BY <1>5 DEF junctionVars, loop, LocalArm
<1>6. QED
  BY <1>2, <1>3, <1>4, <1>5 DEF JunctionNext

LEMMA InTimeInit ==
  ASSUME JunctionInit, LocalArm, JInv
  PROVE  InTime
<1>1. /\ ~transitioning /\ phase_elapsed_s = 0 /\ at = "control" /\ tick = 0
      /\ waits = [l \in InLanes |-> 0]
  BY DEF JunctionInit, Init, Begin, LocalArm, transitioning
<1>2. Turn \in Nat /\ Turn >= UntilReady /\ Turn % ControlInterval = 0
  BY TurnFacts, UntilFacts
<1>3. Chance(Turn)
  <2>1. 0 + Turn = Turn
    BY <1>2
  <2>2. QED
    BY <1>1, <1>2, <2>1 DEF Chance
<1>4. NextChance
  BY <1>2, <1>3 DEF NextChance
<1>5. Ranked
  <2> SUFFICES ASSUME NEW x \in Nat, Waited(x)
               PROVE  \E s \in Nat : Chance(s) /\
                        x + s + Cardinality(Ahead(x)) * Turn <= WaitLimit
    BY DEF Ranked
  <2>1. x <= MaxApproachWait
    BY <1>1, ConstantFacts DEF Waited
  <2>2. QED
    BY <1>2, <1>3, <2>1, Fresh
<1>6. QED
  BY <1>4, <1>5 DEF InTime

LEMMA InTimeNext ==
  ASSUME JInv, LocalArm, InTime, JInv', LocalArm',
         [JunctionNext]_junctionVars
  PROVE  InTime'
<1>1. arm # "cloud_maxpressure" /\ at \in {"control", "second"} /\ disturbed \in Nat
  BY DEF LocalArm, JInv, LoopTyped
<1>2. CASE Report \/ Arrive \/ NoneArrived
  BY <1>1, <1>2 DEF Report, Arrive, NoneArrived
<1>3. CASE NoControl
  <2>1. /\ UNCHANGED <<vars, arm, tick, waits, disturbed>> /\ at' = "second"
        /\ tick # 0 \/ transitioning
    BY <1>1, <1>3 DEF NoControl
  <2>2. ASSUME NEW s \in Nat, Chance(s) PROVE Chance(s)'
    <3>1. s # 0
      <4>1. ASSUME s = 0 PROVE FALSE
        <5>1. UntilReady = 0
          BY <2>2, <4>1, UntilFacts, TurnFacts DEF Chance
        <5>2. ~transitioning
          BY <5>1, UntilFacts
        <5>3. (tick + 0) % ControlInterval = 0
          BY <2>2, <4>1 DEF Chance
        <5>4. tick \in 0 .. ControlInterval - 1
          BY DEF JInv, LoopTyped
        <5>5. ASSUME NEW x \in Nat, NEW c \in Nat, x < c PROVE (x + 0) % c = x
          BY <5>5, SMT
        <5>6. tick = 0
          BY <5>3, <5>4, <5>5, ConstantFacts
        <5>7. QED
          BY <2>1, <5>2, <5>6
      <4>2. QED
        BY <4>1
    <3>2. UntilReady' = UntilReady
      BY <2>1, SameExecutor
    <3>3. Turn' = Turn
      BY DEF Turn
    <3>4. QED
      BY <2>1, <2>2, <3>1, <3>2, <3>3 DEF Chance
  <2>4. 0 \in Nat /\ disturbed' = disturbed + 0
    BY <1>1, <2>1
  <2>5. QED
    BY <2>1, <2>2, <2>4, QuietInTime
<1>4. CASE Control \/ ControlBlind \/ ControlMasked
  <2>1. Decides
    BY <1>4, ControlIssues DEF JInv, IInv, TypeOK
  <2>2. PICK target \in Green, n \in Nat :
          /\ Issue(target, n)
          /\ \/ n = Cardinality(Stuck) + 1
             \/ n = Cardinality(Stuck) /\ ServesLongest(target)
    BY <1>4, ControlServes
  <2>3. QED
    BY <2>1, <2>2, AcceptedInTime, RefusedInTime
<1>5. CASE Second
  BY <1>5, SecondInTime
<1>6. CASE UNCHANGED junctionVars
  <2>1. UNCHANGED <<vars, arm, at, tick, waits, disturbed>>
    BY <1>6 DEF junctionVars, loop
  <2>2. UntilReady' = UntilReady /\ Turn' = Turn
    BY <2>1, SameExecutor DEF Turn
  <2>3. \A s \in Nat : Chance(s) => Chance(s)'
    BY <2>1, <2>2 DEF Chance
  <2>5. 0 \in Nat /\ disturbed' = disturbed + 0
    BY <1>1, <2>1
  <2>6. QED
    BY <2>1, <2>3, <2>5, QuietInTime
<1>7. QED
  BY <1>2, <1>3, <1>4, <1>5, <1>6 DEF JunctionNext

(* Under an arm that decides at the junction, whatever the traffic, the    *)
(* readings, the intents and the ties, no vehicle waits longer than the    *)
(* limit of the fairness override and a turn for every lane, for every     *)
(* disturbance and for every lit lane that a control step found overdue.   *)
THEOREM WaitsAreBounded ==
  ASSUME MinGreen >= 1
  PROVE  JunctionSpec => []WaitBounded
<1>1. JunctionInit /\ ~(arm = "cloud_maxpressure") => LocalArm
  BY DEF JunctionInit, Begin, LocalArm
<1>2. JInv /\ LocalArm /\ [JunctionNext]_junctionVars => LocalArm'
  BY LocalArmNext
<1>3. JunctionInit /\ LocalArm /\ JInv => InTime
  BY InTimeInit
<1>4. /\ JInv /\ LocalArm /\ InTime /\ JInv' /\ LocalArm' /\ [JunctionNext]_junctionVars
      => InTime'
  BY InTimeNext
<1>5. JInv /\ LocalArm /\ InTime => WaitBounded
  <2> SUFFICES ASSUME JInv, LocalArm, InTime, NEW l \in InLanes
               PROVE  waits[l] <= WaitLimit
    BY DEF WaitBounded
  <2>1. PICK x \in Nat : x = waits[l]
    BY ConstantFacts DEF JInv, LoopTyped
  <2>2. Waited(x)
    BY <2>1 DEF Waited
  <2>3. PICK s \in Nat, y \in Nat : x + s + y <= WaitLimit
    BY <2>2, AheadFacts, TurnFacts, Products DEF InTime, Ranked, AheadBounded
  <2>4. QED
    BY <2>1, <2>3, LimitFacts
<1>6. arm = "cloud_maxpressure" => WaitBounded
  BY DEF WaitBounded
<1>7. JInv /\ arm = "cloud_maxpressure" /\ [JunctionNext]_junctionVars
        => (arm = "cloud_maxpressure")'
  <2> SUFFICES ASSUME JInv, [JunctionNext]_junctionVars PROVE arm' = arm
    OBVIOUS
  <2>1. CASE Control \/ ControlBlind \/ ControlMasked
    <3>1. PICK target \in Green, n \in Nat : Issue(target, n)
      BY <2>1, ControlIssues DEF JInv, IInv, TypeOK
    <3>2. QED
      BY <3>1 DEF Issue
  <2>2. CASE ~(Control \/ ControlBlind \/ ControlMasked)
    BY <2>2 DEF JunctionNext, Report, NoControl, Arrive, NoneArrived, Second,
                junctionVars, loop
  <2>3. QED
    BY <2>1, <2>2
<1>8. QED
  BY <1>1, <1>2, <1>3, <1>4, <1>5, <1>6, <1>7, Typed, PTL DEF JunctionSpec

=============================================================================
