------------------------ MODULE SignalExecutorProofs ------------------------
(* Proofs about SignalExecutor, for every junction and every timing.       *)
EXTENDS SignalExecutor, TLAPS

-----------------------------------------------------------------------------
(* The inductive invariant. *)

(* The stage, its countdown and the pending phase fit together.            *)
Stages ==
  /\ stage = "green" => pending_green = None
  /\ transitioning => pending_green \in Green /\ pending_green # current_green
  /\ stage = "yellow" => /\ stage_remaining_s <= Yellow
                         /\ Yellow > 0 => stage_remaining_s >= 1
  /\ stage = "all_red" => stage_remaining_s \in 1 .. AllRed

(* The colours shown are those of the stage. *)
LightsOfStage ==
  lights = IF stage = "green" THEN GreenState[current_green]
           ELSE IF stage = "yellow"
           THEN YellowState(GreenState[current_green], GreenState[pending_green])
           ELSE AllRedState

(* How long the links that are not green have been dark: for the whole     *)
(* clearance if they were dark in the phase that is shown or being left,   *)
(* for the seconds of the transition if the transition made them dark.     *)
DarkLongEnough ==
  \A m \in Link :
    /\ ~Shows(GreenState[current_green], m) => dark_s[m] >= Clearance
    /\ /\ transitioning
       /\ Shows(GreenState[current_green], m)
       /\ ~Shows(GreenState[pending_green], m)
       => dark_s[m] >= ClearedSeconds

(* How long the links that are lit have been so. *)
LitLongEnough ==
  \A l \in Link : Shows(lights, l) =>
    /\ stage = "green" => lit_s[l] >= phase_elapsed_s
    /\ stage = "yellow" => lit_s[l] >= MinGreen

IInv == TypeOK /\ Stages /\ LightsOfStage /\ DarkLongEnough /\ LitLongEnough

LEMMA ClearanceFacts ==
  /\ Clearance \in Nat /\ Clearance >= 1
  /\ Yellow > 0 => Clearance = Yellow + AllRed
  /\ Yellow = 0 => Clearance = 1 + AllRed
BY TimingAssumption DEF Clearance

LEMMA GreenStateFacts ==
  ASSUME NEW k \in Green, NEW l \in Link
  PROVE  /\ GreenState[k] \in [Link -> Colour]
         /\ Shows(GreenState[k], l) <=> GreenState[k][l] \notin Dark
BY PlanAssumption DEF Colour, Shows, Lit, Dark

(* The yellow state lights exactly the links green before and after.       *)
LEMMA YellowStateFacts ==
  ASSUME NEW k \in Green, NEW n \in Green
  PROVE  /\ YellowState(GreenState[k], GreenState[n]) \in [Link -> Colour]
         /\ \A l \in Link : Shows(YellowState(GreenState[k], GreenState[n]), l) <=>
              Shows(GreenState[k], l) /\ Shows(GreenState[n], l)
BY GreenStateFacts DEF YellowState, Shows, Lit, Dark, Colour

LEMMA AllRedFacts ==
  /\ AllRedState \in [Link -> Colour]
  /\ \A l \in Link : ~Shows(AllRedState, l)
BY DEF AllRedState, Shows, Lit, Dark, Colour

LEMMA InvariantInit == Init => IInv
<1> SUFFICES ASSUME Init PROVE IInv
  OBVIOUS
<1>1. TypeOK
  BY PlanAssumption, TimingAssumption, GreenStateFacts, ClearanceFacts DEF Init, TypeOK
<1>2. Stages /\ LightsOfStage
  BY DEF Init, Stages, LightsOfStage, transitioning
<1>3. DarkLongEnough /\ LitLongEnough
  BY ClearanceFacts DEF Init, DarkLongEnough, LitLongEnough, transitioning
<1>4. QED
  BY <1>1, <1>2, <1>3 DEF IInv

LEMMA InvariantRequest ==
  ASSUME IInv, NEW target \in Green, Request(target)
  PROVE  IInv'
<1>1. /\ stage = "green" /\ target # current_green /\ phase_elapsed_s >= MinGreen
      /\ pending_green' = target /\ stage' = "yellow" /\ stage_remaining_s' = Yellow
      /\ lights' = YellowState(GreenState[current_green], GreenState[target])
      /\ UNCHANGED <<current_green, phase_elapsed_s, dark_s, lit_s>>
  BY DEF Request, Accepts, transitioning
<1>2. current_green \in Green /\ lights = GreenState[current_green]
  BY <1>1 DEF IInv, TypeOK, LightsOfStage
<1>3. TypeOK'
  BY <1>1, <1>2, YellowStateFacts, TimingAssumption DEF IInv, TypeOK
<1>4. Stages' /\ LightsOfStage'
  BY <1>1, TimingAssumption DEF Stages, LightsOfStage, transitioning
<1>5. DarkLongEnough'
  <2>1. ClearedSeconds' = 0
    BY <1>1, TimingAssumption DEF ClearedSeconds
  <2>2. \A m \in Link : dark_s[m] >= 0
    BY ClearanceFacts DEF IInv, TypeOK
  <2>3. QED
    BY <1>1, <2>1, <2>2 DEF IInv, DarkLongEnough
<1>6. LitLongEnough'
  <2>1. ASSUME NEW l \in Link, Shows(lights', l)
        PROVE  lit_s[l] >= MinGreen
    <3>1. Shows(lights, l)
      BY <1>1, <1>2, <2>1, YellowStateFacts
    <3>2. lit_s[l] >= phase_elapsed_s
      BY <1>1, <3>1 DEF IInv, LitLongEnough
    <3>3. QED
      BY <1>1, <3>2, TimingAssumption DEF IInv, TypeOK
  <2>2. QED
    BY <1>1, <2>1 DEF LitLongEnough
<1>7. QED
  BY <1>3, <1>4, <1>5, <1>6 DEF IInv

(* What a simulated second does to the history. *)
LEMMA SecondFacts ==
  ASSUME IInv, SecondPasses, NEW l \in Link
  PROVE  /\ dark_s' \in [Link -> 0 .. Clearance]
         /\ lit_s' \in [Link -> 0 .. Horizon]
         /\ dark_s[l] \in 0 .. Clearance /\ lit_s[l] \in 0 .. Horizon
         /\ ~Shows(lights, l) =>
              dark_s'[l] = IF dark_s[l] < Clearance THEN dark_s[l] + 1 ELSE Clearance
         /\ Shows(lights, l) =>
              lit_s'[l] = IF lit_s[l] < Horizon THEN lit_s[l] + 1 ELSE Horizon
BY ClearanceFacts, TimingAssumption DEF IInv, TypeOK, SecondPasses, UpTo

LEMMA InvariantStepGreen ==
  ASSUME IInv, SecondPasses, StepGreen
  PROVE  IInv'
<1>1. /\ stage = "green" /\ lights = GreenState[current_green] /\ current_green \in Green
      /\ phase_elapsed_s' = IF phase_elapsed_s < Horizon THEN phase_elapsed_s + 1
                                                        ELSE Horizon
      /\ phase_elapsed_s \in 0 .. Horizon
      /\ UNCHANGED <<current_green, pending_green, stage, stage_remaining_s, lights>>
  BY TimingAssumption DEF StepGreen, UpTo, IInv, TypeOK, LightsOfStage
<1>2. TypeOK'
  BY <1>1, SecondFacts, TimingAssumption DEF IInv, TypeOK, SecondPasses
<1>3. Stages' /\ LightsOfStage'
  BY <1>1 DEF IInv, Stages, LightsOfStage, transitioning
<1>4. DarkLongEnough'
  <2>1. ASSUME NEW m \in Link, ~Shows(GreenState[current_green], m)
        PROVE  dark_s'[m] >= Clearance
    BY <1>1, <2>1, SecondFacts, ClearanceFacts DEF IInv, DarkLongEnough
  <2>2. QED
    BY <1>1, <2>1 DEF DarkLongEnough, transitioning
<1>5. LitLongEnough'
  <2>1. ASSUME NEW l \in Link, Shows(lights, l)
        PROVE  lit_s'[l] >= phase_elapsed_s'
    BY <1>1, <2>1, SecondFacts, TimingAssumption DEF IInv, LitLongEnough
  <2>2. QED
    BY <1>1, <2>1 DEF LitLongEnough
<1>6. QED
  BY <1>2, <1>3, <1>4, <1>5 DEF IInv

(* What a second of a transition does to the links that are dark or are    *)
(* made dark by it.                                                        *)
LEMMA DarkSecond ==
  ASSUME IInv, SecondPasses, transitioning, NEW m \in Link
  PROVE  /\ current_green \in Green /\ pending_green \in Green
         /\ ~Shows(GreenState[current_green], m) => dark_s'[m] >= Clearance
         /\ ~Shows(GreenState[pending_green], m) =>
              \/ dark_s'[m] >= Clearance
              \/ dark_s'[m] >= ClearedSeconds + 1
         /\ ClearedSeconds \in 0 .. Clearance - 1
<1>1. current_green \in Green /\ pending_green \in Green
  BY DEF IInv, TypeOK, Stages
<1>2. \/ /\ stage = "yellow"
         /\ lights = YellowState(GreenState[current_green], GreenState[pending_green])
      \/ stage = "all_red" /\ lights = AllRedState
  BY DEF IInv, TypeOK, LightsOfStage, transitioning
<1>3. Shows(lights, m) => /\ Shows(GreenState[current_green], m)
                          /\ Shows(GreenState[pending_green], m)
  BY <1>1, <1>2, YellowStateFacts, AllRedFacts
<1>4. ClearedSeconds \in 0 .. Clearance - 1
  BY <1>2, ClearanceFacts, TimingAssumption DEF IInv, TypeOK, Stages, ClearedSeconds
<1>5. ~Shows(GreenState[current_green], m) => dark_s'[m] >= Clearance
  BY <1>3, SecondFacts, ClearanceFacts DEF IInv, DarkLongEnough
<1>6. ASSUME Shows(GreenState[current_green], m), ~Shows(GreenState[pending_green], m)
      PROVE  dark_s'[m] >= Clearance \/ dark_s'[m] >= ClearedSeconds + 1
  BY <1>3, <1>4, <1>6, SecondFacts, ClearanceFacts DEF IInv, DarkLongEnough
<1>7. QED
  BY <1>1, <1>4, <1>5, <1>6

LEMMA InvariantStepWaits ==
  ASSUME IInv, SecondPasses, StepWaits
  PROVE  IInv'
<1>1. /\ transitioning /\ stage_remaining_s > 1 /\ stage_remaining_s \in Nat
      /\ stage_remaining_s' = stage_remaining_s - 1
      /\ UNCHANGED <<current_green, phase_elapsed_s, pending_green, stage, lights>>
  BY DEF StepWaits, IInv, TypeOK
<1>2. TypeOK'
  BY <1>1, SecondFacts DEF IInv, TypeOK, SecondPasses
<1>3. Stages' /\ LightsOfStage'
  BY <1>1, TimingAssumption DEF IInv, Stages, LightsOfStage, transitioning
<1>4. DarkLongEnough'
  <2>1. ClearedSeconds' = ClearedSeconds + 1
    BY <1>1, ClearanceFacts, TimingAssumption DEF IInv, Stages, ClearedSeconds
  <2>2. ClearedSeconds' <= Clearance
    BY <1>1, <2>1, ClearanceFacts, TimingAssumption
    DEF IInv, TypeOK, Stages, ClearedSeconds, transitioning
  <2>3. ASSUME NEW m \in Link
        PROVE  /\ ~Shows(GreenState[current_green], m) => dark_s'[m] >= Clearance
               /\ ~Shows(GreenState[pending_green], m) => dark_s'[m] >= ClearedSeconds'
    BY <1>1, <1>2, <2>1, <2>2, DarkSecond, ClearanceFacts DEF TypeOK
  <2>4. QED
    BY <1>1, <2>3 DEF DarkLongEnough
<1>5. LitLongEnough'
  <2>1. ASSUME NEW l \in Link, Shows(lights, l), stage = "yellow"
        PROVE  lit_s'[l] >= MinGreen
    BY <2>1, SecondFacts, TimingAssumption DEF IInv, LitLongEnough
  <2>2. QED
    BY <1>1, <2>1 DEF LitLongEnough, transitioning
<1>6. QED
  BY <1>2, <1>3, <1>4, <1>5 DEF IInv

LEMMA InvariantStepToAllRed ==
  ASSUME IInv, SecondPasses, StepToAllRed
  PROVE  IInv'
<1>1. /\ stage = "yellow" /\ AllRed > 0 /\ stage_remaining_s <= 1
      /\ stage' = "all_red" /\ stage_remaining_s' = AllRed /\ lights' = AllRedState
      /\ UNCHANGED <<current_green, phase_elapsed_s, pending_green>>
  BY DEF StepToAllRed
<1>2. transitioning
  BY <1>1 DEF transitioning
<1>3. TypeOK'
  BY <1>1, SecondFacts, AllRedFacts, TimingAssumption DEF IInv, TypeOK, SecondPasses
<1>4. Stages' /\ LightsOfStage'
  BY <1>1, TimingAssumption DEF IInv, Stages, LightsOfStage, transitioning
<1>5. DarkLongEnough'
  <2>1. ClearedSeconds' = ClearedSeconds + 1 /\ ClearedSeconds' <= Clearance
    BY <1>1, ClearanceFacts, TimingAssumption DEF IInv, TypeOK, Stages, ClearedSeconds
  <2>2. ASSUME NEW m \in Link
        PROVE  /\ ~Shows(GreenState[current_green], m) => dark_s'[m] >= Clearance
               /\ ~Shows(GreenState[pending_green], m) => dark_s'[m] >= ClearedSeconds'
    BY <1>2, <1>3, <2>1, DarkSecond, ClearanceFacts DEF TypeOK
  <2>3. QED
    BY <1>1, <2>2 DEF DarkLongEnough
<1>6. LitLongEnough'
  BY <1>1, AllRedFacts DEF LitLongEnough
<1>7. QED
  BY <1>3, <1>4, <1>5, <1>6 DEF IInv

LEMMA InvariantStepToGreen ==
  ASSUME IInv, SecondPasses, StepToGreen
  PROVE  IInv'
<1>1. /\ transitioning /\ stage_remaining_s <= 1
      /\ stage = "all_red" \/ (stage = "yellow" /\ AllRed = 0)
      /\ current_green' = pending_green /\ pending_green' = None
      /\ stage' = "green" /\ stage_remaining_s' = 0 /\ phase_elapsed_s' = 0
      /\ lights' = GreenState[pending_green]
      /\ pending_green \in Green
  BY DEF StepToGreen, transitioning, IInv, Stages
<1>2. TypeOK'
  BY <1>1, SecondFacts, GreenStateFacts, PlanAssumption, TimingAssumption
  DEF IInv, TypeOK, SecondPasses
<1>3. Stages' /\ LightsOfStage'
  BY <1>1 DEF Stages, LightsOfStage, transitioning
<1>4. DarkLongEnough'
  <2>1. ClearedSeconds + 1 = Clearance
    BY <1>1, ClearanceFacts, TimingAssumption DEF IInv, TypeOK, Stages, ClearedSeconds
  <2>2. ASSUME NEW m \in Link, ~Shows(GreenState[pending_green], m)
        PROVE  dark_s'[m] >= Clearance
    BY <1>1, <2>1, <2>2, DarkSecond
  <2>3. QED
    BY <1>1, <2>2 DEF DarkLongEnough, transitioning
<1>5. LitLongEnough'
  BY <1>1, <1>2, TimingAssumption DEF LitLongEnough, TypeOK
<1>6. QED
  BY <1>2, <1>3, <1>4, <1>5 DEF IInv

LEMMA InvariantNext == IInv /\ [Next]_vars => IInv'
<1> SUFFICES ASSUME IInv, [Next]_vars PROVE IInv'
  OBVIOUS
<1>1. CASE Step
  BY <1>1, InvariantStepGreen, InvariantStepWaits, InvariantStepToAllRed,
     InvariantStepToGreen DEF Step
<1>2. CASE \E target \in Green : Request(target)
  BY <1>2, InvariantRequest
<1>3. CASE UNCHANGED vars
  BY <1>3 DEF vars, control, IInv, TypeOK, Stages, LightsOfStage, DarkLongEnough,
              LitLongEnough, transitioning, ClearedSeconds
<1>4. QED
  BY <1>1, <1>2, <1>3 DEF Next

LEMMA Invariant == Spec => []IInv
  BY InvariantInit, InvariantNext, PTL DEF Spec

-----------------------------------------------------------------------------
(* The executor's variables keep their types.                              *)
THEOREM TypeCorrect == Spec => []TypeOK
<1>1. IInv => TypeOK
  BY DEF IInv
<1>2. QED
  BY <1>1, Invariant, PTL

(* On every junction, with every timing and under every sequence of        *)
(* requests, a link is lit only when all the links in conflict with it     *)
(* have been dark for the clearance time.                                  *)
THEOREM ConflictingGreensSeparated == Spec => []ConflictsCleared
<1>1. IInv => ConflictsCleared
  <2> SUFFICES ASSUME IInv, NEW l \in Link, NEW m \in Link,
                      Shows(lights, l), Conflict(l, m)
               PROVE  ~Shows(lights, m) /\ dark_s[m] >= Clearance
    BY DEF ConflictsCleared
  <2>1. current_green \in Green /\ Shows(GreenState[current_green], l)
    <3>1. CASE stage = "green"
      BY <3>1 DEF IInv, TypeOK, LightsOfStage
    <3>2. CASE stage = "yellow"
      BY <3>2, YellowStateFacts DEF IInv, TypeOK, Stages, LightsOfStage, transitioning
    <3>3. CASE stage = "all_red"
      BY <3>3, AllRedFacts DEF IInv, LightsOfStage
    <3>4. QED
      BY <3>1, <3>2, <3>3 DEF IInv, TypeOK
  <2>2. ~Shows(GreenState[current_green], m)
    BY <2>1 DEF Conflict
  <2>3. ~Shows(lights, m)
    BY <2>2, YellowStateFacts, AllRedFacts DEF IInv, TypeOK, Stages, LightsOfStage,
       transitioning
  <2>4. QED
    BY <2>2, <2>3 DEF IInv, DarkLongEnough
<1>2. QED
  BY <1>1, Invariant, PTL

(* No green is cut short of the minimum green time.                        *)
THEOREM GreensLastLongEnough == Spec => GreenNotCutShort
<1>1. IInv /\ [Next]_vars =>
        [\A l \in Link : Shows(lights, l) /\ ~Shows(lights', l) => lit_s[l] >= MinGreen]_lights
  <2> SUFFICES ASSUME IInv, [Next]_vars, NEW l \in Link,
                      Shows(lights, l), ~Shows(lights', l)
               PROVE  lit_s[l] >= MinGreen
    OBVIOUS
  <2>1. stage # "all_red"
    BY AllRedFacts DEF IInv, LightsOfStage
  <2>2. CASE stage = "yellow"
    BY <2>2 DEF IInv, LitLongEnough
  <2>3. CASE stage = "green"
    <3>1. \E target \in Green : Request(target)
      BY <2>3 DEF Next, Step, StepGreen, StepWaits, StepToAllRed, StepToGreen,
                  transitioning, vars
    <3>2. phase_elapsed_s >= MinGreen
      BY <3>1 DEF Request, Accepts
    <3>3. QED
      BY <2>3, <3>2, TimingAssumption DEF IInv, TypeOK, LitLongEnough
  <2>4. QED
    BY <2>1, <2>2, <2>3 DEF IInv, TypeOK
<1>2. QED
  BY <1>1, Invariant, PTL DEF Spec, GreenNotCutShort

-----------------------------------------------------------------------------
(* The executor implements SignalTiming. *)

LEMMA TimingRequest ==
  ASSUME IInv, NEW target \in Green, Request(target)
  PROVE  Timing!Leave(target)
<1>1. /\ ~transitioning /\ transitioning' /\ target # current_green
      /\ phase_elapsed_s >= MinGreen /\ pending_green' = target
      /\ stage' = "yellow" /\ stage_remaining_s' = Yellow
  BY DEF Request, Accepts, transitioning
<1>2. ClearedSeconds' = 0
  BY <1>1, TimingAssumption DEF ClearedSeconds
<1>3. QED
  BY <1>1, <1>2 DEF Timing!Leave

LEMMA TimingStepGreen ==
  ASSUME IInv, StepGreen
  PROVE  Timing!Stay
<1>1. ~transitioning /\ ~transitioning'
  BY DEF StepGreen, transitioning
<1>2. phase_elapsed_s' = IF phase_elapsed_s < Horizon THEN phase_elapsed_s + 1
                                                      ELSE phase_elapsed_s
  BY TimingAssumption DEF StepGreen, UpTo, IInv, TypeOK
<1>3. QED
  BY <1>1, <1>2 DEF StepGreen, Timing!Stay, transitioning

LEMMA TimingStepWaits ==
  ASSUME IInv, StepWaits
  PROVE  Timing!Clear
<1>1. /\ transitioning /\ transitioning' /\ pending_green' = pending_green
      /\ stage_remaining_s > 1 /\ stage_remaining_s' = stage_remaining_s - 1
      /\ stage' = stage
  BY DEF StepWaits, transitioning
<1>2. ClearedSeconds + 1 < Clearance /\ ClearedSeconds' = ClearedSeconds + 1
  BY <1>1, ClearanceFacts, TimingAssumption
  DEF IInv, TypeOK, Stages, ClearedSeconds, transitioning
<1>3. QED
  BY <1>1, <1>2 DEF Timing!Clear

LEMMA TimingStepToAllRed ==
  ASSUME IInv, StepToAllRed
  PROVE  Timing!Clear
<1>1. /\ transitioning /\ transitioning' /\ pending_green' = pending_green
      /\ stage = "yellow" /\ stage' = "all_red" /\ AllRed > 0
      /\ stage_remaining_s <= 1 /\ stage_remaining_s' = AllRed
  BY DEF StepToAllRed, transitioning
<1>2. ClearedSeconds + 1 < Clearance /\ ClearedSeconds' = ClearedSeconds + 1
  BY <1>1, ClearanceFacts, TimingAssumption DEF IInv, TypeOK, Stages, ClearedSeconds
<1>3. QED
  BY <1>1, <1>2 DEF Timing!Clear

LEMMA TimingStepToGreen ==
  ASSUME IInv, StepToGreen
  PROVE  Timing!Clear
<1>1. /\ transitioning /\ ~transitioning' /\ current_green' = pending_green
      /\ phase_elapsed_s' = 0 /\ stage_remaining_s <= 1
      /\ stage = "all_red" \/ (stage = "yellow" /\ AllRed = 0)
  BY DEF StepToGreen, transitioning
<1>2. ~(ClearedSeconds + 1 < Clearance)
  BY <1>1, ClearanceFacts, TimingAssumption DEF IInv, TypeOK, Stages, ClearedSeconds
<1>3. QED
  BY <1>1, <1>2 DEF Timing!Clear

(* Whoever asks for what, a green lasts at least MinGreen seconds and two  *)
(* greens are exactly Clearance seconds apart: every step of the executor  *)
(* is a step of SignalTiming or changes nothing that it sees.              *)
THEOREM ExecutorImplementsTiming == Spec => ImplementsTiming
<1>1. Init => Timing!TimingInit
  BY DEF Init, transitioning, Timing!TimingInit
<1>2. IInv /\ [Next]_vars => [Timing!TimingNext]_(Timing!timingVars)
  <2> SUFFICES ASSUME IInv, [Next]_vars
               PROVE  [Timing!TimingNext]_(Timing!timingVars)
    OBVIOUS
  <2>1. CASE Step
    BY <2>1, TimingStepGreen, TimingStepWaits, TimingStepToAllRed, TimingStepToGreen
    DEF Step, Timing!TimingNext
  <2>2. CASE \E target \in Green : Request(target)
    BY <2>2, TimingRequest DEF Timing!TimingNext
  <2>3. CASE UNCHANGED vars
    BY <2>3 DEF vars, control, transitioning, ClearedSeconds, Timing!timingVars
  <2>4. QED
    BY <2>1, <2>2, <2>3 DEF Next
<1>3. QED
  BY <1>1, <1>2, Invariant, PTL DEF Spec, ImplementsTiming, Timing!TimingSpec
=============================================================================
