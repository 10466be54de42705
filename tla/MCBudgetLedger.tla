--------------------------- MODULE MCBudgetLedger ---------------------------
(* Small instances of BudgetLedger for TLC. *)
EXTENDS BudgetLedger, TLC

CONSTANTS
  p1, p2,           \* processes: p1 runs t1 and t2, p2 runs t3
  t1, t2, t3,
  pilot, primary    \* phases

MCProcessOf == t1 :> p1 @@ t2 :> p1 @@ t3 :> p2
MCProcessOfTwo == t1 :> p1 @@ t3 :> p2

(* primary has a ceiling of its own on calls, pilot has not. *)
MCCallLimit == All :> 3 @@ primary :> 2
MCCostLimit == All :> 5 @@ primary :> 3 @@ pilot :> 4

(* Smaller ceilings, for the runs that multiply the failures. *)
MCCallLimitTwo == All :> 2 @@ primary :> 1
MCCostLimitThree == All :> 3 @@ primary :> 2 @@ pilot :> 3
MCCallLimitOnePhase == All :> 3 @@ primary :> 2
MCCostLimitOnePhase == All :> 3 @@ primary :> 3

Symmetry == Permutations(Id) \cup Permutations({t1, t2})
IdSymmetry == Permutations(Id)
=============================================================================
