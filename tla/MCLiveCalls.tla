---------------------------- MODULE MCLiveCalls ----------------------------
(* Runs of two requests and of one, and an audit of one state by two       *)
(* agents; a plan of five calls.  The platform's limit is hard, or soft and*)
(* acknowledged, or one part of the gate is missing.                       *)
EXTENDS LiveCalls, TLC

CONSTANTS r1, r2

MCRequests == r1 :> 2 @@ r2 :> 1

Hard == [limit |-> "hard", acknowledged |-> FALSE, fits |-> TRUE,
         local_matches |-> FALSE, key |-> TRUE]
Soft == [Hard EXCEPT !.limit = "soft", !.acknowledged = TRUE, !.local_matches = TRUE]
MCPlatforms ==
  {Hard, Soft, [Hard EXCEPT !.fits = FALSE], [Hard EXCEPT !.key = FALSE],
   [Soft EXCEPT !.acknowledged = FALSE], [Soft EXCEPT !.local_matches = FALSE],
   [Soft EXCEPT !.limit = "none"]}

(* The threads of the pool differ in nothing. *)
MCSymmetry == Permutations(Agent)
=============================================================================
