------------------------- MODULE MCRunOrchestration -------------------------
(* Three runs for TLC. *)
EXTENDS RunOrchestration

CONSTANTS a, b, c

MCOrder == <<a, b, c>>
=============================================================================
