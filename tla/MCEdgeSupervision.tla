------------------------- MODULE MCEdgeSupervision -------------------------
(* A junction of two phases, the intents and the observations that meet    *)
(* every rule of the shield that decide() leaves possible and every branch *)
(* of the control step.                                                    *)
EXTENDS EdgeSupervision, TLC

CONSTANTS a, b

MCGreenState ==
  0 :> (a :> "G" @@ b :> "r") @@
  1 :> (a :> "r" @@ b :> "g")

Plain == [name |-> "bias_corridor", strength |-> 2, valid_for_s |-> 4,
          duration_s |-> 2, asks_neighbor |-> TRUE]

MCIntent == {
  Plain,
  [Plain EXCEPT !.name = "emergency_priority", !.asks_neighbor = FALSE],
  [Plain EXCEPT !.name = "bias_cross_street", !.valid_for_s = 20, !.duration_s = 5],
  [Plain EXCEPT !.name = "request_fallback", !.valid_for_s = 1] }

Quiet == [overdue |-> None, waits |-> FALSE, blocked |-> FALSE,
          emergency |-> None, complete |-> TRUE, bad_peer |-> FALSE]

MCObservation == {
  Quiet,
  [Quiet EXCEPT !.overdue = 0, !.waits = TRUE],
  [Quiet EXCEPT !.emergency = 1, !.blocked = TRUE, !.bad_peer = TRUE,
                !.complete = FALSE] }
=============================================================================
