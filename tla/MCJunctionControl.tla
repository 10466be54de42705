------------------------- MODULE MCJunctionControl -------------------------
(* A junction for TLC: three phases over two lanes.  The two links of lane *)
(* east are lit in phases of their own.  The links lead to one of two      *)
(* lanes.                                                                  *)
EXTENDS JunctionControl

CONSTANTS a, b, c, north, east, west, ahead

MCLink == {a, b, c}
MCGreenState ==
  0 :> (a :> "G" @@ b :> "r" @@ c :> "r") @@
  1 :> (a :> "r" @@ b :> "G" @@ c :> "r") @@
  2 :> (a :> "r" @@ b :> "r" @@ c :> "G")
MCInLane == a :> north @@ b :> east @@ c :> east
MCOutLane == a :> west @@ b :> ahead @@ c :> west

MCCloudArm == {"cloud_maxpressure"}
=============================================================================
