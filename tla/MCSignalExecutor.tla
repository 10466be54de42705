-------------------------- MODULE MCSignalExecutor --------------------------
(* Junctions for TLC: three phases over four links.  Link b is lit in two  *)
(* consecutive phases, link d has a light of its own phase only.           *)
EXTENDS SignalExecutor, TLC

CONSTANTS a, b, c, d

MCGreenState ==
  0 :> (a :> "G" @@ b :> "g" @@ c :> "r" @@ d :> "r") @@
  1 :> (a :> "r" @@ b :> "G" @@ c :> "G" @@ d :> "s") @@
  2 :> (a :> "r" @@ b :> "r" @@ c :> "r" @@ d :> "G")
=============================================================================
