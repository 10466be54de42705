-------------------------- MODULE MCNetworkHarness --------------------------
(* The harness for TLC; all constants are numbers of the configuration.    *)
EXTENDS NetworkHarness
=============================================================================
