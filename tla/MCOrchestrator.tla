--------------------------- MODULE MCOrchestrator ---------------------------
(* A machine with the nodes and goroutines of its configuration file.     *)
EXTENDS Orchestrator

CONSTANTS n1, s1, i1, i2, i3
=============================================================================
