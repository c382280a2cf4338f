----------------------------- MODULE MCTraffic ------------------------------
(* The traffic accounting of a node with the users and addresses of its *)
(* configuration file.                                                  *)
EXTENDS TrafficTracker

CONSTANTS u1, i1, i2
=============================================================================
