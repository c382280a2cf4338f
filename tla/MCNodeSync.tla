----------------------------- MODULE MCNodeSync -----------------------------
(* The values of NodeSync's constants; each configuration file is one     *)
(* environment of the node.                                               *)
EXTENDS NodeSync

CONSTANTS u1, u2, v1, v2, c1, c2, c3, bad, d1, d2
=============================================================================
