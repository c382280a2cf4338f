--------------------------- MODULE MCNodeMailbox ---------------------------
(* Two users with two versions each, so that a delta can add, change and   *)
(* remove; two configurations; one device snapshot; two readers, as during *)
(* a reconnection.                                                         *)
EXTENDS NodeMailbox

CONSTANTS u1, u2, v1, v2, c1, c2, d1, r1, r2
============================================================================
