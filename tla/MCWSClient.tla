----------------------------- MODULE MCWSClient -----------------------------
(* Three faults; channels of two, back-offs of 1, 2 and 3 units.           *)
EXTENDS WSClient
=============================================================================
