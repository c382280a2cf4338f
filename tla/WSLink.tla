------------------------------- MODULE WSLink -------------------------------
(***************************************************************************)
(* What the WebSocket client of internal/panel/ws.go promises to a node:   *)
(* its flag says whether the connection is up, every change of it and      *)
(* every failed attempt is reported after it has happened and before the   *)
(* next one, and the node reads the reports in this order.  A report that  *)
(* finds the node's channel full is lost.                                  *)
(***************************************************************************)
EXTENDS Naturals, Sequences

CONSTANTS StatusCap, None

VARIABLES connected,    \* IsConnected
          owed,         \* a report still to be made
          channel,      \* the node's statusCh
          seen          \* the last report the node has read

vars == <<connected, owed, channel, seen>>

Init ==
    /\ connected = FALSE /\ owed = None
    /\ channel = <<>> /\ seen = FALSE

Up ==
    /\ owed = None /\ ~connected
    /\ connected' = TRUE /\ owed' = TRUE
    /\ UNCHANGED <<channel, seen>>

\* The connection is gone, or an attempt has failed.
Down ==
    /\ owed = None
    /\ connected' = FALSE /\ owed' = FALSE
    /\ UNCHANGED <<channel, seen>>

Report ==
    /\ owed # None
    /\ owed' = None
    /\ channel' = IF Len(channel) < StatusCap THEN Append(channel, owed)
                  ELSE channel
    /\ UNCHANGED <<connected, seen>>

Read ==
    /\ channel # <<>>
    /\ seen' = Head(channel) /\ channel' = Tail(channel)
    /\ UNCHANGED <<connected, owed>>

Next == Up \/ Down \/ Report \/ Read

Spec == Init /\ [][Next]_vars
=============================================================================
