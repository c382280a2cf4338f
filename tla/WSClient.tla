------------------------------ MODULE WSClient ------------------------------
(***************************************************************************)
(* The WebSocket client of internal/panel/ws.go: the goroutine of Run,     *)
(* which connects, serves a connection and backs off; the goroutine that   *)
(* reads the connection; the callers that queue messages; the panel; and   *)
(* onWSStatus of internal/machine/machine.go with a node's status channel. *)
(***************************************************************************)
EXTENDS Integers, Sequences

CONSTANTS None,
          WriteCap,         \* capacity of writeCh (16)
          StatusCap,        \* capacity of a node's status channel (4)
          BackoffInitial, BackoffMax,
          MaxFaults         \* dials, handshakes and connections that fail

ASSUME ClientAssumption ==
    /\ {WriteCap, StatusCap, BackoffInitial} \subseteq Nat \ {0}
    /\ BackoffMax \in Int
    /\ MaxFaults \in Nat
    /\ None \notin BOOLEAN

VARIABLES
    loop,       \* where Run is
    failed,     \* connect returns an error
    backoff,
    cancelled,  \* ctx
    connected,
    link,       \* the connection: "none", "up" or "broken"
    first,      \* the panel's first message
    inbound,    \* the panel's message on its way, or None
    reader,     \* the reading goroutine; the message it handles
    errCh,      \* the reader's error
    queue,      \* writeCh
    due,        \* a message of the panel that is not dealt with
    statuses, seen, dropped,    \* the node: its channel, the last status it
                                \* read, whether one found the channel full
    faults

linkVars == <<link, first, inbound, reader, errCh, queue, due>>
nodeVars == <<statuses, seen, dropped>>
vars == <<loop, failed, backoff, cancelled, connected, linkVars, nodeVars,
          faults>>

\* Messages of the panel: a data event that decodes, a full list without
\* users, a payload that does not decode or lacks what it needs, a ping.
Data == {"data", "empty"}
Kinds == Data \cup {"bad", "ping"}
Outgoing == {"status", "pong", "app"}

Labels == {"dial", "auth", "up", "first", "begin", "serve", "closing", "down",
           "report", "check", "wait", "returned"}

\* A maximum below the initial back-off is accepted; the back-off stays initial.
BackoffLimit == IF BackoffMax < BackoffInitial THEN BackoffInitial ELSE BackoffMax

TypeOK ==
    /\ loop \in Labels
    /\ failed \in BOOLEAN /\ cancelled \in BOOLEAN /\ connected \in BOOLEAN
    /\ backoff \in BackoffInitial..BackoffLimit
    /\ link \in {"none", "up", "broken"}
    /\ first \in Kinds \cup {None}
    /\ inbound \in Kinds \cup {None}
    /\ reader \in Kinds \cup {"none", "read"}
    /\ errCh \in BOOLEAN
    /\ queue \in Seq(Outgoing) /\ Len(queue) <= WriteCap
    /\ due \in Data \cup {"ping", None}
    /\ statuses \in Seq(BOOLEAN) /\ Len(statuses) <= StatusCap
    /\ seen \in BOOLEAN /\ dropped \in BOOLEAN
    /\ faults \in 0..MaxFaults

Init ==
    /\ loop = "dial" /\ failed = FALSE /\ backoff = BackoffInitial
    /\ cancelled = FALSE /\ connected = FALSE
    /\ link = "none" /\ first = None /\ inbound = None
    /\ reader = "none" /\ errCh = FALSE /\ queue = <<>> /\ due = None
    /\ statuses = <<>> /\ seen = FALSE /\ dropped = FALSE
    /\ faults = MaxFaults

-----------------------------------------------------------------------------
\* connect returns: the connection is closed and writeCh cleared; what the
\* panel has sent and what is queued is gone.
Return(err) ==
    /\ loop' = "down" /\ failed' = err
    /\ link' = "none"
    /\ first' = None /\ inbound' = None /\ errCh' = FALSE
    /\ queue' = <<>> /\ due' = None

\* onWSStatus: a status that finds the channel full is dropped.
Notify(status) ==
    /\ statuses' = IF Len(statuses) < StatusCap THEN Append(statuses, status)
                   ELSE statuses
    /\ dropped' = (dropped \/ Len(statuses) >= StatusCap)
    /\ UNCHANGED seen

Fault == faults > 0 /\ faults' = faults - 1

-----------------------------------------------------------------------------
(* Run and connect.                                                        *)

Dial ==
    /\ loop = "dial" /\ ~cancelled
    /\ loop' = "auth" /\ link' = "up"
    /\ UNCHANGED <<failed, backoff, cancelled, connected, first, inbound, reader,
                   errCh, queue, due, nodeVars, faults>>

DialFails ==
    /\ loop = "dial"
    /\ IF cancelled THEN UNCHANGED faults ELSE Fault
    /\ Return(TRUE)
    /\ UNCHANGED <<backoff, cancelled, connected, reader, nodeVars>>

\* The first message is auth.success, or already one of any kind.  A ping that
\* comes first is due to nobody: only the reader answers one.
Authenticate ==
    /\ loop = "auth" /\ link = "up"
    /\ connected' = TRUE
    /\ first' \in Kinds \cup {None}
    /\ due' = IF first' \in Data THEN first' ELSE None
    /\ loop' = "up"
    /\ UNCHANGED <<failed, backoff, cancelled, link, inbound, reader, errCh,
                   queue, nodeVars, faults>>

\* Mutant: a refused handshake ends Run.
AuthFailsFinal ==
    /\ loop = "auth"
    /\ IF link = "up" THEN Fault ELSE UNCHANGED faults
    /\ loop' = "returned" /\ link' = "none"
    /\ UNCHANGED <<failed, backoff, cancelled, connected, first, inbound, reader,
                   errCh, queue, due, nodeVars>>

\* It is an error, or the connection breaks before it.
AuthFails ==
    /\ loop = "auth"
    /\ IF link = "up" THEN Fault ELSE UNCHANGED faults
    /\ Return(TRUE)
    /\ UNCHANGED <<backoff, cancelled, connected, reader, nodeVars>>

\* Mutant: only a first message sets the flag.
NotifyUpIfGreeted ==
    /\ loop = "up"
    /\ IF first = None THEN Notify(TRUE) ELSE UNCHANGED nodeVars
    /\ loop' = IF first = None THEN "begin" ELSE "first"
    /\ UNCHANGED <<failed, backoff, cancelled, connected, linkVars, faults>>

NotifyUp ==
    /\ loop = "up"
    /\ Notify(TRUE)
    /\ loop' = IF first = None THEN "begin" ELSE "first"
    /\ UNCHANGED <<failed, backoff, cancelled, connected, linkVars, faults>>

\* Mutant: a full list without users is dropped.
DeliveredUnlessEmpty(kind) == kind \in Data \ {"empty"}

\* handleMessage: an event goes to onEvent; a full list without users is one
\* like any other.
Delivered(kind) == kind \in Data

HandleFirst ==
    /\ loop = "first"
    /\ first' = None
    /\ due' = IF Delivered(first) THEN None ELSE due
    /\ loop' = "begin"
    /\ UNCHANGED <<failed, backoff, cancelled, connected, link, inbound, reader,
                   errCh, queue, nodeVars, faults>>

\* writeCh is made and the reading goroutine started.
Begin ==
    /\ loop = "begin"
    /\ loop' = "serve" /\ reader' = "read"
    /\ UNCHANGED <<failed, backoff, cancelled, connected, link, first, inbound,
                   errCh, queue, due, nodeVars, faults>>

ReadFailed ==
    /\ loop = "serve" /\ errCh
    /\ Return(TRUE)
    /\ UNCHANGED <<backoff, cancelled, connected, reader, nodeVars, faults>>

\* A message is queued if there is room; the caller never waits.
Queue(message) ==
    queue' = IF Len(queue) < WriteCap THEN Append(queue, message) ELSE queue

Tick ==
    /\ loop = "serve"
    /\ Queue("status")
    /\ UNCHANGED <<loop, failed, backoff, cancelled, connected, link, first,
                   inbound, reader, errCh, due, nodeVars, faults>>

Write ==
    /\ loop = "serve" /\ queue # <<>>
    /\ IF link = "up"
       THEN /\ queue' = Tail(queue)
            /\ due' = IF Head(queue) = "pong" THEN None ELSE due
            /\ UNCHANGED <<loop, failed, link, first, inbound, errCh>>
       ELSE Return(TRUE)
    /\ UNCHANGED <<backoff, cancelled, connected, reader, nodeVars, faults>>

\* ctx is done: the close frame is sent and the reader waited for.
Closing ==
    /\ loop = "serve" /\ cancelled
    /\ loop' = "closing"
    /\ UNCHANGED <<failed, backoff, cancelled, connected, linkVars, nodeVars,
                   faults>>

Closed ==
    /\ loop = "closing" /\ reader = "none"
    /\ Return(FALSE)
    /\ UNCHANGED <<backoff, cancelled, connected, reader, nodeVars, faults>>

\* Mutant: a lost connection that had been up reports nothing.
SwapIfFailed ==
    /\ loop = "down"
    /\ connected' = FALSE
    /\ loop' = IF failed THEN "report" ELSE "check"
    /\ UNCHANGED <<failed, backoff, cancelled, linkVars, nodeVars, faults>>

\* connected.Swap(false); a status is due if it was set or connect failed.
Swap ==
    /\ loop = "down"
    /\ connected' = FALSE
    /\ loop' = IF connected \/ failed THEN "report" ELSE "check"
    /\ UNCHANGED <<failed, backoff, cancelled, linkVars, nodeVars, faults>>

NotifyDown ==
    /\ loop = "report"
    /\ Notify(FALSE)
    /\ loop' = "check"
    /\ UNCHANGED <<failed, backoff, cancelled, connected, linkVars, faults>>

\* The back-off is reset if the connection was up for two minutes.
Check ==
    /\ loop = "check"
    /\ loop' = IF cancelled THEN "returned" ELSE "wait"
    /\ backoff' \in {backoff, BackoffInitial}
    /\ UNCHANGED <<failed, cancelled, connected, linkVars, nodeVars, faults>>

Doubled(b) ==
    IF b >= BackoffMax THEN b ELSE IF b * 2 < BackoffMax THEN b * 2 ELSE BackoffMax

\* The wait is longer than what the old reader needs for its last message.
Wait ==
    /\ loop = "wait" /\ (cancelled \/ reader = "none")
    /\ IF cancelled THEN loop' = "returned" /\ UNCHANGED backoff
       ELSE loop' = "dial" /\ backoff' = Doubled(backoff)
    /\ UNCHANGED <<failed, cancelled, connected, linkVars, nodeVars, faults>>

-----------------------------------------------------------------------------
(* The reading goroutine.                                                  *)

Read ==
    /\ reader = "read" /\ link = "up" /\ inbound # None
    /\ reader' = inbound /\ inbound' = None
    /\ UNCHANGED <<loop, failed, backoff, cancelled, connected, link, first,
                   errCh, queue, due, nodeVars, faults>>

\* handleMessage, and the answer to a ping.
Handle ==
    /\ reader \in Kinds
    /\ reader' = "read"
    /\ due' = IF Delivered(reader) THEN None ELSE due
    /\ IF reader = "ping" /\ loop = "serve" THEN Queue("pong")
       ELSE UNCHANGED queue
    /\ UNCHANGED <<loop, failed, backoff, cancelled, connected, link, first,
                   inbound, errCh, nodeVars, faults>>

\* Mutant: the reader waits for somebody to take its error.
ReadErrorBlocking ==
    /\ reader = "read" /\ link # "up" /\ loop = "serve"
    /\ reader' = "none"
    /\ errCh' = TRUE
    /\ UNCHANGED <<loop, failed, backoff, cancelled, connected, link, first,
                   inbound, queue, due, nodeVars, faults>>

\* The error is handed to the serving loop, or to nobody.
ReadError ==
    /\ reader = "read" /\ link # "up"
    /\ reader' = "none"
    /\ errCh' = (loop = "serve")
    /\ UNCHANGED <<loop, failed, backoff, cancelled, connected, link, first,
                   inbound, queue, due, nodeVars, faults>>

-----------------------------------------------------------------------------
(* The others.                                                             *)

\* SendDeviceReport, SendNodeStatus, SendRaw, SendReportLogs and SendOpAck.
Send ==
    /\ connected
    /\ IF loop = "serve" THEN Queue("app") ELSE UNCHANGED queue
    /\ UNCHANGED <<loop, failed, backoff, cancelled, connected, link, first,
                   inbound, reader, errCh, due, nodeVars, faults>>

\* External: one message at a time is followed.
PanelSends ==
    /\ loop = "serve" /\ link = "up" /\ inbound = None /\ due = None
    /\ \E kind \in Kinds :
        /\ inbound' = kind
        /\ due' = IF kind = "bad" THEN None ELSE kind
    /\ UNCHANGED <<loop, failed, backoff, cancelled, connected, link, first,
                   reader, errCh, queue, nodeVars, faults>>

\* External: the panel answers a close frame by closing the connection.
PanelCloses ==
    /\ loop = "closing" /\ link = "up"
    /\ link' = "broken"
    /\ UNCHANGED <<loop, failed, backoff, cancelled, connected, first, inbound,
                   reader, errCh, queue, due, nodeVars, faults>>

LinkBreaks ==
    /\ link = "up" /\ Fault
    /\ link' = "broken"
    /\ UNCHANGED <<loop, failed, backoff, cancelled, connected, first, inbound,
                   reader, errCh, queue, due, nodeVars>>

Cancel ==
    /\ ~cancelled
    /\ cancelled' = TRUE
    /\ UNCHANGED <<loop, failed, backoff, connected, linkVars, nodeVars, faults>>

\* The node's main loop.
TakeStatus ==
    /\ statuses # <<>>
    /\ seen' = Head(statuses) /\ statuses' = Tail(statuses)
    /\ UNCHANGED <<loop, failed, backoff, cancelled, connected, linkVars,
                   dropped, faults>>

Run ==
    \/ Dial \/ DialFails \/ Authenticate \/ AuthFails \/ NotifyUp \/ HandleFirst
    \/ Begin \/ ReadFailed \/ Closing \/ Closed \/ Swap \/ NotifyDown \/ Check
    \/ Wait
Reader == Read \/ Handle \/ ReadError

Next ==
    \/ Run \/ Tick \/ Write \/ Reader \/ Send \/ PanelSends \/ PanelCloses
    \/ LinkBreaks \/ Cancel \/ TakeStatus

Spec == Init /\ [][Next]_vars

\* The goroutines make progress; the select of the serving loop comes to every
\* case that stays ready; the panel sends its first message and closes a
\* connection when it is asked to.
Fairness ==
    /\ WF_vars(Run) /\ WF_vars(Reader) /\ WF_vars(TakeStatus)
    /\ SF_vars(Write) /\ SF_vars(ReadFailed) /\ SF_vars(Closing)
    /\ WF_vars(PanelCloses)

FairSpec == Spec /\ Fairness

-----------------------------------------------------------------------------
\* What the node has read and what waits in its channel end with the state of
\* the connection, once Run has reported it, as long as the channel was never
\* full: the node does not take a dead connection for a live one.
StatusIsCurrent ==
    ~dropped /\ loop \notin {"up", "down", "report"} =>
        connected = IF statuses = <<>> THEN seen ELSE statuses[Len(statuses)]

\* Where the flag is set and where it is not.
FlagFollowsLoop ==
    /\ loop \in {"up", "first", "begin", "serve", "closing"} => connected
    /\ loop \in {"dial", "auth", "report", "check", "wait", "returned"} => ~connected

\* What the node will have read when its channel is empty.
Last == IF statuses = <<>> THEN seen ELSE statuses[Len(statuses)]

IInv ==
    /\ TypeOK /\ FlagFollowsLoop
    /\ ~dropped /\ loop \notin {"up", "report"} => connected = Last

\* The client is a WSLink; a report is owed where Run is about to make it.
owed ==
    CASE loop = "up" -> TRUE [] loop = "report" -> FALSE [] OTHER -> None
Link == INSTANCE WSLink WITH channel <- statuses
ImplementsLink == Link!Spec

\* However often dials, handshakes and connections fail, the client connects
\* again in the end and the node gets to know, unless the client is stopped or
\* the node's channel was full at a change.
Reconnects ==
    <>[](cancelled \/ dropped \/ (connected /\ seen))

\* A cancelled context ends Run in every state of the connection.
ShutdownCompletes == cancelled ~> loop = "returned"

\* While the connection does not fail, an event of the panel reaches the
\* service, an empty list of users among them, and a ping is answered unless
\* it is the first message or the write channel is full.
MessagesHandled ==
    [](faults = MaxFaults /\ ~cancelled /\ Len(queue) < WriteCap)
        => [](due # None => <>(due = None))
=============================================================================
