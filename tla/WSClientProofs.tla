--------------------------- MODULE WSClientProofs ---------------------------
(***************************************************************************)
(* For every capacity, back-off and number of failures: the WebSocket      *)
(* client is a WSLink, and a node whose channel was never full has read, or*)
(* has waiting for it, the state of the connection.                        *)
(***************************************************************************)
EXTENDS WSClient, SequenceTheorems, TLAPS

USE DEF Kinds, Data, Outgoing, Labels

-----------------------------------------------------------------------------
(* Types.                                                                  *)

LEMMA DoubledInRange ==
    ASSUME NEW b \in BackoffInitial..BackoffLimit
    PROVE  Doubled(b) \in BackoffInitial..BackoffLimit
BY ClientAssumption DEF Doubled, BackoffLimit

LEMMA QueueTyped ==
    ASSUME TypeOK, NEW message \in Outgoing, Queue(message)
    PROVE  queue' \in Seq(Outgoing) /\ Len(queue') <= WriteCap
BY ClientAssumption DEF TypeOK, Queue

LEMMA NotifyTyped ==
    ASSUME TypeOK, NEW status \in BOOLEAN, Notify(status)
    PROVE  /\ statuses' \in Seq(BOOLEAN) /\ Len(statuses') <= StatusCap
           /\ seen' \in BOOLEAN /\ dropped' \in BOOLEAN
<1>1. statuses \in Seq(BOOLEAN) /\ Len(statuses) <= StatusCap
    BY DEF TypeOK
<1>4. seen' \in BOOLEAN /\ dropped' \in BOOLEAN
    BY DEF TypeOK, Notify
<1>2. CASE Len(statuses) < StatusCap
    <2>1. statuses' = Append(statuses, status)
        BY <1>2 DEF Notify
    <2>2. Append(statuses, status) \in Seq(BOOLEAN)
          /\ Len(Append(statuses, status)) = Len(statuses) + 1
        BY <1>1, AppendProperties
    <2>3. Len(Append(statuses, status)) <= StatusCap
        BY <1>1, <1>2, <2>2, LenProperties, ClientAssumption
    <2> QED BY <2>1, <2>2, <2>3, <1>4
<1>3. CASE ~(Len(statuses) < StatusCap)
    <2>1. statuses' = statuses
        BY <1>3 DEF Notify
    <2> QED BY <1>1, <1>4, <2>1
<1> QED BY <1>2, <1>3, <1>4

LEMMA ReturnTyped ==
    ASSUME TypeOK, NEW err \in BOOLEAN, Return(err)
    PROVE  /\ loop' \in Labels /\ failed' \in BOOLEAN
           /\ link' \in {"none", "up", "broken"}
           /\ first' \in Kinds \cup {None} /\ inbound' \in Kinds \cup {None}
           /\ errCh' \in BOOLEAN /\ due' \in Data \cup {"ping", None}
           /\ queue' \in Seq(Outgoing) /\ Len(queue') <= WriteCap
<1>1. /\ queue' = <<>> /\ Len(queue') = 0
    BY DEF Return
<1>2. queue' \in Seq(Outgoing) /\ Len(queue') <= WriteCap
    BY <1>1, ClientAssumption
<1> QED BY <1>2 DEF Return

LEMMA FaultTyped ==
    ASSUME TypeOK, Fault \/ UNCHANGED faults
    PROVE  faults' \in 0..MaxFaults
BY ClientAssumption DEF TypeOK, Fault

LEMMA TypeInitially == Init => TypeOK
<1> SUFFICES ASSUME Init PROVE TypeOK
    OBVIOUS
<1>1. queue \in Seq(Outgoing) /\ Len(queue) <= WriteCap
    BY EmptySeq, ClientAssumption DEF Init
<1>2. statuses \in Seq(BOOLEAN) /\ Len(statuses) <= StatusCap
    BY EmptySeq, ClientAssumption DEF Init
<1>3. BackoffInitial \in BackoffInitial..BackoffLimit /\ MaxFaults \in 0..MaxFaults
    BY ClientAssumption DEF BackoffLimit
<1> QED BY <1>1, <1>2, <1>3 DEF Init, TypeOK

LEMMA TypeStep == TypeOK /\ [Next]_vars => TypeOK'
<1> SUFFICES ASSUME TypeOK, [Next]_vars PROVE TypeOK'
    OBVIOUS
<1> USE DEF linkVars, nodeVars
<1>1. CASE DialFails \/ AuthFails
    <2>1. faults' \in 0..MaxFaults
        BY <1>1, FaultTyped DEF DialFails, AuthFails
    <2>2. Return(TRUE) /\ UNCHANGED <<backoff, cancelled, connected, reader, nodeVars>>
        BY <1>1 DEF DialFails, AuthFails
    <2> QED BY <2>1, <2>2, ReturnTyped DEF TypeOK
<1>2. CASE NotifyUp \/ NotifyDown
    <2>1. /\ statuses' \in Seq(BOOLEAN) /\ Len(statuses') <= StatusCap
          /\ seen' \in BOOLEAN /\ dropped' \in BOOLEAN
        BY <1>2, NotifyTyped DEF NotifyUp, NotifyDown
    <2>2. loop' \in Labels
        BY <1>2 DEF NotifyUp, NotifyDown
    <2>3. UNCHANGED <<failed, backoff, cancelled, connected, linkVars, faults>>
        BY <1>2 DEF NotifyUp, NotifyDown
    <2> QED BY <2>1, <2>2, <2>3 DEF TypeOK
<1>3. CASE Dial \/ Authenticate \/ HandleFirst \/ Begin \/ Closing \/ Swap
    <2>1. CASE Dial
        BY <2>1 DEF TypeOK, Dial
    <2>2. CASE Authenticate
        BY <2>2 DEF TypeOK, Authenticate
    <2>3. CASE HandleFirst
        BY <2>3 DEF TypeOK, HandleFirst
    <2>4. CASE Begin \/ Closing
        BY <2>4 DEF TypeOK, Begin, Closing
    <2>5. CASE Swap
        <3>1. loop' \in Labels
            BY <2>5 DEF Swap
        <3>2. connected' \in BOOLEAN
            BY <2>5 DEF Swap
        <3>3. UNCHANGED <<failed, backoff, cancelled, linkVars, nodeVars, faults>>
            BY <2>5 DEF Swap
        <3> QED BY <3>1, <3>2, <3>3 DEF TypeOK
    <2> QED BY <1>3, <2>1, <2>2, <2>3, <2>4, <2>5
<1>4. CASE ReadFailed \/ Closed
    <2>1. \E err \in BOOLEAN : Return(err)
        BY <1>4 DEF ReadFailed, Closed
    <2>2. UNCHANGED <<backoff, cancelled, connected, reader, nodeVars, faults>>
        BY <1>4 DEF ReadFailed, Closed
    <2> QED BY <2>1, <2>2, ReturnTyped DEF TypeOK
<1>5. CASE Check \/ Wait
    <2>1. backoff' \in BackoffInitial..BackoffLimit
        <3>1. backoff \in BackoffInitial..BackoffLimit
            BY DEF TypeOK
        <3>2. backoff' \in {backoff, BackoffInitial, Doubled(backoff)}
            BY <1>5 DEF Check, Wait
        <3>3. BackoffInitial \in BackoffInitial..BackoffLimit
            BY ClientAssumption DEF BackoffLimit
        <3> QED BY <3>1, <3>2, <3>3, DoubledInRange
    <2>2. loop' \in Labels
        BY <1>5 DEF Check, Wait
    <2>3. UNCHANGED <<failed, cancelled, connected, linkVars, nodeVars, faults>>
        BY <1>5 DEF Check, Wait
    <2> QED BY <2>1, <2>2, <2>3 DEF TypeOK
<1>6. CASE Tick \/ Send
    <2>1. queue' \in Seq(Outgoing) /\ Len(queue') <= WriteCap
        BY <1>6, QueueTyped DEF TypeOK, Tick, Send
    <2> QED BY <1>6, <2>1 DEF TypeOK, Tick, Send
<1>7. CASE Write
    <2>1. UNCHANGED <<backoff, cancelled, connected, reader, nodeVars, faults>>
        BY <1>7 DEF Write
    <2>2. CASE link = "up"
        <3>1. queue' \in Seq(Outgoing) /\ Len(queue') <= WriteCap
            <4>1. /\ queue \in Seq(Outgoing) /\ Len(queue) <= WriteCap
                  /\ queue # <<>> /\ queue' = Tail(queue)
                BY <1>7, <2>2 DEF TypeOK, Write
            <4> QED BY <4>1, HeadTailProperties, LenProperties, ClientAssumption
        <3>2. due' \in Data \cup {"ping", None}
            BY <1>7, <2>2 DEF TypeOK, Write
        <3>3. UNCHANGED <<loop, failed, link, first, inbound, errCh>>
            BY <1>7, <2>2 DEF Write
        <3> QED BY <2>1, <3>1, <3>2, <3>3 DEF TypeOK
    <2>3. CASE link # "up"
        BY <1>7, <2>1, <2>3, ReturnTyped DEF TypeOK, Write
    <2> QED BY <2>2, <2>3
<1>8. CASE Reader
    <2>1. queue' \in Seq(Outgoing) /\ Len(queue') <= WriteCap
        BY <1>8, QueueTyped DEF TypeOK, Reader, Read, Handle, ReadError
    <2>2. CASE Read
        BY <2>1, <2>2 DEF TypeOK, Read
    <2>3. CASE Handle
        <3>1. due' \in Data \cup {"ping", None} /\ reader' \in Kinds \cup {"none", "read"}
            BY <2>3 DEF TypeOK, Handle
        <3>2. UNCHANGED <<loop, failed, backoff, cancelled, connected, link, first,
                          inbound, errCh, nodeVars, faults>>
            BY <2>3 DEF Handle
        <3> QED BY <2>1, <3>1, <3>2 DEF TypeOK
    <2>4. CASE ReadError
        <3>1. errCh' \in BOOLEAN /\ reader' \in Kinds \cup {"none", "read"}
            BY <2>4 DEF ReadError
        <3>2. UNCHANGED <<loop, failed, backoff, cancelled, connected, link, first,
                          inbound, queue, due, nodeVars, faults>>
            BY <2>4 DEF ReadError
        <3> QED BY <3>1, <3>2 DEF TypeOK
    <2> QED BY <1>8, <2>2, <2>3, <2>4 DEF Reader
<1>9. CASE LinkBreaks
    <2>1. faults' \in 0..MaxFaults
        BY <1>9, FaultTyped DEF LinkBreaks
    <2> QED BY <1>9, <2>1 DEF TypeOK, LinkBreaks
<1>10. CASE PanelSends \/ PanelCloses \/ Cancel
    <2>1. CASE PanelSends
        <3>1. inbound' \in Kinds /\ due' \in Data \cup {"ping", None}
            BY <2>1 DEF PanelSends
        <3>2. UNCHANGED <<loop, failed, backoff, cancelled, connected, link, first,
                          reader, errCh, queue, nodeVars, faults>>
            BY <2>1 DEF PanelSends
        <3> QED BY <3>1, <3>2 DEF TypeOK
    <2>2. CASE PanelCloses
        BY <2>2 DEF TypeOK, PanelCloses
    <2>3. CASE Cancel
        BY <2>3 DEF TypeOK, Cancel
    <2> QED BY <1>10, <2>1, <2>2, <2>3
<1>11. CASE TakeStatus
    <2>1. /\ statuses' \in Seq(BOOLEAN) /\ Len(statuses') <= StatusCap
          /\ seen' \in BOOLEAN
        <3>1. statuses \in Seq(BOOLEAN) /\ Len(statuses) <= StatusCap /\ statuses # <<>>
            BY <1>11 DEF TypeOK, TakeStatus
        <3>2. Head(statuses) \in BOOLEAN /\ Tail(statuses) \in Seq(BOOLEAN)
              /\ Len(Tail(statuses)) = Len(statuses) - 1
            BY <3>1, HeadTailProperties
        <3>3. Len(Tail(statuses)) <= StatusCap
            BY <3>1, <3>2, LenProperties, ClientAssumption
        <3> QED BY <1>11, <3>2, <3>3 DEF TakeStatus
    <2> QED BY <1>11, <2>1 DEF TypeOK, TakeStatus
<1>12. CASE UNCHANGED vars
    BY <1>12 DEF TypeOK, vars
<1> QED BY <1>1, <1>2, <1>3, <1>4, <1>5, <1>6, <1>7, <1>8, <1>9, <1>10, <1>11,
           <1>12 DEF Next, Run, Reader

-----------------------------------------------------------------------------
(* The flag and the last status.                                           *)

\* A step that is not one of Run moves neither the loop past its labels nor
\* the flag; Write may end connect.
LEMMA FlagStep == TypeOK /\ FlagFollowsLoop /\ [Next]_vars => FlagFollowsLoop'
<1> SUFFICES ASSUME TypeOK, FlagFollowsLoop, [Next]_vars PROVE FlagFollowsLoop'
    OBVIOUS
<1>1. CASE Run
    <2>1. CASE Dial \/ DialFails \/ Authenticate \/ AuthFails
        BY <2>1 DEF FlagFollowsLoop, Dial, DialFails, Authenticate, AuthFails, Return
    <2>2. CASE NotifyUp
        BY <2>2 DEF FlagFollowsLoop, NotifyUp
    <2>3. CASE HandleFirst \/ Begin \/ ReadFailed \/ Closing \/ Closed
        BY <2>3 DEF FlagFollowsLoop, HandleFirst, Begin, ReadFailed, Closing,
                    Closed, Return
    <2>4. CASE Swap
        <3>1. connected' = FALSE /\ loop' \in {"report", "check"}
            BY <2>4 DEF Swap
        <3> QED BY <3>1 DEF FlagFollowsLoop
    <2>5. CASE NotifyDown
        BY <2>5 DEF FlagFollowsLoop, NotifyDown
    <2>6. CASE Check \/ Wait
        <3>1. connected' = connected /\ loop' \in {"returned", "wait", "dial"}
              /\ loop \in {"check", "wait"}
            BY <2>6 DEF Check, Wait
        <3> QED BY <3>1 DEF FlagFollowsLoop
    <2> QED BY <1>1, <2>1, <2>2, <2>3, <2>4, <2>5, <2>6 DEF Run
<1>2. CASE Write
    BY <1>2 DEF FlagFollowsLoop, Write, Return
<1>3. CASE ~Run /\ ~Write
    <2>1. UNCHANGED <<loop, connected>>
        BY <1>3 DEF Next, Tick, Reader, Read, Handle, ReadError, Send, PanelSends,
                    PanelCloses, LinkBreaks, Cancel, TakeStatus, vars
    <2> QED BY <2>1 DEF FlagFollowsLoop
<1> QED BY <1>1, <1>2, <1>3

LastKnown == ~dropped /\ loop \notin {"up", "report"} => connected = Last

\* A status that finds room is the last one.
LEMMA NotifyIsLast ==
    ASSUME TypeOK, NEW status \in BOOLEAN, Notify(status), ~dropped'
    PROVE  Last' = status
<1>1. Len(statuses) < StatusCap
    <2>1. Len(statuses) \in Nat /\ ~(Len(statuses) >= StatusCap)
        BY LenProperties DEF TypeOK, Notify
    <2> QED BY <2>1, ClientAssumption
<1>2. statuses' = Append(statuses, status)
    BY <1>1 DEF Notify
<1>3. statuses \in Seq(BOOLEAN)
    BY DEF TypeOK
<1>4. /\ Append(statuses, status) # <<>>
      /\ Append(statuses, status)[Len(statuses) + 1] = status
      /\ Len(Append(statuses, status)) = Len(statuses) + 1
    BY <1>3, AppendProperties
<1> QED BY <1>2, <1>4 DEF Last

\* Reading a status does not change which one is the last.
LEMMA ReadKeepsLast ==
    ASSUME TypeOK, TakeStatus
    PROVE  Last' = Last
<1>1. statuses \in Seq(BOOLEAN) /\ statuses # <<>>
      /\ seen' = Head(statuses) /\ statuses' = Tail(statuses)
    BY DEF TypeOK, TakeStatus
<1>2. ASSUME NEW S, NEW s \in Seq(S), s # <<>>
      PROVE  IF Tail(s) = <<>> THEN Head(s) = s[Len(s)]
             ELSE Tail(s)[Len(Tail(s))] = s[Len(s)]
    <2>1. /\ Len(s) \in Nat \ {0} /\ Head(s) = s[1]
          /\ Tail(s) \in Seq(S) /\ Len(Tail(s)) = Len(s) - 1
          /\ \A i \in 1..Len(Tail(s)) : Tail(s)[i] = s[i + 1]
        BY <1>2, EmptySeq, HeadTailProperties
    <2>2. CASE Tail(s) = <<>>
        <3>1. Len(Tail(s)) = 0
            BY <2>2, EmptySeq
        <3>2. Len(s) \in Nat /\ Len(s) - 1 = 0 /\ Head(s) = s[1]
            BY <2>1, <3>1
        <3>3. Len(s) = 1
            BY <3>2
        <3>4. Head(s) = s[Len(s)]
            BY <3>2, <3>3
        <3> QED BY <2>2, <3>4
    <2>3. CASE Tail(s) # <<>>
        <3>1. Len(Tail(s)) \in Nat \ {0}
            BY <2>1, <2>3, EmptySeq
        <3>2. Len(Tail(s)) \in 1..Len(Tail(s)) /\ Len(Tail(s)) + 1 = Len(s)
            BY <2>1, <3>1
        <3> QED BY <2>1, <2>3, <3>2
    <2> QED BY <2>2, <2>3
<1>3. IF Tail(statuses) = <<>> THEN Head(statuses) = statuses[Len(statuses)]
      ELSE Tail(statuses)[Len(Tail(statuses))] = statuses[Len(statuses)]
    BY <1>1, <1>2
<1> QED BY <1>1, <1>3 DEF Last

LEMMA LastStep ==
    TypeOK /\ FlagFollowsLoop /\ LastKnown /\ [Next]_vars => LastKnown'
<1> SUFFICES ASSUME TypeOK, FlagFollowsLoop, LastKnown, [Next]_vars
             PROVE  LastKnown'
    OBVIOUS
<1>1. CASE NotifyUp
    <2>1. connected' = TRUE /\ Notify(TRUE)
        BY <1>1 DEF FlagFollowsLoop, NotifyUp, TypeOK
    <2>2. ~dropped' => Last' = TRUE
        BY <2>1, NotifyIsLast
    <2> QED BY <2>1, <2>2 DEF LastKnown
<1>2. CASE NotifyDown
    <2>1. connected' = FALSE /\ Notify(FALSE)
        BY <1>2 DEF FlagFollowsLoop, NotifyDown, TypeOK
    <2>2. ~dropped' => Last' = FALSE
        BY <2>1, NotifyIsLast
    <2> QED BY <2>1, <2>2 DEF LastKnown
<1>3. CASE TakeStatus
    BY <1>3, ReadKeepsLast DEF LastKnown, TakeStatus
<1>4. CASE ~NotifyUp /\ ~NotifyDown /\ ~TakeStatus
    <2>1. UNCHANGED nodeVars
        BY <1>4 DEF Next, Run, Dial, DialFails, Authenticate, AuthFails, HandleFirst,
                    Begin, ReadFailed, Closing, Closed, Swap, Check, Wait, Tick,
                    Write, Reader, Read, Handle, ReadError, Send, PanelSends,
                    PanelCloses, LinkBreaks, Cancel, vars
    <2>2. Last' = Last /\ dropped' = dropped
        BY <2>1 DEF Last, nodeVars
    <2>3. CASE Authenticate \/ Swap
        <3>1. CASE loop' \in {"up", "report"}
            BY <3>1 DEF LastKnown
        <3>2. CASE loop' \notin {"up", "report"}
            <4>1. /\ loop = "down" /\ connected' = FALSE /\ connected = FALSE
                BY <2>3, <3>2 DEF Authenticate, Swap, TypeOK
            <4> QED BY <2>2, <4>1 DEF LastKnown
        <3> QED BY <3>1, <3>2
    <2>4. CASE ~Authenticate /\ ~Swap
        <3>1. connected' = connected
            BY <1>4, <2>4 DEF Next, Run, Dial, DialFails, AuthFails, HandleFirst,
                    Begin, ReadFailed, Closing, Closed, Check, Wait, Tick, Return,
                    Write, Reader, Read, Handle, ReadError, Send, PanelSends,
                    PanelCloses, LinkBreaks, Cancel, vars
        <3>2. loop \in {"up", "report"} => loop' = loop
            BY <1>4, <2>4 DEF Next, Run, Dial, DialFails, AuthFails, HandleFirst,
                    Begin, ReadFailed, Closing, Closed, Check, Wait, Tick, Return,
                    Write, Reader, Read, Handle, ReadError, Send, PanelSends,
                    PanelCloses, LinkBreaks, Cancel, vars
        <3> QED BY <2>2, <3>1, <3>2 DEF LastKnown
    <2> QED BY <2>3, <2>4
<1> QED BY <1>1, <1>2, <1>3, <1>4

\* The inductive invariant: types, where the flag is set, what was reported.
THEOREM ClientInvariant == Spec => []IInv
<1>1. Init => IInv
    <2> SUFFICES ASSUME Init PROVE IInv
        OBVIOUS
    <2>1. TypeOK
        BY TypeInitially
    <2> QED BY <2>1 DEF Init, IInv, FlagFollowsLoop, Last
<1>2. IInv /\ [Next]_vars => IInv'
    BY TypeStep, FlagStep, LastStep DEF IInv, LastKnown
<1> QED BY <1>1, <1>2, PTL DEF Spec

\* The write channel and a node's status channel never exceed their capacity,
\* and the back-off is never below the initial one nor above the larger of the
\* initial one and the maximum: nothing requires that the maximum is larger.
THEOREM ClientTypeCorrect == Spec => []TypeOK
<1>1. IInv => TypeOK
    BY DEF IInv
<1> QED BY <1>1, ClientInvariant, PTL

\* A node whose channel was never full has read, or will read next, the state
\* of the connection.
THEOREM NodeKnowsConnection == Spec => []StatusIsCurrent
<1>1. IInv => StatusIsCurrent
    BY DEF IInv, Last, StatusIsCurrent
<1> QED BY <1>1, ClientInvariant, PTL

-----------------------------------------------------------------------------
(* The refinement.                                                         *)

LEMMA NextLink == IInv /\ [Next]_vars => [Link!Next]_(Link!vars)
<1> SUFFICES ASSUME IInv, [Next]_vars PROVE [Link!Next]_(Link!vars)
    OBVIOUS
<1>0. TRUE # None /\ FALSE # None
    BY ClientAssumption
<1>1. CASE Authenticate
    <2>1. owed = None /\ owed' = TRUE
        BY <1>1 DEF Authenticate, owed
    <2> QED BY <1>1, <2>1 DEF Authenticate, nodeVars, IInv, FlagFollowsLoop, Link!Next,
                              Link!Up
<1>2. CASE NotifyUp \/ NotifyDown
    <2>1. owed # None /\ owed' = None
        BY <1>0, <1>2 DEF NotifyUp, NotifyDown, owed
    <2>2. Notify(owed)
        BY <1>2 DEF NotifyUp, NotifyDown, owed
    <2>3. UNCHANGED <<connected, seen>>
        BY <1>2 DEF NotifyUp, NotifyDown, Notify
    <2> QED BY <2>1, <2>2, <2>3 DEF Notify, Link!Next, Link!Report
<1>3. CASE Swap
    <2>1. owed = None /\ UNCHANGED <<statuses, seen>>
        BY <1>3 DEF Swap, owed, nodeVars
    <2>2. CASE connected \/ failed
        <3>1. owed' = FALSE /\ connected' = FALSE
            BY <1>3, <2>2 DEF Swap, owed
        <3> QED BY <2>1, <3>1 DEF Link!Next, Link!Down
    <2>3. CASE ~(connected \/ failed)
        <3>1. owed' = None /\ connected' = connected
            BY <1>3, <2>3 DEF Swap, owed, IInv, TypeOK
        <3> QED BY <2>1, <3>1 DEF Link!vars
    <2> QED BY <2>2, <2>3
<1>4. CASE TakeStatus
    <2>1. UNCHANGED <<connected, owed>>
        BY <1>4 DEF TakeStatus, owed
    <2> QED BY <1>4, <2>1 DEF TakeStatus, Link!Next, Link!Read
<1>5. CASE ~Authenticate /\ ~NotifyUp /\ ~NotifyDown /\ ~Swap /\ ~TakeStatus
    <2>1. UNCHANGED <<connected, statuses, seen>>
        BY <1>5 DEF Next, Run, Dial, DialFails, AuthFails, HandleFirst, nodeVars,
                    Begin, ReadFailed, Closing, Closed, Check, Wait, Tick, Return,
                    Write, Reader, Read, Handle, ReadError, Send, PanelSends,
                    PanelCloses, LinkBreaks, Cancel, vars
    <2>2. loop' = loop \/ (loop \notin {"up", "report"} /\ loop' \notin {"up", "report"})
        BY <1>5 DEF Next, Run, Dial, DialFails, AuthFails, HandleFirst,
                    Begin, ReadFailed, Closing, Closed, Check, Wait, Tick, Return,
                    Write, Reader, Read, Handle, ReadError, Send, PanelSends,
                    PanelCloses, LinkBreaks, Cancel, vars
    <2>3. owed' = owed
        BY <2>2 DEF owed
    <2> QED BY <2>1, <2>3 DEF Link!vars
<1> QED BY <1>1, <1>2, <1>3, <1>4, <1>5

\* The client implements WSLink: every report is made after the change it
\* reports and before the next one, and read in this order.
THEOREM ClientImplementsLink == Spec => ImplementsLink
<1>1. Init => Link!Init
    BY DEF Init, Link!Init, owed
<1>2. IInv /\ [Next]_vars => [Link!Next]_(Link!vars)
    BY NextLink
<1> QED BY <1>1, <1>2, ClientInvariant, PTL DEF Spec, ImplementsLink, Link!Spec
=============================================================================
