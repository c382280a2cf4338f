--------------------------- MODULE TrafficProofs ----------------------------
(***************************************************************************)
(* What is proved of the traffic accounting for every set of users, every  *)
(* purge period and every bound: no byte is billed twice.                  *)
(***************************************************************************)
EXTENDS TrafficTracker, TLAPS

IInv == TypeOK /\ EachByteOnce

-----------------------------------------------------------------------------
(* Lemmas on the operators. *)

\* Plus adds per user, and Zero is its neutral element.
LEMMA PlusType ==
  ASSUME NEW a \in Traffic, NEW b \in Traffic
  PROVE  /\ Plus(a, b) \in Traffic
         /\ \A u \in UserIds : Plus(a, b)[u] = a[u] + b[u]
  BY DEF Plus, Traffic

LEMMA ZeroType == Zero \in Traffic /\ \A u \in UserIds : Zero[u] = 0
  BY DEF Zero, Traffic

\* A delta is a number of bytes, and taking over more of a counter never
\* yields more than was added to it and not yet taken over.
LEMMA DeltaType ==
  ASSUME NEW cum \in Nat, NEW prev \in Nat PROVE Delta(cum, prev) \in Nat
  BY DEF Delta

LEMMA DeltaGrows ==
  ASSUME NEW cum \in Nat, NEW prev \in Nat, NEW n \in Nat
  PROVE  Delta(cum + n, prev) <= n + Delta(cum, prev)
  BY DEF Delta

\* Nothing is left to take over once it was, or while nothing was counted.
LEMMA DeltaNothing ==
  ASSUME NEW c \in Nat PROVE Delta(c, c) = 0 /\ Delta(0, c) = 0
  BY DEF Delta

\* A snapshot of a flush is one of the live ones.
LEMMA FlushType ==
  ASSUME TypeOK, FlushAliveIPs
  PROVE  /\ live' \in AliveIPs /\ sentIPs' \in AliveIPs
         /\ aliveIPsDirty' \in BOOLEAN
<1>1. aliveIPsDirty' \in BOOLEAN
  BY DEF FlushAliveIPs
<1> QED
  BY <1>1 DEF TypeOK, FlushAliveIPs

-----------------------------------------------------------------------------
(* The types. *)

\* Initially everything is zero.
LEMMA InitType == Init => TypeOK
<1> SUFFICES ASSUME Init PROVE TypeOK
  OBVIOUS
<1>1. NoIPs \in AliveIPs
  BY DEF NoIPs, AliveIPs
<1>2. kernel.running \in BOOLEAN /\ aliveIPsDirty \in BOOLEAN
      /\ exited \in BOOLEAN /\ NoReport.active \in BOOLEAN
  BY DEF Init, NoReport
<1> QED
  BY <1>1, <1>2, ZeroType, TrafficAssumption DEF Init, TypeOK, NoReport

\* What the environment does keeps the types.
LEMMA EnvironmentType ==
  ASSUME TypeOK, Environment PROVE TypeOK'
<1> USE TrafficAssumption
<1>1. ASSUME NEW u \in UserIds, Use(u) PROVE TypeOK'
  BY <1>1 DEF TypeOK, Use, deltaVars, aliveVars, reportVars, Traffic
<1>2. ASSUME NEW ips \in AliveIPs, ConnsChange(ips) PROVE TypeOK'
  BY <1>2
     DEF TypeOK, ConnsChange, deltaVars, aliveVars, reportVars, ledger
<1>3. ASSUME NEW us \in SUBSET UserIds, UpdateUsers(us) PROVE TypeOK'
  BY <1>3
     DEF TypeOK, UpdateUsers, deltaVars, aliveVars, reportVars, ledger
<1>4. NoIPs \in AliveIPs
  BY DEF NoIPs, AliveIPs
<1>5. ASSUME NEW us \in SUBSET UserIds, KernelStart(us) PROVE TypeOK'
  BY <1>4, <1>5, ZeroType
     DEF TypeOK, KernelStart, deltaVars, aliveVars, reportVars, ledger
<1>6. ASSUME KernelStop PROVE TypeOK'
  <2>1. kernel' \in [running : BOOLEAN, users : SUBSET UserIds,
                     counter : Traffic, cumTraffic : Traffic]
    BY <1>6, ZeroType DEF TypeOK, KernelStop
  <2>2. budget' \in [kernel : 0..MaxKernelOps, users : 0..MaxUserOps,
                     conns : 0..MaxConnChanges, faults : 0..MaxReportFaults]
    BY <1>6 DEF TypeOK, KernelStop
  <2> QED
    BY <1>4, <1>6, <2>1, <2>2
       DEF TypeOK, KernelStop, deltaVars, aliveVars, reportVars, ledger
<1>7. ASSUME NEW arrived \in BOOLEAN, ReportFails(arrived) PROVE TypeOK'
  <2>1. NoReport \in [active : BOOLEAN, traffic : Traffic]
    BY ZeroType DEF NoReport
  <2>2. /\ pendingTraffic' \in Traffic
        /\ billed' \in Traffic /\ resent' \in Traffic
    BY <1>7, PlusType DEF TypeOK, ReportFails, RestoreTraffic
  <2>3. budget' \in [kernel : 0..MaxKernelOps, users : 0..MaxUserOps,
                     conns : 0..MaxConnChanges, faults : 0..MaxReportFaults]
    BY <1>7 DEF TypeOK, ReportFails
  <2>4. /\ report' = NoReport /\ pushBackoff' = 1
        /\ UNCHANGED <<kernel, conns, lastSeen, processCount, aliveVars,
                       exited, used>>
    BY <1>7 DEF ReportFails
  <2> QED
    BY <2>1, <2>2, <2>3, <2>4 DEF TypeOK, aliveVars
<1>8. ASSUME NEW delivered \in BOOLEAN, Shutdown(delivered) PROVE TypeOK'
  <2>1. billed' \in Traffic /\ pendingTraffic' \in Traffic
    BY <1>8, PlusType, ZeroType DEF TypeOK, Shutdown, FlushTraffic
  <2>2. kernel' \in [running : BOOLEAN, users : SUBSET UserIds,
                     counter : Traffic, cumTraffic : Traffic]
    BY <1>8, ZeroType DEF TypeOK, Shutdown
  <2>3. exited' \in BOOLEAN
    BY <1>8 DEF Shutdown
  <2>4. /\ live' \in AliveIPs /\ sentIPs' \in AliveIPs
        /\ aliveIPsDirty' \in BOOLEAN
    BY <1>8, FlushType DEF Shutdown
  <2> QED
    BY <1>4, <1>8, <2>1, <2>2, <2>3, <2>4 DEF TypeOK, Shutdown, reportVars
<1> QED
  BY <1>1, <1>2, <1>3, <1>5, <1>6, <1>7, <1>8 DEF Environment

\* Process and the reset of the counters it reads keep the types.
LEMMA TrackType == ASSUME TypeOK, TrackAndEnforce PROVE TypeOK'
<1>1. Cumulated \in Traffic
  BY PlusType DEF TypeOK, Cumulated
<1>2. lastSeen' \in Traffic
  BY <1>1 DEF TypeOK, TrackAndEnforce, Process, Traffic
<1>3. pendingTraffic' \in Traffic
  <2>1. ASSUME NEW u \in UserIds
        PROVE  Delta(Cumulated[u], lastSeen[u]) \in Nat
    BY <1>1, DeltaType DEF TypeOK, Traffic
  <2> QED
    BY <2>1 DEF TypeOK, TrackAndEnforce, Process, Traffic
<1>4. kernel' \in [running : BOOLEAN, users : SUBSET UserIds,
                   counter : Traffic, cumTraffic : Traffic]
  BY <1>1 DEF TypeOK, TrackAndEnforce, Traffic
<1>5. processCount' \in 0..(PurgeEvery - 1)
  BY TrafficAssumption DEF TypeOK, TrackAndEnforce, Process
<1>6. aliveIPsDirty' \in BOOLEAN
  BY DEF TrackAndEnforce, Process, TypeOK, AliveChanged
<1> QED
  BY <1>2, <1>3, <1>4, <1>5, <1>6
     DEF TypeOK, TrackAndEnforce, Process, reportVars, ledger

\* The reports keep the types.
LEMMA ReportType ==
  ASSUME TypeOK, PushReport \/ ReportSucceeds \/ SendDeviceBatch
  PROVE  TypeOK'
<1>1. NoReport \in [active : BOOLEAN, traffic : Traffic]
  BY ZeroType DEF NoReport
<1>2. CASE PushReport
  <2>1. CASE pushBackoff > 0 /\ pushBackoff' = pushBackoff - 1
             /\ UNCHANGED <<report, pendingTraffic, aliveVars>>
    BY <1>2, <2>1 DEF TypeOK, PushReport, aliveVars, ledger
  <2>2. CASE /\ report' = [active |-> TRUE, traffic |-> pendingTraffic]
             /\ FlushTraffic /\ FlushAliveIPs /\ UNCHANGED pushBackoff
    <3>1. report' \in [active : BOOLEAN, traffic : Traffic]
      BY <2>2 DEF TypeOK
    <3>2. pendingTraffic' \in Traffic
      BY <2>2, ZeroType DEF FlushTraffic
    <3> QED
      BY <1>2, <2>2, <3>1, <3>2, FlushType DEF TypeOK, PushReport, ledger
  <2> QED
    BY <1>2, <2>1, <2>2 DEF PushReport
<1>3. CASE ReportSucceeds
  BY <1>1, <1>3, PlusType DEF TypeOK, ReportSucceeds, deltaVars, aliveVars
<1>4. CASE SendDeviceBatch
  BY <1>4, FlushType DEF TypeOK, SendDeviceBatch, deltaVars, reportVars, ledger
<1> QED
  BY <1>2, <1>3, <1>4

\* Every step keeps the types.
LEMMA NextType == TypeOK /\ [Next]_vars => TypeOK'
<1> SUFFICES ASSUME TypeOK, [Next]_vars PROVE TypeOK'
  OBVIOUS
<1>1. CASE UNCHANGED vars
  BY <1>1
     DEF TypeOK, vars, deltaVars, aliveVars, reportVars, ledger
<1> QED
  BY <1>1, EnvironmentType, TrackType, ReportType DEF Next

\* Types: in particular no user's pending traffic is ever negative, and a
\* failed report skips one tick and never more.
THEOREM TrafficTypeCorrect == Spec => []TypeOK
  BY InitType, NextType, PTL DEF Spec

-----------------------------------------------------------------------------
(* No byte is in two places. *)

\* What is said to be in the node and at the panel for a user.
Placed(u) == billed[u] + report.traffic[u] + pendingTraffic[u]

\* What of a user may still be taken over.
Coming(u) == IF u \in kernel.users THEN Unseen(u) ELSE 0

\* The sums are numbers.
LEMMA SumsType ==
  ASSUME TypeOK, NEW u \in UserIds
  PROVE  /\ Placed(u) \in Nat /\ Coming(u) \in Nat
         /\ used[u] \in Nat /\ resent[u] \in Nat
<1>1. Delta(kernel.cumTraffic[u], lastSeen[u]) \in Nat
  BY DeltaType DEF TypeOK, Traffic
<1> QED
  BY <1>1 DEF TypeOK, Traffic, Placed, Coming, Unseen

\* Initially nothing is anywhere.
LEMMA InitOnce == Init => EachByteOnce
<1> SUFFICES ASSUME Init, NEW u \in UserIds
             PROVE  Placed(u) + Coming(u) <= used[u] + resent[u]
  BY DEF EachByteOnce, Placed, Coming
<1>1. Placed(u) = 0
  BY ZeroType DEF Init, Placed, NoReport
<1>2. Coming(u) = 0
  BY ZeroType DEF Init, Coming, Unseen, Delta
<1> QED
  BY <1>1, <1>2, ZeroType DEF Init

\* A step that leaves what is placed and may only lower what is coming.
LEMMA OnceKept ==
  ASSUME TypeOK, TypeOK', EachByteOnce, NEW u \in UserIds,
         Placed(u)' = Placed(u), Coming(u)' <= Coming(u),
         used[u]' = used[u], resent[u]' = resent[u]
  PROVE  Placed(u)' + Coming(u)' <= used[u]' + resent[u]'
<1>1. Placed(u) + Coming(u) <= used[u] + resent[u]
  BY DEF EachByteOnce, Placed, Coming
<1>2. Coming(u)' \in Nat
  BY SumsType DEF TypeOK, Coming, Unseen, Delta, Traffic
<1> QED
  BY <1>1, <1>2, SumsType

\* The environment: what is used is counted, a new instance has nothing to be
\* read, and a user that returns brings nothing that was read before.
LEMMA EnvironmentOnce ==
  ASSUME TypeOK, TypeOK', EachByteOnce, ~MayReturn, Environment,
         NEW u \in UserIds
  PROVE  Placed(u)' + Coming(u)' <= used[u]' + resent[u]'
<1>0. /\ Placed(u) + Coming(u) <= used[u] + resent[u]
      /\ Placed(u) \in Nat /\ Coming(u) \in Nat
      /\ used[u] \in Nat /\ resent[u] \in Nat
  BY SumsType DEF EachByteOnce, Placed, Coming
<1>1. ASSUME NEW v \in UserIds, Use(v)
      PROVE  Placed(u)' + Coming(u)' <= used[u]' + resent[u]'
  <2>1. Placed(u)' = Placed(u) /\ resent[u]' = resent[u]
    BY <1>1 DEF Use, Placed, reportVars, deltaVars
  <2>2. CASE u = v
    <3>1. Coming(u)' = Coming(u) + 1
      BY <1>1, <2>2, DeltaType
         DEF Use, Coming, Unseen, Delta, deltaVars, TypeOK, Traffic
    <3>2. used[u]' = used[u] + 1
      BY <1>1, <2>2 DEF Use, TypeOK, Traffic
    <3> QED
      BY <1>0, <2>1, <3>1, <3>2
  <2>3. CASE u # v
    <3>1. Coming(u)' = Coming(u)
      BY <1>1, <2>3 DEF Use, Coming, Unseen, Delta, deltaVars, TypeOK, Traffic
    <3>2. used[u]' = used[u]
      BY <1>1, <2>3 DEF Use, TypeOK, Traffic
    <3> QED
      BY <1>0, <2>1, <3>1, <3>2
  <2> QED
    BY <2>2, <2>3
<1>2. ASSUME NEW ips \in AliveIPs, ConnsChange(ips)
      PROVE  Placed(u)' + Coming(u)' <= used[u]' + resent[u]'
  BY <1>0, <1>2
     DEF ConnsChange, Placed, Coming, Unseen, reportVars, deltaVars, ledger
<1>3. ASSUME NEW us \in SUBSET UserIds, UpdateUsers(us)
      PROVE  Placed(u)' + Coming(u)' <= used[u]' + resent[u]'
  <2>1. /\ Placed(u)' = Placed(u)
        /\ used[u]' = used[u] /\ resent[u]' = resent[u]
    BY <1>3 DEF UpdateUsers, Placed, reportVars, deltaVars, ledger
  <2>2. CASE u \in us \ kernel.users
    <3>1. kernel.cumTraffic[u] = 0 /\ kernel.counter[u] = 0
      BY <1>3, <2>2 DEF UpdateUsers
    <3>2. kernel'.cumTraffic[u] = 0 /\ kernel'.counter[u] = 0
          /\ lastSeen'[u] \in Nat
      BY <1>3, <3>1 DEF UpdateUsers, TypeOK, deltaVars, Traffic
    <3>3. Coming(u)' = 0
      BY <3>2 DEF Coming, Unseen, Delta
    <3> QED
      BY <1>0, <2>1, <3>3
  <2>3. CASE u \notin us \ kernel.users
    <3>1. Coming(u)' = Coming(u) \/ Coming(u)' = 0
      BY <1>3, <2>3 DEF UpdateUsers, Coming, Unseen, Delta, TypeOK, deltaVars
    <3> QED
      BY <1>0, <2>1, <3>1
  <2> QED
    BY <2>2, <2>3
<1>4. ASSUME NEW us \in SUBSET UserIds, KernelStart(us)
      PROVE  Placed(u)' + Coming(u)' <= used[u]' + resent[u]'
  <2>1. /\ Placed(u)' = Placed(u)
        /\ used[u]' = used[u] /\ resent[u]' = resent[u]
    BY <1>4 DEF KernelStart, Placed, reportVars, deltaVars, ledger
  <2>2. kernel'.cumTraffic[u] = 0 /\ kernel'.counter[u] = 0
        /\ lastSeen'[u] \in Nat
    BY <1>4, ZeroType DEF KernelStart, TypeOK, deltaVars, Traffic
  <2>3. Coming(u)' = 0
    BY <2>2 DEF Coming, Unseen, Delta
  <2> QED
    BY <1>0, <2>1, <2>3
<1>5. ASSUME KernelStop
      PROVE  Placed(u)' + Coming(u)' <= used[u]' + resent[u]'
  <2>1. /\ Placed(u)' = Placed(u)
        /\ used[u]' = used[u] /\ resent[u]' = resent[u]
    BY <1>5 DEF KernelStop, Placed, reportVars, deltaVars, ledger
  <2>2. kernel'.counter[u] = 0 /\ kernel.counter[u] \in Nat
        /\ kernel'.cumTraffic = kernel.cumTraffic
        /\ kernel'.users = kernel.users /\ lastSeen' = lastSeen
    BY <1>5, ZeroType DEF KernelStop, TypeOK, deltaVars, Traffic
  <2>3. Delta(kernel.cumTraffic[u], lastSeen[u]) \in Nat
    BY DeltaType DEF TypeOK, Traffic
  <2>4. Coming(u)' <= Coming(u)
    BY <2>2, <2>3 DEF Coming, Unseen, Delta
  <2> QED
    BY <2>1, <2>4, OnceKept
<1>6. ASSUME NEW arrived \in BOOLEAN, ReportFails(arrived)
      PROVE  Placed(u)' + Coming(u)' <= used[u]' + resent[u]'
  <2>1. Coming(u)' = Coming(u) /\ used[u]' = used[u]
    BY <1>6 DEF ReportFails, Coming, Unseen, Delta
  <2>2. /\ pendingTraffic'[u] = pendingTraffic[u] + report.traffic[u]
        /\ report'.traffic[u] = 0
    BY <1>6, PlusType, ZeroType
       DEF ReportFails, RestoreTraffic, NoReport, TypeOK
  <2>3. CASE arrived
    <3>1. /\ billed'[u] = billed[u] + report.traffic[u]
          /\ resent'[u] = resent[u] + report.traffic[u]
      BY <1>6, <2>3, PlusType DEF ReportFails, TypeOK
    <3>2. Placed(u)' = Placed(u) + report.traffic[u]
      BY <2>2, <3>1 DEF Placed, TypeOK, Traffic
    <3> QED
      BY <1>0, <2>1, <3>1, <3>2 DEF TypeOK, Traffic
  <2>4. CASE ~arrived
    <3>1. billed' = billed /\ resent' = resent
      BY <1>6, <2>4 DEF ReportFails
    <3>2. Placed(u)' = Placed(u)
      BY <2>2, <3>1 DEF Placed, TypeOK, Traffic
    <3> QED
      BY <1>0, <2>1, <3>1, <3>2
  <2> QED
    BY <2>3, <2>4
<1>7. ASSUME NEW delivered \in BOOLEAN, Shutdown(delivered)
      PROVE  Placed(u)' + Coming(u)' <= used[u]' + resent[u]'
  <2>1. used[u]' = used[u] /\ resent[u]' = resent[u]
    BY <1>7 DEF Shutdown
  <2>2. kernel'.counter[u] = 0 /\ kernel.counter[u] \in Nat
        /\ kernel'.cumTraffic = kernel.cumTraffic
        /\ kernel'.users = kernel.users /\ lastSeen' = lastSeen
    BY <1>7, ZeroType DEF Shutdown, TypeOK, Traffic
  <2>3. Delta(kernel.cumTraffic[u], lastSeen[u]) \in Nat
    BY DeltaType DEF TypeOK, Traffic
  <2>4. Coming(u)' <= Coming(u)
    BY <2>2, <2>3 DEF Coming, Unseen, Delta
  <2>5. /\ pendingTraffic'[u] = 0 /\ report' = report
        /\ billed'[u] = billed[u] + pendingTraffic[u] \/ billed' = billed
    BY <1>7, PlusType, ZeroType
       DEF Shutdown, FlushTraffic, TypeOK, reportVars
  <2>6. Placed(u)' <= Placed(u)
    BY <2>5 DEF Placed, TypeOK, Traffic
  <2>7. Coming(u)' \in Nat /\ Placed(u)' \in Nat
    BY <2>2, <2>3, <2>5 DEF Coming, Unseen, Delta, Placed, TypeOK, Traffic
  <2> QED
    BY <1>0, <2>1, <2>4, <2>6, <2>7
<1> QED
  BY <1>1, <1>2, <1>3, <1>4, <1>5, <1>6, <1>7 DEF Environment

\* Process: what a user's counters yield is what was coming of it.
LEMMA TrackOnce ==
  ASSUME TypeOK, TypeOK', EachByteOnce, TrackAndEnforce, NEW u \in UserIds
  PROVE  Placed(u)' + Coming(u)' <= used[u]' + resent[u]'
<1>0. /\ Placed(u) + Coming(u) <= used[u] + resent[u]
      /\ Placed(u) \in Nat /\ Coming(u) \in Nat
      /\ used[u] \in Nat /\ resent[u] \in Nat
  BY SumsType DEF EachByteOnce, Placed, Coming
<1>1. used' = used /\ resent' = resent /\ billed' = billed
      /\ report' = report /\ kernel'.users = kernel.users
  BY DEF TrackAndEnforce, ledger, reportVars, TypeOK
<1>2. /\ Cumulated[u] = kernel.cumTraffic[u] + kernel.counter[u]
      /\ Cumulated[u] \in Nat
  BY PlusType DEF Cumulated, TypeOK, Traffic
<1>3. /\ kernel.cumTraffic[u] \in Nat /\ kernel.counter[u] \in Nat
      /\ lastSeen[u] \in Nat /\ pendingTraffic[u] \in Nat
      /\ billed[u] \in Nat /\ report.traffic[u] \in Nat
  BY DEF TypeOK, Traffic
<1>4. CASE u \notin kernel.users
  <2>1. pendingTraffic'[u] = pendingTraffic[u]
    BY <1>3, <1>4 DEF TrackAndEnforce, Process, Reported
  <2>2. Coming(u)' = Coming(u) /\ Placed(u)' = Placed(u)
    BY <1>1, <1>4, <2>1 DEF Coming, Placed
  <2> QED
    BY <1>0, <1>1, <2>2
<1>5. CASE u \in kernel.users
  <2>1. kernel'.counter[u] = 0 /\ kernel'.cumTraffic[u] = Cumulated[u]
    BY <1>5 DEF TrackAndEnforce, TypeOK, Traffic
  <2>2. CASE Cumulated[u] > 0
    <3>1. /\ lastSeen'[u] = Cumulated[u]
          /\ pendingTraffic'[u]
               = pendingTraffic[u] + Delta(Cumulated[u], lastSeen[u])
      BY <1>5, <2>2 DEF TrackAndEnforce, Process, Reported
    <3>2. Coming(u)' = 0
      BY <1>1, <1>2, <1>5, <2>1, <3>1 DEF Coming, Unseen, Delta
    <3>3. /\ Delta(Cumulated[u], lastSeen[u]) <= Coming(u)
          /\ Delta(Cumulated[u], lastSeen[u]) \in Nat
      BY <1>2, <1>3, <1>5, DeltaGrows, DeltaType DEF Coming, Unseen
    <3>4. Placed(u)' = Placed(u) + Delta(Cumulated[u], lastSeen[u])
      BY <1>1, <1>3, <3>1, <3>3 DEF Placed
    <3> QED
      BY <1>0, <1>1, <3>2, <3>3, <3>4
  <2>3. CASE Cumulated[u] = 0
    <3>1. pendingTraffic'[u] = pendingTraffic[u]
      BY <1>3, <2>3 DEF TrackAndEnforce, Process, Reported
    <3>2. lastSeen'[u] \in Nat
      BY DEF TypeOK, Traffic
    <3>3. Coming(u)' = 0
      BY <1>1, <1>5, <2>1, <2>3, <3>2 DEF Coming, Unseen, Delta
    <3>4. Placed(u)' = Placed(u)
      BY <1>1, <3>1 DEF Placed
    <3> QED
      BY <1>0, <1>1, <3>3, <3>4
  <2> QED
    BY <1>2, <2>2, <2>3
<1> QED
  BY <1>4, <1>5

\* The reports only move bytes from one place to the next.
LEMMA ReportOnce ==
  ASSUME TypeOK, TypeOK', EachByteOnce,
         PushReport \/ ReportSucceeds \/ SendDeviceBatch, NEW u \in UserIds
  PROVE  Placed(u)' + Coming(u)' <= used[u]' + resent[u]'
<1>0. /\ Placed(u) + Coming(u) <= used[u] + resent[u]
      /\ Placed(u) \in Nat /\ Coming(u) \in Nat
      /\ Placed(u)' \in Nat
      /\ used[u] \in Nat /\ resent[u] \in Nat
  BY SumsType DEF EachByteOnce, Placed, Coming, TypeOK, Traffic
<1>1. /\ pendingTraffic[u] \in Nat /\ billed[u] \in Nat
      /\ report.traffic[u] \in Nat
  BY DEF TypeOK, Traffic
<1>2. CASE PushReport
  <2>1. Coming(u)' = Coming(u) /\ used' = used /\ resent' = resent
        /\ billed' = billed
    BY <1>2 DEF PushReport, Coming, Unseen, Delta, ledger
  <2>2. CASE UNCHANGED <<report, pendingTraffic>>
    BY <1>0, <2>1, <2>2 DEF Placed
  <2>3. CASE /\ report' = [active |-> TRUE, traffic |-> pendingTraffic]
             /\ pendingTraffic' = Zero
    <3>1. report'.traffic[u] = pendingTraffic[u] /\ pendingTraffic'[u] = 0
      BY <2>3, ZeroType
    <3>2. Placed(u)' <= Placed(u)
      BY <1>1, <2>1, <3>1 DEF Placed
    <3> QED
      BY <1>0, <2>1, <3>2
  <2> QED
    BY <1>2, <2>2, <2>3 DEF PushReport, FlushTraffic
<1>3. CASE ReportSucceeds
  <2>1. Coming(u)' = Coming(u) /\ used' = used /\ resent' = resent
        /\ pendingTraffic' = pendingTraffic
    BY <1>3 DEF ReportSucceeds, Coming, Unseen, Delta, deltaVars
  <2>2. /\ billed'[u] = billed[u] + report.traffic[u]
        /\ report'.traffic[u] = 0
    BY <1>3, PlusType, ZeroType DEF ReportSucceeds, NoReport, TypeOK
  <2>3. Placed(u)' = Placed(u)
    BY <1>1, <2>1, <2>2 DEF Placed
  <2> QED
    BY <1>0, <2>1, <2>3
<1>4. CASE SendDeviceBatch
  BY <1>0, <1>4
     DEF SendDeviceBatch, Placed, Coming, Unseen, Delta, deltaVars,
         reportVars, ledger
<1> QED
  BY <1>2, <1>3, <1>4

\* Every step keeps each byte in one place.
LEMMA NextOnce ==
  ASSUME ~MayReturn PROVE IInv /\ [Next]_vars => IInv'
<1> SUFFICES ASSUME IInv, [Next]_vars PROVE IInv'
  OBVIOUS
<1>1. TypeOK /\ TypeOK' /\ EachByteOnce
  BY NextType DEF IInv
<1>2. SUFFICES ASSUME NEW u \in UserIds
               PROVE  Placed(u)' + Coming(u)' <= used[u]' + resent[u]'
  BY <1>1 DEF IInv, EachByteOnce, Placed, Coming
<1>3. CASE UNCHANGED vars
  <2>1. /\ Placed(u)' = Placed(u) /\ Coming(u)' = Coming(u)
        /\ used' = used /\ resent' = resent
    BY <1>3
       DEF vars, Placed, Coming, Unseen, Delta, deltaVars, reportVars, ledger
  <2> QED
    BY <1>1, <2>1 DEF EachByteOnce, Placed, Coming
<1> QED
  BY <1>1, <1>3, EnvironmentOnce, TrackOnce, ReportOnce DEF Next

\* As long as no user comes back to an instance that still has its cumulative
\* traffic, every byte a user moves is at any time in at most one of xray's
\* counters, the pending traffic, a report and the panel's bill.
THEOREM TrafficEachByteOnce ==
  ASSUME ~MayReturn PROVE Spec => []EachByteOnce
<1>1. Init => IInv
  BY InitType, InitOnce DEF IInv
<1>2. IInv => EachByteOnce
  BY DEF IInv
<1> QED
  BY <1>1, <1>2, NextOnce, PTL DEF Spec

\* So the panel never bills more than was moved, but for reports it read
\* without the node learning of it: restarts, purges, failing and overlapping
\* reports and a shutdown never count a byte twice (tracker.go: Process,
\* FlushTraffic, RestoreTraffic).
THEOREM TrafficNotOverbilled ==
  ASSUME ~MayReturn PROVE Spec => []NotOverbilled
<1>1. ASSUME TypeOK, EachByteOnce PROVE NotOverbilled
  <2> SUFFICES ASSUME NEW u \in UserIds
               PROVE  billed[u] <= used[u] + resent[u]
    BY DEF NotOverbilled
  <2>1. Placed(u) + Coming(u) <= used[u] + resent[u]
    BY <1>1 DEF EachByteOnce, Placed, Coming
  <2>2. Placed(u) >= billed[u] /\ billed[u] \in Nat
    BY <1>1 DEF Placed, TypeOK, Traffic
  <2> QED
    BY <1>1, <2>1, <2>2, SumsType
<1> QED
  BY <1>1, TrafficTypeCorrect, TrafficEachByteOnce, PTL
=============================================================================
