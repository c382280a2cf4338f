--------------------------- MODULE TrafficTracker ---------------------------
(***************************************************************************)
(* Traffic accounting of one node: xray's counters, which aggregateStats   *)
(* resets as it reads them, the kernel's cumulative traffic, the deltas    *)
(* and the alive IPs of internal/tracker/tracker.go, and the reports of    *)
(* internal/service/service.go, which fail, arrive late, or arrive without *)
(* their answer coming back.  Up- and downlink are kept by the same code   *)
(* on separate counters; one of them is modelled.                          *)
(***************************************************************************)
EXTENDS Integers, FiniteSets

CONSTANTS UserIds, IPs,
          PurgeEvery,       \* Process purges lastSeen every so many calls
          MayReturn,        \* a user may come back to the kernel it left
          MaxTraffic,       \* bytes a user moves
          MaxKernelOps, MaxUserOps, MaxConnChanges, MaxReportFaults

ASSUME TrafficAssumption ==
    /\ PurgeEvery \in Nat \ {0}
    /\ MayReturn \in BOOLEAN
    /\ {MaxTraffic, MaxKernelOps, MaxUserOps, MaxConnChanges,
        MaxReportFaults} \subseteq Nat

VARIABLES
    kernel,         \* running, users, xray's counter, cumTraffic
    conns,          \* the IPs connected now (LimitDispatcher)
    lastSeen, pendingTraffic, processCount,
    live,           \* aliveIPs of the live snapshot
    sentIPs,        \* what lastAliveIPsHash is the hash of
    aliveIPsDirty,
    report,         \* the push goroutine: pushActive and what it carries
    pushBackoff,
    exited,
    used, billed, resent,   \* what happened, as nobody in the code knows it
    budget

deltaVars == <<lastSeen, pendingTraffic, processCount>>
aliveVars == <<live, sentIPs, aliveIPsDirty>>
reportVars == <<report, pushBackoff>>
ledger == <<used, billed, resent>>
vars == <<kernel, conns, deltaVars, aliveVars, reportVars, exited, ledger,
          budget>>

Traffic == [UserIds -> Nat]
Zero == [u \in UserIds |-> 0]
Plus(a, b) == [u \in UserIds |-> a[u] + b[u]]
AliveIPs == [UserIds -> SUBSET IPs]
NoIPs == [u \in UserIds |-> {}]

\* No report is being sent.
NoReport == [active |-> FALSE, traffic |-> Zero]

TypeOK ==
    /\ kernel \in [running : BOOLEAN, users : SUBSET UserIds,
                   counter : Traffic, cumTraffic : Traffic]
    /\ conns \in AliveIPs /\ live \in AliveIPs /\ sentIPs \in AliveIPs
    /\ lastSeen \in Traffic
    /\ pendingTraffic \in Traffic
    /\ processCount \in 0..(PurgeEvery - 1)
    /\ aliveIPsDirty \in BOOLEAN
    /\ report \in [active : BOOLEAN, traffic : Traffic]
    /\ pushBackoff \in {0, 1}
    /\ exited \in BOOLEAN
    /\ used \in Traffic /\ billed \in Traffic /\ resent \in Traffic
    /\ budget \in [kernel : 0..MaxKernelOps, users : 0..MaxUserOps,
                   conns : 0..MaxConnChanges, faults : 0..MaxReportFaults]

Init ==
    /\ kernel = [running |-> TRUE, users |-> UserIds, counter |-> Zero,
                 cumTraffic |-> Zero]
    /\ conns = NoIPs
    /\ lastSeen = Zero /\ pendingTraffic = Zero /\ processCount = 0
    /\ live = NoIPs /\ sentIPs = NoIPs /\ aliveIPsDirty = FALSE
    /\ report = NoReport /\ pushBackoff = 0
    /\ exited = FALSE
    /\ used = Zero /\ billed = Zero /\ resent = Zero
    /\ budget = [kernel |-> MaxKernelOps, users |-> MaxUserOps,
                 conns |-> MaxConnChanges, faults |-> MaxReportFaults]

-----------------------------------------------------------------------------
(* The users and xray, which counts what they move. *)

Use(u) ==
    /\ kernel.running
    /\ u \in kernel.users
    /\ used[u] < MaxTraffic
    /\ used' = [used EXCEPT ![u] = @ + 1]
    /\ kernel' = [kernel EXCEPT !.counter[u] = @ + 1]
    /\ UNCHANGED <<conns, deltaVars, aliveVars, reportVars, exited, billed,
                   resent, budget>>

ConnsChange(ips) ==
    /\ kernel.running
    /\ budget.conns > 0
    /\ conns' = ips
    /\ budget' = [budget EXCEPT !.conns = @ - 1]
    /\ UNCHANGED <<kernel, deltaVars, aliveVars, reportVars, exited, ledger>>

\* UpdateUsers through the UserManager.  cumTraffic and xray's counters of
\* the users who left stay.
UpdateUsers(us) ==
    /\ kernel.running
    /\ us # kernel.users
    /\ MayReturn \/ \A u \in us \ kernel.users :
                       kernel.cumTraffic[u] = 0 /\ kernel.counter[u] = 0
    /\ budget.users > 0
    /\ kernel' = [kernel EXCEPT !.users = us]
    /\ budget' = [budget EXCEPT !.users = @ - 1]
    /\ UNCHANGED <<conns, deltaVars, aliveVars, reportVars, exited, ledger>>

\* Start, which replaces the instance and forgets the cumulative traffic.
KernelStart(us) ==
    /\ ~exited
    /\ budget.kernel > 0
    /\ kernel' = [running |-> TRUE, users |-> us, counter |-> Zero,
                  cumTraffic |-> Zero]
    /\ conns' = NoIPs
    /\ budget' = [budget EXCEPT !.kernel = @ - 1]
    /\ UNCHANGED <<deltaVars, aliveVars, reportVars, exited, ledger>>

\* Stop, which only forgets the instance.
KernelStop ==
    /\ kernel.running
    /\ budget.kernel > 0
    /\ kernel' = [kernel EXCEPT !.running = FALSE, !.counter = Zero]
    /\ conns' = NoIPs
    /\ budget' = [budget EXCEPT !.kernel = @ - 1]
    /\ UNCHANGED <<deltaVars, aliveVars, reportVars, exited, ledger>>

-----------------------------------------------------------------------------
(* trackAndEnforce: GetUserTraffic, then Process. *)

\* The users aggregateStats reports on: those the kernel has now and has
\* counted anything for.
Cumulated == Plus(kernel.cumTraffic, kernel.counter)
Reported == {u \in kernel.users : Cumulated[u] > 0}

\* A cumulative counter that went back was reset by a restart.
Delta(cum, prev) == IF cum < prev THEN cum ELSE cum - prev

\* Mutant: a changed address goes unnoticed while the number stays.
AliveChangedCount(old, new) ==
    \E u \in UserIds : Cardinality(old[u]) # Cardinality(new[u])

AliveChanged(old, new) == old # new

\* Mutant: the purge does not spare the users that are reported on.
ProcessPurgesAll ==
    LET purge == processCount = PurgeEvery - 1
    IN  /\ lastSeen' = [u \in UserIds |-> IF purge THEN 0
                                          ELSE IF u \in Reported
                                          THEN Cumulated[u]
                                          ELSE lastSeen[u]]
        /\ pendingTraffic' =
              [u \in UserIds |->
                 pendingTraffic[u] + IF u \in Reported
                                     THEN Delta(Cumulated[u], lastSeen[u])
                                     ELSE 0]
        /\ processCount' = IF purge THEN 0 ELSE processCount + 1
        /\ aliveIPsDirty' = (aliveIPsDirty \/ AliveChanged(live, conns))
        /\ live' = conns

\* The deltas become pending; now and then lastSeen forgets the users that
\* were not reported on.
Process ==
    LET purge == processCount = PurgeEvery - 1
    IN  /\ lastSeen' = [u \in UserIds |-> IF u \in Reported THEN Cumulated[u]
                                          ELSE IF purge THEN 0
                                          ELSE lastSeen[u]]
        /\ pendingTraffic' =
              [u \in UserIds |->
                 pendingTraffic[u] + IF u \in Reported
                                     THEN Delta(Cumulated[u], lastSeen[u])
                                     ELSE 0]
        /\ processCount' = IF purge THEN 0 ELSE processCount + 1
        /\ aliveIPsDirty' = (aliveIPsDirty \/ AliveChanged(live, conns))
        /\ live' = conns

\* Reading a counter resets it.
TrackAndEnforce ==
    /\ ~exited
    /\ kernel.running
    /\ kernel' = [kernel EXCEPT
                    !.counter = [u \in UserIds |->
                       IF u \in kernel.users THEN 0 ELSE @[u]],
                    !.cumTraffic = [u \in UserIds |->
                       IF u \in kernel.users THEN Cumulated[u] ELSE @[u]]]
    /\ Process
    /\ UNCHANGED <<conns, sentIPs, reportVars, exited, ledger, budget>>

-----------------------------------------------------------------------------
(* Reports. *)

\* FlushAliveIPs: the snapshot goes out unless it is the one sent last.
FlushAliveIPs ==
    /\ sentIPs' = IF aliveIPsDirty THEN live ELSE sentIPs
    /\ aliveIPsDirty' = FALSE
    /\ UNCHANGED live

FlushTraffic == pendingTraffic' = Zero

\* pushReportAsync, where no report is under way and no tick is skipped.
PushReport ==
    /\ ~exited
    /\ ~report.active
    /\ \/ /\ pushBackoff > 0
          /\ pushBackoff' = pushBackoff - 1
          /\ UNCHANGED <<report, pendingTraffic, aliveVars>>
       \/ /\ pushBackoff = 0
          /\ report' = [active |-> TRUE, traffic |-> pendingTraffic]
          /\ FlushTraffic
          /\ FlushAliveIPs
          /\ UNCHANGED pushBackoff
    /\ UNCHANGED <<kernel, conns, lastSeen, processCount, exited, ledger,
                   budget>>

ReportSucceeds ==
    /\ report.active
    /\ billed' = Plus(billed, report.traffic)
    /\ report' = NoReport
    /\ pushBackoff' = 0
    /\ UNCHANGED <<kernel, conns, deltaVars, aliveVars, exited, used, resent,
                   budget>>

\* Mutant: the traffic of a failed report replaces what came meanwhile.
RestoreTrafficReplaces(data) == pendingTraffic' = data

RestoreTraffic(data) == pendingTraffic' = Plus(pendingTraffic, data)

\* The request fails, or (arrived) the panel has read it and only its answer
\* is lost.  RestoreAliveIPs writes to a buffer that the next flush clears:
\* no later snapshot depends on it.
ReportFails(arrived) ==
    /\ report.active
    /\ budget.faults > 0
    /\ budget' = [budget EXCEPT !.faults = @ - 1]
    /\ RestoreTraffic(report.traffic)
    /\ IF arrived
       THEN /\ billed' = Plus(billed, report.traffic)
            /\ resent' = Plus(resent, report.traffic)
       ELSE UNCHANGED <<billed, resent>>
    /\ report' = NoReport
    /\ pushBackoff' = 1
    /\ UNCHANGED <<kernel, conns, lastSeen, processCount, aliveVars, exited,
                   used>>

\* sendDeviceBatch, while the WebSocket is up.
SendDeviceBatch ==
    /\ ~exited
    /\ FlushAliveIPs
    /\ UNCHANGED <<kernel, conns, deltaVars, reportVars, exited, ledger,
                   budget>>

\* Run ends: pushReportSync, whether or not a report is under way, and then
\* the kernel stops.  A final report that fails is not repeated.
Shutdown(delivered) ==
    /\ ~exited
    /\ exited' = TRUE
    /\ billed' = IF delivered THEN Plus(billed, pendingTraffic) ELSE billed
    /\ FlushTraffic
    /\ FlushAliveIPs
    /\ kernel' = [kernel EXCEPT !.running = FALSE, !.counter = Zero]
    /\ conns' = NoIPs
    /\ UNCHANGED <<lastSeen, processCount, reportVars, used, resent, budget>>

-----------------------------------------------------------------------------
Environment ==
    \/ \E u \in UserIds : Use(u)
    \/ \E ips \in AliveIPs : ConnsChange(ips)
    \/ \E us \in SUBSET UserIds : UpdateUsers(us) \/ KernelStart(us)
    \/ KernelStop
    \/ \E arrived \in BOOLEAN : ReportFails(arrived)
    \/ \E delivered \in BOOLEAN : Shutdown(delivered)

Next ==
    \/ Environment
    \/ TrackAndEnforce
    \/ PushReport
    \/ ReportSucceeds
    \/ SendDeviceBatch

Spec == Init /\ [][Next]_vars

\* The tickers tick and a request ends; it need not succeed as long as
\* failures last (MaxReportFaults).  Devices need no WebSocket to go out.
FairSpec ==
    /\ Spec
    /\ WF_vars(TrackAndEnforce)
    /\ WF_vars(PushReport)
    /\ WF_vars(ReportSucceeds)

-----------------------------------------------------------------------------
(* Properties *)

\* What the kernel has counted for a user and Process will still take over.
Unseen(u) == kernel.counter[u] + Delta(kernel.cumTraffic[u], lastSeen[u])

\* The panel never bills a user for more than the user moved, except for the
\* reports it has read without the node learning of it (Process, Restore-
\* Traffic, pushReportAsync): no restart, purge, failed or overlapping report
\* counts a byte twice.
NotOverbilled == \A u \in UserIds : billed[u] <= used[u] + resent[u]

\* The inductive invariant: every byte is in at most one place.
EachByteOnce ==
    \A u \in UserIds :
        billed[u] + report.traffic[u] + pendingTraffic[u]
          + (IF u \in kernel.users THEN Unseen(u) ELSE 0)
        <= used[u] + resent[u]

\* Nothing has been discarded with an instance, a user or the service.
Undisturbed ==
    /\ ~exited
    /\ budget.kernel = MaxKernelOps
    /\ budget.users = MaxUserOps

\* Where the kernel was neither replaced nor stopped and no user left, all
\* that was moved comes to be billed: failed reports are made up for.
AllIsBilled ==
    <>[](Undisturbed => \A u \in UserIds : billed[u] = used[u] + resent[u])

\* Once the connections stay as they are, the last snapshot of alive IPs that
\* was flushed is the present one, also if only an address was replaced by
\* another (Process, FlushAliveIPs).
AliveIPsFlushed == <>[](~kernel.running \/ sentIPs = conns)
=============================================================================
