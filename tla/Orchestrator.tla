---------------------------- MODULE Orchestrator ----------------------------
(***************************************************************************)
(* One machine of internal/machine/machine.go: the node services it hosts, *)
(* the maps that find them, and the goroutines that start and stop them.   *)
(* The main loop rediscovers on a ticker and every sync.nodes event of the *)
(* WebSocket rediscovers in a goroutine of its own, so discoveries         *)
(* interleave, each with the answer its own request was given.  A critical *)
(* section of mu or eventsMu is one step.                                  *)
(***************************************************************************)
EXTENDS Naturals

CONSTANTS Nodes,
          Syncs,        \* goroutines that onWSEvent starts for sync.nodes
          Instances,    \* runs of a node service
          MaxChanges,   \* changes of the panel's node list
          MaxFaults     \* failed requests, and services that return an error

CONSTANTS main,         \* the goroutine of Orchestrator.Run
          None          \* no instance

ASSUME OrchestratorAssumption ==
    /\ main \notin Syncs
    /\ None \notin Instances
    /\ MaxChanges \in Nat /\ MaxFaults \in Nat

VARIABLES
    panelNodes,     \* the nodes the panel wants on this machine
    ws,             \* tryStartWS succeeded
    ctxDone,        \* the context of Run is cancelled
    handles,        \* o.nodes
    mailboxes,      \* o.mailboxes: whose mailbox a node's events go to
    statuses,       \* o.statuses: who hears of connectivity changes
    service,        \* the instances: node, phase, cancelled
    svc,            \* the svc field of an instance's handle
    pc, wanted, todo, cur,  \* per goroutine: where it is, the answer it was
                            \* given, the nodes still to handle, its instance
    draining,       \* whose done channels stopAll waits for
    overlapped,     \* two goroutines have been in a discovery at once
    budget

maps == <<handles, mailboxes, statuses>>
threadVars == <<pc, wanted, todo, cur>>
vars == <<panelNodes, ws, ctxDone, maps, service, svc, threadVars,
          draining, overlapped, budget>>

Threads == Syncs \cup {main}
Phases == {"free", "made", "running", "serving", "done"}
MaybeInstance == Instances \cup {None}

TypeOK ==
    /\ panelNodes \in SUBSET Nodes
    /\ ws \in BOOLEAN /\ ctxDone \in BOOLEAN /\ overlapped \in BOOLEAN
    /\ handles \in [Nodes -> MaybeInstance]
    /\ mailboxes \in [Nodes -> MaybeInstance]
    /\ statuses \in [Nodes -> MaybeInstance]
    /\ service \in [Instances -> [node : Nodes, phase : Phases,
                                  cancelled : BOOLEAN]]
    /\ svc \in [Instances -> MaybeInstance]
    /\ pc \in [Threads -> {"boot", "idle", "compare", "remove", "unbox",
                           "wait", "start", "box", "launch", "drain",
                           "returned"}]
    /\ wanted \in [Threads -> SUBSET Nodes]
    /\ todo \in [Threads -> SUBSET Nodes]
    /\ cur \in [Threads -> MaybeInstance]
    /\ draining \in SUBSET Instances
    /\ \A t \in Threads :
        pc[t] \in {"unbox", "wait", "box", "launch"} <=> cur[t] # None
    /\ budget \in [changes : 0..MaxChanges, faults : 0..MaxFaults]

Init ==
    /\ panelNodes \in SUBSET Nodes
    /\ ws = FALSE /\ ctxDone = FALSE /\ overlapped = FALSE
    /\ handles = [n \in Nodes |-> None]
    /\ mailboxes = handles
    /\ statuses = handles
    /\ service \in [Instances -> [node : Nodes, phase : {"free"},
                                  cancelled : {FALSE}]]
    /\ \A i, j \in Instances : service[i] = service[j]
    /\ svc = [i \in Instances |-> None]
    /\ pc = [t \in Threads |-> IF t = main THEN "boot" ELSE "idle"]
    /\ wanted = [t \in Threads |-> {}]
    /\ todo = wanted
    /\ cur = [t \in Threads |-> None]
    /\ draining = {}
    /\ budget = [changes |-> MaxChanges, faults |-> MaxFaults]

-----------------------------------------------------------------------------
\* A service whose goroutine has not returned.
Live(i) == service[i].phase \in {"made", "running", "serving"}

\* A goroutine waits for i to end, after taking its handle away.
BeingStopped(i) ==
    \E t \in Threads : cur[t] = i /\ pc[t] \in {"unbox", "wait"}

\* The garbage collector's view: nothing refers to this run any more.
Free(i) ==
    /\ ~Live(i) /\ i \notin draining
    /\ \A n \in Nodes : i \notin {handles[n], mailboxes[n], statuses[n]}
    /\ \A t \in Threads : cur[t] # i
    /\ \A j \in Instances : svc[j] = i => j = i

Cancelled(i) == service[i].cancelled \/ ctxDone

Goto(t, label) == pc' = [pc EXCEPT ![t] = label]

FaultHappens ==
    /\ budget.faults > 0
    /\ budget' = [budget EXCEPT !.faults = @ - 1]

-----------------------------------------------------------------------------
\* The panel's administrator adds and removes nodes.
ChangeNodes ==
    /\ budget.changes > 0
    /\ budget' = [budget EXCEPT !.changes = @ - 1]
    /\ \E new \in SUBSET Nodes \ {panelNodes} : panelNodes' = new
    /\ UNCHANGED <<ws, ctxDone, maps, service, svc, threadVars, draining,
                   overlapped>>

\* The process cancels the context (signal, reload, another machine failed).
CancelRun ==
    /\ ~ctxDone
    /\ ctxDone' = TRUE
    /\ UNCHANGED <<panelNodes, ws, maps, service, svc, threadVars,
                   draining, overlapped, budget>>

\* Run: the first discovery, and tryStartWS, which may be left without a
\* WebSocket by the handshake.
Boot ==
    /\ pc[main] = "boot"
    /\ wanted' = [wanted EXCEPT ![main] = panelNodes]
    /\ todo' = [todo EXCEPT ![main] = panelNodes]
    /\ Goto(main, "start")
    /\ ws' \in BOOLEAN
    /\ UNCHANGED <<panelNodes, ctxDone, maps, service, svc, cur,
                   draining, overlapped, budget>>

BootFails ==
    /\ pc[main] = "boot"
    /\ FaultHappens
    /\ Goto(main, "returned")
    /\ UNCHANGED <<panelNodes, ws, ctxDone, maps, service, svc, wanted, todo,
                   cur, draining, overlapped>>

\* rediscover is entered: by the ticker, or for a sync.nodes event.  The
\* answer is the node list at this moment, whenever it is acted upon.
Rediscover(t) ==
    /\ pc[t] = "idle"
    /\ t \in Syncs => ws /\ pc[main] # "returned"
    /\ wanted' = [wanted EXCEPT ![t] = panelNodes]
    /\ Goto(t, "compare")
    /\ overlapped' = (overlapped \/ \E u \in Threads \ {t} :
                                        pc[u] \notin {"idle", "returned"})
    /\ UNCHANGED <<panelNodes, ws, ctxDone, maps, service, svc, todo, cur,
                   draining, budget>>

RediscoverFails(t) ==
    /\ pc[t] = "compare"
    /\ FaultHappens
    /\ Goto(t, "idle")
    /\ UNCHANGED <<panelNodes, ws, ctxDone, maps, service, svc, wanted, todo,
                   cur, draining, overlapped>>

\* Mutant: rediscover stops nothing while its answer is empty.
CompareUnlessEmpty(t) ==
    /\ pc[t] = "compare"
    /\ todo' = [todo EXCEPT ![t] =
                    IF wanted[t] = {} THEN {}
                    ELSE {n \in Nodes : handles[n] # None} \ wanted[t]]
    /\ Goto(t, "remove")
    /\ UNCHANGED <<panelNodes, ws, ctxDone, maps, service, svc, wanted, cur,
                   draining, overlapped, budget>>

\* toRemove is computed under mu.
Compare(t) ==
    /\ pc[t] = "compare"
    /\ todo' = [todo EXCEPT ![t] =
                    {n \in Nodes : handles[n] # None} \ wanted[t]]
    /\ Goto(t, "remove")
    /\ UNCHANGED <<panelNodes, ws, ctxDone, maps, service, svc, wanted, cur,
                   draining, overlapped, budget>>

-----------------------------------------------------------------------------
\* stopNode takes the handle, if another goroutine has not.
TakeHandle(t, n) ==
    /\ pc[t] = "remove" /\ n \in todo[t]
    /\ todo' = [todo EXCEPT ![t] = @ \ {n}]
    /\ cur' = [cur EXCEPT ![t] = handles[n]]
    /\ handles' = [handles EXCEPT ![n] = None]
    /\ IF handles[n] = None THEN UNCHANGED pc ELSE Goto(t, "unbox")
    /\ UNCHANGED <<panelNodes, ws, ctxDone, mailboxes, statuses, service, svc,
                   wanted, draining, overlapped, budget>>

\* stopNode deletes the node's mailbox, whosever it is, and cancels.
StopNode(t) ==
    /\ pc[t] = "unbox"
    /\ mailboxes' = [mailboxes EXCEPT ![service[cur[t]].node] = None]
    /\ service' = [service EXCEPT ![cur[t]].cancelled = TRUE]
    /\ Goto(t, "wait")
    /\ UNCHANGED <<panelNodes, ws, ctxDone, handles, statuses, svc, wanted,
                   todo, cur, draining, overlapped, budget>>

\* Mutant: stopNode does not wait for the service to end.
StoppedAtOnce(t) ==
    /\ pc[t] = "wait"
    /\ Goto(t, "remove")
    /\ cur' = [cur EXCEPT ![t] = None]
    /\ UNCHANGED <<panelNodes, ws, ctxDone, maps, service, svc, wanted, todo,
                   draining, overlapped, budget>>

\* <-h.done
Stopped(t) ==
    /\ pc[t] = "wait" /\ service[cur[t]].phase = "done"
    /\ Goto(t, "remove")
    /\ cur' = [cur EXCEPT ![t] = None]
    /\ UNCHANGED <<panelNodes, ws, ctxDone, maps, service, svc, wanted, todo,
                   draining, overlapped, budget>>

\* Every node to remove is gone; the wanted ones are started.
RemovalsDone(t) ==
    /\ pc[t] = "remove" /\ todo[t] = {}
    /\ todo' = [todo EXCEPT ![t] = wanted[t]]
    /\ Goto(t, "start")
    /\ UNCHANGED <<panelNodes, ws, ctxDone, maps, service, svc, wanted, cur,
                   draining, overlapped, budget>>

\* startNode's first critical section: the check for a handle and the new
\* handle, with a context derived from the one of Run.
StartNode(t, n) ==
    /\ pc[t] = "start" /\ n \in todo[t]
    /\ handles[n] = None
    /\ \E i \in Instances : Free(i)
    /\ LET i == CHOOSE j \in Instances : Free(j)
       IN  /\ handles' = [handles EXCEPT ![n] = i]
           /\ service' = [service EXCEPT
                   ![i] = [node |-> n, phase |-> "made", cancelled |-> FALSE]]
           /\ svc' = [svc EXCEPT ![i] = None]
           /\ cur' = [cur EXCEPT ![t] = i]
    /\ todo' = [todo EXCEPT ![t] = @ \ {n}]
    /\ Goto(t, "box")
    /\ UNCHANGED <<panelNodes, ws, ctxDone, mailboxes, statuses, wanted,
                   draining, overlapped, budget>>

\* Mutant: startNode without the check for a running service.
AlreadyRunningIgnored(t, n) ==
    /\ pc[t] = "start" /\ n \in todo[t]
    /\ handles[n] # None
    /\ \E i \in Instances : Free(i)
    /\ LET i == CHOOSE j \in Instances : Free(j)
       IN  /\ handles' = [handles EXCEPT ![n] = i]
           /\ service' = [service EXCEPT
                   ![i] = [node |-> n, phase |-> "made", cancelled |-> FALSE]]
           /\ cur' = [cur EXCEPT ![t] = i]
    /\ todo' = [todo EXCEPT ![t] = @ \ {n}]
    /\ Goto(t, "box")
    /\ UNCHANGED <<panelNodes, ws, ctxDone, mailboxes, statuses, svc, wanted,
                   draining, overlapped, budget>>

AlreadyRunning(t, n) ==
    /\ pc[t] = "start" /\ n \in todo[t]
    /\ handles[n] # None
    /\ todo' = [todo EXCEPT ![t] = @ \ {n}]
    /\ UNCHANGED <<panelNodes, ws, ctxDone, maps, service, svc, pc, wanted,
                   cur, draining, overlapped, budget>>

\* startNode makes the new mailbox the node's.
AddMailbox(t) ==
    /\ pc[t] = "box"
    /\ mailboxes' = [mailboxes EXCEPT ![service[cur[t]].node] = cur[t]]
    /\ Goto(t, "launch")
    /\ UNCHANGED <<panelNodes, ws, ctxDone, handles, statuses, service, svc,
                   wanted, todo, cur, draining, overlapped, budget>>

\* Mutant: startNode starts Run only if the node still has a handle.
LaunchIfHandled(t) ==
    /\ pc[t] = "launch"
    /\ LET i == cur[t]
           h == handles[service[i].node]
       IN  /\ svc' = IF h = None THEN svc ELSE [svc EXCEPT ![h] = i]
           /\ service' = IF h = None THEN service
                         ELSE [service EXCEPT ![i].phase = "running"]
    /\ cur' = [cur EXCEPT ![t] = None]
    /\ Goto(t, "start")
    /\ UNCHANGED <<panelNodes, ws, ctxDone, maps, wanted, todo, draining,
                   overlapped, budget>>

\* startNode records svc in the handle the node has now, and starts Run.
Launch(t) ==
    /\ pc[t] = "launch"
    /\ LET i == cur[t]
           h == handles[service[i].node]
       IN  /\ svc' = IF h = None THEN svc ELSE [svc EXCEPT ![h] = i]
           /\ service' = [service EXCEPT ![i].phase = "running"]
    /\ cur' = [cur EXCEPT ![t] = None]
    /\ Goto(t, "start")
    /\ UNCHANGED <<panelNodes, ws, ctxDone, maps, wanted, todo,
                   draining, overlapped, budget>>

StartsDone(t) ==
    /\ pc[t] = "start" /\ todo[t] = {}
    /\ Goto(t, "idle")
    /\ UNCHANGED <<panelNodes, ws, ctxDone, maps, service, svc, wanted, todo,
                   cur, draining, overlapped, budget>>

-----------------------------------------------------------------------------
\* Initial has its snapshot and, with a WebSocket, calls registerNode.
Register(i) ==
    /\ service[i].phase = "running"
    /\ service' = [service EXCEPT ![i].phase = "serving"]
    /\ statuses' = IF ws THEN [statuses EXCEPT ![service[i].node] = i]
                         ELSE statuses
    /\ UNCHANGED <<panelNodes, ws, ctxDone, handles, mailboxes, svc,
                   threadVars, draining, overlapped, budget>>

\* Service.Run has returned: unregisterNode, by the node's identifier, and
\* then close(done).
Ended(i) ==
    /\ mailboxes' = [mailboxes EXCEPT ![service[i].node] = None]
    /\ statuses' = [statuses EXCEPT ![service[i].node] = None]
    /\ service' = [service EXCEPT ![i].phase = "done"]
    /\ UNCHANGED <<panelNodes, ws, ctxDone, handles, svc, threadVars,
                   draining, overlapped>>

\* The select loop of the service sees its context cancelled.
Exit(i) ==
    /\ service[i].phase = "serving" /\ Cancelled(i)
    /\ Ended(i)
    /\ UNCHANGED budget

\* initialSetup returns an error.
ExitWithError(i) ==
    /\ service[i].phase = "running"
    /\ FaultHappens
    /\ Ended(i)

\* stopAll: the handles stay in the map; all their services have to end.
StopAll ==
    /\ pc[main] = "idle" /\ ctxDone
    /\ draining' = {handles[n] : n \in Nodes} \ {None}
    /\ service' = [i \in Instances |->
                    [service[i] EXCEPT !.cancelled = @ \/ i \in draining']]
    /\ Goto(main, "drain")
    /\ UNCHANGED <<panelNodes, ws, ctxDone, maps, svc, wanted, todo, cur,
                   overlapped, budget>>

\* Every done channel is closed and Run returns.
Drained ==
    /\ pc[main] = "drain" /\ \A i \in draining : ~Live(i)
    /\ draining' = {}
    /\ Goto(main, "returned")
    /\ UNCHANGED <<panelNodes, ws, ctxDone, maps, service, svc, wanted, todo,
                   cur, overlapped, budget>>

-----------------------------------------------------------------------------
ThreadStep(t) ==
    \/ Compare(t) \/ StopNode(t) \/ Stopped(t) \/ RemovalsDone(t)
    \/ AddMailbox(t) \/ Launch(t) \/ StartsDone(t)
    \/ \E n \in Nodes : TakeHandle(t, n) \/ StartNode(t, n)
                                          \/ AlreadyRunning(t, n)

Next ==
    \/ ChangeNodes \/ CancelRun \/ Boot \/ BootFails \/ StopAll \/ Drained
    \/ \E t \in Threads : Rediscover(t) \/ RediscoverFails(t) \/ ThreadStep(t)
    \/ \E i \in Instances : Register(i) \/ Exit(i) \/ ExitWithError(i)

Spec == Init /\ [][Next]_vars

\* Goroutines run, the discovery ticker keeps firing, requests are answered,
\* the select of Run sees its context, and a service whose context is
\* cancelled returns.
Fairness ==
    /\ WF_vars(Boot) /\ WF_vars(Rediscover(main))
    /\ SF_vars(StopAll) /\ WF_vars(Drained)
    /\ \A t \in Threads : WF_vars(ThreadStep(t))
    /\ \A i \in Instances : WF_vars(Register(i)) /\ WF_vars(Exit(i))

FairSpec == Spec /\ Fairness

-----------------------------------------------------------------------------
\* However discoveries overlap, a live service is the one in its node's handle
\* or is being stopped by the stopNode that took that handle: no service is
\* left running that nothing stops, and none runs beside the node's own.
OneServicePerNode ==
    \A i \in Instances :
        Live(i) => handles[service[i].node] = i \/ BeingStopped(i)

\* Unless two discoveries overlapped, the events and the connectivity changes
\* of a node reach the service that runs it: unregisterNode, which goes by
\* the identifier, never takes the mailbox of a successor.
EventsReachService ==
    ~overlapped =>
        \A i \in Instances :
            service[i].phase = "serving" /\ handles[service[i].node] = i =>
                /\ mailboxes[service[i].node] = i
                /\ ws => statuses[service[i].node] = i

\* Run returns after its context is cancelled, whatever discoveries do: the
\* done channels stopAll waits for are all closed in the end.
ShutdownCompletes == ctxDone ~> (pc[main] = "returned")

\* The machine runs what the panel wants once the panel stops changing it:
\* a node it does not want has no service, a wanted one has a service, or
\* had one that returned an error (its handle stays).
Serves(n) ==
    /\ handles[n] # None
    /\ service[handles[n]].phase \in {"serving", "done"}

Converges ==
    \A want \in SUBSET Nodes :
        <>[](panelNodes = want /\ ~ctxDone /\ pc[main] # "returned") =>
            <>[](\A n \in Nodes :
                    IF n \in want THEN Serves(n)
                    ELSE \A i \in Instances :
                            service[i].node = n => ~Live(i))

=============================================================================
