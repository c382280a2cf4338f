---------------------------- MODULE ConfigReload ----------------------------
(***************************************************************************)
(* The process: main and runWithReload of cmd/fboard-node/main.go, the     *)
(* goroutine that waits for signals, the orchestrators it runs, and the    *)
(* watcher of internal/config/watcher.go with the callback of its timer.   *)
(***************************************************************************)
EXTENDS ConfigOps, FiniteSets

CONSTANTS Files,        \* names of what the configuration file may hold
          Content,      \* their content
          MaxEdits, MaxSignals,
          MaxFaults     \* orchestrators that fail or hang, ports in use,
                        \* watchers that cannot be made

ASSUME ReloadAssumption ==
    /\ \A f \in Files : Content[f].kind # "broken" =>
         /\ DOMAIN Content[f].top = Keys
         /\ \A i \in DOMAIN Content[f].instances :
              DOMAIN Content[f].instances[i] = Keys
    /\ {MaxEdits, MaxSignals, MaxFaults} \subseteq Nat
    /\ None \notin Files

VARIABLES
    file,       \* what the configuration file holds
    phase,      \* where runWithReload is
    status,     \* of the process: "running", or how it ended
    root, newRoot,
    cancelled,  \* ctx of this iteration
    orchs, hung,            \* the orchestrators that run; those that never end
    erred,      \* errCh
    health, healthPort,     \* the port listened on (0: none); the variable
    watcher,    \* its loop: "none", "live" or "ended"
    stopped,    \* Watcher.stopped
    event, timer,           \* a change for the loop, the debounce timer
    callback,   \* the root that a callback has loaded and not yet offered
    reloadCh,
    sigCh, handler,         \* a signal in the channel; who waits for it
    forced,     \* what handlers of earlier iterations have: "signal" if one
                \* counts its 15 s, "second" if one has another one to take
    missed,     \* an edit fell into a reload
    disabled,   \* a configuration without health port was served
    edits, signals, faults

loadVars == <<watcher, stopped, event, timer, callback, reloadCh>>
sigVars == <<sigCh, handler, forced>>
runVars == <<orchs, hung, erred, health, healthPort, disabled>>
boundVars == <<edits, signals, faults>>
vars == <<file, phase, status, root, newRoot, cancelled, runVars, loadVars,
          sigVars, missed, boundVars>>

Accepts == [f \in Files |-> LoadRoot(Content[f])]
Starts == [f \in Files |-> /\ Accepts[f] /\ NormalizeInstances(Content[f])
                           /\ ValidateStartupLayout(Content[f])]
InstancesOf == [f \in Files |-> IF Starts[f] THEN Instances(Content[f]) ELSE {}]
PortOf == [f \in Files |-> IF Accepts[f] THEN HealthPort(Content[f]) ELSE 0]

Ports == {PortOf[f] : f \in Files} \cup {0}

TypeOK ==
    /\ file \in Files
    /\ phase \in {"setup", "start", "serving", "draining", "ending"}
    /\ status \in {"running", "ok", "failed", "forced", "killed"}
    /\ root \in Files /\ newRoot \in Files \cup {None}
    /\ orchs \subseteq UNION {InstancesOf[f] : f \in Files}
    /\ hung \subseteq orchs
    /\ {health, healthPort} \subseteq Ports
    /\ watcher \in {"none", "live", "ended"}
    /\ {callback, reloadCh} \ {None} \subseteq {f \in Files : Accepts[f]}
    /\ handler \in {"none", "waiting", "stopping"}
    /\ {cancelled, erred, stopped, event, timer, sigCh, missed, disabled}
         \subseteq BOOLEAN
    /\ forced \subseteq {"signal", "second"}
    /\ edits \in 0..MaxEdits /\ signals \in 0..MaxSignals /\ faults \in 0..MaxFaults

\* main has loaded the file, and normalised it, and listens.
Init ==
    /\ file \in Files /\ Accepts[file] /\ NormalizeInstances(Content[file])
    /\ root = file /\ newRoot = None
    /\ phase = "setup" /\ status = "running" /\ cancelled = FALSE
    /\ orchs = {} /\ hung = {} /\ erred = FALSE
    /\ health = PortOf[file] /\ healthPort = PortOf[file]
    /\ watcher = "none" /\ stopped = FALSE /\ event = FALSE /\ timer = FALSE
    /\ callback = None /\ reloadCh = None
    /\ sigCh = FALSE /\ handler = "none" /\ forced = {}
    /\ missed = FALSE /\ disabled = FALSE
    /\ edits = MaxEdits /\ signals = MaxSignals /\ faults = MaxFaults

Running == status = "running"
Fault == faults > 0 /\ faults' = faults - 1 /\ UNCHANGED <<edits, signals>>
Exit(how) == status' = how

-----------------------------------------------------------------------------
(* runWithReload.                                                          *)

\* A new context, signal channel and reload channel; what the callback of the
\* last iteration still offers goes to a channel nobody reads.
Setup ==
    /\ Running /\ phase = "setup"
    /\ phase' = "start" /\ cancelled' = FALSE
    /\ sigCh' = FALSE /\ handler' = "waiting"
    /\ \/ watcher' = "live" /\ UNCHANGED boundVars
       \/ watcher' = "none" /\ Fault
    /\ stopped' = FALSE /\ event' = FALSE /\ timer' = FALSE
    /\ callback' = None /\ reloadCh' = None
    /\ UNCHANGED <<file, status, root, newRoot, runVars, forced, missed>>

\* Mutant: startHealth does not record the port.
StartHealthUnassigned(port) == health' = port /\ UNCHANGED healthPort

\* startHealth returns at once for port 0, before it assigns healthPort.
StartHealth(port) ==
    IF port = 0 THEN health' = 0 /\ UNCHANGED healthPort
    ELSE health' = port /\ healthPort' = port

Launch ==
    /\ IF PortOf[root] # healthPort THEN StartHealth(PortOf[root])
       ELSE UNCHANGED <<health, healthPort>>
    /\ orchs' = InstancesOf[root]
    /\ disabled' = (disabled \/ PortOf[root] = 0)
    /\ phase' = "serving"
    /\ UNCHANGED <<status, boundVars, hung, erred>>

\* The layout is refused, or the new port is in use.
LaunchFails ==
    /\ \/ ~Starts[root] /\ UNCHANGED boundVars
       \/ Starts[root] /\ PortOf[root] \notin {healthPort, 0} /\ Fault
    /\ Exit("failed")
    /\ UNCHANGED <<phase, runVars>>

Start ==
    /\ Running /\ phase = "start"
    /\ (Starts[root] /\ Launch) \/ LaunchFails
    /\ UNCHANGED <<file, root, newRoot, cancelled, loadVars, sigVars, missed>>

\* select: the reload first, or the end of all orchestrators.
TakeReload ==
    /\ Running /\ phase = "serving" /\ reloadCh # None
    /\ newRoot' = reloadCh /\ reloadCh' = None
    /\ cancelled' = TRUE /\ phase' = "draining"
    /\ UNCHANGED <<file, status, root, runVars, watcher, stopped, event, timer,
                   callback, sigVars, missed, boundVars>>

AllDone ==
    /\ Running /\ phase \in {"serving", "draining"} /\ orchs = {}
    /\ phase' = "ending"
    /\ UNCHANGED <<file, status, root, newRoot, cancelled, runVars, loadVars,
                   sigVars, missed, boundVars>>

\* Mutant: a reload keeps the configuration it started with.
RestartUnchanged ==
    IF newRoot = None
    THEN /\ Exit(IF erred THEN "failed" ELSE "ok")
         /\ UNCHANGED <<phase, root, newRoot, erred>>
    ELSE /\ newRoot' = None /\ phase' = "setup" /\ erred' = FALSE
         /\ UNCHANGED <<status, root>>

\* signal.Stop and watcher.Stop; the process ends, or begins anew with the
\* root that was taken.
Restart ==
    IF newRoot = None
    THEN /\ Exit(IF erred THEN "failed" ELSE "ok")
         /\ UNCHANGED <<phase, root, newRoot, erred>>
    ELSE IF NormalizeInstances(Content[newRoot])
    THEN /\ root' = newRoot /\ newRoot' = None
         /\ phase' = "setup" /\ erred' = FALSE
         /\ UNCHANGED status
    ELSE Exit("failed") /\ UNCHANGED <<phase, root, newRoot, erred>>

\* Mutant: a reload forgets that the process was to end.
EndForgetting ==
    /\ Running /\ phase = "ending"
    /\ stopped' = TRUE
    /\ handler' = "none" /\ sigCh' = FALSE
    /\ Restart
    /\ UNCHANGED <<file, cancelled, orchs, hung, health, healthPort, disabled,
                   watcher, event, timer, callback, reloadCh, forced, missed,
                   boundVars>>

\* A handler that is left behind goes on: it counts, and takes a signal that
\* is still in its channel.  One that waits finds its context done as well, and
\* may take either.
LeaveHandler ==
    /\ handler' = "none" /\ sigCh' = FALSE
    /\ \/ /\ handler = "stopping"
          /\ forced' = forced \cup {"signal"} \cup (IF sigCh THEN {"second"} ELSE {})
       \/ handler # "stopping" /\ UNCHANGED forced
       \/ handler = "waiting" /\ sigCh /\ forced' = forced \cup {"signal"}

End ==
    /\ Running /\ phase = "ending"
    /\ stopped' = TRUE
    /\ LeaveHandler
    /\ Restart
    /\ UNCHANGED <<file, cancelled, orchs, hung, health, healthPort, disabled,
                   watcher, event, timer, callback, reloadCh, missed, boundVars>>

-----------------------------------------------------------------------------
(* The orchestrators: machine.Orchestrator.Run.                            *)

OrchEnds ==
    /\ Running /\ cancelled
    /\ \E o \in orchs \ hung : orchs' = orchs \ {o}
    /\ UNCHANGED <<file, phase, status, root, newRoot, cancelled, hung, erred,
                   health, healthPort, disabled, loadVars, sigVars, missed,
                   boundVars>>

\* The initial discovery fails: all others are cancelled.
OrchFails ==
    /\ Running /\ Fault
    /\ \E o \in orchs \ hung : orchs' = orchs \ {o}
    /\ erred' = TRUE /\ cancelled' = TRUE
    /\ UNCHANGED <<file, phase, status, root, newRoot, hung, health, healthPort,
                   disabled, loadVars, sigVars, missed>>

OrchHangs ==
    /\ Running /\ Fault
    /\ \E o \in orchs : hung' = hung \cup {o}
    /\ UNCHANGED <<file, phase, status, root, newRoot, cancelled, orchs, erred,
                   health, healthPort, disabled, loadVars, sigVars, missed>>

-----------------------------------------------------------------------------
(* The watcher.                                                            *)

\* The loop arms the timer, or arms it again.
SeeEvent ==
    /\ Running /\ watcher = "live" /\ event
    /\ event' = FALSE /\ timer' = TRUE
    /\ UNCHANGED <<file, phase, status, root, newRoot, cancelled, runVars,
                   watcher, stopped, callback, reloadCh, sigVars, missed,
                   boundVars>>

\* A context that is done, or Stop, ends the loop and its timer.
WatcherEnds ==
    /\ Running /\ watcher = "live" /\ (cancelled \/ stopped)
    /\ watcher' = "ended" /\ event' = FALSE /\ timer' = FALSE
    /\ UNCHANGED <<file, phase, status, root, newRoot, cancelled, runVars,
                   stopped, callback, reloadCh, sigVars, missed, boundVars>>

\* reload: a file that does not load keeps the current configuration.  A load
\* takes less than the debounce time.
Fire ==
    /\ Running /\ timer /\ callback = None
    /\ timer' = FALSE
    /\ callback' = IF stopped \/ ~Accepts[file] THEN None ELSE file
    /\ UNCHANGED <<file, phase, status, root, newRoot, cancelled, runVars,
                   watcher, stopped, event, reloadCh, sigVars, missed, boundVars>>

\* onChange does not wait for room in reloadCh.
Offer ==
    /\ Running /\ callback # None
    /\ callback' = None
    /\ reloadCh' = IF reloadCh = None THEN callback ELSE reloadCh
    /\ UNCHANGED <<file, phase, status, root, newRoot, cancelled, runVars,
                   watcher, stopped, event, timer, sigVars, missed, boundVars>>

-----------------------------------------------------------------------------
(* The goroutine that waits for signals.                                   *)

\* It cancels at a signal, and ends with the context.
Hear ==
    /\ Running /\ handler = "waiting" /\ sigCh
    /\ handler' = "stopping" /\ sigCh' = FALSE /\ cancelled' = TRUE
    /\ UNCHANGED <<file, phase, status, root, newRoot, runVars, loadVars, forced,
                   missed, boundVars>>

HandlerEnds ==
    /\ Running /\ handler = "waiting" /\ cancelled
    /\ handler' = "none"
    /\ UNCHANGED <<file, phase, status, root, newRoot, cancelled, runVars,
                   loadVars, sigCh, forced, missed, boundVars>>

HearAgain ==
    /\ Running
    /\ (handler = "stopping" /\ sigCh) \/ "second" \in forced
    /\ Exit("failed")
    /\ UNCHANGED <<file, phase, root, newRoot, cancelled, runVars, loadVars,
                   sigVars, missed, boundVars>>

\* Mutant: the forced exit waits for the orchestrators.
TimeOutUnlessEnding ==
    /\ Running /\ handler = "stopping" /\ orchs = {}
    /\ Exit("forced")
    /\ UNCHANGED <<file, phase, root, newRoot, cancelled, runVars, loadVars,
                   sigVars, missed, boundVars>>

\* 15 s after the signal.
TimeOut ==
    /\ Running /\ (handler = "stopping" \/ "signal" \in forced)
    /\ Exit("forced")
    /\ UNCHANGED <<file, phase, root, newRoot, cancelled, runVars, loadVars,
                   sigVars, missed, boundVars>>

-----------------------------------------------------------------------------
(* The others.                                                             *)

\* A reload is on its way from the moment its root is loaded until the next
\* watcher watches.
Reloading ==
    \/ callback # None \/ reloadCh # None \/ cancelled \/ phase = "setup"

\* External: the file is written or replaced.
Edit ==
    /\ Running /\ edits > 0
    /\ \E f \in Files \ {file} : file' = f
    /\ event' = (event \/ watcher = "live")
    /\ missed' = (missed \/ Reloading \/ watcher # "live")
    /\ edits' = edits - 1
    /\ UNCHANGED <<phase, status, root, newRoot, cancelled, runVars, watcher,
                   stopped, timer, callback, reloadCh, sigVars, signals, faults>>

\* External: SIGINT or SIGTERM, which ends a process that is not notified.
Signal ==
    /\ Running /\ signals > 0
    /\ signals' = signals - 1
    /\ IF phase = "setup" THEN Exit("killed") /\ UNCHANGED sigCh
       ELSE sigCh' = TRUE /\ UNCHANGED status
    /\ UNCHANGED <<file, phase, root, newRoot, cancelled, runVars, loadVars,
                   handler, forced, missed, edits, faults>>

Main == Setup \/ Start \/ TakeReload \/ AllDone \/ End
Watch == SeeEvent \/ WatcherEnds \/ Fire \/ Offer
Handler == Hear \/ HandlerEnds \/ HearAgain

Next ==
    \/ Main \/ OrchEnds \/ OrchFails \/ OrchHangs \/ Watch \/ Handler \/ TimeOut
    \/ Edit \/ Signal

Spec == Init /\ [][Next]_vars

\* Goroutines are scheduled, timers fire, and an orchestrator that does not
\* hang ends when it is cancelled.
Fairness ==
    /\ WF_vars(Main) /\ WF_vars(OrchEnds) /\ WF_vars(Handler) /\ WF_vars(TimeOut)
    /\ WF_vars(SeeEvent \/ WatcherEnds) /\ WF_vars(Fire) /\ WF_vars(Offer)

FairSpec == Spec /\ Fairness

-----------------------------------------------------------------------------
\* Two orchestrators that run at the same time have different identifiers, of
\* panel URL as it is normalised and machine, and different directories, as
\* they are written, also across a reload.  What is normalised is not the panel:
\* one machine of it can run twice under two spellings.
Separate ==
    \A o, p \in orchs : o.id = p.id \/ o.dir = p.dir => o = p

\* The health endpoint is on the port of the configuration that is served,
\* unless a configuration before it had none.
HealthServed ==
    phase = "serving" /\ ~disabled => health = PortOf[root]

\* An edit that does not fall into the reload of the one before it comes into
\* force: in the end the process serves what the file holds, or has ended, or
\* the file is one that does not load.  A watcher that cannot be made excuses it.
EditApplied ==
    <>[](~Running \/ missed \/ cancelled \/ ~Accepts[file]
           \/ (phase = "serving" /\ root = file))

\* No orchestrator of one configuration runs under the next: this is what keeps
\* the orchestrators apart.
OrchsOfRoot ==
    /\ orchs \subseteq InstancesOf[root]
    /\ phase \in {"setup", "start", "ending"} => orchs = {}

\* The variable is the port listened on until a configuration has none.
HealthKnown ==
    ~disabled => /\ health = healthPort
                 /\ phase \in {"serving", "draining", "ending"} => health = PortOf[root]

IInv == TypeOK /\ OrchsOfRoot /\ HealthKnown

\* A signal ends the process, even if an orchestrator never does, unless the
\* orchestrators are already being stopped, for a new configuration or because
\* one of them failed: then it may be forgotten.  One that the goroutine has
\* heard ends the process even if a configuration change is taken after it and
\* the orchestrators are started once more.
SignalEnds ==
    /\ (Running /\ sigCh /\ newRoot = None /\ ~erred)
         ~> (~Running \/ newRoot # None \/ erred)
    /\ handler = "stopping" ~> ~Running
=============================================================================
