---------------------------- MODULE KernelControl ----------------------------
(***************************************************************************)
(* The kernel of one node under several goroutines: the main loop of       *)
(* internal/service/service.go, the goroutines of remote commands          *)
(* (ControlKernel, called by internal/machine/machine.go), and the ACME    *)
(* goroutine that renews the certificate.  They share kernelDesired,       *)
(* lastConfig, lastUsers and the xray wrapper of internal/kernel/xray,     *)
(* whose mutex is never held across the start, the hot swap or the closing *)
(* of an instance.  A step is an atomic access or a section under mu.      *)
(***************************************************************************)
EXTENDS CertOps, FiniteSets

CONSTANTS Configs, Users,       \* node configurations; accounts
          Commands,             \* goroutines that carry out remote commands
          Instances,            \* xray-core instances
          main, None,
          HotSwap,              \* configurations whose protocol has a
                                \* UserManager
          MaxCommands, MaxConfigs, MaxUsers, MaxFaults

ASSUME ControlAssumption ==
    /\ main \notin Commands
    /\ Instances # {} /\ None \notin Instances
    /\ HotSwap \subseteq Configs
    /\ {MaxCommands, MaxConfigs, MaxUsers, MaxFaults} \subseteq Nat

VARIABLES
    desired,        \* kernelDesired
    lastConfig, lastUsers,
    instances,      \* xray-core: what each was started with, whom it admits
    x,              \* the fields of Xray under mu, and running
    cert,           \* the certificate manager
    storage,        \* the version of the certificate in ACME storage
    renewing,       \* a renewal whose callback has not set the flag yet
    pull,           \* a pull that took the flag of a renewal: in flight, or
                    \* its result in pullResults
    pc, arg, own,   \* per goroutine: where it is, the operation's arguments,
                    \* the instance it started or whose UserManager it holds
    job,            \* main's user update: a list still to be applied, and
                    \* the one to restore if the kernel does not start
    hazards,        \* what has happened so far: operations overlapped a
                    \* Stop, or a Start; a Reload skipped a hot swap
    budget

serviceVars == <<desired, lastConfig, lastUsers>>
kernelVars == <<instances, x>>
certVars == <<cert, storage, renewing, pull>>
threadVars == <<pc, arg, own, job>>
vars == <<serviceVars, kernelVars, certVars, threadVars, hazards, budget>>

Threads == Commands \cup {main}
Lists == SUBSET Users
Args == [config : Configs, users : Lists, tls : TLSCerts]
Swaps == [old : Lists, users : Lists]    \* a hot swap from one list to another
NoJob == [todo |-> None, undo |-> None]
Down == [up |-> FALSE, start |-> None, users |-> {}]

Building == {"build", "reload", "refresh", "rebuild"}
Stopping == {"flag", "take"}
Labels == {"idle", "check", "hash", "swap", "users", "update", "apply",
           "write", "aggregate"} \cup Building \cup Stopping

TypeOK ==
    /\ desired \in BOOLEAN /\ renewing \in BOOLEAN
    /\ lastConfig \in Configs /\ lastUsers \in Lists
    /\ instances \in [Instances ->
            {Down} \cup [up : {TRUE}, start : Args, users : Lists]]
    /\ x \in [inst : Instances \cup {None}, running : BOOLEAN, users : Lists,
              config : Configs, hash : [config : Configs, users : Lists],
              tls : TLSCerts]
    /\ cert \in Managers
    /\ storage \in 0..MaxRenewals
    /\ pull \in {"none", "poll", "result"}
    /\ pc \in [Threads -> Labels]
    /\ arg \in [Threads -> Args \cup Swaps \cup {None}]
    /\ own \in [Threads -> Instances \cup {None}]
    /\ job \in [todo : Lists \cup {None}, undo : Lists \cup {None}]
    /\ hazards \subseteq {"stop", "start", "skip"}
    /\ budget \in [commands : 0..MaxCommands, configs : 0..MaxConfigs,
                   users : 0..MaxUsers, faults : 0..MaxFaults]

\* After initialSetup: the kernel runs with the snapshot's configuration.
Init ==
    /\ desired = TRUE /\ hazards = {} /\ renewing = FALSE
    /\ \E g \in Configs, us \in Lists \ {{}}, c \in CertConfigs \ Bare :
        LET m == Started(NewManager(c), 0)
            i == CHOOSE j \in Instances : TRUE
            a == [config |-> g, users |-> us, tls |-> m.mat]
        IN  /\ lastConfig = g /\ lastUsers = us
            /\ cert = m
            /\ instances = [[j \in Instances |-> Down] EXCEPT
                    ![i] = [up |-> TRUE, start |-> a, users |-> us]]
            /\ x = [inst |-> i, running |-> TRUE, users |-> us, config |-> g,
                    hash |-> [config |-> g, users |-> us], tls |-> m.mat]
    /\ storage = 0
    /\ pull = "none"
    /\ pc = [p \in Threads |-> "idle"]
    /\ arg = [p \in Threads |-> None]
    /\ own = [p \in Threads |-> None]
    /\ job = NoJob
    /\ budget = [commands |-> MaxCommands, configs |-> MaxConfigs,
                 users |-> MaxUsers, faults |-> MaxFaults]

-----------------------------------------------------------------------------
Idle(p) == pc[p] = "idle"
Goto(p, label) == pc' = [pc EXCEPT ![p] = label]

\* p goes on with arguments, or is done.
Go(p, label, a) == Goto(p, label) /\ arg' = [arg EXCEPT ![p] = a]
Done(p) ==
    /\ Go(p, "idle", None)
    /\ job' = IF p = main THEN NoJob ELSE job

\* p begins an operation; what another goroutine is at is overlapped.
Begin(p, label, a) ==
    LET overlapped == {q \in Threads \ {p} : ~Idle(q)}
    IN  /\ Go(p, label, a)
        /\ hazards' = hazards \cup
            (IF \E q \in overlapped : label = "flag" \/ pc[q] \in Stopping
             THEN {"stop"} ELSE {})
            \cup (IF overlapped # {} /\ label # "flag" THEN {"start"} ELSE {})

Spend(field) ==
    /\ budget[field] > 0
    /\ budget' = [budget EXCEPT ![field] = @ - 1]

Current(config, users) ==
    [config |-> config, users |-> users, tls |-> cert.mat]

-----------------------------------------------------------------------------
(* Xray.Start, Reload, Stop and UpdateUsers, and what their callers do.    *)

Unused ==
    {i \in Instances : ~instances[i].up /\ \A q \in Threads : own[q] # i}

\* Mutant: Start records the hash before the new instance is in place.
StartNewRecording(p) ==
    /\ pc[p] \in Building
    /\ Unused # {}
    /\ LET i == CHOOSE j \in Unused : TRUE
       IN  /\ instances' = [instances EXCEPT ![i] =
                    [up |-> TRUE, start |-> arg[p], users |-> arg[p].users]]
           /\ own' = [own EXCEPT ![p] = i]
           /\ x' = [x EXCEPT !.hash = [config |-> arg[p].config,
                                       users |-> arg[p].users]]
    /\ Goto(p, "swap")
    /\ UNCHANGED <<serviceVars, certVars, arg, job, hazards, budget>>

\* Phases 1 to 3 of Start: a new instance is built and started.
StartNew(p) ==
    /\ pc[p] \in Building
    /\ Unused # {}
    /\ LET i == CHOOSE j \in Unused : TRUE
       IN  /\ instances' = [instances EXCEPT ![i] =
                    [up |-> TRUE, start |-> arg[p], users |-> arg[p].users]]
           /\ own' = [own EXCEPT ![p] = i]
    /\ Goto(p, "swap")
    /\ UNCHANGED <<serviceVars, x, certVars, arg, job, hazards, budget>>

\* The instance does not start; the running one is untouched.  A failed Reload
\* or hot swap is followed by startKernel; if that fails too, a user update
\* that had begun restores the old list, one that had not records the new one.
StartFails(p) ==
    /\ pc[p] \in Building
    /\ Spend("faults")
    /\ CASE pc[p] = "reload" ->
                /\ Go(p, "build", [arg[p] EXCEPT !.tls = cert.mat])
                /\ UNCHANGED <<lastUsers, job>>
         [] pc[p] = "refresh" ->
                /\ Go(p, "rebuild", Current(lastConfig, arg[p].users))
                /\ UNCHANGED <<lastUsers, job>>
         [] OTHER ->
                /\ Done(p)
                /\ lastUsers' = IF p # main \/ job = NoJob THEN lastUsers
                                ELSE IF job.todo # None THEN job.todo
                                ELSE job.undo
    /\ UNCHANGED <<desired, lastConfig, kernelVars, certVars, own, hazards>>

Closing(insts, i) ==
    IF i = None THEN insts ELSE [insts EXCEPT ![i] = Down]

\* Phases 4 and 5: the new instance replaces the current one under mu, and
\* closeOld closes that one in the background.  A user update that had to start the
\* kernel first goes on.
SwapOver(p, insts) ==
    /\ pc[p] = "swap"
    /\ instances' = insts
    /\ x' = [inst |-> own[p], running |-> TRUE, users |-> arg[p].users,
             config |-> arg[p].config,
             hash |-> [config |-> arg[p].config, users |-> arg[p].users],
             tls |-> arg[p].tls]
    /\ own' = [own EXCEPT ![p] = None]
    /\ IF p = main /\ job.todo # None
       THEN Go(p, "users", None) /\ UNCHANGED job ELSE Done(p)
    /\ UNCHANGED <<serviceVars, certVars, hazards, budget>>

\* Mutant: Start closes the old instance only while running is set.
SwapIfRunning(p) ==
    SwapOver(p, IF x.running THEN Closing(instances, x.inst) ELSE instances)

Swap(p) == SwapOver(p, Closing(instances, x.inst))

\* Reload compares the hash of the last Start, and the certificate, under mu:
\* users who were hot-swapped since are not compared.
ReloadIf(p, same) ==
    /\ pc[p] = "hash"
    /\ IF same
       THEN /\ x' = [x EXCEPT !.users = arg[p].users]
            /\ hazards' = hazards \cup
                    (IF x.users = arg[p].users THEN {} ELSE {"skip"})
            /\ Done(p)
       ELSE /\ Goto(p, "reload")
            /\ UNCHANGED <<x, arg, job, hazards>>
    /\ UNCHANGED <<serviceVars, instances, certVars, own, budget>>

SameConfig(a) == x.hash = [config |-> a.config, users |-> a.users]

\* Mutant: Reload compares configuration and users, not the certificate.
ReloadIgnoringCert(p) == ReloadIf(p, SameConfig(arg[p]))

Reload(p) == ReloadIf(p, SameConfig(arg[p]) /\ x.tls = arg[p].tls)

\* Stop: running is cleared first, the instance taken under mu after that.
ClearRunning(p) ==
    /\ pc[p] = "flag"
    /\ x' = [x EXCEPT !.running = FALSE]
    /\ Goto(p, "take")
    /\ UNCHANGED <<serviceVars, instances, certVars, arg, own, job, hazards,
                   budget>>

TakeInstance(p) ==
    /\ pc[p] = "take"
    /\ instances' = Closing(instances, x.inst)
    /\ x' = [x EXCEPT !.inst = None]
    /\ Done(p)
    /\ UNCHANGED <<serviceVars, certVars, own, hazards, budget>>

\* applyUserUpdate once the kernel runs: prepareUserState, then UpdateUsers.
PrepareUsers(p) ==
    /\ pc[p] = "users"
    /\ lastUsers' = job.todo
    /\ job' = [todo |-> None, undo |-> lastUsers]
    /\ Go(p, "update", Current(lastConfig, job.todo))
    /\ UNCHANGED <<desired, lastConfig, kernelVars, certVars, own, hazards,
                   budget>>

\* UpdateUsers, under mu: no instance is an error, after which the kernel is
\* started; without a UserManager it restarts with what it was started with.
UpdateUsers(p) ==
    /\ pc[p] = "update"
    /\ LET us == arg[p].users
           changed == x.users # us
       IN  \/ /\ x.inst = None
              /\ Go(p, "rebuild", Current(lastConfig, us))
              /\ UNCHANGED <<x, own, job>>
           \/ /\ x.inst # None /\ ~changed
              /\ Done(p)
              /\ UNCHANGED <<x, own>>
           \/ /\ x.inst # None /\ changed /\ x.config \notin HotSwap
              /\ Go(p, "refresh",
                    [config |-> x.config, users |-> us, tls |-> x.tls])
              /\ UNCHANGED <<x, own, job>>
           \/ /\ x.inst # None /\ changed /\ x.config \in HotSwap
              /\ own' = [own EXCEPT ![p] = x.inst]
              /\ Go(p, "apply", [old |-> x.users, users |-> us])
              /\ UNCHANGED <<x, job>>
    /\ UNCHANGED <<serviceVars, instances, certVars, hazards, budget>>

\* The UserManager that was fetched is given users without the lock, whatever
\* has become of its instance; then the list is recorded.
HotSwapOver(p, users) ==
    /\ pc[p] = "apply"
    /\ instances' = IF instances[own[p]].up
                    THEN [instances EXCEPT ![own[p]].users = users]
                    ELSE instances
    /\ Goto(p, "write")
    /\ own' = [own EXCEPT ![p] = None]
    /\ UNCHANGED <<serviceVars, x, certVars, arg, job, hazards, budget>>

\* UserDiff: who is to be added, and who is not to be removed.
Added(p) == arg[p].users \ arg[p].old
Kept(p) == instances[own[p]].users \ (arg[p].old \ arg[p].users)

\* Mutant: users that are no longer listed are not removed.
HotSwapAdding(p) == HotSwapOver(p, instances[own[p]].users \cup Added(p))

HotSwapUsers(p) == HotSwapOver(p, Kept(p) \cup Added(p))

RecordUsers(p) ==
    /\ pc[p] = "write"
    /\ x' = [x EXCEPT !.users = arg[p].users]
    /\ Done(p)
    /\ UNCHANGED <<serviceVars, instances, certVars, own, hazards, budget>>

KernelStep(p) ==
    \/ StartNew(p) \/ Swap(p) \/ Reload(p) \/ ClearRunning(p)
    \/ TakeInstance(p) \/ PrepareUsers(p) \/ UpdateUsers(p)
    \/ HotSwapUsers(p) \/ RecordUsers(p)

-----------------------------------------------------------------------------
(* ControlKernel: a remote command, on a goroutine of its own.             *)

Stop(p) ==
    /\ Idle(p) /\ Spend("commands")
    /\ desired' = FALSE
    /\ Begin(p, "flag", None)
    /\ UNCHANGED <<lastConfig, lastUsers, kernelVars, certVars, own, job>>

\* "start" and "restart" set the intention before they look at the users.
StartCommand(p, label) ==
    /\ Idle(p) /\ Spend("commands")
    /\ desired' = TRUE
    /\ IF lastUsers = {} THEN UNCHANGED <<pc, arg, hazards>>
       ELSE Begin(p, label, Current(lastConfig, lastUsers))
    /\ UNCHANGED <<lastConfig, lastUsers, kernelVars, certVars, own, job>>

Start(p) == StartCommand(p, "check")
Restart(p) == StartCommand(p, "build")

\* "start" has read the lists; the rest follows if the kernel does not run.
StartUnlessRunning(p) ==
    /\ pc[p] = "check"
    /\ IF x.running THEN Done(p)
       ELSE /\ Go(p, "build", [arg[p] EXCEPT !.tls = cert.mat])
            /\ UNCHANGED job
    /\ UNCHANGED <<serviceVars, kernelVars, certVars, own, hazards, budget>>

ReloadCommand(p) ==
    /\ Idle(p) /\ Spend("commands")
    /\ desired /\ lastUsers # {}
    /\ Begin(p, IF x.running THEN "hash" ELSE "build",
             Current(lastConfig, lastUsers))
    /\ UNCHANGED <<serviceVars, kernelVars, certVars, own, job>>

Command(p) ==
    Stop(p) \/ Start(p) \/ Restart(p) \/ StartUnlessRunning(p) \/ ReloadCommand(p)

-----------------------------------------------------------------------------
(* The main loop.                                                          *)

\* applyUserUpdate: after a remote stop, or if the kernel cannot be started,
\* the list is only recorded.
UserUpdate(us) ==
    /\ Idle(main) /\ us # lastUsers /\ Spend("users")
    /\ \/ /\ desired /\ x.running
          /\ job' = [NoJob EXCEPT !.todo = us]
          /\ Begin(main, "users", None)
          /\ UNCHANGED lastUsers
       \/ /\ desired /\ ~x.running /\ lastUsers # {}
          /\ job' = [NoJob EXCEPT !.todo = us]
          /\ Begin(main, "build", Current(lastConfig, lastUsers))
          /\ UNCHANGED lastUsers
       \/ /\ ~desired \/ (~x.running /\ lastUsers = {})
          /\ lastUsers' = us
          /\ UNCHANGED <<pc, arg, job, hazards>>
    /\ UNCHANGED <<desired, lastConfig, kernelVars, certVars, own>>

\* Mutant: applyChanges starts the kernel whatever was asked of it.
ApplyChangesAnyway(g, us, m) ==
    LET a == [config |-> g, users |-> us, tls |-> m.mat]
    IN  \/ us = {} /\ Begin(main, "flag", None)
        \/ us # {} /\ x.running /\ Begin(main, "hash", a)
        \/ us # {} /\ ~x.running /\ Begin(main, "build", a)

\* applyChanges with a configuration, users, and the manager's state m.
ApplyChanges(g, us, m) ==
    LET a == [config |-> g, users |-> us, tls |-> m.mat]
    IN  \/ us = {} /\ Begin(main, "flag", None)
        \/ us # {} /\ ~desired /\ UNCHANGED <<pc, arg, hazards>>
        \/ us # {} /\ desired /\ x.running /\ Begin(main, "hash", a)
        \/ us # {} /\ desired /\ ~x.running /\ Begin(main, "build", a)

\* A configuration is paid for, and so are users that come with it.
Pay(us, faults) ==
    LET users == IF us = lastUsers THEN 0 ELSE 1
    IN  /\ budget.configs > 0 /\ budget.users >= users /\ budget.faults >= faults
        /\ budget' = [budget EXCEPT !.configs = @ - 1, !.users = @ - users,
                                    !.faults = @ - faults]

\* A configuration comes with the panel's certificate, or with none: in
\* handleWSEvent, or in applyPullResult, perhaps one that a push brought earlier,
\* and perhaps with users.  The pull may be the one that took the flag of a
\* renewal.  In one step with the certificate and the decision of applyChanges:
\* a command in between would overlap it, a renewal is followed by its flag.
ConfigChange(g, us, c) ==
    /\ Idle(main)
    /\ lastConfig' = g /\ lastUsers' = us
    /\ pull' \in {pull} \cup (IF pull = "result" THEN {"none"} ELSE {})
    /\ \/ Pay(us, 0) /\ cert' = Reconfigured(cert, c, storage)
       \/ Pay(us, 1) /\ c # NoCert /\ cert' \in ReconfigureFailed(cert, c, storage)
       \/ Pay(us, 0) /\ c = NoCert /\ cert' = cert
    /\ ApplyChanges(g, us, cert')
    /\ UNCHANGED <<desired, kernelVars, storage, renewing, own, job>>

\* Mutant: trackAndEnforce does not ask whether the kernel runs.
TrackAlways ==
    /\ Idle(main)
    /\ Begin(main, "aggregate", None)
    /\ UNCHANGED <<serviceVars, kernelVars, certVars, own, job, budget>>

\* trackAndEnforce asks whether the kernel runs; GetUserTraffic then reads the
\* statistics of its instance.
Track ==
    /\ Idle(main) /\ x.running
    /\ Begin(main, "aggregate", None)
    /\ UNCHANGED <<serviceVars, kernelVars, certVars, own, job, budget>>

Aggregated ==
    /\ pc[main] = "aggregate"
    /\ Done(main)
    /\ UNCHANGED <<serviceVars, kernelVars, certVars, own, hazards, budget>>

\* pullViaAPIAsync takes the flag of a renewal before it polls; a pull that
\* finds none changes nothing here.
StartPull ==
    /\ Idle(main) /\ pull = "none" /\ cert.renewed
    /\ pull' = "poll"
    /\ cert' = [cert EXCEPT !.renewed = FALSE]
    /\ UNCHANGED <<serviceVars, kernelVars, storage, renewing, threadVars, hazards,
                   budget>>

PollFails ==
    /\ pull = "poll" /\ Spend("faults")
    /\ pull' = "none"
    /\ UNCHANGED <<serviceVars, kernelVars, cert, storage, renewing, threadVars,
                   hazards>>

PollAnswers ==
    /\ pull = "poll"
    /\ pull' = "result"
    /\ UNCHANGED <<serviceVars, kernelVars, cert, storage, renewing, threadVars,
                   hazards, budget>>

\* applyPullResult after a renewal, without a new configuration.
PullApplied(us) ==
    /\ Idle(main) /\ pull = "result"
    /\ pull' = "none"
    /\ lastUsers' = us
    /\ \/ us = lastUsers /\ UNCHANGED budget
       \/ us # lastUsers /\ Spend("users")
    /\ ApplyChanges(lastConfig, us, cert)
    /\ UNCHANGED <<desired, lastConfig, kernelVars, cert, storage, renewing, own,
                   job>>

-----------------------------------------------------------------------------
(* The ACME goroutine (external): a renewed certificate is stored in memory, *)
(* then flagged.                                                            *)
Renew ==
    /\ cert.acme # NoCert /\ ~renewing /\ storage < MaxRenewals
    /\ storage' = storage + 1
    /\ cert' = Store(cert, storage')
    /\ renewing' = TRUE
    /\ UNCHANGED <<serviceVars, kernelVars, pull, threadVars, hazards, budget>>

Flag ==
    /\ renewing
    /\ renewing' = FALSE
    /\ cert' = [cert EXCEPT !.renewed = TRUE]
    /\ UNCHANGED <<serviceVars, kernelVars, storage, pull, threadVars, hazards,
                   budget>>

MainLoop ==
    \/ \E us \in Lists : UserUpdate(us)
    \/ \E g \in Configs, us \in Lists, c \in CertConfigs : ConfigChange(g, us, c)
    \/ \E us \in Lists : PullApplied(us)
    \/ Track \/ Aggregated \/ StartPull

Next ==
    \/ \E p \in Threads : KernelStep(p) \/ StartFails(p)
    \/ \E p \in Commands : Command(p)
    \/ MainLoop \/ PollFails \/ PollAnswers \/ Renew \/ Flag

Spec == Init /\ [][Next]_vars

\* Goroutines make progress; a poll is answered or fails; the node polls (it
\* has no WebSocket) and comes to its results.
Fairness ==
    /\ \A p \in Threads : WF_vars(KernelStep(p))
    /\ \A p \in Commands : WF_vars(StartUnlessRunning(p))
    /\ WF_vars(Aggregated) /\ WF_vars(PollAnswers) /\ WF_vars(Flag)
    /\ SF_vars(StartPull) /\ SF_vars(\E us \in Lists : PullApplied(us))

FairSpec == Spec /\ Fairness

-----------------------------------------------------------------------------
\* Whatever Starts and Stops overlap, an instance that serves connections is
\* the wrapper's current one or on its way to become it: none keeps running,
\* on the node's port, without anybody who could close it.
NoLeakedInstance ==
    \A i \in Instances :
        instances[i].up =>
            \/ x.inst = i
            \/ \E p \in Threads : pc[p] = "swap" /\ own[p] = i

\* The hash and the certificate that Reload compares with are those of the
\* last Start whose instance is current, so that a Reload is skipped only when
\* that instance has the configuration and the material.
HashDescribesInstance ==
    x.inst # None =>
        LET start == instances[x.inst].start
        IN  /\ x.hash = [config |-> start.config, users |-> start.users]
            /\ x.tls = start.tls

\* As long as no Stop has overlapped another operation, a kernel that reports
\* to run has an instance, also when its traffic is read after the question.
RunningHasInstance ==
    "stop" \notin hazards =>
        /\ x.running /\ (\A p \in Threads : pc[p] # "take") => x.inst # None
        /\ pc[main] = "aggregate" => x.inst # None

\* After a remote stop nothing but a remote start makes the kernel run again,
\* if it did not overlap another operation.
StopIsKept ==
    /\ "stop" \notin hazards /\ ~desired
    /\ \A p \in Threads : pc[p] \notin Stopping
    => ~x.running /\ x.inst = None

\* Where no operations have overlapped, none has failed and no Reload took
\* hot-swapped users for those of the last Start, a node at rest has its latest
\* configuration in its instance, and the instance admits exactly its latest
\* users, whether they came by a start, a reload or a hot swap.
ServesLatest ==
    /\ hazards = {} /\ budget.faults = MaxFaults
    /\ x.inst # None /\ \A p \in Threads : Idle(p)
    => LET served == instances[x.inst]
       IN  served.start.config = lastConfig /\ served.users = lastUsers

\* "survives user/config sync" (service.go:815), whatever overlaps.
StopSurvivesSync ==
    ~desired /\ (\A p \in Threads : Idle(p)) => x.inst = None

\* A certificate that is renewed while the node polls is served by the running
\* kernel in the end, if nothing fails and no two operations overlap.
Served == ~desired \/ ~x.running \/ x.tls = cert.mat
RenewalServed ==
    [](budget.faults = MaxFaults /\ hazards = {}) => []<>Served

-----------------------------------------------------------------------------
(* What these rest on.                                                     *)

\* A goroutine that is about to install an instance has it for itself, and the
\* instance was started with what will be recorded of it.
OwnsInstance ==
    \A p \in Threads :
        /\ own[p] # None <=> pc[p] \in {"swap", "apply"}
        /\ pc[p] = "swap" =>
             /\ instances[own[p]].up /\ instances[own[p]].start = arg[p]
             /\ own[p] # x.inst
             /\ \A q \in Threads \ {p} : own[q] # own[p]

CurrentIsUp == x.inst # None => instances[x.inst].up

\* An operation has its arguments, a user update its list.
HasArguments ==
    /\ \A p \in Threads :
        /\ pc[p] \in Building \cup {"check", "hash", "swap", "update"} =>
                arg[p] \in Args
        /\ pc[p] \in {"apply", "write"} => arg[p] \in Swaps
        /\ pc[p] = "users" => p = main
    /\ pc[main] = "users" => job.todo \in Lists

\* The ACME goroutine is that of the configuration.
AcmeIsConfigured == cert.acme \in {NoCert, cert.cfg}

\* Without overlap a Stop is alone, and nothing is under way after one.
StopIsAlone ==
    "stop" \notin hazards =>
        /\ \A p \in Threads : pc[p] \in Stopping =>
             /\ \A q \in Threads \ {p} : Idle(q)
             /\ pc[p] = "take" => ~x.running
        /\ ~desired => \A p \in Threads : pc[p] \in Stopping \cup {"idle"}

\* Without overlap operations follow one another.
Sequential ==
    hazards = {} =>
        /\ \A p, q \in Threads : p # q => Idle(p) \/ Idle(q)
        /\ x.inst # None /\ (\A p \in Threads : pc[p] # "take") => x.running
        /\ \A p \in Commands :
              pc[p] \notin Stopping \cup {"idle"} => lastUsers # {}

ConfigIsRecorded ==
    x.inst # None => x.config = instances[x.inst].start.config
UsersAreRecorded == x.inst # None => x.users = instances[x.inst].users
ConfigServed == x.inst # None => instances[x.inst].start.config = lastConfig
UsersServed == x.inst # None => instances[x.inst].users = lastUsers

\* What is served, and what an operation under way will make of it.
UpToDate ==
    hazards = {} /\ budget.faults = MaxFaults =>
        /\ ConfigIsRecorded
        /\ (\A p \in Threads : pc[p] \in {"idle", "check", "users", "aggregate"})
             => ConfigServed /\ UsersAreRecorded /\ UsersServed
        /\ \A p \in Threads :
            /\ pc[p] \in Building \cup {"check", "hash", "swap"} =>
                    arg[p].config = lastConfig /\ arg[p].users = lastUsers
            /\ pc[p] = "hash" => UsersAreRecorded
            /\ pc[p] = "swap" => instances[own[p]].users = lastUsers
            /\ pc[p] \in {"update", "apply"} =>
                    /\ ConfigServed /\ UsersAreRecorded
                    /\ arg[p].users = lastUsers
            /\ pc[p] = "apply" => own[p] = x.inst /\ arg[p].old = x.users
            /\ pc[p] = "write" =>
                    ConfigServed /\ UsersServed /\ arg[p].users = lastUsers

IInv == /\ TypeOK /\ AcmeIsConfigured /\ HasArguments
        /\ OwnsInstance /\ CurrentIsUp
        /\ NoLeakedInstance /\ HashDescribesInstance
        /\ StopIsAlone /\ RunningHasInstance /\ StopIsKept
        /\ Sequential /\ UpToDate
=============================================================================
