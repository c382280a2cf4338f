------------------------- MODULE KernelControlProofs -------------------------
(***************************************************************************)
(* The kernel under any number of commands, goroutines and renewals: no    *)
(* xray instance escapes, Reload compares with the instance that runs, a   *)
(* stop that overlaps nothing is kept, and where nothing overlaps or fails *)
(* what the node has is what is served.                                    *)
(***************************************************************************)
EXTENDS KernelControl, TLAPS

USE DEF Labels, Building, Stopping

InstanceInv ==
    OwnsInstance /\ CurrentIsUp /\ NoLeakedInstance /\ HashDescribesInstance
StopInv == StopIsAlone /\ RunningHasInstance /\ StopIsKept

-----------------------------------------------------------------------------
(* The certificate manager.                                                *)

\* Material is stored for a configuration that has some.
LEMMA StoreTyped ==
    ASSUME NEW m \in Managers, m.cfg \in Sources, NEW v \in 0..MaxRenewals
    PROVE  /\ Store(m, v) \in Managers
           /\ Store(m, v).cfg = m.cfg /\ Store(m, v).acme = m.acme
BY DEF Store, Managers, TLSCerts

\* A manager that is started runs the ACME goroutine of its configuration, or
\* none.
LEMMA StartedTyped ==
    ASSUME NEW m \in Managers, NEW v \in 0..MaxRenewals,
           m.acme \in {NoCert, m.cfg}
    PROVE  /\ Started(m, v) \in Managers
           /\ Started(m, v).acme \in {NoCert, Started(m, v).cfg}
<1>1. m.cfg \in CertConfigs /\ 0 \in 0..MaxRenewals
    BY CertAssumption DEF Managers
<1>2. CASE m.cfg = NoCert
    <2>1. /\ m.cfg \notin Given /\ m.cfg \notin SelfSigned /\ m.cfg \notin Acme
          /\ m.cfg \notin Bare
        BY <1>2, CertAssumption
    <2> QED BY <1>2, <2>1 DEF Started
<1>3. CASE m.cfg \in Given
    BY <1>1, <1>3, StoreTyped, CertAssumption DEF Started, Sources
<1>4. CASE m.cfg \in SelfSigned \cup Bare
    <2>1. /\ m.cfg # NoCert /\ m.cfg \notin Given /\ m.cfg \in Sources
          /\ m.cfg \in SelfSigned <=> m.cfg \notin Bare
        BY <1>4, CertAssumption DEF Sources
    <2>2. Started(m, v) \in {m, Store(m, 0), [m EXCEPT !.mat = m.disk]}
        <3>1. CASE m.disk = NoMaterial /\ m.cfg \in SelfSigned
            BY <2>1, <3>1, CertAssumption DEF Started
        <3>2. CASE m.disk = NoMaterial /\ m.cfg \in Bare
            BY <2>1, <3>2, CertAssumption DEF Started
        <3>3. CASE m.disk # NoMaterial
            BY <1>4, <2>1, <3>3, CertAssumption DEF Started
        <3> QED BY <1>4, <3>1, <3>2, <3>3
    <2>3. [m EXCEPT !.mat = m.disk] \in Managers
        BY DEF Managers
    <2>4. /\ [m EXCEPT !.mat = m.disk].cfg = m.cfg
          /\ [m EXCEPT !.mat = m.disk].acme = m.acme
        BY DEF Managers
    <2> QED BY <1>1, <2>1, <2>2, <2>3, <2>4, StoreTyped
<1>5. CASE m.cfg \in Acme
    <2>1. /\ m.cfg # NoCert /\ m.cfg \notin Given /\ m.cfg \notin SelfSigned
          /\ m.cfg \notin Bare /\ m.cfg \in Sources
        BY <1>5, CertAssumption DEF Sources
    <2>2. Started(m, v) = StartedACME(m, v)
        BY <1>5, <2>1 DEF Started
    <2>3. CASE m.acme # NoCert
        BY <2>2, <2>3 DEF StartedACME
    <2>4. CASE m.acme = NoCert
        <3>1. Started(m, v) = [Store(m, v) EXCEPT !.acme = m.cfg]
            BY <2>2, <2>4 DEF StartedACME
        <3>2. Store(m, v) \in Managers /\ Store(m, v).cfg = m.cfg
            BY <2>1, StoreTyped
        <3> QED BY <1>5, <3>1, <3>2 DEF Managers
    <2> QED BY <2>3, <2>4
<1> QED BY <1>1, <1>2, <1>3, <1>4, <1>5 DEF CertConfigs, Sources

\* Neither outcome of Reconfigure leaves another configuration's goroutine.
LEMMA ReconfiguredTyped ==
    ASSUME NEW m \in Managers, m.acme \in {NoCert, m.cfg},
           NEW c \in CertConfigs, NEW v \in 0..MaxRenewals
    PROVE  /\ Reconfigured(m, c, v) \in Managers
           /\ Reconfigured(m, c, v).acme \in {NoCert, Reconfigured(m, c, v).cfg}
           /\ \A failed \in ReconfigureFailed(m, c, v) :
                failed \in Managers /\ failed.acme \in {NoCert, failed.cfg}
<1> DEFINE t == [TornDown(m, c) EXCEPT !.cfg = c]
<1>1. TornDown(m, c) \in Managers /\ TornDown(m, c).acme \in {NoCert, c}
    BY DEF TornDown, Managers, TLSCerts
<1>2. t \in Managers /\ t.cfg = c /\ t.acme \in {NoCert, c}
    BY <1>1 DEF Managers
<1> HIDE DEF t
<1>3. Started(t, v) \in Managers /\ Started(t, v).acme \in {NoCert, Started(t, v).cfg}
    BY <1>2, StartedTyped
<1>4. ASSUME c \in Acme
      PROVE  Store(t, v) \in Managers /\ Store(t, v).acme \in {NoCert, Store(t, v).cfg}
    BY <1>2, <1>4, StoreTyped DEF Sources
<1>5. \A failed \in ReconfigureFailed(m, c, v) :
        failed = t \/ (c \in Acme /\ failed = Store(t, v))
    BY DEF t, ReconfigureFailed
<1> QED BY <1>2, <1>3, <1>4, <1>5 DEF t, Reconfigured

-----------------------------------------------------------------------------
(* Types, and that operations have their arguments.                        *)

Jobs == [todo : Lists \cup {None}, undo : Lists \cup {None}]

\* What TypeOK and HasArguments say of the goroutines.
ThreadsTyped ==
    /\ pc \in [Threads -> Labels]
    /\ arg \in [Threads -> Args \cup Swaps \cup {None}]
    /\ hazards \subseteq {"stop", "start", "skip"} /\ job \in Jobs
    /\ HasArguments

\* What a goroutine needs at a label.
Suits(label, a) ==
    CASE label \in {"idle", "users", "aggregate", "flag", "take"} -> TRUE
      [] label \in {"apply", "write"} -> a \in Swaps
      [] OTHER -> a \in Args

LEMMA MainIsThread == main \in Threads
BY DEF Threads

\* A goroutine goes on with what its next step needs.
LEMMA GoTyped ==
    ASSUME TypeOK, HasArguments, NEW p \in Threads, NEW label \in Labels,
           NEW a \in Args \cup Swaps \cup {None}, Go(p, label, a), Suits(label, a),
           label = "users" => p = main /\ job'.todo \in Lists,
           hazards' \subseteq {"stop", "start", "skip"}, job' \in Jobs,
           p = main \/ UNCHANGED job
    PROVE  ThreadsTyped'
<1>1. /\ pc' \in [Threads -> Labels]
      /\ arg' \in [Threads -> Args \cup Swaps \cup {None}]
    BY DEF TypeOK, Go, Goto
<1>2. HasArguments'
    BY MainIsThread DEF TypeOK, HasArguments, Suits, Go, Goto
<1> QED BY <1>1, <1>2 DEF ThreadsTyped

\* It goes on with the arguments it has.
LEMMA GotoTyped ==
    ASSUME TypeOK, HasArguments, NEW p \in Threads, NEW label \in Labels,
           Goto(p, label), UNCHANGED <<arg, job, hazards>>,
           Suits(label, arg[p]), label # "users"
    PROVE  ThreadsTyped'
<1>1. arg[p] \in Args \cup Swaps \cup {None} /\ Go(p, label, arg[p])
    BY DEF TypeOK, Go
<1>2. job' \in Jobs /\ hazards' \subseteq {"stop", "start", "skip"}
    BY DEF TypeOK, Jobs
<1> QED BY <1>1, <1>2, GoTyped

LEMMA DoneTyped ==
    ASSUME TypeOK, HasArguments, NEW p \in Threads, Done(p), UNCHANGED hazards
    PROVE  ThreadsTyped'
<1>1. job' \in Jobs /\ hazards' \subseteq {"stop", "start", "skip"}
    BY DEF TypeOK, Done, Jobs, NoJob
<1>2. Go(p, "idle", None) /\ (p = main \/ UNCHANGED job)
    BY DEF Done
<1> QED BY <1>1, <1>2, GoTyped DEF Suits

LEMMA BeginTyped ==
    ASSUME TypeOK, HasArguments, NEW p \in Threads, NEW label \in Labels,
           NEW a \in Args \cup {None}, Begin(p, label, a),
           label \notin {"apply", "write"},
           label \in {"idle", "users", "aggregate", "flag", "take"} \/ a \in Args,
           label = "users" => p = main /\ job'.todo \in Lists,
           job' \in Jobs, p = main \/ UNCHANGED job
    PROVE  ThreadsTyped'
<1>1. hazards' \subseteq {"stop", "start", "skip"}
    BY DEF TypeOK, Begin
<1> QED BY <1>1, GoTyped DEF Begin, Suits

LEMMA CurrentTyped ==
    ASSUME TypeOK, NEW us \in Lists
    PROVE  Current(lastConfig, us) \in Args
BY DEF TypeOK, Current, Args, Managers

\* One operation of a goroutine is paid for with one unit of its budget.
LEMMA SpendTyped ==
    ASSUME TypeOK,
           Spend("commands") \/ Spend("configs") \/ Spend("users") \/ Spend("faults")
    PROVE  budget' \in [commands : 0..MaxCommands, configs : 0..MaxConfigs,
                        users : 0..MaxUsers, faults : 0..MaxFaults]
<1> DEFINE B == [commands : 0..MaxCommands, configs : 0..MaxConfigs,
                 users : 0..MaxUsers, faults : 0..MaxFaults]
<1>1. budget \in B
    BY DEF TypeOK
<1>2. ASSUME NEW n \in Nat, NEW k \in 0..n, k > 0
      PROVE  k - 1 \in 0..n
    BY <1>2
<1>3. /\ MaxCommands \in Nat /\ MaxConfigs \in Nat
      /\ MaxUsers \in Nat /\ MaxFaults \in Nat
    BY ControlAssumption
<1>4. CASE Spend("commands")
    BY <1>1, <1>2, <1>3, <1>4 DEF Spend
<1>5. CASE Spend("configs")
    BY <1>1, <1>2, <1>3, <1>5 DEF Spend
<1>6. CASE Spend("users")
    BY <1>1, <1>2, <1>3, <1>6 DEF Spend
<1>7. CASE Spend("faults")
    BY <1>1, <1>2, <1>3, <1>7 DEF Spend
<1> QED BY <1>4, <1>5, <1>6, <1>7

LEMMA PayTyped ==
    ASSUME TypeOK, NEW us, NEW faults \in {0, 1}, Pay(us, faults)
    PROVE  /\ budget' \in [commands : 0..MaxCommands, configs : 0..MaxConfigs,
                           users : 0..MaxUsers, faults : 0..MaxFaults]
           /\ budget'.faults = MaxFaults => budget.faults = MaxFaults
<1> DEFINE B == [commands : 0..MaxCommands, configs : 0..MaxConfigs,
                 users : 0..MaxUsers, faults : 0..MaxFaults]
           users == IF us = lastUsers THEN 0 ELSE 1
<1>1. ASSUME NEW n \in Nat, NEW k \in 0..n, NEW d \in {0, 1}, k >= d
      PROVE  k - d \in 0..n /\ (k - d = n => k = n)
    BY <1>1
<1>2. /\ MaxConfigs \in Nat /\ MaxUsers \in Nat /\ MaxFaults \in Nat
    BY ControlAssumption
<1>3. users \in {0, 1}
    OBVIOUS
<1>4. /\ budget.configs >= 1 /\ budget.users >= users /\ budget.faults >= faults
      /\ budget' = [budget EXCEPT !.configs = @ - 1, !.users = @ - users,
                                  !.faults = @ - faults]
      /\ budget \in B
    BY DEF Pay, TypeOK
<1> HIDE DEF users
<1>5. /\ budget.configs - 1 \in 0..MaxConfigs /\ budget.users - users \in 0..MaxUsers
      /\ budget.faults - faults \in 0..MaxFaults
      /\ budget.faults - faults = MaxFaults => budget.faults = MaxFaults
    BY <1>1, <1>2, <1>3, <1>4
<1> QED BY <1>4, <1>5

LEMMA UpIsStarted ==
    ASSUME TypeOK, NEW i \in Instances, instances[i].up
    PROVE  instances[i] \in [up : {TRUE}, start : Args, users : Lists]
<1>1. instances[i] # Down
    BY DEF Down
<1> QED BY <1>1 DEF TypeOK

\* A hot swap leaves a list.
LEMMA SwapTyped ==
    ASSUME TypeOK, NEW p \in Threads, arg[p] \in Swaps, own[p] \in Instances,
           instances[own[p]].up
    PROVE  Kept(p) \cup Added(p) \in Lists
<1>1. instances[own[p]].users \in Lists
    BY UpIsStarted
<1>2. arg[p].users \in Lists
    BY DEF Swaps
<1> QED BY <1>1, <1>2 DEF Kept, Added, Lists

LEMMA ClosingTyped ==
    ASSUME TypeOK, NEW i \in Instances \cup {None}
    PROVE  Closing(instances, i) \in
                [Instances -> {Down} \cup [up : {TRUE}, start : Args, users : Lists]]
BY DEF TypeOK, Closing

\* The kernel's own steps.
LEMMA KernelTyped ==
    ASSUME TypeOK, HasArguments, OwnsInstance,
           NEW p \in Threads, KernelStep(p)
    PROVE  TypeOK' /\ HasArguments'
<1> USE DEF serviceVars, certVars, kernelVars
<1>1. CASE StartNew(p)
    <2> DEFINE i == CHOOSE j \in Unused : TRUE
    <2>1. i \in Instances
        BY <1>1 DEF StartNew, Unused
    <2>2. arg[p] \in Args
        BY <1>1 DEF StartNew, HasArguments
    <2>3. ThreadsTyped'
        BY <1>1, <2>2, GotoTyped DEF StartNew, Suits
    <2>4. /\ instances' = [instances EXCEPT ![i] =
                    [up |-> TRUE, start |-> arg[p], users |-> arg[p].users]]
          /\ own' = [own EXCEPT ![p] = i]
        BY <1>1 DEF StartNew
    <2> HIDE DEF i
    <2>5. instances' \in [Instances ->
                {Down} \cup [up : {TRUE}, start : Args, users : Lists]]
        BY <2>1, <2>2, <2>4 DEF TypeOK, Args
    <2>6. own' \in [Threads -> Instances \cup {None}]
        BY <2>1, <2>4 DEF TypeOK
    <2> QED BY <1>1, <2>3, <2>5, <2>6 DEF StartNew, TypeOK, ThreadsTyped, Jobs
<1>2. CASE Swap(p)
    <2>1. arg[p] \in Args /\ own[p] \in Instances
        BY <1>2 DEF Swap, SwapOver, HasArguments, OwnsInstance, TypeOK
    <2>2. ThreadsTyped'
        <3>1. CASE p = main /\ job.todo # None
            <4>1. Go(p, "users", None) /\ UNCHANGED <<job, hazards>>
                BY <1>2, <3>1 DEF Swap, SwapOver
            <4>2. job'.todo \in Lists /\ job' \in Jobs /\ hazards' \subseteq {"stop", "start", "skip"}
                BY <3>1, <4>1 DEF TypeOK, Jobs
            <4> QED BY <3>1, <4>1, <4>2, GoTyped DEF Suits
        <3>2. CASE ~(p = main /\ job.todo # None)
            BY <1>2, <3>2, DoneTyped DEF Swap, SwapOver
        <3> QED BY <3>1, <3>2
    <2>3. instances' \in [Instances ->
                {Down} \cup [up : {TRUE}, start : Args, users : Lists]]
        BY <1>2, ClosingTyped DEF Swap, SwapOver, TypeOK
    <2>4. x' \in [inst : Instances \cup {None}, running : BOOLEAN,
                  users : Lists, config : Configs,
                  hash : [config : Configs, users : Lists], tls : TLSCerts]
        BY <1>2, <2>1 DEF Swap, SwapOver, Args
    <2>5. own' \in [Threads -> Instances \cup {None}]
        BY <1>2 DEF Swap, SwapOver, TypeOK
    <2> QED BY <1>2, <2>2, <2>3, <2>4, <2>5
            DEF Swap, SwapOver, TypeOK, ThreadsTyped, Jobs
<1>3. CASE Reload(p)
    <2>1. arg[p] \in Args
        BY <1>3 DEF Reload, ReloadIf, HasArguments
    <2>2. ThreadsTyped'
        <3>1. CASE Done(p)
            <4>1. job' \in Jobs /\ hazards' \subseteq {"stop", "start", "skip"}
                BY <1>3, <3>1 DEF Reload, ReloadIf, TypeOK, Done, Jobs, NoJob
            <4> QED BY <3>1, <4>1, GoTyped DEF Done, Suits
        <3>2. CASE Goto(p, "reload") /\ UNCHANGED <<arg, job, hazards>>
            BY <2>1, <3>2, GotoTyped DEF Suits
        <3> QED BY <1>3, <3>1, <3>2 DEF Reload, ReloadIf
    <2>3. x' \in [inst : Instances \cup {None}, running : BOOLEAN,
                  users : Lists, config : Configs,
                  hash : [config : Configs, users : Lists], tls : TLSCerts]
        BY <1>3, <2>1 DEF Reload, ReloadIf, Args, TypeOK
    <2> QED BY <1>3, <2>2, <2>3 DEF Reload, ReloadIf, TypeOK, ThreadsTyped, Jobs
<1>4. CASE ClearRunning(p)
    <2>1. ThreadsTyped'
        BY <1>4, GotoTyped DEF ClearRunning, Suits
    <2> QED BY <1>4, <2>1 DEF ClearRunning, TypeOK, ThreadsTyped, Jobs
<1>5. CASE TakeInstance(p)
    <2>1. ThreadsTyped'
        BY <1>5, DoneTyped DEF TakeInstance
    <2>2. instances' \in [Instances ->
                {Down} \cup [up : {TRUE}, start : Args, users : Lists]]
        BY <1>5, ClosingTyped DEF TakeInstance, TypeOK
    <2> QED BY <1>5, <2>1, <2>2 DEF TakeInstance, TypeOK, ThreadsTyped, Jobs
<1>6. CASE PrepareUsers(p)
    <2>1. p = main /\ job.todo \in Lists
        BY <1>6 DEF PrepareUsers, HasArguments
    <2>2. Current(lastConfig, job.todo) \in Args
        BY <2>1, CurrentTyped
    <2>3. ThreadsTyped'
        <3>1. job' \in Jobs /\ UNCHANGED hazards
            BY <1>6, <2>1 DEF PrepareUsers, TypeOK, Jobs
        <3> QED BY <1>6, <2>1, <2>2, <3>1, GoTyped DEF PrepareUsers, Suits, TypeOK
    <2> QED BY <1>6, <2>1, <2>3 DEF PrepareUsers, TypeOK, ThreadsTyped, Jobs
<1>7. CASE UpdateUsers(p)
    <2>1. arg[p] \in Args /\ arg[p].users \in Lists
        BY <1>7 DEF UpdateUsers, HasArguments, Args
    <2>2. Current(lastConfig, arg[p].users) \in Args
        BY <2>1, CurrentTyped
    <2>3. [config |-> x.config, users |-> arg[p].users, tls |-> x.tls] \in Args
        BY <2>1 DEF TypeOK, Args
    <2>4. job' \in Jobs /\ hazards' \subseteq {"stop", "start", "skip"}
        BY <1>7 DEF UpdateUsers, TypeOK, Jobs, Done, NoJob
    <2>5. ThreadsTyped'
        <3>1. \/ Go(p, "rebuild", Current(lastConfig, arg[p].users)) /\ UNCHANGED job
              \/ Done(p)
              \/ /\ Go(p, "refresh", [config |-> x.config, users |-> arg[p].users,
                                      tls |-> x.tls])
                 /\ UNCHANGED job
              \/ /\ Go(p, "apply", [old |-> x.users, users |-> arg[p].users])
                 /\ UNCHANGED job
            BY <1>7 DEF UpdateUsers
        <3>2. UNCHANGED hazards
            BY <1>7 DEF UpdateUsers
        <3>3. [old |-> x.users, users |-> arg[p].users] \in Swaps
            BY <2>1 DEF TypeOK, Swaps
        <3> QED BY <2>2, <2>3, <2>4, <3>1, <3>2, <3>3, GoTyped, DoneTyped DEF Suits
    <2>6. own' \in [Threads -> Instances \cup {None}]
        BY <1>7 DEF UpdateUsers, TypeOK
    <2> QED BY <1>7, <2>5, <2>6 DEF UpdateUsers, TypeOK, ThreadsTyped, Jobs
<1>8. CASE HotSwapUsers(p)
    <2> DEFINE users == Kept(p) \cup Added(p)
    <2>1. arg[p] \in Swaps /\ own[p] \in Instances
        BY <1>8 DEF HotSwapUsers, HotSwapOver, HasArguments, OwnsInstance, TypeOK
    <2>2. ThreadsTyped'
        BY <1>8, <2>1, GotoTyped DEF HotSwapUsers, HotSwapOver, Suits
    <2>3. instances' \in [Instances ->
                {Down} \cup [up : {TRUE}, start : Args, users : Lists]]
        <3> DEFINE Up == [up : {TRUE}, start : Args, users : Lists]
        <3>1. CASE instances[own[p]].up
            <4>1. instances[own[p]] \in Up
                BY <2>1, <3>1, UpIsStarted
            <4>2. [instances[own[p]] EXCEPT !.users = users] \in Up
                BY <2>1, <4>1, SwapTyped
            <4>3. instances' = [instances EXCEPT ![own[p]] =
                        [instances[own[p]] EXCEPT !.users = users]]
                BY <1>8, <2>1, <3>1 DEF HotSwapUsers, HotSwapOver, TypeOK
            <4> HIDE DEF Up, users
            <4> QED BY <2>1, <4>2, <4>3 DEF TypeOK, Up
        <3>2. CASE ~instances[own[p]].up
            BY <1>8, <3>2 DEF HotSwapUsers, HotSwapOver, TypeOK
        <3> QED BY <3>1, <3>2
    <2>4. own' \in [Threads -> Instances \cup {None}]
        BY <1>8 DEF HotSwapUsers, HotSwapOver, TypeOK
    <2> QED BY <1>8, <2>2, <2>3, <2>4 DEF HotSwapUsers, HotSwapOver, TypeOK, ThreadsTyped, Jobs
<1>9. CASE RecordUsers(p)
    <2>1. arg[p] \in Swaps
        BY <1>9 DEF RecordUsers, HasArguments
    <2>2. ThreadsTyped'
        BY <1>9, DoneTyped DEF RecordUsers
    <2>3. x' \in [inst : Instances \cup {None}, running : BOOLEAN,
                  users : Lists, config : Configs,
                  hash : [config : Configs, users : Lists], tls : TLSCerts]
        BY <1>9, <2>1 DEF RecordUsers, Swaps, TypeOK
    <2> QED BY <1>9, <2>2, <2>3 DEF RecordUsers, TypeOK, ThreadsTyped, Jobs
<1> QED BY <1>1, <1>2, <1>3, <1>4, <1>5, <1>6, <1>7, <1>8, <1>9 DEF KernelStep

\* A start that fails goes on with other arguments, or ends the operation.
LEMMA FailTyped ==
    ASSUME TypeOK, HasArguments, NEW p \in Threads, StartFails(p)
    PROVE  TypeOK' /\ HasArguments'
<1>1. arg[p] \in Args
    BY DEF StartFails, HasArguments
<1>2. [arg[p] EXCEPT !.tls = cert.mat] \in Args
    BY <1>1 DEF TypeOK, Args, Managers
<1>3. Current(lastConfig, arg[p].users) \in Args
    BY <1>1, CurrentTyped DEF Args
<1>4. budget' \in [commands : 0..MaxCommands, configs : 0..MaxConfigs,
                   users : 0..MaxUsers, faults : 0..MaxFaults]
    BY SpendTyped DEF StartFails
<1>5. CASE pc[p] \in {"reload", "refresh"}
    <2>1. /\ \/ Go(p, "build", [arg[p] EXCEPT !.tls = cert.mat])
             \/ Go(p, "rebuild", Current(lastConfig, arg[p].users))
          /\ UNCHANGED <<lastUsers, job, hazards>>
        BY <1>5 DEF StartFails
    <2>2. job' \in Jobs /\ hazards' \subseteq {"stop", "start", "skip"}
        BY <2>1 DEF TypeOK, Jobs
    <2>3. ThreadsTyped'
        BY <1>2, <1>3, <2>1, <2>2, GoTyped DEF Suits
    <2> QED BY <1>4, <2>1, <2>3 DEF StartFails, kernelVars, certVars, TypeOK,
                                    ThreadsTyped, Jobs
<1>6. CASE pc[p] \notin {"reload", "refresh"}
    <2>1. /\ Done(p) /\ UNCHANGED hazards
          /\ lastUsers' = IF p # main \/ job = NoJob THEN lastUsers
                          ELSE IF job.todo # None THEN job.todo ELSE job.undo
        BY <1>6 DEF StartFails
    <2>2. lastUsers' \in Lists
        BY <2>1 DEF TypeOK, NoJob
    <2>3. ThreadsTyped'
        BY <2>1, DoneTyped
    <2> QED BY <1>4, <2>2, <2>3 DEF StartFails, kernelVars, certVars, TypeOK,
                                    ThreadsTyped, Jobs
<1> QED BY <1>5, <1>6

\* Remote commands.
LEMMA CommandTyped ==
    ASSUME TypeOK, HasArguments, NEW p \in Commands, Command(p)
    PROVE  TypeOK' /\ HasArguments'
<1> USE DEF serviceVars, certVars, kernelVars
<1>1. p \in Threads /\ p # main
    BY ControlAssumption DEF Threads
<1>2. Current(lastConfig, lastUsers) \in Args
    BY CurrentTyped DEF TypeOK
<1>3. CASE Stop(p)
    <2>1. ThreadsTyped'
        BY <1>1, <1>3, BeginTyped DEF Stop, TypeOK, Jobs
    <2> QED BY <1>3, <2>1, SpendTyped DEF Stop, TypeOK, ThreadsTyped, Jobs
<1>4. ASSUME NEW label \in {"check", "build"}, StartCommand(p, label)
      PROVE  TypeOK' /\ HasArguments'
    <2>1. ThreadsTyped'
        <3>1. CASE lastUsers = {}
            BY <1>4, <3>1 DEF StartCommand, TypeOK, HasArguments, ThreadsTyped, Jobs
        <3>2. CASE lastUsers # {}
            BY <1>1, <1>2, <1>4, <3>2, BeginTyped DEF StartCommand, TypeOK, Jobs
        <3> QED BY <3>1, <3>2
    <2> QED BY <1>4, <2>1, SpendTyped DEF StartCommand, TypeOK, ThreadsTyped, Jobs
<1>5. CASE StartUnlessRunning(p)
    <2>1. [arg[p] EXCEPT !.tls = cert.mat] \in Args
        BY <1>1, <1>5 DEF StartUnlessRunning, HasArguments, TypeOK, Args, Managers
    <2>2. ThreadsTyped'
        <3>1. CASE Done(p)
            BY <1>1, <1>5, <3>1, DoneTyped DEF StartUnlessRunning
        <3>2. CASE Go(p, "build", [arg[p] EXCEPT !.tls = cert.mat]) /\ UNCHANGED job
            <4>1. job' \in Jobs /\ hazards' \subseteq {"stop", "start", "skip"}
                BY <1>5, <3>2 DEF StartUnlessRunning, TypeOK, Jobs
            <4> QED BY <1>1, <2>1, <3>2, <4>1, GoTyped DEF Suits
        <3> QED BY <1>5, <3>1, <3>2 DEF StartUnlessRunning
    <2> QED BY <1>5, <2>2 DEF StartUnlessRunning, TypeOK, ThreadsTyped, Jobs
<1>6. CASE ReloadCommand(p)
    <2>1. ThreadsTyped'
        <3>1. PICK label \in {"hash", "build"} :
                    Begin(p, label, Current(lastConfig, lastUsers))
            BY <1>6 DEF ReloadCommand
        <3>2. job' \in Jobs /\ UNCHANGED job
            BY <1>6 DEF ReloadCommand, TypeOK, Jobs
        <3> QED BY <1>1, <1>2, <3>1, <3>2, BeginTyped
    <2>2. budget' \in [commands : 0..MaxCommands, configs : 0..MaxConfigs,
                       users : 0..MaxUsers, faults : 0..MaxFaults]
        BY <1>6, SpendTyped DEF ReloadCommand
    <2> QED BY <1>6, <2>1, <2>2 DEF ReloadCommand, TypeOK, ThreadsTyped, Jobs
<1> QED BY <1>3, <1>4, <1>5, <1>6 DEF Command, Start, Restart

\* applyChanges begins an operation with the configuration and the material.
LEMMA ChangesTyped ==
    ASSUME TypeOK, HasArguments, NEW g \in Configs, NEW us \in Lists,
           NEW m \in Managers, ApplyChanges(g, us, m), UNCHANGED job
    PROVE  ThreadsTyped'
<1>1. [config |-> g, users |-> us, tls |-> m.mat] \in Args
    BY DEF TypeOK, Args, Managers
<1>2. job' \in Jobs
    BY DEF TypeOK, Jobs
<1>3. CASE UNCHANGED <<pc, arg, hazards>>
    BY <1>3 DEF TypeOK, HasArguments, ThreadsTyped, Jobs
<1>4. CASE Begin(main, "flag", None)
    BY <1>2, <1>4, BeginTyped, MainIsThread
<1>5. ASSUME NEW label \in {"hash", "build"},
             Begin(main, label, [config |-> g, users |-> us, tls |-> m.mat])
      PROVE  ThreadsTyped'
    BY <1>1, <1>2, <1>5, BeginTyped, MainIsThread
<1> QED BY <1>3, <1>4, <1>5 DEF ApplyChanges

\* The main loop.
LEMMA MainTyped ==
    ASSUME TypeOK, HasArguments, AcmeIsConfigured, MainLoop
    PROVE  TypeOK' /\ HasArguments'
<1> USE DEF serviceVars, certVars, kernelVars, threadVars
<1>1. ASSUME NEW us \in Lists, UserUpdate(us)
      PROVE  TypeOK' /\ HasArguments'
    <2>1. Current(lastConfig, lastUsers) \in Args
        BY CurrentTyped DEF TypeOK
    <2>2. [NoJob EXCEPT !.todo = us] \in Jobs /\ [NoJob EXCEPT !.todo = us].todo = us
        BY DEF NoJob, Jobs
    <2>3. lastUsers' \in Lists
        BY <1>1 DEF UserUpdate, TypeOK
    <2>4. ThreadsTyped'
        <3>1. CASE job' = [NoJob EXCEPT !.todo = us] /\ Begin(main, "users", None)
            <4>1. job' \in Jobs /\ job'.todo \in Lists
                BY <2>2, <3>1
            <4> QED BY <3>1, <4>1, BeginTyped, MainIsThread
        <3>2. CASE /\ job' = [NoJob EXCEPT !.todo = us]
                   /\ Begin(main, "build", Current(lastConfig, lastUsers))
            <4>1. job' \in Jobs
                BY <2>2, <3>2
            <4> QED BY <2>1, <3>2, <4>1, BeginTyped, MainIsThread
        <3>3. CASE UNCHANGED <<pc, arg, job, hazards>>
            BY <3>3 DEF TypeOK, HasArguments, ThreadsTyped, Jobs
        <3>4. \/ job' = [NoJob EXCEPT !.todo = us] /\ Begin(main, "users", None)
              \/ /\ job' = [NoJob EXCEPT !.todo = us]
                 /\ Begin(main, "build", Current(lastConfig, lastUsers))
              \/ UNCHANGED <<pc, arg, job, hazards>>
            BY <1>1 DEF UserUpdate
        <3> QED BY <3>1, <3>2, <3>3, <3>4
    <2> QED BY <1>1, <2>3, <2>4, SpendTyped DEF UserUpdate, TypeOK, ThreadsTyped, Jobs
<1>2. ASSUME NEW g \in Configs, NEW us \in Lists, NEW c \in CertConfigs,
             ConfigChange(g, us, c)
      PROVE  TypeOK' /\ HasArguments'
    <2>1. cert' \in Managers
        BY <1>2, ReconfiguredTyped DEF ConfigChange, TypeOK, AcmeIsConfigured
    <2>2. ThreadsTyped'
        BY <1>2, <2>1, ChangesTyped DEF ConfigChange
    <2>3. budget' \in [commands : 0..MaxCommands, configs : 0..MaxConfigs,
                       users : 0..MaxUsers, faults : 0..MaxFaults]
        BY <1>2, PayTyped DEF ConfigChange
    <2>4. pull' \in {"none", "poll", "result"}
        BY <1>2 DEF ConfigChange, TypeOK
    <2> QED BY <1>2, <2>1, <2>2, <2>3, <2>4 DEF ConfigChange, TypeOK, ThreadsTyped, Jobs
<1>3. CASE Track
    <2>1. ThreadsTyped'
        BY <1>3, BeginTyped, MainIsThread DEF Track, TypeOK, Jobs
    <2> QED BY <1>3, <2>1 DEF Track, TypeOK, ThreadsTyped, Jobs
<1>4. CASE Aggregated
    <2>1. ThreadsTyped'
        BY <1>4, DoneTyped, MainIsThread DEF Aggregated
    <2> QED BY <1>4, <2>1 DEF Aggregated, TypeOK, ThreadsTyped, Jobs
<1>5. CASE StartPull
    BY <1>5 DEF StartPull, TypeOK, HasArguments, Managers
<1>6. ASSUME NEW us \in Lists, PullApplied(us)
      PROVE  TypeOK' /\ HasArguments'
    <2>1. ThreadsTyped'
        BY <1>6, ChangesTyped DEF PullApplied, TypeOK
    <2>2. budget' \in [commands : 0..MaxCommands, configs : 0..MaxConfigs,
                       users : 0..MaxUsers, faults : 0..MaxFaults]
        BY <1>6, SpendTyped DEF PullApplied, TypeOK
    <2> QED BY <1>6, <2>1, <2>2 DEF PullApplied, TypeOK, ThreadsTyped, Jobs
<1> QED BY <1>1, <1>2, <1>3, <1>4, <1>5, <1>6 DEF MainLoop

\* Polls and renewals.
LEMMA EnvironmentTyped ==
    ASSUME TypeOK, HasArguments, AcmeIsConfigured,
           PollFails \/ PollAnswers \/ Renew \/ Flag
    PROVE  TypeOK' /\ HasArguments'
<1> USE DEF serviceVars, kernelVars, threadVars
<1>1. CASE PollFails
    BY <1>1, SpendTyped DEF PollFails, TypeOK, HasArguments
<1>2. CASE PollAnswers
    BY <1>2 DEF PollAnswers, TypeOK, HasArguments
<1>3. CASE Renew
    <2>1. storage' \in 0..MaxRenewals
        BY <1>3, CertAssumption DEF Renew, TypeOK
    <2>2. cert.cfg \in Sources
        BY <1>3 DEF Renew, AcmeIsConfigured, TypeOK, Managers, CertConfigs, Sources
    <2>3. cert' \in Managers
        BY <1>3, <2>1, <2>2, StoreTyped DEF Renew, TypeOK
    <2> QED BY <1>3, <2>1, <2>3 DEF Renew, TypeOK, HasArguments
<1>4. CASE Flag
    BY <1>4 DEF Flag, TypeOK, HasArguments, Managers
<1> QED BY <1>1, <1>2, <1>3, <1>4

\* The ACME goroutine stays that of the configuration.
LEMMA AcmeStep ==
    ASSUME TypeOK, AcmeIsConfigured, Next
    PROVE  AcmeIsConfigured'
<1>1. CASE UNCHANGED cert
    BY <1>1 DEF AcmeIsConfigured
<1>2. ASSUME NEW g \in Configs, NEW us \in Lists, NEW c \in CertConfigs,
             ConfigChange(g, us, c)
      PROVE  AcmeIsConfigured'
    <2>1. \/ cert' = Reconfigured(cert, c, storage)
          \/ cert' \in ReconfigureFailed(cert, c, storage)
          \/ cert' = cert
        BY <1>2 DEF ConfigChange
    <2> QED BY <2>1, ReconfiguredTyped DEF AcmeIsConfigured, TypeOK
<1>3. CASE StartPull \/ Flag
    BY <1>3 DEF StartPull, Flag, AcmeIsConfigured, TypeOK, Managers
<1>4. CASE Renew
    <2>1. storage' \in 0..MaxRenewals
        BY <1>4, CertAssumption DEF Renew, TypeOK
    <2>2. cert.cfg \in Sources
        BY <1>4 DEF Renew, AcmeIsConfigured, TypeOK, Managers, CertConfigs, Sources
    <2> QED BY <1>4, <2>1, <2>2, StoreTyped DEF Renew, AcmeIsConfigured, TypeOK
<1>5. ASSUME NEW p \in Threads, KernelStep(p) \/ StartFails(p)
      PROVE  UNCHANGED cert
    BY <1>5 DEF KernelStep, StartFails, StartNew, Swap, SwapOver, Reload, ReloadIf,
                ClearRunning, TakeInstance, PrepareUsers, UpdateUsers,
                HotSwapUsers, HotSwapOver, RecordUsers, certVars
<1>6. ASSUME NEW p \in Commands, Command(p)
      PROVE  UNCHANGED cert
    BY <1>6 DEF Command, Stop, Start, Restart, StartCommand, StartUnlessRunning,
                ReloadCommand, certVars
<1>7. ASSUME \/ \E us \in Lists : UserUpdate(us) \/ PullApplied(us)
             \/ Track \/ Aggregated \/ PollFails \/ PollAnswers
      PROVE  UNCHANGED cert
    BY <1>7 DEF UserUpdate, Track, Aggregated, PullApplied, PollFails, PollAnswers,
                certVars
<1> QED BY <1>1, <1>2, <1>3, <1>4, <1>5, <1>6, <1>7 DEF Next, MainLoop

-----------------------------------------------------------------------------
(* Instances.                                                              *)

\* Steps that neither make, install nor close an instance.
LEMMA InstancesStay ==
    ASSUME TypeOK, InstanceInv, UNCHANGED <<instances, own>>,
           x'.inst = x.inst, x'.hash = x.hash, x'.tls = x.tls,
           \A p \in Threads :
              \/ pc'[p] = pc[p] /\ arg'[p] = arg[p]
              \/ pc[p] \notin {"swap", "apply"} /\ pc'[p] \notin {"swap", "apply"}
    PROVE  InstanceInv'
<1>1. OwnsInstance'
    BY DEF InstanceInv, OwnsInstance
<1>2. CurrentIsUp'
    BY DEF InstanceInv, CurrentIsUp
<1>3. NoLeakedInstance'
    BY DEF InstanceInv, NoLeakedInstance
<1>4. HashDescribesInstance'
    BY DEF InstanceInv, HashDescribesInstance
<1> QED BY <1>1, <1>2, <1>3, <1>4 DEF InstanceInv

\* A new instance belongs to the goroutine that started it.
LEMMA StartNewOwns ==
    ASSUME TypeOK, HasArguments, InstanceInv, NEW p \in Threads, StartNew(p)
    PROVE  InstanceInv'
<1> DEFINE i == CHOOSE j \in Unused : TRUE
           started == [up |-> TRUE, start |-> arg[p], users |-> arg[p].users]
<1>1. i \in Unused
    BY DEF StartNew
<1>2. /\ instances' = [instances EXCEPT ![i] = started]
      /\ own' = [own EXCEPT ![p] = i] /\ pc' = [pc EXCEPT ![p] = "swap"]
      /\ UNCHANGED <<x, arg>>
    BY DEF StartNew, Goto
<1> HIDE DEF i
<1>3. /\ i \in Instances /\ i # None /\ ~instances[i].up
      /\ \A q \in Threads : own[q] # i
    BY <1>1, ControlAssumption DEF Unused
<1>4. /\ instances'[i] = started
      /\ \A j \in Instances \ {i} : instances'[j] = instances[j]
    BY <1>2, <1>3 DEF TypeOK
<1>5. /\ own'[p] = i /\ pc'[p] = "swap"
      /\ \A q \in Threads \ {p} : own'[q] = own[q] /\ pc'[q] = pc[q]
    BY <1>2 DEF TypeOK
<1>6. x.inst # i
    BY <1>3 DEF InstanceInv, CurrentIsUp
<1>7. x.inst # None => instances'[x.inst] = instances[x.inst]
    BY <1>4, <1>6 DEF TypeOK
<1>8. \A q \in Threads \ {p} : pc[q] = "swap" => own[q] \in Instances \ {i}
    BY <1>3 DEF InstanceInv, OwnsInstance, TypeOK
<1>9. OwnsInstance'
    BY <1>2, <1>3, <1>4, <1>5, <1>6, <1>8 DEF InstanceInv, OwnsInstance
<1>10. CurrentIsUp'
    BY <1>2, <1>7 DEF InstanceInv, CurrentIsUp
<1>11. NoLeakedInstance'
    BY <1>2, <1>4, <1>5 DEF InstanceInv, NoLeakedInstance, StartNew
<1>12. HashDescribesInstance'
    BY <1>2, <1>7 DEF InstanceInv, HashDescribesInstance
<1> QED BY <1>9, <1>10, <1>11, <1>12 DEF InstanceInv

\* The instance that is installed is not the one that is closed.
LEMMA SwapReplaces ==
    ASSUME TypeOK, HasArguments, InstanceInv, NEW p \in Threads, Swap(p)
    PROVE  InstanceInv'
<1> DEFINE i == own[p]
<1>1. /\ i \in Instances /\ instances[i].up /\ instances[i].start = arg[p]
      /\ i # x.inst /\ \A q \in Threads \ {p} : own[q] # i
    BY DEF Swap, SwapOver, InstanceInv, OwnsInstance, TypeOK
<1>2. /\ instances' = Closing(instances, x.inst)
      /\ x'.inst = i /\ x'.tls = arg[p].tls
      /\ x'.hash = [config |-> arg[p].config, users |-> arg[p].users]
      /\ own' = [own EXCEPT ![p] = None]
    BY DEF Swap, SwapOver
<1>3. /\ pc'[p] \in {"users", "idle"}
      /\ \A q \in Threads \ {p} : pc'[q] = pc[q] /\ arg'[q] = arg[q]
    BY DEF Swap, SwapOver, Go, Goto, Done, TypeOK
<1>4. /\ \A j \in Instances : j # x.inst => instances'[j] = instances[j]
      /\ x.inst # None => instances'[x.inst] = Down
    BY <1>2 DEF Closing, TypeOK
<1>5. own'[p] = None /\ \A q \in Threads \ {p} : own'[q] = own[q]
    BY <1>2 DEF TypeOK
<1>6. \A q \in Threads \ {p} : pc[q] = "swap" => own[q] \in Instances /\ own[q] # x.inst
    BY DEF InstanceInv, OwnsInstance, TypeOK
<1>7. OwnsInstance'
    <2> SUFFICES ASSUME NEW q \in Threads
                 PROVE  /\ (own[q] # None <=> pc[q] \in {"swap", "apply"})'
                        /\ pc'[q] = "swap" =>
                             /\ instances'[own'[q]].up
                             /\ instances'[own'[q]].start = arg'[q]
                             /\ own'[q] # x'.inst
                             /\ \A r \in Threads \ {q} : own'[r] # own'[q]
        BY DEF OwnsInstance
    <2>1. CASE q = p
        BY <1>3, <1>5, <2>1
    <2>2. CASE q # p
        <3>1. own'[q] = own[q] /\ pc'[q] = pc[q] /\ arg'[q] = arg[q]
            BY <1>3, <1>5, <2>2
        <3>2. own[q] # None <=> pc[q] \in {"swap", "apply"}
            BY DEF InstanceInv, OwnsInstance
        <3>3. ASSUME pc[q] = "swap"
              PROVE  /\ instances[own[q]].up /\ instances[own[q]].start = arg[q]
                     /\ own[q] # None /\ own[q] # i
                     /\ instances'[own[q]] = instances[own[q]]
                     /\ \A r \in Threads \ {q} : own[r] # own[q]
            BY <1>1, <1>4, <1>6, <2>2, <3>2, <3>3 DEF InstanceInv, OwnsInstance
        <3> QED BY <1>2, <1>5, <3>1, <3>2, <3>3
    <2> QED BY <2>1, <2>2
<1>8. CurrentIsUp'
    BY <1>1, <1>2, <1>4 DEF CurrentIsUp
<1>9. NoLeakedInstance'
    <2> SUFFICES ASSUME NEW j \in Instances, instances'[j].up, j # i
                 PROVE  \E q \in Threads : pc'[q] = "swap" /\ own'[q] = j
        BY <1>2 DEF NoLeakedInstance
    <2>1. j # x.inst /\ instances[j].up
        BY <1>4, ControlAssumption DEF Down
    <2> QED BY <1>3, <1>5, <2>1 DEF InstanceInv, NoLeakedInstance
<1>10. HashDescribesInstance'
    BY <1>1, <1>2, <1>4 DEF HashDescribesInstance
<1> QED BY <1>7, <1>8, <1>9, <1>10 DEF InstanceInv

\* Stop closes the current instance and leaves those that are being started.
LEMMA TakeCloses ==
    ASSUME TypeOK, InstanceInv, NEW p \in Threads, TakeInstance(p)
    PROVE  InstanceInv'
<1>1. /\ instances' = Closing(instances, x.inst) /\ x'.inst = None
      /\ UNCHANGED own
    BY DEF TakeInstance, TypeOK
<1>2. /\ pc[p] = "take" /\ pc'[p] = "idle"
      /\ \A q \in Threads \ {p} : pc'[q] = pc[q] /\ arg'[q] = arg[q]
    BY DEF TakeInstance, Go, Goto, Done, TypeOK
<1>3. /\ \A j \in Instances : j # x.inst => instances'[j] = instances[j]
      /\ x.inst # None => instances'[x.inst] = Down
    BY <1>1 DEF Closing, TypeOK
<1>4. \A q \in Threads \ {p} : pc[q] = "swap" => own[q] \in Instances /\ own[q] # x.inst
    BY DEF InstanceInv, OwnsInstance, TypeOK
<1>5. \A q \in Threads : own[q] # None => own[q] # x'.inst
    BY <1>1
<1>6. OwnsInstance'
    BY <1>1, <1>2, <1>3, <1>4, <1>5 DEF InstanceInv, OwnsInstance
<1>7. CurrentIsUp' /\ HashDescribesInstance'
    BY <1>1 DEF CurrentIsUp, HashDescribesInstance
<1>8. NoLeakedInstance'
    <2> SUFFICES ASSUME NEW j \in Instances, instances'[j].up
                 PROVE  \E q \in Threads : pc'[q] = "swap" /\ own'[q] = j
        BY DEF NoLeakedInstance
    <2>1. j # x.inst /\ instances[j].up
        BY <1>3, ControlAssumption DEF Down
    <2> QED BY <1>1, <1>2, <2>1 DEF InstanceInv, NoLeakedInstance
<1> QED BY <1>6, <1>7, <1>8 DEF InstanceInv

\* A UserManager is fetched, and given users while its instance is up.
LEMMA HotSwapKeeps ==
    ASSUME TypeOK, InstanceInv, NEW p \in Threads,
           UpdateUsers(p) \/ HotSwapUsers(p)
    PROVE  InstanceInv'
<1>1. \A q \in Threads \ {p} :
        pc'[q] = pc[q] /\ arg'[q] = arg[q] /\ own'[q] = own[q]
    BY DEF UpdateUsers, HotSwapUsers, HotSwapOver, Go, Goto, Done, TypeOK
<1>2. x' = x
    BY DEF UpdateUsers, HotSwapUsers, HotSwapOver
<1>3. /\ pc'[p] # "swap" /\ (pc[p] = "update" \/ pc[p] = "apply")
      /\ own'[p] # None <=> pc'[p] = "apply"
      /\ own'[p] \in {None, x.inst}
    BY ControlAssumption
       DEF UpdateUsers, HotSwapUsers, HotSwapOver, Go, Goto, Done, InstanceInv, OwnsInstance, TypeOK
<1>4. \A j \in Instances : /\ instances'[j].up = instances[j].up
                           /\ instances'[j].start = instances[j].start
    <2>1. CASE instances' = instances
        BY <2>1
    <2>2. CASE HotSwapUsers(p)
        <3>1. \A j \in Instances :
                \/ instances'[j] = instances[j]
                \/ instances[j].up
                   /\ \E us : instances'[j] = [instances[j] EXCEPT !.users = us]
            BY <2>2 DEF HotSwapUsers, HotSwapOver, TypeOK
        <3> QED BY <3>1, UpIsStarted
    <2> QED BY <2>1, <2>2 DEF UpdateUsers
<1>5. \A q \in Threads : pc[q] = "swap" => own[q] \in Instances
    BY DEF InstanceInv, OwnsInstance, TypeOK
<1>6. OwnsInstance'
    BY <1>1, <1>2, <1>3, <1>4, <1>5 DEF InstanceInv, OwnsInstance
<1>7. CurrentIsUp' /\ HashDescribesInstance'
    BY <1>2, <1>4 DEF InstanceInv, CurrentIsUp, HashDescribesInstance, TypeOK
<1>8. NoLeakedInstance'
    BY <1>1, <1>2, <1>3, <1>4 DEF InstanceInv, NoLeakedInstance
<1> QED BY <1>6, <1>7, <1>8 DEF InstanceInv

\* A goroutine that has no instance moves on without one.
LEMMA OneMoves ==
    ASSUME TypeOK, InstanceInv, NEW p \in Threads, NEW label,
           {pc[p], label} \cap {"swap", "apply"} = {},
           Goto(p, label), arg' = arg \/ \E a : arg' = [arg EXCEPT ![p] = a],
           UNCHANGED <<instances, own>>,
           x'.inst = x.inst, x'.hash = x.hash, x'.tls = x.tls
    PROVE  InstanceInv'
<1>1. \A q \in Threads :
        \/ pc'[q] = pc[q] /\ arg'[q] = arg[q]
        \/ pc[q] \notin {"swap", "apply"} /\ pc'[q] \notin {"swap", "apply"}
    BY DEF Goto, TypeOK
<1> QED BY <1>1, InstancesStay

LEMMA BeginMoves ==
    ASSUME TypeOK, InstanceInv, NEW p \in Threads, Idle(p),
           NEW label, NEW a, Begin(p, label, a), label \notin {"swap", "apply"},
           UNCHANGED <<instances, own, x>>
    PROVE  InstanceInv'
<1>1. Goto(p, label) /\ arg' = [arg EXCEPT ![p] = a]
    BY DEF Begin, Go
<1>2. {pc[p], label} \cap {"swap", "apply"} = {}
    BY DEF Idle
<1> QED BY <1>1, <1>2, OneMoves

\* applyChanges begins an operation or does nothing.
LEMMA ChangesMove ==
    ASSUME TypeOK, InstanceInv, Idle(main), NEW g, NEW us, NEW m,
           ApplyChanges(g, us, m),
           UNCHANGED <<instances, own, x>>
    PROVE  InstanceInv'
<1>1. CASE UNCHANGED <<pc, arg, hazards>>
    BY <1>1, InstancesStay
<1>2. ASSUME NEW label \in {"flag", "hash", "build"}, NEW a, Begin(main, label, a)
      PROVE  InstanceInv'
    BY <1>2, BeginMoves, MainIsThread
<1> QED BY <1>1, <1>2 DEF ApplyChanges

LEMMA KernelInstances ==
    ASSUME TypeOK, HasArguments, InstanceInv, NEW p \in Threads,
           KernelStep(p) \/ StartFails(p)
    PROVE  InstanceInv'
<1> USE DEF serviceVars, certVars, kernelVars
<1>1. CASE Reload(p)
    <2>1. /\ pc[p] = "hash" /\ UNCHANGED <<instances, own>>
          /\ x'.inst = x.inst /\ x'.hash = x.hash /\ x'.tls = x.tls
        BY <1>1 DEF Reload, ReloadIf, TypeOK
    <2>2. \/ Goto(p, "idle") /\ arg' = [arg EXCEPT ![p] = None]
          \/ Goto(p, "reload") /\ arg' = arg
        BY <1>1 DEF Reload, ReloadIf, Done, Go
    <2> QED BY <2>1, <2>2, OneMoves
<1>2. CASE ClearRunning(p)
    <2>1. /\ pc[p] = "flag" /\ UNCHANGED <<instances, own>>
          /\ x'.inst = x.inst /\ x'.hash = x.hash /\ x'.tls = x.tls
          /\ Goto(p, "take") /\ arg' = arg
        BY <1>2 DEF ClearRunning, TypeOK
    <2> QED BY <2>1, OneMoves
<1>3. CASE PrepareUsers(p)
    <2>1. /\ pc[p] = "users" /\ UNCHANGED <<instances, own, x>>
          /\ Goto(p, "update")
          /\ arg' = [arg EXCEPT ![p] = Current(lastConfig, job.todo)]
        BY <1>3 DEF PrepareUsers, Go
    <2> QED BY <2>1, OneMoves
<1>4. CASE RecordUsers(p)
    <2>1. /\ pc[p] = "write" /\ UNCHANGED <<instances, own>>
          /\ x'.inst = x.inst /\ x'.hash = x.hash /\ x'.tls = x.tls
          /\ Goto(p, "idle") /\ arg' = [arg EXCEPT ![p] = None]
        BY <1>4 DEF RecordUsers, Done, Go, TypeOK
    <2> QED BY <2>1, OneMoves
<1>5. CASE StartFails(p)
    <2>1. pc[p] \notin {"swap", "apply"} /\ UNCHANGED <<instances, own, x>>
        BY <1>5 DEF StartFails
    <2>2. \/ Go(p, "build", [arg[p] EXCEPT !.tls = cert.mat])
          \/ Go(p, "rebuild", Current(lastConfig, arg[p].users))
          \/ Go(p, "idle", None)
        BY <1>5 DEF StartFails, Done
    <2>3. \/ Goto(p, "build") \/ Goto(p, "rebuild") \/ Goto(p, "idle")
        BY <2>2 DEF Go
    <2>4. \E a : arg' = [arg EXCEPT ![p] = a]
        BY <2>2 DEF Go
    <2> QED BY <2>1, <2>3, <2>4, OneMoves
<1> QED BY <1>1, <1>2, <1>3, <1>4, <1>5, StartNewOwns, SwapReplaces, TakeCloses,
           HotSwapKeeps DEF KernelStep

LEMMA CommandInstances ==
    ASSUME TypeOK, InstanceInv, NEW p \in Commands, Command(p)
    PROVE  InstanceInv'
<1> USE DEF serviceVars, certVars, kernelVars
<1>1. p \in Threads
    BY DEF Threads
<1>2. CASE Stop(p)
    BY <1>1, <1>2, BeginMoves DEF Stop
<1>3. ASSUME NEW label \in {"check", "build"}, StartCommand(p, label)
      PROVE  InstanceInv'
    <2>1. CASE UNCHANGED <<pc, arg, hazards>>
        BY <1>3, <2>1, InstancesStay DEF StartCommand
    <2> QED BY <1>1, <1>3, <2>1, BeginMoves DEF StartCommand
<1>4. CASE StartUnlessRunning(p)
    <2>1. pc[p] = "check" /\ UNCHANGED <<instances, own, x>>
        BY <1>4 DEF StartUnlessRunning
    <2>2. /\ Goto(p, "idle") \/ Goto(p, "build")
          /\ \E a : arg' = [arg EXCEPT ![p] = a]
        BY <1>4 DEF StartUnlessRunning, Done, Go
    <2> QED BY <1>1, <2>1, <2>2, OneMoves
<1>5. CASE ReloadCommand(p)
    BY <1>1, <1>5, BeginMoves DEF ReloadCommand
<1> QED BY <1>2, <1>3, <1>4, <1>5 DEF Command, Start, Restart

LEMMA InstanceStep ==
    ASSUME TypeOK, HasArguments, InstanceInv, Next
    PROVE  InstanceInv'
<1> USE DEF serviceVars, certVars, kernelVars, threadVars
<1>1. CASE Aggregated
    <2>1. /\ pc[main] = "aggregate" /\ UNCHANGED <<instances, own, x>>
          /\ Goto(main, "idle") /\ arg' = [arg EXCEPT ![main] = None]
        BY <1>1 DEF Aggregated, Done, Go
    <2> QED BY <2>1, OneMoves, MainIsThread
<1>2. CASE Track
    BY <1>2, BeginMoves, MainIsThread DEF Track
<1>3. CASE StartPull \/ PollFails \/ PollAnswers \/ Renew \/ Flag
    BY <1>3, InstancesStay DEF StartPull, PollFails, PollAnswers, Renew, Flag
<1>4. ASSUME NEW us \in Lists, UserUpdate(us)
      PROVE  InstanceInv'
    <2>1. CASE UNCHANGED <<pc, arg, job, hazards>>
        BY <1>4, <2>1, InstancesStay DEF UserUpdate
    <2> QED BY <1>4, <2>1, BeginMoves, MainIsThread DEF UserUpdate
<1>5. ASSUME NEW g \in Configs, NEW us \in Lists, NEW c \in CertConfigs,
             ConfigChange(g, us, c)
      PROVE  InstanceInv'
    BY <1>5, ChangesMove DEF ConfigChange
<1>6. ASSUME NEW us \in Lists, PullApplied(us)
      PROVE  InstanceInv'
    BY <1>6, ChangesMove DEF PullApplied
<1> QED BY <1>1, <1>2, <1>3, <1>4, <1>5, <1>6, KernelInstances, CommandInstances
        DEF Next, MainLoop

-----------------------------------------------------------------------------
(* Stops.                                                                  *)

\* A goroutine goes on with an operation that is not a Stop: a stop cannot be
\* under way without having overlapped it.
LEMMA OperationGoesOn ==
    ASSUME TypeOK, StopInv, NEW p \in Threads,
           pc[p] \notin {"idle", "flag", "take"},
           pc'[p] \notin {"flag", "take", "aggregate"},
           \A q \in Threads \ {p} : pc'[q] = pc[q],
           UNCHANGED desired, "stop" \in hazards' <=> "stop" \in hazards,
           UNCHANGED <<x.inst, x.running>> \/ x'.inst # None
    PROVE  StopInv'
<1> SUFFICES ASSUME "stop" \notin hazards
             PROVE  StopInv'
    BY DEF StopInv, StopIsAlone, RunningHasInstance, StopIsKept
<1>1. /\ desired /\ \A q \in Threads : pc[q] \notin {"flag", "take"}
    BY DEF StopInv, StopIsAlone, Idle
<1>2. StopIsAlone'
    BY <1>1 DEF StopInv, StopIsAlone, Idle
<1>3. RunningHasInstance'
    BY <1>1, MainIsThread DEF StopInv, RunningHasInstance
<1> QED BY <1>1, <1>2, <1>3 DEF StopInv, StopIsKept

\* Steps outside the kernel and the goroutines; a command may ask for a start.
LEMMA OtherStep ==
    ASSUME StopInv, UNCHANGED <<x, pc, hazards>>, desired' = desired \/ desired'
    PROVE  StopInv'
BY DEF StopInv, StopIsAlone, RunningHasInstance, StopIsKept, Idle

\* An operation begins.
LEMMA BeginKeeps ==
    ASSUME TypeOK, StopInv, NEW p \in Threads, Idle(p),
           NEW label \in Labels \ {"idle", "take"}, NEW a, Begin(p, label, a),
           x' = x, label = "aggregate" => p = main /\ x.running,
           label = "flag" \/ desired' \/ (x.running /\ desired' = desired)
    PROVE  StopInv'
<1> SUFFICES ASSUME "stop" \notin hazards'
             PROVE  StopInv'
    BY DEF StopInv, StopIsAlone, RunningHasInstance, StopIsKept
<1>1. pc'[p] = label /\ \A q \in Threads \ {p} : pc'[q] = pc[q]
    BY DEF Begin, Go, Goto, TypeOK
<1>2. /\ "stop" \notin hazards
      /\ \A q \in Threads \ {p} : Idle(q) \/ (label # "flag" /\ pc[q] \notin {"flag", "take"})
    BY DEF Begin, Idle, TypeOK
<1>3. \A q \in Threads : pc[q] \notin {"flag", "take"}
    BY <1>2 DEF Idle
<1>4. CASE label = "flag"
    <2>1. \A q \in Threads \ {p} : Idle(q) /\ pc'[q] = "idle"
        BY <1>1, <1>2, <1>4 DEF Idle
    <2>2. StopIsAlone'
        BY <1>1, <1>4, <2>1 DEF StopIsAlone, Idle
    <2>3. RunningHasInstance'
        BY <1>1, <1>2, <1>3, <1>4, <2>1, MainIsThread DEF StopInv, RunningHasInstance
    <2>4. StopIsKept'
        BY <1>1, <1>4 DEF StopIsKept
    <2> QED BY <2>2, <2>3, <2>4 DEF StopInv
<1>5. CASE label # "flag"
    <2>1. desired'
        BY <1>2, <1>3, <1>5 DEF StopInv, StopIsKept
    <2>2. \A q \in Threads : pc'[q] \notin {"flag", "take"}
        BY <1>1, <1>3, <1>5
    <2>3. RunningHasInstance'
        BY <1>1, <1>2, <1>3, MainIsThread DEF StopInv, RunningHasInstance
    <2> QED BY <2>1, <2>2, <2>3 DEF StopInv, StopIsAlone, StopIsKept
<1> QED BY <1>4, <1>5

\* A Stop that is alone takes the instance of a kernel that is marked stopped.
LEMMA StopGoesOn ==
    ASSUME TypeOK, StopInv, NEW p \in Threads, ClearRunning(p) \/ TakeInstance(p)
    PROVE  StopInv'
<1> SUFFICES ASSUME "stop" \notin hazards
             PROVE  StopInv'
    BY DEF StopInv, StopIsAlone, RunningHasInstance, StopIsKept, ClearRunning,
           TakeInstance
<1>1. /\ pc[p] \in {"flag", "take"}
      /\ \A q \in Threads \ {p} : pc[q] = "idle"
      /\ pc[p] = "take" => ~x.running
    BY DEF StopInv, StopIsAlone, Idle, ClearRunning, TakeInstance
<1>2. \A q \in Threads \ {p} : pc'[q] = "idle"
    BY <1>1 DEF ClearRunning, TakeInstance, Done, Go, Goto, TypeOK
<1>3. CASE ClearRunning(p)
    <2>1. pc'[p] = "take" /\ ~x'.running
        BY <1>3 DEF ClearRunning, Goto, TypeOK
    <2> QED BY <1>2, <2>1, MainIsThread
            DEF StopInv, StopIsAlone, RunningHasInstance, StopIsKept, Idle
<1>4. CASE TakeInstance(p)
    <2>1. pc'[p] = "idle" /\ x'.inst = None /\ ~x'.running
        BY <1>1, <1>4 DEF TakeInstance, Done, Go, Goto, TypeOK
    <2> QED BY <1>2, <2>1, MainIsThread
            DEF StopInv, StopIsAlone, RunningHasInstance, StopIsKept, Idle
<1> QED BY <1>3, <1>4

LEMMA KernelStops ==
    ASSUME TypeOK, OwnsInstance, StopInv, NEW p \in Threads,
           KernelStep(p) \/ StartFails(p)
    PROVE  StopInv'
<1> USE DEF serviceVars, certVars, kernelVars
<1>1. CASE StartNew(p) \/ UpdateUsers(p) \/ PrepareUsers(p) \/ HotSwapUsers(p)
    <2>1. /\ pc[p] \notin {"idle", "flag", "take"}
          /\ UNCHANGED <<desired, hazards, x>>
        BY <1>1 DEF StartNew, UpdateUsers, PrepareUsers, HotSwapUsers, HotSwapOver
    <2>2. /\ pc'[p] \notin {"flag", "take", "aggregate"}
          /\ \A q \in Threads \ {p} : pc'[q] = pc[q]
        BY <1>1 DEF StartNew, UpdateUsers, PrepareUsers, HotSwapUsers, HotSwapOver,
                    Done, Go, Goto, TypeOK
    <2> QED BY <2>1, <2>2, OperationGoesOn
<1>2. CASE Reload(p) \/ RecordUsers(p)
    <2>1. /\ pc[p] \notin {"idle", "flag", "take"}
          /\ UNCHANGED <<desired, x.inst, x.running>>
          /\ "stop" \in hazards' <=> "stop" \in hazards
        BY <1>2 DEF Reload, ReloadIf, RecordUsers, TypeOK
    <2>2. /\ pc'[p] \notin {"flag", "take", "aggregate"}
          /\ \A q \in Threads \ {p} : pc'[q] = pc[q]
        BY <1>2 DEF Reload, ReloadIf, RecordUsers, Done, Go, Goto, TypeOK
    <2> QED BY <2>1, <2>2, OperationGoesOn
<1>3. CASE Swap(p)
    <2>1. /\ pc[p] = "swap" /\ UNCHANGED <<desired, hazards>>
          /\ x'.inst # None
        BY <1>3 DEF Swap, SwapOver, OwnsInstance
    <2>2. /\ pc'[p] \in {"users", "idle"}
          /\ \A q \in Threads \ {p} : pc'[q] = pc[q]
        BY <1>3 DEF Swap, SwapOver, Done, Go, Goto, TypeOK
    <2> QED BY <2>1, <2>2, OperationGoesOn
<1>4. CASE StartFails(p)
    <2>1. /\ pc[p] \notin {"idle", "flag", "take"}
          /\ UNCHANGED <<desired, hazards, x>>
        BY <1>4 DEF StartFails
    <2>2. \/ Goto(p, "build") \/ Goto(p, "rebuild") \/ Goto(p, "idle")
        BY <1>4 DEF StartFails, Done, Go
    <2>3. /\ pc'[p] \notin {"flag", "take", "aggregate"}
          /\ \A q \in Threads \ {p} : pc'[q] = pc[q]
        BY <2>2 DEF Goto, TypeOK
    <2> QED BY <2>1, <2>3, OperationGoesOn
<1> QED BY <1>1, <1>2, <1>3, <1>4, StopGoesOn DEF KernelStep

LEMMA CommandStops ==
    ASSUME TypeOK, StopInv, NEW p \in Commands, Command(p)
    PROVE  StopInv'
<1> USE DEF serviceVars, certVars, kernelVars
<1>1. p \in Threads /\ p # main
    BY ControlAssumption DEF Threads
<1>2. CASE Stop(p)
    BY <1>1, <1>2, BeginKeeps DEF Stop
<1>3. ASSUME NEW label \in {"check", "build"}, StartCommand(p, label)
      PROVE  StopInv'
    <2>1. CASE UNCHANGED <<pc, arg, hazards>>
        BY <1>3, <2>1, OtherStep DEF StartCommand
    <2> QED BY <1>1, <1>3, <2>1, BeginKeeps DEF StartCommand
<1>4. CASE StartUnlessRunning(p)
    <2>1. pc[p] = "check" /\ UNCHANGED <<desired, hazards, x>>
        BY <1>4 DEF StartUnlessRunning
    <2>2. Goto(p, "idle") \/ Goto(p, "build")
        BY <1>4 DEF StartUnlessRunning, Done, Go
    <2>3. /\ pc'[p] \notin {"flag", "take", "aggregate"}
          /\ \A q \in Threads \ {p} : pc'[q] = pc[q]
        BY <1>1, <2>2 DEF Goto, TypeOK
    <2> QED BY <1>1, <2>1, <2>3, OperationGoesOn
<1>5. CASE ReloadCommand(p)
    BY <1>1, <1>5, BeginKeeps DEF ReloadCommand
<1> QED BY <1>2, <1>3, <1>4, <1>5 DEF Command, Start, Restart

\* applyChanges stops the kernel, or leaves it to a node that wants it.
LEMMA ChangesStop ==
    ASSUME TypeOK, StopInv, Idle(main), NEW g, NEW us, NEW m,
           ApplyChanges(g, us, m),
           UNCHANGED <<x, desired>>
    PROVE  StopInv'
<1>1. CASE UNCHANGED <<pc, arg, hazards>>
    BY <1>1, OtherStep
<1>2. CASE Begin(main, "flag", None)
    BY <1>2, BeginKeeps, MainIsThread
<1>3. ASSUME desired, NEW label \in {"hash", "build"}, NEW a, Begin(main, label, a)
      PROVE  StopInv'
    BY <1>3, BeginKeeps, MainIsThread
<1> QED BY <1>1, <1>2, <1>3 DEF ApplyChanges

LEMMA StopStep ==
    ASSUME TypeOK, OwnsInstance, StopInv, Next
    PROVE  StopInv'
<1> USE DEF serviceVars, certVars, kernelVars, threadVars
<1>1. CASE Aggregated
    <2>1. pc[main] = "aggregate" /\ UNCHANGED <<desired, hazards, x>> /\ Goto(main, "idle")
        BY <1>1 DEF Aggregated, Done, Go
    <2>2. pc'[main] = "idle" /\ \A q \in Threads \ {main} : pc'[q] = pc[q]
        BY <2>1, MainIsThread DEF Goto, TypeOK
    <2> QED BY <2>1, <2>2, OperationGoesOn, MainIsThread
<1>2. CASE Track
    BY <1>2, BeginKeeps, MainIsThread DEF Track
<1>3. CASE StartPull \/ PollFails \/ PollAnswers \/ Renew \/ Flag
    BY <1>3, OtherStep DEF StartPull, PollFails, PollAnswers, Renew, Flag
<1>4. ASSUME NEW us \in Lists, UserUpdate(us)
      PROVE  StopInv'
    <2>1. CASE UNCHANGED <<pc, arg, job, hazards>>
        BY <1>4, <2>1, OtherStep DEF UserUpdate
    <2> QED BY <1>4, <2>1, BeginKeeps, MainIsThread DEF UserUpdate
<1>5. ASSUME NEW g \in Configs, NEW us \in Lists, NEW c \in CertConfigs,
             ConfigChange(g, us, c)
      PROVE  StopInv'
    BY <1>5, ChangesStop DEF ConfigChange
<1>6. ASSUME NEW us \in Lists, PullApplied(us)
      PROVE  StopInv'
    BY <1>6, ChangesStop DEF PullApplied
<1> QED BY <1>1, <1>2, <1>3, <1>4, <1>5, <1>6, KernelStops, CommandStops
        DEF Next, MainLoop

-----------------------------------------------------------------------------
(* Without overlap: what the node has is what is served.                   *)

\* What Sequential and UpToDate say of a goroutine while the others are idle.
Expected(p) ==
    /\ x.inst # None /\ pc[p] # "take" => x.running
    /\ p # main /\ pc[p] \notin {"idle", "flag", "take"} => lastUsers # {}
    /\ budget.faults = MaxFaults =>
        /\ ConfigIsRecorded
        /\ pc[p] \in {"idle", "check", "users", "aggregate"} =>
                ConfigServed /\ UsersAreRecorded /\ UsersServed
        /\ pc[p] \in Building \cup {"check", "hash", "swap"} =>
                arg[p].config = lastConfig /\ arg[p].users = lastUsers
        /\ pc[p] = "hash" => UsersAreRecorded
        /\ pc[p] = "swap" => instances[own[p]].users = lastUsers
        /\ pc[p] \in {"update", "apply"} =>
                ConfigServed /\ UsersAreRecorded /\ arg[p].users = lastUsers
        /\ pc[p] = "apply" => own[p] = x.inst /\ arg[p].old = x.users
        /\ pc[p] = "write" =>
                ConfigServed /\ UsersServed /\ arg[p].users = lastUsers

LEMMA ExpectedAlone ==
    ASSUME Sequential, UpToDate, hazards = {}, NEW p \in Threads,
           \A q \in Threads \ {p} : Idle(q)
    PROVE  Expected(p)
<1>1. \A q \in Threads \ {p} : pc[q] = "idle"
    BY DEF Idle
<1>2. x.inst # None /\ pc[p] # "take" => x.running
    BY <1>1 DEF Sequential
<1>3. p # main /\ pc[p] \notin {"idle", "flag", "take"} => lastUsers # {}
    BY DEF Sequential, Threads
<1> QED BY <1>1, <1>2, <1>3 DEF UpToDate, Expected

LEMMA AloneAsExpected ==
    ASSUME NEW p \in Threads, \A q \in Threads \ {p} : pc'[q] = "idle",
           Expected(p)'
    PROVE  Sequential' /\ UpToDate'
<1>1. Sequential'
    <2>1. \A q, r \in Threads : q # r => Idle(q)' \/ Idle(r)'
        BY DEF Idle
    <2>2. x'.inst # None /\ (\A q \in Threads : pc'[q] # "take") => x'.running
        BY DEF Expected
    <2>3. \A q \in Commands : pc'[q] \notin {"idle", "flag", "take"} => lastUsers' # {}
        BY ControlAssumption DEF Expected, Threads
    <2> QED BY <2>1, <2>2, <2>3 DEF Sequential
<1>2. UpToDate'
    BY DEF Expected, UpToDate
<1> QED BY <1>1, <1>2

\* Nothing moves that these are about.
LEMMA NothingMoves ==
    ASSUME Sequential, UpToDate,
           UNCHANGED <<lastConfig, lastUsers, instances, x, pc, arg, own, hazards>>,
           budget'.faults = MaxFaults => budget.faults = MaxFaults
    PROVE  Sequential' /\ UpToDate'
BY DEF Sequential, UpToDate, Idle, ConfigIsRecorded, UsersAreRecorded,
       ConfigServed, UsersServed

\* Users or a configuration that no kernel can be given are only recorded.
LEMMA OnlyRecorded ==
    ASSUME Sequential, UpToDate, StopInv, Idle(main),
           ~desired \/ (~x.running /\ lastUsers = {}),
           UNCHANGED <<desired, instances, x, pc, arg, own, hazards>>,
           budget'.faults = MaxFaults => budget.faults = MaxFaults
    PROVE  Sequential' /\ UpToDate'
<1> SUFFICES ASSUME hazards = {}
             PROVE  Sequential' /\ UpToDate'
    BY DEF Sequential, UpToDate
<1>1. \A p \in Threads : pc[p] \in {"idle", "flag", "take"}
    <2>1. CASE ~desired
        BY <2>1 DEF StopInv, StopIsAlone
    <2>2. CASE lastUsers = {}
        BY <2>2 DEF Sequential, Threads, Idle
    <2> QED BY <2>1, <2>2
<1>2. (\A p \in Threads : pc[p] = "idle") => x.inst = None
    <2>1. CASE ~desired
        BY <2>1 DEF StopInv, StopIsKept
    <2>2. CASE ~x.running
        BY <2>2 DEF Sequential
    <2> QED BY <2>1, <2>2
<1>3. Sequential'
    BY <1>1, ControlAssumption DEF Sequential, Idle, Threads
<1>4. UpToDate'
    <2>1. ConfigIsRecorded' <=> ConfigIsRecorded
        BY DEF ConfigIsRecorded
    <2>2. (\A p \in Threads : pc'[p] \in {"idle", "check", "users", "aggregate"})
            => ConfigServed' /\ UsersAreRecorded' /\ UsersServed'
        <3> SUFFICES ASSUME \A p \in Threads : pc[p] \in {"idle", "check", "users", "aggregate"}
                     PROVE  x.inst = None
            BY DEF ConfigServed, UsersAreRecorded, UsersServed
        <3> QED BY <1>1, <1>2
    <2>3. \A p \in Threads : pc'[p] \in {"idle", "flag", "take"}
        BY <1>1
    <2> QED BY <2>1, <2>2, <2>3 DEF UpToDate
<1> QED BY <1>3, <1>4

\* Without overlap an operation begins while the others are idle.
LEMMA BeginsAlone ==
    ASSUME TypeOK, NEW p \in Threads, NEW label, NEW a, Begin(p, label, a),
           hazards' = {}
    PROVE  /\ hazards = {}
           /\ \A q \in Threads \ {p} : Idle(q) /\ pc'[q] = "idle"
           /\ label \in Labels => pc'[p] = label
           /\ arg'[p] = a
<1>1. hazards = {} /\ \A q \in Threads \ {p} : Idle(q)
    BY DEF Begin
<1> QED BY <1>1 DEF Begin, Go, Goto, Idle, TypeOK

\* An operation that begins is expected to find the node as it is.
LEMMA BeginExpected ==
    ASSUME TypeOK, Sequential, UpToDate, hazards' = {},
           NEW p \in Threads, Idle(p),
           NEW label \in {"users", "aggregate", "flag", "check", "build", "hash"},
           NEW a, Begin(p, label, a), UNCHANGED <<instances, x, own>>,
           \/ UNCHANGED <<lastConfig, lastUsers>>
           \/ p = main /\ label \in {"flag", "hash", "build"},
           p # main => label = "flag" \/ lastUsers # {},
           label \in {"check", "build", "hash"} =>
                a.config = lastConfig' /\ a.users = lastUsers',
           budget'.faults = MaxFaults => budget.faults = MaxFaults
    PROVE  Sequential' /\ UpToDate'
<1>1. /\ hazards = {} /\ pc'[p] = label /\ arg'[p] = a
      /\ \A q \in Threads \ {p} : Idle(q) /\ pc'[q] = "idle"
    BY BeginsAlone
<1>2. Expected(p)
    BY <1>1, ExpectedAlone
<1>3. Expected(p)'
    BY <1>1, <1>2 DEF Expected, Idle, ConfigIsRecorded, UsersAreRecorded,
                      ConfigServed, UsersServed
<1> QED BY <1>1, <1>3, AloneAsExpected

\* A goroutine that carries out an operation goes on as expected.
LEMMA StepGoesOn ==
    ASSUME TypeOK, Sequential, UpToDate, hazards = {}, NEW p \in Threads, ~Idle(p),
           \A q \in Threads \ {p} : pc'[q] = pc[q],
           Expected(p) => Expected(p)'
    PROVE  Sequential' /\ UpToDate'
<1>1. \A q \in Threads \ {p} : Idle(q)
    BY DEF Sequential
<1>2. \A q \in Threads \ {p} : pc'[q] = "idle"
    BY <1>1 DEF Idle
<1> QED BY <1>1, <1>2, ExpectedAlone, AloneAsExpected

\* Start: the new instance has the arguments, and is the current one next.
LEMMA StartExpected ==
    ASSUME TypeOK, InstanceInv, NEW p \in Threads, Expected(p),
           StartNew(p) \/ Swap(p)
    PROVE  Expected(p)'
<1> USE DEF serviceVars, certVars, kernelVars
<1>1. CASE StartNew(p)
    <2> DEFINE i == CHOOSE j \in Unused : TRUE
    <2>1. /\ i \in Unused
          /\ instances' = [instances EXCEPT ![i] =
                [up |-> TRUE, start |-> arg[p], users |-> arg[p].users]]
          /\ own' = [own EXCEPT ![p] = i]
        BY <1>1 DEF StartNew
    <2> HIDE DEF i
    <2>2. /\ pc[p] \in Building /\ pc'[p] = "swap"
          /\ UNCHANGED <<lastConfig, lastUsers, x, arg, budget>>
        BY <1>1 DEF StartNew, Goto, TypeOK
    <2>3. i \in Instances /\ i # x.inst
        BY <2>1, ControlAssumption DEF Unused, InstanceInv, CurrentIsUp
    <2>4. own'[p] = i /\ instances'[i].users = arg[p].users
        BY <2>1, <2>3 DEF TypeOK
    <2>5. x.inst # None => instances'[x.inst] = instances[x.inst]
        BY <2>1, <2>3 DEF TypeOK
    <2> QED BY <2>2, <2>4, <2>5 DEF Expected, ConfigIsRecorded, Building
<1>2. CASE Swap(p)
    <2> DEFINE i == own[p]
    <2>1. /\ i \in Instances /\ i # x.inst /\ instances[i].start = arg[p]
        BY <1>2 DEF Swap, SwapOver, InstanceInv, OwnsInstance, TypeOK
    <2>2. /\ pc[p] = "swap" /\ pc'[p] \in {"users", "idle"}
          /\ UNCHANGED <<lastConfig, lastUsers, budget>>
          /\ x'.inst = i /\ x'.running /\ x'.users = arg[p].users
          /\ x'.config = arg[p].config
          /\ instances' = Closing(instances, x.inst)
        BY <1>2 DEF Swap, SwapOver, Done, Go, Goto, TypeOK
    <2>3. instances'[i] = instances[i]
        BY <2>1, <2>2 DEF Closing, TypeOK
    <2> QED BY <2>1, <2>2, <2>3
            DEF Expected, ConfigIsRecorded, UsersAreRecorded, ConfigServed, UsersServed,
                Building
<1> QED BY <1>1, <1>2

\* Reload is skipped for an instance that has what is asked for.
LEMMA ReloadExpected ==
    ASSUME TypeOK, InstanceInv, NEW p \in Threads, Expected(p), Reload(p),
           hazards' = {}
    PROVE  Expected(p)'
<1>1. /\ pc[p] = "hash"
      /\ UNCHANGED <<lastConfig, lastUsers, instances, own, budget>>
      /\ x'.inst = x.inst /\ x'.running = x.running /\ x'.config = x.config
    BY DEF Reload, ReloadIf, TypeOK, serviceVars
<1>2. CASE pc'[p] = "reload" /\ arg' = arg /\ x' = x
    BY <1>1, <1>2 DEF Expected, ConfigIsRecorded, Building
<1>3. CASE /\ SameConfig(arg[p]) /\ pc'[p] = "idle"
           /\ x.users = arg[p].users /\ x'.users = arg[p].users
    <2>1. x.inst # None => instances[x.inst].start.config = arg[p].config
        BY <1>3 DEF SameConfig, InstanceInv, HashDescribesInstance
    <2> QED BY <1>1, <1>3, <2>1
            DEF Expected, ConfigIsRecorded, UsersAreRecorded, ConfigServed, UsersServed,
                Building
<1> QED BY <1>1, <1>2, <1>3 DEF Reload, ReloadIf, Done, Go, Goto, TypeOK

\* Stop leaves no instance that could be out of date.
LEMMA StopExpected ==
    ASSUME TypeOK, NEW p \in Threads, Expected(p), ClearRunning(p) \/ TakeInstance(p)
    PROVE  Expected(p)'
<1>1. CASE ClearRunning(p)
    <2>1. /\ pc'[p] = "take" /\ UNCHANGED <<lastConfig, instances, budget>>
          /\ x'.inst = x.inst /\ x'.config = x.config
        BY <1>1 DEF ClearRunning, Goto, TypeOK, serviceVars
    <2> QED BY <2>1 DEF Expected, ConfigIsRecorded, Building
<1>2. CASE TakeInstance(p)
    <2>1. pc'[p] = "idle" /\ x'.inst = None /\ UNCHANGED <<lastUsers, budget>>
        BY <1>2 DEF TakeInstance, Done, Go, Goto, TypeOK, serviceVars
    <2> QED BY <2>1 DEF Expected, ConfigIsRecorded, UsersAreRecorded, ConfigServed,
                        UsersServed, Building
<1> QED BY <1>1, <1>2

\* The list of a user update is recorded, and is what the kernel is given.
LEMMA UpdateExpected ==
    ASSUME TypeOK, HasArguments, NEW p \in Threads, Expected(p),
           PrepareUsers(p) \/ UpdateUsers(p)
    PROVE  Expected(p)'
<1> USE DEF kernelVars, serviceVars
<1>1. CASE PrepareUsers(p)
    <2>1. p = main /\ pc[p] = "users" /\ pc'[p] = "update"
        BY <1>1 DEF PrepareUsers, HasArguments, Go, Goto, TypeOK
    <2>2. UNCHANGED <<lastConfig, instances, x, own, budget>>
        BY <1>1 DEF PrepareUsers
    <2>3. arg'[p].users = lastUsers'
        BY <1>1 DEF PrepareUsers, Current, Go, TypeOK
    <2> QED BY <2>1, <2>2, <2>3
            DEF Expected, ConfigIsRecorded, UsersAreRecorded, ConfigServed, Building
<1>2. CASE UpdateUsers(p)
    <2>1. /\ pc[p] = "update"
          /\ UNCHANGED <<lastConfig, lastUsers, instances, x, budget>>
        BY <1>2 DEF UpdateUsers
    <2>2. CASE x.inst = None /\ Go(p, "rebuild", Current(lastConfig, arg[p].users))
        <3>1. /\ pc'[p] = "rebuild" /\ arg'[p].config = lastConfig
              /\ arg'[p].users = arg[p].users
            BY <2>2 DEF Go, Goto, Current, TypeOK
        <3> QED BY <2>1, <2>2, <3>1 DEF Expected, ConfigIsRecorded, Building
    <2>3. CASE x.users = arg[p].users /\ Done(p)
        <3>1. pc'[p] = "idle"
            BY <2>3 DEF Done, Go, Goto, TypeOK
        <3> QED BY <2>1, <2>3, <3>1
                DEF Expected, ConfigIsRecorded, UsersAreRecorded, ConfigServed,
                    UsersServed, Building
    <2>4. CASE x.inst # None /\ Go(p, "refresh",
                  [config |-> x.config, users |-> arg[p].users, tls |-> x.tls])
        <3>1. /\ pc'[p] = "refresh" /\ arg'[p].config = x.config
              /\ arg'[p].users = arg[p].users
            BY <2>4 DEF Go, Goto, TypeOK
        <3> QED BY <2>1, <2>4, <3>1
                DEF Expected, ConfigIsRecorded, ConfigServed, Building
    <2>5. CASE /\ own' = [own EXCEPT ![p] = x.inst]
               /\ Go(p, "apply", [old |-> x.users, users |-> arg[p].users])
        <3>1. /\ pc'[p] = "apply" /\ own'[p] = x.inst
              /\ arg'[p].old = x.users /\ arg'[p].users = arg[p].users
            BY <2>5 DEF Go, Goto, TypeOK
        <3> QED BY <2>1, <2>5, <3>1
                DEF Expected, ConfigIsRecorded, ConfigServed, UsersAreRecorded, Building
    <2> QED BY <1>2, <2>2, <2>3, <2>4, <2>5 DEF UpdateUsers
<1> QED BY <1>1, <1>2

\* The difference goes to the current instance, and the list is recorded.
LEMMA SwapUsersExpected ==
    ASSUME TypeOK, InstanceInv, NEW p \in Threads, Expected(p),
           HotSwapUsers(p) \/ RecordUsers(p)
    PROVE  Expected(p)'
<1> USE DEF kernelVars, serviceVars
<1>1. CASE HotSwapUsers(p)
    <2>1. /\ pc[p] = "apply" /\ pc'[p] = "write"
          /\ UNCHANGED <<lastConfig, lastUsers, x, arg, budget>>
        BY <1>1 DEF HotSwapUsers, HotSwapOver, Goto, TypeOK
    <2>2. own[p] \in Instances
        BY <2>1 DEF InstanceInv, OwnsInstance, TypeOK
    <2>3. CASE budget.faults = MaxFaults
        <3>1. own[p] = x.inst /\ instances[own[p]].up /\ x.inst # None
            BY <2>1, <2>2, <2>3, ControlAssumption
               DEF Expected, InstanceInv, CurrentIsUp
        <3>2. instances' = [instances EXCEPT ![own[p]].users = arg[p].users]
            <4>1. Kept(p) \cup Added(p) = arg[p].users
                BY <2>1, <2>3, <3>1 DEF Kept, Added, Expected, UsersAreRecorded
            <4> QED BY <1>1, <3>1, <4>1 DEF HotSwapUsers, HotSwapOver
        <3>3. /\ instances'[x.inst].users = arg[p].users
              /\ instances'[x.inst].start = instances[x.inst].start
            BY <2>2, <3>1, <3>2, UpIsStarted DEF TypeOK
        <3> QED BY <2>1, <3>3 DEF Expected, ConfigIsRecorded, ConfigServed, UsersServed,
                                  Building
    <2>4. CASE budget.faults # MaxFaults
        BY <2>1, <2>4 DEF Expected
    <2> QED BY <2>3, <2>4
<1>2. CASE RecordUsers(p)
    <2>1. /\ pc[p] = "write" /\ pc'[p] = "idle"
          /\ UNCHANGED <<lastConfig, lastUsers, instances, own, budget>>
          /\ x'.inst = x.inst /\ x'.running = x.running
          /\ x'.config = x.config /\ x'.users = arg[p].users
        BY <1>2 DEF RecordUsers, Done, Go, Goto, TypeOK
    <2> QED BY <2>1 DEF Expected, ConfigIsRecorded, UsersAreRecorded, ConfigServed,
                        UsersServed, Building
<1> QED BY <1>1, <1>2

\* After a fault only what is said of the users of commands is expected.
LEMMA FailExpected ==
    ASSUME TypeOK, NEW p \in Threads, Expected(p), StartFails(p)
    PROVE  Expected(p)'
<1>1. /\ pc[p] \in Building /\ x' = x
      /\ pc'[p] # "take" /\ (p # main => lastUsers' = lastUsers)
    BY DEF StartFails, Go, Goto, Done, TypeOK, kernelVars
<1>2. budget'.faults # MaxFaults
    BY ControlAssumption DEF StartFails, Spend, TypeOK
<1> QED BY <1>1, <1>2 DEF Expected, Building

LEMMA KernelExpected ==
    ASSUME TypeOK, HasArguments, InstanceInv, Sequential, UpToDate, hazards' = {},
           NEW p \in Threads, KernelStep(p) \/ StartFails(p)
    PROVE  Sequential' /\ UpToDate'
<1>1. /\ ~Idle(p) /\ hazards \subseteq hazards'
      /\ \A q \in Threads \ {p} : pc'[q] = pc[q]
    BY DEF KernelStep, StartFails, StartNew, Swap, SwapOver, Reload, ReloadIf,
           ClearRunning, TakeInstance, PrepareUsers, UpdateUsers, HotSwapUsers,
           HotSwapOver, RecordUsers, Idle, Building, Done, Go, Goto, TypeOK
<1>2. Expected(p) => Expected(p)'
    BY StartExpected, ReloadExpected, StopExpected, UpdateExpected,
       SwapUsersExpected, FailExpected DEF KernelStep
<1> QED BY <1>1, <1>2, StepGoesOn

LEMMA CommandExpected ==
    ASSUME TypeOK, HasArguments, Sequential, UpToDate, hazards' = {},
           NEW p \in Commands, Command(p)
    PROVE  Sequential' /\ UpToDate'
<1> USE DEF serviceVars, certVars, kernelVars
<1>1. p \in Threads /\ p # main
    BY ControlAssumption DEF Threads
<1>2. /\ Current(lastConfig, lastUsers).config = lastConfig
      /\ Current(lastConfig, lastUsers).users = lastUsers
    BY DEF Current
<1>3. ~StartUnlessRunning(p) => /\ Idle(p)
                                /\ UNCHANGED <<lastConfig, lastUsers, instances, x, own>>
                                /\ budget'.faults = budget.faults
    BY DEF Command, Stop, Start, Restart, StartCommand, ReloadCommand, Spend, TypeOK
<1>4. CASE Stop(p)
    BY <1>1, <1>3, <1>4, BeginExpected DEF Stop, StartUnlessRunning, Idle
<1>5. ASSUME NEW label \in {"check", "build"}, StartCommand(p, label)
      PROVE  Sequential' /\ UpToDate'
    <2>1. ~StartUnlessRunning(p)
        BY <1>5 DEF StartCommand, StartUnlessRunning, Idle
    <2>2. CASE UNCHANGED <<pc, arg, hazards>>
        BY <1>3, <2>1, <2>2, NothingMoves
    <2>3. CASE lastUsers # {} /\ Begin(p, label, Current(lastConfig, lastUsers))
        BY <1>1, <1>2, <1>3, <1>5, <2>1, <2>3, BeginExpected
    <2> QED BY <1>5, <2>2, <2>3 DEF StartCommand
<1>6. CASE StartUnlessRunning(p)
    <2>1. /\ pc[p] = "check" /\ hazards' = hazards
          /\ UNCHANGED <<lastConfig, lastUsers, instances, x, own, budget>>
        BY <1>6 DEF StartUnlessRunning
    <2>2. /\ \A q \in Threads \ {p} : pc'[q] = pc[q]
          /\ \/ pc'[p] = "idle"
             \/ /\ pc'[p] = "build" /\ arg'[p].config = arg[p].config
                /\ arg'[p].users = arg[p].users
        <3>1. arg[p] \in Args
            BY <1>1, <2>1 DEF HasArguments
        <3> DEFINE a == [arg[p] EXCEPT !.tls = cert.mat]
        <3>2. a.config = arg[p].config /\ a.users = arg[p].users
            BY <3>1 DEF Args
        <3>3. Go(p, "idle", None) \/ Go(p, "build", a)
            BY <1>6 DEF StartUnlessRunning, Done
        <3> HIDE DEF a
        <3> QED BY <1>1, <3>2, <3>3 DEF Go, Goto, TypeOK
    <2>3. Expected(p) => Expected(p)'
        BY <2>1, <2>2 DEF Expected, ConfigIsRecorded, UsersAreRecorded, ConfigServed,
                          UsersServed, Building
    <2> QED BY <1>1, <2>1, <2>2, <2>3, StepGoesOn DEF Idle
<1>7. CASE ReloadCommand(p)
    <2>1. ~StartUnlessRunning(p)
        BY <1>7 DEF ReloadCommand, StartUnlessRunning, Idle
    <2>2. PICK label \in {"hash", "build"} : Begin(p, label, Current(lastConfig, lastUsers))
        BY <1>7 DEF ReloadCommand
    <2> QED BY <1>1, <1>2, <1>3, <1>7, <2>1, <2>2, BeginExpected DEF ReloadCommand
<1> QED BY <1>4, <1>5, <1>6, <1>7 DEF Command, Start, Restart

\* applyChanges with the configuration and users that were just recorded.
LEMMA ChangesExpected ==
    ASSUME TypeOK, StopInv, Sequential, UpToDate, hazards' = {}, Idle(main),
           NEW m, ApplyChanges(lastConfig', lastUsers', m),
           UNCHANGED <<desired, instances, x, own>>,
           budget'.faults = MaxFaults => budget.faults = MaxFaults
    PROVE  Sequential' /\ UpToDate'
<1> DEFINE a == [config |-> lastConfig', users |-> lastUsers', tls |-> m.mat]
<1>1. CASE ~desired /\ UNCHANGED <<pc, arg, hazards>>
    BY <1>1, OnlyRecorded
<1>2. CASE Begin(main, "flag", None)
    BY <1>2, BeginExpected, MainIsThread
<1>3. ASSUME NEW label \in {"hash", "build"}, Begin(main, label, a)
      PROVE  Sequential' /\ UpToDate'
    BY <1>3, BeginExpected, MainIsThread
<1> QED BY <1>1, <1>2, <1>3 DEF ApplyChanges

LEMMA UserUpdateExpected ==
    ASSUME TypeOK, StopInv, Sequential, UpToDate, hazards' = {},
           NEW us \in Lists, UserUpdate(us)
    PROVE  Sequential' /\ UpToDate'
<1>1. /\ Idle(main) /\ UNCHANGED <<desired, lastConfig, instances, x, own>>
      /\ budget'.faults = budget.faults
    BY DEF UserUpdate, Spend, TypeOK, kernelVars
<1>2. CASE Begin(main, "users", None) /\ lastUsers' = lastUsers
    BY <1>1, <1>2, BeginExpected, MainIsThread
<1>3. CASE Begin(main, "build", Current(lastConfig, lastUsers)) /\ lastUsers' = lastUsers
    <2>1. /\ Current(lastConfig, lastUsers).config = lastConfig
          /\ Current(lastConfig, lastUsers).users = lastUsers
        BY DEF Current
    <2> QED BY <1>1, <1>3, <2>1, BeginExpected, MainIsThread
<1>4. CASE /\ ~desired \/ (~x.running /\ lastUsers = {})
           /\ UNCHANGED <<pc, arg, job, hazards>>
    BY <1>1, <1>4, OnlyRecorded
<1> QED BY <1>2, <1>3, <1>4 DEF UserUpdate

LEMMA UpToDateStep ==
    ASSUME TypeOK, HasArguments, InstanceInv, StopInv, Sequential, UpToDate, Next
    PROVE  Sequential' /\ UpToDate'
<1> USE DEF serviceVars, certVars, kernelVars, threadVars
<1> SUFFICES ASSUME hazards' = {}
             PROVE  Sequential' /\ UpToDate'
    BY DEF Sequential, UpToDate
<1>1. CASE Aggregated
    <2>1. /\ pc[main] = "aggregate" /\ hazards' = hazards
          /\ UNCHANGED <<lastConfig, lastUsers, instances, x, own, budget>>
        BY <1>1 DEF Aggregated
    <2>2. pc'[main] = "idle" /\ \A q \in Threads \ {main} : pc'[q] = pc[q]
        BY <1>1, MainIsThread DEF Aggregated, Done, Go, Goto, TypeOK
    <2>3. Expected(main) => Expected(main)'
        BY <2>1, <2>2 DEF Expected, ConfigIsRecorded, UsersAreRecorded, ConfigServed,
                          UsersServed, Building
    <2> QED BY <2>1, <2>2, <2>3, MainIsThread, StepGoesOn DEF Idle
<1>2. CASE Track
    <2>1. /\ Idle(main) /\ Begin(main, "aggregate", None)
          /\ UNCHANGED <<lastConfig, lastUsers, instances, x, own, budget>>
        BY <1>2 DEF Track
    <2> QED BY <2>1, BeginExpected, MainIsThread
<1>3. CASE StartPull \/ PollFails \/ PollAnswers \/ Renew \/ Flag
    <2>1. UNCHANGED <<lastConfig, lastUsers, instances, x, pc, arg, own, hazards>>
        BY <1>3 DEF StartPull, PollFails, PollAnswers, Renew, Flag
    <2>2. budget'.faults = MaxFaults => budget.faults = MaxFaults
        <3>1. CASE PollFails
            BY <3>1, ControlAssumption DEF PollFails, Spend, TypeOK
        <3>2. CASE StartPull \/ PollAnswers \/ Renew \/ Flag
            <4>1. budget' = budget
                BY <3>2 DEF StartPull, PollAnswers, Renew, Flag
            <4> QED BY <4>1
        <3> QED BY <1>3, <3>1, <3>2
    <2> QED BY <2>1, <2>2, NothingMoves
<1>4. ASSUME NEW us \in Lists, UserUpdate(us)
      PROVE  Sequential' /\ UpToDate'
    BY <1>4, UserUpdateExpected
<1>5. ASSUME NEW g \in Configs, NEW us \in Lists, NEW c \in CertConfigs,
             ConfigChange(g, us, c)
      PROVE  Sequential' /\ UpToDate'
    <2>1. /\ Idle(main) /\ ApplyChanges(lastConfig', lastUsers', cert')
          /\ UNCHANGED <<desired, instances, x, own>>
        BY <1>5 DEF ConfigChange
    <2>2. budget'.faults = MaxFaults => budget.faults = MaxFaults
        BY <1>5, PayTyped DEF ConfigChange
    <2> QED BY <2>1, <2>2, ChangesExpected
<1>6. ASSUME NEW us \in Lists, PullApplied(us)
      PROVE  Sequential' /\ UpToDate'
    <2>1. /\ Idle(main) /\ ApplyChanges(lastConfig', lastUsers', cert)
          /\ UNCHANGED <<desired, instances, x, own>>
        BY <1>6 DEF PullApplied
    <2>2. budget'.faults = budget.faults
        BY <1>6 DEF PullApplied, Spend, TypeOK
    <2> QED BY <2>1, <2>2, ChangesExpected
<1> QED BY <1>1, <1>2, <1>3, <1>4, <1>5, <1>6, KernelExpected, CommandExpected
        DEF Next, MainLoop

-----------------------------------------------------------------------------
(* Theorems.                                                               *)

LEMMA KInitially == Init => IInv
<1> SUFFICES ASSUME Init PROVE IInv
    OBVIOUS
<1> DEFINE i == CHOOSE j \in Instances : TRUE
<1>1. i \in Instances
    BY ControlAssumption
<1> HIDE DEF i
<1>2. PICK g \in Configs, us \in Lists \ {{}}, c \in CertConfigs \ Bare :
        LET m == Started(NewManager(c), 0)
            a == [config |-> g, users |-> us, tls |-> m.mat]
        IN  /\ lastConfig = g /\ lastUsers = us
            /\ cert = m
            /\ instances = [[j \in Instances |-> Down] EXCEPT
                    ![i] = [up |-> TRUE, start |-> a, users |-> us]]
            /\ x = [inst |-> i, running |-> TRUE, users |-> us, config |-> g,
                    hash |-> [config |-> g, users |-> us], tls |-> m.mat]
    BY DEF Init, i
<1>3. /\ NewManager(c) \in Managers
      /\ NewManager(c).acme \in {NoCert, NewManager(c).cfg}
      /\ 0 \in 0..MaxRenewals
    BY CertAssumption DEF NewManager, Managers, NoMaterial, TLSCerts
<1>4. cert \in Managers /\ AcmeIsConfigured
    BY <1>2, <1>3, StartedTyped DEF AcmeIsConfigured
<1>5. us \in Lists /\ cert.mat \in TLSCerts
    BY <1>4 DEF Lists, Managers
<1> DEFINE started == [config |-> g, users |-> us, tls |-> cert.mat]
<1>6. started \in Args
    BY <1>5 DEF Args
<1>7. /\ instances = [[j \in Instances |-> Down] EXCEPT
                    ![i] = [up |-> TRUE, start |-> started, users |-> us]]
      /\ x = [inst |-> i, running |-> TRUE, users |-> us, config |-> g,
              hash |-> [config |-> g, users |-> us], tls |-> cert.mat]
    BY <1>2
<1>8. budget \in [commands : 0..MaxCommands, configs : 0..MaxConfigs,
                  users : 0..MaxUsers, faults : 0..MaxFaults]
    BY ControlAssumption DEF Init
<1>9. TypeOK
    <2>1. instances \in [Instances ->
                {Down} \cup [up : {TRUE}, start : Args, users : Lists]]
        BY <1>1, <1>5, <1>6, <1>7
    <2>2. x \in [inst : Instances \cup {None}, running : BOOLEAN,
                 users : Lists, config : Configs,
                 hash : [config : Configs, users : Lists], tls : TLSCerts]
        BY <1>1, <1>5, <1>7
    <2>3. job \in [todo : Lists \cup {None}, undo : Lists \cup {None}]
        BY DEF Init, NoJob
    <2> QED BY <1>2, <1>3, <1>4, <1>5, <1>8, <2>1, <2>2, <2>3 DEF Init, TypeOK
<1>10. /\ instances[i].up /\ instances[i].start = started
       /\ \A j \in Instances \ {i} : ~instances[j].up
    BY <1>1, <1>7 DEF Down
<1>11. \A p \in Threads : pc[p] = "idle" /\ own[p] = None
    BY DEF Init
<1>12. HasArguments /\ OwnsInstance
    BY <1>11, MainIsThread DEF HasArguments, OwnsInstance
<1>13. CurrentIsUp /\ NoLeakedInstance /\ HashDescribesInstance
    BY <1>7, <1>10 DEF CurrentIsUp, NoLeakedInstance, HashDescribesInstance
<1>14. StopIsAlone /\ RunningHasInstance /\ StopIsKept
    <2>1. desired /\ x.inst # None
        BY <1>1, <1>7, ControlAssumption DEF Init
    <2> QED BY <1>11, <2>1, MainIsThread DEF StopIsAlone, RunningHasInstance, StopIsKept
<1>15. Sequential /\ UpToDate
    <2>1. x.inst = i /\ x.running /\ x.users = lastUsers /\ x.config = lastConfig
        BY <1>2, <1>7
    <2>2. instances[i].users = lastUsers /\ instances[i].start.config = lastConfig
        BY <1>1, <1>2, <1>7
    <2>3. /\ ConfigIsRecorded /\ UsersAreRecorded /\ ConfigServed /\ UsersServed
        BY <2>1, <2>2 DEF ConfigIsRecorded, UsersAreRecorded, ConfigServed, UsersServed
    <2>4. Sequential
        BY <1>11, <2>1 DEF Sequential, Idle, Threads
    <2> QED BY <1>11, <2>3, <2>4 DEF UpToDate, Building
<1> QED BY <1>4, <1>9, <1>12, <1>13, <1>14, <1>15 DEF IInv

LEMMA KStep == IInv /\ [Next]_vars => IInv'
<1> SUFFICES ASSUME IInv, [Next]_vars PROVE IInv'
    OBVIOUS
<1>1. InstanceInv /\ StopInv
    BY DEF IInv, InstanceInv, StopInv
<1>2. CASE Next
    <2>1. TypeOK' /\ HasArguments'
        BY <1>2, KernelTyped, FailTyped, CommandTyped, MainTyped, EnvironmentTyped
           DEF IInv, Next
    <2>2. AcmeIsConfigured'
        BY <1>2, AcmeStep DEF IInv
    <2>3. InstanceInv' /\ StopInv'
        BY <1>1, <1>2, InstanceStep, StopStep DEF IInv
    <2>4. Sequential' /\ UpToDate'
        BY <1>1, <1>2, UpToDateStep DEF IInv
    <2> QED BY <2>1, <2>2, <2>3, <2>4 DEF IInv, InstanceInv, StopInv
<1>3. CASE UNCHANGED vars
    <2> USE <1>3 DEF vars, serviceVars, kernelVars, certVars, threadVars
    <2>1. TypeOK'
        BY DEF IInv, TypeOK
    <2>2. HasArguments' /\ AcmeIsConfigured'
        BY DEF IInv, HasArguments, AcmeIsConfigured
    <2>3. InstanceInv'
        BY <1>1, InstancesStay DEF IInv
    <2>4. StopInv'
        BY <1>1, OtherStep
    <2>5. Sequential' /\ UpToDate'
        BY NothingMoves DEF IInv
    <2> QED BY <2>1, <2>2, <2>3, <2>4, <2>5 DEF IInv, InstanceInv, StopInv
<1> QED BY <1>2, <1>3

\* The invariant of a kernel under concurrent operations: who holds which
\* instance, what each operation still needs, and that a stop which overlapped
\* nothing is alone.
THEOREM KernelInvariant == Spec => []IInv
<1> QED BY KInitially, KStep, PTL DEF Spec

\* The wrapper, its instances, the goroutines' arguments and the certificate
\* manager keep their types.
THEOREM KernelTypeCorrect == Spec => []TypeOK
<1>1. IInv => TypeOK
    BY DEF IInv
<1> QED BY <1>1, KernelInvariant, PTL

\* For any number of goroutines that start, reload and stop the kernel, an
\* instance that serves is the current one or about to become it (Start's
\* closeOld and Stop close all others).
THEOREM NoInstanceEscapes == Spec => []NoLeakedInstance
<1>1. IInv => NoLeakedInstance
    BY DEF IInv
<1> QED BY <1>1, KernelInvariant, PTL

\* Reload's hash and certificate are those the current instance was started
\* with, whichever Starts overlapped.
THEOREM ReloadComparesCurrent == Spec => []HashDescribesInstance
<1>1. IInv => HashDescribesInstance
    BY DEF IInv
<1> QED BY <1>1, KernelInvariant, PTL

\* If no stop overlapped another operation, statistics are read only of a
\* kernel that has an instance.
THEOREM StatisticsHaveInstance == Spec => []RunningHasInstance
<1>1. IInv => RunningHasInstance
    BY DEF IInv
<1> QED BY <1>1, KernelInvariant, PTL

\* If no stop overlapped another operation, the kernel stays down after a
\* remote stop until a remote start.
THEOREM StopIsLasting == Spec => []StopIsKept
<1>1. IInv => StopIsKept
    BY DEF IInv
<1> QED BY <1>1, KernelInvariant, PTL

\* If no operations overlapped and none failed, a node at rest serves its
\* latest configuration and users: starts, reloads, hot swaps and user updates
\* that fall back on a start lose none of them.
THEOREM LatestIsServed == Spec => []ServesLatest
<1>1. IInv => ServesLatest
    <2> SUFFICES ASSUME IInv, hazards = {}, budget.faults = MaxFaults, x.inst # None,
                        \A p \in Threads : Idle(p)
                 PROVE  /\ instances[x.inst].start.config = lastConfig
                        /\ instances[x.inst].users = lastUsers
        BY DEF ServesLatest
    <2>1. ConfigServed /\ UsersServed
        BY DEF IInv, UpToDate, Idle
    <2> QED BY <2>1 DEF ConfigServed, UsersServed
<1> QED BY <1>1, KernelInvariant, PTL
=============================================================================
