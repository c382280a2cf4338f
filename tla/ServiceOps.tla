----------------------------- MODULE ServiceOps -----------------------------
(***************************************************************************)
(* What the node service (internal/service/service.go) makes of the        *)
(* configurations and user lists it is given, and what the xray kernel     *)
(* (internal/kernel/xray/xray.go) does when the service calls it.  All of  *)
(* this runs on the service's main goroutine, without interruption: each   *)
(* operator is one call.                                                   *)
(*                                                                         *)
(* Starting an xray instance can fail.  An operator that may start one     *)
(* yields the set of the nodes the call can end with.                      *)
(*                                                                         *)
(* A Spec stands for a user's credential; the speed and device limits that *)
(* travel with it do not take part in what is stated here.  A hash is the  *)
(* value it is the hash of.  The operator's remote stop is not modelled    *)
(* here, so kernelDesired is true throughout.                              *)
(***************************************************************************)
EXTENDS MailboxOps

CONSTANTS
    Unsupported,   \* configurations that validateNodeRuntime refuses
    HotSwap,       \* configurations whose protocol has a UserManager
    KernelMayFail  \* whether xray may fail to start

ASSUME ServiceAssumption ==
    /\ Unsupported \subseteq Configs
    /\ HotSwap \subseteq Configs
    /\ KernelMayFail \in BOOLEAN

-----------------------------------------------------------------------------
(* The kernel.  accounts are the users the running instance admits, users  *)
(* the list Xray keeps of them, base the list lastKernelHash was computed  *)
(* from.  What a stopped kernel keeps is overwritten by the next Start     *)
(* before anything reads it.                                               *)

Kernels == [running : BOOLEAN, config : Configs \cup {Nil},
            base : UserLists, users : UserLists, accounts : UserLists,
            devices : DeviceSets \cup {Nil}]

Stopped == [running |-> FALSE, config |-> Nil, base |-> EmptyList,
            users |-> EmptyList, accounts |-> EmptyList, devices |-> Nil]

\* Start, when the new instance comes up: the fleet-wide devices are carried
\* over from the old dispatcher.
Started(k, cfg, us) ==
    [running |-> TRUE, config |-> cfg, base |-> us, users |-> us,
     accounts |-> us, devices |-> k.devices]

\* Mutant: the kernel hash covers the users only.
SameHashUsersOnly(k, cfg, us) == k.base = us

\* Reload finds the kernel hash unchanged.
SameHash(k, cfg, us) == k.config = cfg /\ k.base = us

\* UserDiff, by identifier.
ToRemove(old, new) ==
    {id \in DOMAIN old : id \notin DOMAIN new \/ new[id] # old[id]}
ToAdd(old, new) ==
    {id \in DOMAIN new : id \notin DOMAIN old \/ new[id] # old[id]}

\* The UserManager refuses to add an account whose e-mail it already has.
Swapped(accounts, old, new) ==
    LET kept == Restrict(accounts, DOMAIN accounts \ ToRemove(old, new))
    IN  [id \in DOMAIN kept \cup ToAdd(old, new) |->
            IF id \in DOMAIN kept THEN kept[id] ELSE new[id]]

\* UpdateUsers goes through the UserManager, or has nothing to do.
WithoutRestart(k, us) == k.config \in HotSwap \/ k.users = us

\* UpdateUsers, when it does not fail.
KernelUpdated(k, us) ==
    IF WithoutRestart(k, us)
    THEN [k EXCEPT !.users = us, !.accounts = Swapped(@, k.users, us)]
    ELSE Started(k, k.config, us)

-----------------------------------------------------------------------------
(* The node: lastConfig, lastUsers and the kernel. *)

Nodes == [config : Configs \cup {Nil}, users : UserLists, kernel : Kernels]

NewNode == [config |-> Nil, users |-> EmptyList, kernel |-> Stopped]

\* A running kernel has the configuration the service holds.
RunsItsConfig(n) == n.kernel.running => n.kernel.config = n.config

\* What becomes of n if the kernel fails to start.
IfKernelFails(outcomes) == IF KernelMayFail THEN outcomes ELSE {}

\* startKernel succeeds with the node's configuration and these users.
Restarted(n, us) == [n EXCEPT !.kernel = Started(@, n.config, us)]

EnsureRunning(n) ==
    IF n.kernel.running \/ n.users = EmptyList \/ n.config = Nil
    THEN {n}
    ELSE {Restarted(n, n.users)} \cup IfKernelFails({n})

\* Mutant: nothing is restored after the kernel failed twice.
ApplyUserUpdateNoRestore(n, us) ==
    UNION {IF ~m.kernel.running
           THEN {[m EXCEPT !.users = us]}
           ELSE {[m EXCEPT !.users = us, !.kernel = KernelUpdated(@, us)]}
                \cup IF WithoutRestart(m.kernel, us) THEN {}
                     ELSE IfKernelFails({[m EXCEPT !.users = us]})
           : m \in EnsureRunning(n)}

\* applyUserUpdate.  Where UpdateUsers fails the kernel is restarted with the
\* new users, and if that fails too the previous users are restored.
ApplyUserUpdate(n, us) ==
    UNION {IF ~m.kernel.running
           THEN {[m EXCEPT !.users = us]}
           ELSE {[m EXCEPT !.users = us, !.kernel = KernelUpdated(@, us)]}
                \cup IF WithoutRestart(m.kernel, us) THEN {}
                     ELSE IfKernelFails(
                            {[Restarted(m, us) EXCEPT !.users = us], m})
           : m \in EnsureRunning(n)}

\* Mutant: with the last user gone the kernel is left as it is.
ApplyChangesKeepsKernel(n) ==
    IF n.users = EmptyList \/ n.config = Nil THEN {n}
    ELSE {Restarted(n, n.users)} \cup IfKernelFails({n})

\* applyChanges after the configuration changed.  A Reload that fails is
\* followed by a start that may fail as well.
ApplyChanges(n) ==
    IF n.users = EmptyList THEN {[n EXCEPT !.kernel = Stopped]}
    ELSE IF n.config = Nil THEN {n}
    ELSE IF n.kernel.running /\ SameHash(n.kernel, n.config, n.users)
    THEN {[n EXCEPT !.kernel.users = n.users]}
    ELSE {Restarted(n, n.users)} \cup IfKernelFails({n})

-----------------------------------------------------------------------------
(* handleWSEvent, for the events a drained mailbox gives rise to. *)

OnSyncConfig(n, cfg) ==
    IF cfg = n.config \/ cfg \in Unsupported
    THEN {n}
    ELSE ApplyChanges([n EXCEPT !.config = cfg])

\* Mutant: the user hash covers the identifiers only.
OnSyncUsersById(n, us) ==
    IF us = Nil \/ DOMAIN us = DOMAIN n.users
    THEN {n} ELSE ApplyUserUpdate(n, us)

\* A nil list is ignored.
OnSyncUsers(n, us) ==
    IF us = Nil \/ us = n.users THEN {n} ELSE ApplyUserUpdate(n, us)

\* A stopped kernel has no dispatcher to keep the devices in.
OnSyncDevices(n, ds) ==
    IF n.kernel.running THEN [n EXCEPT !.kernel.devices = ds] ELSE n

\* drainMachineMailbox, up to the reconciliation it may request.
Drained(n, state) ==
    LET afterConfig ==
            IF state.HasConfig THEN OnSyncConfig(n, state.Config) ELSE {n}
        afterUsers ==
            UNION {IF state.HasUsers THEN OnSyncUsers(m, state.Users) ELSE {m}
                   : m \in afterConfig}
    IN  {IF state.HasDevices THEN OnSyncDevices(m, state.DeviceUsers) ELSE m
         : m \in afterUsers}

-----------------------------------------------------------------------------
(* The result of a REST pull; a field is Nil where the panel answered that *)
(* nothing was modified.                                                   *)

PullResults == [config : Configs \cup {Nil}, users : UserLists \cup {Nil}]

\* applyPullResult.  With a new configuration the users are only recorded,
\* and reach the kernel with it.
PullApplied(n, r) ==
    LET newConfig == r.config # Nil /\ r.config \notin Unsupported
        newUsers == r.users # Nil /\ r.users # n.users
    IN  IF newConfig
        THEN ApplyChanges(
               [n EXCEPT !.config = r.config,
                         !.users = IF newUsers THEN r.users ELSE @])
        ELSE IF newUsers THEN ApplyUserUpdate(n, r.users) ELSE {n}

\* initialSetup, after the first snapshot: with no users the kernel stays
\* down.
BootOutcomes(cfg, us) ==
    LET n == [config |-> cfg, users |-> us, kernel |-> Stopped]
    IN  IF us = EmptyList THEN {n} ELSE {Restarted(n, us)}
=============================================================================
