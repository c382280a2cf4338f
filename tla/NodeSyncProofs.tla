--------------------------- MODULE NodeSyncProofs ---------------------------
(***************************************************************************)
(* NodeSync, for any users, configurations, pushes, faults and bounds: its *)
(* types, that a pending mailbox has its token, that apiBackoff never      *)
(* skips more than one tick, and that, if no start of xray fails, a        *)
(* running kernel runs with the configuration the service holds.           *)
(***************************************************************************)
EXTENDS NodeSync, SequenceTheorems, TLAPS

-----------------------------------------------------------------------------
(* What the operators of MailboxOps return. *)

\* The empty list is a user list.
LEMMA EmptyListType == EmptyList \in UserLists
  BY DEF EmptyList, UserLists

\* append([]model.User(nil), list...) is a list or nil, and reads as the list.
LEMMA CopyOntoNilType ==
  ASSUME NEW us \in UserLists
  PROVE  /\ CopyOntoNil(us) \in UserLists \cup {Nil}
         /\ AsList(CopyOntoNil(us)) = us
  BY NilAssumption, EmptyListType DEF CopyOntoNil, AsList

\* A delta, replayed onto a list or onto none, leaves a list or none.
LEMMA ApplyUserDeltaType ==
  ASSUME NEW us \in UserLists \cup {Nil}, NEW d \in UserLists,
         NEW action \in KnownActions
  PROVE  ApplyUserDelta(us, action, d) \in UserLists \cup {Nil}
<1>1. PICK S \in SUBSET UserIds : AsList(us) \in [S -> Specs]
  BY EmptyListType DEF AsList, UserLists
<1>2. PICK T \in SUBSET UserIds : d \in [T -> Specs]
  BY DEF UserLists
<1>3. /\ AddDelta(AsList(us), d) \in [S \cup T -> Specs]
      /\ SubtractDelta(AsList(us), d) \in [S \ DOMAIN d -> Specs]
  BY <1>1, <1>2 DEF AddDelta, SubtractDelta, Restrict
<1>4. ReplayDelta(AsList(us), action, d) \in UserLists
  BY <1>3 DEF ReplayDelta, UserLists
<1> QED
  BY <1>4 DEF ApplyUserDelta, CopyOntoNil

\* An event is one of the four kinds, and Apply does what the kind says.
LEMMA ApplyCases ==
  ASSUME NEW m, NEW e \in Events
  PROVE  \/ \E cfg \in Configs : Apply(m, e) = ApplyConfig(m, cfg)
         \/ \E us \in UserLists : Apply(m, e) = ApplyUsers(m, us)
         \/ \E ds \in DeviceSets : Apply(m, e) = ApplyDevices(m, ds)
         \/ \E action \in DeltaActions, d \in UserLists \ {EmptyList} :
               Apply(m, e) = ApplyDelta(m, action, d)
<1>1. CASE e \in ConfigEvents
  BY <1>1 DEF ConfigEvents, Apply
<1>2. CASE e \in UserEvents
  BY <1>2 DEF UserEvents, Apply
<1>3. CASE e \in DeviceEvents
  BY <1>3 DEF DeviceEvents, Apply
<1>4. CASE e \in DeltaEvents
  BY <1>4 DEF DeltaEvents, Apply
<1> QED
  BY <1>1, <1>2, <1>3, <1>4 DEF Events

\* Apply keeps the mailbox's type, whatever the event.
LEMMA ApplyType ==
  ASSUME NEW m \in Mailboxes, NEW e \in Events
  PROVE  Apply(m, e) \in Mailboxes
<1>1. ASSUME NEW cfg \in Configs PROVE ApplyConfig(m, cfg) \in Mailboxes
  BY DEF ApplyConfig, Mailboxes
<1>3. ASSUME NEW us \in UserLists PROVE ApplyUsers(m, us) \in Mailboxes
  BY DEF ApplyUsers, Mailboxes
<1>4. ASSUME NEW ds \in DeviceSets PROVE ApplyDevices(m, ds) \in Mailboxes
  BY DEF ApplyDevices, Mailboxes
<1>2. ASSUME NEW action \in DeltaActions, NEW d \in UserLists
      PROVE  ApplyDelta(m, action, d) \in Mailboxes
  <2>1. CASE Replayable(m, action)
    <3>1. ApplyUserDelta(m.users, action, d) \in UserLists \cup {Nil}
      BY <2>1, ApplyUserDeltaType DEF Replayable, Mailboxes
    <3> QED
      BY <2>1, <3>1 DEF ApplyDelta, Mailboxes
  <2>2. CASE ~Replayable(m, action)
    BY <2>2 DEF ApplyDelta, Mailboxes
  <2> QED
    BY <2>1, <2>2
<1> QED
  BY <1>1, <1>2, <1>3, <1>4, ApplyCases

\* Seeding a baseline keeps the mailbox's type.
LEMMA SeedBaselineType ==
  ASSUME NEW m \in Mailboxes, NEW us \in UserLists \cup {Nil},
         NEW cfg \in Configs \cup {Nil}
  PROVE  SeedBaseline(m, us, cfg) \in Mailboxes
<1> DEFINE seedUsers == us # Nil /\ ~m.hasFullUserState
           list == IF seedUsers THEN us ELSE m.users
           full == m.hasFullUserState \/ seedUsers
           base == IF cfg # Nil /\ m.config = Nil THEN cfg ELSE m.config
<1>1. /\ list \in UserLists \cup {Nil}
      /\ full \in BOOLEAN
      /\ base \in Configs \cup {Nil}
  BY DEF Mailboxes
<1>2. SeedBaseline(m, us, cfg)
        = [m EXCEPT !.users = list, !.hasFullUserState = full,
                    !.config = base]
  BY DEF SeedBaseline
<1> HIDE DEF list, full, base
<1> QED
  BY <1>1, <1>2 DEF Mailboxes

\* Marking the mailbox ready keeps its type.
LEMMA MarkReadyType ==
  ASSUME NEW m \in Mailboxes
  PROVE  MarkReady(m) \in Mailboxes
  BY DEF MarkReady, Mailboxes

\* A drain keeps the mailbox's type.
LEMMA DrainIfReadyType ==
  ASSUME NEW m \in Mailboxes
  PROVE  DrainIfReady(m) \in Mailboxes
<1>1. CASE ~m.ready
  BY <1>1 DEF DrainIfReady
<1>2. CASE m.ready
  <2> DEFINE cfg == IF HasConfig(m) THEN Nil ELSE m.config
             dc == m.dirtyConfig /\ ~HasConfig(m)
             dd == m.dirtyDevices /\ ~HasDevices(m)
  <2>1. DrainIfReady(m) = [m EXCEPT !.config = cfg, !.dirtyConfig = dc,
                                    !.dirtyUsers = FALSE,
                                    !.dirtyDevices = dd,
                                    !.needsReconcile = FALSE]
    BY <1>2 DEF DrainIfReady
  <2>2. cfg \in Configs \cup {Nil} /\ dc \in BOOLEAN /\ dd \in BOOLEAN
    BY DEF Mailboxes
  <2> QED
    BY <2>1, <2>2 DEF Mailboxes
<1> QED
  BY <1>1, <1>2

\* The state a drain returns carries what its flags announce.
LEMMA MailboxStateType ==
  ASSUME NEW m \in Mailboxes
  PROVE  LET s == MailboxState(m)
         IN  /\ s.HasConfig => s.Config \in Configs
             /\ s.Users \in UserLists \cup {Nil}
             /\ s.HasDevices => s.DeviceUsers \in DeviceSets
             /\ s.NeedsReconcile \in BOOLEAN
  BY DEF MailboxState, Mailboxes, HasConfig, HasDevices

-----------------------------------------------------------------------------
(* What the service's and the kernel's calls make of a node: they keep its *)
(* type, and a running kernel keeps the configuration the service holds,   *)
(* unless a start failed.                                                  *)

\* A node a call may leave behind: well typed, and if no start can fail, its
\* kernel runs with its configuration.
Sound(n) == n \in Nodes /\ (~KernelMayFail => RunsItsConfig(n))

-----------------------------------------------------------------------------
(* The kernel's calls. *)

\* A new kernel instance is a kernel.
LEMMA StartedType ==
  ASSUME NEW k \in Kernels, NEW cfg \in Configs \cup {Nil},
         NEW us \in UserLists
  PROVE  /\ Started(k, cfg, us) \in Kernels
         /\ Started(k, cfg, us).config = cfg
  BY DEF Started, Kernels

\* The stopped kernel is a kernel.
LEMMA StoppedType == Stopped \in Kernels /\ ~Stopped.running
  BY EmptyListType DEF Stopped, Kernels

\* A hot-swap turns accounts into accounts.
LEMMA SwappedType ==
  ASSUME NEW accounts \in UserLists, NEW old \in UserLists,
         NEW new \in UserLists
  PROVE  Swapped(accounts, old, new) \in UserLists
<1> DEFINE kept == Restrict(accounts, DOMAIN accounts \ ToRemove(old, new))
<1>1. PICK S \in SUBSET UserIds : accounts \in [S -> Specs]
  BY DEF UserLists
<1>2. PICK T \in SUBSET UserIds : new \in [T -> Specs]
  BY DEF UserLists
<1>3. kept \in [S \ ToRemove(old, new) -> Specs]
  BY <1>1 DEF Restrict
<1>4. ToAdd(old, new) \subseteq T
  BY <1>2 DEF ToAdd
<1>5. Swapped(accounts, old, new)
        \in [(S \ ToRemove(old, new)) \cup ToAdd(old, new) -> Specs]
  <2> HIDE DEF kept
  <2>1. Swapped(accounts, old, new)
          = [id \in DOMAIN kept \cup ToAdd(old, new) |->
               IF id \in DOMAIN kept THEN kept[id] ELSE new[id]]
    BY DEF Swapped, kept
  <2> QED
    BY <1>2, <1>3, <1>4, <2>1
<1> QED
  BY <1>4, <1>5 DEF UserLists

\* UpdateUsers leaves a kernel with the configuration it had.
LEMMA KernelUpdatedType ==
  ASSUME NEW k \in Kernels, NEW us \in UserLists
  PROVE  /\ KernelUpdated(k, us) \in Kernels
         /\ KernelUpdated(k, us).config = k.config
<1>1. k.accounts \in UserLists /\ k.users \in UserLists
      /\ k.config \in Configs \cup {Nil}
  BY DEF Kernels
<1>2. CASE WithoutRestart(k, us)
  <2>1. KernelUpdated(k, us)
          = [k EXCEPT !.users = us,
                      !.accounts = Swapped(k.accounts, k.users, us)]
    BY <1>2 DEF KernelUpdated
  <2>2. Swapped(k.accounts, k.users, us) \in UserLists
    BY <1>1, SwappedType
  <2> QED
    BY <2>1, <2>2 DEF Kernels
<1>3. CASE ~WithoutRestart(k, us)
  BY <1>1, <1>3, StartedType DEF KernelUpdated
<1> QED
  BY <1>2, <1>3

-----------------------------------------------------------------------------
(* The service's calls. *)

\* A successful start of the node's configuration.
LEMMA RestartedSound ==
  ASSUME NEW n \in Nodes, NEW us \in UserLists
  PROVE  /\ Restarted(n, us) \in Nodes
         /\ RunsItsConfig(Restarted(n, us))
         /\ Restarted(n, us).config = n.config
<1>1. n.kernel \in Kernels /\ n.config \in Configs \cup {Nil}
  BY DEF Nodes
<1>2. /\ Started(n.kernel, n.config, us) \in Kernels
      /\ Started(n.kernel, n.config, us).config = n.config
  BY <1>1, StartedType
<1>3. Restarted(n, us)
        = [n EXCEPT !.kernel = Started(n.kernel, n.config, us)]
  BY DEF Restarted
<1> QED
  BY <1>2, <1>3 DEF Nodes, RunsItsConfig

\* Where the kernel fails to start, the outcome is allowed only if it may.
LEMMA KernelFailure ==
  ASSUME NEW S, NEW m \in IfKernelFails(S)
  PROVE  KernelMayFail /\ m \in S
  BY ServiceAssumption DEF IfKernelFails

\* ensureRunning.
LEMMA EnsureRunningSound ==
  ASSUME NEW n, Sound(n), NEW m \in EnsureRunning(n)
  PROVE  Sound(m) /\ m.config = n.config
<1>1. n \in Nodes /\ n.users \in UserLists
  BY DEF Sound, Nodes
<1>2. m = n \/ m = Restarted(n, n.users)
  BY KernelFailure DEF EnsureRunning
<1> QED
  BY <1>1, <1>2, RestartedSound DEF Sound

\* Recording a user list.
LEMMA RecordUsersSound ==
  ASSUME NEW n, Sound(n), NEW us \in UserLists
  PROVE  Sound([n EXCEPT !.users = us])
  BY DEF Sound, Nodes, RunsItsConfig

\* UpdateUsers succeeds.
LEMMA UpdatedSound ==
  ASSUME NEW n, Sound(n), NEW us \in UserLists, n.kernel.running
  PROVE  Sound([n EXCEPT !.users = us,
                         !.kernel = KernelUpdated(n.kernel, us)])
<1>1. n.kernel \in Kernels
  BY DEF Sound, Nodes
<1>2. /\ KernelUpdated(n.kernel, us) \in Kernels
      /\ KernelUpdated(n.kernel, us).config = n.kernel.config
  BY <1>1, KernelUpdatedType
<1> QED
  BY <1>2 DEF Sound, Nodes, RunsItsConfig

\* applyUserUpdate, with its fallbacks.
LEMMA ApplyUserUpdateSound ==
  ASSUME NEW n, Sound(n), NEW us \in UserLists,
         NEW m \in ApplyUserUpdate(n, us)
  PROVE  Sound(m)
<1>1. PICK e \in EnsureRunning(n) :
        \/ ~e.kernel.running /\ m = [e EXCEPT !.users = us]
        \/ /\ e.kernel.running
           /\ \/ m = [e EXCEPT !.users = us,
                               !.kernel = KernelUpdated(e.kernel, us)]
              \/ m \in IfKernelFails(
                         {[Restarted(e, us) EXCEPT !.users = us], e})
  BY DEF ApplyUserUpdate
<1>2. Sound(e) /\ e \in Nodes
  BY EnsureRunningSound DEF Sound
<1>3. CASE m = [e EXCEPT !.users = us]
  BY <1>2, <1>3, RecordUsersSound
<1>4. CASE /\ e.kernel.running
           /\ m = [e EXCEPT !.users = us,
                            !.kernel = KernelUpdated(e.kernel, us)]
  BY <1>2, <1>4, UpdatedSound
<1>5. CASE m \in IfKernelFails({[Restarted(e, us) EXCEPT !.users = us], e})
  <2>1. m = e \/ m = [Restarted(e, us) EXCEPT !.users = us]
    BY <1>5, KernelFailure
  <2>2. Sound(Restarted(e, us))
    BY <1>2, RestartedSound DEF Sound
  <2> QED
    BY <1>2, <2>1, <2>2, RecordUsersSound
<1> QED
  BY <1>1, <1>3, <1>4, <1>5

\* applyChanges, once the new configuration is recorded: the old kernel stays
\* only if a start failed, or if its hash says it runs this configuration.
LEMMA ApplyChangesSound ==
  ASSUME NEW n \in Nodes, n.config # Nil, NEW m \in ApplyChanges(n)
  PROVE  Sound(m)
<1>1. n.users \in UserLists
  BY DEF Nodes
<1>2. CASE n.users = EmptyList
  BY <1>2, StoppedType DEF ApplyChanges, Sound, Nodes, RunsItsConfig
<1>3. CASE /\ n.users # EmptyList
           /\ n.kernel.running /\ SameHash(n.kernel, n.config, n.users)
  BY <1>1, <1>3 DEF ApplyChanges, SameHash, Sound, Nodes, Kernels,
                    RunsItsConfig
<1>4. CASE /\ n.users # EmptyList
           /\ ~(n.kernel.running /\ SameHash(n.kernel, n.config, n.users))
  <2>1. m = Restarted(n, n.users) \/ (KernelMayFail /\ m = n)
    BY <1>4, KernelFailure DEF ApplyChanges
  <2> QED
    BY <1>1, <2>1, RestartedSound DEF Sound
<1> QED
  BY <1>2, <1>3, <1>4

-----------------------------------------------------------------------------
(* What the main loop does with a mailbox, a pull result, a bootstrap. *)

\* EventSyncConfig.
LEMMA OnSyncConfigSound ==
  ASSUME NEW n, Sound(n), NEW cfg \in Configs, NEW m \in OnSyncConfig(n, cfg)
  PROVE  Sound(m)
<1>1. CASE m = n
  BY <1>1
<1>2. CASE m \in ApplyChanges([n EXCEPT !.config = cfg])
  <2>1. /\ [n EXCEPT !.config = cfg] \in Nodes
        /\ [n EXCEPT !.config = cfg].config # Nil
    BY NilAssumption DEF Sound, Nodes
  <2> QED
    BY <1>2, <2>1, ApplyChangesSound
<1> QED
  BY <1>1, <1>2 DEF OnSyncConfig

\* EventSyncUsers.
LEMMA OnSyncUsersSound ==
  ASSUME NEW n, Sound(n), NEW us \in UserLists \cup {Nil},
         NEW m \in OnSyncUsers(n, us)
  PROVE  Sound(m)
  BY ApplyUserUpdateSound DEF OnSyncUsers

\* The remote devices, set or cleared: nothing else changes.
LEMMA DevicesSound ==
  ASSUME NEW n, Sound(n), NEW ds \in DeviceSets \cup {Nil}
  PROVE  Sound([n EXCEPT !.kernel.devices = ds])
  BY DEF Sound, Nodes, Kernels, RunsItsConfig

\* drainMachineMailbox: configuration, then users, then devices.
LEMMA DrainedSound ==
  ASSUME NEW n, Sound(n), NEW box \in Mailboxes,
         NEW m \in Drained(n, MailboxState(box))
  PROVE  Sound(m)
<1> DEFINE s == MailboxState(box)
<1>1. /\ s.HasConfig => s.Config \in Configs
      /\ s.Users \in UserLists \cup {Nil}
      /\ s.HasDevices => s.DeviceUsers \in DeviceSets
  BY MailboxStateType
<1> HIDE DEF s
<1> DEFINE afterConfig == IF s.HasConfig THEN OnSyncConfig(n, s.Config)
                          ELSE {n}
           afterUsers(a) == IF s.HasUsers THEN OnSyncUsers(a, s.Users)
                            ELSE {a}
<1>2. PICK a \in afterConfig : \E b \in afterUsers(a) :
         m = IF s.HasDevices THEN OnSyncDevices(b, s.DeviceUsers) ELSE b
  BY DEF Drained, s
<1>3. Sound(a)
  BY <1>1, <1>2, OnSyncConfigSound
<1>4. PICK b \in afterUsers(a) :
         m = IF s.HasDevices THEN OnSyncDevices(b, s.DeviceUsers) ELSE b
  BY <1>2
<1>5. Sound(b)
  BY <1>1, <1>3, <1>4, OnSyncUsersSound
<1> QED
  BY <1>1, <1>4, <1>5, DevicesSound DEF OnSyncDevices

\* applyPullResult.
LEMMA PullAppliedSound ==
  ASSUME NEW n, Sound(n), NEW r \in PullResults, NEW m \in PullApplied(n, r)
  PROVE  Sound(m)
<1> DEFINE newConfig == r.config # Nil /\ r.config \notin Unsupported
           newUsers == r.users # Nil /\ r.users # n.users
           list == IF newUsers THEN r.users ELSE n.users
<1>1. /\ newConfig => r.config \in Configs
      /\ newUsers => r.users \in UserLists
      /\ list \in UserLists
  BY DEF PullResults, Sound, Nodes
<1>2. CASE newConfig
  <2> DEFINE c == [n EXCEPT !.config = r.config, !.users = list]
  <2>1. m \in ApplyChanges(c)
    BY <1>2 DEF PullApplied
  <2>2. c \in Nodes /\ c.config # Nil
    BY <1>1, <1>2 DEF Sound, Nodes
  <2> QED
    BY <2>1, <2>2, ApplyChangesSound
<1>3. CASE ~newConfig /\ newUsers
  <2>1. m \in ApplyUserUpdate(n, r.users)
    BY <1>3 DEF PullApplied
  <2> QED
    BY <1>1, <1>3, <2>1, ApplyUserUpdateSound
<1>4. CASE ~newConfig /\ ~newUsers
  BY <1>4 DEF PullApplied
<1> QED
  BY <1>2, <1>3, <1>4

\* initialSetup.
LEMMA BootOutcomesSound ==
  ASSUME NEW cfg \in Configs, NEW us \in UserLists,
         NEW m \in BootOutcomes(cfg, us)
  PROVE  /\ Sound(m)
         /\ m.config = cfg /\ m.users = us
<1> DEFINE n == [config |-> cfg, users |-> us, kernel |-> Stopped]
<1>1. n \in Nodes
  BY StoppedType DEF Nodes
<1>2. CASE m = n
  BY <1>1, <1>2, StoppedType DEF Sound, RunsItsConfig
<1>3. CASE m = Restarted(n, us)
  BY <1>1, <1>3, RestartedSound DEF Sound, Restarted
<1> QED
  BY <1>2, <1>3 DEF BootOutcomes

-----------------------------------------------------------------------------
(* The panel's messages. *)

\* A configuration the panel pushes, malformed or not, is a message.
LEMMA ConfigMessage ==
  ASSUME NEW cfg \in PanelConfigs
  PROVE  [type |-> "sync.config", config |-> cfg] \in Messages
  BY DEF PanelConfigs, Messages, Events, ConfigEvents

\* A full user list is a message.
LEMMA UsersMessage ==
  ASSUME NEW us \in UserLists
  PROVE  [type |-> "sync.users", users |-> us] \in Messages
  BY DEF Messages, Events, UserEvents

\* A device snapshot is a message.
LEMMA DevicesMessage ==
  ASSUME NEW ds \in DeviceSets
  PROVE  [type |-> "sync.devices", devices |-> ds] \in Messages
  BY DEF Messages, Events, DeviceEvents

\* A part of a list that is not empty makes a delta.
LEMMA DeltaMessage ==
  ASSUME NEW us \in UserLists, NEW ids \in SUBSET DOMAIN us, ids # {},
         NEW action \in DeltaActions
  PROVE  [type |-> "sync.user.delta", action |-> action,
          delta |-> Restrict(us, ids)] \in Messages
<1>1. PICK S \in SUBSET UserIds : us \in [S -> Specs]
  BY DEF UserLists
<1>2. Restrict(us, ids) \in [ids -> Specs] /\ ids \in SUBSET UserIds
  BY <1>1 DEF Restrict
<1>3. Restrict(us, ids) \in UserLists
  BY <1>2 DEF UserLists
<1>4. DOMAIN Restrict(us, ids) # DOMAIN EmptyList
  BY <1>2 DEF EmptyList
<1> QED
  BY <1>3, <1>4 DEF Messages, Events, DeltaEvents

\* Lists with the same users, and none of them changed, are the same.
LEMMA NothingAdded ==
  ASSUME NEW old \in UserLists, NEW new \in UserLists,
         DOMAIN old \ DOMAIN new = {}, ToAdd(old, new) = {}
  PROVE  old = new
<1>1. PICK S \in SUBSET UserIds : old \in [S -> Specs]
  BY DEF UserLists
<1>2. PICK T \in SUBSET UserIds : new \in [T -> Specs]
  BY DEF UserLists
<1>3. \A id \in T : id \in S /\ new[id] = old[id]
  BY <1>1, <1>2 DEF ToAdd
<1>4. S = T
  BY <1>1, <1>2, <1>3
<1> QED
  BY <1>1, <1>2, <1>3, <1>4

\* However the panel pushes a changed list, it sends a message.
LEMMA UserPushesType ==
  ASSUME NEW old \in UserLists, NEW new \in UserLists, new # old,
         NEW m \in UserPushes(old, new)
  PROVE  m \in Messages
<1> DEFINE changed == ToAdd(old, new)
           gone == DOMAIN old \ DOMAIN new
<1>1. changed \in SUBSET DOMAIN new /\ gone \in SUBSET DOMAIN old
  BY DEF ToAdd
<1>2. changed # {} \/ gone # {}
  BY NothingAdded
<1>3. CASE m = [type |-> "sync.users", users |-> new]
  BY <1>3, UsersMessage
<1>4. CASE gone = {} /\ m = [type |-> "sync.user.delta", action |-> "add",
                             delta |-> Restrict(new, changed)]
  BY <1>1, <1>2, <1>4, DeltaMessage DEF DeltaActions, KnownActions
<1>5. CASE changed = {} /\ m = [type |-> "sync.user.delta",
                                action |-> "remove",
                                delta |-> Restrict(old, gone)]
  BY <1>1, <1>2, <1>5, DeltaMessage DEF DeltaActions, KnownActions
<1> QED
  BY <1>3, <1>4, <1>5 DEF UserPushes

-----------------------------------------------------------------------------
(* The mailbox. *)

\* An event leaves what it makes dirty in its field.
LEMMA ApplyFields ==
  ASSUME NEW m \in Mailboxes, NEW e \in Events,
         m.dirtyConfig => m.config # Nil,
         m.dirtyDevices => m.deviceUsers # Nil
  PROVE  /\ Apply(m, e).dirtyConfig => Apply(m, e).config # Nil
         /\ Apply(m, e).dirtyDevices => Apply(m, e).deviceUsers # Nil
<1>1. CASE \E cfg \in Configs : Apply(m, e) = ApplyConfig(m, cfg)
  BY <1>1, NilAssumption DEF ApplyConfig, Mailboxes
<1>2. CASE \E us \in UserLists : Apply(m, e) = ApplyUsers(m, us)
  BY <1>2 DEF ApplyUsers, Mailboxes
<1>3. CASE \E ds \in DeviceSets : Apply(m, e) = ApplyDevices(m, ds)
  BY <1>3, NilAssumption DEF ApplyDevices, Mailboxes
<1>4. CASE \E action \in DeltaActions, d \in UserLists \ {EmptyList} :
              Apply(m, e) = ApplyDelta(m, action, d)
  BY <1>4 DEF ApplyDelta, Mailboxes
<1> QED
  BY <1>1, <1>2, <1>3, <1>4, ApplyCases

\* What a drain leaves: its fields, and nothing pending if it was ready.
LEMMA DrainFields ==
  ASSUME NEW m \in Mailboxes,
         m.dirtyConfig => m.config # Nil,
         m.dirtyDevices => m.deviceUsers # Nil
  PROVE  /\ DrainIfReady(m).dirtyConfig => DrainIfReady(m).config # Nil
         /\ DrainIfReady(m).dirtyDevices => DrainIfReady(m).deviceUsers # Nil
         /\ DrainIfReady(m).ready => ~Pending(DrainIfReady(m))
<1>1. CASE m.ready
  BY <1>1 DEF DrainIfReady, Mailboxes, Pending, HasConfig, HasDevices
<1>2. CASE ~m.ready
  BY <1>2 DEF DrainIfReady
<1> QED
  BY <1>1, <1>2 DEF Mailboxes

-----------------------------------------------------------------------------
(* The inductive invariant: the panel and the WebSocket. *)

\* A node that has not booted satisfies the invariant.
LEMMA InitIInv == Init => IInv
<1> SUFFICES ASSUME Init PROVE IInv
  OBVIOUS
<1>1. mb \in Mailboxes /\ ~Pending(mb) /\ DirtyFieldsPresent
  BY DEF Init, NewNodeMailbox, Mailboxes, Pending, DirtyFieldsPresent
<1>2. Stopped \in Kernels /\ ~Stopped.running
  BY StoppedType
<1>3. node \in Nodes /\ RunsItsConfig(node)
  BY <1>2, EmptyListType DEF Init, NewNode, Nodes, RunsItsConfig
<1>4. pull \in Pulls /\ pull.pc = "idle"
  BY DEF Init, NoPull, Pulls
<1>5. budget \in [changes : 0..MaxChanges, drops : 0..MaxDrops,
                  rest : 0..MaxRestFaults]
  BY SyncAssumption DEF Init
<1>6. panel \in [config : PanelConfigs, users : PanelLists,
                 devices : DeviceSets \cup {Nil}]
  BY DEF Init, PanelConfigs
<1>7. /\ wsQ \in Seq(Messages) /\ Len(wsQ) <= MaxInFlight
      /\ statuses \in Seq(BOOLEAN) /\ Len(statuses) <= StatusCap
      /\ results \in Seq(PullResults) /\ Len(results) <= 1
  BY SyncAssumption DEF Init
<1>8. link \in BOOLEAN
  BY SyncAssumption DEF Init
<1>9. /\ tags \in [config : PanelConfigs \cup {Nil},
                   users : UserLists \cup {Nil}]
      /\ phase \in {"config", "users", "start", "run", "exited"}
  BY DEF Init
<1>10. token \in BOOLEAN /\ resync \in Resyncs
  BY DEF Init, Resyncs
<1>11. backoff \in 0..8
  BY DEF Init
<1>12. TypeOK
  BY <1>1, <1>3, <1>4, <1>5, <1>6, <1>7, <1>8, <1>9,
     <1>10, <1>11 DEF TypeOK
<1> QED
  BY <1>1, <1>3, <1>4, <1>12
     DEF Init, IInv, BootOrder, PullOrder, BackoffIsOneTick,
         MailboxIsAnnounced, KernelServesConfig

\* What an action that leaves the service, its pull and its mailbox alone
\* preserves.
LEMMA ServiceUntouched ==
  ASSUME IInv, UNCHANGED <<mbVars, tags, pullVars, serviceVars>>
  PROVE  /\ BootOrder' /\ PullOrder' /\ BackoffIsOneTick'
         /\ DirtyFieldsPresent' /\ MailboxIsAnnounced'
         /\ ~KernelMayFail => KernelServesConfig'
  BY DEF IInv, mbVars, pullVars, serviceVars, BootOrder, PullOrder,
         BackoffIsOneTick, DirtyFieldsPresent, MailboxIsAnnounced,
         KernelServesConfig

\* A change at the panel.
LEMMA ChangeIInv ==
  ASSUME IInv,
         NEW new \in [config : PanelConfigs, users : PanelLists,
                      devices : DeviceSets \cup {Nil}],
         NEW messages \in SUBSET Messages,
         Change(new, messages)
  PROVE  IInv'
<1>1. UNCHANGED <<mbVars, tags, pullVars, serviceVars>>
  BY DEF Change
<1>2. wsQ' \in Seq(Messages) /\ Len(wsQ') <= MaxInFlight
  <2>1. wsQ \in Seq(Messages) /\ Len(wsQ) <= MaxInFlight
    BY DEF IInv, TypeOK
  <2>2. CASE link
    <3>1. PICK m \in messages : wsQ' = Append(wsQ, m)
      BY <2>2 DEF Change
    <3>2. Len(wsQ) < MaxInFlight
      BY <2>2 DEF Change
    <3> QED
      BY <2>1, <3>1, <3>2, SyncAssumption, AppendProperties
  <2>3. CASE ~link
    BY <2>1, <2>3 DEF Change
  <2> QED
    BY <2>2, <2>3
<1>3. budget' \in [changes : 0..MaxChanges, drops : 0..MaxDrops,
                   rest : 0..MaxRestFaults]
  <2>1. budget \in [changes : 0..MaxChanges, drops : 0..MaxDrops,
                    rest : 0..MaxRestFaults]
    BY DEF IInv, TypeOK
  <2>2. /\ budget.changes > 0
        /\ budget' = [budget EXCEPT !.changes = budget.changes - 1]
    BY DEF Change
  <2>3. budget.changes - 1 \in 0..MaxChanges
    BY <2>1, <2>2, SyncAssumption
  <2> QED
    BY <2>1, <2>2, <2>3
<1>4. TypeOK'
  BY <1>2, <1>3
     DEF IInv, TypeOK, Change, mbVars, pullVars, serviceVars
<1> QED
  BY <1>1, <1>4, ServiceUntouched DEF IInv

\* Whatever the panel changes.
LEMMA PanelIInv == ASSUME IInv, Panel PROVE IInv'
<1>1. /\ panel \in [config : PanelConfigs, users : PanelLists,
                     devices : DeviceSets \cup {Nil}]
      /\ PanelLists \subseteq UserLists
  BY DEF IInv, TypeOK, PanelLists
<1>2. ASSUME NEW cfg \in PanelConfigs, ChangeConfig(cfg) PROVE IInv'
  <2>1. [panel EXCEPT !.config = cfg]
           \in [config : PanelConfigs, users : PanelLists,
                devices : DeviceSets \cup {Nil}]
    BY <1>1
  <2>2. {[type |-> "sync.config", config |-> cfg]} \in SUBSET Messages
    BY ConfigMessage
  <2> QED
    BY <1>2, <2>1, <2>2, ChangeIInv DEF ChangeConfig
<1>3. ASSUME NEW us \in PanelLists, ChangeUsers(us) PROVE IInv'
  <2>1. [panel EXCEPT !.users = us]
           \in [config : PanelConfigs, users : PanelLists,
                devices : DeviceSets \cup {Nil}]
    BY <1>1
  <2>2. UserPushes(panel.users, us) \in SUBSET Messages
    BY <1>1, <1>3, UserPushesType DEF ChangeUsers
  <2> QED
    BY <1>3, <2>1, <2>2, ChangeIInv DEF ChangeUsers
<1>4. ASSUME NEW ds \in DeviceSets, ChangeDevices(ds) PROVE IInv'
  <2>1. [panel EXCEPT !.devices = ds]
           \in [config : PanelConfigs, users : PanelLists,
                devices : DeviceSets \cup {Nil}]
    BY <1>1
  <2>2. {[type |-> "sync.devices", devices |-> ds]} \in SUBSET Messages
    BY DevicesMessage
  <2> QED
    BY <1>4, <2>1, <2>2, ChangeIInv DEF ChangeDevices
<1> QED
  BY <1>2, <1>3, <1>4 DEF Panel

\* onWSStatus keeps wsStatusCh within its capacity.
LEMMA AnnounceType ==
  ASSUME TypeOK, NEW connected \in BOOLEAN, Announce(connected)
  PROVE  statuses' \in Seq(BOOLEAN) /\ Len(statuses') <= StatusCap
<1>1. statuses \in Seq(BOOLEAN) /\ Len(statuses) <= StatusCap
  BY DEF TypeOK
<1>2. /\ Append(statuses, connected) \in Seq(BOOLEAN)
      /\ Len(Append(statuses, connected)) = Len(statuses) + 1
  BY <1>1, AppendProperties
<1>3. CASE /\ Len(statuses) < StatusCap
           /\ statuses' = Append(statuses, connected)
  <2>1. Len(statuses) \in Nat
    BY <1>1, LenProperties
  <2> QED
    BY <1>2, <1>3, <2>1, SyncAssumption
<1>4. CASE statuses' = statuses
  BY <1>1, <1>4
<1> QED
  BY <1>3, <1>4 DEF Announce

\* The WebSocket breaks.
LEMMA DisconnectIInv == ASSUME IInv, Disconnect PROVE IInv'
<1>1. UNCHANGED <<mbVars, tags, pullVars, serviceVars>>
  BY DEF Disconnect
<1>2. statuses' \in Seq(BOOLEAN) /\ Len(statuses') <= StatusCap
  BY AnnounceType DEF Disconnect, IInv
<1>3. wsQ' \in Seq(Messages) /\ Len(wsQ') <= MaxInFlight
  <2>1. wsQ \in Seq(Messages) /\ Len(wsQ) <= MaxInFlight
    BY DEF IInv, TypeOK
  <2>2. CASE wsQ' = <<>>
    BY <2>2, SyncAssumption
  <2>3. CASE wsQ # <<>> /\ wsQ' = <<Head(wsQ)>>
    <3>1. Head(wsQ) \in Messages /\ Len(wsQ) >= 1
      BY <2>1, <2>3, HeadTailProperties
    <3> QED
      BY <2>1, <2>3, <3>1, SyncAssumption
  <2> QED
    BY <2>2, <2>3 DEF Disconnect
<1>4. budget' \in [changes : 0..MaxChanges, drops : 0..MaxDrops,
                   rest : 0..MaxRestFaults]
  <2>1. budget.drops - 1 \in 0..MaxDrops
    BY SyncAssumption DEF IInv, TypeOK, Disconnect
  <2> QED
    BY <2>1 DEF IInv, TypeOK, Disconnect
<1>5. TypeOK'
  BY <1>2, <1>3, <1>4
     DEF IInv, TypeOK, Disconnect, mbVars, pullVars, serviceVars
<1> QED
  BY <1>1, <1>5, ServiceUntouched DEF IInv

\* The WebSocket connects, with or without a greeting.
LEMMA ConnectIInv == ASSUME IInv, Connect PROVE IInv'
<1>1. UNCHANGED <<mbVars, tags, pullVars, serviceVars>>
  BY DEF Connect
<1>2. statuses' \in Seq(BOOLEAN) /\ Len(statuses') <= StatusCap
  BY AnnounceType DEF Connect, IInv
<1>3. wsQ' \in Seq(Messages) /\ Len(wsQ') <= MaxInFlight
  <2> DEFINE greeting == <<[type |-> "sync.config", config |-> panel.config],
                           [type |-> "sync.users", users |-> panel.users]>>
  <2>1. wsQ \in Seq(Messages) /\ Len(wsQ) <= MaxInFlight
    BY DEF IInv, TypeOK
  <2>2. panel.config \in PanelConfigs /\ panel.users \in UserLists
    BY DEF IInv, TypeOK, PanelLists
  <2>3. greeting \in Seq(Messages) /\ Len(greeting) = 2
    BY <2>2, ConfigMessage, UsersMessage
  <2>4. CASE wsQ' = wsQ \o greeting /\ Len(wsQ) + 2 <= MaxInFlight
    <3> HIDE DEF greeting
    <3>1. /\ wsQ \o greeting \in Seq(Messages)
          /\ Len(wsQ \o greeting) = Len(wsQ) + Len(greeting)
      BY <2>1, <2>3, ConcatProperties
    <3> QED
      BY <2>3, <2>4, <3>1
  <2>5. CASE wsQ' = wsQ
    BY <2>1, <2>5
  <2> QED
    BY <2>4, <2>5 DEF Connect
<1>4. TypeOK'
  BY <1>2, <1>3
     DEF IInv, TypeOK, Connect, mbVars, pullVars, serviceVars
<1> QED
  BY <1>1, <1>4, ServiceUntouched DEF IInv

\* A message reaches the mailbox, or is dropped: its token goes with it.
LEMMA DeliverIInv == ASSUME IInv, Deliver PROVE IInv'
<1>1. wsQ' \in Seq(Messages) /\ Len(wsQ') <= MaxInFlight
  BY HeadTailProperties, SyncAssumption DEF IInv, TypeOK, Deliver
<1>2. mb' \in Mailboxes /\ token' \in BOOLEAN
  BY ApplyType DEF IInv, TypeOK, Deliver, mbVars
<1>3. DirtyFieldsPresent'
  BY ApplyFields DEF IInv, TypeOK, Deliver, mbVars, DirtyFieldsPresent
<1>4. MailboxIsAnnounced'
  BY DEF IInv, Deliver, mbVars, MailboxIsAnnounced
<1>5. UNCHANGED <<panel, link, statuses, tags, pull, backoff, results, phase,
                  node, resync, budget>>
  BY DEF Deliver, pullVars, serviceVars
<1>6. TypeOK'
  BY <1>1, <1>2, <1>5 DEF IInv, TypeOK
<1> QED
  BY <1>3, <1>4, <1>5, <1>6
     DEF IInv, BootOrder, PullOrder, BackoffIsOneTick, KernelServesConfig

-----------------------------------------------------------------------------
(* The inductive invariant: initialSetup. *)

\* The first half of the snapshot.
LEMMA BootConfigIInv == ASSUME IInv, BootConfig PROVE IInv'
<1>1. /\ tags' = [tags EXCEPT !.config = panel.config]
      /\ phase = "config" /\ phase' = "users"
      /\ UNCHANGED <<panel, link, wsQ, statuses, mb, token, pull, backoff,
                     results, node, resync, budget>>
  BY DEF BootConfig, wsVars, mbVars, pullVars
<1>2. panel.config \in PanelConfigs
  BY DEF IInv, TypeOK
<1>3. tags' \in [config : PanelConfigs \cup {Nil},
                 users : UserLists \cup {Nil}]
  BY <1>1, <1>2 DEF IInv, TypeOK
<1>4. TypeOK'
  BY <1>1, <1>3 DEF IInv, TypeOK
<1>5. tags'.config # Nil
  BY <1>1, <1>2, NilAssumption, SyncAssumption
     DEF IInv, TypeOK, PanelConfigs
<1> QED
  BY <1>1, <1>4, <1>5
     DEF IInv, BootOrder, PullOrder, BackoffIsOneTick, DirtyFieldsPresent,
         MailboxIsAnnounced, KernelServesConfig

\* The second half: a configuration that fails normalisation ends the
\* service, any other is one of Configs.
LEMMA BootUsersIInv == ASSUME IInv, BootUsers PROVE IInv'
<1>1. /\ tags' = [tags EXCEPT !.users = panel.users]
      /\ phase = "users"
      /\ phase' = IF tags.config \in Malformed THEN "exited" ELSE "start"
      /\ UNCHANGED <<panel, link, wsQ, statuses, mb, token, pull, backoff,
                     results, node, resync, budget>>
  BY DEF BootUsers, wsVars, mbVars, pullVars
<1>2. panel.users \in UserLists /\ panel.users # Nil
  BY NilAssumption DEF IInv, TypeOK, PanelLists
<1>3. tags' \in [config : PanelConfigs \cup {Nil},
                 users : UserLists \cup {Nil}]
  BY <1>1, <1>2 DEF IInv, TypeOK
<1>4. TypeOK'
  BY <1>1, <1>3 DEF IInv, TypeOK
<1>5. phase' = "start" => tags'.config \in Configs /\ tags'.users # Nil
  BY <1>1, <1>2 DEF IInv, TypeOK, BootOrder, PanelConfigs
<1> QED
  BY <1>1, <1>4, <1>5
     DEF IInv, BootOrder, PullOrder, BackoffIsOneTick, DirtyFieldsPresent,
         MailboxIsAnnounced, KernelServesConfig

\* Run returns an error.
LEMMA ExitIInv ==
  ASSUME IInv, Exit, pull.pc = "idle",
         UNCHANGED <<panel, wsVars, tags, pullVars, results>>,
         budget' \in [changes : 0..MaxChanges, drops : 0..MaxDrops,
                      rest : 0..MaxRestFaults]
  PROVE  IInv'
<1>1. TypeOK'
  BY DEF IInv, TypeOK, Exit, wsVars, mbVars, pullVars
<1> QED
  BY <1>1
     DEF IInv, Exit, mbVars, pullVars, BootOrder, PullOrder,
         BackoffIsOneTick, DirtyFieldsPresent, MailboxIsAnnounced,
         KernelServesConfig

\* A request of the boot fails.
LEMMA BootFailsIInv == ASSUME IInv, BootFails PROVE IInv'
<1>1. budget.rest - 1 \in 0..MaxRestFaults
  BY SyncAssumption DEF IInv, TypeOK, BootFails
<1>2. budget' \in [changes : 0..MaxChanges, drops : 0..MaxDrops,
                   rest : 0..MaxRestFaults]
  BY <1>1 DEF IInv, TypeOK, BootFails
<1>3. pull.pc = "idle"
  BY DEF IInv, BootOrder, BootFails
<1> QED
  BY <1>2, <1>3, ExitIInv DEF BootFails

\* The first configuration is refused, or the first start fails.
LEMMA BootRefusedIInv == ASSUME IInv, BootRefused PROVE IInv'
<1>1. budget' \in [changes : 0..MaxChanges, drops : 0..MaxDrops,
                   rest : 0..MaxRestFaults]
  BY DEF IInv, TypeOK, BootRefused
<1>2. pull.pc = "idle"
  BY DEF IInv, BootOrder, BootRefused
<1> QED
  BY <1>1, <1>2, ExitIInv DEF BootRefused

\* pullViaAPIAsync: a pull starts only when none is active and nothing backs
\* off.
LEMMA StartPullType ==
  ASSUME pull \in Pulls, BackoffIsOneTick, PullOrder,
         NEW cfg \in Configs \cup {Nil}, StartPull(cfg)
  PROVE  pull' \in Pulls /\ BackoffIsOneTick' /\ PullOrder'
<1>1. CASE UNCHANGED pullVars
  BY <1>1 DEF pullVars, BackoffIsOneTick, PullOrder
<1>2. CASE pull.pc = "idle" /\ backoff > 0 /\ backoff' = backoff - 1
           /\ UNCHANGED pull
  BY <1>2 DEF BackoffIsOneTick, PullOrder
<1>3. CASE /\ pull.pc = "idle" /\ backoff = 0 /\ UNCHANGED backoff
           /\ pull' = [NoPull EXCEPT !.pc = "config", !.seen = cfg]
  BY <1>3 DEF NoPull, Pulls, BackoffIsOneTick, PullOrder
<1> QED
  BY <1>1, <1>2, <1>3 DEF StartPull

\* drainMachineMailbox, on a mailbox whose dirty fields are there.
LEMMA DrainSound ==
  ASSUME NEW m \in Mailboxes, NEW n, Sound(n),
         m.dirtyConfig => m.config # Nil,
         m.dirtyDevices => m.deviceUsers # Nil,
         pull \in Pulls, BackoffIsOneTick, PullOrder, resync \in Resyncs,
         Drain(m, n)
  PROVE  /\ mb' \in Mailboxes /\ DirtyFieldsPresent'
         /\ mb'.ready => ~Pending(mb')
         /\ Sound(node')
         /\ resync' \in Resyncs
         /\ pull' \in Pulls /\ BackoffIsOneTick' /\ PullOrder'
<1>1. mb' = DrainIfReady(m) /\ node' \in Drained(n, MailboxState(m))
  BY DEF Drain
<1>2. /\ mb' \in Mailboxes /\ DirtyFieldsPresent'
      /\ mb'.ready => ~Pending(mb')
  BY <1>1, DrainIfReadyType, DrainFields DEF DirtyFieldsPresent
<1>3. Sound(node')
  BY <1>1, DrainedSound
<1>4. node'.config \in Configs \cup {Nil}
  BY <1>3 DEF Sound, Nodes
<1>5. CASE /\ resync' = IF pull.pc = "ending" /\ results = <<>>
                        THEN "lapsed" ELSE "asked"
           /\ StartPull(node'.config)
  BY <1>2, <1>3, <1>4, <1>5, StartPullType DEF Resyncs
<1>6. CASE UNCHANGED <<resync, pullVars>>
  BY <1>2, <1>3, <1>6 DEF pullVars, BackoffIsOneTick, PullOrder
<1> QED
  BY <1>5, <1>6 DEF Drain

\* The service boots: the mailbox is seeded, marked ready and drained after
\* the kernel started.
LEMMA BootStartIInv == ASSUME IInv, BootStart PROVE IInv'
<1>1. /\ phase = "start" /\ phase' = "run"
      /\ UNCHANGED <<panel, link, wsQ, statuses, tags, results, budget>>
  BY DEF BootStart, wsVars
<1>2. PICK n \in BootOutcomes(tags.config, tags.users) :
        IF WsEnabled
        THEN /\ Drain(MarkReady(SeedBaseline(mb, CopyOntoNil(n.users),
                                             n.config)), n)
             /\ token' = TRUE
        ELSE node' = n /\ UNCHANGED <<mbVars, resync, pullVars>>
  BY DEF BootStart
<1>3. tags.config \in Configs /\ tags.users \in UserLists
  BY <1>1 DEF IInv, TypeOK, BootOrder
<1>4. Sound(n) /\ n.config = tags.config /\ n.users = tags.users
  BY <1>3, BootOutcomesSound
<1>5. /\ mb \in Mailboxes /\ pull \in Pulls /\ resync \in Resyncs
      /\ token \in BOOLEAN
      /\ mb.dirtyConfig => mb.config # Nil
      /\ mb.dirtyDevices => mb.deviceUsers # Nil
      /\ BackoffIsOneTick /\ PullOrder
  BY DEF IInv, TypeOK, DirtyFieldsPresent
<1>6. /\ mb' \in Mailboxes /\ token' \in BOOLEAN
      /\ DirtyFieldsPresent' /\ MailboxIsAnnounced'
      /\ Sound(node')
      /\ resync' \in Resyncs
      /\ pull' \in Pulls /\ BackoffIsOneTick' /\ PullOrder'
  <2>1. CASE WsEnabled
    <3> DEFINE list == CopyOntoNil(n.users)
               seeded == SeedBaseline(mb, list, n.config)
               m == MarkReady(seeded)
    <3>1. list \in UserLists \cup {Nil}
      BY <1>3, <1>4, CopyOntoNilType
    <3>2. seeded \in Mailboxes
      BY <1>3, <1>4, <1>5, <3>1, SeedBaselineType
    <3>3. /\ seeded.dirtyConfig => seeded.config # Nil
          /\ seeded.dirtyDevices => seeded.deviceUsers # Nil
      <4> HIDE DEF list
      <4> QED
        BY <1>5 DEF SeedBaseline, Mailboxes
    <3> HIDE DEF seeded
    <3>4. m \in Mailboxes
      BY <3>2, MarkReadyType
    <3>5. /\ m.dirtyConfig => m.config # Nil
          /\ m.dirtyDevices => m.deviceUsers # Nil
      BY <3>2, <3>3 DEF MarkReady, Mailboxes
    <3>6. Drain(m, n) /\ token' = TRUE
      BY <1>2, <2>1 DEF seeded
    <3> HIDE DEF m
    <3> QED
      BY <1>4, <1>5, <3>4, <3>5, <3>6, DrainSound DEF MailboxIsAnnounced
  <2>2. CASE ~WsEnabled
    BY <1>2, <1>4, <1>5, <2>2
       DEF mbVars, pullVars, DirtyFieldsPresent, MailboxIsAnnounced,
           BackoffIsOneTick, PullOrder, IInv
  <2> QED
    BY <2>1, <2>2
<1>7. TypeOK'
  BY <1>1, <1>6 DEF IInv, TypeOK, Sound, BackoffIsOneTick
<1> QED
  BY <1>1, <1>6, <1>7 DEF IInv, BootOrder, Sound, KernelServesConfig

-----------------------------------------------------------------------------
(* The inductive invariant: the pull goroutine. *)

\* What a step of the pull goroutine leaves alone, it preserves.
LEMMA PullStepIInv ==
  ASSUME IInv, phase = "run",
         UNCHANGED <<panel, wsVars, mbVars, serviceVars>>,
         tags' \in [config : PanelConfigs \cup {Nil},
                    users : UserLists \cup {Nil}],
         results' \in Seq(PullResults), Len(results') <= 1,
         budget' \in [changes : 0..MaxChanges, drops : 0..MaxDrops,
                      rest : 0..MaxRestFaults],
         pull' \in Pulls, BackoffIsOneTick', PullOrder'
  PROVE  IInv'
<1>1. TypeOK'
  BY DEF IInv, TypeOK, wsVars, mbVars, serviceVars, BackoffIsOneTick
<1> QED
  BY <1>1
     DEF IInv, mbVars, serviceVars, BootOrder, DirtyFieldsPresent,
         MailboxIsAnnounced, KernelServesConfig

\* GetConfig.
LEMMA PullConfigIInv == ASSUME IInv, PullConfig PROVE IInv'
<1>1. pull.pc = "config" /\ phase = "run" /\ backoff = 0
  BY DEF IInv, BootOrder, PullOrder, PullConfig
<1>2. panel.config \in PanelConfigs
  BY DEF IInv, TypeOK
<1>3. pull' \in Pulls
  BY <1>2 DEF IInv, TypeOK, PullConfig, Pulls, Answer
<1>4. tags' \in [config : PanelConfigs \cup {Nil},
                 users : UserLists \cup {Nil}]
  BY <1>2 DEF IInv, TypeOK, PullConfig
<1>5. pull'.pc = "users" /\ backoff' = 0
  BY <1>1 DEF IInv, TypeOK, PullConfig, Pulls
<1>6. BackoffIsOneTick' /\ PullOrder'
  BY <1>5 DEF BackoffIsOneTick, PullOrder
<1>7. UNCHANGED <<panel, wsVars, mbVars, serviceVars, results, budget>>
  BY DEF PullConfig
<1> QED
  BY <1>1, <1>3, <1>4, <1>6, <1>7, PullStepIInv DEF IInv, TypeOK

\* A failing pull: it ran with no back-off, so one tick is skipped.
LEMMA PullFailsType ==
  ASSUME pull.pc \in {"config", "users"}, PullOrder, PullFails
  PROVE  pull' \in Pulls /\ BackoffIsOneTick' /\ PullOrder'
<1>1. backoff = 0 /\ pull' = Ending /\ backoff' = Doubled
  BY DEF PullOrder, PullFails
<1>2. backoff' = 1
  BY <1>1 DEF Doubled
<1> QED
  BY <1>1, <1>2 DEF Ending, NoPull, Pulls, BackoffIsOneTick, PullOrder

\* GetUsers, and the normalisation of the configuration.
LEMMA PullUsersIInv == ASSUME IInv, PullUsers PROVE IInv'
<1>1. pull.pc = "users" /\ phase = "run"
  BY DEF IInv, BootOrder, PullUsers
<1>2. panel.users \in UserLists
  BY DEF IInv, TypeOK, PanelLists
<1>3. tags' \in [config : PanelConfigs \cup {Nil},
                 users : UserLists \cup {Nil}]
  BY <1>2 DEF IInv, TypeOK, PullUsers
<1>4. pull' \in Pulls /\ BackoffIsOneTick' /\ PullOrder'
  <2>1. CASE pull.config \in Malformed
    BY <1>1, <2>1, PullFailsType DEF PullUsers, IInv
  <2>2. CASE pull.config \notin Malformed
    <3> DEFINE cfg == IF pull.config = pull.seen THEN Nil ELSE pull.config
               us == Answer(tags.users, panel.users)
    <3>1. /\ pull' = [pull EXCEPT !.pc = "send", !.config = cfg,
                                  !.users = us]
          /\ backoff' = 0
      BY <2>2 DEF PullUsers
    <3>2. /\ cfg \in PanelConfigs \cup {Nil} /\ cfg \notin Malformed
          /\ us \in UserLists \cup {Nil}
      BY <1>2, <2>2, SyncAssumption DEF IInv, TypeOK, Pulls, Answer
    <3> HIDE DEF cfg, us
    <3>3. pull' \in Pulls /\ pull'.pc = "send" /\ pull'.config \notin Malformed
      BY <3>1, <3>2 DEF IInv, TypeOK, Pulls
    <3> QED
      BY <3>1, <3>3 DEF BackoffIsOneTick, PullOrder
  <2> QED
    BY <2>1, <2>2
<1>5. UNCHANGED <<panel, wsVars, mbVars, serviceVars, results, budget>>
  BY DEF PullUsers
<1> QED
  BY <1>1, <1>3, <1>4, <1>5, PullStepIInv DEF IInv, TypeOK

\* A request of the pull fails.
LEMMA PullRequestFailsIInv == ASSUME IInv, PullRequestFails PROVE IInv'
<1>1. pull.pc \in {"config", "users"} /\ phase = "run"
  BY DEF IInv, BootOrder, PullRequestFails
<1>2. pull' \in Pulls /\ BackoffIsOneTick' /\ PullOrder'
  BY <1>1, PullFailsType DEF IInv, PullRequestFails
<1>3. budget.rest - 1 \in 0..MaxRestFaults
  BY SyncAssumption DEF IInv, TypeOK, PullRequestFails
<1>4. budget' \in [changes : 0..MaxChanges, drops : 0..MaxDrops,
                   rest : 0..MaxRestFaults]
  BY <1>3 DEF IInv, TypeOK, PullRequestFails
<1>5. UNCHANGED <<panel, wsVars, mbVars, serviceVars, tags, results>>
  BY DEF PullRequestFails
<1> QED
  BY <1>1, <1>2, <1>4, <1>5, PullStepIInv DEF IInv, TypeOK

\* The result is handed to the select loop.
LEMMA PullSendIInv == ASSUME IInv, PullSend PROVE IInv'
<1>1. pull.pc = "send" /\ phase = "run"
  BY DEF IInv, BootOrder, PullSend
<1>2. [config |-> pull.config, users |-> pull.users] \in PullResults
  BY <1>1 DEF IInv, TypeOK, Pulls, PullOrder, PanelConfigs, PullResults
<1>3. results' \in Seq(PullResults) /\ Len(results') <= 1
  BY <1>2 DEF PullSend
<1>4. pull' \in Pulls /\ PullOrder'
  BY DEF PullSend, Ending, NoPull, Pulls, PullOrder
<1>5. BackoffIsOneTick'
  BY DEF IInv, PullSend, BackoffIsOneTick
<1>6. UNCHANGED <<panel, wsVars, mbVars, serviceVars, tags, budget>>
  BY DEF PullSend
<1> QED
  BY <1>1, <1>3, <1>4, <1>5, <1>6, PullStepIInv DEF IInv, TypeOK

\* The goroutine ends: pullActive is false again.
LEMMA PullEndsIInv == ASSUME IInv, PullEnds PROVE IInv'
<1>1. pull' \in Pulls /\ PullOrder' /\ BackoffIsOneTick'
  BY DEF IInv, PullEnds, NoPull, Pulls, PullOrder, BackoffIsOneTick
<1>2. phase = "run"
  BY DEF IInv, BootOrder, PullEnds
<1>3. UNCHANGED <<panel, wsVars, mbVars, serviceVars, tags, results, budget>>
  BY DEF PullEnds
<1> QED
  BY <1>1, <1>2, <1>3, PullStepIInv DEF IInv, TypeOK

-----------------------------------------------------------------------------
(* The inductive invariant: the select loop. *)

\* The poll ticker.
LEMMA PullTickIInv == ASSUME IInv, PullTick PROVE IInv'
<1>1. node.config \in Configs \cup {Nil}
  BY DEF IInv, TypeOK, Nodes
<1>2. pull' \in Pulls /\ BackoffIsOneTick' /\ PullOrder'
  BY <1>1, StartPullType DEF IInv, TypeOK, PullTick
<1>3. /\ phase = "run"
      /\ UNCHANGED <<panel, wsVars, mbVars, serviceVars, tags, results,
                     budget>>
  BY DEF PullTick
<1> QED
  BY <1>2, <1>3, PullStepIInv DEF IInv, TypeOK

\* case result := <-s.pullResults
LEMMA ApplyPullResultIInv == ASSUME IInv, ApplyPullResult PROVE IInv'
<1>1. Head(results) \in PullResults
  BY HeadTailProperties DEF IInv, TypeOK, ApplyPullResult
<1>2. Sound(node)
  BY DEF IInv, TypeOK, Sound, KernelServesConfig
<1>3. Sound(node')
  BY <1>1, <1>2, PullAppliedSound DEF ApplyPullResult
<1>4. results' \in Seq(PullResults) /\ Len(results') <= 1
  BY DEF ApplyPullResult
<1>5. resync' \in Resyncs
  BY DEF ApplyPullResult, Resyncs
<1>6. UNCHANGED <<panel, link, wsQ, statuses, mb, token, tags, pull, backoff,
                  phase, budget>>
  BY DEF ApplyPullResult, wsVars, mbVars, pullVars
<1>7. TypeOK'
  BY <1>3, <1>4, <1>5, <1>6 DEF IInv, TypeOK, Sound
<1> QED
  BY <1>3, <1>6, <1>7
     DEF IInv, BootOrder, PullOrder, BackoffIsOneTick, DirtyFieldsPresent,
         MailboxIsAnnounced, KernelServesConfig, Sound

\* case status := <-s.wsStatusCh
LEMMA HandleStatusIInv == ASSUME IInv, HandleStatus PROVE IInv'
<1>1. statuses' \in Seq(BOOLEAN) /\ Len(statuses') <= StatusCap
  <2>1. /\ statuses \in Seq(BOOLEAN) /\ statuses # <<>>
        /\ statuses' = Tail(statuses)
        /\ Len(statuses) \in Nat /\ Len(statuses) <= StatusCap
    BY LenProperties DEF IInv, TypeOK, HandleStatus
  <2>2. Tail(statuses) \in Seq(BOOLEAN)
    BY <2>1, HeadTailProperties
  <2>3. Len(Tail(statuses)) = Len(statuses) - 1
    BY <2>1, HeadTailProperties
  <2>4. StatusCap \in Nat
    BY SyncAssumption
  <2> QED
    BY <2>1, <2>2, <2>3, <2>4
<1>2. Sound(node)
  BY DEF IInv, TypeOK, Sound, KernelServesConfig
<1>3. Sound(node')
  BY <1>2, DevicesSound DEF HandleStatus
<1>4. node.config \in Configs \cup {Nil}
  BY DEF IInv, TypeOK, Nodes
<1>5. pull' \in Pulls /\ BackoffIsOneTick' /\ PullOrder'
  BY <1>4, StartPullType DEF IInv, TypeOK, HandleStatus
<1>6. /\ phase = "run"
      /\ UNCHANGED <<panel, link, wsQ, mb, token, tags, results, phase,
                     resync, budget>>
  BY DEF HandleStatus, mbVars
<1>7. TypeOK'
  BY <1>1, <1>3, <1>5, <1>6 DEF IInv, TypeOK, Sound, BackoffIsOneTick
<1> QED
  BY <1>3, <1>5, <1>6, <1>7
     DEF IInv, BootOrder, DirtyFieldsPresent, MailboxIsAnnounced,
         KernelServesConfig, Sound

\* case <-s.machineMailboxCh
LEMMA DrainMailboxIInv == ASSUME IInv, DrainMailbox PROVE IInv'
<1>1. /\ mb \in Mailboxes /\ pull \in Pulls /\ resync \in Resyncs
      /\ mb.dirtyConfig => mb.config # Nil
      /\ mb.dirtyDevices => mb.deviceUsers # Nil
      /\ BackoffIsOneTick /\ PullOrder
  BY DEF IInv, TypeOK, DirtyFieldsPresent
<1>2. Sound(node)
  BY DEF IInv, TypeOK, Sound, KernelServesConfig
<1>3. /\ phase = "run" /\ token' = FALSE /\ Drain(mb, node)
      /\ UNCHANGED <<panel, link, wsQ, statuses, tags, results, phase,
                     budget>>
  BY DEF DrainMailbox, wsVars
<1>4. /\ mb' \in Mailboxes /\ DirtyFieldsPresent'
      /\ mb'.ready => ~Pending(mb')
      /\ Sound(node')
      /\ resync' \in Resyncs
      /\ pull' \in Pulls /\ BackoffIsOneTick' /\ PullOrder'
  BY <1>1, <1>2, <1>3, DrainSound
<1>5. TypeOK'
  <2>1. token' \in BOOLEAN
    BY <1>3
  <2>2. backoff' \in 0..8
    BY <1>4 DEF BackoffIsOneTick
  <2> QED
    BY <1>3, <1>4, <2>1, <2>2 DEF IInv, TypeOK, Sound
<1> QED
  BY <1>3, <1>4, <1>5
     DEF IInv, BootOrder, MailboxIsAnnounced, KernelServesConfig, Sound

\* Every step preserves the invariant.
LEMMA NextIInv == IInv /\ [Next]_vars => IInv'
<1> SUFFICES ASSUME IInv, [Next]_vars PROVE IInv'
  OBVIOUS
<1>1. CASE Panel
  BY <1>1, PanelIInv
<1>2. CASE Connect \/ Disconnect \/ Deliver
  BY <1>2, ConnectIInv, DisconnectIInv, DeliverIInv
<1>3. CASE Boot
  BY <1>3, BootConfigIInv, BootUsersIInv, BootFailsIInv, BootStartIInv,
     BootRefusedIInv DEF Boot
<1>4. CASE Pull
  BY <1>4, PullConfigIInv, PullUsersIInv, PullRequestFailsIInv, PullSendIInv,
     PullEndsIInv DEF Pull
<1>5. CASE PullTick \/ ApplyPullResult \/ HandleStatus \/ DrainMailbox
  BY <1>5, PullTickIInv, ApplyPullResultIInv, HandleStatusIInv,
     DrainMailboxIInv
<1>6. CASE UNCHANGED vars
  BY <1>6
     DEF vars, IInv, TypeOK, BootOrder, PullOrder, BackoffIsOneTick,
         DirtyFieldsPresent, MailboxIsAnnounced, KernelServesConfig
<1> QED
  BY <1>1, <1>2, <1>3, <1>4, <1>5, <1>6 DEF Next

-----------------------------------------------------------------------------
\* The inductive invariant holds in every reachable state of a node.
THEOREM SyncInvariant == Spec => []IInv
  BY InitIInv, NextIInv, PTL DEF Spec

\* A node, its mailbox, its channels and its pull keep their types: among
\* them, pullResults never holds more than one result, wsStatusCh never more
\* than its capacity, and no malformed configuration reaches the service.
THEOREM SyncTypeCorrect == Spec => []TypeOK
<1>1. IInv => TypeOK
  BY DEF IInv
<1> QED
  BY <1>1, SyncInvariant, PTL

\* apiBackoff is called exponential, but a pull only ever fails after the
\* ticks it skips have brought the counter to zero: however often requests
\* fail, one tick is skipped and never more (service.go: shouldSkip,
\* onFailure, pullViaAPIAsync).
THEOREM SyncBackoffIsOneTick == Spec => []BackoffIsOneTick
<1>1. IInv => BackoffIsOneTick
  BY DEF IInv
<1> QED
  BY <1>1, SyncInvariant, PTL

\* As long as no start of xray fails, a running kernel runs with the
\* configuration the service holds, whatever pushes, pulls, disconnections
\* and failing requests overtake one another.
THEOREM SyncKernelServesConfig ==
  ASSUME ~KernelMayFail
  PROVE  Spec => []KernelServesConfig
<1>1. IInv => KernelServesConfig
  BY DEF IInv
<1> QED
  BY <1>1, SyncInvariant, PTL

-----------------------------------------------------------------------------
(* KernelServesNode and UserUpdateIsServed: what the kernel admits.        *)

\* A swap from the list the kernel admits arrives at the new one.
LEMMA SwappedExact ==
  ASSUME NEW old \in UserLists, NEW new \in UserLists
  PROVE  Swapped(old, old, new) = new
<1> DEFINE kept == Restrict(old, DOMAIN old \ ToRemove(old, new))
<1>1. PICK S \in SUBSET UserIds : old \in [S -> Specs]
  BY DEF UserLists
<1>2. PICK T \in SUBSET UserIds : new \in [T -> Specs]
  BY DEF UserLists
<1>3. /\ DOMAIN kept = {id \in S \cap T : new[id] = old[id]}
      /\ \A id \in DOMAIN kept : kept[id] = old[id]
  BY <1>1, <1>2 DEF Restrict, ToRemove
<1>4. ToAdd(old, new) = {id \in T : id \notin S \/ new[id] # old[id]}
  BY <1>1, <1>2 DEF ToAdd
<1>5. Swapped(old, old, new)
        = [id \in DOMAIN kept \cup ToAdd(old, new) |->
             IF id \in DOMAIN kept THEN kept[id] ELSE new[id]]
  BY DEF Swapped
<1> HIDE DEF kept
<1>6. DOMAIN kept \cup ToAdd(old, new) = T
  BY <1>3, <1>4
<1>7. Swapped(old, old, new) = [id \in T |-> new[id]]
  BY <1>3, <1>5, <1>6
<1> QED
  BY <1>2, <1>7

\* UpdateUsers brings the kernel to the new list, if it kept the list it
\* admits; and if it never swaps, to a new base too.
LEMMA KernelUpdatedServes ==
  ASSUME NEW k \in Kernels, NEW us \in UserLists, k.running,
         k.users = k.accounts
  PROVE  LET new == KernelUpdated(k, us)
         IN  /\ new.running /\ new.users = us /\ new.accounts = us
             /\ HotSwap = {} /\ k.base = k.accounts => new.base = us
<1>1. CASE WithoutRestart(k, us)
  <2>1. k.users \in UserLists
    BY DEF Kernels
  <2>2. Swapped(k.accounts, k.users, us) = us
    BY <2>1, SwappedExact
  <2>3. KernelUpdated(k, us) = [k EXCEPT !.users = us, !.accounts = us]
    BY <1>1, <2>2 DEF KernelUpdated
  <2>4. HotSwap = {} => k.users = us
    BY <1>1 DEF WithoutRestart
  <2> QED
    BY <2>3, <2>4 DEF Kernels
<1>2. CASE ~WithoutRestart(k, us)
  BY <1>2 DEF KernelUpdated, Started
<1> QED
  BY <1>1, <1>2

\* A start gives the kernel the node's configuration and the list.
LEMMA RestartedServes ==
  ASSUME NEW n \in Nodes, NEW us \in UserLists
  PROVE  LET m == Restarted(n, us)
         IN  /\ m \in Nodes /\ m.config = n.config /\ m.users = n.users
             /\ m.kernel.running /\ m.kernel.config = n.config
             /\ m.kernel.base = us /\ m.kernel.users = us
             /\ m.kernel.accounts = us
<1>1. Restarted(n, us)
        = [n EXCEPT !.kernel = Started(n.kernel, n.config, us)]
  BY DEF Restarted
<1>2. /\ Started(n.kernel, n.config, us).running
      /\ Started(n.kernel, n.config, us).config = n.config
      /\ Started(n.kernel, n.config, us).base = us
      /\ Started(n.kernel, n.config, us).users = us
      /\ Started(n.kernel, n.config, us).accounts = us
  BY DEF Started
<1> QED
  BY <1>1, <1>2, RestartedSound DEF Nodes

\* ensureRunning: the node as it is, or restarted with its list.
LEMMA EnsureRunningCases ==
  ASSUME NEW n \in Nodes, NEW m \in EnsureRunning(n)
  PROVE  m = n \/ m = Restarted(n, n.users)
  BY KernelFailure DEF EnsureRunning

\* What a node is while its kernel has not swapped; without failing starts it
\* serves the node.
Kept(n) ==
  /\ n \in Nodes
  /\ NeverSwapped(n)
  /\ ~KernelMayFail => Serves(n)

\* A list is recorded, and with it the kernel updated.
Recorded(n, us) == [n EXCEPT !.users = us]
Updated(n, us) ==
  [n EXCEPT !.users = us, !.kernel = KernelUpdated(n.kernel, us)]

\* The outcomes of applyUserUpdate.
UserUpdateEnds(n, us, m) ==
  \E e \in {n, Restarted(n, n.users)} :
    \/ ~e.kernel.running /\ m = Recorded(e, us)
    \/ e.kernel.running /\ m = Updated(e, us)
    \/ KernelMayFail /\ m = e
    \/ KernelMayFail /\ m = Recorded(Restarted(e, us), us)

LEMMA ApplyUserUpdateCases ==
  ASSUME NEW n \in Nodes, NEW us \in UserLists,
         NEW m \in ApplyUserUpdate(n, us)
  PROVE  UserUpdateEnds(n, us, m)
<1>1. PICK e \in EnsureRunning(n) :
        \/ ~e.kernel.running /\ m = [e EXCEPT !.users = us]
        \/ /\ e.kernel.running
           /\ \/ m = [e EXCEPT !.users = us,
                               !.kernel = KernelUpdated(e.kernel, us)]
              \/ m \in IfKernelFails(
                         {[Restarted(e, us) EXCEPT !.users = us], e})
  BY DEF ApplyUserUpdate
<1>2. e \in {n, Restarted(n, n.users)}
  BY EnsureRunningCases
<1>3. ASSUME m \in IfKernelFails({[Restarted(e, us) EXCEPT !.users = us], e})
      PROVE  /\ KernelMayFail
             /\ m = e \/ m = [Restarted(e, us) EXCEPT !.users = us]
  BY <1>3, KernelFailure
<1> QED
  BY <1>1, <1>2, <1>3 DEF UserUpdateEnds, Recorded, Updated

\* The node after a user list was recorded and its kernel updated.
LEMMA UpdatedServes ==
  ASSUME NEW e \in Nodes, NEW us \in UserLists, e.kernel.running,
         e.kernel.users = e.kernel.accounts
  PROVE  LET m == Updated(e, us)
         IN  /\ m \in Nodes /\ m.config = e.config /\ m.users = us
             /\ m.kernel.running /\ m.kernel.config = e.kernel.config
             /\ m.kernel.users = us /\ m.kernel.accounts = us
             /\ HotSwap = {} /\ e.kernel.base = e.kernel.accounts =>
                  m.kernel.base = us
<1>1. e.kernel \in Kernels
  BY DEF Nodes
<1> DEFINE k == KernelUpdated(e.kernel, us)
<1>2. /\ k \in Kernels /\ k.config = e.kernel.config
      /\ k.running /\ k.users = us /\ k.accounts = us
      /\ HotSwap = {} /\ e.kernel.base = e.kernel.accounts => k.base = us
  BY <1>1, KernelUpdatedType, KernelUpdatedServes
<1> HIDE DEF k
<1>3. Updated(e, us) = [e EXCEPT !.users = us, !.kernel = k]
  BY DEF k, Updated
<1> QED
  BY <1>2, <1>3 DEF Nodes

\* applyUserUpdate, if no start fails: the kernel comes to serve the list.
LEMMA ApplyUserUpdateServes ==
  ASSUME NEW n \in Nodes, Serves(n), ~KernelMayFail, NEW us \in UserLists,
         NEW m \in ApplyUserUpdate(n, us)
  PROVE  m \in Nodes /\ Serves(m) /\ m.users = us /\ m.config = n.config
<1>1. PICK e \in {n, Restarted(n, n.users)} :
        \/ ~e.kernel.running /\ m = Recorded(e, us)
        \/ e.kernel.running /\ m = Updated(e, us)
        \/ KernelMayFail /\ m = e
        \/ KernelMayFail /\ m = Recorded(Restarted(e, us), us)
  BY ApplyUserUpdateCases DEF UserUpdateEnds
<1>2. n.users \in UserLists
  BY DEF Nodes
<1>3. e \in Nodes /\ Serves(e) /\ e.config = n.config
  BY <1>2, RestartedServes DEF Serves
<1>4. CASE ~e.kernel.running /\ m = Recorded(e, us)
  BY <1>3, <1>4 DEF Recorded, Nodes, Serves
<1>5. CASE e.kernel.running /\ m = Updated(e, us)
  <2>1. e.kernel.users = e.kernel.accounts /\ e.kernel.config = e.config
    BY <1>3, <1>5 DEF Serves
  <2>2. /\ m \in Nodes /\ m.config = e.config /\ m.users = us
        /\ m.kernel.config = e.kernel.config
        /\ m.kernel.users = us /\ m.kernel.accounts = us
    BY <1>3, <1>5, <2>1, UpdatedServes
  <2> QED
    BY <1>3, <2>1, <2>2 DEF Serves
<1> QED
  BY <1>1, <1>4, <1>5

\* applyUserUpdate without hot swaps, whatever fails: the kernel admits the
\* list it records, or the list is the previous one.
LEMMA ApplyUserUpdateKept ==
  ASSUME NEW n, Kept(n), HotSwap = {}, NEW us \in UserLists,
         NEW m \in ApplyUserUpdate(n, us)
  PROVE  /\ Kept(m)
         /\ m.users # n.users /\ m.kernel.running =>
              m.kernel.accounts = m.users
<1>1. PICK e \in {n, Restarted(n, n.users)} :
        \/ ~e.kernel.running /\ m = Recorded(e, us)
        \/ e.kernel.running /\ m = Updated(e, us)
        \/ KernelMayFail /\ m = e
        \/ KernelMayFail /\ m = Recorded(Restarted(e, us), us)
  BY ApplyUserUpdateCases DEF Kept, UserUpdateEnds
<1>2. n \in Nodes /\ n.users \in UserLists
  BY DEF Kept, Nodes
<1>3. e \in Nodes /\ NeverSwapped(e) /\ e.users = n.users
  BY <1>2, RestartedServes DEF Kept, NeverSwapped
<1>4. ~KernelMayFail => m \in Nodes /\ Serves(m)
  BY <1>2, ApplyUserUpdateServes DEF Kept
<1>5. CASE ~e.kernel.running /\ m = Recorded(e, us)
  BY <1>3, <1>4, <1>5 DEF Recorded, Nodes, Kept, NeverSwapped
<1>6. CASE e.kernel.running /\ m = Updated(e, us)
  <2>1. /\ e.kernel.users = e.kernel.accounts
        /\ e.kernel.base = e.kernel.accounts
    BY <1>3, <1>6 DEF NeverSwapped
  <2>2. /\ m \in Nodes /\ m.users = us
        /\ m.kernel.users = us /\ m.kernel.accounts = us
        /\ m.kernel.base = us
    BY <1>3, <1>6, <2>1, UpdatedServes
  <2> QED
    BY <1>4, <2>2 DEF Kept, NeverSwapped
<1>7. CASE KernelMayFail /\ m = e
  BY <1>3, <1>7 DEF Kept
<1>8. CASE KernelMayFail /\ m = Recorded(Restarted(e, us), us)
  <2> DEFINE r == Restarted(e, us)
  <2>1. /\ r \in Nodes /\ r.kernel.base = us /\ r.kernel.users = us
        /\ r.kernel.accounts = us
    BY <1>3, RestartedServes
  <2> HIDE DEF r
  <2>2. m = [r EXCEPT !.users = us]
    BY <1>8 DEF r, Recorded
  <2>3. m \in Nodes /\ m.kernel = r.kernel /\ m.users = us
    BY <2>1, <2>2 DEF Nodes
  <2> QED
    BY <1>8, <2>1, <2>3 DEF Kept, NeverSwapped
<1> QED
  BY <1>1, <1>5, <1>6, <1>7, <1>8

\* applyChanges, if no start fails and the hash is not misleading: the kernel
\* comes to serve the node, freshly started or with its base.
LEMMA ApplyChangesServes ==
  ASSUME NEW n \in Nodes, n.config # Nil, ~KernelMayFail,
         n.kernel.running /\ SameHash(n.kernel, n.config, n.users) =>
           n.kernel.base = n.kernel.accounts,
         NEW m \in ApplyChanges(n)
  PROVE  /\ m \in Nodes /\ Serves(m) /\ Unswapped(m)
         /\ m.config = n.config /\ m.users = n.users
<1>1. n.users \in UserLists /\ n.kernel \in Kernels
  BY DEF Nodes
<1>2. CASE n.users = EmptyList
  BY <1>2, StoppedType DEF ApplyChanges, Serves, Unswapped, Nodes
<1>3. CASE /\ n.users # EmptyList
           /\ n.kernel.running /\ SameHash(n.kernel, n.config, n.users)
  <2>1. m = [n EXCEPT !.kernel.users = n.users]
    BY <1>3 DEF ApplyChanges
  <2>2. /\ m \in Nodes /\ m.config = n.config /\ m.users = n.users
        /\ m.kernel.users = n.users
        /\ m.kernel.config = n.kernel.config
        /\ m.kernel.base = n.kernel.base
        /\ m.kernel.accounts = n.kernel.accounts
    BY <1>1, <2>1 DEF Nodes, Kernels
  <2>3. n.kernel.config = n.config /\ n.kernel.base = n.users
    BY <1>3 DEF SameHash
  <2> QED
    BY <1>3, <2>2, <2>3 DEF Serves, Unswapped
<1>4. CASE /\ n.users # EmptyList
           /\ ~(n.kernel.running /\ SameHash(n.kernel, n.config, n.users))
  <2>1. m = Restarted(n, n.users)
    BY <1>4, KernelFailure DEF ApplyChanges
  <2> QED
    BY <1>1, <2>1, RestartedServes DEF Serves, Unswapped
<1> QED
  BY <1>2, <1>3, <1>4

\* applyChanges without hot swaps.
LEMMA ApplyChangesKept ==
  ASSUME NEW n \in Nodes, n.config # Nil, NeverSwapped(n),
         NEW m \in ApplyChanges(n)
  PROVE  Kept(m)
<1>1. n.users \in UserLists /\ n.kernel \in Kernels
  BY DEF Nodes
<1>2. ~KernelMayFail => m \in Nodes /\ Serves(m)
  BY ApplyChangesServes DEF NeverSwapped
<1>3. CASE n.users = EmptyList
  BY <1>2, <1>3, StoppedType DEF ApplyChanges, Kept, NeverSwapped, Nodes
<1>4. CASE /\ n.users # EmptyList
           /\ n.kernel.running /\ SameHash(n.kernel, n.config, n.users)
  <2>1. m = [n EXCEPT !.kernel.users = n.users]
    BY <1>4 DEF ApplyChanges
  <2>2. /\ m \in Nodes /\ m.kernel.users = n.users
        /\ m.kernel.base = n.kernel.base
        /\ m.kernel.accounts = n.kernel.accounts
    BY <1>1, <2>1 DEF Nodes, Kernels
  <2>3. n.kernel.base = n.users
    BY <1>4 DEF SameHash
  <2> QED
    BY <1>2, <1>4, <2>2, <2>3 DEF Kept, NeverSwapped
<1>5. CASE /\ n.users # EmptyList
           /\ ~(n.kernel.running /\ SameHash(n.kernel, n.config, n.users))
  <2>1. m = Restarted(n, n.users) \/ m = n
    BY <1>5, KernelFailure DEF ApplyChanges
  <2> QED
    BY <1>1, <1>2, <2>1, RestartedServes DEF Kept, NeverSwapped
<1> QED
  BY <1>3, <1>4, <1>5

\* handleWSEvent and drainMachineMailbox without hot swaps.
LEMMA OnSyncConfigKept ==
  ASSUME NEW n, Kept(n), NEW cfg \in Configs, NEW m \in OnSyncConfig(n, cfg)
  PROVE  Kept(m)
<1>1. CASE m = n
  BY <1>1
<1>2. CASE m \in ApplyChanges([n EXCEPT !.config = cfg])
  <2> DEFINE c == [n EXCEPT !.config = cfg]
  <2>1. c \in Nodes /\ c.config # Nil /\ c.kernel = n.kernel
    BY NilAssumption DEF Kept, Nodes
  <2>2. NeverSwapped(c)
    BY <2>1 DEF Kept, NeverSwapped
  <2> QED
    BY <1>2, <2>1, <2>2, ApplyChangesKept
<1> QED
  BY <1>1, <1>2 DEF OnSyncConfig

\* The remote devices do not take part.
LEMMA DevicesKept ==
  ASSUME NEW n \in Nodes, NEW ds \in DeviceSets \cup {Nil}
  PROVE  LET m == [n EXCEPT !.kernel.devices = ds]
         IN  /\ m \in Nodes
             /\ NeverSwapped(n) => NeverSwapped(m)
             /\ Serves(n) => Serves(m)
             /\ Unswapped(n) => Unswapped(m)
             /\ m.config = n.config /\ m.users = n.users
<1> DEFINE m == [n EXCEPT !.kernel.devices = ds]
<1>1. /\ m \in Nodes /\ m.config = n.config /\ m.users = n.users
      /\ m.kernel.running = n.kernel.running
      /\ m.kernel.config = n.kernel.config
      /\ m.kernel.base = n.kernel.base
      /\ m.kernel.users = n.kernel.users
      /\ m.kernel.accounts = n.kernel.accounts
  BY DEF Nodes, Kernels
<1> HIDE DEF m
<1>2. /\ NeverSwapped(n) => NeverSwapped(m)
      /\ Serves(n) => Serves(m)
      /\ Unswapped(n) => Unswapped(m)
  BY <1>1 DEF NeverSwapped, Serves, Unswapped
<1> QED
  BY <1>1, <1>2 DEF m

LEMMA DrainedKept ==
  ASSUME NEW n, Kept(n), HotSwap = {}, NEW box \in Mailboxes,
         NEW m \in Drained(n, MailboxState(box))
  PROVE  Kept(m)
<1> DEFINE s == MailboxState(box)
<1>1. /\ s.HasConfig => s.Config \in Configs
      /\ s.Users \in UserLists \cup {Nil}
      /\ s.HasDevices => s.DeviceUsers \in DeviceSets
  BY MailboxStateType
<1> HIDE DEF s
<1> DEFINE afterConfig == IF s.HasConfig THEN OnSyncConfig(n, s.Config)
                          ELSE {n}
           afterUsers(a) == IF s.HasUsers THEN OnSyncUsers(a, s.Users)
                            ELSE {a}
<1>2. PICK a \in afterConfig : \E b \in afterUsers(a) :
         m = IF s.HasDevices THEN OnSyncDevices(b, s.DeviceUsers) ELSE b
  BY DEF Drained, s
<1>3. Kept(a)
  BY <1>1, <1>2, OnSyncConfigKept
<1>4. PICK b \in afterUsers(a) :
         m = IF s.HasDevices THEN OnSyncDevices(b, s.DeviceUsers) ELSE b
  BY <1>2
<1>5. Kept(b)
  BY <1>1, <1>3, <1>4, ApplyUserUpdateKept DEF OnSyncUsers
<1>6. m = b \/ \E ds \in DeviceSets : m = [b EXCEPT !.kernel.devices = ds]
  BY <1>1, <1>4 DEF OnSyncDevices
<1> QED
  BY <1>5, <1>6, DevicesKept DEF Kept

\* applyPullResult: what it makes of a node without hot swaps, and what it
\* makes of it without failing starts, if its configuration is news.
LEMMA PullAppliedKept ==
  ASSUME NEW n, Kept(n), HotSwap = {}, NEW r \in PullResults,
         NEW m \in PullApplied(n, r)
  PROVE  /\ Kept(m)
         /\ r.config = Nil /\ m.users # n.users /\ m.kernel.running =>
              m.kernel.accounts = m.users
<1> DEFINE newConfig == r.config # Nil /\ r.config \notin Unsupported
           newUsers == r.users # Nil /\ r.users # n.users
           list == IF newUsers THEN r.users ELSE n.users
<1>1. /\ newConfig => r.config \in Configs
      /\ newUsers => r.users \in UserLists
      /\ list \in UserLists
  BY DEF PullResults, Kept, Nodes
<1>2. CASE newConfig
  <2> DEFINE c == [n EXCEPT !.config = r.config, !.users = list]
  <2>1. m \in ApplyChanges(c)
    BY <1>2 DEF PullApplied
  <2>2. c \in Nodes /\ c.config # Nil /\ c.kernel = n.kernel
    BY <1>1, <1>2 DEF Kept, Nodes
  <2>3. NeverSwapped(c)
    BY <2>2 DEF Kept, NeverSwapped
  <2> QED
    BY <1>2, <2>1, <2>2, <2>3, ApplyChangesKept
<1>3. CASE ~newConfig /\ newUsers
  <2>1. m \in ApplyUserUpdate(n, r.users)
    BY <1>3 DEF PullApplied
  <2> QED
    BY <1>1, <1>3, <2>1, ApplyUserUpdateKept
<1>4. CASE ~newConfig /\ ~newUsers
  BY <1>4 DEF PullApplied
<1> QED
  BY <1>2, <1>3, <1>4

LEMMA PullAppliedServes ==
  ASSUME NEW n \in Nodes, Serves(n), ~KernelMayFail, NEW r \in PullResults,
         r.config # Nil => r.config # n.config \/ Unswapped(n),
         NEW m \in PullApplied(n, r)
  PROVE  /\ m \in Nodes /\ Serves(m)
         /\ m.config = n.config \/ Unswapped(m)
<1> DEFINE newConfig == r.config # Nil /\ r.config \notin Unsupported
           newUsers == r.users # Nil /\ r.users # n.users
           list == IF newUsers THEN r.users ELSE n.users
<1>1. /\ newConfig => r.config \in Configs
      /\ newUsers => r.users \in UserLists
      /\ list \in UserLists
  BY DEF PullResults, Nodes
<1>2. CASE newConfig
  <2> DEFINE c == [n EXCEPT !.config = r.config, !.users = list]
  <2>1. m \in ApplyChanges(c)
    BY <1>2 DEF PullApplied
  <2>2. /\ c \in Nodes /\ c.config # Nil
        /\ c.config = r.config /\ c.kernel = n.kernel
    BY <1>1, <1>2 DEF Nodes
  <2> HIDE DEF c
  <2>3. c.kernel.running /\ SameHash(c.kernel, c.config, c.users) =>
          c.kernel.base = c.kernel.accounts
    BY <1>2, <2>2 DEF SameHash, Serves, Unswapped
  <2> QED
    BY <2>1, <2>2, <2>3, ApplyChangesServes
<1>3. CASE ~newConfig /\ newUsers
  <2>1. m \in ApplyUserUpdate(n, r.users)
    BY <1>3 DEF PullApplied
  <2> QED
    BY <1>1, <1>3, <2>1, ApplyUserUpdateServes
<1>4. CASE ~newConfig /\ ~newUsers
  BY <1>4 DEF PullApplied
<1> QED
  BY <1>2, <1>3, <1>4

\* initialSetup: the kernel is stopped, or freshly started.
LEMMA BootOutcomesServe ==
  ASSUME NEW cfg \in Configs, NEW us \in UserLists,
         NEW m \in BootOutcomes(cfg, us)
  PROVE  Kept(m) /\ Serves(m) /\ Unswapped(m)
<1> DEFINE n == [config |-> cfg, users |-> us, kernel |-> Stopped]
<1>1. n \in Nodes
  BY StoppedType DEF Nodes
<1>2. CASE m = n
  BY <1>1, <1>2, StoppedType DEF Kept, NeverSwapped, Serves, Unswapped
<1>3. CASE m = Restarted(n, us)
  BY <1>1, <1>3, RestartedServes DEF Kept, NeverSwapped, Serves, Unswapped
<1> QED
  BY <1>2, <1>3 DEF BootOutcomes

-----------------------------------------------------------------------------
(* KernelServesNode and UserUpdateIsServed: the steps.                     *)

LEMMA InitServing == Init => ServingInv
<1> SUFFICES ASSUME Init PROVE ServingInv
  OBVIOUS
<1>1. ~node.kernel.running
  BY StoppedType DEF Init, NewNode
<1>2. OnlyPulls
  BY SyncAssumption DEF Init, OnlyPulls
<1>3. ResultIsNews /\ PullIsNews
  BY DEF Init, NoPull, ResultIsNews, PullIsNews
<1> QED
  BY <1>1, <1>2, <1>3 DEF ServingInv, NeverSwapped, Serves

\* A step that leaves the node, the results and the pull alone.
LEMMA NodeUntouched ==
  ASSUME ServingInv, UNCHANGED <<node, results, pull>>, OnlyPulls'
  PROVE  ServingInv'
  BY DEF ServingInv, ResultIsNews, PullIsNews

\* Changes at the panel, the WebSocket, and the first requests.
LEMMA OutsideServing ==
  ASSUME ServingInv,
         \/ Panel \/ Disconnect \/ Connect \/ Deliver
         \/ BootConfig \/ BootUsers \/ BootFails \/ BootRefused
  PROVE  ServingInv'
<1>1. UNCHANGED <<node, results, pull>>
  BY DEF Panel, ChangeConfig, ChangeUsers, ChangeDevices, Change, Disconnect,
         Connect, Deliver, BootConfig, BootUsers, BootFails, BootRefused,
         Exit, pullVars, serviceVars
<1>2. OnlyPulls'
  <2> SUFFICES ASSUME ~WsEnabled
               PROVE  ~link' /\ wsQ' = <<>> /\ statuses' = <<>> /\ ~token'
    BY DEF OnlyPulls
  <2>1. ~link /\ wsQ = <<>> /\ statuses = <<>> /\ ~token
    BY DEF ServingInv, OnlyPulls
  <2>2. CASE Panel
    BY <2>1, <2>2 DEF Panel, ChangeConfig, ChangeUsers, ChangeDevices,
                      Change, mbVars
  <2>3. CASE Disconnect \/ Connect \/ Deliver
    BY <2>1, <2>3 DEF Disconnect, Connect, Deliver
  <2>4. CASE BootConfig \/ BootUsers \/ BootFails \/ BootRefused
    BY <2>1, <2>4 DEF BootConfig, BootUsers, BootFails, BootRefused, Exit,
                      wsVars, mbVars
  <2> QED
    BY <2>2, <2>3, <2>4
<1> QED
  BY <1>1, <1>2, NodeUntouched

\* The service boots.
LEMMA BootStartServing ==
  ASSUME IInv, ServingInv, BootStart
  PROVE  ServingInv'
<1>1. /\ tags.config \in Configs /\ tags.users \in UserLists
      /\ pull.pc = "idle" /\ mb \in Mailboxes
  BY DEF IInv, TypeOK, BootOrder, BootStart
<1>2. PICK n \in BootOutcomes(tags.config, tags.users) :
        IF WsEnabled
        THEN /\ Drain(MarkReady(SeedBaseline(mb, CopyOntoNil(n.users),
                                             n.config)), n)
             /\ token' = TRUE
        ELSE node' = n /\ UNCHANGED <<mbVars, resync, pullVars>>
  BY DEF BootStart
<1>3. /\ Kept(n) /\ Serves(n) /\ Unswapped(n)
      /\ n.users \in UserLists /\ n.config \in Configs
  BY <1>1, BootOutcomesServe, BootOutcomesSound
<1>4. CASE ~WsEnabled
  <2>1. node' = n /\ UNCHANGED <<link, wsQ, statuses, token, pull, results>>
    BY <1>2, <1>4 DEF BootStart, wsVars, mbVars, pullVars
  <2> QED
    BY <1>1, <1>3, <1>4, <2>1
       DEF ServingInv, OnlyPulls, ResultIsNews, PullIsNews, Kept
<1>5. CASE WsEnabled
  <2> DEFINE box == MarkReady(SeedBaseline(mb, CopyOntoNil(n.users),
                                           n.config))
  <2>1. box \in Mailboxes
    <3>1. CopyOntoNil(n.users) \in UserLists \cup {Nil}
      BY <1>3, CopyOntoNilType
    <3>2. SeedBaseline(mb, CopyOntoNil(n.users), n.config) \in Mailboxes
      BY <1>1, <1>3, <3>1, SeedBaselineType
    <3> QED
      BY <3>2, MarkReadyType
  <2>2. node' \in Drained(n, MailboxState(box))
    BY <1>2, <1>5 DEF Drain
  <2> HIDE DEF box
  <2>3. HotSwap = {} => Kept(node')
    BY <1>3, <2>1, <2>2, DrainedKept
  <2> QED
    BY <1>5, <2>3 DEF ServingInv, OnlyPulls, Kept
<1> QED
  BY <1>4, <1>5

\* A pull starts with the configuration the service holds.
LEMMA StartPullServing ==
  ASSUME PullIsNews, ~WsEnabled, StartPull(node.config),
         UNCHANGED <<node, results>>
  PROVE  PullIsNews'
<1>1. \/ UNCHANGED pull
      \/ pull' = [NoPull EXCEPT !.pc = "config", !.seen = node.config]
  BY DEF StartPull, pullVars
<1> QED
  BY <1>1 DEF PullIsNews, NoPull

LEMMA PullTickServing ==
  ASSUME ServingInv, PullTick
  PROVE  ServingInv'
<1>1. UNCHANGED <<node, results, link, wsQ, statuses, token>>
  BY DEF PullTick, wsVars, mbVars, serviceVars
<1>2. ~WsEnabled /\ ~KernelMayFail => PullIsNews'
  BY <1>1, StartPullServing DEF PullTick, ServingInv
<1> QED
  BY <1>1, <1>2 DEF ServingInv, OnlyPulls, ResultIsNews

\* The pull goroutine leaves the node alone; what it sends is news.
LEMMA PullServing ==
  ASSUME IInv, ServingInv, Pull
  PROVE  ServingInv'
<1>1. UNCHANGED <<node, link, wsQ, statuses, token>>
  BY DEF Pull, PullConfig, PullUsers, PullRequestFails, PullSend, PullEnds,
         wsVars, mbVars, serviceVars
<1>2. pull \in Pulls
  BY DEF IInv, TypeOK
<1>3. ASSUME ResultIsNews, PullIsNews
      PROVE  ResultIsNews' /\ PullIsNews'
  <2>1. CASE PullConfig
    <3>1. /\ pull.pc = "config" /\ pull'.pc = "users"
          /\ pull'.seen = pull.seen /\ UNCHANGED results
      BY <1>2, <2>1 DEF PullConfig, Pulls
    <3> QED
      BY <1>1, <1>3, <3>1 DEF ResultIsNews, PullIsNews
  <2>2. CASE PullUsers /\ pull.config \notin Malformed
    <3>1. pull' = [pull EXCEPT
                     !.pc = "send",
                     !.config = IF pull.config = pull.seen THEN Nil
                                ELSE pull.config,
                     !.users = Answer(tags.users, panel.users)]
      BY <2>2 DEF PullUsers
    <3>2. /\ pull.pc = "users" /\ pull'.seen = pull.seen
          /\ pull'.config # Nil => pull'.config # pull'.seen
          /\ UNCHANGED results
      BY <1>2, <2>2, <3>1 DEF PullUsers, Pulls
    <3> QED
      BY <1>1, <1>3, <3>2 DEF ResultIsNews, PullIsNews
  <2>3. CASE \/ PullRequestFails
             \/ PullUsers /\ pull.config \in Malformed
    <3>1. pull' = Ending /\ UNCHANGED results
      BY <2>3 DEF PullRequestFails, PullUsers, PullFails
    <3> QED
      BY <1>1, <1>3, <3>1 DEF ResultIsNews, PullIsNews, Ending, NoPull
  <2>4. CASE PullSend
    <3>1. /\ pull.pc = "send" /\ pull' = Ending /\ results = <<>>
          /\ Head(results').config = pull.config
      BY <2>4 DEF PullSend
    <3> QED
      BY <1>1, <1>3, <3>1 DEF ResultIsNews, PullIsNews, Ending, NoPull
  <2>5. CASE PullEnds
    BY <1>1, <1>3, <2>5 DEF PullEnds, ResultIsNews, PullIsNews, NoPull
  <2> QED
    BY <2>1, <2>2, <2>3, <2>4, <2>5 DEF Pull
<1> QED
  BY <1>1, <1>3 DEF ServingInv, OnlyPulls

\* The service applies a result.
LEMMA ApplyPullResultServing ==
  ASSUME IInv, ServingInv, ApplyPullResult
  PROVE  ServingInv'
<1>1. /\ Head(results) \in PullResults /\ node \in Nodes
      /\ node' \in PullApplied(node, Head(results))
      /\ results # <<>> /\ results' = <<>>
      /\ UNCHANGED <<pull, link, wsQ, statuses, token>>
  BY HeadTailProperties
     DEF IInv, TypeOK, ApplyPullResult, wsVars, mbVars, pullVars
<1>2. HotSwap = {} => Kept(node')
  BY <1>1, PullAppliedKept DEF ServingInv, Kept
<1>3. ASSUME ~WsEnabled, ~KernelMayFail
      PROVE  Serves(node') /\ ResultIsNews' /\ PullIsNews'
  <2>1. /\ Serves(node')
        /\ node'.config = node.config \/ Unswapped(node')
    BY <1>1, <1>3, PullAppliedServes DEF ServingInv, ResultIsNews
  <2> QED
    BY <1>1, <1>3, <2>1 DEF ServingInv, ResultIsNews, PullIsNews
<1> QED
  BY <1>1, <1>2, <1>3 DEF ServingInv, OnlyPulls, Kept

\* The service drains its mailbox.
LEMMA DrainMailboxServing ==
  ASSUME IInv, ServingInv, DrainMailbox
  PROVE  ServingInv'
<1>1. WsEnabled /\ node' \in Drained(node, MailboxState(mb))
  BY DEF DrainMailbox, Drain, ServingInv, OnlyPulls
<1>2. HotSwap = {} => Kept(node')
  BY <1>1, DrainedKept DEF IInv, TypeOK, ServingInv, Kept
<1> QED
  BY <1>1, <1>2 DEF ServingInv, OnlyPulls, Kept

\* A change of connectivity clears the remote devices.
LEMMA HandleStatusServing ==
  ASSUME IInv, ServingInv, HandleStatus
  PROVE  ServingInv'
<1>1. WsEnabled
  BY DEF HandleStatus, ServingInv, OnlyPulls
<1>2. node' = node \/ node' = [node EXCEPT !.kernel.devices = Nil]
  BY DEF HandleStatus
<1>3. /\ NeverSwapped(node) => NeverSwapped(node')
      /\ Serves(node) => Serves(node')
  <2>1. node \in Nodes /\ Nil \in DeviceSets \cup {Nil}
    BY DEF IInv, TypeOK
  <2>2. CASE node' = [node EXCEPT !.kernel.devices = Nil]
    BY <2>1, <2>2, DevicesKept
  <2> QED
    BY <1>2, <2>2
<1> QED
  BY <1>1, <1>3 DEF ServingInv, OnlyPulls

LEMMA NextServing == IInv /\ ServingInv /\ [Next]_vars => ServingInv'
<1> SUFFICES ASSUME IInv, ServingInv, [Next]_vars PROVE ServingInv'
  OBVIOUS
<1>1. CASE \/ Panel \/ Disconnect \/ Connect \/ Deliver
           \/ BootConfig \/ BootUsers \/ BootFails \/ BootRefused
  BY <1>1, OutsideServing
<1>2. CASE BootStart
  BY <1>2, BootStartServing
<1>3. CASE Pull \/ PullTick
  BY <1>3, PullServing, PullTickServing
<1>4. CASE ApplyPullResult \/ HandleStatus \/ DrainMailbox
  BY <1>4, ApplyPullResultServing, HandleStatusServing, DrainMailboxServing
<1>5. CASE UNCHANGED vars
  BY <1>5, NodeUntouched DEF vars, ServingInv, OnlyPulls
<1> QED
  BY <1>1, <1>2, <1>3, <1>4, <1>5 DEF Next, Boot

\* If no start of xray fails, and either no protocol has a UserManager or the
\* panel offers no WebSocket, a running kernel has the node's configuration
\* and admits exactly the node's users.
THEOREM SyncKernelServesNode ==
  Spec => [](~KernelMayFail /\ (~WsEnabled \/ HotSwap = {}) =>
               KernelServesNode)
<1>1. ServingInv => (~KernelMayFail /\ (~WsEnabled \/ HotSwap = {}) =>
                       KernelServesNode)
  BY DEF ServingInv, Serves, KernelServesNode, KernelServesConfig,
         RunsItsConfig
<1> QED
  BY <1>1, InitIInv, NextIInv, InitServing, NextServing, PTL DEF Spec

\* Without hot swaps, and whatever starts fail, a user list that arrives
\* without a configuration is recorded only if the kernel comes to admit it.
THEOREM SyncUserUpdateIsServed ==
  ASSUME HotSwap = {}
  PROVE  Spec => UserUpdateIsServed
<1>1. IInv /\ ServingInv /\ [Next]_vars =>
        [/\ results # <<>> /\ results' = <<>>
         /\ Head(results).config = Nil
         /\ node'.users # node.users
         => (node'.kernel.running => node'.kernel.accounts = node'.users)]_vars
  <2> SUFFICES ASSUME IInv, ServingInv, [Next]_vars,
                      results # <<>>, results' = <<>>,
                      Head(results).config = Nil, node'.users # node.users,
                      node'.kernel.running
               PROVE  node'.kernel.accounts = node'.users
    OBVIOUS
  <2>1. ApplyPullResult
    <3>1. CASE Panel
      BY <3>1 DEF Panel, ChangeConfig, ChangeUsers, ChangeDevices, Change
    <3>2. CASE Disconnect \/ Connect \/ Deliver \/ Boot
      BY <3>2 DEF Disconnect, Connect, Deliver, Boot, BootConfig, BootUsers,
                  BootFails, BootStart, BootRefused
    <3>3. CASE Pull
      BY <3>3 DEF Pull, PullConfig, PullUsers, PullRequestFails, PullSend,
                  PullEnds
    <3>4. CASE PullTick \/ HandleStatus \/ DrainMailbox
      BY <3>4 DEF PullTick, HandleStatus, DrainMailbox
    <3>5. CASE UNCHANGED vars
      BY <3>5 DEF vars
    <3> QED
      BY <3>1, <3>2, <3>3, <3>4, <3>5 DEF Next
  <2>2. Head(results) \in PullResults /\ Kept(node)
    <3>1. node \in Nodes /\ results \in Seq(PullResults)
      BY DEF IInv, TypeOK
    <3> QED
      BY <3>1, HeadTailProperties DEF ServingInv, Kept
  <2>3. node' \in PullApplied(node, Head(results))
    BY <2>1 DEF ApplyPullResult
  <2> QED
    BY <2>2, <2>3, PullAppliedKept
<1> QED
  BY <1>1, InitIInv, NextIInv, InitServing, NextServing, PTL
     DEF Spec, UserUpdateIsServed

-----------------------------------------------------------------------------
(* BaselineIsCurrent: what the panel pushes, and what becomes of it.       *)

\* What is added or changed brings the old list to the new one, if nobody is
\* gone.
LEMMA AddExact ==
  ASSUME NEW old \in UserLists, NEW new \in UserLists,
         DOMAIN old \ DOMAIN new = {}
  PROVE  AddDelta(old, Restrict(new, ToAdd(old, new))) = new
<1> DEFINE d == Restrict(new, ToAdd(old, new))
<1>1. PICK S \in SUBSET UserIds : old \in [S -> Specs]
  BY DEF UserLists
<1>2. PICK T \in SUBSET UserIds : new \in [T -> Specs]
  BY DEF UserLists
<1>3. ToAdd(old, new) = {id \in T : id \notin S \/ new[id] # old[id]}
  BY <1>1, <1>2 DEF ToAdd
<1>4. /\ DOMAIN d = ToAdd(old, new)
      /\ \A id \in DOMAIN d : d[id] = new[id]
  BY <1>2, <1>3 DEF Restrict
<1> HIDE DEF d
<1>5. AddDelta(old, d) = [id \in S \cup DOMAIN d |->
                            IF id \in DOMAIN d THEN d[id] ELSE old[id]]
  BY <1>1 DEF AddDelta
<1>6. S \cup DOMAIN d = T
  BY <1>1, <1>2, <1>3, <1>4
<1>7. AddDelta(old, d) = [id \in T |-> new[id]]
  BY <1>1, <1>3, <1>4, <1>5, <1>6
<1>8. AddDelta(old, d) = new
  BY <1>2, <1>7
<1> QED
  BY <1>8 DEF d

\* Taking away who is gone brings the old list to the new one, if nobody is
\* added or changed.
LEMMA RemoveExact ==
  ASSUME NEW old \in UserLists, NEW new \in UserLists,
         ToAdd(old, new) = {}
  PROVE  SubtractDelta(old, Restrict(old, DOMAIN old \ DOMAIN new)) = new
<1> DEFINE gone == DOMAIN old \ DOMAIN new
           d == Restrict(old, gone)
<1>1. PICK S \in SUBSET UserIds : old \in [S -> Specs]
  BY DEF UserLists
<1>2. PICK T \in SUBSET UserIds : new \in [T -> Specs]
  BY DEF UserLists
<1>3. \A id \in T : id \in S /\ new[id] = old[id]
  BY <1>1, <1>2 DEF ToAdd
<1>4. DOMAIN d = S \ T
  BY <1>1, <1>2 DEF Restrict
<1> HIDE DEF d
<1>5. SubtractDelta(old, d) = [id \in S \ DOMAIN d |-> old[id]]
  BY <1>1, <1>4 DEF SubtractDelta, Restrict
<1>6. S \ DOMAIN d = T
  BY <1>3, <1>4
<1>7. SubtractDelta(old, d) = [id \in T |-> new[id]]
  BY <1>3, <1>5, <1>6
<1>8. SubtractDelta(old, d) = new
  BY <1>2, <1>7
<1> QED
  BY <1>8 DEF d

\* Whichever way the panel pushes a change, the message brings the old list
\* to the new one.
LEMMA PushLeads ==
  ASSUME NEW old \in UserLists, NEW new \in UserLists,
         NEW m \in UserPushes(old, new)
  PROVE  /\ After(old, m) = new
         /\ m.type = "sync.user.delta" => m.action \in KnownActions
<1> DEFINE changed == ToAdd(old, new)
           gone == DOMAIN old \ DOMAIN new
<1>1. CASE m = [type |-> "sync.users", users |-> new]
  BY <1>1 DEF After
<1>2. CASE gone = {} /\ m = [type |-> "sync.user.delta", action |-> "add",
                             delta |-> Restrict(new, changed)]
  <2>1. /\ m.type = "sync.user.delta" /\ m.action = "add"
        /\ m.delta = Restrict(new, changed)
    BY <1>2
  <2>2. After(old, m) = AddDelta(old, Restrict(new, changed))
    BY <2>1 DEF After, ReplayDelta
  <2> QED
    BY <1>2, <2>1, <2>2, AddExact DEF KnownActions
<1>3. CASE changed = {} /\ m = [type |-> "sync.user.delta",
                                action |-> "remove",
                                delta |-> Restrict(old, gone)]
  <2>1. /\ m.type = "sync.user.delta" /\ m.action = "remove"
        /\ m.delta = Restrict(old, gone)
    BY <1>3
  <2>2. After(old, m) = SubtractDelta(old, Restrict(old, gone))
    BY <2>1 DEF After, ReplayDelta
  <2> QED
    BY <1>3, <2>1, <2>2, RemoveExact DEF KnownActions
<1> QED
  BY <1>1, <1>2, <1>3 DEF UserPushes

\* With nothing in flight the lists are the same.
LEMMA LeadsNowhere ==
  ASSUME NEW us \in FilledLists
  PROVE  Leads(us, <<>>, us)
<1> DEFINE lists == [k \in 0..0 |-> us]
<1>1. /\ lists \in [0..Len(<<>>) -> FilledLists]
      /\ lists[0] = us /\ lists[Len(<<>>)] = us
      /\ \A k \in 1..Len(<<>>) : FALSE
  OBVIOUS
<1>2. DOMAIN <<>> = {}
  OBVIOUS
<1> QED
  BY <1>1, <1>2 DEF Leads

\* Another message in flight.
LEMMA LeadsAppend ==
  ASSUME NEW from, NEW to, NEW q \in Seq(Messages), Leads(from, q, to),
         NEW m \in Messages, After(to, m) \in FilledLists,
         m.type = "sync.user.delta" => m.action \in KnownActions
  PROVE  Leads(from, Append(q, m), After(to, m))
<1> DEFINE n == Len(q)
           p == Append(q, m)
<1>1. PICK lists \in [0..n -> FilledLists] :
          /\ lists[0] = from /\ lists[n] = to
          /\ \A k \in 1..n : lists[k] = After(lists[k - 1], q[k])
  BY DEF Leads
<1>2. /\ n \in Nat /\ Len(p) = n + 1 /\ DOMAIN p = 1..(n + 1)
      /\ p[n + 1] = m /\ \A k \in 1..n : p[k] = q[k]
      /\ DOMAIN q = 1..n
  BY AppendProperties, LenProperties
<1> DEFINE more == [k \in 0..(n + 1) |-> IF k = n + 1 THEN After(to, m)
                                         ELSE lists[k]]
<1> HIDE DEF n, p
<1>3. more \in [0..(n + 1) -> FilledLists]
  BY <1>1, <1>2
<1>4. more[0] = from /\ more[n + 1] = After(to, m)
  BY <1>1, <1>2
<1>5. ASSUME NEW k \in 1..(n + 1)
      PROVE  more[k] = After(more[k - 1], p[k])
  <2>1. CASE k = n + 1
    <3>1. more[k] = After(to, m) /\ more[k - 1] = lists[n] /\ p[k] = m
      BY <1>2, <2>1
    <3> QED
      BY <1>1, <3>1
  <2>2. CASE k # n + 1
    <3>1. k \in 1..n /\ k - 1 \in 0..n
      BY <1>2, <2>2
    <3>2. more[k] = lists[k] /\ more[k - 1] = lists[k - 1] /\ p[k] = q[k]
      BY <1>2, <3>1
    <3> QED
      BY <1>1, <3>1, <3>2
  <2> QED
    BY <2>1, <2>2
<1>6. \A k \in DOMAIN p : p[k].type = "sync.user.delta" =>
                            p[k].action \in KnownActions
  <2>1. \A k \in 1..n : q[k].type = "sync.user.delta" =>
                            q[k].action \in KnownActions
    BY <1>2 DEF Leads
  <2>2. \A k \in 1..(n + 1) : k = n + 1 \/ k \in 1..n
    BY <1>2
  <2> QED
    BY <1>2, <2>1, <2>2
<1> HIDE DEF more
<1>7. Leads(from, p, After(to, m))
  BY <1>2, <1>3, <1>4, <1>5, <1>6 DEF Leads
<1> QED
  BY <1>7 DEF p

\* The first message in flight is heard.
LEMMA LeadsTail ==
  ASSUME NEW from, NEW to, NEW q \in Seq(Messages), q # <<>>,
         Leads(from, q, to)
  PROVE  /\ from \in FilledLists
         /\ After(from, Head(q)) \in FilledLists
         /\ Head(q).type = "sync.user.delta" =>
              Head(q).action \in KnownActions
         /\ Leads(After(from, Head(q)), Tail(q), to)
<1> DEFINE n == Len(q)
           p == Tail(q)
<1>1. PICK lists \in [0..n -> FilledLists] :
          /\ lists[0] = from /\ lists[n] = to
          /\ \A k \in 1..n : lists[k] = After(lists[k - 1], q[k])
  BY DEF Leads
<1>2. /\ n \in Nat \ {0} /\ Len(p) = n - 1 /\ Head(q) = q[1]
      /\ DOMAIN q = 1..n /\ DOMAIN p = 1..(n - 1)
      /\ \A k \in 1..(n - 1) : p[k] = q[k + 1]
  BY HeadTailProperties, LenProperties, EmptySeq
<1> DEFINE less == [k \in 0..(n - 1) |-> lists[k + 1]]
<1> HIDE DEF n, p
<1>3. \A k \in 0..(n - 1) : k + 1 \in 0..n
  BY <1>2
<1>4. less \in [0..(n - 1) -> FilledLists]
  BY <1>1, <1>3
<1>5. lists[1] = After(from, Head(q)) /\ from \in FilledLists
      /\ lists[1] \in FilledLists
  <2>1. 1 \in 1..n /\ 1 - 1 = 0 /\ 0 \in 0..n /\ 1 \in 0..n
    BY <1>2
  <2> QED
    BY <1>1, <1>2, <2>1
<1>6. less[0] = lists[1] /\ less[n - 1] = to
  BY <1>1, <1>2
<1>7. ASSUME NEW k \in 1..(n - 1)
      PROVE  less[k] = After(less[k - 1], p[k])
  <2>1. /\ less[k] = lists[k + 1] /\ less[k - 1] = lists[k]
        /\ p[k] = q[k + 1]
    BY <1>2
  <2>2. k + 1 \in 1..n /\ (k + 1) - 1 = k
    BY <1>2
  <2>3. lists[k + 1] = After(lists[(k + 1) - 1], q[k + 1])
    BY <1>1, <2>2
  <2> QED
    BY <2>1, <2>2, <2>3
<1>8. \A k \in DOMAIN p : p[k].type = "sync.user.delta" =>
                            p[k].action \in KnownActions
  <2>1. \A k \in 1..n : q[k].type = "sync.user.delta" =>
                            q[k].action \in KnownActions
    BY <1>2 DEF Leads
  <2>2. \A k \in 1..(n - 1) : k + 1 \in 1..n
    BY <1>2
  <2> QED
    BY <1>2, <2>1, <2>2
<1>9. q[1].type = "sync.user.delta" => q[1].action \in KnownActions
  <2>1. 1 \in DOMAIN q
    BY <1>2
  <2> QED
    BY <2>1 DEF Leads
<1> HIDE DEF less
<1>10. Leads(lists[1], p, to)
  BY <1>2, <1>4, <1>6, <1>7, <1>8 DEF Leads
<1> QED
  BY <1>2, <1>5, <1>9, <1>10 DEF p

\* The mailbox follows: after an event it can replay, its list is the one the
\* event leads to, and is marked for the next drain if it has changed.
LEMMA ApplyFollows ==
  ASSUME NEW m \in Mailboxes, m.hasFullUserState, m.users \in FilledLists,
         NEW e \in Events,
         e.type = "sync.user.delta" => e.action \in KnownActions,
         After(m.users, e) \in FilledLists
  PROVE  LET a == Apply(m, e)
         IN  /\ a.users = After(m.users, e)
             /\ a.ready = m.ready /\ a.hasFullUserState
             /\ a.needsReconcile = m.needsReconcile
             /\ ~a.dirtyUsers => ~m.dirtyUsers /\ a.users = m.users
<1> DEFINE a == Apply(m, e)
<1>1. CASE e \in ConfigEvents
  <2>1. e.type = "sync.config" /\ After(m.users, e) = m.users
    BY <1>1 DEF ConfigEvents, After
  <2>2. a = [m EXCEPT !.config = e.config, !.dirtyConfig = TRUE]
    BY <2>1 DEF Apply, ApplyConfig
  <2> QED
    BY <2>1, <2>2 DEF Mailboxes
<1>2. CASE e \in UserEvents
  <2>1. e.type = "sync.users" /\ After(m.users, e) = e.users
    BY <1>2 DEF UserEvents, After
  <2>2. a = [m EXCEPT !.users = e.users, !.dirtyUsers = TRUE,
                      !.hasFullUserState = TRUE]
    BY <2>1 DEF Apply, ApplyUsers
  <2> QED
    BY <2>1, <2>2 DEF Mailboxes
<1>3. CASE e \in DeviceEvents
  <2>1. e.type = "sync.devices" /\ After(m.users, e) = m.users
    BY <1>3 DEF DeviceEvents, After
  <2>2. a = [m EXCEPT !.deviceUsers = e.devices, !.dirtyDevices = TRUE]
    BY <2>1 DEF Apply, ApplyDevices
  <2> QED
    BY <2>1, <2>2 DEF Mailboxes
<1>4. CASE e \in DeltaEvents
  <2> DEFINE list == ReplayDelta(m.users, e.action, e.delta)
  <2>1. /\ e.type = "sync.user.delta" /\ e.action \in KnownActions
        /\ After(m.users, e) = list
    BY <1>4 DEF DeltaEvents, After
  <2>2. m.users # Nil /\ AsList(m.users) = m.users
    BY NilAssumption DEF FilledLists, AsList
  <2>3. ApplyUserDelta(m.users, e.action, e.delta) = list
    BY <2>1, <2>2 DEF ApplyUserDelta, CopyOntoNil, FilledLists
  <2>4. a = [m EXCEPT !.users = ApplyUserDelta(m.users, e.action, e.delta),
                      !.dirtyUsers = TRUE]
    BY <2>1 DEF Apply, ApplyDelta, Replayable
  <2> HIDE DEF list
  <2> QED
    BY <2>1, <2>3, <2>4 DEF Mailboxes
<1> QED
  BY <1>1, <1>2, <1>3, <1>4 DEF Events

\* A message the mailbox does not know of leads nowhere.
LEMMA OtherMessage ==
  ASSUME NEW m \in Messages \ Events, NEW us
  PROVE  After(us, m) = us
  BY DEF Messages, After

\* applyChanges records no users, and applyUserUpdate the ones it is given.
LEMMA ApplyChangesUsers ==
  ASSUME NEW n \in Nodes, NEW m \in ApplyChanges(n)
  PROVE  m.users = n.users
<1>1. \/ m = [n EXCEPT !.kernel = Stopped] \/ m = n
      \/ m = [n EXCEPT !.kernel.users = n.users]
      \/ m = Restarted(n, n.users)
  BY KernelFailure DEF ApplyChanges
<1>2. n.users \in UserLists
  BY DEF Nodes
<1> QED
  BY <1>1, <1>2, RestartedServes DEF Nodes

LEMMA ApplyUserUpdateUsers ==
  ASSUME NEW n \in Nodes, ~KernelMayFail, NEW us \in UserLists,
         NEW m \in ApplyUserUpdate(n, us)
  PROVE  m.users = us
<1>1. PICK e \in {n, Restarted(n, n.users)} :
        m = Recorded(e, us) \/ m = Updated(e, us)
  BY ApplyUserUpdateCases DEF UserUpdateEnds
<1>2. n.users \in UserLists
  BY DEF Nodes
<1>3. e \in Nodes
  BY <1>2, RestartedServes
<1> QED
  BY <1>1, <1>3 DEF Recorded, Updated, Nodes

\* A drain gives the node the mailbox's list, if it is dirty, and leaves it
\* its own otherwise.
LEMMA DrainedUsers ==
  ASSUME NEW n, Sound(n), ~KernelMayFail,
         NEW box \in Mailboxes, box.ready, box.users \in UserLists,
         NEW m \in Drained(n, MailboxState(box))
  PROVE  m.users = IF box.dirtyUsers THEN box.users ELSE n.users
<1> DEFINE s == MailboxState(box)
<1>1. /\ s.HasConfig => s.Config \in Configs
      /\ s.HasUsers = box.dirtyUsers /\ s.Users = box.users
      /\ s.HasDevices => s.DeviceUsers \in DeviceSets
  BY MailboxStateType DEF MailboxState, Mailboxes
<1> HIDE DEF s
<1> DEFINE afterConfig == IF s.HasConfig THEN OnSyncConfig(n, s.Config)
                          ELSE {n}
           afterUsers(a) == IF s.HasUsers THEN OnSyncUsers(a, s.Users)
                            ELSE {a}
<1>2. PICK a \in afterConfig : \E b \in afterUsers(a) :
         m = IF s.HasDevices THEN OnSyncDevices(b, s.DeviceUsers) ELSE b
  BY DEF Drained, s
<1>3. a.users = n.users
  <2>1. CASE a = n
    BY <2>1
  <2>2. CASE s.HasConfig /\ a \in ApplyChanges([n EXCEPT !.config = s.Config])
    <3>1. /\ [n EXCEPT !.config = s.Config] \in Nodes
          /\ [n EXCEPT !.config = s.Config].users = n.users
      BY <1>1, <2>2 DEF Sound, Nodes
    <3> QED
      BY <2>2, <3>1, ApplyChangesUsers
  <2> QED
    BY <1>2, <2>1, <2>2 DEF OnSyncConfig
<1>4. Sound(a)
  BY <1>1, <1>2, OnSyncConfigSound
<1>5. PICK b \in afterUsers(a) :
         m = IF s.HasDevices THEN OnSyncDevices(b, s.DeviceUsers) ELSE b
  BY <1>2
<1>6. b.users = IF s.HasUsers THEN s.Users ELSE a.users
  <2>1. CASE ~s.HasUsers
    BY <1>5, <2>1
  <2>2. CASE s.HasUsers
    <3>1. b \in OnSyncUsers(a, s.Users) /\ s.Users \in UserLists
      BY <1>1, <1>5, <2>2
    <3>2. \/ b = a /\ s.Users = a.users
          \/ b \in ApplyUserUpdate(a, s.Users)
      BY <3>1, NilAssumption DEF OnSyncUsers
    <3>3. a \in Nodes
      BY <1>4 DEF Sound
    <3>4. b.users = s.Users
      BY <3>1, <3>2, <3>3, ApplyUserUpdateUsers
    <3> QED
      BY <2>2, <3>4
  <2> QED
    BY <2>1, <2>2
<1>7. b \in Nodes
  BY <1>1, <1>4, <1>5, OnSyncUsersSound DEF Sound
<1>8. m = b \/ \E ds \in DeviceSets : m = [b EXCEPT !.kernel.devices = ds]
  BY <1>1, <1>5 DEF OnSyncDevices
<1>9. m.users = b.users
  BY <1>7, <1>8, DevicesKept
<1> QED
  BY <1>1, <1>3, <1>6, <1>9

-----------------------------------------------------------------------------
(* BaselineIsCurrent: the steps.                                           *)

\* A list the panel may have while it never takes the last user away.
LEMMA FilledPanelLists ==
  ASSUME ~MayBeEmpty
  PROVE  PanelLists \subseteq FilledLists
  BY DEF PanelLists, FilledLists

LEMMA InitTracking == Init => TrackingInv
<1> SUFFICES ASSUME Init, Undisturbed PROVE TrackingInv
  BY DEF TrackingInv
<1>1. link /\ phase = "config" /\ wsQ = <<>> /\ mb = NewNodeMailbox
  BY DEF Init, Undisturbed
<1> QED
  BY <1>1 DEF Init, NoPull, TrackingInv

\* A connection that has broken stays counted.
LEMMA StaysUndisturbed ==
  ASSUME IInv, [Next]_vars, Undisturbed'
  PROVE  Undisturbed /\ ~Disconnect
<1>1. /\ budget \in [changes : 0..MaxChanges, drops : 0..MaxDrops,
                     rest : 0..MaxRestFaults]
      /\ budget'.drops = MaxDrops
  BY DEF IInv, TypeOK, Undisturbed
<1>2. ~Disconnect
  <2> SUFFICES ASSUME Disconnect PROVE FALSE
    OBVIOUS
  <2>1. budget'.drops = budget.drops - 1
    BY <1>1 DEF Disconnect
  <2> QED
    BY <1>1, <2>1, SyncAssumption
<1>3. budget'.drops = budget.drops
  <2>1. CASE Panel
    BY <1>1, <2>1 DEF Panel, ChangeConfig, ChangeUsers, ChangeDevices, Change
  <2>2. CASE Connect \/ Deliver
    BY <2>2 DEF Connect, Deliver
  <2>3. CASE Boot
    BY <1>1, <2>3 DEF Boot, BootConfig, BootUsers, BootFails, BootStart,
                      BootRefused
  <2>4. CASE Pull
    BY <1>1, <2>4 DEF Pull, PullConfig, PullUsers, PullRequestFails, PullSend,
                      PullEnds
  <2>5. CASE PullTick \/ ApplyPullResult \/ HandleStatus \/ DrainMailbox
    BY <2>5 DEF PullTick, ApplyPullResult, HandleStatus, DrainMailbox
  <2>6. CASE UNCHANGED vars
    BY <2>6 DEF vars
  <2> QED
    BY <1>2, <2>1, <2>2, <2>3, <2>4, <2>5, <2>6 DEF Next
<1> QED
  BY <1>1, <1>2, <1>3 DEF Undisturbed

\* The panel changes something: the message it pushes leads to the new list.
LEMMA PanelTracking ==
  ASSUME IInv, TrackingInv, Undisturbed, Panel
  PROVE  TrackingInv'
<1>1. /\ phase = "run" /\ link /\ Tracked
      /\ statuses = <<>> /\ pull.pc = "idle" /\ results = <<>>
  BY DEF Panel, ChangeConfig, ChangeUsers, ChangeDevices, Change, Undisturbed,
         TrackingInv
<1>2. UNCHANGED <<link, statuses, mb, pull, results, phase, node>>
  BY DEF Panel, ChangeConfig, ChangeUsers, ChangeDevices, Change, mbVars,
         pullVars, serviceVars
<1>3. /\ panel \in [config : PanelConfigs, users : PanelLists,
                    devices : DeviceSets \cup {Nil}]
      /\ PanelLists \subseteq FilledLists
      /\ PanelLists \subseteq UserLists
      /\ wsQ \in Seq(Messages)
  BY FilledPanelLists DEF IInv, TypeOK, Undisturbed, PanelLists
<1>4. PICK m \in Messages :
        /\ wsQ' = Append(wsQ, m)
        /\ After(panel.users, m) = panel'.users
        /\ m.type = "sync.user.delta" => m.action \in KnownActions
  <2>1. ASSUME NEW cfg \in PanelConfigs, ChangeConfig(cfg)
        PROVE  \E m \in Messages :
                 /\ wsQ' = Append(wsQ, m)
                 /\ After(panel.users, m) = panel'.users
                 /\ m.type = "sync.user.delta" => m.action \in KnownActions
    <3> DEFINE m == [type |-> "sync.config", config |-> cfg]
    <3>1. wsQ' = Append(wsQ, m) /\ panel'.users = panel.users
      BY <1>1, <1>3, <2>1 DEF ChangeConfig, Change
    <3>2. m \in Messages /\ After(panel.users, m) = panel.users
      BY ConfigMessage DEF After
    <3> QED
      BY <3>1, <3>2
  <2>2. ASSUME NEW us \in PanelLists, ChangeUsers(us)
        PROVE  \E m \in Messages :
                 /\ wsQ' = Append(wsQ, m)
                 /\ After(panel.users, m) = panel'.users
                 /\ m.type = "sync.user.delta" => m.action \in KnownActions
    <3>1. PICK m \in UserPushes(panel.users, us) : wsQ' = Append(wsQ, m)
      BY <1>1, <2>2 DEF ChangeUsers, Change
    <3>2. panel'.users = us /\ us # panel.users
      BY <1>3, <2>2 DEF ChangeUsers, Change
    <3>3. panel.users \in UserLists /\ us \in UserLists
      BY <1>3
    <3> QED
      BY <3>1, <3>2, <3>3, UserPushesType, PushLeads
  <2>3. ASSUME NEW ds \in DeviceSets, ChangeDevices(ds)
        PROVE  \E m \in Messages :
                 /\ wsQ' = Append(wsQ, m)
                 /\ After(panel.users, m) = panel'.users
                 /\ m.type = "sync.user.delta" => m.action \in KnownActions
    <3> DEFINE m == [type |-> "sync.devices", devices |-> ds]
    <3>1. wsQ' = Append(wsQ, m) /\ panel'.users = panel.users
      BY <1>1, <1>3, <2>3 DEF ChangeDevices, Change
    <3>2. m \in Messages /\ After(panel.users, m) = panel.users
      BY DevicesMessage DEF After
    <3> QED
      BY <3>1, <3>2
  <2> QED
    BY <2>1, <2>2, <2>3 DEF Panel
<1>5. panel'.users \in FilledLists
  BY <1>3, PanelIInv, FilledPanelLists DEF IInv, TypeOK, Undisturbed
<1>6. Leads(mb.users, wsQ', panel'.users)
  BY <1>1, <1>3, <1>4, <1>5, LeadsAppend DEF Tracked
<1>7. Tracked'
  BY <1>1, <1>2, <1>6 DEF Tracked
<1> QED
  BY <1>1, <1>2, <1>7 DEF TrackingInv

\* The mailbox hears a message.
LEMMA DeliverTracking ==
  ASSUME IInv, TrackingInv, Undisturbed, Deliver
  PROVE  TrackingInv'
<1>1. /\ phase = "run" /\ wsQ # <<>> /\ wsQ' = Tail(wsQ) /\ Tracked
      /\ link /\ statuses = <<>> /\ pull.pc = "idle" /\ results = <<>>
  BY DEF Deliver, TrackingInv
<1>2. UNCHANGED <<panel, link, statuses, pull, results, phase, node>>
  BY DEF Deliver, pullVars, serviceVars
<1>3. /\ wsQ \in Seq(Messages) /\ mb \in Mailboxes
      /\ Head(wsQ) \in Messages
  BY <1>1, HeadTailProperties DEF IInv, TypeOK
<1> DEFINE e == Head(wsQ)
<1>4. Leads(mb.users, wsQ, panel.users)
  BY <1>1 DEF Tracked
<1>5. /\ mb.users \in FilledLists /\ After(mb.users, e) \in FilledLists
      /\ e.type = "sync.user.delta" => e.action \in KnownActions
      /\ Leads(After(mb.users, e), wsQ', panel'.users)
  BY <1>1, <1>2, <1>3, <1>4, LeadsTail
<1>6. /\ mb.ready /\ mb.hasFullUserState /\ ~mb.needsReconcile
      /\ ~mb.dirtyUsers => mb.users = node.users
  BY <1>1 DEF Tracked
<1>7. /\ mb'.ready /\ mb'.hasFullUserState /\ ~mb'.needsReconcile
      /\ mb'.users = After(mb.users, e)
      /\ ~mb'.dirtyUsers => mb'.users = node.users
  <2>1. CASE e \in Events
    <3>1. mb' = Apply(mb, e)
      BY <2>1 DEF Deliver
    <3>2. LET a == Apply(mb, e)
          IN  /\ a.users = After(mb.users, e)
              /\ a.ready = mb.ready /\ a.hasFullUserState
              /\ a.needsReconcile = mb.needsReconcile
              /\ ~a.dirtyUsers => ~mb.dirtyUsers /\ a.users = mb.users
      <4> HIDE DEF e
      <4> QED
        BY <1>3, <1>5, <1>6, <2>1, ApplyFollows
    <3> QED
      BY <1>6, <3>1, <3>2
  <2>2. CASE e \notin Events
    <3>1. mb' = mb
      BY <2>2 DEF Deliver, mbVars
    <3>2. After(mb.users, e) = mb.users
      BY <1>3, <2>2, OtherMessage
    <3> QED
      BY <1>6, <3>1, <3>2
  <2> QED
    BY <2>1, <2>2
<1> HIDE DEF e
<1>8. Tracked'
  BY <1>2, <1>5, <1>7 DEF Tracked
<1> QED
  BY <1>1, <1>2, <1>8 DEF TrackingInv

\* initialSetup, up to the start of the kernel.
LEMMA BootTracking ==
  ASSUME IInv, TrackingInv, Undisturbed,
         BootConfig \/ BootUsers \/ BootFails \/ BootRefused
  PROVE  TrackingInv'
<1>1. /\ phase # "run" /\ phase' # "run"
      /\ UNCHANGED <<panel, link, wsQ, statuses, mb, pull, results>>
  BY DEF BootConfig, BootUsers, BootFails, BootRefused, Exit, wsVars, mbVars,
         pullVars
<1>2. phase' = "start" => tags'.users = panel.users
  BY DEF BootConfig, BootUsers, BootFails, BootRefused, Exit, IInv, TypeOK
<1> QED
  BY <1>1, <1>2 DEF TrackingInv

\* A ready mailbox with a complete list is drained: the node has the list.
LEMMA DrainTracking ==
  ASSUME NEW box \in Mailboxes, box.ready, box.hasFullUserState,
         ~box.needsReconcile, box.users \in UserLists,
         NEW n, Sound(n), ~KernelMayFail,
         ~box.dirtyUsers => box.users = n.users,
         Drain(box, n)
  PROVE  /\ mb'.ready /\ mb'.hasFullUserState /\ ~mb'.needsReconcile
         /\ mb'.users = box.users /\ node'.users = box.users
         /\ UNCHANGED pull
<1>1. mb' = DrainIfReady(box) /\ node' \in Drained(n, MailboxState(box))
  BY DEF Drain
<1>2. /\ mb'.ready /\ mb'.hasFullUserState /\ ~mb'.needsReconcile
      /\ mb'.users = box.users
  BY <1>1 DEF DrainIfReady, Mailboxes
<1>3. node'.users = box.users
  BY <1>1, DrainedUsers
<1>4. ~MailboxState(box).NeedsReconcile
  BY DEF MailboxState
<1>5. UNCHANGED pull
  BY <1>4 DEF Drain, pullVars
<1> QED
  BY <1>2, <1>3, <1>5

\* The service boots: the snapshot the mailbox is seeded with is the list the
\* kernel was started with, and the panel's.
LEMMA BootStartTracking ==
  ASSUME IInv, TrackingInv, Undisturbed, BootStart
  PROVE  TrackingInv'
<1>1. /\ phase' = "run" /\ mb = NewNodeMailbox /\ wsQ = <<>>
      /\ link /\ statuses = <<>> /\ pull.pc = "idle" /\ results = <<>>
      /\ tags.users = panel.users
      /\ UNCHANGED <<panel, link, wsQ, statuses, results>>
  BY DEF BootStart, TrackingInv, wsVars
<1>2. WsEnabled /\ ~KernelMayFail
  BY SyncAssumption DEF Undisturbed
<1>3. tags.config \in Configs /\ panel.users \in FilledLists
  BY FilledPanelLists DEF IInv, TypeOK, BootOrder, BootStart, Undisturbed
<1> DEFINE box(n) == MarkReady(SeedBaseline(mb, CopyOntoNil(n.users),
                                            n.config))
<1>4. PICK n \in BootOutcomes(tags.config, tags.users) : Drain(box(n), n)
  BY <1>2 DEF BootStart
<1>5. Sound(n) /\ n.config = tags.config /\ n.users = panel.users
  BY <1>1, <1>3, <1>4, BootOutcomesSound DEF FilledLists
<1>6. CopyOntoNil(n.users) = panel.users /\ panel.users # Nil
  BY <1>3, <1>5, NilAssumption DEF FilledLists, CopyOntoNil
<1>7. /\ box(n) \in Mailboxes /\ box(n).ready /\ box(n).hasFullUserState
      /\ ~box(n).needsReconcile /\ ~box(n).dirtyUsers
      /\ box(n).users = panel.users
  <2>1. box(n) = [NewNodeMailbox EXCEPT !.users = panel.users,
                                        !.hasFullUserState = TRUE,
                                        !.config = n.config,
                                        !.ready = TRUE]
    BY <1>1, <1>3, <1>5, <1>6, NilAssumption
       DEF NewNodeMailbox, SeedBaseline, MarkReady
  <2> QED
    BY <1>3, <1>5, <2>1 DEF NewNodeMailbox, Mailboxes, FilledLists
<1> HIDE DEF box
<1>8. /\ mb'.ready /\ mb'.hasFullUserState /\ ~mb'.needsReconcile
      /\ mb'.users = panel.users /\ node'.users = panel.users
      /\ UNCHANGED pull
  BY <1>2, <1>3, <1>4, <1>5, <1>7, DrainTracking DEF FilledLists
<1>9. Leads(mb'.users, wsQ', panel'.users)
  BY <1>1, <1>3, <1>8, LeadsNowhere
<1>10. Tracked'
  BY <1>8, <1>9 DEF Tracked
<1> QED
  BY <1>1, <1>8, <1>10 DEF TrackingInv

\* The service drains its mailbox.
LEMMA DrainMailboxTracking ==
  ASSUME IInv, TrackingInv, Undisturbed, DrainMailbox
  PROVE  TrackingInv'
<1>1. /\ phase = "run" /\ Tracked /\ Drain(mb, node)
      /\ link /\ statuses = <<>> /\ pull.pc = "idle" /\ results = <<>>
      /\ UNCHANGED <<panel, link, wsQ, statuses, results, phase>>
  BY DEF DrainMailbox, TrackingInv, wsVars
<1>2. mb \in Mailboxes /\ Sound(node) /\ ~KernelMayFail
  BY DEF IInv, TypeOK, Sound, KernelServesConfig, Undisturbed
<1>3. mb.users \in UserLists
  BY <1>1 DEF Tracked, Leads, FilledLists
<1>4. /\ mb'.ready /\ mb'.hasFullUserState /\ ~mb'.needsReconcile
      /\ mb'.users = mb.users /\ node'.users = mb.users
      /\ UNCHANGED pull
  BY <1>1, <1>2, <1>3, DrainTracking DEF Tracked
<1>5. Tracked'
  BY <1>1, <1>4 DEF Tracked
<1> QED
  BY <1>1, <1>4, <1>5 DEF TrackingInv

\* Undisturbed, nothing is pulled, nor does the connectivity change.
LEMMA NothingElseTracking ==
  ASSUME TrackingInv, Undisturbed
  PROVE  /\ ~Connect /\ ~Pull /\ ~PullTick /\ ~ApplyPullResult
         /\ ~HandleStatus
  BY DEF TrackingInv, Connect, Pull, PullConfig, PullUsers, PullRequestFails,
         PullSend, PullEnds, PullTick, ApplyPullResult, HandleStatus

LEMMA NextTracking == IInv /\ TrackingInv /\ [Next]_vars => TrackingInv'
<1> SUFFICES ASSUME IInv, TrackingInv, [Next]_vars, Undisturbed'
             PROVE  TrackingInv'
  BY DEF TrackingInv
<1>1. Undisturbed /\ ~Disconnect
  BY StaysUndisturbed
<1>2. CASE Panel
  BY <1>1, <1>2, PanelTracking
<1>3. CASE Deliver \/ DrainMailbox
  BY <1>1, <1>3, DeliverTracking, DrainMailboxTracking
<1>4. CASE Boot
  BY <1>1, <1>4, BootTracking, BootStartTracking DEF Boot
<1>5. CASE UNCHANGED vars
  BY <1>5 DEF vars, TrackingInv, Undisturbed, Tracked
<1> QED
  BY <1>1, <1>2, <1>3, <1>4, <1>5, NothingElseTracking DEF Next

\* What the mailbox replays the next delta onto is what the node runs with,
\* as long as nothing but pushes over a lasting connection changes it: the
\* panel is quiet while the node boots, keeps a user, and xray starts.
THEOREM SyncBaselineIsCurrent ==
  Spec => [](Undisturbed => BaselineIsCurrent)
<1>1. TrackingInv => (Undisturbed => BaselineIsCurrent)
  <2> SUFFICES ASSUME TrackingInv, Undisturbed, mb.ready, ~mb.dirtyUsers
               PROVE  AsList(mb.users) = node.users
    BY DEF BaselineIsCurrent
  <2>1. Tracked
    BY DEF TrackingInv, NewNodeMailbox
  <2>2. mb.users = node.users /\ mb.users \in UserLists
    BY <2>1 DEF Tracked, Leads, FilledLists
  <2> QED
    BY <2>2, NilAssumption DEF AsList
<1> QED
  BY <1>1, InitIInv, NextIInv, InitTracking, NextTracking, PTL DEF Spec

\* Undisturbed, a node that has heard and drained every message has the
\* panel's user list, however its changes were pushed.
THEOREM SyncPushesSuffice ==
  Spec => [](/\ Undisturbed /\ phase = "run"
             /\ wsQ = <<>> /\ ~mb.dirtyUsers
             => node.users = panel.users)
<1>1. TrackingInv => (/\ Undisturbed /\ phase = "run"
                      /\ wsQ = <<>> /\ ~mb.dirtyUsers
                      => node.users = panel.users)
  <2> SUFFICES ASSUME TrackingInv, Undisturbed, phase = "run",
                      wsQ = <<>>, ~mb.dirtyUsers
               PROVE  node.users = panel.users
    OBVIOUS
  <2>1. mb.users = node.users /\ Leads(mb.users, wsQ, panel.users)
    BY DEF TrackingInv, Tracked
  <2>2. mb.users = panel.users
    BY <2>1 DEF Leads
  <2> QED
    BY <2>1, <2>2
<1> QED
  BY <1>1, InitIInv, NextIInv, InitTracking, NextTracking, PTL DEF Spec

-----------------------------------------------------------------------------
(* A reconciliation has its pull. *)

\* What starts a pull without a back-off leaves one that has yet to send its
\* result, unless it found one that has sent it.
LEMMA StartPullRuns ==
  ASSUME backoff = 0, pull \in Pulls, NEW cfg, StartPull(cfg)
  PROVE  /\ backoff' = 0
         /\ pull.pc # "ending" => PullIsOpen'
         /\ PullIsOpen => PullIsOpen'
<1>1. CASE pull.pc # "idle" /\ UNCHANGED pullVars
  BY <1>1 DEF pullVars, PullIsOpen, Pulls
<1>2. CASE /\ backoff' = backoff
           /\ pull' = [NoPull EXCEPT !.pc = "config", !.seen = cfg]
  BY <1>2 DEF NoPull, PullIsOpen
<1> QED
  BY <1>1, <1>2 DEF StartPull

\* A request that a drain makes lapses or has its pull or its result.
LEMMA DrainResync ==
  ASSUME backoff = 0, pull \in Pulls,
         resync = "asked" => PullIsOpen \/ results # <<>>,
         NEW m, NEW n, Drain(m, n), UNCHANGED results
  PROVE  backoff' = 0 /\ (resync' = "asked" => PullIsOpen' \/ results' # <<>>)
<1>1. CASE /\ resync' = IF pull.pc = "ending" /\ results = <<>>
                        THEN "lapsed" ELSE "asked"
           /\ StartPull(node'.config)
  BY <1>1, StartPullRuns
<1>2. CASE UNCHANGED <<resync, pullVars>>
  BY <1>2 DEF pullVars, PullIsOpen
<1> QED
  BY <1>1, <1>2 DEF Drain

\* Without failures a pull ends by handing over its result.
LEMMA PullResync ==
  ASSUME IInv, ResyncInv, Steady, Pull
  PROVE  backoff' = 0 /\ (resync' = "asked" => PullIsOpen' \/ results' # <<>>)
<1>1. /\ backoff = 0 /\ (resync = "asked" => PullIsOpen \/ results # <<>>)
      /\ UNCHANGED resync /\ pull \in Pulls
  BY DEF Pull, PullConfig, PullUsers, PullRequestFails, PullSend, PullEnds,
         serviceVars, ResyncInv, IInv, TypeOK
<1>2. CASE PullConfig
  BY <1>1, <1>2 DEF PullConfig, Pulls, PullIsOpen
<1>3. CASE PullUsers
  <2> DEFINE cfg == IF pull.config = pull.seen THEN Nil ELSE pull.config
             us == Answer(tags.users, panel.users)
  <2>1. /\ backoff' = 0
        /\ pull' = [pull EXCEPT !.pc = "send", !.config = cfg, !.users = us]
    BY <1>3 DEF PullUsers, Steady
  <2> HIDE DEF cfg, us
  <2> QED
    BY <1>1, <2>1 DEF Pulls, PullIsOpen
<1>4. ~PullRequestFails
  <2>1. budget.rest \in 0..0
    BY DEF IInv, TypeOK, Steady
  <2> QED
    BY <2>1 DEF PullRequestFails
<1>5. CASE PullSend
  BY <1>1, <1>5 DEF PullSend
<1>6. CASE PullEnds
  BY <1>1, <1>6 DEF PullEnds, PullIsOpen
<1> QED
  BY <1>2, <1>3, <1>4, <1>5, <1>6 DEF Pull

LEMMA NextResync == IInv /\ ResyncInv /\ [Next]_vars => ResyncInv'
<1> SUFFICES ASSUME IInv, ResyncInv, [Next]_vars, Steady
             PROVE  /\ backoff' = 0
                    /\ resync' = "asked" => PullIsOpen' \/ results' # <<>>
  BY DEF ResyncInv, Steady
<1>1. /\ backoff = 0 /\ (resync = "asked" => PullIsOpen \/ results # <<>>)
      /\ pull \in Pulls
  BY DEF ResyncInv, IInv, TypeOK
<1>2. CASE Panel
  <2>1. UNCHANGED <<backoff, pull, results, resync>>
    BY <1>2 DEF Panel, ChangeConfig, ChangeUsers, ChangeDevices, Change,
                pullVars, serviceVars
  <2> QED
    BY <1>1, <2>1 DEF PullIsOpen
<1>3. CASE Connect \/ Disconnect \/ Deliver
  <2>1. UNCHANGED <<backoff, pull, results, resync>>
    BY <1>3 DEF Connect, Disconnect, Deliver, pullVars, serviceVars
  <2> QED
    BY <1>1, <2>1 DEF PullIsOpen
<1>4. CASE BootConfig \/ BootUsers \/ BootFails \/ BootRefused
  BY <1>1, <1>4 DEF BootConfig, BootUsers, BootFails, BootRefused, Exit,
                    pullVars, PullIsOpen
<1>5. CASE BootStart
  <2>1. PICK n \in BootOutcomes(tags.config, tags.users) :
          IF WsEnabled
          THEN Drain(MarkReady(SeedBaseline(mb, CopyOntoNil(n.users),
                                            n.config)), n)
          ELSE UNCHANGED <<resync, pullVars>>
    BY <1>5 DEF BootStart
  <2>2. UNCHANGED results
    BY <1>5 DEF BootStart
  <2> QED
    BY <1>1, <2>1, <2>2, DrainResync DEF pullVars, PullIsOpen
<1>6. CASE Pull
  BY <1>6, PullResync
<1>7. CASE PullTick \/ HandleStatus
  <2>1. StartPull(node.config) /\ UNCHANGED <<results, resync>>
    BY <1>7 DEF PullTick, HandleStatus, serviceVars
  <2> QED
    BY <1>1, <2>1, StartPullRuns
<1>8. CASE ApplyPullResult
  BY <1>1, <1>8 DEF ApplyPullResult, pullVars
<1>9. CASE DrainMailbox
  BY <1>1, <1>9, DrainResync DEF DrainMailbox
<1>10. CASE UNCHANGED vars
  BY <1>1, <1>10 DEF vars, PullIsOpen
<1> QED
  BY <1>2, <1>3, <1>4, <1>5, <1>6, <1>7, <1>8, <1>9, <1>10 DEF Next, Boot

\* If no request fails and no configuration is malformed, a reconciliation
\* that requestWSResync asked for has a pull that will send its result, or a
\* result that waits to be applied and ends it, whatever pull was active when
\* it was asked for; unless that pull was one whose result had been applied and
\* whose deferred Store had not run yet (service.go: requestWSResync,
\* pullViaAPIAsync, applyPullResult).
THEOREM SyncResyncHasPull ==
  Spec => [](Steady /\ resync = "asked" => PullIsOpen \/ results # <<>>)
<1>1. Init => ResyncInv
  BY DEF Init, ResyncInv
<1>2. ResyncInv => (Steady /\ resync = "asked" => PullIsOpen \/ results # <<>>)
  BY DEF ResyncInv
<1> QED
  BY <1>1, <1>2, InitIInv, NextIInv, NextResync, PTL DEF Spec

=============================================================================
