# Fboard-Node in TLA+

A verification project for fboard-node: one process runs an *orchestrator* per
panel machine, which runs one *node service* per node bound to the machine;
each service keeps one embedded *xray kernel* in step with the panel. The
modules here model how a node is kept in step with the panel, and what surrounds
it: the kernel under concurrent commands, the orchestrator that starts and stops
nodes, the WebSocket client, traffic accounting, admission by device limits,
certificates, and the process that reloads its configuration. TLC checks each on
small instances; TLAPS proves what holds in every environment.

## 1. Inventory

| component (code) | state it keeps | operations | interacts with | what makes it correct |
|---|---|---|---|---|
| **NodeMailbox** (`controlplane/mailbox.go`) | latest config, user list, devices, a dirty flag each, `needsReconcile`, `ready`, `hasFullUserState`, `notifyCh` (1) | `Apply`, `SeedBaseline`, `MarkReady`, `DrainIfReady` | WS readers apply, the service drains | latest-wins: nothing applied is lost or reordered, no wakeup is lost, deltas are replayed on the right baseline |
| **Node service** (`service/service.go`) | `lastConfig`, `lastUsers` and their hashes, `pullActive`, `wsResyncPending`, back-offs, `kernelDesired` | `initialSetup`, the select loop of `Run`, `pullViaAPIAsync`, `applyPullResult`, `drainMachineMailbox`, `handleWSStatus`, `ControlKernel`, reports | everything below | node and kernel converge to the panel; the kernel serves what the service holds; a remote stop survives |
| **REST client, control plane** (`panel/client.go`, `controlplane/machine.go`) | two ETags | `Initial`, `Poll`, `Report` | service's pull goroutine | "not modified" is said only of what was delivered |
| **WS client** (`panel/ws.go`) | connection, back-off, write channel | `Run`, `connect`, `handleMessage`, `Send*` | orchestrator callbacks | status follows connection; back-off bounded; no send on a dead channel |
| **Orchestrator** (`machine/machine.go`) | node handles, mailboxes, status channels | `rediscover`, `startNode`, `stopNode`, `onWSEvent`, `onWSStatus`, `controlAllKernels` | services, WS client | one live service per bound node, its mailbox registered |
| **Xray kernel** (`kernel/xray/xray.go`) | instance, users, hash, cumulative traffic | `Start`, `Reload`, `Stop`, `UpdateUsers`, `AddUsers`, `RemoveUsers`, `GetUserTraffic` | service, dispatcher | recorded users = admitted users, no use of a closed instance |
| **Limit dispatcher** (`kernel/xray/dispatcher.go`) | local and remote IPs per user | admission, close, `UpdateGlobalDevices`, `ResetConns` | connections, kernel | never more devices than the hard limit; reference counts balance |
| **Limiter, speed tracker** (`limiter/`) | users, copy-on-write buckets | `UpdateUsers`, `UpdateBuckets`, `GetLimiter` | kernel, service | one bucket per limited user |
| **Tracker** (`tracker/tracker.go`) | `lastSeen`, pending traffic, live snapshot | `Process`, `Flush*`, `Restore*` | kernel counters, reports | every byte billed once |
| **Certificates** (`cert/`) | material, mode, `renewed` | `Start`, `Reconfigure`, `CertRenewed` | service | a renewal reaches the kernel |
| **Configuration** (`config/config.go`) | none (a value) | `Load`, `NormalizeInstances`, `Validate`, startup layout | main | two instances never share an identifier or a directory |
| **Config watcher, main** (`config/watcher.go`, `cmd/fboard-node`) | debounce, running instances, signals | reload, forced exit, health endpoint | orchestrators | the last edit is applied; a signal ends the process |
| **Process log** (`nlog/`) | ring per machine | `appendRing`, `Recent`, `SetRingSize` | everyone | last n lines in order |
| model, xray config generator, monitor, opsutil, DNS providers, fbctl, scripts | none, or host I/O | pure translation, I/O | | not modelled |

Goroutines: per service the main select loop and at most one pull and one push
goroutine; per orchestrator the main loop, the WS client with its reader, one
goroutine per remote command and per `sync.nodes`. They share the mailbox
(mutex), the status channel (4, non-blocking send), `pullResults` (1), atomics,
and - for remote kernel commands - the kernel and the service's fields.

The hard behaviours are: pushes and pulls that overtake one another; a state
that is kept twice (mailbox baseline, service list, kernel list, kernel
accounts, ETags) and updated along different paths; reconnection windows;
requests that half succeed; select's random choice among ready channels;
goroutines that are skipped because another one is active. `PROJECT.json` lists
every hazard with its line and the properties that watch it.

## 2. Plan and status

| order | module | content | composes / abstract spec | status |
|---|---|---|---|---|
| 1 | `MailboxOps`, `NodeMailbox`, `LatestFeed` | the mailbox, its goroutines, what it promises | `NodeMailbox` implements `LatestFeed` | done, proved |
| 2 | `ServiceOps`, `NodeSync` | panel, WebSocket, mailbox, pull goroutine, service loop, kernel calls | uses `MailboxOps` | done, proved |
| 3 | `CertOps`, `KernelControl` | remote commands racing the main loop, the wrapper section by section, renewals | uses `CertOps` | done, proved |
| 4 | `TrafficTracker` | resetting counters, purge, flush and restore around reports, final report | its own ledger (`used`, `billed`, `resent`) | done, proved |
| 5 | `Orchestrator` | rediscovery, node start and stop, registration, shutdown | one live service per node | done, proved |
| 6 | `LimitDispatcher` | admission, reference counts, remote devices, replacement | a cap on devices | done, proved |
| 7 | `WSLink`, `WSClient` | connection, back-off, write channel, status fan-out | `WSClient` implements `WSLink` | done, proved |
| 8 | `ConfigOps`, `ConfigReload` | loading, watcher, signals, reload | uses `ConfigOps` | done, proved |
| 9 | `SpeedTracker`, `LogRing` | rates over wall-clock time; a ring under one mutex | | not modelled, see 7 |

`Proved` means: every invariant and every non-liveness action property the runs
check is a theorem; liveness stays with TLC. Worth proving next: the safety parts
of the liveness arguments, as `SyncResyncHasPull` is that of `ResyncCompletes`.

## 3. Modules

### One node and the panel

* **`MailboxOps`** - a mailbox as a record and every critical section as an
  operator on it. A user list is a function from identifier to the user's other
  fields; `Nil` is Go's nil, which the code tells from empty.
* **`NodeMailbox`** - `mb`, `token` (`notifyCh`), the readers (`sender`), the
  service (`service`, `handed`). `Apply` and `MarkReady` are two steps each, as
  the code unlocks before it notifies. `handed` is what the service holds: of a
  drain it takes a list only if that is not nil, as `handleWSEvent` does.
* **`LatestFeed`** - the promise: a consumer that starts from a snapshot is
  handed, as one state, all that the events add up to; what could not be added
  up is flagged; everything is handed over eventually. The snapshot is accepted
  once (`seeded`) and only under events that have not replaced it yet. A list
  that deltas have emptied is nil, and the consumer keeps the users it had.
* **`ServiceOps`** - the service's calls and the kernel's, each an operator from
  a node (configuration, users, kernel) to the *set* of nodes it may end with,
  because starting xray may fail (`KernelMayFail`). The kernel keeps apart
  `base` (the list of the last hash), `users` (Xray's record) and `accounts`
  (what the instance admits): the code updates them at different times.
* **`NodeSync`** - one node end to end. Variables name the code's: `statuses`
  is `wsStatusCh`, `results` is `pullResults`, `resync` is `wsResyncPending`,
  `tags` the two ETags, `pull` the goroutine of `pullViaAPIAsync` with the hash
  it captured (`seen`), `phase` the progress of `initialSetup`. One action per
  select case (`PullTick`, `ApplyPullResult`, `HandleStatus`, `DrainMailbox`),
  per step of the boot (`BootConfig`, `BootUsers`, `BootStart`) and per step of
  the pull (`PullConfig`, `PullUsers`, `PullSend`, `PullRequestFails`, and
  `PullEnds`, the deferred `pullActive.Store(false)`: a pull that is asked for
  while the goroutine is `ending` is skipped). `resync` tells a request whose pull
  was skipped like that (`lapsed`) from others (`asked`). The panel and the network (`Change*`,
  `Connect`, `Disconnect`) are external.

### The kernel and what passes through it

* **`CertOps`** - the certificate manager as operations on a value:
  configuration, material, persisted material, the flag `CertRenewed` reads and
  clears, the ACME goroutine. Obtaining a certificate is a version number. `Bare`
  is mode content without content, which falls back on what is persisted; a
  Reconfigure whose last step fails may leave new material (`ReconfigureFailed`).
* **`KernelControl`** - the wrapper's fields under `mu` are the record `x`, an
  xray instance is a member of `Instances` with what it was started with. Each
  goroutine (`main`, `Commands`) has a `pc`, its operation's arguments and the
  instance it holds. A step is one atomic access or one section under `mu`:
  `Start` checks, builds an instance without the lock, swaps, and closes the old
  one without it; `Stop` takes and closes; `UpdateUsers` looks at the
  UserManager, adds and removes outside the lock, then records. A configuration
  that a pull brings may come with users, as `applyPullResult` applies both at once.
  `ConfigChange` records configuration and users, reconfigures the certificate and
  decides as `applyChanges` does in one step. A remote command that reads half of
  such a change is therefore not modelled; it would overlap what the main loop does
  next, and the properties that speak of content exclude overlap.
  `hazards` notes what has happened so far: an operation that overlapped a Stop
  (`stop`) or a Start (`start`), a Reload skipped although users were hot-swapped
  since the last Start (`skip`), so that a property can say what holds without.
* **`TrafficTracker`** - `kernel` (xray's counters, which `aggregateStats` resets
  as it reads them, and the cumulative traffic), the tracker's `lastSeen`,
  `pendingTraffic` and the IP snapshot with its dirty flag, the push goroutine
  (`report`) and the final report of a shutdown. `used`, `billed` and `resent`
  are the ledger nobody in the program has: what was moved, what the panel
  counted, what was sent a second time because an answer was lost.
* **`LimitDispatcher`** - a connection goes through the fast path (atomics and
  a `sync.Map`) or the slow one (read lock, then write lock) and is released by
  where its user is found *then*. `entry` and `counter` are `unlimitedIPs`, kept
  apart because each look-up and change is an operation of its own on a
  `sync.Map` or an atomic: a connection remembers whether the ipCounter it has
  loaded is still the user's (`linked`) and the counter of its address still in
  it (`held`); what happens in one that was taken out is not kept, so a look
  into it may find anything. `Swap` is `Start` replacing the dispatcher under live
  connections, `RestoreGlobalDevices` what it does after the unlock: it may make an
  address remote that has connected meanwhile (`revived`).

### The machine and the process

* **`Orchestrator`** - `handles`, `mailboxes` and `statuses` are the maps under
  `mu` and `eventsMu`; a discovery holds the answer it was given (`wanted`) and
  goes through `compare`, `remove`, `unbox`, `wait`, `start`, `box`, `launch`, a
  critical section each. `main` discovers on its ticker, a member of `Syncs` on
  `sync.nodes`. An `Instance` is one run of a service; after a cancelled context
  `StopAll` collects the done channels and `Drained` is their wait.
* **`WSLink`** - what a node relies on: its flag says whether the connection is
  up, each change is reported after it has happened and before the next one, and
  the reports are read in their order; one that finds the channel full is lost.
* **`WSClient`** - `loop` is where `Run` and `connect` are (`dial`, `auth`, `up`,
  `first`, `begin`, `serve`, `closing`, ..., `wait`), `reader` the goroutine that
  reads, `queue` is `writeCh`, `statuses` a node's channel behind `onWSStatus`.
  The first message may be of any kind; it goes to `handleMessage` only.
* **`ConfigOps`** - `Load`, inheritance, environment, identifiers, defaults,
  normalisation, validation and the startup layout as operators on the content
  of a file. Settings that are inherited and defaulted one by one but decide
  nothing are the one key `tuning`. `NormalizedURL` is what `normalizeBaseURL`
  makes of a URL: some spellings of one panel become one, others stay apart.
* **`ConfigReload`** - `phase` is where `runWithReload` is; `watcher`, `event`,
  `timer`, `callback`, `reloadCh` the way of an edit through watcher, debounce
  timer and callback; `sigCh`, `handler`, `forced` that of a signal. A handler that
  `End` leaves behind goes on: it counts its 15 s and may take a signal that is still
  in its channel, and ends the process although a new configuration is served.

### Proof modules and instances

* **`NodeMailboxProofs`, `NodeSyncProofs`, `KernelControlProofs`,
  `TrafficProofs`, `OrchestratorProofs`, `LimitDispatcherProofs`,
  `WSClientProofs`, `ReloadProofs`** - the theorems, one lemma per action or
  group of actions. The first has a lemma for what each operator of
  `MailboxOps` returns and preserves, the second those it needs of them and
  those on the operators of `ServiceOps`.
* `MC...` modules declare the values; each `.cfg` is one environment.

Operators whose comment starts with *Mutant:* are plausible bugs of a mapped
definition; no behaviour uses them. Each shows that a property can fail.

### What is abstracted

A hash is the value it hashes, an ETag the value it stands for, a
configuration a model value, a user's `Spec` the credential (limits change
neither the lists nor the accounts). In `NodeSync` a handler of the main
goroutine is one step: nothing else writes its variables, and the mailbox, the
only one it shares with a lock, is taken apart in `NodeMailbox`; the remote
commands, which do write them, are `KernelControl`'s subject. `RemoveUser` and
`AddUser` of the UserManager are modelled by what they do to the accounts,
including that an existing e-mail is refused; malformed UUIDs are not. Initial
failures of a service's `Run` end it (`exited`), as nothing restarts it. One
direction of traffic stands for both: the code treats them alike. Numbers of
online users and bytes per second are read off the same snapshot and decide
nothing. A link's rate limiter does not take part in admission.

## 4. Runs

| run | environment | shows |
|---|---|---|
| `node_mailbox` | 2 users x 2 versions, 2 configurations, 1 device snapshot, 2 readers | no lost wakeup, baseline = what the service holds but for an emptied list, refinement of `LatestFeed` with its liveness |
| `rest_only` | no WebSocket, 2 failing requests, 3 changes also during boot, one configuration unsupported, one without UserManager | the users converge, the kernel admits exactly the node's users under its configuration |
| `push_only` | WebSocket up, full lists, deltas and device snapshots, 2 credentials, 3 changes, lists never empty | configuration and users converge without any pull; the baseline stays current |
| `drops` | 1 disconnection with a message in the reader's hand, greetings or none, changes during boot, empty lists, 2 configurations (one without UserManager), 1 user with 2 credentials, no failing request | whatever overtakes what, the kernel runs the service's configuration; every requested reconciliation is carried out, or waits for a disconnection if it lapsed |
| `kernel_faults` | no UserManager, any start may fail, 2 configurations and a malformed one, 4 changes, 1 failing request | a user list that arrives alone is recorded only if the running kernel admits it |
| `kernel_control` | 1 goroutine with 2 commands, 2 configurations (one with UserManager), user lists {} and {u1}, 3 instances, certificates none, self, ACME or content that is missing, 1 renewal, 1 configuration, 2 new user lists, alone or with a configuration, 1 fault | no instance is left running that nobody can close; hash and certificate describe the running instance; a running kernel has an instance when its counters are read, unless a stop came in between; a stop that overlaps nothing is kept; where nothing overlapped or failed the latest configuration and users are served; a renewal is served |
| `traffic` | 1 user, 2 addresses, 3 bytes, purge at every second call, 1 restart, 1 user operation, 2 connection changes, 1 failing or unanswered report | nobody is billed beyond what was moved and what was sent twice; all that was not discarded is billed in the end; the last IP snapshot is flushed |
| `orchestrator` | 1 node, the ticker's discovery and one of `sync.nodes`, 3 instances, 3 changes of the panel, 1 failing request or service | no orphaned service, events reach the node's service, shutdown completes, the machine converges |
| `limits` | 1 user, 3 addresses, 3 connections, limits 0 and 1 | no counter outlives its connections; a limited address has exactly the references of its open connections; an address of the node is counted as remote too only where a restore made it so; the cap holds; a known address stays allowed |
| `ws_client` | 3 faults, write and status channels of 2, back-off 1 to 3, a first message of any kind | the node knows the connection, refinement of `WSLink`, reconnection, the end of `Run`, each message handled |
| `reload` | 6 files, 2 edits, 2 signals, 1 fault | orchestrators differ in identifier and directory, the health endpoint follows the file, an edit is applied, a signal ends the process |
| `stop_not_kept` | as `kernel_control` | violation: a remote stop that overlaps a reload is undone by it |

No run checks a component's types: a theorem proves them for every value of the
constants (section 5).

The kernel's agreement with the service is stated three times, as far as each
environment lets it go. `KernelServesConfig` (same configuration) holds under
every mixture as long as starts do not fail, and is proved. `KernelServesNode`
(also the same accounts) holds without pushes, or without a UserManager, but
not with both (section 6); this too is proved. When starts fail neither holds
after a configuration change, since nothing is restored then; `UserUpdateIsServed` says what the code does restore. It is
checked without UserManager: with one, the record that section 6 shows to be
stale is what the next `UpdateUsers` starts from. A malformed configuration
fails the whole pull, so a user list published with it is lost as well until
the next change.

### What the premises in properties mean

Some properties hold only where the code can make them hold, and say so:

* `EventsReachService`: unless two discoveries have overlapped (`overlapped`).
  With overlap, `unregisterNode` deletes by identifier and may take the mailbox
  of a successor; `OneServicePerNode` needs no such premise.
* `StopIsKept`: unless a stop has overlapped another operation; the run
  `stop_not_kept` shows why. `NoLeakedInstance` needs no premise.
* `ServesLatest`: no overlap, no failure and no skipped Reload. Of two Starts
  that overlap the one with the older configuration may be installed last; a hot
  swap that overlaps a Start changes the old instance; for a failure see
  `UserUpdateIsServed`, for the Reload section 6.
* `RenewalServed`: no failing poll or start and no overlap. A failed poll has
  already cleared `CertRenewed`.
* `NotOverbilled`: `MayReturn` is FALSE, that is, no user comes back to an
  instance that kept its cumulative traffic; otherwise a purged `lastSeen` bills
  the old counter again.
* `CapHolds`: except for users the code lets beyond the cap on purpose or whose
  limit or remote devices changed under open connections (`beyond`).
* `DevicesAreConnected`, `NoCounterLeaks`, `ExistingStaysAllowed`: until a user has had
  connections counted under a limit and connections counted without one at the
  same time (`mixed`): `release` goes by where the user is found and leaves the
  former counted for ever. `Limits.cfg` stops exploring there.
* `LocalIsNotRemote`: except for addresses that connected between the swap of a
  Start and its restore of the remote ones (`revived`).
* `BaselineIsHanded`: except for a nil list, which the service does not take.
* `ResyncCompletes`: a reconciliation asked for while a pull goroutine has only its
  deferred Store left, and whose result has been applied, lapses: it is pending
  until the WebSocket is away and the ticker pulls.
* `MessagesHandled`: a ping is answered unless it is the first message, which no
  reader sees, or the write channel is full.
* `Separate`: of identifiers and directories as strings. One machine of one panel
  may run twice under two spellings of its URL.
* `StatusIsCurrent`, `Reconnects`: unless the node's channel was full at a change.
* `HealthServed`: until a configuration without endpoint was served; the port
  variable keeps its former value then, and the former port is not reopened.
* `EditApplied`: an edit during a reload may be missed (`missed`): the watcher
  is made anew.

### Bounds

*Node.* Two users suffice for a delta to add, change or remove one while another
stays; two credentials for a user to change in place; two usable configurations
for a change and a change back, a third where one is unsupported. `MaxChanges` of
2 or 3 gives a change before, during and after the window in question, 4 in
`kernel_faults` also a change back. One disconnection includes one reconnection,
hence two status changes, below `StatusCap` = 4, the code's capacity.
`MaxInFlight` = 2 lets two pushes queue; a panel change that would exceed it
waits. The node's own counters need no bound (`backoff` never leaves {0, 1},
which is proved).

*Kernel.* Two commands of one goroutine beside the main loop give any two
operations in overlap, with a third after them; three instances are two swaps.
Self-signed certificates and content that is missing are explored as long as no
command has come (`Bounded`); one by ACME, or none, at any time.
Two user lists let a list be hot-swapped and come back with a configuration.
*Traffic.* Users do not interact in the tracker, so one suffices; the proof is
for any number. Three bytes and a purge at every second call (the code: 60th) put
traffic before, between and after a restart and a purge. *Orchestrator.* Nodes do
not interact either; three instances let a node be started, replaced and replaced
again while the answers of two discoveries are of different ages. *Limits.* Limit
1 means a hard cap of 2; the third address is the one that must not enter. Two
connections may share an address, so counts reach 2, and 3. While a snapshot waits
to be restored, or what it revived is still there, at most two connections are
busy, and UDP, which leaves nothing behind, is explored beside one other connection
(`Bounded`); a restore needs one. Three connections of an unlimited user are explored
without remote addresses, which do not concern them. *Client.* Three
faults drive the back-off to its maximum; a channel of two can be full.
*Reload.* The six files are two machines of one panel, whose URL is spelled
differently; one without endpoint; one with another port whose only machine runs
twice, as the panel is named once with its default port; one that names a machine
twice in spellings that are unified; one with a shared directory; and one that
names no panel. Two edits include one
during the reload of the other, two signals a second one while the first is
served. The bounds limit the environment only; the programs' own steps are
unbounded except for `BackoffMax`, which is the code's.

Deadlock is not checked where the system may rest: a node with the WebSocket up
and the panel's changes used up, and likewise every other model once its
environment's budget is spent or its goroutine has returned.

### Fairness

There is no fairness on the panel's changes, on faults, on edits or signals,
on connecting (except in `WSClient`, where it is the client's own step) or on
disconnecting. What is assumed:

* `NodeMailbox`: the service and a sender's pending notification proceed.
* `NodeSync`: weak fairness on delivery, boot, the pull, the ticker and each
  select case: goroutines are scheduled, requests are answered or time out (the
  HTTP client has a timeout), the ticker keeps ticking, and Go's select picks
  among ready cases at random, so that a case that stays ready is taken.
* `KernelControl`: goroutines proceed, a poll is answered or fails; starting a
  pull and taking its result are strongly fair, as select comes to a case that
  is ready again and again between the main loop's other work.
* `TrafficTracker`: the tracking and the push ticker, and reports that may
  succeed do so; failures are bounded, hence not for ever.
* `Orchestrator`: goroutines proceed, the discovery ticker fires, a cancelled
  service returns; `StopAll` is strongly fair because select comes to the closed
  context between discoveries.
* `WSClient`: the goroutines proceed; the serving loop's cases are strongly fair
  for the same reason; the panel sends its first message and closes a connection
  when asked to. The code has no deadline for either, so this is an assumption on
  the panel and is listed as a hazard.
* `ConfigReload`: goroutines are scheduled, timers fire, an orchestrator that
  does not hang ends when cancelled; the 15-second exit needs no such assumption.

Convergence is claimed once the panel has stopped changing, which the bound on
changes makes it do.

## 5. Proofs

`NodeMailboxProofs` proves, for every set of users, versions, configurations,
device snapshots and readers, from `NilAssumption` alone (nil is no list, no
configuration, no snapshot):

* `MailboxInvariant`: `Spec => []IInv`. `NoLostWakeup` is not inductive: a drain
  clears the dirty flags only if the fields they announce are there, so the
  invariant adds `DirtyFieldsPresent`; and the service must not be ready before
  it owes its own notification, hence `BootOrder`. `BaselineIsHanded`, for lists
  that are not nil, needs `DirtyFieldsPresent` for the list it hands over.
* `MailboxTypeCorrect`, `MailboxLosesNoWakeup`, `MailboxBaselineIsHanded`: its
  consequences.
* `MailboxImplementsFeed`: every step of the mailbox is a step of the abstract
  feed or a stutter under the mapping in `NodeMailbox` (`Latest`, `handed`),
  where the feed's consumer, like the service, keeps its users for a nil list.

`NodeSyncProofs` proves, for every environment the constants describe (any
users, configurations, pushes, drops, failing requests and bounds), from
`NilAssumption`, `ServiceAssumption` and `SyncAssumption` (the constants' types;
a malformed configuration is not one of `Configs`):

* `SyncInvariant`: `Spec => []IInv`. The type invariant is not inductive: that
  the service never gets a malformed configuration needs `PullOrder` (a result to
  be sent is normalised) and `BootOrder` (so is the configuration the kernel
  starts with); that drained fields are not nil needs `DirtyFieldsPresent`.
* `SyncTypeCorrect`: a consequence. That nothing waits in a ready mailbox without
  a token (`MailboxIsAnnounced`) is part of the invariant only: an event and its
  token are one step here, and the race between them is `NodeMailbox`'s.
* `SyncBackoffIsOneTick`: `apiBackoff` doubles a counter that is always zero when
  a pull starts and that nothing raises while one runs (`PullOrder`), so its
  doubling branch is never taken.
* `SyncKernelServesConfig`, under `~KernelMayFail`: the lemmas on `ServiceOps` show
  that each call of the service takes a node whose kernel runs its configuration
  (`Sound`) only to such nodes; the invariant carries it through every action
  that touches the node.
* `SyncKernelServesNode`: if no start of xray fails, and either the panel offers
  no WebSocket or no protocol has a UserManager, the kernel admits exactly the
  node's users. Its inductive invariant is `ServingInv`. Without a UserManager
  the kernel's three lists are one (`NeverSwapped`), so `Reload` may skip what it
  finds unchanged. Without the WebSocket, hot swaps leave the base of the hash
  behind, and `Reload` must not skip: the result a pull brings has a
  configuration that is not the node's, because the pull compares it with the one
  the service held when the pull started, and what was applied since has left
  the kernel freshly started or that configuration as it was (`ResultIsNews`,
  `PullIsNews`).
* `SyncUserUpdateIsServed`, an action property, from `HotSwap = {}`, whatever
  starts fail: with `NeverSwapped`, every way `applyUserUpdate` can end either
  serves the list or restores the former one.
* `SyncBaselineIsCurrent`: while nothing but pushes reaches the node
  (`Undisturbed`: the WebSocket has been up since before it started and stays up,
  the panel is quiet during the boot and keeps a user, xray starts), the baseline
  the next delta is replayed onto is the node's list. `BaselineIsCurrent` says
  nothing of what is in flight or waits to be drained; `Tracked` says that the
  messages in flight, heard in order, lead from the mailbox's list to the
  panel's through lists that are never empty (`Leads`), which rests on what each
  kind of message makes of a list: `AddExact`, `RemoveExact`, `PushLeads` and
  `ApplyFollows`. The drain then hands over exactly the mailbox's list
  (`DrainedUsers`).
* `SyncPushesSuffice`, from the same invariant: once everything sent is heard and
  drained, the node has the panel's users. It is the safety part of
  `UsersConverge` in `push_only`, for any number of users, changes and messages.
* `SyncResyncHasPull`: if no request fails and no configuration is malformed, a
  requested reconciliation that has not lapsed has a pull that has yet to send or a
  result to be applied, hence something that ends it (`ResyncInv`: there is no
  back-off then that could skip the pull; only a goroutine that is `ending` can,
  and then the result it sent still waits, or the request lapses). It is the
  safety part of `ResyncCompletes`, and the premise is what the third entry of section 6 shows to be needed.

The premises of these are those under which the runs `rest_only`,
`kernel_faults`, `push_only` and `drops` check the properties; without them section 6
has counterexamples.

`KernelControlProofs`, from `ControlAssumption` (the main loop is no command, there
is an instance, bounds are natural numbers) and `CertAssumption`, for any number of
goroutines, instances, configurations and users:

* `KernelInvariant`: `Spec => []IInv`. `NoLeakedInstance` and
  `HashDescribesInstance` are not inductive: that `Start` closes the right instance
  and records what the new one has needs `OwnsInstance` (a goroutine about to
  install an instance has it for itself, started with its own arguments) and
  `CurrentIsUp`. `StopIsKept` and `RunningHasInstance` need `StopIsAlone`: a Stop
  that overlapped nothing has no other operation beside it, and once it is done only
  Stops can be under way. `ServesLatest` speaks of nodes at rest; `UpToDate` says
  of each operation under way what it will make of the node, and `Sequential`
  that, without overlap, it is the only one. `HasArguments` and
  `AcmeIsConfigured` carry the types.
* `KernelTypeCorrect`, `NoInstanceEscapes`, `ReloadComparesCurrent`,
  `StatisticsHaveInstance`, `StopIsLasting`, `LatestIsServed`: its consequences.

`TrafficProofs`, from `TrafficAssumption` (bounds are natural numbers):

* `TrafficTypeCorrect`: in particular no delta and no pending traffic is negative.
* `TrafficEachByteOnce`, under `~MayReturn`: for every user, what the kernel will
  still hand over, what is pending, what a report carries and what was billed add
  up to no more than was moved and sent twice. It is the inductive form of
  `NotOverbilled`, which alone says nothing of the bytes under way. What the kernel
  will still hand over is what its counters exceed `lastSeen` by, or all they hold
  if they have gone back; it counts only for users the kernel has, as `lastSeen` of
  the others may be purged. Beside types nothing else is needed.
* `TrafficNotOverbilled`: its consequence.

`OrchestratorProofs`, from `OrchestratorAssumption`, for any nodes and any number
of concurrent discoveries:

* `OrchestratorTypeCorrect`, including where a goroutine has an instance in hand.
* `MachineHasOneServicePerNode`: the invariant adds that a goroutine between
  making a handle and launching its service is that instance's only one.
* `MachineEventsReachService`: `EventsReachService` speaks of services that run,
  and a mailbox is entered under the node's identifier before its service is
  launched and taken out by whoever ends with that identifier. `EInv` adds where
  handle and mailbox are at each step of the only discovery (`OneDiscovery`,
  `StoppedHasNoHandle`, `StartedIsHandled`), that a handle is of its own node's
  instance (`HandlesAgree`), and that nothing runs before the first discovery
  (`BootIsFirst`). A service that has been stopped gets a successor only once it
  has ended (`EndingHasNoSuccessor`), so it cannot take the successor's mailbox.

`LimitDispatcherProofs`, from the assumptions on its constants (addresses are
finitely many numbers, connections finitely many, limits numbers, and 0, which means no limit, is among
`DeviceLimits`), for any users, addresses, connections and limits:

* `Invariance`: the invariants of the run are not inductive. A map entry,
  its counter and the connections it counts change in separate steps, so a
  counter may be below its connections and even below zero for a moment:
  `InRange` bounds it from above by the open connections and from below by those
  that found it at zero and are on their way to delete it. `EntriesAreUsed` says
  that somebody is left who will look at an entry, `ReferencesAreHeld` is the
  exact count of limited addresses, `LimitsAreCurrent` ties a connection's limit
  to the one in force unless it was changed under it, `StepsAgree` what a
  connection's step says of its kind.
  A connection that has loaded a counter which is then taken out adds to it, or
  subtracts, in vain; `WillLook` says that one which is left holding it goes on to
  look whether the ipCounter is empty. `LocalIsNotRemote` needs no more than that
  `RestoreGlobalDevices` is the only step that makes a local address remote.
* `TypeCorrect`, `DevicesConnected`, `CountersDoNotLeak`, `LocalNotRemote`,
  `CapIsHeld`, and `ExistingAllowed`, an action property: its consequences.

`WSClientProofs`, from `ClientAssumption`, for any capacities and faults, also for a
maximum back-off below the initial one, which nothing refuses (the back-off then
never changes):

* `ClientInvariant`, `ClientTypeCorrect`, `NodeKnowsConnection`: `StatusIsCurrent`
  is not inductive; `FlagFollowsLoop` ties the flag to where `Run` is.
* `ClientImplementsLink`: every step is a step of `WSLink` or a stutter.

`ReloadProofs`, from `ReloadAssumption` (the files are well formed):

* `ReloadInvariant`: types, the orchestrators are those of the configuration in
  force (`OrchsOfRoot`), the health port is remembered as it is (`HealthKnown`).
* `ReloadTypeCorrect`, `OrchestratorsAreSeparate`, `HealthFollowsConfig`. The
  second rests on what validation rejects, for any content of the files and
  whatever `NormalizedURL` makes of their URLs.

Only model-checked: all liveness (`UsersConverge`, `ConfigConverges`,
`ResyncCompletes`, `AllIsBilled`, `AliveIPsFlushed`, `ShutdownCompletes`,
`Converges`, `Reconnects`, `MessagesHandled`, `EditApplied`, `SignalEnds`,
`RenewalServed`, and that the feed is handed over *eventually*). Liveness and
ENABLED are beyond the proof system; so is what a recursive definition computes
for every input, which is why the proofs keep the content of configuration files
opaque. The list a delta makes of another is no recursion, and is proved.

## 6. Where the code and its word disagree

Found while modelling. The first has a run; the others were shown by TLC in the
environments named, or by the theorem or step named, are listed as hazards, and
are the reason for the premises of the properties that pass.

1. **A stop that is not kept** (run `stop_not_kept`). `Stop` clears
   `kernelDesired` and stops the instance the wrapper has (`service.go:824`);
   a `Start` under way installs its own afterwards and looks at neither
   (`xray.go:156-174`). The comment: "survives user/config sync"
   (`service.go:815`).
2. **The last user is never removed.** A delta that removes the last user leaves
   a nil list (`mailbox.go:256`), which `handleWSEvent` takes for no list
   (`service.go:555`). `ws.go:448-450` says of the full-sync form: "Empty full
   sync is valid ... Dropping it while WS is connected ... leaves stale accounts
   in the kernel indefinitely." Hence lists never empty in `push_only`. The
   mailbox goes on from no users: hence the exception in `BaselineIsHanded` and
   the nil list of `LatestFeed`.
3. **A reconciliation that is asked for once.** `wsResyncPending` is cleared only
   by a pull's result (`service.go:471`); after a pull that fails or is skipped,
   every later request returns at once. Hence no failing request in `drops`. No
   request need fail: between the send of a result (`service.go:680-683`) and the
   deferred `pullActive.Store(false)` (`:658`) the main loop may apply that result,
   be asked for a reconciliation and have its pull skipped (`:644`). It stays
   pending as long as the WebSocket is up (`lapsed`).
4. **First users.** `applyUserUpdate` starts the kernel before it records the
   users (`service.go:929`); when the first users arrive after a boot without
   any, the kernel stays down. The boot says "kernel will not start until users
   are available" (`service.go:357`).
5. **The skipped reconnection pull.** It is skipped while another is active, whose
   answer may be older than the last change of the window (`service.go:644`). The
   comment: "proactively pull once to ensure we haven't missed any updates during
   the disconnection window" (`service.go:507-508`).
6. **A stale baseline.** `applyPullResult` does not update the mailbox
   (`service.go:718`); the next delta is replayed on the older list and undoes the
   pull. Hence `BaselineIsCurrent` in `push_only` only.
7. **A lost configuration.** `Poll` drops the configuration it has when `GetUsers`
   fails (`controlplane/machine.go:102`), but the ETag is kept
   (`panel/client.go:232-234`) and the next answer is 304. Hence
   `ConfigConverges` in `push_only` only.
8. **A reload that does nothing.** A pull that a push has overtaken brings back an
   older list; if it is the one of the last `Start`, `Reload` finds its hash
   unchanged (`xray.go:206`) and leaves the accounts that were hot-swapped since.
   Hence `KernelServesNode` in `rest_only` only, and `skip` in `ServesLatest`.
9. **A back-off that is not exponential.** "apiBackoff implements simple
   exponential backoff for API failures" (`service.go:97`). `shouldSkip` has
   counted down to zero before a request can fail again, so the doubling branch
   (`:124-125`) is dead and a failure skips one tick, as `SyncBackoffIsOneTick`
   proves for every environment.
10. **A ping nobody answers.** `connect` gives the first message to
   `handleMessage` (`ws.go:283-288`), which only logs a ping (`:370-372`); the pong
   is sent by the reader (`:319-325`), which starts later. See `Authenticate`.
11. **One panel, two identifiers.** `normalizeBaseURL` (`config.go:667-683`) lowers
   the scheme and the host and drops query, fragment and one slash; a default
   port or a further slash makes another identifier, and one machine runs twice.
   Directories are compared as strings (`:819-824`). The file `aliased` of `MCReload` does so.
12. **A remote address that is local.** "only non-local IPs are stored here"
   (`dispatcher.go:212-213`) is not so after a `Start`: `restoreGlobalDevices` runs after
   the unlock (`xray.go:177-179`) and overwrites what the new dispatcher, which already
   serves, was told, without a look at the addresses that have connected
   (`dispatcher.go:292-299`). Hence `revived` in `LocalIsNotRemote`.
## 7. Not modelled

Named in `components` of `PROJECT.json` with the reason:

* **Speed and device limiter.** Token buckets over wall-clock time and a
  copy-on-write map; its rates are arithmetic on durations.
* **Process log.** A ring of lines under one mutex that no other component reads
  to decide anything.
* **Xray configuration generator, panel model, DNS providers.** Pure translation
  and validation of values; of the model, only that normalisation accepts or
  refuses a configuration.
* **Monitoring, operations helpers, fbctl, scripts.** Host I/O.
* **Of the service**: metrics, upgrade and restart requests, runtime validation.
  `applyUserDelta` and the delta, upgrade and restart branches of `handleWSEvent`
  are unreachable: only the machine control plane exists, it feeds no events
  channel, and a drained mailbox yields configurations, full lists and devices.
* **Of the orchestrator**: machine status and log reports, upgrade and restart
  of the host's service.
* **Of the kernel**: `AddUsers` and `RemoveUsers`, which have no reachable caller;
  the links' rate limiters.
* **Of the certificates**: a callback of the ACME library that comes after its
  manager was cancelled.
