------------------------------ MODULE NodeSync ------------------------------
(***************************************************************************)
(* One node kept in step with the panel, end to end: the panel's           *)
(* configuration and user list, the WebSocket mux that pushes changes into *)
(* the node's mailbox and announces its connectivity, the goroutine that   *)
(* pulls both over REST with cached ETags, and the service's select loop   *)
(* that applies whatever arrives to the node and its kernel.               *)
(*                                                                         *)
(* The panel is external: it is modelled from how the client uses it.  An  *)
(* ETag is the value it stands for.  The lists a node holds are in         *)
(* ServiceOps, the mailbox in MailboxOps; here a mailbox event and its     *)
(* notification are one step, NodeMailbox takes them apart.                *)
(***************************************************************************)
EXTENDS ServiceOps, Integers, Sequences

CONSTANTS
    WsEnabled,     \* the panel offers the WebSocket
    FirstLink,     \* whether it may be, or not be, up when the node starts
    Malformed,     \* configurations of the panel that fail normalisation
    Pushes,        \* how the panel pushes a new user list
    Greets,        \* whether the panel pushes a snapshot on connection
    MayBeEmpty,    \* whether the panel's user list may be empty
    EarlyChanges,  \* whether the panel may change while the node boots
    MaxChanges,    \* bound on the changes made at the panel
    MaxDrops,      \* bound on the disconnections of the WebSocket
    MaxRestFaults, \* bound on the failing REST requests
    MaxInFlight,   \* bound on the pushed messages in flight
    StatusCap      \* capacity of wsStatusCh

ASSUME SyncAssumption ==
    /\ WsEnabled \in BOOLEAN
    /\ FirstLink \subseteq {WsEnabled, FALSE}
    /\ Malformed \cap (Configs \cup {Nil}) = {}
    /\ Pushes \subseteq {"full", "add", "remove"}
    /\ Greets \subseteq BOOLEAN
    /\ MayBeEmpty \in BOOLEAN
    /\ EarlyChanges \in BOOLEAN
    /\ {MaxChanges, MaxDrops, MaxRestFaults, MaxInFlight} \subseteq Nat
    /\ StatusCap \in Nat \ {0}

VARIABLES
    panel,     \* the panel's configuration and users of this node
    link,      \* the WebSocket is connected
    wsQ,       \* pushed messages on their way to the mailbox
    statuses,  \* wsStatusCh: connectivity changes, as booleans
    mb,        \* the node's mailbox
    token,     \* its notifyCh holds a token
    tags,      \* configETag and userETag of the node's REST client
    pull,      \* the pull goroutine; only when "idle" is pullActive false
    results,   \* pullResults, of capacity 1
    backoff,   \* pullBackoff.skipRemaining
    phase,     \* how far the service is in initialSetup, then "run"
    node,      \* lastConfig, lastUsers and the kernel
    resync,    \* wsResyncPending, and whether a pull answers to it
    budget     \* what is left of the bounds

vars == <<panel, link, wsQ, statuses, mb, token, tags, pull, results,
          backoff, phase, node, resync, budget>>
wsVars == <<link, wsQ, statuses>>
mbVars == <<mb, token>>
pullVars == <<pull, backoff>>
serviceVars == <<phase, node, resync>>

PanelConfigs == Configs \cup Malformed
PanelLists == {us \in UserLists : us # EmptyList \/ MayBeEmpty}

Messages == Events \cup [type : {"sync.config"}, config : Malformed]

\* "ending" is a goroutine that has sent its result, or failed, and has not yet
\* come to its deferred pullActive.Store(false).
Pulls == [pc : {"idle", "config", "users", "send", "ending"},
          seen : Configs \cup {Nil},        \* currentConfigHash
          config : PanelConfigs \cup {Nil},
          users : UserLists \cup {Nil}]

NoPull == [pc |-> "idle", seen |-> Nil, config |-> Nil, users |-> Nil]
Ending == [NoPull EXCEPT !.pc = "ending"]

\* wsResyncPending is true unless "none".  "lapsed" tells a request whose pull
\* was skipped for one whose result had already been applied.
Resyncs == {"none", "asked", "lapsed"}

TypeOK ==
    /\ panel \in [config : PanelConfigs, users : PanelLists,
                  devices : DeviceSets \cup {Nil}]
    /\ link \in BOOLEAN
    /\ wsQ \in Seq(Messages) /\ Len(wsQ) <= MaxInFlight
    /\ statuses \in Seq(BOOLEAN) /\ Len(statuses) <= StatusCap
    /\ mb \in Mailboxes
    /\ token \in BOOLEAN
    /\ tags \in [config : PanelConfigs \cup {Nil},
                 users : UserLists \cup {Nil}]
    /\ pull \in Pulls
    /\ results \in Seq(PullResults) /\ Len(results) <= 1
    /\ backoff \in 0..8
    /\ phase \in {"config", "users", "start", "run", "exited"}
    /\ node \in Nodes
    /\ resync \in Resyncs
    /\ budget \in [changes : 0..MaxChanges, drops : 0..MaxDrops,
                   rest : 0..MaxRestFaults]

Init ==
    /\ panel \in [config : Configs \ Unsupported, users : PanelLists,
                  devices : {Nil}]
    /\ link \in FirstLink
    /\ wsQ = <<>>
    /\ statuses = <<>>
    /\ mb = NewNodeMailbox
    /\ token = FALSE
    /\ tags = [config |-> Nil, users |-> Nil]
    /\ pull = NoPull
    /\ results = <<>>
    /\ backoff = 0
    /\ phase = "config"
    /\ node = NewNode
    /\ resync = "none"
    /\ budget = [changes |-> MaxChanges, drops |-> MaxDrops,
                 rest |-> MaxRestFaults]

-----------------------------------------------------------------------------
(* The panel and the WebSocket. *)

\* The messages that may tell the node of a new user list.
UserPushes(old, new) ==
    LET changed == ToAdd(old, new)
        gone == DOMAIN old \ DOMAIN new
    IN  {[type |-> "sync.users", users |-> new] : p \in Pushes \cap {"full"}}
        \cup
        {[type |-> "sync.user.delta", action |-> "add",
          delta |-> Restrict(new, changed)]
         : p \in IF gone = {} THEN Pushes \cap {"add"} ELSE {}}
        \cup
        {[type |-> "sync.user.delta", action |-> "remove",
          delta |-> Restrict(old, gone)]
         : p \in IF changed = {} THEN Pushes \cap {"remove"} ELSE {}}

\* The panel changes something, and pushes it to a connected node.
Change(new, messages) ==
    /\ budget.changes > 0
    /\ phase = "run" \/ EarlyChanges
    /\ panel' = new
    /\ IF link
       THEN /\ Len(wsQ) < MaxInFlight
            /\ \E m \in messages : wsQ' = Append(wsQ, m)
       ELSE wsQ' = wsQ
    /\ budget' = [budget EXCEPT !.changes = @ - 1]
    /\ UNCHANGED <<link, statuses, mbVars, tags, pullVars, results,
                   serviceVars>>

ChangeConfig(cfg) ==
    /\ cfg # panel.config
    /\ Change([panel EXCEPT !.config = cfg],
              {[type |-> "sync.config", config |-> cfg]})

ChangeUsers(us) ==
    /\ us # panel.users
    /\ Change([panel EXCEPT !.users = us], UserPushes(panel.users, us))

\* The fleet's devices are only ever pushed.
ChangeDevices(ds) ==
    /\ link
    /\ ds # panel.devices
    /\ Change([panel EXCEPT !.devices = ds],
              {[type |-> "sync.devices", devices |-> ds]})

\* onWSStatus: a node whose channel is full misses the change, and so does
\* one that has not registered its channel yet.
Announce(connected) ==
    statuses' = IF Len(statuses) < StatusCap
                   /\ phase \in {"start", "run", "exited"}
                THEN Append(statuses, connected) ELSE statuses

\* The reader of the broken connection may still have one message in hand.
Disconnect ==
    /\ link
    /\ budget.drops > 0
    /\ link' = FALSE
    /\ \/ wsQ' = <<>>
       \/ wsQ # <<>> /\ wsQ' = <<Head(wsQ)>>
    /\ Announce(FALSE)
    /\ budget' = [budget EXCEPT !.drops = @ - 1]
    /\ UNCHANGED <<panel, mbVars, tags, pullVars, results, serviceVars>>

Connect ==
    /\ WsEnabled
    /\ ~link
    /\ link' = TRUE
    /\ \E greet \in Greets :
          IF greet
          THEN /\ Len(wsQ) + 2 <= MaxInFlight
               /\ wsQ' = wsQ \o <<[type |-> "sync.config",
                                   config |-> panel.config],
                                  [type |-> "sync.users",
                                   users |-> panel.users]>>
          ELSE wsQ' = wsQ
    /\ Announce(TRUE)
    /\ UNCHANGED <<panel, mbVars, tags, pullVars, results, serviceVars,
                   budget>>

\* onWSEvent: a message that cannot be translated is dropped.
Deliver ==
    /\ wsQ # <<>>
    /\ wsQ' = Tail(wsQ)
    /\ IF Head(wsQ) \in Events
       THEN mb' = Apply(mb, Head(wsQ)) /\ token' = TRUE
       ELSE UNCHANGED mbVars
    /\ UNCHANGED <<panel, link, statuses, tags, pullVars, results,
                   serviceVars, budget>>

-----------------------------------------------------------------------------
(* initialSetup. *)

\* Run returns an error: nothing restarts the service.
Exit ==
    /\ phase' = "exited"
    /\ UNCHANGED <<node, resync, mbVars>>

BootConfig ==
    /\ phase = "config"
    /\ tags' = [tags EXCEPT !.config = panel.config]
    /\ phase' = "users"
    /\ UNCHANGED <<panel, wsVars, mbVars, pullVars, results, node, resync,
                   budget>>

\* The configuration is normalised once both are there.
BootUsers ==
    /\ phase = "users"
    /\ tags' = [tags EXCEPT !.users = panel.users]
    /\ phase' = IF tags.config \in Malformed THEN "exited" ELSE "start"
    /\ UNCHANGED <<panel, wsVars, mbVars, pullVars, results, node, resync,
                   budget>>

BootFails ==
    /\ phase \in {"config", "users"}
    /\ budget.rest > 0
    /\ budget' = [budget EXCEPT !.rest = @ - 1]
    /\ Exit
    /\ UNCHANGED <<panel, wsVars, tags, pullVars, results>>

\* StartPull(cfg) is pullViaAPIAsync with cfg the configuration the service
\* holds.
StartPull(cfg) ==
    \/ /\ pull.pc # "idle"
       /\ UNCHANGED pullVars
    \/ /\ pull.pc = "idle"
       /\ backoff > 0
       /\ backoff' = backoff - 1
       /\ UNCHANGED pull
    \/ /\ pull.pc = "idle"
       /\ backoff = 0
       /\ pull' = [NoPull EXCEPT !.pc = "config", !.seen = cfg]
       /\ UNCHANGED backoff

\* drainMachineMailbox of the mailbox m by the service n, which may end in
\* requestWSResync.
Drain(m, n) ==
    LET state == MailboxState(m)
    IN  /\ mb' = DrainIfReady(m)
        /\ node' \in Drained(n, state)
        /\ IF state.NeedsReconcile /\ resync = "none"
           THEN /\ resync' = IF pull.pc = "ending" /\ results = <<>>
                             THEN "lapsed" ELSE "asked"
                /\ StartPull(node'.config)
           ELSE UNCHANGED <<resync, pullVars>>

\* The rest of initialSetup: the kernel starts, and only then is the mailbox
\* seeded, marked ready and drained.
BootStart ==
    /\ phase = "start"
    /\ tags.config \notin Unsupported
    /\ phase' = "run"
    /\ \E n \in BootOutcomes(tags.config, tags.users) :
          IF WsEnabled
          THEN /\ Drain(MarkReady(SeedBaseline(mb, CopyOntoNil(n.users),
                                               n.config)), n)
               /\ token' = TRUE
          ELSE node' = n /\ UNCHANGED <<mbVars, resync, pullVars>>
    /\ UNCHANGED <<panel, wsVars, tags, results, budget>>

BootRefused ==
    /\ phase = "start"
    /\ \/ tags.config \in Unsupported
       \/ KernelMayFail /\ tags.users # EmptyList
    /\ Exit
    /\ UNCHANGED <<panel, wsVars, tags, pullVars, results, budget>>

-----------------------------------------------------------------------------
(* The pull goroutine. *)

\* The value a request answers with: Nil if the ETag still matches.
Answer(tag, current) == IF tag = current THEN Nil ELSE current

\* GetConfig keeps the ETag as soon as it has an answer.
PullConfig ==
    /\ pull.pc = "config"
    /\ pull' = [pull EXCEPT !.pc = "users",
                            !.config = Answer(tags.config, panel.config)]
    /\ tags' = [tags EXCEPT !.config = panel.config]
    /\ UNCHANGED <<panel, wsVars, mbVars, results, backoff, serviceVars,
                   budget>>

\* onFailure.
Doubled == IF backoff <= 0 THEN 1
           ELSE IF backoff < 8 THEN 2 * backoff ELSE backoff

PullFails == pull' = Ending /\ backoff' = Doubled

\* GetUsers, then the normalisation of the configuration, then the
\* comparison with the configuration the service held when the pull started.
PullUsers ==
    /\ pull.pc = "users"
    /\ tags' = [tags EXCEPT !.users = panel.users]
    /\ IF pull.config \in Malformed
       THEN PullFails
       ELSE /\ pull' = [pull EXCEPT
                          !.pc = "send",
                          !.config = IF @ = pull.seen THEN Nil ELSE @,
                          !.users = Answer(tags.users, panel.users)]
            /\ backoff' = 0
    /\ UNCHANGED <<panel, wsVars, mbVars, results, serviceVars, budget>>

\* Mutant: GetUsers keeps the ETag of an answer it could not read.
PullRequestFailsTagged ==
    /\ pull.pc \in {"config", "users"}
    /\ budget.rest > 0
    /\ budget' = [budget EXCEPT !.rest = @ - 1]
    /\ PullFails
    /\ tags' = IF pull.pc = "users" THEN [tags EXCEPT !.users = panel.users]
               ELSE tags
    /\ UNCHANGED <<panel, wsVars, mbVars, results, serviceVars>>

PullRequestFails ==
    /\ pull.pc \in {"config", "users"}
    /\ budget.rest > 0
    /\ budget' = [budget EXCEPT !.rest = @ - 1]
    /\ PullFails
    /\ UNCHANGED <<panel, wsVars, mbVars, tags, results, serviceVars>>

\* pullResults takes one result; with it there the goroutine waits.
PullSend ==
    /\ pull.pc = "send"
    /\ results = <<>>
    /\ results' = <<[config |-> pull.config, users |-> pull.users]>>
    /\ pull' = Ending
    /\ UNCHANGED <<panel, wsVars, mbVars, tags, backoff, serviceVars, budget>>

\* The deferred pullActive.Store(false), after main may have taken the result.
PullEnds ==
    /\ pull.pc = "ending"
    /\ pull' = NoPull
    /\ UNCHANGED <<panel, wsVars, mbVars, tags, results, backoff, serviceVars,
                   budget>>

-----------------------------------------------------------------------------
(* The select loop of Run. *)

\* Polling is skipped while the WebSocket is connected.
PullTick ==
    /\ phase = "run"
    /\ ~link
    /\ StartPull(node.config)
    /\ UNCHANGED <<panel, wsVars, mbVars, tags, results, serviceVars, budget>>

\* Mutant: only a result that carries something ends a reconciliation.
ApplyPullResultIfNews ==
    /\ phase = "run"
    /\ results # <<>>
    /\ results' = <<>>
    /\ resync' = IF Head(results) = [config |-> Nil, users |-> Nil]
                 THEN resync ELSE "none"
    /\ node' \in PullApplied(node, Head(results))
    /\ UNCHANGED <<panel, wsVars, mbVars, tags, pullVars, phase, budget>>

ApplyPullResult ==
    /\ phase = "run"
    /\ results # <<>>
    /\ results' = <<>>
    /\ resync' = "none"
    /\ node' \in PullApplied(node, Head(results))
    /\ UNCHANGED <<panel, wsVars, mbVars, tags, pullVars, phase, budget>>

HandleStatus ==
    /\ phase = "run"
    /\ statuses # <<>>
    /\ statuses' = Tail(statuses)
    /\ node' = IF Head(statuses) THEN node
               ELSE [node EXCEPT !.kernel.devices = Nil]
    /\ StartPull(node.config)
    /\ UNCHANGED <<panel, link, wsQ, mbVars, tags, results, phase, resync,
                   budget>>

DrainMailbox ==
    /\ phase = "run"
    /\ token
    /\ token' = FALSE
    /\ Drain(mb, node)
    /\ UNCHANGED <<panel, wsVars, tags, results, phase, budget>>

-----------------------------------------------------------------------------
Panel == \/ \E cfg \in PanelConfigs : ChangeConfig(cfg)
         \/ \E us \in PanelLists : ChangeUsers(us)
         \/ \E ds \in DeviceSets : ChangeDevices(ds)

Boot == BootConfig \/ BootUsers \/ BootFails \/ BootStart \/ BootRefused

Pull == \/ PullConfig
        \/ PullUsers
        \/ PullRequestFails
        \/ PullSend
        \/ PullEnds

Next == \/ Panel
        \/ Connect
        \/ Disconnect
        \/ Deliver
        \/ Boot
        \/ Pull
        \/ PullTick
        \/ ApplyPullResult
        \/ HandleStatus
        \/ DrainMailbox

Spec == Init /\ [][Next]_vars

\* Goroutines are scheduled and requests are answered or time out; select
\* picks among its ready cases at random, so none is passed over for ever;
\* the ticker keeps ticking.  Nothing obliges the panel to change, nor the
\* WebSocket to connect or to break.
FairSpec ==
    /\ Spec
    /\ WF_vars(Deliver)
    /\ WF_vars(Boot)
    /\ WF_vars(Pull)
    /\ WF_vars(PullTick)
    /\ WF_vars(ApplyPullResult)
    /\ WF_vars(HandleStatus)
    /\ WF_vars(DrainMailbox)

-----------------------------------------------------------------------------
(* Properties. *)

\* A running kernel runs with the node's configuration, whichever of the
\* pushes and pulls brought it: startKernel, ensureRunning, applyChanges and
\* the unchanged hash in Reload never leave lastConfig ahead of the kernel.
KernelServesConfig == RunsItsConfig(node)

\* It also admits exactly the node's users (lastUsers), which is what
\* appliedState records after a Start, an UpdateUsers or a Reload.
KernelServesNode ==
    /\ KernelServesConfig
    /\ node.kernel.running => node.kernel.accounts = node.users

\* A user list that arrives without a configuration is recorded only if the
\* kernel comes to admit it: where UpdateUsers and the restart after it fail,
\* applyUserUpdate restores the previous list.
UserUpdateIsServed ==
    [][/\ results # <<>> /\ results' = <<>>
       /\ Head(results).config = Nil
       /\ node'.users # node.users
       => (node'.kernel.running => node'.kernel.accounts = node'.users)]_vars

\* The mailbox's complete list, where nothing waits to be drained, is the
\* node's list: the next delta is replayed onto what the node runs with.
BaselineIsCurrent ==
    mb.ready /\ mb.hasFullUserState /\ ~mb.dirtyUsers =>
        AsList(mb.users) = node.users

\* Nothing waits in a ready mailbox without a token to wake the service.
MailboxIsAnnounced == mb.ready /\ Pending(mb) => token

\* A dirty field of the mailbox is there.
DirtyFieldsPresent ==
    /\ mb.dirtyConfig => mb.config # Nil
    /\ mb.dirtyDevices => mb.deviceUsers # Nil

\* What initialSetup has got from the panel, and that no pull runs before the
\* select loop does.
BootOrder ==
    /\ phase = "users" => tags.config # Nil
    /\ phase = "start" => tags.config \in Configs /\ tags.users # Nil
    /\ phase # "run" => pull.pc = "idle"

\* A result to be sent is normalised; a pull starts with no back-off and
\* nothing backs off while it runs.
PullOrder ==
    /\ pull.pc = "send" => pull.config \notin Malformed
    /\ pull.pc \in {"config", "users"} => backoff = 0

\* apiBackoff skips one tick after a failure, never more.
BackoffIsOneTick == backoff \in {0, 1}

\* The inductive invariant of the proofs.
IInv ==
    /\ TypeOK
    /\ BootOrder
    /\ PullOrder
    /\ BackoffIsOneTick
    /\ DirtyFieldsPresent
    /\ MailboxIsAnnounced
    /\ ~KernelMayFail => KernelServesConfig

\* A reconciliation that was requested (requestWSResync) is carried out: the
\* pull it starts, or the one it found under way, is applied and clears
\* wsResyncPending.  One that lapsed because that pull had only its deferred
\* Store left has to wait until the WebSocket is away, when the ticker pulls.
ResyncCompletes ==
    resync # "none" ~> \/ resync = "none"
                       \/ resync = "lapsed" /\ link

\* Once the panel stops changing, the node comes to have its user list: no
\* push, pull or stale result applied on the way replaces it for good.
UsersConverge == <>[](phase = "exited" \/ node.users = panel.users)

\* The configurations the node has a kernel for.
Usable == Configs \ Unsupported

\* Once the panel stops changing, the node comes to have its configuration
\* (lastConfig), if it is one the node can use.
ConfigConverges ==
    <>[](\/ phase = "exited"
         \/ panel.config \notin Usable
         \/ node.config = panel.config)

-----------------------------------------------------------------------------
(* The inductive invariants of KernelServesNode and UserUpdateIsServed.    *)

\* No hot swap has changed the accounts since the kernel started, so the base
\* of lastKernelHash is what the kernel admits.
Unswapped(n) == n.kernel.running => n.kernel.base = n.kernel.accounts

\* The kernel never swaps: its base, its list and its accounts are the same.
NeverSwapped(n) ==
    n.kernel.running =>
        /\ n.kernel.base = n.kernel.accounts
        /\ n.kernel.users = n.kernel.accounts

\* A running kernel runs with the node's configuration and users, and keeps
\* the list it admits.
Serves(n) ==
    n.kernel.running =>
        /\ n.kernel.config = n.config
        /\ n.kernel.users = n.users
        /\ n.kernel.accounts = n.users

\* Without the WebSocket nothing but pulls reaches the service.
OnlyPulls ==
    ~WsEnabled => ~link /\ wsQ = <<>> /\ statuses = <<>> /\ ~token

\* The configuration of a result is not the node's, so that Reload does not
\* skip it, unless the base of the hash is what the kernel admits.  A pull
\* compares with the configuration the service held when it started: a result
\* applied since has left the kernel freshly started or the configuration as
\* it was.
ResultIsNews ==
    results # <<>> /\ Head(results).config # Nil =>
        Head(results).config # node.config \/ Unswapped(node)
PullIsNews ==
    /\ pull.pc \notin {"idle", "ending"} =>
          \/ pull.seen = node.config
          \/ results = <<>> /\ Unswapped(node)
    /\ pull.pc = "send" /\ pull.config # Nil => pull.config # pull.seen

ServingInv ==
    /\ OnlyPulls
    /\ HotSwap = {} => NeverSwapped(node)
    /\ ~WsEnabled /\ ~KernelMayFail => ResultIsNews /\ PullIsNews
    /\ ~KernelMayFail /\ (~WsEnabled \/ HotSwap = {}) => Serves(node)

-----------------------------------------------------------------------------
(* The inductive invariant of BaselineIsCurrent.                           *)

\* The WebSocket has been up since before the node started, the panel changes
\* nothing while the node boots and never takes the last user away, and no
\* start of xray fails.
Undisturbed ==
    /\ FirstLink = {TRUE} /\ ~EarlyChanges /\ ~MayBeEmpty /\ ~KernelMayFail
    /\ budget.drops = MaxDrops

\* The list that results from us when a message is heard.
After(us, m) ==
    CASE m.type = "sync.users" -> m.users
      [] m.type = "sync.user.delta" -> ReplayDelta(us, m.action, m.delta)
      [] OTHER -> us

FilledLists == UserLists \ {EmptyList}

\* The messages in flight, heard in order, lead from one list to the other;
\* each of them is one the mailbox can replay.
Leads(from, q, to) ==
    /\ \A k \in DOMAIN q :
          q[k].type = "sync.user.delta" => q[k].action \in KnownActions
    /\ \E lists \in [0..Len(q) -> FilledLists] :
          /\ lists[0] = from /\ lists[Len(q)] = to
          /\ \A k \in 1..Len(q) : lists[k] = After(lists[k - 1], q[k])

\* The mailbox has a complete list that the messages in flight bring to that
\* of the panel, and the node has it or is about to drain it.
Tracked ==
    /\ mb.ready /\ mb.hasFullUserState /\ ~mb.needsReconcile
    /\ Leads(mb.users, wsQ, panel.users)
    /\ ~mb.dirtyUsers => mb.users = node.users

TrackingInv ==
    Undisturbed =>
        /\ link /\ statuses = <<>> /\ pull.pc = "idle" /\ results = <<>>
        /\ phase # "run" => wsQ = <<>> /\ mb = NewNodeMailbox
        /\ phase = "start" => tags.users = panel.users
        /\ phase = "run" => Tracked

-----------------------------------------------------------------------------
(* What ResyncCompletes rests on.                                          *)

\* No request fails and no configuration fails to be normalised.
Steady == MaxRestFaults = 0 /\ Malformed = {}

\* The pull goroutine has yet to send its result.
PullIsOpen == pull.pc \in {"config", "users", "send"}

\* A requested reconciliation that has not lapsed has a pull under way, or its
\* result waits to be applied: no back-off has skipped it.
ResyncInv ==
    Steady =>
        /\ backoff = 0
        /\ resync = "asked" => PullIsOpen \/ results # <<>>

=============================================================================
