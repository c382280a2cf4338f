---------------------------- MODULE NodeMailbox ----------------------------
(***************************************************************************)
(* A NodeMailbox with the goroutines that use it: the WebSocket readers    *)
(* that Apply events (the mux has one, and for a moment a second one while *)
(* it reconnects), and the node service that seeds it, marks it ready and  *)
(* then drains it whenever notifyCh has a token.                           *)
(*                                                                         *)
(* A method is two steps where the code unlocks before it notifies.        *)
(***************************************************************************)
EXTENDS MailboxOps

CONSTANT Senders      \* goroutines that call Apply

VARIABLES
    mb,      \* the NodeMailbox
    token,   \* notifyCh (capacity 1) holds a token
    sender,  \* where each sender is
    service, \* where the service's main goroutine is
    handed   \* what the service holds: its REST snapshot, then what it took
             \* of each drain

vars == <<mb, token, sender, service, handed>>

\* The service reaches the mailbox in this order; "wait" is its select loop.
ServiceSteps == {"seed", "mark", "notify", "drain", "wait"}

Snapshots == [config : Configs, users : UserLists,
              devices : DeviceSets \cup {Nil}]

TypeOK ==
    /\ mb \in Mailboxes
    /\ token \in BOOLEAN
    /\ sender \in [Senders -> {"idle", "notify"}]
    /\ service \in ServiceSteps
    /\ handed \in Snapshots

\* startNode creates and publishes the mailbox before the service takes its
\* REST snapshot; the service comes here with that snapshot.
Init ==
    /\ mb = NewNodeMailbox
    /\ token = FALSE
    /\ sender = [s \in Senders |-> "idle"]
    /\ service = "seed"
    /\ handed \in {snap \in Snapshots : snap.devices = Nil}

-----------------------------------------------------------------------------
(* The senders. *)

\* Mutant: a delta that only asks for a reconciliation notifies nobody.
ApplyEventSilentReconcile(s, e) ==
    /\ sender[s] = "idle"
    /\ mb' = Apply(mb, e)
    /\ sender' = IF e.type = "sync.user.delta" /\ ~Replayable(mb, e.action)
                 THEN sender ELSE [sender EXCEPT ![s] = "notify"]
    /\ UNCHANGED <<token, service, handed>>

\* The critical section of Apply.
ApplyEvent(s, e) ==
    /\ sender[s] = "idle"
    /\ mb' = Apply(mb, e)
    /\ sender' = [sender EXCEPT ![s] = "notify"]
    /\ UNCHANGED <<token, service, handed>>

\* notify: a non-blocking send on notifyCh.
Notify(s) ==
    /\ sender[s] = "notify"
    /\ token' = TRUE
    /\ sender' = [sender EXCEPT ![s] = "idle"]
    /\ UNCHANGED <<mb, service, handed>>

-----------------------------------------------------------------------------
(* The service. *)

\* prepareUserState keeps s.lastUsers as a copy onto nil, so after an empty
\* REST snapshot there is no baseline to seed.
ServiceSeed ==
    /\ service = "seed"
    /\ mb' = SeedBaseline(mb, CopyOntoNil(handed.users), handed.config)
    /\ service' = "mark"
    /\ UNCHANGED <<token, sender, handed>>

ServiceMarkReady ==
    /\ service = "mark"
    /\ mb' = MarkReady(mb)
    /\ service' = "notify"
    /\ UNCHANGED <<token, sender, handed>>

ServiceNotify ==
    /\ service = "notify"
    /\ token' = TRUE
    /\ service' = "drain"
    /\ UNCHANGED <<mb, sender, handed>>

\* What the service holds after it took the drained state: handleWSEvent
\* takes a nil list, which is what a delta that removes the last user leaves,
\* for no list.
Take(snap, state) ==
    [config |-> IF state.HasConfig THEN state.Config ELSE snap.config,
     users |-> IF state.HasUsers /\ state.Users # Nil THEN state.Users
                                                      ELSE snap.users,
     devices |-> IF state.HasDevices THEN state.DeviceUsers
                                     ELSE snap.devices]

ServiceDrain ==
    /\ service = "drain"
    /\ mb' = DrainIfReady(mb)
    /\ handed' = Take(handed, MailboxState(mb))
    /\ service' = "wait"
    /\ UNCHANGED <<token, sender>>

\* case <-s.machineMailboxCh
ServiceWake ==
    /\ service = "wait"
    /\ token
    /\ token' = FALSE
    /\ service' = "drain"
    /\ UNCHANGED <<mb, sender, handed>>

Service == \/ ServiceSeed
           \/ ServiceMarkReady
           \/ ServiceNotify
           \/ ServiceDrain
           \/ ServiceWake

Next ==
    \/ \E s \in Senders : \/ \E e \in Events : ApplyEvent(s, e)
                          \/ Notify(s)
    \/ Service

Spec == Init /\ [][Next]_vars

\* Goroutines are scheduled: a sender that is past its critical section
\* notifies, and the service does not stop.  Nothing obliges the panel to
\* send an event.
FairSpec ==
    /\ Spec
    /\ \A s \in Senders : WF_vars(Notify(s))
    /\ WF_vars(Service)

-----------------------------------------------------------------------------
(* Properties. *)

\* No wakeup is lost.  An event that sits in a ready mailbox is about to be
\* drained: its token is in notifyCh, or the goroutine that owes the token
\* has not yet sent it, or the service is already on its way to DrainIfReady.
\* The unlock between the event and its token is what puts this at risk.
NoLostWakeup ==
    mb.ready /\ Pending(mb) =>
        \/ token
        \/ service \in {"notify", "drain"}
        \/ \E s \in Senders : sender[s] = "notify"

\* A list that is complete, drained and not nil is the list the service
\* holds: the baseline that the next delta is replayed onto is what the
\* service runs with.  A nil list is the exception the code makes: the mailbox
\* goes on from no users while the service keeps those it had.
BaselineIsHanded ==
    mb.hasFullUserState /\ ~mb.dirtyUsers /\ mb.users # Nil
        => mb.users = handed.users

\* The inductive invariant of the proofs: besides the above, the order in
\* which the service boots, and what a dirty flag says of the field it is
\* about.
BootOrder == service \in {"seed", "mark"} <=> ~mb.ready

DirtyFieldsPresent ==
    /\ mb.dirtyConfig => mb.config # Nil
    /\ mb.dirtyUsers => mb.hasFullUserState
    /\ mb.dirtyDevices => mb.deviceUsers # Nil

IInv == /\ TypeOK
        /\ BootOrder
        /\ DirtyFieldsPresent
        /\ NoLostWakeup
        /\ BaselineIsHanded

\* What the events applied so far add up to: what waits in the mailbox, and
\* what the service holds where nothing waits; and, once deltas have a complete
\* list to be replayed onto, that list.
Latest ==
    [config |-> IF mb.dirtyConfig THEN mb.config ELSE handed.config,
     users |-> IF mb.hasFullUserState THEN mb.users ELSE handed.users,
     devices |-> IF mb.dirtyDevices THEN mb.deviceUsers ELSE handed.devices]

\* The mailbox is the latest-wins feed the service relies on.
Feed == INSTANCE LatestFeed WITH
    seeded <- service # "seed",
    open <- mb.ready,
    latest <- Latest,
    seen <- handed,
    missed <- mb.needsReconcile,
    complete <- mb.hasFullUserState

\* Every step of the mailbox is a step of the feed: whatever the panel's events
\* add up to is handed to the service in the end, unless that is the nil list
\* left when a delta removed the last user.
ImplementsFeed == Feed!FeedSpec
=============================================================================
