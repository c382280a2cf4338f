----------------------------- MODULE MailboxOps -----------------------------
(***************************************************************************)
(* The data of one NodeMailbox (internal/controlplane/mailbox.go) and what *)
(* each of its critical sections does to it.  Every method of the mailbox  *)
(* holds m.mu for its whole body except for the notification, so a method  *)
(* is a function of the record below; the notification and the goroutines  *)
(* that interleave between the critical sections are in NodeMailbox and in *)
(* NodeSync, which both use these operators.                               *)
(*                                                                         *)
(* A user list is a function from the identifiers it holds to the user's   *)
(* other fields (UUID, limits): the code keys every list by ID and its     *)
(* order carries no meaning.  A Go slice can also be nil, and the code     *)
(* tells nil from empty, so a list in the mailbox is such a function or    *)
(* Nil.                                                                    *)
(***************************************************************************)
EXTENDS Functions

CONSTANTS
    UserIds,     \* identifiers of the panel's users
    Specs,       \* what the panel may say about one user
    Configs,     \* node configurations, already normalised
    DeviceSets,  \* fleet-wide device snapshots
    Nil          \* a nil slice, map or pointer

\* The []model.UserSpec values that are not nil.
UserLists == UNION {[ids -> Specs] : ids \in SUBSET UserIds}
EmptyList == [id \in {} |-> id]

ASSUME NilAssumption ==
    /\ Nil \notin UserLists
    /\ Nil \notin Configs
    /\ Nil \notin DeviceSets

\* The list a possibly nil slice holds: Go ranges over nil as over an empty
\* slice.
AsList(us) == IF us = Nil THEN EmptyList ELSE us

\* What append([]model.UserSpec(nil), us...) makes of a list: nil if it is
\* empty.
CopyOntoNil(us) == IF us = EmptyList THEN Nil ELSE us

-----------------------------------------------------------------------------
(* Events, as TranslateWSEvent delivers them.  An event whose payload is   *)
(* nil or empty changes nothing and notifies nobody; it is left out.       *)

KnownActions == {"add", "remove"}
DeltaActions == KnownActions \cup {"other"}

ConfigEvents == [type : {"sync.config"}, config : Configs]
UserEvents == [type : {"sync.users"}, users : UserLists]
DeltaEvents == [type : {"sync.user.delta"}, action : DeltaActions,
                delta : UserLists \ {EmptyList}]
DeviceEvents == [type : {"sync.devices"}, devices : DeviceSets]
Events == ConfigEvents \cup UserEvents \cup DeltaEvents \cup DeviceEvents

-----------------------------------------------------------------------------
Mailboxes ==
    [ready : BOOLEAN,
     config : Configs \cup {Nil},
     users : UserLists \cup {Nil},
     deviceUsers : DeviceSets \cup {Nil},
     dirtyConfig : BOOLEAN,
     dirtyUsers : BOOLEAN,
     dirtyDevices : BOOLEAN,
     needsReconcile : BOOLEAN,
     hasFullUserState : BOOLEAN]

NewNodeMailbox ==
    [ready |-> FALSE, config |-> Nil, users |-> Nil, deviceUsers |-> Nil,
     dirtyConfig |-> FALSE, dirtyUsers |-> FALSE, dirtyDevices |-> FALSE,
     needsReconcile |-> FALSE, hasFullUserState |-> FALSE]

\* Something waits to be handed to the service.
Pending(m) == \/ m.dirtyConfig
              \/ m.dirtyUsers
              \/ m.dirtyDevices
              \/ m.needsReconcile

-----------------------------------------------------------------------------
(* applyUserDelta, for the two actions it knows. *)

AddDelta(us, d) ==
    [id \in DOMAIN us \cup DOMAIN d |->
        IF id \in DOMAIN d THEN d[id] ELSE us[id]]

SubtractDelta(us, d) == Restrict(us, DOMAIN us \ DOMAIN d)

\* What a delta means: the list that results from applying it to us.
ReplayDelta(us, action, d) ==
    IF action = "add" THEN AddDelta(us, d) ELSE SubtractDelta(us, d)

\* The "remove" branch copies its result with append, so the list that is
\* left when the last user is removed is nil.
ApplyUserDelta(us, action, d) ==
    LET list == ReplayDelta(AsList(us), action, d)
    IN  IF action = "remove" THEN CopyOntoNil(list) ELSE list

-----------------------------------------------------------------------------
(* The critical section of Apply, one operator per event type. *)

\* Mutant: the configuration is stored without its dirty flag.
ApplyConfigUnmarked(m, cfg) == [m EXCEPT !.config = cfg]

ApplyConfig(m, cfg) == [m EXCEPT !.config = cfg, !.dirtyConfig = TRUE]

ApplyUsers(m, us) ==
    [m EXCEPT !.users = us, !.dirtyUsers = TRUE, !.hasFullUserState = TRUE]

ApplyDevices(m, ds) == [m EXCEPT !.deviceUsers = ds, !.dirtyDevices = TRUE]

\* A delta can be replayed only onto a complete list and if its action is
\* known; otherwise the mailbox asks for a reconciliation.
Replayable(m, action) == m.hasFullUserState /\ action \in KnownActions

\* Mutant: a replayed delta is not marked for the next drain.
ApplyDeltaUnmarked(m, action, d) ==
    IF Replayable(m, action)
    THEN [m EXCEPT !.users = ApplyUserDelta(m.users, action, d)]
    ELSE [m EXCEPT !.needsReconcile = TRUE]

ApplyDelta(m, action, d) ==
    IF Replayable(m, action)
    THEN [m EXCEPT !.users = ApplyUserDelta(m.users, action, d),
                   !.dirtyUsers = TRUE]
    ELSE [m EXCEPT !.needsReconcile = TRUE]

Apply(m, e) ==
    CASE e.type = "sync.config" -> ApplyConfig(m, e.config)
      [] e.type = "sync.users" -> ApplyUsers(m, e.users)
      [] e.type = "sync.devices" -> ApplyDevices(m, e.devices)
      [] e.type = "sync.user.delta" -> ApplyDelta(m, e.action, e.delta)

-----------------------------------------------------------------------------
(* SeedBaseline, MarkReady and DrainIfReady, called by the service. *)

\* Mutant: the REST snapshot overwrites a list that was pushed meanwhile.
SeedBaselineAlways(m, us, cfg) ==
    [m EXCEPT !.users = IF us # Nil THEN us ELSE @,
              !.hasFullUserState = @ \/ us # Nil,
              !.config = IF cfg # Nil /\ @ = Nil THEN cfg ELSE @]

SeedBaseline(m, us, cfg) ==
    LET seedUsers == us # Nil /\ ~m.hasFullUserState
        seedConfig == cfg # Nil /\ m.config = Nil
    IN  [m EXCEPT !.users = IF seedUsers THEN us ELSE @,
                  !.hasFullUserState = @ \/ seedUsers,
                  !.config = IF seedConfig THEN cfg ELSE @]

MarkReady(m) == [m EXCEPT !.ready = TRUE]

HasConfig(m) == m.dirtyConfig /\ m.config # Nil
HasDevices(m) == m.dirtyDevices /\ m.deviceUsers # Nil

\* The MailboxState DrainIfReady returns.
MailboxState(m) ==
    [HasConfig |-> m.ready /\ HasConfig(m), Config |-> m.config,
     HasUsers |-> m.ready /\ m.dirtyUsers, Users |-> m.users,
     HasDevices |-> m.ready /\ HasDevices(m), DeviceUsers |-> m.deviceUsers,
     NeedsReconcile |-> m.ready /\ m.needsReconcile]

\* The mailbox DrainIfReady leaves: the configuration is handed over, the
\* user list and the devices stay behind as the baseline of later deltas.
DrainIfReady(m) ==
    IF ~m.ready THEN m
    ELSE [m EXCEPT !.config = IF HasConfig(m) THEN Nil ELSE @,
                   !.dirtyConfig = @ /\ ~HasConfig(m),
                   !.dirtyUsers = FALSE,
                   !.dirtyDevices = @ /\ ~HasDevices(m),
                   !.needsReconcile = FALSE]
=============================================================================
