------------------------- MODULE NodeMailboxProofs -------------------------
(***************************************************************************)
(* NodeMailbox, for any users, configurations, devices and number of       *)
(* senders: its types, that no wakeup is lost, that the baseline of deltas *)
(* is what the service holds unless it is nil, and that it implements      *)
(* LatestFeed.                                                             *)
(***************************************************************************)
EXTENDS NodeMailbox, TLAPS

-----------------------------------------------------------------------------
(* What the operators of MailboxOps return. *)

\* The empty list is a user list.
LEMMA EmptyListType == EmptyList \in UserLists
  BY DEF EmptyList, UserLists

\* Read as a list, nil is empty and a list is itself.
LEMMA AsListType ==
  ASSUME NEW us \in UserLists \cup {Nil}
  PROVE  AsList(us) \in UserLists
  BY EmptyListType DEF AsList

\* append([]model.User(nil), list...) is a list or nil, and reads as the list.
LEMMA CopyOntoNilType ==
  ASSUME NEW us \in UserLists
  PROVE  /\ CopyOntoNil(us) \in UserLists \cup {Nil}
         /\ AsList(CopyOntoNil(us)) = us
  BY NilAssumption, EmptyListType DEF CopyOntoNil, AsList

\* Adding users to a list gives a list.
LEMMA AddDeltaType ==
  ASSUME NEW us \in UserLists, NEW d \in UserLists
  PROVE  AddDelta(us, d) \in UserLists
<1>1. PICK S \in SUBSET UserIds : us \in [S -> Specs]
  BY DEF UserLists
<1>2. PICK T \in SUBSET UserIds : d \in [T -> Specs]
  BY DEF UserLists
<1>3. AddDelta(us, d) \in [S \cup T -> Specs]
  BY <1>1, <1>2 DEF AddDelta
<1> QED
  BY <1>3 DEF UserLists

\* Removing users from a list gives a list.
LEMMA SubtractDeltaType ==
  ASSUME NEW us \in UserLists, NEW d \in UserLists
  PROVE  SubtractDelta(us, d) \in UserLists
<1>1. PICK S \in SUBSET UserIds : us \in [S -> Specs]
  BY DEF UserLists
<1>2. SubtractDelta(us, d) \in [S \ DOMAIN d -> Specs]
  BY <1>1 DEF SubtractDelta, Restrict
<1> QED
  BY <1>2 DEF UserLists

\* A delta replayed onto a list gives a list.
LEMMA ReplayDeltaType ==
  ASSUME NEW us \in UserLists, NEW d \in UserLists, NEW action \in KnownActions
  PROVE  ReplayDelta(us, action, d) \in UserLists
  BY AddDeltaType, SubtractDeltaType DEF ReplayDelta

\* Whether or not the code turns an empty result into nil, the list the
\* mailbox keeps is the delta replayed onto the list it had.
LEMMA ApplyUserDeltaReplays ==
  ASSUME NEW us \in UserLists \cup {Nil}, NEW d \in UserLists,
         NEW action \in KnownActions
  PROVE  /\ ApplyUserDelta(us, action, d) \in UserLists \cup {Nil}
         /\ AsList(ApplyUserDelta(us, action, d))
              = ReplayDelta(AsList(us), action, d)
<1> DEFINE list == ReplayDelta(AsList(us), action, d)
<1>1. list \in UserLists
  BY AsListType, ReplayDeltaType
<1>2. CASE action = "remove"
  <2>1. ApplyUserDelta(us, action, d) = CopyOntoNil(list)
    BY <1>2 DEF ApplyUserDelta
  <2> QED
    BY <1>1, <2>1, CopyOntoNilType
<1>3. CASE action # "remove"
  <2>1. ApplyUserDelta(us, action, d) = list
    BY <1>3 DEF ApplyUserDelta
  <2> QED
    BY <1>1, <2>1, NilAssumption DEF AsList
<1> QED
  BY <1>2, <1>3

\* A configuration event keeps the mailbox's type.
LEMMA ApplyConfigType ==
  ASSUME NEW m \in Mailboxes, NEW cfg \in Configs
  PROVE  ApplyConfig(m, cfg) \in Mailboxes
  BY DEF ApplyConfig, Mailboxes

\* A full list keeps the mailbox's type.
LEMMA ApplyUsersType ==
  ASSUME NEW m \in Mailboxes, NEW us \in UserLists
  PROVE  ApplyUsers(m, us) \in Mailboxes
  BY DEF ApplyUsers, Mailboxes

\* A device snapshot keeps the mailbox's type.
LEMMA ApplyDevicesType ==
  ASSUME NEW m \in Mailboxes, NEW ds \in DeviceSets
  PROVE  ApplyDevices(m, ds) \in Mailboxes
  BY DEF ApplyDevices, Mailboxes

\* A delta, replayed or not, keeps the mailbox's type.
LEMMA ApplyDeltaType ==
  ASSUME NEW m \in Mailboxes, NEW action \in DeltaActions,
         NEW d \in UserLists
  PROVE  ApplyDelta(m, action, d) \in Mailboxes
<1>1. m.users \in UserLists \cup {Nil}
  BY DEF Mailboxes
<1>2. CASE Replayable(m, action)
  <2>1. ApplyUserDelta(m.users, action, d) \in UserLists \cup {Nil}
    BY <1>1, <1>2, ApplyUserDeltaReplays DEF Replayable
  <2> QED
    BY <1>2, <2>1 DEF ApplyDelta, Mailboxes
<1>3. CASE ~Replayable(m, action)
  BY <1>3 DEF ApplyDelta, Mailboxes
<1> QED
  BY <1>2, <1>3

\* An event is one of the four kinds, and Apply does what the kind says.
LEMMA ApplyCases ==
  ASSUME NEW m, NEW e \in Events
  PROVE  \/ \E cfg \in Configs : Apply(m, e) = ApplyConfig(m, cfg)
         \/ \E us \in UserLists : Apply(m, e) = ApplyUsers(m, us)
         \/ \E ds \in DeviceSets : Apply(m, e) = ApplyDevices(m, ds)
         \/ \E action \in DeltaActions, d \in UserLists \ {EmptyList} :
               Apply(m, e) = ApplyDelta(m, action, d)
<1>1. CASE e \in ConfigEvents
  BY <1>1 DEF ConfigEvents, Apply
<1>2. CASE e \in UserEvents
  BY <1>2 DEF UserEvents, Apply
<1>3. CASE e \in DeviceEvents
  BY <1>3 DEF DeviceEvents, Apply
<1>4. CASE e \in DeltaEvents
  BY <1>4 DEF DeltaEvents, Apply
<1> QED
  BY <1>1, <1>2, <1>3, <1>4 DEF Events

-----------------------------------------------------------------------------
(* The inductive invariant, one lemma per action. *)

\* A new mailbox and its goroutines satisfy the invariant.
LEMMA InitIInv == Init => IInv
<1> SUFFICES ASSUME Init PROVE IInv
  OBVIOUS
<1>1. TypeOK
  BY DEF Init, TypeOK, NewNodeMailbox, Mailboxes, ServiceSteps
<1> QED
  BY <1>1 DEF Init, IInv, NewNodeMailbox, BootOrder, DirtyFieldsPresent,
              NoLostWakeup, BaselineIsHanded, Pending

\* Whatever the event, Apply leaves the mailbox coherent.
LEMMA ApplyCoherent ==
  ASSUME NEW m \in Mailboxes, NEW e \in Events, NEW us \in UserLists,
         m.dirtyConfig => m.config # Nil,
         m.dirtyUsers => m.hasFullUserState,
         m.dirtyDevices => m.deviceUsers # Nil,
         m.hasFullUserState /\ ~m.dirtyUsers /\ m.users # Nil => m.users = us
  PROVE  /\ Apply(m, e) \in Mailboxes
         /\ Apply(m, e).ready = m.ready
         /\ Apply(m, e).dirtyConfig => Apply(m, e).config # Nil
         /\ Apply(m, e).dirtyUsers => Apply(m, e).hasFullUserState
         /\ Apply(m, e).dirtyDevices => Apply(m, e).deviceUsers # Nil
         /\ /\ Apply(m, e).hasFullUserState
            /\ ~Apply(m, e).dirtyUsers
            /\ Apply(m, e).users # Nil
            => Apply(m, e).users = us
<1>1. CASE \E cfg \in Configs : Apply(m, e) = ApplyConfig(m, cfg)
  <2>1. PICK cfg \in Configs : Apply(m, e) = ApplyConfig(m, cfg)
    BY <1>1
  <2>2. ApplyConfig(m, cfg) \in Mailboxes /\ cfg # Nil
    BY ApplyConfigType, NilAssumption
  <2> QED
    BY <2>1, <2>2 DEF ApplyConfig, Mailboxes
<1>2. CASE \E lst \in UserLists : Apply(m, e) = ApplyUsers(m, lst)
  <2>1. PICK lst \in UserLists : Apply(m, e) = ApplyUsers(m, lst)
    BY <1>2
  <2>2. ApplyUsers(m, lst) \in Mailboxes
    BY ApplyUsersType
  <2> QED
    BY <2>1, <2>2 DEF ApplyUsers, Mailboxes
<1>3. CASE \E ds \in DeviceSets : Apply(m, e) = ApplyDevices(m, ds)
  <2>1. PICK ds \in DeviceSets : Apply(m, e) = ApplyDevices(m, ds)
    BY <1>3
  <2>2. ApplyDevices(m, ds) \in Mailboxes /\ ds # Nil
    BY ApplyDevicesType, NilAssumption
  <2> QED
    BY <2>1, <2>2 DEF ApplyDevices, Mailboxes
<1>4. CASE \E action \in DeltaActions, d \in UserLists \ {EmptyList} :
              Apply(m, e) = ApplyDelta(m, action, d)
  <2>1. PICK action \in DeltaActions, d \in UserLists \ {EmptyList} :
              Apply(m, e) = ApplyDelta(m, action, d)
    BY <1>4
  <2>2. ApplyDelta(m, action, d) \in Mailboxes
    BY ApplyDeltaType
  <2>3. CASE Replayable(m, action)
    BY <2>1, <2>2, <2>3 DEF ApplyDelta, Mailboxes, Replayable
  <2>4. CASE ~Replayable(m, action)
    BY <2>1, <2>2, <2>4 DEF ApplyDelta, Mailboxes
  <2> QED
    BY <2>3, <2>4
<1> QED
  BY <1>1, <1>2, <1>3, <1>4, ApplyCases

\* The critical section of Apply preserves the invariant: what it makes
\* pending, its sender owes a notification for.
LEMMA ApplyEventIInv ==
  ASSUME IInv, NEW s \in Senders, NEW e \in Events, ApplyEvent(s, e)
  PROVE  IInv'
<1> USE DEF IInv
<1>1. /\ mb' \in Mailboxes
      /\ mb'.ready = mb.ready
      /\ DirtyFieldsPresent'
      /\ BaselineIsHanded'
  <2>1. handed.users \in UserLists
    BY DEF TypeOK, Snapshots
  <2> QED
    BY <2>1, ApplyCoherent
       DEF TypeOK, ApplyEvent, DirtyFieldsPresent, BaselineIsHanded
<1>2. TypeOK'
  BY <1>1 DEF TypeOK, ApplyEvent
<1>3. BootOrder'
  BY <1>1 DEF BootOrder, ApplyEvent
<1>4. NoLostWakeup'
  BY DEF NoLostWakeup, ApplyEvent, TypeOK
<1> QED
  BY <1>1, <1>2, <1>3, <1>4

\* The notification of Apply preserves the invariant: a debt becomes a token.
LEMMA NotifyIInv ==
  ASSUME IInv, NEW s \in Senders, Notify(s)
  PROVE  IInv'
  BY DEF IInv, TypeOK, BootOrder, DirtyFieldsPresent, NoLostWakeup,
         BaselineIsHanded, Notify

\* SeedBaseline preserves the invariant: the list it installs is the one the
\* service was handed.
LEMMA ServiceSeedIInv ==
  ASSUME IInv, ServiceSeed
  PROVE  IInv'
<1> USE DEF IInv
<1> DEFINE us == CopyOntoNil(handed.users)
<1>1. /\ us \in UserLists \cup {Nil}
      /\ us # Nil => us = handed.users
      /\ handed.config \in Configs
  BY CopyOntoNilType DEF TypeOK, Snapshots, CopyOntoNil
<1>2. mb' \in Mailboxes
  BY <1>1 DEF TypeOK, ServiceSeed, SeedBaseline, Mailboxes
<1>3. /\ mb'.ready = mb.ready
      /\ mb'.dirtyConfig = mb.dirtyConfig
      /\ mb'.dirtyUsers = mb.dirtyUsers
      /\ mb'.dirtyDevices = mb.dirtyDevices
      /\ mb'.deviceUsers = mb.deviceUsers
      /\ mb'.config = IF mb.config = Nil /\ handed.config # Nil
                       THEN handed.config ELSE mb.config
      /\ mb'.hasFullUserState
            = (mb.hasFullUserState \/ (us # Nil /\ ~mb.hasFullUserState))
      /\ mb'.users = IF us # Nil /\ ~mb.hasFullUserState
                      THEN us ELSE mb.users
  BY DEF TypeOK, ServiceSeed, SeedBaseline, Mailboxes
<1>4. TypeOK'
  BY <1>2 DEF TypeOK, ServiceSeed, ServiceSteps
<1>5. BootOrder' /\ NoLostWakeup'
  BY <1>3 DEF BootOrder, NoLostWakeup, ServiceSeed
<1>6. DirtyFieldsPresent'
  BY <1>1, <1>3, NilAssumption DEF DirtyFieldsPresent
<1>7. BaselineIsHanded'
  BY <1>1, <1>3 DEF BaselineIsHanded, ServiceSeed, TypeOK, Mailboxes
<1> QED
  BY <1>4, <1>5, <1>6, <1>7

\* MarkReady preserves the invariant: what was applied before it is announced
\* by the service itself.
LEMMA ServiceMarkReadyIInv ==
  ASSUME IInv, ServiceMarkReady
  PROVE  IInv'
<1> USE DEF IInv
<1>1. TypeOK'
  BY DEF TypeOK, ServiceMarkReady, MarkReady, Mailboxes, ServiceSteps
<1>2. /\ mb'.ready
      /\ mb' = [mb EXCEPT !.ready = TRUE]
  BY DEF TypeOK, ServiceMarkReady, MarkReady, Mailboxes
<1>3. BootOrder' /\ NoLostWakeup'
  BY <1>2 DEF BootOrder, NoLostWakeup, ServiceMarkReady
<1>4. DirtyFieldsPresent' /\ BaselineIsHanded'
  BY <1>2 DEF DirtyFieldsPresent, BaselineIsHanded, ServiceMarkReady,
              TypeOK, Mailboxes
<1> QED
  BY <1>1, <1>3, <1>4

\* The notification of MarkReady preserves the invariant.
LEMMA ServiceNotifyIInv ==
  ASSUME IInv, ServiceNotify
  PROVE  IInv'
  BY DEF IInv, TypeOK, BootOrder, DirtyFieldsPresent, NoLostWakeup,
         BaselineIsHanded, ServiceNotify, ServiceSteps

\* What a drain hands over and what it leaves, once the dirty fields are
\* known to be there.
LEMMA DrainEffect ==
  ASSUME IInv, ServiceDrain
  PROVE  /\ mb.ready
         /\ mb' = [mb EXCEPT !.config = IF mb.dirtyConfig THEN Nil ELSE @,
                             !.dirtyConfig = FALSE,
                             !.dirtyUsers = FALSE,
                             !.dirtyDevices = FALSE,
                             !.needsReconcile = FALSE]
         /\ handed' =
              [config |-> IF mb.dirtyConfig THEN mb.config
                                            ELSE handed.config,
               users |-> IF mb.dirtyUsers /\ mb.users # Nil
                            THEN mb.users ELSE handed.users,
               devices |-> IF mb.dirtyDevices THEN mb.deviceUsers
                                              ELSE handed.devices]
<1>1. mb.ready
  BY DEF IInv, BootOrder, ServiceDrain
<1>2. HasConfig(mb) = mb.dirtyConfig /\ HasDevices(mb) = mb.dirtyDevices
  BY DEF IInv, TypeOK, Mailboxes, DirtyFieldsPresent, HasConfig, HasDevices
<1>3. mb' = [mb EXCEPT !.config = IF mb.dirtyConfig THEN Nil ELSE @,
                       !.dirtyConfig = FALSE,
                       !.dirtyUsers = FALSE,
                       !.dirtyDevices = FALSE,
                       !.needsReconcile = FALSE]
  BY <1>1, <1>2 DEF ServiceDrain, DrainIfReady, IInv, TypeOK, Mailboxes
<1>4. /\ MailboxState(mb).HasConfig = mb.dirtyConfig
      /\ MailboxState(mb).HasUsers = mb.dirtyUsers
      /\ MailboxState(mb).HasDevices = mb.dirtyDevices
      /\ MailboxState(mb).Config = mb.config
      /\ MailboxState(mb).Users = mb.users
      /\ MailboxState(mb).DeviceUsers = mb.deviceUsers
  BY <1>1, <1>2 DEF MailboxState, IInv, TypeOK, Mailboxes
<1> QED
  BY <1>1, <1>3, <1>4 DEF ServiceDrain, Take

\* A drain preserves the invariant: it leaves nothing pending, and hands over
\* the list later deltas are replayed onto.
LEMMA ServiceDrainIInv ==
  ASSUME IInv, ServiceDrain
  PROVE  IInv'
<1> USE DEF IInv
<1>1. mb' \in Mailboxes
  BY DrainEffect DEF TypeOK, Mailboxes
<1>2. handed' \in Snapshots
  <2>1. mb.dirtyConfig => mb.config \in Configs
    BY DEF TypeOK, Mailboxes, DirtyFieldsPresent
  <2>2. mb.users # Nil => mb.users \in UserLists
    BY DEF TypeOK, Mailboxes
  <2> QED
    BY <2>1, <2>2, DrainEffect DEF TypeOK, Mailboxes, Snapshots
<1>3. /\ mb'.ready /\ ~mb'.dirtyConfig /\ ~mb'.dirtyUsers
      /\ ~mb'.dirtyDevices /\ ~mb'.needsReconcile
      /\ mb'.users = mb.users /\ mb'.hasFullUserState = mb.hasFullUserState
  BY DrainEffect DEF TypeOK, Mailboxes
<1>4. TypeOK'
  BY <1>1, <1>2 DEF TypeOK, ServiceDrain, ServiceSteps
<1>5. BootOrder' /\ DirtyFieldsPresent'
  BY <1>3 DEF BootOrder, DirtyFieldsPresent, ServiceDrain
<1>6. NoLostWakeup'
  BY <1>3 DEF NoLostWakeup, Pending
<1>7. BaselineIsHanded'
  <2>1. handed'.users = IF mb.dirtyUsers /\ mb.users # Nil
                        THEN mb.users ELSE handed.users
    BY DrainEffect
  <2> QED
    BY <1>3, <2>1 DEF BaselineIsHanded
<1> QED
  BY <1>4, <1>5, <1>6, <1>7

\* Taking the token preserves the invariant: the drain it leads to is on its way.
LEMMA ServiceWakeIInv ==
  ASSUME IInv, ServiceWake
  PROVE  IInv'
  BY DEF IInv, TypeOK, BootOrder, DirtyFieldsPresent, NoLostWakeup,
         BaselineIsHanded, ServiceWake, ServiceSteps

\* Every step preserves the invariant.
LEMMA NextIInv == IInv /\ [Next]_vars => IInv'
<1> SUFFICES ASSUME IInv, [Next]_vars PROVE IInv'
  OBVIOUS
<1>1. ASSUME NEW s \in Senders, NEW e \in Events, ApplyEvent(s, e)
      PROVE  IInv'
  BY <1>1, ApplyEventIInv
<1>2. ASSUME NEW s \in Senders, Notify(s)
      PROVE  IInv'
  BY <1>2, NotifyIInv
<1>3. CASE Service
  BY <1>3, ServiceSeedIInv, ServiceMarkReadyIInv, ServiceNotifyIInv,
     ServiceDrainIInv, ServiceWakeIInv DEF Service
<1>4. CASE UNCHANGED vars
  BY <1>4 DEF vars, IInv, TypeOK, BootOrder, DirtyFieldsPresent,
              NoLostWakeup, BaselineIsHanded
<1> QED
  BY <1>1, <1>2, <1>3, <1>4 DEF Next

\* The inductive invariant holds in every reachable state of a mailbox.
THEOREM MailboxInvariant == Spec => []IInv
  BY InitIInv, NextIInv, PTL DEF Spec

\* The mailbox, its notification channel and its users keep their types.
THEOREM MailboxTypeCorrect == Spec => []TypeOK
<1>1. IInv => TypeOK
  BY DEF IInv
<1> QED
  BY <1>1, MailboxInvariant, PTL

\* A ready mailbox with something in it always has a drain coming, however
\* many goroutines apply events and however their unlocks and notifications
\* interleave with the service (mailbox.go: Apply, MarkReady, DrainIfReady).
THEOREM MailboxLosesNoWakeup == Spec => []NoLostWakeup
<1>1. IInv => NoLostWakeup
  BY DEF IInv
<1> QED
  BY <1>1, MailboxInvariant, PTL

\* Unless a delta removed the last user, the list that the next one is replayed
\* onto is the list the service holds (mailbox.go: SeedBaseline,
\* applyUserDelta, DrainIfReady; service.go: handleWSEvent).
THEOREM MailboxBaselineIsHanded == Spec => []BaselineIsHanded
<1>1. IInv => BaselineIsHanded
  BY DEF IInv
<1> QED
  BY <1>1, MailboxInvariant, PTL

-----------------------------------------------------------------------------
(* The refinement: each action of the mailbox is one of the feed's, or none. *)

\* The feed's lists and deltas are the mailbox's: the instance substitutes
\* only its variables.
LEMMA FeedOperators ==
  /\ Feed!EmptyList = EmptyList
  /\ Feed!UserLists = UserLists
  /\ Feed!KnownActions = KnownActions
  /\ Feed!DeltaActions = DeltaActions
  /\ Feed!Snapshots = Snapshots
  /\ \A us, action, d :
        Feed!ApplyUserDelta(us, action, d) = ApplyUserDelta(us, action, d)
<1>1. Feed!UserLists = UserLists
  BY DEF UserLists, Feed!UserLists
<1>2. Feed!Snapshots = Snapshots
  BY <1>1 DEF Snapshots, Feed!Snapshots
<1>3. Feed!KnownActions = KnownActions
  BY DEF KnownActions, Feed!KnownActions
<1>4. Feed!DeltaActions = DeltaActions
  BY <1>3 DEF DeltaActions, Feed!DeltaActions
<1>5. Feed!EmptyList = EmptyList
  BY DEF EmptyList, Feed!EmptyList
<1>6. \A us, action, d :
        Feed!ReplayDelta(us, action, d) = ReplayDelta(us, action, d)
  BY DEF ReplayDelta, AddDelta, SubtractDelta, Restrict, Feed!ReplayDelta,
         Feed!AddDelta, Feed!SubtractDelta, Feed!Restrict
<1>7. \A us : Feed!AsList(us) = AsList(us)
  BY <1>5 DEF AsList, Feed!AsList
<1>8. \A us : Feed!CopyOntoNil(us) = CopyOntoNil(us)
  BY <1>5 DEF CopyOntoNil, Feed!CopyOntoNil
<1>9. \A us, action, d :
        Feed!ApplyUserDelta(us, action, d) = ApplyUserDelta(us, action, d)
  BY <1>6, <1>7, <1>8 DEF ApplyUserDelta, Feed!ApplyUserDelta
<1> QED
  BY <1>1, <1>2, <1>3, <1>4, <1>5, <1>9

\* A new mailbox is an initial feed.
LEMMA InitFeed == Init => Feed!FeedInit
<1> SUFFICES ASSUME Init PROVE Feed!FeedInit
  OBVIOUS
<1>1. /\ mb.ready = FALSE /\ mb.needsReconcile = FALSE
      /\ mb.hasFullUserState = FALSE
      /\ ~mb.dirtyConfig /\ ~mb.dirtyUsers /\ ~mb.dirtyDevices
  BY DEF Init, NewNodeMailbox
<1>2. Latest = handed
  BY <1>1 DEF Init, Latest, Snapshots
<1> QED
  BY <1>1, <1>2, FeedOperators DEF Init, Feed!FeedInit

\* Applying a configuration publishes it.
LEMMA ApplyConfigFeed ==
  ASSUME IInv, NEW cfg \in Configs, mb' = ApplyConfig(mb, cfg),
         UNCHANGED <<handed, service>>
  PROVE  Feed!PublishConfig(cfg)
  BY DEF IInv, TypeOK, Mailboxes, ApplyConfig, Latest, Feed!PublishConfig

\* Applying a full list publishes it.
LEMMA ApplyUsersFeed ==
  ASSUME IInv, NEW us \in UserLists, mb' = ApplyUsers(mb, us),
         UNCHANGED <<handed, service>>
  PROVE  Feed!PublishUsers(us)
<1>1. /\ mb' = [mb EXCEPT !.users = us, !.dirtyUsers = TRUE,
                           !.hasFullUserState = TRUE]
      /\ mb \in Mailboxes
  BY DEF IInv, TypeOK, ApplyUsers
<1>2. /\ mb'.ready = mb.ready
      /\ mb'.needsReconcile = mb.needsReconcile
      /\ mb'.hasFullUserState = TRUE
  BY <1>1 DEF Mailboxes
<1>3. Latest' = [Latest EXCEPT !.users = us]
  BY <1>1 DEF Mailboxes, Latest
<1> QED
  BY <1>2, <1>3 DEF Feed!PublishUsers

\* Applying a device snapshot publishes it.
LEMMA ApplyDevicesFeed ==
  ASSUME IInv, NEW ds \in DeviceSets, mb' = ApplyDevices(mb, ds),
         UNCHANGED <<handed, service>>
  PROVE  Feed!PublishDevices(ds)
  BY DEF IInv, TypeOK, Mailboxes, ApplyDevices, Latest, Feed!PublishDevices

\* The delta is replayed onto mb.users, which is the feed's latest list once
\* the mailbox has a complete one.
LEMMA ApplyDeltaFeed ==
  ASSUME IInv, NEW action \in DeltaActions, NEW d \in UserLists,
         mb' = ApplyDelta(mb, action, d), UNCHANGED <<handed, service>>
  PROVE  Feed!PublishDelta(action, d) \/ Feed!MissDelta(action)
<1> USE DEF IInv, TypeOK
<1>1. CASE Replayable(mb, action)
  <2> DEFINE list == ApplyUserDelta(mb.users, action, d)
  <2>1. mb' = [mb EXCEPT !.users = list, !.dirtyUsers = TRUE]
    BY <1>1 DEF ApplyDelta
  <2>2. Latest.users = mb.users
    BY <1>1 DEF Latest, Replayable
  <2>3. list = Feed!ApplyUserDelta(Latest.users, action, d)
    BY <2>2, FeedOperators
  <2> HIDE DEF list
  <2>4. /\ mb'.ready = mb.ready
        /\ mb'.config = mb.config
        /\ mb'.users = list
        /\ mb'.deviceUsers = mb.deviceUsers
        /\ mb'.dirtyConfig = mb.dirtyConfig
        /\ mb'.dirtyDevices = mb.dirtyDevices
        /\ mb'.needsReconcile = mb.needsReconcile
        /\ mb'.hasFullUserState = mb.hasFullUserState
    BY <2>1 DEF Mailboxes
  <2>5. Latest' = [Latest EXCEPT !.users = list]
    BY <1>1, <2>4 DEF Latest, Replayable
  <2> QED
    BY <1>1, <2>3, <2>4, <2>5, FeedOperators
       DEF Replayable, Feed!PublishDelta
<1>2. CASE ~Replayable(mb, action)
  <2>1. mb' = [mb EXCEPT !.needsReconcile = TRUE]
    BY <1>2 DEF ApplyDelta
  <2>2. /\ mb'.ready = mb.ready
        /\ mb'.needsReconcile = TRUE
        /\ mb'.hasFullUserState = mb.hasFullUserState
        /\ Latest' = Latest
    BY <2>1 DEF Mailboxes, Latest
  <2> QED
    BY <1>2, <2>2, FeedOperators DEF Replayable, Feed!MissDelta
<1> QED
  BY <1>1, <1>2

\* Whatever the event, the critical section of Apply is a step of the feed.
LEMMA ApplyEventFeed ==
  ASSUME IInv, NEW s \in Senders, NEW e \in Events, ApplyEvent(s, e)
  PROVE  Feed!FeedNext
<1>1. mb' = Apply(mb, e) /\ UNCHANGED <<handed, service>>
  BY DEF ApplyEvent
<1>2. CASE \E cfg \in Configs : Apply(mb, e) = ApplyConfig(mb, cfg)
  BY <1>1, <1>2, ApplyConfigFeed DEF Feed!FeedNext
<1>3. CASE \E us \in UserLists : Apply(mb, e) = ApplyUsers(mb, us)
  BY <1>1, <1>3, ApplyUsersFeed, FeedOperators
     DEF Feed!FeedNext
<1>4. CASE \E ds \in DeviceSets : Apply(mb, e) = ApplyDevices(mb, ds)
  BY <1>1, <1>4, ApplyDevicesFeed DEF Feed!FeedNext
<1>5. CASE \E action \in DeltaActions, d \in UserLists \ {EmptyList} :
              Apply(mb, e) = ApplyDelta(mb, action, d)
  BY <1>1, <1>5, ApplyDeltaFeed, FeedOperators
     DEF Feed!FeedNext
<1> QED
  BY <1>2, <1>3, <1>4, <1>5, ApplyCases

\* Seeding a baseline completes the feed unless the baseline is empty, and
\* leaves what waits in the mailbox alone.
LEMMA ServiceSeedFeed ==
  ASSUME IInv, ServiceSeed
  PROVE  Feed!AcceptBaseline
<1> USE DEF IInv, TypeOK
<1>1. /\ mb'.ready = mb.ready
      /\ mb'.needsReconcile = mb.needsReconcile
      /\ mb'.dirtyConfig = mb.dirtyConfig
      /\ mb'.dirtyUsers = mb.dirtyUsers
      /\ mb'.dirtyDevices = mb.dirtyDevices
      /\ mb'.deviceUsers = mb.deviceUsers
      /\ mb.dirtyConfig => mb'.config = mb.config
      /\ mb.hasFullUserState => mb'.users = mb.users
      /\ ~mb.hasFullUserState /\ mb'.hasFullUserState
            => mb'.users = handed.users
      /\ mb'.hasFullUserState
            = (mb.hasFullUserState \/ CopyOntoNil(handed.users) # Nil)
  BY DEF ServiceSeed, SeedBaseline, Mailboxes, DirtyFieldsPresent, CopyOntoNil
<1>2. service = "seed" /\ service' = "mark" /\ UNCHANGED handed
  BY DEF ServiceSeed
<1>3. Latest' = Latest
  BY <1>1, <1>2 DEF Latest
<1>4. CopyOntoNil(handed.users) # Nil <=> handed.users # EmptyList
  BY NilAssumption DEF Snapshots, CopyOntoNil
<1> QED
  BY <1>1, <1>2, <1>3, <1>4, FeedOperators DEF Feed!AcceptBaseline

\* MarkReady opens the feed.
LEMMA ServiceMarkReadyFeed ==
  ASSUME IInv, ServiceMarkReady
  PROVE  Feed!Open
  BY DEF IInv, TypeOK, Mailboxes, ServiceMarkReady, MarkReady, Latest,
         Feed!Open

\* A drain hands over the feed's latest state, and no users for nil.
LEMMA ServiceDrainFeed ==
  ASSUME IInv, ServiceDrain
  PROVE  Feed!Consume
<1>1. /\ mb.ready /\ mb'.ready
      /\ ~mb'.dirtyConfig /\ ~mb'.dirtyUsers /\ ~mb'.dirtyDevices
      /\ mb'.needsReconcile = FALSE
      /\ mb'.users = mb.users
      /\ mb'.hasFullUserState = mb.hasFullUserState
  BY DrainEffect DEF IInv, TypeOK, Mailboxes
<1>2. handed'.users = IF Latest.users = Nil THEN handed.users
                                            ELSE Latest.users
  <2>1. CASE mb.hasFullUserState
    BY <2>1, DrainEffect DEF Latest, IInv, BaselineIsHanded
  <2>2. CASE ~mb.hasFullUserState
    BY <2>2, DrainEffect DEF Latest, IInv, DirtyFieldsPresent
  <2> QED
    BY <2>1, <2>2 DEF IInv, TypeOK, Mailboxes
<1>3. /\ handed'.config = Latest.config
      /\ handed'.devices = Latest.devices
  BY DrainEffect DEF Latest
<1>4. handed' = [Latest EXCEPT !.users = IF @ = Nil THEN handed.users
                                                    ELSE @]
  BY <1>2, <1>3, DrainEffect DEF Latest
<1>5. Latest'.users = Latest.users
  BY <1>1, <1>2 DEF Latest, IInv, DirtyFieldsPresent, TypeOK, Mailboxes
<1>6. Latest' = Latest
  BY <1>1, <1>3, <1>5 DEF Latest
<1>7. mb'.ready = mb.ready
  BY DrainEffect DEF IInv, TypeOK, Mailboxes
<1>8. service = "drain" /\ service' = "wait"
  BY DEF ServiceDrain
<1> QED
  BY <1>1, <1>4, <1>6, <1>7, <1>8 DEF Feed!Consume

\* Every step of the mailbox is a step of the feed, or leaves it unchanged.
LEMMA NextFeed == IInv /\ [Next]_vars => [Feed!FeedNext]_(Feed!feedVars)
<1> SUFFICES ASSUME IInv, [Next]_vars
             PROVE  Feed!FeedNext \/ UNCHANGED Feed!feedVars
  OBVIOUS
<1>1. ASSUME NEW s \in Senders, NEW e \in Events, ApplyEvent(s, e)
      PROVE  Feed!FeedNext
  BY <1>1, ApplyEventFeed
<1>2. UNCHANGED <<mb, handed>> /\ (service # "seed") = (service # "seed")'
         => UNCHANGED Feed!feedVars
  BY DEF Latest, Feed!feedVars
<1>3. ASSUME NEW s \in Senders, Notify(s)
      PROVE  UNCHANGED Feed!feedVars
  BY <1>2, <1>3 DEF Notify
<1>4. CASE Service
  <2>1. CASE ServiceSeed
    BY <2>1, ServiceSeedFeed DEF Feed!FeedNext
  <2>2. CASE ServiceMarkReady
    BY <2>2, ServiceMarkReadyFeed DEF Feed!FeedNext
  <2>3. CASE ServiceDrain
    BY <2>3, ServiceDrainFeed DEF Feed!FeedNext
  <2>4. CASE ServiceNotify \/ ServiceWake
    BY <1>2, <2>4 DEF ServiceNotify, ServiceWake
  <2> QED
    BY <1>4, <2>1, <2>2, <2>3, <2>4 DEF Service
<1>5. CASE UNCHANGED vars
  BY <1>2, <1>5 DEF vars
<1> QED
  BY <1>1, <1>3, <1>4, <1>5 DEF Next

\* The mailbox implements the latest-wins feed: what the service is handed is
\* always all that the panel's events add up to on top of its baseline (but for
\* a list that deltas emptied, in whose place it is handed nothing), and an
\* event that could not be added up is never forgotten before the service is
\* told to reconcile.  (That it is handed eventually needs fairness and is
\* left to TLC.)
THEOREM MailboxImplementsFeed == Spec => Feed!FeedSafe
<1>1. Init => Feed!FeedInit
  BY InitFeed
<1>2. IInv /\ [Next]_vars => [Feed!FeedNext]_(Feed!feedVars)
  BY NextFeed
<1> QED
  BY <1>1, <1>2, MailboxInvariant, PTL DEF Spec, Feed!FeedSafe
=============================================================================
