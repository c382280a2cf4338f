----------------------------- MODULE LatestFeed -----------------------------
(***************************************************************************)
(* What a NodeMailbox promises to the node service, without its locks,     *)
(* dirty flags and notification channel: a coalescing, latest-wins feed.   *)
(*                                                                         *)
(*   latest   what the panel's events add up to, on top of the baseline    *)
(*            the service booted with; the users are Nil once a delta has  *)
(*            removed the last of them                                     *)
(*   seen     what the service has been handed                             *)
(*   missed   an event could not be added up, and the service has not yet  *)
(*            been told to reconcile over REST                             *)
(*   complete deltas can be added up                                       *)
(*   seeded   the service has offered its baseline                         *)
(*   open     the service has declared itself ready                        *)
(*                                                                         *)
(* Once the feed is open the service is handed all of latest at once, and  *)
(* it is handed it eventually.  The exception is a list emptied by deltas: *)
(* the service is handed nothing in its place and keeps the users it had   *)
(* until the next list that is not Nil.                                    *)
(***************************************************************************)
EXTENDS MailboxOps

VARIABLES seeded, open, latest, seen, missed, complete

feedVars == <<seeded, open, latest, seen, missed, complete>>

Snapshots == [config : Configs, users : UserLists,
              devices : DeviceSets \cup {Nil}]
Sums == [config : Configs, users : UserLists \cup {Nil},
         devices : DeviceSets \cup {Nil}]

FeedTypeOK ==
    /\ seeded \in BOOLEAN
    /\ open \in BOOLEAN
    /\ latest \in Sums
    /\ seen \in Snapshots
    /\ missed \in BOOLEAN
    /\ complete \in BOOLEAN

FeedInit ==
    /\ seeded = FALSE
    /\ open = FALSE
    /\ seen \in {s \in Snapshots : s.devices = Nil}
    /\ latest = seen
    /\ missed = FALSE
    /\ complete = FALSE

PublishConfig(cfg) ==
    /\ latest' = [latest EXCEPT !.config = cfg]
    /\ UNCHANGED <<seeded, open, seen, missed, complete>>

PublishDevices(ds) ==
    /\ latest' = [latest EXCEPT !.devices = ds]
    /\ UNCHANGED <<seeded, open, seen, missed, complete>>

PublishUsers(us) ==
    /\ latest' = [latest EXCEPT !.users = us]
    /\ complete' = TRUE
    /\ UNCHANGED <<seeded, open, seen, missed>>

PublishDelta(action, d) ==
    /\ complete
    /\ action \in KnownActions
    /\ latest' = [latest EXCEPT !.users = ApplyUserDelta(@, action, d)]
    /\ UNCHANGED <<seeded, open, seen, missed, complete>>

MissDelta(action) ==
    /\ ~complete \/ action \notin KnownActions
    /\ missed' = TRUE
    /\ UNCHANGED <<seeded, open, latest, seen, complete>>

\* The service offers the list it booted with.  An empty one is no baseline,
\* and none replaces what the panel published meanwhile.
AcceptBaseline ==
    /\ ~seeded
    /\ seeded' = TRUE
    /\ complete' = (complete \/ seen.users # EmptyList)
    /\ UNCHANGED <<open, latest, seen, missed>>

Open ==
    /\ seeded
    /\ open' = TRUE
    /\ UNCHANGED <<seeded, latest, seen, missed, complete>>

Consume ==
    /\ open
    /\ seen' = [latest EXCEPT !.users = IF @ = Nil THEN seen.users ELSE @]
    /\ missed' = FALSE
    /\ UNCHANGED <<seeded, open, latest, complete>>

FeedNext ==
    \/ \E cfg \in Configs : PublishConfig(cfg)
    \/ \E ds \in DeviceSets : PublishDevices(ds)
    \/ \E us \in UserLists : PublishUsers(us)
    \/ \E action \in DeltaActions, d \in UserLists \ {EmptyList} :
          PublishDelta(action, d) \/ MissDelta(action)
    \/ AcceptBaseline
    \/ Open
    \/ Consume

FeedSafe == FeedInit /\ [][FeedNext]_feedVars

FeedSpec ==
    /\ FeedSafe
    /\ WF_feedVars(AcceptBaseline)
    /\ WF_feedVars(~open /\ Open)
    /\ WF_feedVars(Consume)
=============================================================================
