--------------------------- MODULE LimitDispatcher ---------------------------
(***************************************************************************)
(* The admission of connections in internal/kernel/xray/dispatcher.go: a   *)
(* user with a device limit may connect from as many source addresses as   *)
(* the limit plus a grace allows, counting the addresses the panel reports *)
(* of other nodes.  Each connection runs on a goroutine of its own: a step *)
(* is a section under mu or an operation of a sync.Map or an atomic.       *)
(***************************************************************************)
EXTENDS Integers, FiniteSets

CONSTANTS Users, IPs,       \* source addresses, in their lexicographic order
          Conns,            \* connections in flight at a time
          DeviceLimits      \* device limits users are given; 0 is no limit

ASSUME DispatcherAssumption ==
    /\ IPs \subseteq Nat /\ IsFiniteSet(IPs) /\ IsFiniteSet(Conns)
    /\ DeviceLimits \subseteq Nat /\ 0 \in DeviceLimits

VARIABLES
    limits,     \* deviceLimits
    local,      \* limitedIPs: references per user and address
    remote,     \* globalIPs: addresses on other nodes
    entry,      \* unlimitedIPs: the users that have an ipCounter
    counter,    \* unlimitedIPs: the addresses in it, with their references
    conn,       \* the connections
    carried,    \* the snapshot a Start has taken and not yet restored
    mixed,      \* a user has had connections of both kinds at a time
    beyond,     \* users let beyond their cap by a rule or by a change
    revived     \* addresses made remote again although they were local

limitedVars == <<limits, local, remote>>
unlimitedVars == <<entry, counter>>
startVars == <<carried, revived>>
vars == <<limitedVars, unlimitedVars, startVars, conn, mixed, beyond>>

Absent == -(Cardinality(Conns) + 1)
Counts == Absent..Cardinality(Conns)
Steps == {"fast", "known", "room", "slow", "place", "add", "open", "release",
          "find", "subtract", "delete", "sweep", "unlink"}
Idle == [at |-> "idle"]

\* linked: the ipCounter it has loaded is still the user's; held: the counter of
\* its address that it has loaded is still in there.
Connections ==
    [at : Steps, user : Users, ip : IPs, tcp : BOOLEAN,
     limit : DeviceLimits, linked : BOOLEAN, held : BOOLEAN]

TypeOK ==
    /\ limits \in [Users -> DeviceLimits]
    /\ local \in [Users -> [IPs -> Nat]]
    /\ remote \in [Users -> SUBSET IPs]
    /\ entry \in [Users -> BOOLEAN]
    /\ counter \in [Users -> [IPs -> Counts]]
    /\ conn \in [Conns -> {Idle} \cup Connections]
    /\ carried \in SUBSET [Users -> SUBSET IPs]
    /\ mixed \in BOOLEAN
    /\ beyond \subseteq Users
    /\ revived \in [Users -> SUBSET IPs]

-----------------------------------------------------------------------------
\* ceil(limit * 1.30)
Hard(limit) == (limit * 130 + 99) \div 100

LocalIPs(u) == {ip \in IPs : local[u][ip] > 0}
Devices(u, ip) == LocalIPs(u) \cup remote[u] \cup {ip}
HasRoom(u, ip, limit) == Cardinality(Devices(u, ip)) <= Hard(limit)

\* Among the lowest addresses that the cap admits.
Lowest(u, ip, limit) ==
    Cardinality({j \in Devices(u, ip) : j < ip}) < Hard(limit)

\* GetConnectionState: the addresses reported to the panel.
AliveIPs(u) == LocalIPs(u) \cup {ip \in IPs : counter[u][ip] > 0}

\* The connections of u that are counted, or are about to be or not to be.
Counted(c) == conn[c].at \in {"open", "release"}
InFlight(u) == {c \in Conns : conn[c] # Idle /\ conn[c].user = u}
OfKind(u, limited) ==
    {c \in InFlight(u) : conn[c].tcp /\ (conn[c].limit > 0) = limited}

At(c, step) == conn[c].at = step
Goto(c, step) == conn' = [conn EXCEPT ![c].at = step]
GotoWith(c, step, linked, held) ==
    conn' = [conn EXCEPT ![c].at = step, ![c].linked = linked, ![c].held = held]
Finished(c) == conn' = [conn EXCEPT ![c] = Idle]

-----------------------------------------------------------------------------
Init ==
    /\ limits \in [Users -> DeviceLimits]
    /\ local = [u \in Users |-> [ip \in IPs |-> 0]]
    /\ remote = [u \in Users |-> {}]
    /\ entry = [u \in Users |-> FALSE]
    /\ counter = [u \in Users |-> [ip \in IPs |-> Absent]]
    /\ conn = [c \in Conns |-> Idle]
    /\ carried = {}
    /\ mixed = FALSE
    /\ beyond = {}
    /\ revived = [u \in Users |-> {}]

-----------------------------------------------------------------------------
(* Dispatch: identifyAndCheck and checkDeviceLimit.                        *)

\* The limit is read in a section of its own; without one the ipCounter of the
\* user is loaded or stored.  Only TCP is counted: a UDP connection that is
\* admitted leaves nothing behind.
Dispatch(c, u, ip, tcp) ==
    LET limit == limits[u]
        step == IF limit > 0 THEN "fast" ELSE "place"
    IN  /\ conn[c] = Idle
        /\ tcp \/ limit > 0
        /\ conn' = [conn EXCEPT ![c] =
                [at |-> step, user |-> u, ip |-> ip, tcp |-> tcp,
                 limit |-> limit, linked |-> step = "place", held |-> FALSE]]
        /\ entry' = [entry EXCEPT ![u] = @ \/ step = "place"]
        /\ mixed' = (mixed \/ (tcp /\ OfKind(u, limit = 0) # {}))
        /\ UNCHANGED <<limitedVars, counter, startVars, beyond>>

\* The counter of the address is loaded or stored, in an ipCounter that may
\* have been taken out since it was loaded.
PlaceCounter(c) ==
    LET u == conn[c].user ip == conn[c].ip
    IN  /\ At(c, "place")
        /\ counter' = IF conn[c].linked /\ counter[u][ip] = Absent
                      THEN [counter EXCEPT ![u][ip] = 0] ELSE counter
        /\ GotoWith(c, "add", FALSE, conn[c].linked)
        /\ UNCHANGED <<limitedVars, entry, startVars, mixed, beyond>>

\* Add(1) on a counter that may have been deleted since it was loaded.
AddReference(c) ==
    LET u == conn[c].user ip == conn[c].ip
    IN  /\ At(c, "add")
        /\ counter' = IF conn[c].held
                      THEN [counter EXCEPT ![u][ip] = @ + 1] ELSE counter
        /\ GotoWith(c, "open", FALSE, FALSE)
        /\ UNCHANGED <<limitedVars, entry, startVars, mixed, beyond>>

GoOn(c, step) == IF conn[c].tcp THEN Goto(c, step) ELSE Finished(c)

\* Under the read lock: a known address, room for a new one, or neither.
FastPath(c) ==
    LET u == conn[c].user ip == conn[c].ip
    IN  /\ At(c, "fast")
        /\ \/ ip \in LocalIPs(u) /\ GoOn(c, "known")
           \/ /\ ip \notin LocalIPs(u) /\ HasRoom(u, ip, conn[c].limit)
              /\ GoOn(c, "room")
           \/ /\ ip \notin LocalIPs(u) /\ ~HasRoom(u, ip, conn[c].limit)
              /\ Goto(c, "slow")
        /\ UNCHANGED <<limitedVars, unlimitedVars, startVars, mixed, beyond>>

\* One more reference under the write lock; what moves local is no longer
\* remote.
Admit(c, moved) ==
    LET u == conn[c].user ip == conn[c].ip
    IN  /\ local' = [local EXCEPT ![u][ip] = @ + 1]
        /\ remote' = [remote EXCEPT ![u] = @ \ moved]
        /\ Goto(c, "open")
        /\ UNCHANGED limits

\* The address was known; its last connection may have closed meanwhile.
AdmitKnown(c) ==
    LET u == conn[c].user ip == conn[c].ip
    IN  /\ At(c, "known")
        /\ Admit(c, {ip})
        /\ beyond' = IF ip \in LocalIPs(u) \/ HasRoom(u, ip, limits[u])
                     THEN beyond ELSE beyond \cup {u}
        /\ UNCHANGED <<unlimitedVars, startVars, mixed>>

\* Mutant: the fast path does not look again once it has the lock.
AdmitWithoutRecheck(c) ==
    /\ At(c, "room")
    /\ Admit(c, {conn[c].ip})
    /\ UNCHANGED <<unlimitedVars, startVars, mixed, beyond>>

\* The room is looked for again, as another connection may have taken it.
AdmitNew(c) ==
    LET u == conn[c].user ip == conn[c].ip
    IN  /\ At(c, "room")
        /\ IF ip \in LocalIPs(u) \/ HasRoom(u, ip, conn[c].limit)
           THEN Admit(c, {ip})
           ELSE Goto(c, "slow") /\ UNCHANGED limitedVars
        /\ UNCHANGED <<unlimitedVars, startVars, mixed, beyond>>

\* Mutant: the slow path does not ask whether the address is known.
AdmissibleIfNew(c) ==
    LET u == conn[c].user ip == conn[c].ip
    IN  HasRoom(u, ip, conn[c].limit) \/ Lowest(u, ip, conn[c].limit)

\* checkDeviceLimitSlow, in one section: admitted if known, if there is room,
\* or if the address is among the lowest ones.  Nothing is counted for UDP; an
\* address that is known is not looked for among the remote ones.
Admissible(c) ==
    LET u == conn[c].user ip == conn[c].ip
    IN  \/ ip \in LocalIPs(u)
        \/ HasRoom(u, ip, conn[c].limit)
        \/ Lowest(u, ip, conn[c].limit)

AdmitSlow(c) ==
    LET u == conn[c].user ip == conn[c].ip
    IN  /\ At(c, "slow") /\ Admissible(c)
        /\ IF conn[c].tcp THEN Admit(c, {ip} \ LocalIPs(u))
           ELSE Finished(c) /\ UNCHANGED limitedVars
        /\ beyond' = IF ~conn[c].tcp \/ ip \in LocalIPs(u) \/ HasRoom(u, ip, limits[u])
                     THEN beyond ELSE beyond \cup {u}
        /\ UNCHANGED <<unlimitedVars, startVars, mixed>>

Refuse(c) ==
    /\ At(c, "slow") /\ ~Admissible(c)
    /\ Finished(c)
    /\ UNCHANGED <<limitedVars, unlimitedVars, startVars, mixed, beyond>>

-----------------------------------------------------------------------------
(* onClose and delConn; also when the inner dispatcher fails.              *)

\* Mutant: a connection always closes as one that was counted under the limit.
CloseLimited(c) ==
    /\ At(c, "open")
    /\ Goto(c, "release")
    /\ UNCHANGED <<limitedVars, unlimitedVars, startVars, mixed, beyond>>

\* An ipCounter of the user takes the close, whatever the connection was
\* admitted as.
Close(c) ==
    /\ At(c, "open")
    /\ IF entry[conn[c].user]
       THEN GotoWith(c, "find", TRUE, FALSE) ELSE Goto(c, "release")
    /\ UNCHANGED <<limitedVars, unlimitedVars, startVars, mixed, beyond>>

\* The counter of the address is loaded.  What is in an ipCounter that has been
\* taken out is not kept: whatever is asked of it may be so or not.
FindCounter(c) ==
    LET present == counter[conn[c].user][conn[c].ip] # Absent
        linked == conn[c].linked
    IN  /\ At(c, "find")
        /\ \/ (linked => present) /\ GotoWith(c, "subtract", linked, linked)
           \/ (linked => ~present) /\ Goto(c, "sweep")
        /\ UNCHANGED <<limitedVars, unlimitedVars, startVars, mixed, beyond>>

\* Mutant: a counter is taken out at zero, not below.
SubtractAtZero(c) ==
    LET u == conn[c].user ip == conn[c].ip n == counter[u][ip] - 1
    IN  /\ At(c, "subtract")
        /\ counter' = IF conn[c].held
                      THEN [counter EXCEPT ![u][ip] = n] ELSE counter
        /\ \E step \in {"delete", "sweep"} :
              /\ conn[c].held => (step = "delete" <=> n = 0)
              /\ GotoWith(c, step, conn[c].linked, FALSE)
        /\ UNCHANGED <<limitedVars, entry, startVars, mixed, beyond>>

\* Add(-1), and the look at its result.
Subtract(c) ==
    LET u == conn[c].user ip == conn[c].ip n == counter[u][ip] - 1
    IN  /\ At(c, "subtract")
        /\ counter' = IF conn[c].held
                      THEN [counter EXCEPT ![u][ip] = n] ELSE counter
        /\ \E step \in {"delete", "sweep"} :
              /\ conn[c].held => (step = "delete" <=> n <= 0)
              /\ GotoWith(c, step, conn[c].linked, FALSE)
        /\ UNCHANGED <<limitedVars, entry, startVars, mixed, beyond>>

\* Whoever has loaded a counter that is taken out uses it in vain; so does who
\* has loaded an ipCounter that is taken out.
Detached(u, ips, linked) ==
    [k \in Conns |->
        IF conn[k] # Idle /\ conn[k].user = u /\ conn[k].ip \in ips
        THEN [conn[k] EXCEPT !.held = FALSE, !.linked = @ /\ linked]
        ELSE conn[k]]

\* Delete of the address, whichever counter it has there by now.
DeleteAddress(c) ==
    LET u == conn[c].user ip == conn[c].ip
    IN  /\ At(c, "delete")
        /\ IF conn[c].linked
           THEN /\ counter' = [counter EXCEPT ![u][ip] = Absent]
                /\ conn' = [Detached(u, {ip}, TRUE) EXCEPT ![c].at = "sweep"]
           ELSE Goto(c, "sweep") /\ UNCHANGED counter
        /\ UNCHANGED <<limitedVars, entry, startVars, mixed, beyond>>

\* Range finds the ipCounter empty or not.
Sweep(c) ==
    LET empty == \A ip \in IPs : counter[conn[c].user][ip] = Absent
        linked == conn[c].linked
    IN  /\ At(c, "sweep")
        /\ \/ (linked => empty) /\ Goto(c, "unlink")
           \/ (linked => ~empty) /\ Finished(c)
        /\ UNCHANGED <<limitedVars, unlimitedVars, startVars, mixed, beyond>>

\* Delete takes out the ipCounter that the user has by now.
Unlink(c) ==
    LET u == conn[c].user
    IN  /\ At(c, "unlink")
        /\ entry' = [entry EXCEPT ![u] = FALSE]
        /\ counter' = [counter EXCEPT ![u] = [ip \in IPs |-> Absent]]
        /\ conn' = [Detached(u, IPs, FALSE) EXCEPT ![c] = Idle]
        /\ UNCHANGED <<limitedVars, startVars, mixed, beyond>>

Release(c) ==
    /\ At(c, "release")
    /\ local' = [local EXCEPT ![conn[c].user][conn[c].ip] =
            IF @ > 0 THEN @ - 1 ELSE 0]
    /\ Finished(c)
    /\ UNCHANGED <<limits, remote, unlimitedVars, startVars, mixed, beyond>>

-----------------------------------------------------------------------------
(* The kernel wrapper: limits, remote devices, a rebuilt kernel.           *)

\* Users whose devices exceed the cap by a change from outside.
Exceeding(lim, rem) ==
    {u \in Users :
        lim[u] > 0 /\ Cardinality(LocalIPs(u) \cup rem[u]) > Hard(lim[u])}
Changing == {u \in Users : InFlight(u) # {}}

\* updateDispatcherLimits, with a new user list or at the end of a Start.
UpdateLimits ==
    /\ limits' \in [Users -> DeviceLimits]
    /\ beyond' = beyond \cup Exceeding(limits', remote)
                    \cup {u \in Changing : limits'[u] # limits[u]}
    /\ UNCHANGED <<local, remote, unlimitedVars, startVars, conn, mixed>>

\* Mutant: addresses with a local connection are not left out.
RemoteAll(devices, u) == devices[u]

\* Addresses with a local connection are left out.
RemoteOf(devices, u) == devices[u] \ LocalIPs(u)

UpdateGlobalDevices ==
    /\ \E devices \in [Users -> SUBSET IPs] :
        remote' = [u \in Users |-> RemoteOf(devices, u)]
    /\ beyond' = beyond \cup Exceeding(limits, remote')
    /\ revived' = [u \in Users |-> {}]
    /\ UNCHANGED <<limits, local, unlimitedVars, carried, conn, mixed>>

ClearGlobalDevices ==
    /\ remote' = [u \in Users |-> {}]
    /\ revived' = [u \in Users |-> {}]
    /\ UNCHANGED <<limits, local, unlimitedVars, carried, conn, mixed, beyond>>

\* Start puts a new dispatcher in the place of the old one, of whose remote
\* addresses it takes a snapshot unless there are none, or no dispatcher, to
\* take it of.  What an overlapping Start has yet to restore goes to a
\* dispatcher that is no longer used; the connections of the old one close there.
Swap ==
    /\ limits' = [u \in Users |-> 0]
    /\ local' = [u \in Users |-> [ip \in IPs |-> 0]]
    /\ remote' = [u \in Users |-> {}]
    /\ entry' = [u \in Users |-> FALSE]
    /\ counter' = [u \in Users |-> [ip \in IPs |-> Absent]]
    /\ conn' = [c \in Conns |-> Idle]
    /\ carried' \in {{remote}, {}}
    /\ beyond' = {}
    /\ revived' = [u \in Users |-> {}]
    /\ mixed' = FALSE

\* After the unlock: whatever the new dispatcher has been told meanwhile is
\* overwritten, and its local addresses are not looked at.
RestoreGlobalDevices ==
    /\ \E snapshot \in carried :
          /\ remote' = snapshot
          /\ revived' = [u \in Users |-> snapshot[u] \cap LocalIPs(u)]
    /\ carried' = {}
    /\ beyond' = beyond \cup Exceeding(limits, remote')
    /\ UNCHANGED <<limits, local, unlimitedVars, conn, mixed>>

Connection(c) ==
    \/ \E u \in Users, ip \in IPs, tcp \in BOOLEAN : Dispatch(c, u, ip, tcp)
    \/ PlaceCounter(c) \/ AddReference(c) \/ FastPath(c)
    \/ AdmitKnown(c) \/ AdmitNew(c) \/ AdmitSlow(c) \/ Refuse(c)
    \/ Close(c) \/ FindCounter(c) \/ Subtract(c) \/ DeleteAddress(c)
    \/ Sweep(c) \/ Unlink(c) \/ Release(c)

Next ==
    \/ \E c \in Conns : Connection(c)
    \/ UpdateLimits \/ UpdateGlobalDevices \/ ClearGlobalDevices
    \/ Swap \/ RestoreGlobalDevices

Spec == Init /\ [][Next]_vars

-----------------------------------------------------------------------------
\* No connection that closed keeps its device occupied, whatever goroutines
\* opened, were refused and closed meanwhile: a limited address has exactly the
\* references of its open connections, and an address reported to the panel has
\* a connection.  The premise is that no connection of a limited user was
\* counted as that of an unlimited one at the time.
DevicesAreConnected ==
    ~mixed => \A u \in Users :
        /\ \A ip \in IPs :
              local[u][ip] = Cardinality({c \in OfKind(u, TRUE) :
                                              Counted(c) /\ conn[c].ip = ip})
        /\ \A ip \in AliveIPs(u) :
              \E c \in InFlight(u) : conn[c].tcp /\ conn[c].ip = ip

\* No bookkeeping outlives its connections: a user that has an ipCounter has a
\* connection of an unlimited user in flight, and so has each address in it.
\* Goroutines that close take counters out while others add to them.
NoCounterLeaks ==
    ~mixed => \A u \in Users :
        /\ entry[u] => OfKind(u, FALSE) # {}
        /\ \A ip \in IPs : counter[u][ip] # Absent =>
              \E c \in OfKind(u, FALSE) : conn[c].ip = ip

\* No address is counted as local and as that of another node ("only non-local
\* IPs are stored here", dispatcher.go:212), so that it is free once its last
\* connection closes.  The exception is what the code makes it: the restore of a
\* Start looks at no connection that was admitted since the swap.
LocalIsNotRemote ==
    \A u \in Users : LocalIPs(u) \cap remote[u] \subseteq revived[u]

\* Goroutines that race for the last free device do not get it together: the
\* cap is exceeded only by the rule of the lowest addresses, by an address
\* whose last connection closed while it was being admitted, or by a change of
\* the limit or of the remote addresses.
CapHolds ==
    \A u \in Users \ beyond :
        limits[u] > 0 =>
            Cardinality(LocalIPs(u) \cup remote[u]) <= Hard(limits[u])

\* "Existing IPs always stay allowed" (dispatcher.go:66): a connection is not
\* refused while another one from its address is open.
ExistingStaysAllowed ==
    [][\A c \in Conns : ~mixed /\ Refuse(c) =>
            \A k \in OfKind(conn[c].user, TRUE) \ {c} :
                ~(At(k, "open") /\ conn[k].ip = conn[c].ip)]_vars

-----------------------------------------------------------------------------
(* The inductive invariant.                                                *)

\* The steps of a close that has loaded an ipCounter.
Looking == {"find", "subtract", "delete", "sweep", "unlink"}

\* What the step of a connection says of it.
Agrees(c) ==
    /\ conn[c].at \in {"fast", "known", "room", "slow"} => conn[c].limit > 0
    /\ conn[c].at \in {"place", "add"} => conn[c].limit = 0
    /\ conn[c].at \notin {"fast", "slow"} => conn[c].tcp
    /\ conn[c].linked =>
          conn[c].at \in Looking \cup {"place"} /\ entry[conn[c].user]
    /\ conn[c].held =>
          /\ conn[c].at \in {"add", "subtract"}
          /\ counter[conn[c].user][conn[c].ip] # Absent
          /\ conn[c].at = "subtract" => conn[c].linked
    /\ ~mixed /\ conn[c].at \in Looking => conn[c].limit = 0
StepsAgree == \A c \in Conns : conn[c] # Idle => Agrees(c)

\* What mixed means.
KindsApart ==
    ~mixed => \A u \in Users : OfKind(u, TRUE) = {} \/ OfKind(u, FALSE) = {}

\* The connections a counter counts, those that found it down to zero and are
\* about to take it out, and those about to add to it.
From(u, ip) ==
    {c \in Conns : conn[c] # Idle /\ conn[c].user = u /\ conn[c].ip = ip}
OpenUnlimited(u, ip) ==
    {c \in From(u, ip) :
        \/ At(c, "open") /\ conn[c].limit = 0
        \/ At(c, "find") /\ conn[c].linked
        \/ At(c, "subtract") /\ conn[c].held}
Deleting(u, ip) == {c \in From(u, ip) : At(c, "delete") /\ conn[c].linked}
Adding(u, ip) == {c \in From(u, ip) : At(c, "add") /\ conn[c].held}

\* The connections that hold a reference of a limited address.
Limited(u, ip) ==
    {c \in OfKind(u, TRUE) : Counted(c) /\ conn[c].ip = ip}

ReferencesAreHeld ==
    ~mixed => \A u \in Users, ip \in IPs :
        local[u][ip] = Cardinality(Limited(u, ip))

\* A counter is never above its open connections, and is below zero by no more
\* than those that are about to take it out.
InRange(u, ip) ==
    /\ counter[u][ip] <= Cardinality(OpenUnlimited(u, ip))
    /\ counter[u][ip] # Absent =>
          /\ entry[u]
          /\ counter[u][ip] >= -Cardinality(Deleting(u, ip))
          /\ counter[u][ip] = 0 => Deleting(u, ip) \cup Adding(u, ip) # {}
CountersInRange == \A u \in Users, ip \in IPs : InRange(u, ip)

\* An ipCounter is there while a connection is left that will look at it.
WillLook(c) ==
    At(c, "place") \/ At(c, "add") \/ At(c, "open") \/ conn[c].linked
EntriesAreUsed ==
    ~mixed => \A u \in Users : entry[u] =>
        \E c \in OfKind(u, FALSE) : WillLook(c)

\* A connection in flight goes by the limit in force unless it has changed.
LimitsAreCurrent ==
    \A c \in Conns : conn[c] # Idle /\ conn[c].user \notin beyond =>
        conn[c].limit = limits[conn[c].user]

IInv ==
    /\ TypeOK /\ StepsAgree /\ KindsApart /\ CountersInRange
    /\ EntriesAreUsed /\ LimitsAreCurrent
    /\ ReferencesAreHeld /\ LocalIsNotRemote /\ CapHolds
=============================================================================
