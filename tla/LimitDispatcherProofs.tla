------------------------ MODULE LimitDispatcherProofs ------------------------
(***************************************************************************)
(* LimitDispatcher, for any users, limits, finite sets of addresses and    *)
(* connections: what is counted is connected, the cap holds, and nothing   *)
(* counted outlives its connections.                                       *)
(***************************************************************************)
EXTENDS LimitDispatcher, FiniteSetTheorems, TLAPS

-----------------------------------------------------------------------------
(* Sizes. *)

\* Any set of connections is finite and no larger than all of them.
LEMMA ConnsBound ==
  ASSUME NEW S \in SUBSET Conns
  PROVE  /\ IsFiniteSet(S)
         /\ Cardinality(S) \in Nat
         /\ Cardinality(S) <= Cardinality(Conns)
         /\ Cardinality(Conns) \in Nat
         /\ S = {} <=> Cardinality(S) = 0
  BY DispatcherAssumption, FS_Subset, FS_CardinalityType, FS_EmptySet

\* The mark of a missing counter is below every count.
LEMMA AbsentBound ==
  /\ Cardinality(Conns) \in Nat
  /\ Absent \in Int
  /\ Absent = -(Cardinality(Conns) + 1)
  /\ Absent < 0
  BY ConnsBound DEF Absent

\* A set that gains, loses or keeps one connection.
LEMMA OneMore ==
  ASSUME NEW S \in SUBSET Conns, NEW T \in SUBSET Conns, NEW c \in Conns,
         T \ {c} = S \ {c}
  PROVE  /\ c \in S /\ c \notin T => Cardinality(T) = Cardinality(S) - 1
         /\ c \notin S /\ c \in T => Cardinality(T) = Cardinality(S) + 1
         /\ (c \in S <=> c \in T) => T = S
<1>1. IsFiniteSet(S) /\ IsFiniteSet(T)
  BY ConnsBound
<1>2. CASE c \in S /\ c \notin T
  <2>1. T = S \ {c}
    BY <1>2
  <2> QED
    BY <1>1, <1>2, <2>1, FS_RemoveElement
<1>3. CASE c \notin S /\ c \in T
  <2>1. T = S \cup {c}
    BY <1>3
  <2> QED
    BY <1>1, <1>3, <2>1, FS_AddElement
<1>4. CASE c \in S <=> c \in T
  BY <1>4
<1> QED
  BY <1>2, <1>3, <1>4

\* Fewer addresses are no more devices.
LEMMA FewerDevices ==
  ASSUME NEW A, NEW B, B \subseteq IPs, A \subseteq B
  PROVE  /\ Cardinality(A) \in Nat /\ Cardinality(B) \in Nat
         /\ Cardinality(A) <= Cardinality(B)
  BY DispatcherAssumption, FS_Subset, FS_CardinalityType

-----------------------------------------------------------------------------
(* What a step does to the connections. *)

\* A connection in flight has the fields of one; an idle one only its step.
LEMMA ConnType ==
  ASSUME TypeOK, NEW c \in Conns
  PROVE  /\ conn[c].at \in Steps \cup {"idle"}
         /\ conn[c] # Idle <=> conn[c].at # "idle"
         /\ conn[c] # Idle =>
              /\ conn[c] \in Connections /\ conn[c].at \in Steps
              /\ conn[c].user \in Users /\ conn[c].ip \in IPs
              /\ conn[c].tcp \in BOOLEAN
              /\ conn[c].linked \in BOOLEAN /\ conn[c].held \in BOOLEAN
              /\ conn[c].limit \in Nat /\ conn[c].limit \in DeviceLimits
<1>1. conn[c] \in {Idle} \cup Connections
  BY DEF TypeOK
<1>2. CASE conn[c] = Idle
  BY <1>2 DEF Idle
<1>3. CASE conn[c] \in Connections
  <2>1. conn[c].at \in Steps
    BY <1>3 DEF Connections
  <2>2. conn[c].at # "idle"
    BY <2>1 DEF Steps
  <2>3. conn[c] # Idle
    BY <2>2 DEF Idle
  <2> QED
    BY <1>3, <2>1, <2>2, <2>3, DispatcherAssumption DEF Connections
<1> QED
  BY <1>1, <1>2, <1>3

\* No step of c touches another connection, but for what that has loaded.
SameBut(c) ==
  \A k \in Conns \ {c} :
    /\ conn'[k] # Idle <=> conn[k] # Idle
    /\ conn'[k].at = conn[k].at
    /\ conn[k] # Idle =>
         /\ conn'[k].user = conn[k].user
         /\ conn'[k].ip = conn[k].ip
         /\ conn'[k].tcp = conn[k].tcp
         /\ conn'[k].limit = conn[k].limit
         /\ conn'[k].held => conn[k].held
         /\ conn'[k].linked => conn[k].linked

\* A connection goes on as the one it is, or is done.
Proceeds(c) ==
  /\ SameBut(c)
  /\ conn[c] # Idle
  /\ conn'[c] # Idle =>
       /\ conn'[c].user = conn[c].user
       /\ conn'[c].ip = conn[c].ip
       /\ conn'[c].tcp = conn[c].tcp
       /\ conn'[c].limit = conn[c].limit

\* The sets of connections that do not depend on what was loaded change by c
\* alone.
LEMMA SetsSameBut ==
  ASSUME TypeOK, TypeOK', NEW c \in Conns, SameBut(c), NEW u, NEW ip
  PROVE  /\ Limited(u, ip)' \ {c} = Limited(u, ip) \ {c}
         /\ \A b \in BOOLEAN : OfKind(u, b)' \ {c} = OfKind(u, b) \ {c}
<1>0. \A k \in Conns : conn[k] # Idle <=> conn[k].at # "idle"
  BY ConnType
<1>1. \A b \in BOOLEAN : OfKind(u, b)' \ {c} = OfKind(u, b) \ {c}
  BY DEF OfKind, InFlight, SameBut
<1>2. Limited(u, ip)' \ {c} = Limited(u, ip) \ {c}
  BY <1>0, <1>1 DEF Limited, OfKind, InFlight, SameBut, Counted
<1> QED
  BY <1>1, <1>2

\* A connection that becomes r leaves the others alone.
LEMMA BecomesMoves ==
  ASSUME TypeOK, NEW c \in Conns, NEW r \in {Idle} \cup Connections,
         conn' = [conn EXCEPT ![c] = r]
  PROVE  /\ conn' \in [Conns -> {Idle} \cup Connections]
         /\ SameBut(c)
         /\ conn'[c] = r
         /\ \A k \in Conns \ {c} : conn'[k] = conn[k]
<1>1. /\ conn' \in [Conns -> {Idle} \cup Connections]
      /\ conn'[c] = r
      /\ \A k \in Conns \ {c} : conn'[k] = conn[k]
  BY DEF TypeOK
<1>2. SameBut(c)
  BY <1>1 DEF SameBut
<1> QED
  BY <1>1, <1>2

\* A connection that goes on keeps all but its step.
LEMMA GotoMoves ==
  ASSUME TypeOK, NEW c \in Conns, conn[c] # Idle,
         NEW step \in Steps, Goto(c, step)
  PROVE  /\ conn' \in [Conns -> {Idle} \cup Connections]
         /\ SameBut(c) /\ Proceeds(c)
         /\ \A k \in Conns \ {c} : conn'[k] = conn[k]
         /\ conn'[c] # Idle
         /\ conn'[c].at = step
         /\ conn'[c].user = conn[c].user
         /\ conn'[c].ip = conn[c].ip
         /\ conn'[c].tcp = conn[c].tcp
         /\ conn'[c].limit = conn[c].limit
         /\ conn'[c].linked = conn[c].linked
         /\ conn'[c].held = conn[c].held
<1> DEFINE r == [conn[c] EXCEPT !.at = step]
<1>1. conn[c] \in Connections
  BY ConnType
<1>2. /\ r \in Connections
      /\ r.at = step /\ r.user = conn[c].user /\ r.ip = conn[c].ip
      /\ r.tcp = conn[c].tcp /\ r.limit = conn[c].limit
      /\ r.linked = conn[c].linked /\ r.held = conn[c].held
  BY <1>1 DEF Connections
<1>3. conn' = [conn EXCEPT ![c] = r]
  BY DEF Goto
<1> HIDE DEF r
<1>4. r # Idle
  BY <1>2 DEF Idle, Steps
<1>5. /\ conn' \in [Conns -> {Idle} \cup Connections]
      /\ SameBut(c)
      /\ conn'[c] = r
      /\ \A k \in Conns \ {c} : conn'[k] = conn[k]
  BY <1>2, <1>3, BecomesMoves
<1>6. Proceeds(c)
  BY <1>2, <1>5 DEF Proceeds
<1> QED
  BY <1>2, <1>4, <1>5, <1>6

\* One that loads something, or drops it, keeps all but that and its step.
LEMMA GotoWithMoves ==
  ASSUME TypeOK, NEW c \in Conns, conn[c] # Idle, NEW step \in Steps,
         NEW linked \in BOOLEAN, NEW held \in BOOLEAN,
         GotoWith(c, step, linked, held)
  PROVE  /\ conn' \in [Conns -> {Idle} \cup Connections]
         /\ SameBut(c) /\ Proceeds(c)
         /\ \A k \in Conns \ {c} : conn'[k] = conn[k]
         /\ conn'[c] # Idle
         /\ conn'[c].at = step
         /\ conn'[c].user = conn[c].user
         /\ conn'[c].ip = conn[c].ip
         /\ conn'[c].tcp = conn[c].tcp
         /\ conn'[c].limit = conn[c].limit
         /\ conn'[c].linked = linked
         /\ conn'[c].held = held
<1> DEFINE r == [conn[c] EXCEPT !.at = step, !.linked = linked, !.held = held]
<1>1. conn[c] \in Connections
  BY ConnType
<1>2. /\ r \in Connections
      /\ r.at = step /\ r.user = conn[c].user /\ r.ip = conn[c].ip
      /\ r.tcp = conn[c].tcp /\ r.limit = conn[c].limit
      /\ r.linked = linked /\ r.held = held
  BY <1>1 DEF Connections
<1>3. conn' = [conn EXCEPT ![c] = r]
  BY DEF GotoWith, TypeOK
<1> HIDE DEF r
<1>4. r # Idle
  BY <1>2 DEF Idle, Steps
<1>5. /\ conn' \in [Conns -> {Idle} \cup Connections]
      /\ SameBut(c)
      /\ conn'[c] = r
      /\ \A k \in Conns \ {c} : conn'[k] = conn[k]
  BY <1>2, <1>3, BecomesMoves
<1>6. Proceeds(c)
  BY <1>2, <1>5 DEF Proceeds
<1> QED
  BY <1>2, <1>4, <1>5, <1>6

\* A connection that is done leaves the others alone.
LEMMA FinishedMoves ==
  ASSUME TypeOK, NEW c \in Conns, Finished(c)
  PROVE  /\ conn' \in [Conns -> {Idle} \cup Connections]
         /\ SameBut(c)
         /\ \A k \in Conns \ {c} : conn'[k] = conn[k]
         /\ conn'[c] = Idle /\ conn'[c].at = "idle"
<1>1. Idle \in {Idle} \cup Connections /\ conn' = [conn EXCEPT ![c] = Idle]
  BY DEF Finished
<1>2. Idle.at = "idle"
  BY DEF Idle
<1> QED
  BY <1>1, <1>2, BecomesMoves, Zenon

\* No connection changes its kind, nor the limit it goes by.
LEMMA KindsKept ==
  ASSUME TypeOK, TypeOK', KindsApart, LimitsAreCurrent,
         NEW c \in Conns, Proceeds(c),
         mixed' = mixed, limits' = limits, beyond \subseteq beyond'
  PROVE  /\ KindsApart' /\ LimitsAreCurrent'
         /\ \A u \in Users, b \in BOOLEAN : OfKind(u, b)' \subseteq OfKind(u, b)
<1>1. \A u \in Users, b \in BOOLEAN : OfKind(u, b)' \subseteq OfKind(u, b)
  BY DEF OfKind, InFlight, Proceeds, SameBut
<1>2. KindsApart'
  BY <1>1 DEF KindsApart
<1>3. LimitsAreCurrent'
  BY DEF LimitsAreCurrent, Proceeds, SameBut
<1> QED
  BY <1>1, <1>2, <1>3

\* The other connections have loaded nothing that is no longer there.
OthersHold(c) ==
  \A k \in Conns \ {c} : conn'[k] # Idle =>
    /\ conn'[k].linked => entry'[conn[k].user]
    /\ conn'[k].held => counter'[conn[k].user][conn[k].ip] # Absent
    /\ conn'[k].held /\ conn[k].linked => conn'[k].linked

\* That is so of connections that are left alone, if no entry and no counter
\* goes.
LEMMA OthersKeep ==
  ASSUME TypeOK, StepsAgree, NEW c \in Conns,
         \A k \in Conns \ {c} : conn'[k] = conn[k],
         \A v \in Users : entry[v] => entry'[v],
         \A v \in Users, jp \in IPs :
             counter[v][jp] # Absent => counter'[v][jp] # Absent
  PROVE  OthersHold(c)
<1> SUFFICES ASSUME NEW k \in Conns, k # c, conn'[k] # Idle
             PROVE  /\ conn'[k].linked => entry'[conn[k].user]
                    /\ conn'[k].held => counter'[conn[k].user][conn[k].ip] # Absent
                    /\ conn'[k].held /\ conn[k].linked => conn'[k].linked
  BY DEF OthersHold
<1>1. conn'[k] = conn[k] /\ conn[k] # Idle
  OBVIOUS
<1>2. conn[k].user \in Users /\ conn[k].ip \in IPs
  BY <1>1, ConnType
<1>3. /\ conn[k].linked => entry[conn[k].user]
      /\ conn[k].held => counter[conn[k].user][conn[k].ip] # Absent
  BY <1>1 DEF StepsAgree, Agrees
<1> QED
  BY <1>1, <1>2, <1>3

\* Then they still agree with their steps.
LEMMA OthersAgree ==
  ASSUME TypeOK, TypeOK', StepsAgree, NEW c \in Conns, SameBut(c),
         mixed => mixed', OthersHold(c),
         conn'[c] # Idle => Agrees(c)'
  PROVE  StepsAgree'
<1> SUFFICES ASSUME NEW k \in Conns, k # c, conn'[k] # Idle
             PROVE  Agrees(k)'
  BY DEF StepsAgree
<1>1. /\ conn[k] # Idle /\ conn'[k].at = conn[k].at
      /\ conn'[k].user = conn[k].user /\ conn'[k].ip = conn[k].ip
      /\ conn'[k].tcp = conn[k].tcp /\ conn'[k].limit = conn[k].limit
      /\ conn'[k].held => conn[k].held
      /\ conn'[k].linked => conn[k].linked
  BY DEF SameBut
<1>2. Agrees(k)
  BY <1>1 DEF StepsAgree
<1>3. /\ conn'[k].linked => entry'[conn[k].user]
      /\ conn'[k].held => counter'[conn[k].user][conn[k].ip] # Absent
      /\ conn'[k].held /\ conn[k].linked => conn'[k].linked
  BY DEF OthersHold
<1>4. conn[k].limit \in Nat /\ conn[k].tcp \in BOOLEAN
  BY <1>1, ConnType
<1> QED
  BY <1>1, <1>2, <1>3, <1>4 DEF Agrees, Looking

\* A step that admits and releases nothing leaves the references right.
LEMMA ReferencesKept ==
  ASSUME TypeOK, TypeOK', ReferencesAreHeld, NEW c \in Conns, SameBut(c),
         mixed => mixed', local' = local,
         ~mixed' => \A u \in Users, ip \in IPs :
             c \in Limited(u, ip) <=> c \in Limited(u, ip)'
  PROVE  ReferencesAreHeld'
<1> SUFFICES ASSUME ~mixed', NEW u \in Users, NEW ip \in IPs
             PROVE  Limited(u, ip)' = Limited(u, ip)
  BY DEF ReferencesAreHeld
<1> QED
  BY SetsSameBut

\* Devices and limits that stay as they are keep what they promise.
LEMMA DevicesKept ==
  ASSUME LocalIsNotRemote, CapHolds, local' = local, remote' = remote,
         limits' = limits, revived' = revived, beyond \subseteq beyond'
  PROVE  LocalIsNotRemote' /\ CapHolds'
  BY DEF LocalIsNotRemote, CapHolds, LocalIPs

-----------------------------------------------------------------------------
(* Counters and entries. *)

\* The connections of an address are left alone by the step of c.
Untouched(c, u, ip) ==
  \A k \in Conns \ {c} :
    conn[k] # Idle /\ conn[k].user = u /\ conn[k].ip = ip => conn'[k] = conn[k]

\* Then what a counter of the address counts changes by c alone.
LEMMA CountedSameBut ==
  ASSUME NEW c \in Conns, SameBut(c), NEW u, NEW ip, Untouched(c, u, ip)
  PROVE  /\ OpenUnlimited(u, ip)' \ {c} = OpenUnlimited(u, ip) \ {c}
         /\ Deleting(u, ip)' \ {c} = Deleting(u, ip) \ {c}
         /\ Adding(u, ip)' \ {c} = Adding(u, ip) \ {c}
         /\ OpenUnlimited(u, ip) \in SUBSET Conns
         /\ OpenUnlimited(u, ip)' \in SUBSET Conns
         /\ Deleting(u, ip) \in SUBSET Conns
         /\ Deleting(u, ip)' \in SUBSET Conns
<1>1. From(u, ip)' \ {c} = From(u, ip) \ {c}
  BY DEF From, SameBut
<1>2. \A k \in From(u, ip) \ {c} : k \in Conns /\ conn'[k] = conn[k]
  BY DEF From, Untouched
<1>3. From(u, ip) \subseteq Conns /\ From(u, ip)' \subseteq Conns
  BY DEF From
<1>4. OpenUnlimited(u, ip)' \ {c} = OpenUnlimited(u, ip) \ {c}
  BY <1>1, <1>2 DEF OpenUnlimited, At
<1>5. Deleting(u, ip)' \ {c} = Deleting(u, ip) \ {c}
  BY <1>1, <1>2 DEF Deleting, At
<1>6. Adding(u, ip)' \ {c} = Adding(u, ip) \ {c}
  BY <1>1, <1>2 DEF Adding, At
<1> QED
  BY <1>3, <1>4, <1>5, <1>6 DEF OpenUnlimited, Deleting

\* What one of the connections counts as.
LEMMA CountedAs ==
  ASSUME TypeOK, NEW c \in Conns, NEW u, NEW ip
  PROVE  /\ c \in OpenUnlimited(u, ip) <=>
              /\ conn[c] # Idle /\ conn[c].user = u /\ conn[c].ip = ip
              /\ \/ conn[c].at = "open" /\ conn[c].limit = 0
                 \/ conn[c].at = "find" /\ conn[c].linked
                 \/ conn[c].at = "subtract" /\ conn[c].held
         /\ c \in Deleting(u, ip) <=>
              /\ conn[c] # Idle /\ conn[c].user = u /\ conn[c].ip = ip
              /\ conn[c].at = "delete" /\ conn[c].linked
         /\ c \in Adding(u, ip) <=>
              /\ conn[c] # Idle /\ conn[c].user = u /\ conn[c].ip = ip
              /\ conn[c].at = "add" /\ conn[c].held
  BY DEF OpenUnlimited, Deleting, Adding, From, At

\* No counter is in range, whatever connections there are.
LEMMA AbsentInRange ==
  ASSUME NEW u \in Users, NEW ip \in IPs, counter'[u][ip] = Absent
  PROVE  InRange(u, ip)'
<1>1. OpenUnlimited(u, ip)' \in SUBSET Conns
  BY DEF OpenUnlimited, From
<1>2. Cardinality(OpenUnlimited(u, ip)') \in Nat
  BY <1>1, ConnsBound
<1> QED
  BY <1>2, AbsentBound DEF InRange

\* A counter that stays as it is remains in range if it counts no fewer.
LEMMA CounterKept ==
  ASSUME TypeOK, NEW c \in Conns, SameBut(c), NEW u \in Users, NEW ip \in IPs,
         Untouched(c, u, ip), InRange(u, ip), counter'[u][ip] = counter[u][ip],
         entry[u] => entry'[u],
         counter[u][ip] # Absent =>
           /\ c \in OpenUnlimited(u, ip) => c \in OpenUnlimited(u, ip)'
           /\ c \in Deleting(u, ip) => c \in Deleting(u, ip)'
           /\ c \in Adding(u, ip) => c \in Adding(u, ip)'
  PROVE  InRange(u, ip)'
<1>1. CASE counter[u][ip] = Absent
  BY <1>1, AbsentInRange
<1>2. CASE counter[u][ip] # Absent
  <2>1. /\ OpenUnlimited(u, ip) \subseteq OpenUnlimited(u, ip)'
        /\ Deleting(u, ip) \subseteq Deleting(u, ip)'
        /\ Adding(u, ip) \subseteq Adding(u, ip)'
        /\ OpenUnlimited(u, ip)' \in SUBSET Conns
        /\ Deleting(u, ip)' \in SUBSET Conns
    BY <1>2, CountedSameBut
  <2>2. /\ Cardinality(OpenUnlimited(u, ip)) \in Nat
        /\ Cardinality(OpenUnlimited(u, ip)') \in Nat
        /\ Cardinality(Deleting(u, ip)) \in Nat
        /\ Cardinality(Deleting(u, ip)') \in Nat
        /\ Cardinality(OpenUnlimited(u, ip)) <= Cardinality(OpenUnlimited(u, ip)')
        /\ Cardinality(Deleting(u, ip)) <= Cardinality(Deleting(u, ip)')
    <3>1. OpenUnlimited(u, ip) \in SUBSET Conns /\ Deleting(u, ip) \in SUBSET Conns
      BY <2>1
    <3>2. IsFiniteSet(OpenUnlimited(u, ip)') /\ IsFiniteSet(Deleting(u, ip)')
      BY <2>1, ConnsBound
    <3> QED
      BY <2>1, <3>1, <3>2, ConnsBound, FS_Subset
  <2>3. counter[u][ip] \in Int
    BY AbsentBound DEF TypeOK, Counts
  <2>4. /\ counter[u][ip] <= Cardinality(OpenUnlimited(u, ip))
        /\ entry[u]
        /\ counter[u][ip] >= -Cardinality(Deleting(u, ip))
        /\ counter[u][ip] = 0 => Deleting(u, ip) \cup Adding(u, ip) # {}
    BY <1>2 DEF InRange
  <2>5. /\ counter'[u][ip] <= Cardinality(OpenUnlimited(u, ip)')
        /\ counter'[u][ip] >= -Cardinality(Deleting(u, ip)')
    BY <2>2, <2>3, <2>4
  <2>6. counter'[u][ip] = 0 => Deleting(u, ip)' \cup Adding(u, ip)' # {}
    BY <2>1, <2>4
  <2> QED
    BY <2>4, <2>5, <2>6 DEF InRange
<1> QED
  BY <1>1, <1>2

\* The ipCounters that the other connections have loaded and that stay.
OthersLook(c) ==
  \A k \in Conns \ {c} :
    conn[k] # Idle /\ conn[k].linked /\ entry'[conn[k].user] => conn'[k].linked

\* An entry keeps its connection unless that is the one that goes.
LEMMA EntriesKept ==
  ASSUME TypeOK, TypeOK', EntriesAreUsed, NEW c \in Conns, SameBut(c),
         OthersLook(c), mixed => mixed',
         \A v \in Users : entry'[v] => entry[v],
         conn[c] # Idle /\ ~mixed' /\ ~(conn[c].limit > 0) /\ WillLook(c)
           /\ entry'[conn[c].user] =>
             /\ conn'[c] # Idle /\ WillLook(c)'
             /\ conn'[c].user = conn[c].user /\ conn'[c].tcp = conn[c].tcp
             /\ conn'[c].limit = conn[c].limit
  PROVE  EntriesAreUsed'
<1> SUFFICES ASSUME ~mixed', NEW u \in Users, entry'[u]
             PROVE  \E k \in OfKind(u, FALSE)' : WillLook(k)'
  BY DEF EntriesAreUsed
<1>1. PICK k \in OfKind(u, FALSE) : WillLook(k)
  BY DEF EntriesAreUsed
<1>2. k \in Conns /\ conn[k] # Idle /\ conn[k].user = u /\ conn[k].tcp
        /\ ~(conn[k].limit > 0)
  BY <1>1 DEF OfKind, InFlight
<1>3. CASE k = c
  <2>1. /\ conn'[c] # Idle /\ WillLook(c)'
        /\ conn'[c].user = conn[c].user /\ conn'[c].tcp = conn[c].tcp
        /\ conn'[c].limit = conn[c].limit
    BY <1>1, <1>2, <1>3
  <2>2. c \in OfKind(u, FALSE)'
    BY <1>2, <1>3, <2>1 DEF OfKind, InFlight
  <2> QED
    BY <2>1, <2>2
<1>4. CASE k # c
  <2>1. /\ conn'[k] # Idle /\ conn'[k].at = conn[k].at
        /\ conn'[k].user = u /\ conn'[k].tcp
        /\ ~(conn'[k].limit > 0)
        /\ conn[k].linked => conn'[k].linked
    BY <1>2, <1>4 DEF SameBut, OthersLook
  <2>2. k \in OfKind(u, FALSE)'
    BY <1>2, <2>1 DEF OfKind, InFlight
  <2>3. WillLook(k)'
    BY <1>1, <2>1 DEF WillLook, At
  <2> QED
    BY <2>2, <2>3
<1> QED
  BY <1>3, <1>4

\* A step of a connection that is not counted under a limit keeps the invariant
\* if it does that of the counters and entries.
LEMMA UnlimitedStep ==
  ASSUME IInv, NEW c \in Conns, Proceeds(c),
         conn' \in [Conns -> {Idle} \cup Connections],
         counter' \in [Users -> [IPs -> Counts]],
         entry' \in [Users -> BOOLEAN],
         UNCHANGED <<limitedVars, startVars, mixed, beyond>>,
         OthersHold(c), conn'[c] # Idle => Agrees(c)',
         ~mixed => \A u \in Users, ip \in IPs :
             c \in Limited(u, ip) <=> c \in Limited(u, ip)',
         \A u \in Users, ip \in IPs : InRange(u, ip)',
         TypeOK' => EntriesAreUsed'
  PROVE  IInv'
<1>1. TypeOK /\ SameBut(c)
  BY DEF IInv, Proceeds
<1>2. /\ limits' = limits /\ local' = local /\ remote' = remote
      /\ carried' = carried /\ revived' = revived
      /\ mixed' = mixed /\ beyond' = beyond
  BY DEF limitedVars, startVars
<1>3. TypeOK'
  BY <1>1, <1>2 DEF TypeOK
<1>4. StepsAgree'
  BY <1>1, <1>2, <1>3, OthersAgree DEF IInv
<1>5. KindsApart' /\ LimitsAreCurrent'
  BY <1>1, <1>2, <1>3, KindsKept DEF IInv
<1>6. CountersInRange'
  BY DEF CountersInRange
<1>7. ReferencesAreHeld'
  BY <1>1, <1>2, <1>3, ReferencesKept DEF IInv
<1>8. LocalIsNotRemote' /\ CapHolds'
  BY <1>2, DevicesKept DEF IInv
<1> QED
  BY <1>3, <1>4, <1>5, <1>6, <1>7, <1>8 DEF IInv

-----------------------------------------------------------------------------
(* Admission. *)

\* A limited connection on its way has loaded nothing and is counted nowhere.
LEMMA LimitedSteps ==
  ASSUME IInv, NEW c \in Conns,
         conn[c].at \in {"fast", "known", "room", "slow"}
  PROVE  /\ TypeOK /\ conn[c] # Idle /\ conn[c].limit > 0
         /\ ~conn[c].held /\ ~conn[c].linked
         /\ \A u \in Users, ip \in IPs :
              /\ c \notin Limited(u, ip) /\ c \notin OpenUnlimited(u, ip)
              /\ c \notin Deleting(u, ip) /\ c \notin Adding(u, ip)
<1>1. TypeOK /\ conn[c] # Idle /\ Agrees(c)
  BY ConnType DEF IInv, StepsAgree
<1>2. conn[c].limit > 0 /\ ~conn[c].held /\ ~conn[c].linked
  BY <1>1 DEF Agrees, Looking
<1>3. \A u \in Users, ip \in IPs :
        /\ c \notin Limited(u, ip) /\ c \notin OpenUnlimited(u, ip)
        /\ c \notin Deleting(u, ip) /\ c \notin Adding(u, ip)
  BY <1>1, CountedAs DEF Limited, Counted
<1> QED
  BY <1>1, <1>2, <1>3

\* What is said of counters and entries stays true while a limited connection
\* goes its way.
LEMMA UnlimitedKept ==
  ASSUME IInv, TypeOK', NEW c \in Conns, Proceeds(c),
         conn[c].at \in {"fast", "known", "room", "slow"},
         \A k \in Conns \ {c} : conn'[k] = conn[k],
         UNCHANGED <<unlimitedVars, mixed>>,
         conn'[c] # Idle =>
           /\ conn'[c].at \in {"known", "room", "slow", "open"}
           /\ conn'[c].at # "slow" => conn'[c].tcp
           /\ ~conn'[c].held /\ ~conn'[c].linked
  PROVE  StepsAgree' /\ CountersInRange' /\ EntriesAreUsed'
<1>1. /\ SameBut(c) /\ TypeOK
      /\ entry' = entry /\ counter' = counter /\ mixed' = mixed
  BY DEF Proceeds, unlimitedVars, IInv
<1>2. conn[c] # Idle /\ conn[c].limit > 0 /\ conn[c].limit \in Nat
  BY <1>1, LimitedSteps, ConnType
<1>3. StepsAgree'
  <2>1. OthersHold(c)
    BY <1>1, OthersKeep DEF IInv
  <2>2. conn'[c] # Idle => Agrees(c)'
    BY <1>2 DEF Agrees, Looking, Proceeds
  <2> QED
    BY <1>1, <2>1, <2>2, OthersAgree DEF IInv
<1>4. CountersInRange'
  <2> SUFFICES ASSUME NEW u \in Users, NEW ip \in IPs
               PROVE  InRange(u, ip)'
    BY DEF CountersInRange
  <2>1. InRange(u, ip) /\ Untouched(c, u, ip)
    BY DEF IInv, CountersInRange, Untouched
  <2>2. /\ c \notin OpenUnlimited(u, ip)
        /\ c \notin Deleting(u, ip) /\ c \notin Adding(u, ip)
    BY LimitedSteps
  <2> QED
    BY <1>1, <2>1, <2>2, CounterKept
<1>5. EntriesAreUsed'
  <2>1. OthersLook(c)
    BY DEF OthersLook
  <2> QED
    BY <1>1, <1>2, <2>1, EntriesKept DEF IInv
<1> QED
  BY <1>3, <1>4, <1>5

\* A limited connection that is looked at, sent on, admitted uncounted or
\* refused changes no count.
LEMMA Considered ==
  ASSUME IInv, NEW c \in Conns,
         conn[c].at \in {"fast", "known", "room", "slow"},
         \/ Finished(c)
         \/ \E step \in {"known", "room", "slow"} :
              Goto(c, step) /\ (step # "slow" => conn[c].tcp),
         UNCHANGED <<limitedVars, unlimitedVars, startVars, mixed>>,
         beyond \subseteq beyond', beyond' \subseteq Users
  PROVE  IInv'
<1>1. TypeOK /\ conn[c] # Idle /\ ~conn[c].held /\ ~conn[c].linked
  BY LimitedSteps
<1>2. /\ conn' \in [Conns -> {Idle} \cup Connections]
      /\ Proceeds(c)
      /\ \A k \in Conns \ {c} : conn'[k] = conn[k]
      /\ conn'[c].at \in {"known", "room", "slow", "idle"}
      /\ conn'[c] # Idle => /\ conn'[c].at \in {"known", "room", "slow"}
                            /\ ~conn'[c].held /\ ~conn'[c].linked
      /\ conn'[c] # Idle /\ conn'[c].at # "slow" => conn'[c].tcp
  <2>1. CASE Finished(c)
    BY <1>1, <2>1, FinishedMoves DEF Proceeds
  <2>2. ASSUME NEW step \in {"known", "room", "slow"},
               Goto(c, step), step # "slow" => conn[c].tcp
        PROVE  <1>2
    <3>1. step \in Steps
      BY DEF Steps
    <3> QED
      BY <1>1, <2>2, <3>1, GotoMoves
  <2> QED
    BY <2>1, <2>2
<1>3. TypeOK'
  BY <1>1, <1>2 DEF TypeOK, limitedVars, unlimitedVars, startVars
<1>4. SameBut(c)
  BY <1>2 DEF Proceeds
<1>5. StepsAgree' /\ CountersInRange' /\ EntriesAreUsed'
  BY <1>2, <1>3, UnlimitedKept
<1>6. KindsApart' /\ LimitsAreCurrent'
  BY <1>1, <1>2, <1>3, KindsKept DEF IInv, limitedVars
<1>7. ReferencesAreHeld'
  <2>1. \A u \in Users, ip \in IPs :
          c \notin Limited(u, ip) /\ c \notin Limited(u, ip)'
    BY <1>2, LimitedSteps DEF Limited, Counted
  <2> QED
    BY <1>1, <1>3, <1>4, <2>1, ReferencesKept DEF IInv, limitedVars
<1>8. LocalIsNotRemote' /\ CapHolds'
  BY DevicesKept DEF IInv, limitedVars, startVars
<1> QED
  BY <1>3, <1>5, <1>6, <1>7, <1>8 DEF IInv

\* An admission under the cap, or by a user let beyond it, keeps the cap, and
\* the address is counted once.
LEMMA AdmitDevices ==
  ASSUME IInv, NEW c \in Conns, conn[c] # Idle, NEW moved, Admit(c, moved),
         moved = {conn[c].ip} \/ (moved = {} /\ conn[c].ip \in LocalIPs(conn[c].user)),
         beyond \subseteq beyond', revived' = revived,
         conn[c].user \notin beyond' =>
           \/ conn[c].ip \in LocalIPs(conn[c].user)
           \/ HasRoom(conn[c].user, conn[c].ip, limits[conn[c].user])
  PROVE  LocalIsNotRemote' /\ CapHolds'
<1>1. TypeOK /\ beyond \subseteq beyond'
  BY DEF IInv
<1> PICK u \in Users, ip \in IPs : u = conn[c].user /\ ip = conn[c].ip
  BY <1>1, ConnType
<1>2. /\ local' = [local EXCEPT ![u][ip] = @ + 1]
      /\ remote' = [remote EXCEPT ![u] = @ \ moved]
      /\ limits' = limits
      /\ moved = {ip} \/ (moved = {} /\ ip \in LocalIPs(u))
  BY DEF Admit
<1>3. LocalIPs(u)' = LocalIPs(u) \cup {ip} /\ remote'[u] = remote[u] \ moved
  BY <1>1, <1>2 DEF LocalIPs, TypeOK
<1>4. \A v \in Users \ {u} : LocalIPs(v)' = LocalIPs(v) /\ remote'[v] = remote[v]
  BY <1>1, <1>2 DEF LocalIPs, TypeOK
<1>5. LocalIsNotRemote'
  BY <1>1, <1>2, <1>3, <1>4 DEF IInv, LocalIsNotRemote
<1>6. ASSUME NEW v \in Users, v \notin beyond', limits[v] > 0
      PROVE  Cardinality(LocalIPs(v)' \cup remote'[v]) <= Hard(limits[v])
  <2>1. v \notin beyond
        /\ Cardinality(LocalIPs(v) \cup remote[v]) <= Hard(limits[v])
    BY <1>6 DEF IInv, CapHolds
  <2>2. CASE v # u
    BY <1>4, <2>1, <2>2
  <2>3. limits[v] \in Nat /\ Hard(limits[v]) \in Int
    <3>1. limits[v] \in Nat
      BY <1>1, DispatcherAssumption DEF TypeOK
    <3> QED
      BY <3>1 DEF Hard
  <2>4. CASE v = u /\ ip \in LocalIPs(u)
    <3>1. LocalIPs(v)' \cup remote'[v] \subseteq LocalIPs(v) \cup remote[v]
      BY <1>3, <2>4
    <3>2. LocalIPs(v) \cup remote[v] \subseteq IPs
      BY <1>1 DEF LocalIPs, TypeOK
    <3>3. Cardinality(LocalIPs(v)' \cup remote'[v])
            <= Cardinality(LocalIPs(v) \cup remote[v])
          /\ Cardinality(LocalIPs(v)' \cup remote'[v]) \in Nat
          /\ Cardinality(LocalIPs(v) \cup remote[v]) \in Nat
      BY <3>1, <3>2, FewerDevices
    <3> QED
      BY <2>1, <2>3, <3>3
  <2>5. CASE v = u /\ HasRoom(u, ip, limits[u])
    <3>1. LocalIPs(v)' \cup remote'[v] = Devices(u, ip)
      BY <1>2, <1>3, <2>5 DEF Devices
    <3> QED
      BY <2>5, <3>1 DEF HasRoom
  <2> QED
    BY <1>6, <2>2, <2>4, <2>5
<1>7. CapHolds'
  BY <1>2, <1>6 DEF CapHolds
<1> QED
  BY <1>5, <1>7

\* An admission counts one more reference of the address.
LEMMA Admitted ==
  ASSUME IInv, NEW c \in Conns,
         conn[c].at \in {"fast", "known", "room", "slow"}, conn[c].tcp,
         NEW moved, Admit(c, moved), UNCHANGED <<unlimitedVars, startVars, mixed>>,
         moved = {conn[c].ip} \/ (moved = {} /\ conn[c].ip \in LocalIPs(conn[c].user)),
         beyond \subseteq beyond', beyond' \subseteq Users,
         conn[c].user \notin beyond' =>
           \/ conn[c].ip \in LocalIPs(conn[c].user)
           \/ HasRoom(conn[c].user, conn[c].ip, limits[conn[c].user])
  PROVE  IInv'
<1>1. /\ TypeOK /\ conn[c] # Idle /\ conn[c].limit > 0
      /\ ~conn[c].held /\ ~conn[c].linked
  BY LimitedSteps
<1>2. /\ conn' \in [Conns -> {Idle} \cup Connections]
      /\ Proceeds(c) /\ SameBut(c)
      /\ \A k \in Conns \ {c} : conn'[k] = conn[k]
      /\ conn'[c] # Idle /\ conn'[c].at = "open"
      /\ conn'[c].user = conn[c].user /\ conn'[c].ip = conn[c].ip
      /\ conn'[c].tcp /\ conn'[c].limit = conn[c].limit
      /\ ~conn'[c].held /\ ~conn'[c].linked
  <2>1. Goto(c, "open") /\ "open" \in Steps
    BY DEF Admit, Steps
  <2> QED
    BY <1>1, <2>1, GotoMoves
<1>3. conn[c].user \in Users /\ conn[c].ip \in IPs
  BY <1>1, ConnType
<1>4. TypeOK'
  <2>1. /\ local' \in [Users -> [IPs -> Nat]]
        /\ remote' \in [Users -> SUBSET IPs]
    BY <1>1, <1>3 DEF TypeOK, Admit
  <2> QED
    BY <1>1, <1>2, <2>1 DEF TypeOK, Admit, unlimitedVars, startVars
<1>5. StepsAgree' /\ CountersInRange' /\ EntriesAreUsed'
  BY <1>2, <1>4, UnlimitedKept
<1>6. KindsApart' /\ LimitsAreCurrent'
  BY <1>1, <1>2, <1>4, KindsKept DEF IInv, Admit
<1>7. ReferencesAreHeld'
  <2> SUFFICES ASSUME ~mixed, NEW u \in Users, NEW ip \in IPs
               PROVE  local'[u][ip] = Cardinality(Limited(u, ip)')
    BY DEF ReferencesAreHeld
  <2>1. local[u][ip] = Cardinality(Limited(u, ip))
    BY DEF IInv, ReferencesAreHeld
  <2>2. Limited(u, ip) \in SUBSET Conns /\ Limited(u, ip)' \in SUBSET Conns
    BY DEF Limited, OfKind, InFlight
  <2>3. Limited(u, ip)' \ {c} = Limited(u, ip) \ {c}
    BY <1>1, <1>2, <1>4, SetsSameBut
  <2>4. c \notin Limited(u, ip)
    BY DEF Limited, Counted
  <2>5. c \in Limited(u, ip)' <=> u = conn[c].user /\ ip = conn[c].ip
    BY <1>1, <1>2 DEF Limited, OfKind, InFlight, Counted
  <2>6. local'[u][ip] = IF u = conn[c].user /\ ip = conn[c].ip
                        THEN local[u][ip] + 1 ELSE local[u][ip]
    BY <1>1, <1>3 DEF Admit, TypeOK
  <2> QED
    BY <2>1, <2>2, <2>3, <2>4, <2>5, <2>6, OneMore
<1>8. LocalIsNotRemote' /\ CapHolds'
  BY <1>1, AdmitDevices DEF startVars
<1> QED
  BY <1>4, <1>5, <1>6, <1>7, <1>8 DEF IInv

\* The fast path only reads.
LEMMA FastPathInv ==
  ASSUME IInv, NEW c \in Conns, FastPath(c)
  PROVE  IInv'
<1>1. \/ Finished(c)
      \/ \E step \in {"known", "room", "slow"} :
           Goto(c, step) /\ (step # "slow" => conn[c].tcp)
  BY DEF FastPath, GoOn
<1>2. beyond' = beyond /\ beyond \subseteq Users
  BY DEF FastPath, IInv, TypeOK
<1> QED
  BY <1>1, <1>2, Considered DEF FastPath, At

\* A known address is admitted whatever has closed meanwhile.
LEMMA AdmitKnownInv ==
  ASSUME IInv, NEW c \in Conns, AdmitKnown(c)
  PROVE  IInv'
<1>1. conn[c].at = "known" /\ TypeOK
  BY DEF AdmitKnown, At, IInv
<1>2. conn[c].tcp /\ conn[c].user \in Users
  BY <1>1, ConnType DEF IInv, StepsAgree, Agrees
<1>3. beyond \subseteq beyond' /\ beyond' \subseteq Users
  BY <1>1, <1>2 DEF AdmitKnown, TypeOK
<1> QED
  BY <1>1, <1>2, <1>3, Admitted DEF AdmitKnown

\* The room is looked for again by the limit the connection has read, which is
\* the one in force for a user that is not beyond.
LEMMA AdmitNewInv ==
  ASSUME IInv, NEW c \in Conns, AdmitNew(c)
  PROVE  IInv'
<1>1. conn[c].at = "room" /\ TypeOK /\ beyond' = beyond /\ beyond \subseteq Users
  BY DEF AdmitNew, At, IInv, TypeOK
<1>2. conn[c] # Idle /\ conn[c].tcp
  BY <1>1, ConnType DEF IInv, StepsAgree, Agrees
<1>3. CASE conn[c].ip \in LocalIPs(conn[c].user)
             \/ HasRoom(conn[c].user, conn[c].ip, conn[c].limit)
  <2>1. conn[c].user \notin beyond =>
          \/ conn[c].ip \in LocalIPs(conn[c].user)
          \/ HasRoom(conn[c].user, conn[c].ip, limits[conn[c].user])
    BY <1>2, <1>3 DEF IInv, LimitsAreCurrent
  <2> QED
    BY <1>1, <1>2, <1>3, <2>1, Admitted DEF AdmitNew
<1>4. CASE ~(conn[c].ip \in LocalIPs(conn[c].user)
               \/ HasRoom(conn[c].user, conn[c].ip, conn[c].limit))
  <2>1. Goto(c, "slow") /\ UNCHANGED <<limitedVars, unlimitedVars, startVars, mixed>>
    BY <1>4 DEF AdmitNew
  <2> QED
    BY <1>1, <2>1, Considered
<1> QED
  BY <1>3, <1>4

\* Under the rule of the lowest addresses the user is let beyond the cap.
LEMMA AdmitSlowInv ==
  ASSUME IInv, NEW c \in Conns, AdmitSlow(c)
  PROVE  IInv'
<1>1. conn[c].at = "slow" /\ TypeOK
  BY DEF AdmitSlow, At, IInv
<1>2. conn[c].user \in Users /\ conn[c].tcp \in BOOLEAN
  BY <1>1, ConnType
<1>3. beyond \subseteq beyond' /\ beyond' \subseteq Users
  BY <1>1, <1>2 DEF AdmitSlow, TypeOK
<1>4. CASE conn[c].tcp
  <2> DEFINE moved == {conn[c].ip} \ LocalIPs(conn[c].user)
  <2>1. moved = {conn[c].ip} \/ (moved = {} /\ conn[c].ip \in LocalIPs(conn[c].user))
    OBVIOUS
  <2>2. /\ Admit(c, moved) /\ UNCHANGED <<unlimitedVars, startVars, mixed>>
        /\ conn[c].user \notin beyond' =>
              \/ conn[c].ip \in LocalIPs(conn[c].user)
              \/ HasRoom(conn[c].user, conn[c].ip, limits[conn[c].user])
    BY <1>4 DEF AdmitSlow
  <2> HIDE DEF moved
  <2> QED
    BY <1>1, <1>3, <1>4, <2>1, <2>2, Admitted
<1>5. CASE ~conn[c].tcp
  <2>1. Finished(c) /\ UNCHANGED <<limitedVars, unlimitedVars, startVars, mixed>>
    BY <1>5 DEF AdmitSlow
  <2> QED
    BY <1>1, <1>3, <2>1, Considered
<1> QED
  BY <1>2, <1>4, <1>5

\* A connection that is refused leaves nothing behind.
LEMMA RefuseInv ==
  ASSUME IInv, NEW c \in Conns, Refuse(c)
  PROVE  IInv'
<1>1. beyond' = beyond /\ beyond \subseteq Users
  BY DEF Refuse, IInv, TypeOK
<1> QED
  BY <1>1, Considered DEF Refuse, At

-----------------------------------------------------------------------------
(* Dispatch, PlaceCounter and AddReference. *)

\* A new connection reads the limit in force.
LEMMA DispatchInv ==
  ASSUME IInv, NEW c \in Conns, NEW u \in Users, NEW ip \in IPs,
         NEW tcp \in BOOLEAN, Dispatch(c, u, ip, tcp)
  PROVE  IInv'
<1> DEFINE step == IF limits[u] > 0 THEN "fast" ELSE "place"
           r == [at |-> step, user |-> u, ip |-> ip, tcp |-> tcp,
                 limit |-> limits[u], linked |-> step = "place", held |-> FALSE]
<1>1. TypeOK /\ limits[u] \in Nat /\ limits[u] \in DeviceLimits
  BY DispatcherAssumption DEF IInv, TypeOK
<1>2. /\ conn[c] = Idle
      /\ tcp \/ limits[u] > 0
      /\ conn' = [conn EXCEPT ![c] = r]
      /\ mixed' = (mixed \/ (tcp /\ OfKind(u, limits[u] = 0) # {}))
      /\ UNCHANGED <<limitedVars, counter, startVars, beyond>>
  BY DEF Dispatch
<1>3. /\ entry' \in [Users -> BOOLEAN]
      /\ \A v \in Users : /\ entry[v] => entry'[v]
                          /\ v # u => (entry'[v] => entry[v])
      /\ step = "place" => entry'[u] /\ limits[u] = 0 /\ tcp
      /\ step = "fast" => entry' = entry /\ limits[u] > 0
  <2>1. entry' = [entry EXCEPT ![u] = @ \/ step = "place"]
    BY DEF Dispatch
  <2>2. step = "place" => limits[u] = 0 /\ tcp
    BY <1>1, <1>2
  <2>3. step = "fast" => entry' = entry
    BY <1>1, <2>1 DEF TypeOK
  <2> HIDE DEF step
  <2>4. /\ entry' \in [Users -> BOOLEAN]
        /\ \A v \in Users : /\ entry[v] => entry'[v]
                            /\ v # u => (entry'[v] => entry[v])
        /\ step = "place" => entry'[u]
    BY <1>1, <2>1 DEF TypeOK
  <2> QED
    BY <1>1, <2>2, <2>3, <2>4 DEF step
<1>4. step \in {"fast", "place"}
  OBVIOUS
<1>5. /\ r \in Connections /\ r # Idle
      /\ r.at = step /\ r.user = u /\ r.ip = ip /\ r.tcp = tcp
      /\ r.limit = limits[u] /\ ~r.held /\ (r.linked => step = "place")
      /\ step = "place" => r.linked
  <2>1. step \in Steps
    BY DEF Steps
  <2>2. r \in Connections
    BY <1>1, <2>1 DEF Connections
  <2>3. step # "idle"
    OBVIOUS
  <2> QED
    BY <2>2, <2>3 DEF Idle
<1> HIDE DEF r, step
<1>6. /\ conn' \in [Conns -> {Idle} \cup Connections]
      /\ conn'[c] = r
      /\ \A k \in Conns \ {c} : conn'[k] = conn[k]
      /\ SameBut(c)
  BY <1>1, <1>2, <1>5, BecomesMoves
<1>7. /\ limits' = limits /\ local' = local /\ remote' = remote
      /\ carried' = carried /\ revived' = revived /\ beyond' = beyond
      /\ counter' = counter /\ (mixed => mixed')
  BY <1>2 DEF limitedVars, startVars
<1>8. TypeOK'
  <2>1. mixed' \in BOOLEAN
    BY <1>1, <1>2 DEF TypeOK
  <2> QED
    BY <1>1, <1>3, <1>6, <1>7, <2>1 DEF TypeOK
<1>9. StepsAgree'
  <2>1. OthersHold(c)
    BY <1>1, <1>3, <1>6, <1>7, OthersKeep DEF IInv
  <2>2. Agrees(c)'
    BY <1>3, <1>4, <1>5, <1>6 DEF Agrees, Looking
  <2> QED
    BY <1>1, <1>6, <1>7, <1>8, <2>1, <2>2, OthersAgree DEF IInv
<1>10. \A v, jp : /\ c \notin OpenUnlimited(v, jp)
                  /\ c \notin Deleting(v, jp) /\ c \notin Adding(v, jp)
  BY <1>1, <1>2, CountedAs
<1>11. CountersInRange'
  <2> SUFFICES ASSUME NEW v \in Users, NEW jp \in IPs
               PROVE  InRange(v, jp)'
    BY DEF CountersInRange
  <2>1. InRange(v, jp) /\ Untouched(c, v, jp)
    BY <1>6 DEF IInv, CountersInRange, Untouched
  <2> QED
    BY <1>1, <1>3, <1>6, <1>7, <1>10, <2>1, CounterKept
<1>14. KindsApart'
  <2> SUFFICES ASSUME ~mixed', NEW v \in Users,
                      OfKind(v, TRUE)' # {}, OfKind(v, FALSE)' # {}
               PROVE  FALSE
    BY DEF KindsApart
  <2>1. \A b \in BOOLEAN : OfKind(v, b)' \ {c} = OfKind(v, b) \ {c}
    BY <1>1, <1>6, <1>8, SetsSameBut
  <2>2. \A b \in BOOLEAN : c \notin OfKind(v, b)
    BY <1>2 DEF OfKind, InFlight
  <2>3. /\ c \in OfKind(v, TRUE)' => v = u /\ limits[u] > 0
        /\ c \in OfKind(v, FALSE)' => v = u /\ limits[u] = 0
    BY <1>1, <1>5, <1>6 DEF OfKind, InFlight
  <2>4. \A b \in BOOLEAN : c \in OfKind(v, b)' => tcp
    BY <1>5, <1>6 DEF OfKind, InFlight
  <2>5. OfKind(v, TRUE) = {} \/ OfKind(v, FALSE) = {}
    BY <1>7 DEF IInv, KindsApart
  <2>6. ~(limits[u] > 0 /\ limits[u] = 0)
    BY <1>1
  <2>7. CASE c \in OfKind(v, TRUE)'
    <3>1. v = u /\ limits[u] > 0 /\ c \notin OfKind(v, FALSE)'
      BY <2>3, <2>7, <2>6, Zenon
    <3>2. OfKind(u, limits[u] = 0) = OfKind(u, FALSE)
      <4>1. (limits[u] = 0) = FALSE
        BY <1>1, <3>1
      <4> QED
        BY <4>1, Zenon
    <3>3. OfKind(u, FALSE) = {}
      BY <1>2, <2>7, <2>4, <3>2
    <3> QED
      BY <2>1, <2>2, <3>1, <3>3
  <2>8. CASE c \in OfKind(v, FALSE)'
    <3>1. v = u /\ limits[u] = 0 /\ c \notin OfKind(v, TRUE)'
      BY <2>3, <2>8, <2>6, Zenon
    <3>2. OfKind(u, limits[u] = 0) = OfKind(u, TRUE)
      <4>1. (limits[u] = 0) = TRUE
        BY <1>1, <3>1
      <4> QED
        BY <4>1, Zenon
    <3>3. OfKind(u, TRUE) = {}
      BY <1>2, <2>8, <2>4, <3>2
    <3> QED
      BY <2>1, <2>2, <3>1, <3>3
  <2>9. CASE c \notin OfKind(v, TRUE)' /\ c \notin OfKind(v, FALSE)'
    BY <2>1, <2>2, <2>5, <2>9
  <2> QED
    BY <2>7, <2>8, <2>9
<1>15. LimitsAreCurrent'
  BY <1>1, <1>5, <1>6, <1>7 DEF IInv, LimitsAreCurrent
<1>16. EntriesAreUsed'
  <2> SUFFICES ASSUME ~mixed', NEW v \in Users, entry'[v]
               PROVE  \E k \in OfKind(v, FALSE)' : WillLook(k)'
    BY DEF EntriesAreUsed
  <2>1. CASE entry[v]
    <3>1. PICK k \in OfKind(v, FALSE) : WillLook(k)
      BY <1>7, <2>1 DEF IInv, EntriesAreUsed
    <3>2. k # c
      BY <1>2 DEF OfKind, InFlight
    <3>3. k \in Conns /\ conn'[k] = conn[k]
      BY <1>6, <3>1, <3>2 DEF OfKind, InFlight
    <3>4. k \in OfKind(v, FALSE)'
      BY <3>1, <3>3 DEF OfKind, InFlight
    <3>5. WillLook(k)'
      BY <3>1, <3>3 DEF WillLook, At
    <3> QED
      BY <3>4, <3>5
  <2>2. CASE v = u /\ step = "place"
    <3>1. /\ conn'[c] # Idle /\ conn'[c].user = v /\ conn'[c].tcp
          /\ conn'[c].limit = 0 /\ conn'[c].at = "place"
      BY <1>3, <1>5, <1>6, <2>2
    <3>2. c \in OfKind(v, FALSE)'
      BY <3>1 DEF OfKind, InFlight
    <3> QED
      BY <3>1, <3>2 DEF WillLook, At
  <2> QED
    BY <1>3, <1>4, <2>1, <2>2
<1>17. ReferencesAreHeld'
  <2>1. \A v \in Users, jp \in IPs :
          c \notin Limited(v, jp) /\ c \notin Limited(v, jp)'
    BY <1>2, <1>4, <1>5, <1>6 DEF Limited, OfKind, InFlight, Counted
  <2> QED
    BY <1>1, <1>6, <1>7, <1>8, <2>1, ReferencesKept DEF IInv
<1>18. LocalIsNotRemote' /\ CapHolds'
  BY <1>7, DevicesKept DEF IInv
<1> QED
  BY <1>8, <1>9, <1>11, <1>14, <1>15, <1>16, <1>17, <1>18 DEF IInv

\* A connection of an unlimited user is not counted under a limit.
LEMMA NotLimited ==
  ASSUME TypeOK, NEW c \in Conns, Proceeds(c), ~(conn[c].limit > 0)
  PROVE  \A u \in Users, ip \in IPs :
            c \in Limited(u, ip) <=> c \in Limited(u, ip)'
  BY DEF Limited, OfKind, InFlight, Proceeds

\* A counter that is placed is one that c is about to add to.
LEMMA PlaceCounterInv ==
  ASSUME IInv, NEW c \in Conns, PlaceCounter(c)
  PROVE  IInv'
<1>1. /\ TypeOK /\ conn[c].at = "place" /\ conn[c] # Idle
      /\ conn[c].user \in Users /\ conn[c].ip \in IPs
      /\ conn[c].linked \in BOOLEAN
  BY ConnType DEF IInv, PlaceCounter, At
<1>2. /\ conn[c].limit = 0 /\ conn[c].tcp
      /\ conn[c].linked => entry[conn[c].user]
  BY <1>1 DEF IInv, StepsAgree, Agrees
<1> PICK u \in Users, ip \in IPs : u = conn[c].user /\ ip = conn[c].ip
  BY <1>1
<1> DEFINE placed == conn[c].linked /\ counter[u][ip] = Absent
<1>3. /\ UNCHANGED <<limitedVars, startVars, mixed, beyond>> /\ entry' = entry
      /\ counter' = IF placed THEN [counter EXCEPT ![u][ip] = 0] ELSE counter
      /\ GotoWith(c, "add", FALSE, conn[c].linked)
  BY DEF PlaceCounter
<1>4. /\ conn' \in [Conns -> {Idle} \cup Connections]
      /\ SameBut(c) /\ Proceeds(c)
      /\ \A k \in Conns \ {c} : conn'[k] = conn[k]
      /\ conn'[c] # Idle /\ conn'[c].at = "add"
      /\ conn'[c].user = u /\ conn'[c].ip = ip
      /\ conn'[c].tcp /\ conn'[c].limit = 0
      /\ ~conn'[c].linked /\ (conn'[c].held <=> conn[c].linked)
  <2>1. "add" \in Steps
    BY DEF Steps
  <2> QED
    BY <1>1, <1>2, <1>3, <2>1, GotoWithMoves
<1>5. /\ counter' \in [Users -> [IPs -> Counts]] /\ entry' \in [Users -> BOOLEAN]
      /\ \A v \in Users, jp \in IPs :
           counter'[v][jp] = IF v = u /\ jp = ip /\ placed THEN 0 ELSE counter[v][jp]
  <2>1. 0 \in Counts /\ counter \in [Users -> [IPs -> Counts]]
    BY <1>1, AbsentBound DEF TypeOK, Counts
  <2>2. entry' \in [Users -> BOOLEAN]
    BY <1>1, <1>3 DEF TypeOK
  <2> HIDE DEF placed
  <2> QED
    BY <1>3, <2>1, <2>2
<1>6. OthersHold(c)
  BY <1>1, <1>3, <1>4, <1>5, AbsentBound, OthersKeep DEF IInv
<1>7. Agrees(c)'
  <2>1. conn'[c].held => counter'[u][ip] # Absent
    BY <1>4, <1>5, AbsentBound
  <2> QED
    BY <1>4, <2>1 DEF Agrees, Looking
<1>8. ASSUME NEW v \in Users, NEW jp \in IPs
      PROVE  InRange(v, jp)'
  <2>1. InRange(v, jp) /\ Untouched(c, v, jp)
    BY <1>4 DEF IInv, CountersInRange, Untouched
  <2>2. CASE v = u /\ jp = ip /\ placed
    <3>1. c \in Adding(v, jp)'
      BY <1>4, <2>2 DEF Adding, From, At
    <3>2. counter'[v][jp] = 0 /\ entry'[v]
      BY <1>2, <1>3, <1>5, <2>2
    <3>3. OpenUnlimited(v, jp)' \in SUBSET Conns /\ Deleting(v, jp)' \in SUBSET Conns
      BY DEF OpenUnlimited, Deleting, From
    <3>4. Cardinality(OpenUnlimited(v, jp)') \in Nat /\ Cardinality(Deleting(v, jp)') \in Nat
      BY <3>3, ConnsBound
    <3> QED
      BY <3>1, <3>2, <3>4 DEF InRange
  <2>3. CASE ~(v = u /\ jp = ip /\ placed)
    <3>1. counter'[v][jp] = counter[v][jp] /\ (entry[v] => entry'[v])
      BY <1>3, <1>5, <2>3
    <3>2. /\ c \notin OpenUnlimited(v, jp)
          /\ c \notin Deleting(v, jp) /\ c \notin Adding(v, jp)
      BY <1>1, CountedAs
    <3> QED
      BY <1>1, <1>4, <2>1, <3>1, <3>2, CounterKept
  <2> QED
    BY <2>2, <2>3
<1>9. TypeOK' => EntriesAreUsed'
  <2>1. OthersLook(c)
    BY <1>4 DEF OthersLook
  <2>2. WillLook(c)' /\ mixed' = mixed
    BY <1>3, <1>4 DEF WillLook, At
  <2>3. /\ conn'[c] # Idle /\ conn'[c].user = conn[c].user
        /\ conn'[c].tcp = conn[c].tcp /\ conn'[c].limit = conn[c].limit
    BY <1>4 DEF Proceeds
  <2>4. TypeOK /\ EntriesAreUsed /\ SameBut(c) /\ entry' = entry
    BY <1>3, <1>4 DEF IInv
  <2> QED
    BY <2>1, <2>2, <2>3, <2>4, EntriesKept
<1>10. \A v \in Users, jp \in IPs : c \in Limited(v, jp) <=> c \in Limited(v, jp)'
  BY <1>1, <1>2, <1>4, NotLimited
<1> QED
  BY <1>3, <1>4, <1>5, <1>6, <1>7, <1>8, <1>9, <1>10, UnlimitedStep

\* The reference is added to the counter that was loaded, if it is still there.
LEMMA AddReferenceInv ==
  ASSUME IInv, NEW c \in Conns, AddReference(c)
  PROVE  IInv'
<1>1. /\ TypeOK /\ conn[c].at = "add" /\ conn[c] # Idle
      /\ conn[c].user \in Users /\ conn[c].ip \in IPs
      /\ conn[c].held \in BOOLEAN
  BY ConnType DEF IInv, AddReference, At
<1>2. /\ conn[c].limit = 0 /\ conn[c].tcp
      /\ conn[c].held => counter[conn[c].user][conn[c].ip] # Absent
  BY <1>1 DEF IInv, StepsAgree, Agrees
<1> PICK u \in Users, ip \in IPs : u = conn[c].user /\ ip = conn[c].ip
  BY <1>1
<1> DEFINE n == counter[u][ip] + 1
<1>3. /\ UNCHANGED <<limitedVars, startVars, mixed, beyond>> /\ entry' = entry
      /\ counter' = IF conn[c].held THEN [counter EXCEPT ![u][ip] = n] ELSE counter
      /\ GotoWith(c, "open", FALSE, FALSE)
  BY <1>1 DEF AddReference, TypeOK
<1>4. /\ conn' \in [Conns -> {Idle} \cup Connections]
      /\ SameBut(c) /\ Proceeds(c)
      /\ \A k \in Conns \ {c} : conn'[k] = conn[k]
      /\ conn'[c] # Idle /\ conn'[c].at = "open"
      /\ conn'[c].user = u /\ conn'[c].ip = ip
      /\ conn'[c].tcp /\ conn'[c].limit = 0
      /\ ~conn'[c].linked /\ ~conn'[c].held
  <2>1. "open" \in Steps
    BY DEF Steps
  <2> QED
    BY <1>1, <1>2, <1>3, <2>1, GotoWithMoves
<1>5. \A v \in Users, jp \in IPs :
        InRange(v, jp) /\ Untouched(c, v, jp) /\ counter[v][jp] \in Int
  BY <1>1, <1>4, AbsentBound
  DEF IInv, CountersInRange, Untouched, TypeOK, Counts
<1>6. /\ c \notin OpenUnlimited(u, ip) /\ c \in OpenUnlimited(u, ip)'
      /\ c \notin Deleting(u, ip) /\ c \notin Deleting(u, ip)'
  <2>1. c \notin OpenUnlimited(u, ip) /\ c \notin Deleting(u, ip)
    BY <1>1, CountedAs
  <2>2. c \in OpenUnlimited(u, ip)' /\ c \notin Deleting(u, ip)'
    BY <1>4 DEF OpenUnlimited, Deleting, From, At
  <2> QED
    BY <2>1, <2>2
<1>7. /\ Cardinality(OpenUnlimited(u, ip)) \in Nat
      /\ Cardinality(OpenUnlimited(u, ip)') = Cardinality(OpenUnlimited(u, ip)) + 1
      /\ Cardinality(OpenUnlimited(u, ip)') <= Cardinality(Conns)
      /\ Cardinality(Deleting(u, ip)) \in Nat
      /\ Cardinality(Deleting(u, ip)) <= Cardinality(Conns)
      /\ Deleting(u, ip)' = Deleting(u, ip)
      /\ Deleting(u, ip) = {} <=> Cardinality(Deleting(u, ip)) = 0
  <2>1. /\ OpenUnlimited(u, ip)' \ {c} = OpenUnlimited(u, ip) \ {c}
        /\ Deleting(u, ip)' \ {c} = Deleting(u, ip) \ {c}
        /\ OpenUnlimited(u, ip) \in SUBSET Conns
        /\ OpenUnlimited(u, ip)' \in SUBSET Conns
        /\ Deleting(u, ip) \in SUBSET Conns
    BY <1>4, <1>5, CountedSameBut
  <2>2. Deleting(u, ip)' = Deleting(u, ip)
    BY <1>6, <2>1
  <2>3. Cardinality(OpenUnlimited(u, ip)') = Cardinality(OpenUnlimited(u, ip)) + 1
    BY <1>6, <2>1, OneMore
  <2> QED
    BY <2>1, <2>2, <2>3, ConnsBound
<1>8. conn[c].held =>
        /\ entry[u] /\ counter[u][ip] \in Int /\ n # Absent /\ n \in Counts
        /\ n <= Cardinality(OpenUnlimited(u, ip)')
        /\ n >= -Cardinality(Deleting(u, ip)')
        /\ n = 0 => Deleting(u, ip)' # {}
  <2>1. conn[c].held =>
          /\ counter[u][ip] <= Cardinality(OpenUnlimited(u, ip))
          /\ entry[u]
          /\ counter[u][ip] >= -Cardinality(Deleting(u, ip))
    BY <1>2, <1>5 DEF InRange
  <2> QED
    BY <1>5, <1>7, <2>1, AbsentBound DEF Counts
<1> HIDE DEF n
<1>9. /\ counter' \in [Users -> [IPs -> Counts]] /\ entry' \in [Users -> BOOLEAN]
      /\ \A v \in Users, jp \in IPs :
           counter'[v][jp] = IF v = u /\ jp = ip /\ conn[c].held
                             THEN n ELSE counter[v][jp]
  <2>1. counter \in [Users -> [IPs -> Counts]] /\ entry' \in [Users -> BOOLEAN]
    BY <1>1, <1>3 DEF TypeOK
  <2>2. CASE conn[c].held
    <3>1. counter' = [counter EXCEPT ![u][ip] = n] /\ n \in Counts
      BY <1>3, <1>8, <2>2
    <3> QED
      BY <2>1, <2>2, <3>1
  <2>3. CASE ~conn[c].held
    BY <1>3, <2>1, <2>3
  <2> QED
    BY <1>1, <2>2, <2>3
<1>10. OthersHold(c)
  BY <1>1, <1>3, <1>4, <1>8, <1>9, OthersKeep DEF IInv
<1>11. Agrees(c)'
  BY <1>4 DEF Agrees, Looking
<1>12. ASSUME NEW v \in Users, NEW jp \in IPs
       PROVE  InRange(v, jp)'
  <2>1. CASE v = u /\ jp = ip /\ conn[c].held
    BY <1>3, <1>8, <1>9, <2>1 DEF InRange
  <2>2. CASE ~(v = u /\ jp = ip /\ conn[c].held)
    <3>1. counter'[v][jp] = counter[v][jp] /\ (entry[v] => entry'[v])
      BY <1>3, <1>9, <2>2
    <3>2. /\ c \notin OpenUnlimited(v, jp)
          /\ c \notin Deleting(v, jp) /\ c \notin Adding(v, jp)
      BY <1>1, <2>2, CountedAs
    <3> QED
      BY <1>1, <1>4, <1>5, <3>1, <3>2, CounterKept
  <2> QED
    BY <2>1, <2>2
<1>13. TypeOK' => EntriesAreUsed'
  <2>1. OthersLook(c)
    BY <1>4 DEF OthersLook
  <2>2. WillLook(c)' /\ mixed' = mixed
    BY <1>3, <1>4 DEF WillLook, At
  <2>3. /\ conn'[c] # Idle /\ conn'[c].user = conn[c].user
        /\ conn'[c].tcp = conn[c].tcp /\ conn'[c].limit = conn[c].limit
    BY <1>4 DEF Proceeds
  <2>4. TypeOK /\ EntriesAreUsed /\ SameBut(c) /\ entry' = entry
    BY <1>3, <1>4 DEF IInv
  <2> QED
    BY <2>1, <2>2, <2>3, <2>4, EntriesKept
<1>14. \A v \in Users, jp \in IPs : c \in Limited(v, jp) <=> c \in Limited(v, jp)'
  BY <1>1, <1>2, <1>4, NotLimited
<1> QED
  BY <1>3, <1>4, <1>9, <1>10, <1>11, <1>12, <1>13, <1>14, UnlimitedStep

-----------------------------------------------------------------------------
(* Close and what follows it. *)

\* A counter that is there has a connection behind it, of an unlimited user
\* while the kinds are apart.
LEMMA PresentIsBacked ==
  ASSUME TypeOK, StepsAgree, CountersInRange, ~mixed,
         NEW u \in Users, NEW ip \in IPs, counter[u][ip] # Absent
  PROVE  \E k \in OfKind(u, FALSE) :
            /\ conn[k].ip = ip
            /\ conn[k].at \in {"open", "find", "subtract", "delete", "add"}
            /\ WillLook(k)
<1>1. /\ counter[u][ip] \in Int
      /\ counter[u][ip] <= Cardinality(OpenUnlimited(u, ip))
      /\ counter[u][ip] >= -Cardinality(Deleting(u, ip))
      /\ counter[u][ip] = 0 => Deleting(u, ip) \cup Adding(u, ip) # {}
  <2>1. counter[u][ip] \in Int
    BY AbsentBound DEF TypeOK, Counts
  <2>2. InRange(u, ip)
    BY DEF CountersInRange
  <2> QED
    BY <2>1, <2>2 DEF InRange
<1>2. OpenUnlimited(u, ip) \in SUBSET Conns /\ Deleting(u, ip) \in SUBSET Conns
  BY DEF OpenUnlimited, Deleting, From
<1>3. \/ OpenUnlimited(u, ip) # {}
      \/ Deleting(u, ip) # {}
      \/ Adding(u, ip) # {}
  <2>1. CASE counter[u][ip] > 0
    BY <1>1, <1>2, <2>1, ConnsBound
  <2>2. CASE counter[u][ip] < 0
    BY <1>1, <1>2, <2>2, ConnsBound
  <2>3. CASE counter[u][ip] = 0
    BY <1>1, <2>3
  <2> QED
    BY <1>1, <2>1, <2>2, <2>3
<1>4. PICK k \in Conns :
        /\ conn[k] # Idle /\ conn[k].user = u /\ conn[k].ip = ip
        /\ \/ conn[k].at = "open" /\ conn[k].limit = 0
           \/ conn[k].at = "find" /\ conn[k].linked
           \/ conn[k].at = "subtract" /\ conn[k].held
           \/ conn[k].at = "delete" /\ conn[k].linked
           \/ conn[k].at = "add"
  BY <1>3 DEF OpenUnlimited, Deleting, Adding, From, At
<1>5. Agrees(k)
  BY <1>4 DEF StepsAgree
<1>6. conn[k].limit = 0 /\ conn[k].tcp
  BY <1>4, <1>5 DEF Agrees, Looking
<1>7. WillLook(k)
  BY <1>4, <1>5 DEF Agrees, WillLook, At
<1>8. k \in OfKind(u, FALSE)
  BY <1>4, <1>6 DEF OfKind, InFlight
<1> QED
  BY <1>4, <1>7, <1>8

\* While the kinds are apart, an ipCounter takes only the closes of
\* connections that were counted in one.
LEMMA EntryMeansUnlimited ==
  ASSUME IInv, ~mixed, NEW c \in Conns, conn[c] # Idle, conn[c].tcp,
         entry[conn[c].user]
  PROVE  conn[c].limit = 0
<1>1. TypeOK /\ conn[c].user \in Users /\ conn[c].limit \in Nat
  BY ConnType DEF IInv
<1>2. OfKind(conn[c].user, FALSE) # {}
  BY <1>1 DEF IInv, EntriesAreUsed
<1>3. OfKind(conn[c].user, TRUE) = {}
  BY <1>1, <1>2 DEF IInv, KindsApart
<1>4. conn[c].limit > 0 => c \in OfKind(conn[c].user, TRUE)
  BY DEF OfKind, InFlight
<1>5. ~(conn[c].limit > 0)
  BY <1>3, <1>4, Zenon
<1> QED
  BY <1>1, <1>5

\* A step of a close that changes no counter, when what c counts as stays, or
\* the counter is not there.
LEMMA LookingStep ==
  ASSUME IInv, NEW c \in Conns, conn[c] # Idle, Proceeds(c),
         conn' \in [Conns -> {Idle} \cup Connections],
         \A k \in Conns \ {c} : conn'[k] = conn[k],
         UNCHANGED <<limitedVars, unlimitedVars, startVars, mixed, beyond>>,
         conn'[c] # Idle, Agrees(c)',
         conn[c].at \in {"open", "find", "delete", "sweep"},
         conn'[c].at \in {"release", "find", "subtract", "sweep", "unlink"},
         ~mixed /\ conn[c].limit > 0 =>
           conn[c].at = "open" /\ conn'[c].at = "release",
         \A u \in Users, ip \in IPs : counter[u][ip] # Absent =>
           /\ c \in OpenUnlimited(u, ip) => c \in OpenUnlimited(u, ip)'
           /\ c \notin Deleting(u, ip),
         WillLook(c) /\ entry[conn[c].user] => WillLook(c)'
  PROVE  IInv'
<1>1. /\ TypeOK /\ SameBut(c) /\ mixed' = mixed
      /\ entry' = entry /\ counter' = counter
  BY DEF IInv, Proceeds, unlimitedVars
<1>2. /\ counter' \in [Users -> [IPs -> Counts]] /\ entry' \in [Users -> BOOLEAN]
      /\ UNCHANGED <<limitedVars, startVars, mixed, beyond>>
  BY <1>1 DEF TypeOK
<1>3. OthersHold(c)
  BY <1>1, OthersKeep DEF IInv
<1>4. ASSUME NEW u \in Users, NEW ip \in IPs
      PROVE  InRange(u, ip)'
  <2>1. InRange(u, ip) /\ Untouched(c, u, ip)
    BY DEF IInv, CountersInRange, Untouched
  <2>2. c \notin Adding(u, ip)
    BY <1>1, CountedAs
  <2> QED
    BY <1>1, <2>1, <2>2, CounterKept
<1>5. TypeOK' => EntriesAreUsed'
  <2>1. OthersLook(c)
    BY DEF OthersLook
  <2>2. /\ conn'[c].user = conn[c].user
        /\ conn'[c].tcp = conn[c].tcp /\ conn'[c].limit = conn[c].limit
    BY DEF Proceeds
  <2>3. EntriesAreUsed
    BY DEF IInv
  <2> QED
    BY <1>1, <2>1, <2>2, <2>3, EntriesKept
<1>6. ~mixed => \A u \in Users, ip \in IPs :
          c \in Limited(u, ip) <=> c \in Limited(u, ip)'
  <2> SUFFICES ASSUME ~mixed, NEW u \in Users, NEW ip \in IPs
               PROVE  c \in Limited(u, ip) <=> c \in Limited(u, ip)'
    OBVIOUS
  <2>1. CASE conn[c].limit > 0
    BY <2>1 DEF Limited, OfKind, InFlight, Counted, Proceeds
  <2>2. CASE ~(conn[c].limit > 0)
    BY <1>1, <2>2, NotLimited
  <2> QED
    BY <2>1, <2>2
<1> QED
  BY <1>2, <1>3, <1>4, <1>5, <1>6, UnlimitedStep

\* A close goes to the ipCounter of the user, if it has one; the reference of a
\* limited address goes with the release.
LEMMA CloseInv ==
  ASSUME IInv, NEW c \in Conns, Close(c)
  PROVE  IInv'
<1>1. /\ TypeOK /\ conn[c].at = "open" /\ conn[c] # Idle
      /\ conn[c].user \in Users /\ conn[c].limit \in Nat
      /\ UNCHANGED <<limitedVars, unlimitedVars, startVars, mixed, beyond>>
  BY ConnType DEF IInv, Close, At
<1>2. conn[c].tcp /\ ~conn[c].held /\ ~conn[c].linked
  BY <1>1 DEF IInv, StepsAgree, Agrees, Looking
<1>3. /\ entry' = entry /\ counter' = counter /\ mixed' = mixed
      /\ entry[conn[c].user] \in BOOLEAN
  BY <1>1 DEF unlimitedVars, TypeOK
<1>4. CASE entry[conn[c].user]
  <2>1. GotoWith(c, "find", TRUE, FALSE) /\ "find" \in Steps
    BY <1>4 DEF Close, Steps
  <2>2. /\ conn' \in [Conns -> {Idle} \cup Connections]
        /\ SameBut(c) /\ Proceeds(c)
        /\ \A k \in Conns \ {c} : conn'[k] = conn[k]
        /\ conn'[c] # Idle /\ conn'[c].at = "find"
        /\ conn'[c].user = conn[c].user /\ conn'[c].ip = conn[c].ip
        /\ conn'[c].tcp = conn[c].tcp /\ conn'[c].limit = conn[c].limit
        /\ conn'[c].linked /\ ~conn'[c].held
    BY <1>1, <2>1, GotoWithMoves
  <2>3. ~mixed => conn[c].limit = 0
    BY <1>1, <1>2, <1>4, EntryMeansUnlimited
  <2>4. Agrees(c)'
    BY <1>2, <1>3, <1>4, <2>2, <2>3 DEF Agrees, Looking
  <2>5. ASSUME NEW u \in Users, NEW ip \in IPs
        PROVE  /\ c \in OpenUnlimited(u, ip) => c \in OpenUnlimited(u, ip)'
               /\ c \notin Deleting(u, ip)
    <3>1. c \in OpenUnlimited(u, ip) => conn[c].user = u /\ conn[c].ip = ip
      BY <1>1, CountedAs
    <3>2. conn[c].user = u /\ conn[c].ip = ip => c \in OpenUnlimited(u, ip)'
      BY <2>2 DEF OpenUnlimited, From, At
    <3> QED
      BY <1>1, <3>1, <3>2, CountedAs
  <2>6. WillLook(c)'
    BY <2>2 DEF WillLook
  <2> QED
    BY <1>1, <2>2, <2>3, <2>4, <2>5, <2>6, LookingStep
<1>5. CASE ~entry[conn[c].user]
  <2>1. Goto(c, "release") /\ "release" \in Steps
    BY <1>5 DEF Close, Steps
  <2>2. /\ conn' \in [Conns -> {Idle} \cup Connections]
        /\ SameBut(c) /\ Proceeds(c)
        /\ \A k \in Conns \ {c} : conn'[k] = conn[k]
        /\ conn'[c] # Idle /\ conn'[c].at = "release"
        /\ conn'[c].tcp = conn[c].tcp
        /\ conn'[c].linked = conn[c].linked /\ conn'[c].held = conn[c].held
    BY <1>1, <2>1, GotoMoves
  <2>3. Agrees(c)'
    BY <1>2, <2>2 DEF Agrees, Looking
  <2>4. ASSUME NEW u \in Users, NEW ip \in IPs, counter[u][ip] # Absent
        PROVE  c \notin OpenUnlimited(u, ip) /\ c \notin Deleting(u, ip)
    <3>1. entry[u]
      BY <2>4 DEF IInv, CountersInRange, InRange
    <3> QED
      BY <1>1, <1>5, <3>1, CountedAs
  <2> QED
    BY <1>1, <1>5, <2>2, <2>3, <2>4, LookingStep
<1> QED
  BY <1>3, <1>4, <1>5

\* The counter that c will subtract from is still counted for it.
LEMMA FindCounterInv ==
  ASSUME IInv, NEW c \in Conns, FindCounter(c)
  PROVE  IInv'
<1>1. /\ TypeOK /\ conn[c].at = "find" /\ conn[c] # Idle
      /\ conn[c].linked \in BOOLEAN /\ conn[c].limit \in Nat
      /\ UNCHANGED <<limitedVars, unlimitedVars, startVars, mixed, beyond>>
  BY ConnType DEF IInv, FindCounter, At
<1>2. /\ conn[c].tcp /\ ~conn[c].held
      /\ conn[c].linked => entry[conn[c].user]
      /\ ~mixed => conn[c].limit = 0
  BY <1>1 DEF IInv, StepsAgree, Agrees, Looking
<1>3. entry' = entry /\ counter' = counter /\ mixed' = mixed
  BY <1>1 DEF unlimitedVars
<1>4. CASE /\ conn[c].linked => counter[conn[c].user][conn[c].ip] # Absent
           /\ GotoWith(c, "subtract", conn[c].linked, conn[c].linked)
  <2>1. "subtract" \in Steps
    BY DEF Steps
  <2>2. /\ conn' \in [Conns -> {Idle} \cup Connections]
        /\ SameBut(c) /\ Proceeds(c)
        /\ \A k \in Conns \ {c} : conn'[k] = conn[k]
        /\ conn'[c] # Idle /\ conn'[c].at = "subtract"
        /\ conn'[c].user = conn[c].user /\ conn'[c].ip = conn[c].ip
        /\ conn'[c].tcp = conn[c].tcp /\ conn'[c].limit = conn[c].limit
        /\ conn'[c].linked = conn[c].linked /\ conn'[c].held = conn[c].linked
    BY <1>1, <1>4, <2>1, GotoWithMoves
  <2>3. Agrees(c)'
    BY <1>2, <1>3, <1>4, <2>2 DEF Agrees, Looking
  <2>4. ASSUME NEW u \in Users, NEW ip \in IPs
        PROVE  /\ c \in OpenUnlimited(u, ip) => c \in OpenUnlimited(u, ip)'
               /\ c \notin Deleting(u, ip)
    <3>1. c \in OpenUnlimited(u, ip) =>
            conn[c].user = u /\ conn[c].ip = ip /\ conn[c].linked
      BY <1>1, CountedAs
    <3>2. conn[c].user = u /\ conn[c].ip = ip /\ conn[c].linked
            => c \in OpenUnlimited(u, ip)'
      BY <2>2 DEF OpenUnlimited, From, At
    <3> QED
      BY <1>1, <3>1, <3>2, CountedAs
  <2>5. WillLook(c) => WillLook(c)'
    BY <1>1, <2>2 DEF WillLook, At
  <2> QED
    BY <1>1, <1>2, <2>2, <2>3, <2>4, <2>5, LookingStep
<1>5. CASE /\ conn[c].linked => counter[conn[c].user][conn[c].ip] = Absent
           /\ Goto(c, "sweep")
  <2>1. "sweep" \in Steps
    BY DEF Steps
  <2>2. /\ conn' \in [Conns -> {Idle} \cup Connections]
        /\ SameBut(c) /\ Proceeds(c)
        /\ \A k \in Conns \ {c} : conn'[k] = conn[k]
        /\ conn'[c] # Idle /\ conn'[c].at = "sweep"
        /\ conn'[c].user = conn[c].user
        /\ conn'[c].tcp = conn[c].tcp /\ conn'[c].limit = conn[c].limit
        /\ conn'[c].linked = conn[c].linked /\ conn'[c].held = conn[c].held
    BY <1>1, <1>5, <2>1, GotoMoves
  <2>3. Agrees(c)'
    BY <1>2, <1>3, <2>2 DEF Agrees, Looking
  <2>4. ASSUME NEW u \in Users, NEW ip \in IPs, counter[u][ip] # Absent
        PROVE  c \notin OpenUnlimited(u, ip) /\ c \notin Deleting(u, ip)
    BY <1>1, <1>5, <2>4, CountedAs
  <2>5. WillLook(c) => WillLook(c)'
    BY <1>1, <2>2 DEF WillLook, At
  <2> QED
    BY <1>1, <1>2, <2>2, <2>3, <2>4, <2>5, LookingStep
<1> QED
  BY <1>4, <1>5 DEF FindCounter

\* A counter that is taken down to zero is one that c is about to take out.
LEMMA SubtractInv ==
  ASSUME IInv, NEW c \in Conns, Subtract(c)
  PROVE  IInv'
<1>1. /\ TypeOK /\ conn[c].at = "subtract" /\ conn[c] # Idle
      /\ conn[c].user \in Users /\ conn[c].ip \in IPs /\ conn[c].limit \in Nat
      /\ conn[c].linked \in BOOLEAN /\ conn[c].held \in BOOLEAN
  BY ConnType DEF IInv, Subtract, At
<1>2. /\ conn[c].tcp /\ (conn[c].held => conn[c].linked)
      /\ conn[c].held => counter[conn[c].user][conn[c].ip] # Absent
      /\ conn[c].linked => entry[conn[c].user]
      /\ ~mixed => conn[c].limit = 0
  BY <1>1 DEF IInv, StepsAgree, Agrees, Looking
<1> PICK u \in Users, ip \in IPs : u = conn[c].user /\ ip = conn[c].ip
  BY <1>1
<1> DEFINE n == counter[u][ip] - 1
<1>3. /\ UNCHANGED <<limitedVars, startVars, mixed, beyond>> /\ entry' = entry
      /\ counter' = IF conn[c].held THEN [counter EXCEPT ![u][ip] = n] ELSE counter
      /\ \E step \in {"delete", "sweep"} :
           /\ conn[c].held => (step = "delete" <=> n <= 0)
           /\ GotoWith(c, step, conn[c].linked, FALSE)
  BY <1>1 DEF Subtract, TypeOK
<1>4. PICK step \in {"delete", "sweep"} :
        /\ conn[c].held => (step = "delete" <=> n <= 0)
        /\ GotoWith(c, step, conn[c].linked, FALSE)
  BY <1>3
<1>5. /\ conn' \in [Conns -> {Idle} \cup Connections]
      /\ SameBut(c) /\ Proceeds(c)
      /\ \A k \in Conns \ {c} : conn'[k] = conn[k]
      /\ conn'[c] # Idle /\ conn'[c].at = step
      /\ conn'[c].user = u /\ conn'[c].ip = ip
      /\ conn'[c].tcp = conn[c].tcp /\ conn'[c].limit = conn[c].limit
      /\ conn'[c].linked = conn[c].linked /\ ~conn'[c].held
  <2>1. step \in Steps
    BY DEF Steps
  <2>2. GotoWith(c, step, conn[c].linked, FALSE)
    BY <1>4
  <2>3. /\ conn' \in [Conns -> {Idle} \cup Connections]
        /\ SameBut(c) /\ Proceeds(c)
        /\ \A k \in Conns \ {c} : conn'[k] = conn[k]
        /\ conn'[c] # Idle /\ conn'[c].at = step
        /\ conn'[c].user = conn[c].user /\ conn'[c].ip = conn[c].ip
        /\ conn'[c].tcp = conn[c].tcp /\ conn'[c].limit = conn[c].limit
        /\ conn'[c].linked = conn[c].linked /\ conn'[c].held = FALSE
    BY <1>1, <2>1, <2>2, GotoWithMoves
  <2> QED
    BY <2>3
<1>6. \A v \in Users, jp \in IPs :
        InRange(v, jp) /\ Untouched(c, v, jp) /\ counter[v][jp] \in Int
  BY <1>1, <1>5, AbsentBound
  DEF IInv, CountersInRange, Untouched, TypeOK, Counts
<1>7. /\ conn[c].held => c \in OpenUnlimited(u, ip)
      /\ c \notin OpenUnlimited(u, ip)' /\ c \notin Deleting(u, ip)
      /\ c \in Deleting(u, ip)' <=> step = "delete" /\ conn[c].linked
  <2>1. (conn[c].held => c \in OpenUnlimited(u, ip)) /\ c \notin Deleting(u, ip)
    BY <1>1, CountedAs
  <2>2. c \notin OpenUnlimited(u, ip)'
    BY <1>5 DEF OpenUnlimited, From, At
  <2>3. c \in Deleting(u, ip)' <=> step = "delete" /\ conn[c].linked
    BY <1>5 DEF Deleting, From, At
  <2> QED
    BY <2>1, <2>2, <2>3
<1>8. /\ OpenUnlimited(u, ip)' \ {c} = OpenUnlimited(u, ip) \ {c}
      /\ Deleting(u, ip)' \ {c} = Deleting(u, ip) \ {c}
      /\ OpenUnlimited(u, ip) \in SUBSET Conns
      /\ OpenUnlimited(u, ip)' \in SUBSET Conns
      /\ Deleting(u, ip) \in SUBSET Conns
      /\ Deleting(u, ip)' \in SUBSET Conns
  BY <1>5, <1>6, CountedSameBut
<1>9. /\ Cardinality(OpenUnlimited(u, ip)) \in Nat
      /\ Cardinality(OpenUnlimited(u, ip)') \in Nat
      /\ Cardinality(OpenUnlimited(u, ip)) <= Cardinality(Conns)
      /\ Cardinality(Deleting(u, ip)) \in Nat
      /\ Cardinality(Deleting(u, ip)') \in Nat
      /\ Cardinality(Conns) \in Nat
  BY <1>8, ConnsBound
<1>10. conn[c].held =>
         /\ Cardinality(OpenUnlimited(u, ip)') = Cardinality(OpenUnlimited(u, ip)) - 1
         /\ IF step = "delete"
            THEN Cardinality(Deleting(u, ip)') = Cardinality(Deleting(u, ip)) + 1
            ELSE Cardinality(Deleting(u, ip)') = Cardinality(Deleting(u, ip))
  <2> SUFFICES ASSUME conn[c].held
               PROVE  /\ Cardinality(OpenUnlimited(u, ip)')
                           = Cardinality(OpenUnlimited(u, ip)) - 1
                      /\ IF step = "delete"
                         THEN Cardinality(Deleting(u, ip)')
                                = Cardinality(Deleting(u, ip)) + 1
                         ELSE Cardinality(Deleting(u, ip)')
                                = Cardinality(Deleting(u, ip))
    OBVIOUS
  <2>1. Cardinality(OpenUnlimited(u, ip)') = Cardinality(OpenUnlimited(u, ip)) - 1
    BY <1>7, <1>8, OneMore
  <2>2. CASE step = "delete"
    <3>1. c \in Deleting(u, ip)' /\ c \notin Deleting(u, ip)
      BY <1>2, <1>7, <2>2
    <3>2. Cardinality(Deleting(u, ip)') = Cardinality(Deleting(u, ip)) + 1
      BY <1>8, <3>1, OneMore
    <3> QED
      BY <2>1, <2>2, <3>2
  <2>3. CASE step # "delete"
    <3>1. Deleting(u, ip)' = Deleting(u, ip)
      BY <1>7, <1>8, <2>3
    <3> QED
      BY <2>1, <2>3, <3>1
  <2> QED
    BY <2>2, <2>3
<1>11. Cardinality(Deleting(u, ip)) + 1 <= Cardinality(Conns)
  <2>1. Deleting(u, ip) \cup {c} \in SUBSET Conns /\ IsFiniteSet(Deleting(u, ip))
    BY <1>8, ConnsBound
  <2>2. Cardinality(Deleting(u, ip) \cup {c}) = Cardinality(Deleting(u, ip)) + 1
    BY <1>7, <2>1, FS_AddElement
  <2> QED
    BY <2>1, <2>2, ConnsBound
<1>12. conn[c].held =>
         /\ entry[u] /\ counter[u][ip] \in Int /\ n # Absent /\ n \in Counts
         /\ n <= Cardinality(OpenUnlimited(u, ip)')
         /\ n >= -Cardinality(Deleting(u, ip)')
         /\ n = 0 => Deleting(u, ip)' # {}
  <2> SUFFICES ASSUME conn[c].held
               PROVE  /\ entry[u] /\ counter[u][ip] \in Int
                      /\ n # Absent /\ n \in Counts
                      /\ n <= Cardinality(OpenUnlimited(u, ip)')
                      /\ n >= -Cardinality(Deleting(u, ip)')
                      /\ n = 0 => Deleting(u, ip)' # {}
    OBVIOUS
  <2>1. /\ counter[u][ip] <= Cardinality(OpenUnlimited(u, ip))
        /\ entry[u] /\ counter[u][ip] \in Int
        /\ counter[u][ip] >= -Cardinality(Deleting(u, ip))
    BY <1>2, <1>6 DEF InRange
  <2>2. n \in Counts /\ n # Absent
    BY <1>9, <1>11, <2>1, AbsentBound DEF Counts
  <2>3. n <= Cardinality(OpenUnlimited(u, ip)')
    BY <1>9, <1>10, <2>1
  <2>4. n >= -Cardinality(Deleting(u, ip)')
    BY <1>4, <1>9, <1>10, <2>1
  <2>5. n = 0 => c \in Deleting(u, ip)'
    BY <1>2, <1>4, <1>7
  <2> QED
    BY <2>1, <2>2, <2>3, <2>4, <2>5
<1> HIDE DEF n
<1>13. /\ counter' \in [Users -> [IPs -> Counts]] /\ entry' \in [Users -> BOOLEAN]
       /\ \A v \in Users, jp \in IPs :
            counter'[v][jp] = IF v = u /\ jp = ip /\ conn[c].held
                              THEN n ELSE counter[v][jp]
  <2>1. counter \in [Users -> [IPs -> Counts]] /\ entry' \in [Users -> BOOLEAN]
    BY <1>1, <1>3 DEF TypeOK
  <2>2. CASE conn[c].held
    <3>1. counter' = [counter EXCEPT ![u][ip] = n] /\ n \in Counts
      BY <1>3, <1>12, <2>2
    <3> QED
      BY <2>1, <2>2, <3>1
  <2>3. CASE ~conn[c].held
    BY <1>3, <2>1, <2>3
  <2> QED
    BY <1>1, <2>2, <2>3
<1>14. OthersHold(c)
  BY <1>1, <1>3, <1>5, <1>12, <1>13, OthersKeep DEF IInv
<1>15. Agrees(c)'
  BY <1>2, <1>3, <1>5 DEF Agrees, Looking
<1>16. ASSUME NEW v \in Users, NEW jp \in IPs
       PROVE  InRange(v, jp)'
  <2>1. CASE v = u /\ jp = ip /\ conn[c].held
    BY <1>3, <1>12, <1>13, <2>1 DEF InRange
  <2>2. CASE ~(v = u /\ jp = ip /\ conn[c].held)
    <3>1. counter'[v][jp] = counter[v][jp] /\ (entry[v] => entry'[v])
      BY <1>3, <1>13, <2>2
    <3>2. /\ c \notin OpenUnlimited(v, jp)
          /\ c \notin Deleting(v, jp) /\ c \notin Adding(v, jp)
      BY <1>1, <2>2, CountedAs
    <3> QED
      BY <1>1, <1>5, <1>6, <3>1, <3>2, CounterKept
  <2> QED
    BY <2>1, <2>2
<1>17. TypeOK' => EntriesAreUsed'
  <2>1. OthersLook(c)
    BY <1>5 DEF OthersLook
  <2>2. (WillLook(c) => WillLook(c)') /\ mixed' = mixed
    BY <1>1, <1>3, <1>5 DEF WillLook, At
  <2>3. /\ conn'[c] # Idle /\ conn'[c].user = conn[c].user
        /\ conn'[c].tcp = conn[c].tcp /\ conn'[c].limit = conn[c].limit
    BY <1>5 DEF Proceeds
  <2>4. TypeOK /\ EntriesAreUsed /\ SameBut(c) /\ entry' = entry
    BY <1>3, <1>5 DEF IInv
  <2> QED
    BY <2>1, <2>2, <2>3, <2>4, EntriesKept
<1>18. ~mixed => \A v \in Users, jp \in IPs :
          c \in Limited(v, jp) <=> c \in Limited(v, jp)'
  BY <1>1, <1>2, <1>5, NotLimited
<1> QED
  BY <1>3, <1>5, <1>13, <1>14, <1>15, <1>16, <1>17, <1>18, UnlimitedStep

\* Who has loaded what is taken out holds it no longer.
Detaches(c, u, ips, linked) ==
  \A k \in Conns \ {c} :
    IF conn[k] # Idle /\ conn[k].user = u /\ conn[k].ip \in ips
    THEN /\ ~conn'[k].held
         /\ conn'[k].linked => linked
         /\ conn[k].linked /\ linked => conn'[k].linked
    ELSE conn'[k] = conn[k]

\* Taking counters out changes no connection but for what it holds.
LEMMA DetachedMoves ==
  ASSUME TypeOK, NEW c \in Conns, NEW u, NEW ips, NEW linked \in BOOLEAN,
         NEW r \in {Idle} \cup Connections,
         conn' = [Detached(u, ips, linked) EXCEPT ![c] = r]
  PROVE  /\ conn' \in [Conns -> {Idle} \cup Connections]
         /\ SameBut(c)
         /\ conn'[c] = r
         /\ Detaches(c, u, ips, linked)
<1>1. \A k \in Conns :
        LET d == Detached(u, ips, linked)[k]
        IN  /\ d \in {Idle} \cup Connections
            /\ d # Idle <=> conn[k] # Idle
            /\ d.at = conn[k].at
            /\ conn[k] # Idle => /\ d.user = conn[k].user /\ d.ip = conn[k].ip
                                 /\ d.tcp = conn[k].tcp /\ d.limit = conn[k].limit
                                 /\ d.held => conn[k].held
                                 /\ d.linked => conn[k].linked
            /\ IF conn[k] # Idle /\ conn[k].user = u /\ conn[k].ip \in ips
               THEN /\ ~d.held
                    /\ d.linked => linked
                    /\ conn[k].linked /\ linked => d.linked
               ELSE d = conn[k]
  <2> TAKE k \in Conns
  <2> DEFINE d == Detached(u, ips, linked)[k]
             l == conn[k].linked /\ linked
  <2>1. CASE conn[k] # Idle /\ conn[k].user = u /\ conn[k].ip \in ips
    <3>1. d = [conn[k] EXCEPT !.held = FALSE, !.linked = l]
      BY <2>1 DEF Detached
    <3>2. conn[k] \in Connections /\ conn[k] # Idle /\ l \in BOOLEAN
      BY <2>1, ConnType
    <3>3. conn[k].at \in Steps
      BY <2>1, ConnType
    <3> HIDE DEF d, l
    <3>4. /\ d \in Connections /\ d.at = conn[k].at /\ d.user = conn[k].user
          /\ d.ip = conn[k].ip /\ d.tcp = conn[k].tcp
          /\ d.limit = conn[k].limit /\ ~d.held /\ d.linked = l
      BY <3>1, <3>2 DEF Connections
    <3>5. d # Idle
      BY <3>3, <3>4 DEF Idle, Steps
    <3>6. /\ d.linked => conn[k].linked
          /\ d.linked => linked
          /\ conn[k].linked /\ linked => d.linked
      BY <3>4 DEF l
    <3> QED
      BY <2>1, <3>2, <3>4, <3>5, <3>6 DEF d
  <2>2. CASE ~(conn[k] # Idle /\ conn[k].user = u /\ conn[k].ip \in ips)
    <3>1. d = conn[k]
      BY <2>2 DEF Detached
    <3> QED
      BY <2>2, <3>1 DEF TypeOK
  <2> QED
    BY <2>1, <2>2
<1>2. DOMAIN Detached(u, ips, linked) = Conns
  BY DEF Detached
<1>3. /\ conn'[c] = r
      /\ \A k \in Conns \ {c} : conn'[k] = Detached(u, ips, linked)[k]
      /\ conn' = [k \in Conns |-> IF k = c THEN r ELSE Detached(u, ips, linked)[k]]
  BY <1>2 DEF Detached
<1>4. conn' \in [Conns -> {Idle} \cup Connections]
  BY <1>1, <1>3
<1>5. SameBut(c)
  BY <1>1, <1>3 DEF SameBut
<1>6. Detaches(c, u, ips, linked)
  BY <1>1, <1>3 DEF Detaches
<1> QED
  BY <1>3, <1>4, <1>5, <1>6

\* A counter that was found at zero is taken out, with whatever was added to it
\* since, unless the ipCounter has gone before it.
LEMMA DeleteAddressInv ==
  ASSUME IInv, NEW c \in Conns, DeleteAddress(c)
  PROVE  IInv'
<1>1. /\ TypeOK /\ conn[c].at = "delete" /\ conn[c] # Idle
      /\ conn[c].user \in Users /\ conn[c].ip \in IPs /\ conn[c].limit \in Nat
      /\ conn[c].linked \in BOOLEAN
      /\ UNCHANGED <<limitedVars, startVars, mixed, beyond>>
      /\ entry' = entry /\ mixed' = mixed
  BY ConnType DEF IInv, DeleteAddress, At
<1>2. /\ conn[c].tcp /\ ~conn[c].held /\ (~mixed => conn[c].limit = 0)
      /\ conn[c].linked => entry[conn[c].user]
  BY <1>1 DEF IInv, StepsAgree, Agrees, Looking
<1> PICK u \in Users, ip \in IPs : u = conn[c].user /\ ip = conn[c].ip
  BY <1>1
<1>3. CASE ~conn[c].linked
  <2>1. Goto(c, "sweep") /\ "sweep" \in Steps /\ UNCHANGED unlimitedVars
    BY <1>1, <1>3 DEF DeleteAddress, Steps, unlimitedVars
  <2>2. /\ conn' \in [Conns -> {Idle} \cup Connections]
        /\ SameBut(c) /\ Proceeds(c)
        /\ \A k \in Conns \ {c} : conn'[k] = conn[k]
        /\ conn'[c] # Idle /\ conn'[c].at = "sweep"
        /\ conn'[c].tcp = conn[c].tcp /\ conn'[c].limit = conn[c].limit
        /\ conn'[c].linked = conn[c].linked /\ conn'[c].held = conn[c].held
    BY <1>1, <2>1, GotoMoves
  <2>3. Agrees(c)'
    BY <1>1, <1>2, <1>3, <2>2 DEF Agrees, Looking
  <2>4. ASSUME NEW v \in Users, NEW jp \in IPs
        PROVE  c \notin OpenUnlimited(v, jp) /\ c \notin Deleting(v, jp)
    BY <1>1, <1>3, CountedAs
  <2>5. ~WillLook(c)
    BY <1>1, <1>3 DEF WillLook, At
  <2> QED
    BY <1>1, <1>2, <2>1, <2>2, <2>3, <2>4, <2>5, LookingStep
<1>4. CASE conn[c].linked
  <2> DEFINE r == [Detached(u, {ip}, TRUE)[c] EXCEPT !.at = "sweep"]
  <2>1. /\ r \in Connections
        /\ r.at = "sweep" /\ r.user = u /\ r.ip = ip /\ r.tcp = conn[c].tcp
        /\ r.limit = conn[c].limit /\ ~r.held /\ r.linked
    <3>1. Detached(u, {ip}, TRUE)[c]
            = [conn[c] EXCEPT !.held = FALSE, !.linked = TRUE]
      BY <1>1, <1>4 DEF Detached
    <3>2. conn[c] \in Connections /\ "sweep" \in Steps
      BY <1>1, ConnType DEF Steps
    <3> QED
      BY <3>1, <3>2 DEF Connections
  <2>2. /\ counter' = [counter EXCEPT ![u][ip] = Absent]
        /\ conn' = [Detached(u, {ip}, TRUE) EXCEPT ![c] = r]
    BY <1>4 DEF DeleteAddress
  <2> HIDE DEF r
  <2>3. /\ conn' \in [Conns -> {Idle} \cup Connections]
        /\ SameBut(c)
        /\ conn'[c] = r
        /\ Detaches(c, u, {ip}, TRUE)
    BY <1>1, <2>1, <2>2, DetachedMoves
  <2>4. r # Idle
    BY <2>1 DEF Idle
  <2>5. Proceeds(c)
    BY <1>1, <2>1, <2>3 DEF Proceeds
  <2>6. /\ counter' \in [Users -> [IPs -> Counts]] /\ entry' \in [Users -> BOOLEAN]
        /\ \A v \in Users, jp \in IPs :
             counter'[v][jp] = IF v = u /\ jp = ip THEN Absent ELSE counter[v][jp]
    <3>1. Absent \in Counts
      BY AbsentBound DEF Counts
    <3> QED
      BY <1>1, <2>2, <3>1 DEF TypeOK
  <2>7. OthersHold(c)
    <3> SUFFICES ASSUME NEW k \in Conns, k # c, conn'[k] # Idle
                 PROVE  /\ conn'[k].linked => entry'[conn[k].user]
                        /\ conn'[k].held => counter'[conn[k].user][conn[k].ip] # Absent
                        /\ conn'[k].held /\ conn[k].linked => conn'[k].linked
      BY DEF OthersHold
    <3>1. /\ conn[k] # Idle
          /\ conn'[k].linked => conn[k].linked
          /\ conn'[k].held => conn[k].held
          /\ conn[k].linked => conn'[k].linked
          /\ conn'[k].held => ~(conn[k].user = u /\ conn[k].ip = ip)
      BY <2>3 DEF SameBut, Detaches
    <3>2. conn[k].user \in Users /\ conn[k].ip \in IPs
      BY <1>1, <3>1, ConnType
    <3>3. /\ conn[k].linked => entry[conn[k].user]
          /\ conn[k].held => counter[conn[k].user][conn[k].ip] # Absent
      BY <3>1 DEF IInv, StepsAgree, Agrees
    <3>4. conn'[k].held => counter'[conn[k].user][conn[k].ip] # Absent
      BY <2>6, <3>1, <3>2, <3>3
    <3> QED
      BY <1>1, <3>1, <3>3, <3>4
  <2>8. Agrees(c)'
    <3>1. /\ conn'[c].at = "sweep" /\ conn'[c].tcp /\ ~conn'[c].held
          /\ conn'[c].linked /\ entry'[conn'[c].user]
      BY <1>1, <1>2, <1>4, <2>1, <2>3 DEF IInv, StepsAgree, Agrees
    <3>2. ~mixed' => conn'[c].limit = 0
      BY <1>1, <1>2, <1>4, <2>1, <2>3 DEF IInv, StepsAgree, Agrees, Looking
    <3> QED
      BY <3>1, <3>2 DEF Agrees, Looking
  <2>9. ASSUME NEW v \in Users, NEW jp \in IPs
        PROVE  InRange(v, jp)'
    <3>1. CASE v = u /\ jp = ip
      BY <2>6, <3>1, AbsentInRange
    <3>2. CASE ~(v = u /\ jp = ip)
      <4>1. InRange(v, jp) /\ Untouched(c, v, jp)
        BY <2>3, <3>2 DEF IInv, CountersInRange, Untouched, Detaches
      <4>2. counter'[v][jp] = counter[v][jp] /\ (entry[v] => entry'[v])
        BY <1>1, <2>6, <3>2
      <4>3. /\ c \notin OpenUnlimited(v, jp)
            /\ c \notin Deleting(v, jp) /\ c \notin Adding(v, jp)
        BY <1>1, <3>2, CountedAs
      <4> QED
        BY <1>1, <2>3, <4>1, <4>2, <4>3, CounterKept
    <3> QED
      BY <3>1, <3>2
  <2>10. TypeOK' => EntriesAreUsed'
    <3>1. OthersLook(c)
      BY <2>3 DEF OthersLook, Detaches
    <3>2. WillLook(c)'
      BY <2>1, <2>3 DEF WillLook
    <3>3. EntriesAreUsed
      BY DEF IInv
    <3> QED
      BY <1>1, <2>1, <2>3, <2>4, <3>1, <3>2, <3>3, EntriesKept
  <2>11. ~mixed => \A v \in Users, jp \in IPs :
            c \in Limited(v, jp) <=> c \in Limited(v, jp)'
    BY <1>1, <1>2, <2>5, NotLimited
  <2> QED
    BY <1>1, <2>3, <2>5, <2>6, <2>7, <2>8, <2>9, <2>10, <2>11, UnlimitedStep
<1> QED
  BY <1>1, <1>3, <1>4

\* A connection that is done, and counted nowhere, leaves counters in range.
LEMMA FinishedCounters ==
  ASSUME IInv, NEW c \in Conns, Finished(c), conn[c].at \in {"release", "sweep"},
         UNCHANGED unlimitedVars
  PROVE  CountersInRange' /\ OthersHold(c) /\ OthersLook(c)
<1>1. /\ TypeOK /\ SameBut(c) /\ entry' = entry /\ counter' = counter
      /\ \A k \in Conns \ {c} : conn'[k] = conn[k]
  BY FinishedMoves DEF IInv, unlimitedVars
<1>2. ASSUME NEW u \in Users, NEW ip \in IPs
      PROVE  InRange(u, ip)'
  <2>1. InRange(u, ip) /\ Untouched(c, u, ip)
    BY <1>1 DEF IInv, CountersInRange, Untouched
  <2>2. /\ c \notin OpenUnlimited(u, ip)
        /\ c \notin Deleting(u, ip) /\ c \notin Adding(u, ip)
    BY <1>1, CountedAs
  <2> QED
    BY <1>1, <2>1, <2>2, CounterKept
<1>3. OthersHold(c)
  BY <1>1, OthersKeep DEF IInv
<1>4. OthersLook(c)
  BY <1>1 DEF OthersLook
<1> QED
  BY <1>2, <1>3, <1>4 DEF CountersInRange

\* A user whose ipCounter is not empty has a connection left to look at it.
LEMMA SweepInv ==
  ASSUME IInv, NEW c \in Conns, Sweep(c)
  PROVE  IInv'
<1>1. /\ TypeOK /\ conn[c].at = "sweep" /\ conn[c] # Idle
      /\ conn[c].user \in Users /\ conn[c].limit \in Nat
      /\ conn[c].linked \in BOOLEAN
      /\ UNCHANGED <<limitedVars, unlimitedVars, startVars, mixed, beyond>>
  BY ConnType DEF IInv, Sweep, At
<1>2. /\ conn[c].tcp /\ ~conn[c].held /\ (~mixed => conn[c].limit = 0)
      /\ conn[c].linked => entry[conn[c].user]
  BY <1>1 DEF IInv, StepsAgree, Agrees, Looking
<1>3. entry' = entry /\ counter' = counter /\ mixed' = mixed
  BY <1>1 DEF unlimitedVars
<1>4. CASE Goto(c, "unlink")
  <2>1. "unlink" \in Steps
    BY DEF Steps
  <2>2. /\ conn' \in [Conns -> {Idle} \cup Connections]
        /\ SameBut(c) /\ Proceeds(c)
        /\ \A k \in Conns \ {c} : conn'[k] = conn[k]
        /\ conn'[c] # Idle /\ conn'[c].at = "unlink"
        /\ conn'[c].user = conn[c].user
        /\ conn'[c].tcp = conn[c].tcp /\ conn'[c].limit = conn[c].limit
        /\ conn'[c].linked = conn[c].linked /\ conn'[c].held = conn[c].held
    BY <1>1, <1>4, <2>1, GotoMoves
  <2>3. Agrees(c)'
    BY <1>2, <1>3, <2>2 DEF Agrees, Looking
  <2>4. ASSUME NEW v \in Users, NEW jp \in IPs
        PROVE  c \notin OpenUnlimited(v, jp) /\ c \notin Deleting(v, jp)
    BY <1>1, CountedAs
  <2>5. WillLook(c) => WillLook(c)'
    BY <1>1, <2>2 DEF WillLook, At
  <2> QED
    BY <1>1, <1>2, <2>2, <2>3, <2>4, <2>5, LookingStep
<1>5. CASE /\ conn[c].linked =>
                ~\A ip \in IPs : counter[conn[c].user][ip] = Absent
           /\ Finished(c)
  <2>1. /\ conn' \in [Conns -> {Idle} \cup Connections]
        /\ SameBut(c) /\ Proceeds(c)
        /\ conn'[c] = Idle
        /\ \A k \in Conns \ {c} : conn'[k] = conn[k]
    BY <1>1, <1>5, FinishedMoves DEF Proceeds
  <2>2. /\ counter' \in [Users -> [IPs -> Counts]] /\ entry' \in [Users -> BOOLEAN]
        /\ UNCHANGED <<limitedVars, startVars, mixed, beyond>>
    BY <1>1, <1>3 DEF TypeOK
  <2>3. CountersInRange' /\ OthersHold(c) /\ OthersLook(c)
    BY <1>1, <1>5, FinishedCounters
  <2>4. \A v \in Users, jp \in IPs : InRange(v, jp)'
    BY <2>3 DEF CountersInRange
  <2>5. TypeOK' => EntriesAreUsed'
    <3>1. CASE ~conn[c].linked
      <4>1. ~WillLook(c)
        BY <1>1, <3>1 DEF WillLook, At
      <4>2. EntriesAreUsed
        BY DEF IInv
      <4> QED
        BY <1>1, <1>3, <2>1, <2>3, <4>1, <4>2, EntriesKept
    <3>2. CASE conn[c].linked
      <4> SUFFICES ASSUME ~mixed', NEW v \in Users, entry'[v]
                   PROVE  \E k \in OfKind(v, FALSE)' : WillLook(k)'
        BY DEF EntriesAreUsed
      <4>1. ~mixed /\ entry[v]
        BY <1>3
      <4>2. PICK k \in OfKind(v, FALSE) : WillLook(k) /\ k # c
        <5>1. CASE v = conn[c].user
          <6>1. PICK ip \in IPs : counter[v][ip] # Absent
            BY <1>5, <3>2, <5>1
          <6>2. PICK k \in OfKind(v, FALSE) :
                  /\ conn[k].at \in {"open", "find", "subtract", "delete", "add"}
                  /\ WillLook(k)
            BY <1>1, <4>1, <6>1, PresentIsBacked DEF IInv
          <6> QED
            BY <1>1, <6>2
        <5>2. CASE v # conn[c].user
          <6>1. PICK k \in OfKind(v, FALSE) : WillLook(k)
            BY <4>1 DEF IInv, EntriesAreUsed
          <6>2. k # c
            BY <5>2, <6>1 DEF OfKind, InFlight
          <6> QED
            BY <6>1, <6>2
        <5> QED
          BY <5>1, <5>2
      <4>3. k \in Conns /\ conn'[k] = conn[k]
        BY <2>1, <4>2 DEF OfKind, InFlight
      <4>4. k \in OfKind(v, FALSE)'
        BY <4>2, <4>3 DEF OfKind, InFlight
      <4>5. WillLook(k)'
        BY <4>2, <4>3 DEF WillLook, At
      <4> QED
        BY <4>4, <4>5
    <3> QED
      BY <1>1, <3>1, <3>2
  <2>6. ~mixed => \A v \in Users, jp \in IPs :
           c \in Limited(v, jp) <=> c \in Limited(v, jp)'
    BY <1>1, <1>2, <2>1, NotLimited
  <2> QED
    BY <2>1, <2>2, <2>3, <2>4, <2>5, <2>6, UnlimitedStep
<1> QED
  BY <1>4, <1>5 DEF Sweep

\* The ipCounter goes with all that is in it.
LEMMA UnlinkInv ==
  ASSUME IInv, NEW c \in Conns, Unlink(c)
  PROVE  IInv'
<1>1. /\ TypeOK /\ conn[c].at = "unlink" /\ conn[c] # Idle
      /\ conn[c].user \in Users /\ conn[c].limit \in Nat
      /\ UNCHANGED <<limitedVars, startVars, mixed, beyond>>
      /\ mixed' = mixed
  BY ConnType DEF IInv, Unlink, At
<1>2. ~mixed => conn[c].limit = 0
  BY <1>1 DEF IInv, StepsAgree, Agrees, Looking
<1> PICK u \in Users : u = conn[c].user
  BY <1>1
<1>3. /\ entry' = [entry EXCEPT ![u] = FALSE]
      /\ counter' = [counter EXCEPT ![u] = [ip \in IPs |-> Absent]]
      /\ conn' = [Detached(u, IPs, FALSE) EXCEPT ![c] = Idle]
  BY DEF Unlink
<1>4. /\ conn' \in [Conns -> {Idle} \cup Connections]
      /\ SameBut(c)
      /\ conn'[c] = Idle
      /\ Detaches(c, u, IPs, FALSE)
  <2>1. Idle \in {Idle} \cup Connections /\ FALSE \in BOOLEAN
    OBVIOUS
  <2> QED
    BY <1>1, <1>3, <2>1, DetachedMoves, Zenon
<1>5. Proceeds(c)
  BY <1>1, <1>4 DEF Proceeds
<1>6. /\ counter' \in [Users -> [IPs -> Counts]] /\ entry' \in [Users -> BOOLEAN]
      /\ \A v \in Users :
           /\ entry'[v] = IF v = u THEN FALSE ELSE entry[v]
           /\ \A jp \in IPs :
                counter'[v][jp] = IF v = u THEN Absent ELSE counter[v][jp]
  <2>1. Absent \in Counts
    BY AbsentBound DEF Counts
  <2> QED
    BY <1>1, <1>3, <2>1 DEF TypeOK
<1>7. \A k \in Conns \ {c} : conn[k] # Idle =>
        IF conn[k].user = u THEN ~conn'[k].held /\ ~conn'[k].linked
                            ELSE conn'[k] = conn[k]
  <2> TAKE k \in Conns \ {c}
  <2> HAVE conn[k] # Idle
  <2>1. conn[k].ip \in IPs
    BY <1>1, ConnType
  <2> QED
    BY <1>4, <2>1 DEF Detaches
<1>8. OthersHold(c)
  <2> SUFFICES ASSUME NEW k \in Conns, k # c, conn'[k] # Idle
               PROVE  /\ conn'[k].linked => entry'[conn[k].user]
                      /\ conn'[k].held => counter'[conn[k].user][conn[k].ip] # Absent
                      /\ conn'[k].held /\ conn[k].linked => conn'[k].linked
    BY DEF OthersHold
  <2>1. conn[k] # Idle
    BY <1>4 DEF SameBut
  <2>2. conn[k].user \in Users /\ conn[k].ip \in IPs
    BY <1>1, <2>1, ConnType
  <2>3. CASE conn[k].user = u
    BY <1>7, <2>1, <2>3
  <2>4. CASE conn[k].user # u
    <3>1. conn'[k] = conn[k]
      BY <1>7, <2>1, <2>4
    <3>2. /\ conn[k].linked => entry[conn[k].user]
          /\ conn[k].held => counter[conn[k].user][conn[k].ip] # Absent
      BY <2>1 DEF IInv, StepsAgree, Agrees
    <3> QED
      BY <1>6, <2>2, <2>4, <3>1, <3>2
  <2> QED
    BY <2>3, <2>4
<1>9. ASSUME NEW v \in Users, NEW jp \in IPs
      PROVE  InRange(v, jp)'
  <2>1. CASE v = u
    BY <1>6, <2>1, AbsentInRange
  <2>2. CASE v # u
    <3>1. InRange(v, jp) /\ Untouched(c, v, jp)
      BY <1>7, <2>2 DEF IInv, CountersInRange, Untouched
    <3>2. counter'[v][jp] = counter[v][jp] /\ (entry[v] => entry'[v])
      BY <1>6, <2>2
    <3>3. /\ c \notin OpenUnlimited(v, jp)
          /\ c \notin Deleting(v, jp) /\ c \notin Adding(v, jp)
      BY <1>1, CountedAs
    <3> QED
      BY <1>1, <1>4, <3>1, <3>2, <3>3, CounterKept
  <2> QED
    BY <2>1, <2>2
<1>10. TypeOK' => EntriesAreUsed'
  <2>1. OthersLook(c)
    <3> SUFFICES ASSUME NEW k \in Conns, k # c, conn[k] # Idle, conn[k].linked,
                        entry'[conn[k].user]
                 PROVE  conn'[k].linked
      BY DEF OthersLook
    <3>1. conn[k].user \in Users
      BY <1>1, ConnType
    <3>2. conn[k].user # u
      BY <1>6, <3>1
    <3> QED
      BY <1>7, <3>2
  <2>2. ~entry'[conn[c].user] /\ \A v \in Users : entry'[v] => entry[v]
    BY <1>6
  <2>3. EntriesAreUsed
    BY DEF IInv
  <2> QED
    BY <1>1, <1>4, <2>1, <2>2, <2>3, EntriesKept
<1>11. ~mixed => \A v \in Users, jp \in IPs :
          c \in Limited(v, jp) <=> c \in Limited(v, jp)'
  BY <1>1, <1>2, <1>5, NotLimited
<1> QED
  BY <1>1, <1>4, <1>5, <1>6, <1>8, <1>9, <1>10, <1>11, UnlimitedStep

\* One device the fewer, at most, and one reference of a limited address.  An
\* unlimited connection that finds its ipCounter gone releases nothing.
LEMMA ReleaseInv ==
  ASSUME IInv, NEW c \in Conns, Release(c)
  PROVE  IInv'
<1>1. TypeOK /\ conn[c].at = "release" /\ conn[c] # Idle
      /\ conn[c].tcp /\ ~conn[c].linked
  BY ConnType DEF IInv, StepsAgree, Agrees, Looking, Release, At
<1> PICK u \in Users, ip \in IPs : u = conn[c].user /\ ip = conn[c].ip
  BY <1>1, ConnType
<1> DEFINE n == IF local[u][ip] > 0 THEN local[u][ip] - 1 ELSE 0
<1>2. /\ UNCHANGED <<limits, remote, unlimitedVars, startVars, mixed, beyond>>
      /\ local' = [local EXCEPT ![u][ip] = n]
      /\ Finished(c)
  BY DEF Release
<1>3. n \in Nat /\ local[u][ip] \in Nat /\ n <= local[u][ip]
  BY <1>1 DEF TypeOK
<1>4. /\ conn' \in [Conns -> {Idle} \cup Connections]
      /\ SameBut(c) /\ Proceeds(c)
      /\ \A k \in Conns \ {c} : conn'[k] = conn[k]
      /\ conn'[c] = Idle /\ conn'[c].at = "idle"
  BY <1>1, <1>2, FinishedMoves DEF Proceeds
<1>5. TypeOK'
  <2> HIDE DEF n
  <2>1. local' \in [Users -> [IPs -> Nat]]
    BY <1>1, <1>2, <1>3 DEF TypeOK
  <2> QED
    BY <1>1, <1>2, <1>4, <2>1 DEF TypeOK, unlimitedVars, startVars
<1>6. \A v \in Users, jp \in IPs :
        /\ local[v][jp] \in Nat
        /\ local'[v][jp] = IF v = u /\ jp = ip THEN n ELSE local[v][jp]
  <2> HIDE DEF n
  <2> QED
    BY <1>1, <1>2 DEF TypeOK
<1>7. CountersInRange' /\ OthersHold(c) /\ OthersLook(c)
  BY <1>1, <1>2, FinishedCounters
<1>8. StepsAgree'
  BY <1>1, <1>2, <1>4, <1>5, <1>7, OthersAgree DEF IInv
<1>9. KindsApart' /\ LimitsAreCurrent'
  BY <1>1, <1>2, <1>4, <1>5, KindsKept DEF IInv
<1>10. EntriesAreUsed'
  <2>1. ~WillLook(c)
    BY <1>1 DEF WillLook, At
  <2>2. entry' = entry /\ EntriesAreUsed /\ mixed' = mixed
    BY <1>2 DEF IInv, unlimitedVars
  <2> QED
    BY <1>1, <1>4, <1>5, <1>7, <2>1, <2>2, EntriesKept
<1>11. ReferencesAreHeld'
  <2> SUFFICES ASSUME ~mixed, NEW v \in Users, NEW jp \in IPs
               PROVE  local'[v][jp] = Cardinality(Limited(v, jp)')
    BY <1>2 DEF ReferencesAreHeld
  <2>1. local[v][jp] = Cardinality(Limited(v, jp))
    BY DEF IInv, ReferencesAreHeld
  <2>2. Limited(v, jp) \in SUBSET Conns /\ Limited(v, jp)' \in SUBSET Conns
    BY DEF Limited, OfKind, InFlight
  <2>3. Limited(v, jp)' \ {c} = Limited(v, jp) \ {c}
    BY <1>1, <1>4, <1>5, SetsSameBut
  <2>4. c \notin Limited(v, jp)'
    BY <1>4 DEF Limited, Counted
  <2>5. c \in Limited(v, jp) => v = u /\ jp = ip
    BY DEF Limited, OfKind, InFlight
  <2>6. CASE c \in Limited(v, jp)
    <3>1. Cardinality(Limited(v, jp)') = Cardinality(Limited(v, jp)) - 1
      BY <2>2, <2>3, <2>4, <2>6, OneMore
    <3>2. local[u][ip] > 0
      <4>1. Cardinality(Limited(v, jp)) # 0 /\ Cardinality(Limited(v, jp)) \in Nat
        BY <2>2, <2>6, ConnsBound
      <4> QED
        BY <2>1, <2>5, <2>6, <4>1
    <3>3. local'[v][jp] = local[v][jp] - 1
      BY <1>6, <2>5, <2>6, <3>2
    <3> QED
      BY <2>1, <3>1, <3>3
  <2>7. CASE c \notin Limited(v, jp)
    <3>1. Limited(v, jp)' = Limited(v, jp)
      BY <2>3, <2>4, <2>7
    <3>2. CASE ~(v = u /\ jp = ip)
      BY <1>6, <2>1, <3>1, <3>2
    <3>3. CASE v = u /\ jp = ip
      <4>1. ~(conn[c].limit > 0)
        BY <1>1, <2>7, <3>3 DEF Limited, OfKind, InFlight, Counted
      <4>2. c \in OfKind(u, FALSE)
        BY <1>1, <4>1 DEF OfKind, InFlight
      <4>3. OfKind(u, TRUE) = {}
        BY <4>2 DEF IInv, KindsApart
      <4>4. Limited(v, jp) = {}
        BY <3>3, <4>3 DEF Limited
      <4>5. local[u][ip] = 0
        BY <2>1, <3>3, <4>4, FS_EmptySet
      <4> QED
        BY <1>6, <2>1, <3>1, <3>3, <4>5
    <3> QED
      BY <3>2, <3>3
  <2> QED
    BY <2>6, <2>7
<1>12. \A v \in Users : LocalIPs(v)' \subseteq LocalIPs(v)
  BY <1>3, <1>6 DEF LocalIPs
<1>13. LocalIsNotRemote'
  BY <1>2, <1>12 DEF IInv, LocalIsNotRemote, startVars
<1>14. CapHolds'
  <2> SUFFICES ASSUME NEW v \in Users \ beyond, limits[v] > 0
               PROVE  Cardinality(LocalIPs(v)' \cup remote[v]) <= Hard(limits[v])
    BY <1>2 DEF CapHolds
  <2>1. Cardinality(LocalIPs(v) \cup remote[v]) <= Hard(limits[v])
    BY DEF IInv, CapHolds
  <2>2. Hard(limits[v]) \in Int
    <3>1. limits[v] \in Nat
      BY <1>1, DispatcherAssumption DEF TypeOK
    <3> QED
      BY <3>1 DEF Hard
  <2>3. LocalIPs(v) \cup remote[v] \subseteq IPs
    BY <1>1 DEF LocalIPs, TypeOK
  <2>4. LocalIPs(v)' \cup remote[v] \subseteq LocalIPs(v) \cup remote[v]
    BY <1>12
  <2>5. /\ Cardinality(LocalIPs(v)' \cup remote[v])
              <= Cardinality(LocalIPs(v) \cup remote[v])
        /\ Cardinality(LocalIPs(v)' \cup remote[v]) \in Nat
        /\ Cardinality(LocalIPs(v) \cup remote[v]) \in Nat
    BY <2>3, <2>4, FewerDevices
  <2> QED
    BY <2>1, <2>2, <2>5
<1> QED
  BY <1>5, <1>7, <1>8, <1>9, <1>10, <1>11, <1>13, <1>14 DEF IInv

-----------------------------------------------------------------------------
(* The kernel wrapper. *)

\* What is said of connections and counts alone stays true while they stay.
LEMMA ConnectionsUnmoved ==
  ASSUME IInv, UNCHANGED <<local, unlimitedVars, conn, mixed>>
  PROVE  /\ StepsAgree' /\ KindsApart' /\ CountersInRange' /\ EntriesAreUsed'
         /\ ReferencesAreHeld'
<1>1. /\ local' = local /\ entry' = entry /\ counter' = counter
      /\ conn' = conn /\ mixed' = mixed
  BY DEF unlimitedVars
<1>2. \A u \in Users, b \in BOOLEAN : OfKind(u, b)' = OfKind(u, b)
  BY <1>1 DEF OfKind, InFlight
<1>3. \A u \in Users, ip \in IPs :
        Limited(u, ip)' = Limited(u, ip) /\ InRange(u, ip)' = InRange(u, ip)
  BY <1>1
  DEF Limited, OfKind, InFlight, Counted, InRange, OpenUnlimited, Deleting,
      Adding, From, At
<1>4. StepsAgree'
  BY <1>1 DEF IInv, StepsAgree, Agrees
<1>5. KindsApart'
  <2>1. KindsApart /\ (mixed' <=> mixed)
    BY <1>1 DEF IInv
  <2>2. \A u \in Users, b \in BOOLEAN : OfKind(u, b)' \subseteq OfKind(u, b)
    BY <1>2
  <2> QED
    BY <2>1, <2>2 DEF KindsApart
<1>6. EntriesAreUsed'
  <2> SUFFICES ASSUME ~mixed', NEW u \in Users, entry'[u]
               PROVE  \E k \in OfKind(u, FALSE)' : WillLook(k)'
    BY DEF EntriesAreUsed
  <2>1. EntriesAreUsed /\ ~mixed /\ entry[u]
    BY <1>1 DEF IInv
  <2>2. PICK k \in OfKind(u, FALSE) : WillLook(k)
    BY <2>1 DEF EntriesAreUsed
  <2>3. conn' = conn
    BY <1>1
  <2> QED
    BY <2>2, <2>3 DEF OfKind, InFlight, WillLook, At
<1>7. CountersInRange' /\ ReferencesAreHeld'
  BY <1>1, <1>3 DEF IInv, CountersInRange, ReferencesAreHeld
<1> QED
  BY <1>4, <1>5, <1>6, <1>7

\* New limits and remote addresses touch no connection; whoever exceeds the
\* cap by them is beyond it.
LEMMA WrapperInv ==
  ASSUME IInv,
         \/ UpdateLimits \/ UpdateGlobalDevices
         \/ ClearGlobalDevices \/ RestoreGlobalDevices
  PROVE  IInv'
<1>1. TypeOK /\ UNCHANGED <<local, unlimitedVars, conn, mixed>>
  BY DEF IInv, UpdateLimits, UpdateGlobalDevices, ClearGlobalDevices,
         RestoreGlobalDevices
<1>2. /\ limits' \in [Users -> DeviceLimits]
      /\ remote' \in [Users -> SUBSET IPs]
      /\ beyond \subseteq beyond' /\ beyond' \subseteq Users
      /\ carried' \in SUBSET [Users -> SUBSET IPs]
      /\ revived' \in [Users -> SUBSET IPs]
  <2>1. \A lim, rem : Exceeding(lim, rem) \subseteq Users
    BY DEF Exceeding
  <2>2. CASE UpdateLimits
    <3>1. {v \in Changing : limits'[v] # limits[v]} \subseteq Users
      BY DEF Changing
    <3>2. beyond \subseteq Users /\ remote \in [Users -> SUBSET IPs]
      BY <1>1 DEF TypeOK
    <3>3. UNCHANGED <<carried, revived>>
      BY <2>2 DEF UpdateLimits, startVars
    <3> QED
      BY <1>1, <2>1, <2>2, <3>1, <3>2, <3>3 DEF UpdateLimits, TypeOK
  <2>3. CASE UpdateGlobalDevices
    <3>1. PICK devices \in [Users -> SUBSET IPs] :
            remote' = [v \in Users |-> RemoteOf(devices, v)]
      BY <2>3 DEF UpdateGlobalDevices
    <3>2. \A v \in Users : RemoteOf(devices, v) \in SUBSET IPs
      BY DEF RemoteOf
    <3> QED
      BY <1>1, <2>1, <2>3, <3>1, <3>2 DEF UpdateGlobalDevices, TypeOK
  <2>4. CASE ClearGlobalDevices
    BY <1>1, <2>4 DEF ClearGlobalDevices, TypeOK
  <2>5. CASE RestoreGlobalDevices
    <3>1. PICK snapshot \in carried :
            /\ remote' = snapshot
            /\ revived' = [v \in Users |-> snapshot[v] \cap LocalIPs(v)]
      BY <2>5 DEF RestoreGlobalDevices
    <3>2. snapshot \in [Users -> SUBSET IPs]
      BY <1>1, <3>1 DEF TypeOK
    <3>3. \A v \in Users : snapshot[v] \cap LocalIPs(v) \in SUBSET IPs
      BY <3>2
    <3>4. /\ revived' \in [Users -> SUBSET IPs]
          /\ carried' \in SUBSET [Users -> SUBSET IPs]
      BY <2>5, <3>1, <3>3 DEF RestoreGlobalDevices
    <3> QED
      BY <1>1, <2>1, <2>5, <3>1, <3>2, <3>4 DEF RestoreGlobalDevices, TypeOK
  <2> QED
    BY <2>2, <2>3, <2>4, <2>5
<1>3. TypeOK'
  BY <1>1, <1>2 DEF TypeOK, unlimitedVars
<1>4. StepsAgree' /\ KindsApart' /\ CountersInRange' /\ EntriesAreUsed'
        /\ ReferencesAreHeld'
  BY <1>1, ConnectionsUnmoved
<1>5. LimitsAreCurrent'
  <2>1. CASE UpdateLimits
    <3> SUFFICES ASSUME NEW c \in Conns, conn[c] # Idle,
                        conn[c].user \notin beyond'
                 PROVE  conn[c].limit = limits'[conn[c].user]
      BY <1>1 DEF LimitsAreCurrent
    <3>1. conn[c].user \in Users /\ c \in InFlight(conn[c].user)
      BY <1>1, ConnType DEF InFlight
    <3>2. limits'[conn[c].user] = limits[conn[c].user]
      BY <2>1, <3>1 DEF UpdateLimits, Changing
    <3> QED
      BY <1>2, <3>2 DEF IInv, LimitsAreCurrent
  <2>2. CASE \/ UpdateGlobalDevices \/ ClearGlobalDevices
             \/ RestoreGlobalDevices
    <3>1. limits' = limits
      BY <2>2 DEF UpdateGlobalDevices, ClearGlobalDevices, RestoreGlobalDevices
    <3> QED
      BY <1>1, <1>2, <3>1 DEF IInv, LimitsAreCurrent
  <2> QED
    BY <2>1, <2>2
<1>6. LocalIsNotRemote'
  <2>1. CASE UpdateLimits
    BY <1>1, <2>1 DEF IInv, LocalIsNotRemote, LocalIPs, UpdateLimits, startVars
  <2>2. CASE UpdateGlobalDevices
    BY <1>1, <2>2
    DEF LocalIsNotRemote, LocalIPs, UpdateGlobalDevices, RemoteOf
  <2>3. CASE ClearGlobalDevices
    BY <1>1, <2>3 DEF LocalIsNotRemote, ClearGlobalDevices
  <2>4. CASE RestoreGlobalDevices
    <3>1. \A v \in Users : revived'[v] = remote'[v] \cap LocalIPs(v)
      BY <2>4 DEF RestoreGlobalDevices
    <3> QED
      BY <1>1, <3>1 DEF LocalIsNotRemote, LocalIPs
  <2> QED
    BY <2>1, <2>2, <2>3, <2>4
<1>7. CapHolds'
  <2> SUFFICES ASSUME NEW v \in Users \ beyond', limits'[v] > 0
               PROVE  Cardinality(LocalIPs(v) \cup remote'[v]) <= Hard(limits'[v])
    BY <1>1 DEF CapHolds, LocalIPs
  <2>0. /\ limits'[v] \in Nat /\ Hard(limits'[v]) \in Int
        /\ Cardinality(LocalIPs(v) \cup remote'[v]) \in Nat
    <3>1. limits'[v] \in Nat
      BY <1>2, DispatcherAssumption
    <3>2. LocalIPs(v) \cup remote'[v] \subseteq IPs
      BY <1>2 DEF LocalIPs
    <3> QED
      BY <3>1, <3>2, FewerDevices DEF Hard
  <2>1. CASE UpdateLimits
    <3>1. v \notin Exceeding(limits', remote) /\ remote' = remote
      BY <2>1 DEF UpdateLimits
    <3> QED
      BY <2>0, <3>1 DEF Exceeding
  <2>2. CASE UpdateGlobalDevices \/ RestoreGlobalDevices
    <3>1. v \notin Exceeding(limits, remote') /\ limits' = limits
      BY <2>2 DEF UpdateGlobalDevices, RestoreGlobalDevices
    <3> QED
      BY <2>0, <3>1 DEF Exceeding
  <2>3. CASE ClearGlobalDevices
    <3>1. remote'[v] = {} /\ limits' = limits /\ v \notin beyond
      BY <1>2, <2>3 DEF ClearGlobalDevices
    <3>2. Cardinality(LocalIPs(v) \cup remote[v]) <= Hard(limits[v])
      BY <3>1 DEF IInv, CapHolds
    <3>3. /\ LocalIPs(v) \cup remote'[v] \subseteq LocalIPs(v) \cup remote[v]
          /\ LocalIPs(v) \cup remote[v] \subseteq IPs
      BY <1>1, <3>1 DEF LocalIPs, TypeOK
    <3>4. /\ Cardinality(LocalIPs(v) \cup remote'[v])
               <= Cardinality(LocalIPs(v) \cup remote[v])
          /\ Cardinality(LocalIPs(v) \cup remote[v]) \in Nat
      BY <3>3, FewerDevices
    <3> QED
      BY <2>0, <3>1, <3>2, <3>4
  <2> QED
    BY <2>1, <2>2, <2>3
<1> QED
  BY <1>3, <1>4, <1>5, <1>6, <1>7 DEF IInv

\* Nothing is counted and nothing is in flight: a dispatcher as it is built.
Fresh ==
  /\ local = [u \in Users |-> [ip \in IPs |-> 0]]
  /\ entry = [u \in Users |-> FALSE]
  /\ counter = [u \in Users |-> [ip \in IPs |-> Absent]]
  /\ conn = [c \in Conns |-> Idle]
  /\ carried \in SUBSET [Users -> SUBSET IPs]
  /\ mixed = FALSE
  /\ beyond = {}
  /\ revived = [u \in Users |-> {}]

\* The invariant holds of one, if the cap does of the remote addresses.
LEMMA FreshInv ==
  Fresh /\ limits \in [Users -> DeviceLimits]
        /\ remote \in [Users -> SUBSET IPs] /\ CapHolds
    => IInv
<1> SUFFICES ASSUME Fresh, limits \in [Users -> DeviceLimits],
                    remote \in [Users -> SUBSET IPs], CapHolds
             PROVE  IInv
  OBVIOUS
<1>1. TypeOK
  <2>1. Absent \in Counts
    BY AbsentBound DEF Counts
  <2> QED
    BY <2>1 DEF Fresh, TypeOK
<1>2. StepsAgree /\ LimitsAreCurrent
  BY DEF Fresh, StepsAgree, LimitsAreCurrent
<1>3. \A u \in Users, b \in BOOLEAN : OfKind(u, b) = {}
  BY DEF Fresh, OfKind, InFlight
<1>4. KindsApart /\ EntriesAreUsed
  BY <1>3 DEF Fresh, KindsApart, EntriesAreUsed
<1>5. CountersInRange
  <2> SUFFICES ASSUME NEW u \in Users, NEW ip \in IPs
               PROVE  InRange(u, ip)
    BY DEF CountersInRange
  <2>1. counter[u][ip] = Absent
    BY DEF Fresh
  <2>2. OpenUnlimited(u, ip) \in SUBSET Conns
    BY DEF OpenUnlimited, From
  <2> QED
    BY <2>1, <2>2, ConnsBound, AbsentBound DEF InRange
<1>6. ReferencesAreHeld
  <2>1. \A u \in Users, ip \in IPs : Limited(u, ip) = {} /\ local[u][ip] = 0
    BY <1>3 DEF Limited, Fresh
  <2> QED
    BY <2>1, FS_EmptySet DEF ReferencesAreHeld
<1>7. LocalIsNotRemote
  BY DEF Fresh, LocalIsNotRemote, LocalIPs
<1> QED
  BY <1>1, <1>2, <1>4, <1>5, <1>6, <1>7 DEF IInv

\* The first dispatcher has no remote addresses.
LEMMA InitInv == Init => IInv
<1> SUFFICES ASSUME Init PROVE IInv
  OBVIOUS
<1>1. Fresh /\ limits \in [Users -> DeviceLimits]
        /\ remote \in [Users -> SUBSET IPs]
  BY DEF Init, Fresh
<1>2. CapHolds
  <2> SUFFICES ASSUME NEW u \in Users, limits[u] > 0
               PROVE  Cardinality(LocalIPs(u) \cup remote[u]) <= Hard(limits[u])
    BY DEF CapHolds
  <2>1. LocalIPs(u) \cup remote[u] = {}
    BY DEF Init, LocalIPs
  <2>2. limits[u] \in Nat
    BY <1>1, DispatcherAssumption
  <2>3. Hard(limits[u]) >= 0
    BY <2>2 DEF Hard
  <2> QED
    BY <2>1, <2>3, FS_EmptySet
<1> QED
  BY <1>1, <1>2, FreshInv

\* A new dispatcher has no limits yet and no remote addresses.
LEMMA SwapInv ==
  ASSUME IInv, Swap
  PROVE  IInv'
<1>1. (Fresh /\ limits \in [Users -> DeviceLimits]
         /\ remote \in [Users -> SUBSET IPs] /\ CapHolds
         => IInv)'
  BY FreshInv, PTL
<1>2. carried' \in SUBSET [Users -> SUBSET IPs]
  BY DEF Swap, IInv, TypeOK
<1>3. Fresh' /\ remote' \in [Users -> SUBSET IPs]
  BY <1>2 DEF Swap, Fresh
<1>4. CapHolds'
  BY DEF Swap, CapHolds
<1>5. limits' \in [Users -> DeviceLimits]
  BY DispatcherAssumption DEF Swap
<1> QED
  BY <1>1, <1>3, <1>4, <1>5

-----------------------------------------------------------------------------
(* The theorems. *)

\* Every step keeps the invariant.
LEMMA NextInv == IInv /\ [Next]_vars => IInv'
<1> SUFFICES ASSUME IInv, [Next]_vars
             PROVE  IInv'
  OBVIOUS
<1>1. ASSUME NEW c \in Conns, Connection(c)
      PROVE  IInv'
  <2>1. CASE \E u \in Users, ip \in IPs, tcp \in BOOLEAN : Dispatch(c, u, ip, tcp)
    BY <2>1, DispatchInv
  <2>2. CASE PlaceCounter(c) \/ AddReference(c)
    BY <2>2, PlaceCounterInv, AddReferenceInv
  <2>3. CASE \/ FastPath(c) \/ AdmitKnown(c) \/ AdmitNew(c)
             \/ AdmitSlow(c) \/ Refuse(c)
    BY <2>3, FastPathInv, AdmitKnownInv, AdmitNewInv, AdmitSlowInv, RefuseInv
  <2>4. CASE Close(c) \/ FindCounter(c) \/ Subtract(c) \/ DeleteAddress(c)
    BY <2>4, CloseInv, FindCounterInv, SubtractInv, DeleteAddressInv
  <2>5. CASE Sweep(c) \/ Unlink(c) \/ Release(c)
    BY <2>5, SweepInv, UnlinkInv, ReleaseInv
  <2> QED
    BY <1>1, <2>1, <2>2, <2>3, <2>4, <2>5 DEF Connection
<1>2. CASE \/ UpdateLimits \/ UpdateGlobalDevices
           \/ ClearGlobalDevices \/ RestoreGlobalDevices
  BY <1>2, WrapperInv
<1>3. CASE Swap
  BY <1>3, SwapInv
<1>4. CASE UNCHANGED vars
  <2>1. UNCHANGED <<limits, local, remote, entry, counter, conn, mixed, beyond,
                    carried, revived>>
    BY <1>4 DEF vars, limitedVars, unlimitedVars, startVars
  <2>2. /\ StepsAgree' /\ KindsApart' /\ CountersInRange' /\ EntriesAreUsed'
        /\ ReferencesAreHeld'
    BY <2>1, ConnectionsUnmoved DEF unlimitedVars
  <2>3. TypeOK' /\ LimitsAreCurrent'
    BY <2>1 DEF IInv, TypeOK, LimitsAreCurrent
  <2>4. LocalIsNotRemote' /\ CapHolds'
    BY <2>1, DevicesKept DEF IInv
  <2> QED
    BY <2>2, <2>3, <2>4 DEF IInv
<1> QED
  BY <1>1, <1>2, <1>3, <1>4 DEF Next

\* The inductive invariant holds in every state.
THEOREM Invariance == Spec => []IInv
  BY InitInv, NextInv, PTL DEF Spec

\* The types: counters stay within a range that the number of connections
\* bounds, although nothing in the code bounds them.
THEOREM TypeCorrect == Spec => []TypeOK
<1>1. IInv => TypeOK
  BY DEF IInv
<1> QED
  BY <1>1, Invariance, PTL

\* No connection that closed keeps its device occupied.
THEOREM DevicesConnected == Spec => []DevicesAreConnected
<1>1. IInv => DevicesAreConnected
  <2> SUFFICES ASSUME IInv, ~mixed, NEW u \in Users
               PROVE  /\ \A ip \in IPs :
                            local[u][ip] = Cardinality({c \in OfKind(u, TRUE) :
                                              Counted(c) /\ conn[c].ip = ip})
                      /\ \A ip \in AliveIPs(u) :
                            \E c \in InFlight(u) : conn[c].tcp /\ conn[c].ip = ip
    BY DEF DevicesAreConnected
  <2>1. \A ip \in IPs : local[u][ip] = Cardinality(Limited(u, ip))
    BY DEF IInv, ReferencesAreHeld
  <2>2. ASSUME NEW ip \in LocalIPs(u)
        PROVE  \E c \in InFlight(u) : conn[c].tcp /\ conn[c].ip = ip
    <3>1. ip \in IPs /\ local[u][ip] > 0
      BY DEF LocalIPs
    <3>2. Limited(u, ip) # {}
      BY <2>1, <3>1, FS_EmptySet
    <3> QED
      BY <3>2 DEF Limited, OfKind
  <2>3. ASSUME NEW ip \in IPs, counter[u][ip] > 0
        PROVE  \E c \in InFlight(u) : conn[c].tcp /\ conn[c].ip = ip
    <3>1. counter[u][ip] # Absent
      BY <2>3, AbsentBound
    <3> QED
      BY <3>1, PresentIsBacked DEF IInv, OfKind
  <2> QED
    BY <2>1, <2>2, <2>3 DEF Limited, AliveIPs
<1> QED
  BY <1>1, Invariance, PTL

\* No entry and no counter outlives its connections.
THEOREM CountersDoNotLeak == Spec => []NoCounterLeaks
<1>1. IInv => NoCounterLeaks
  <2> SUFFICES ASSUME IInv, ~mixed, NEW u \in Users
               PROVE  /\ entry[u] => OfKind(u, FALSE) # {}
                      /\ \A ip \in IPs : counter[u][ip] # Absent =>
                            \E c \in OfKind(u, FALSE) : conn[c].ip = ip
    BY DEF NoCounterLeaks
  <2>1. entry[u] => OfKind(u, FALSE) # {}
    BY DEF IInv, EntriesAreUsed
  <2>2. ASSUME NEW ip \in IPs, counter[u][ip] # Absent
        PROVE  \E c \in OfKind(u, FALSE) : conn[c].ip = ip
    BY <2>2, PresentIsBacked DEF IInv
  <2> QED
    BY <2>1, <2>2
<1> QED
  BY <1>1, Invariance, PTL

\* No address is counted twice, as local and as remote, but for what a Start
\* restored after the swap while it was already local again.
THEOREM LocalNotRemote == Spec => []LocalIsNotRemote
<1>1. IInv => LocalIsNotRemote
  BY DEF IInv
<1> QED
  BY <1>1, Invariance, PTL

\* Goroutines that race for the last free device do not get it together.
THEOREM CapIsHeld == Spec => []CapHolds
<1>1. IInv => CapHolds
  BY DEF IInv
<1> QED
  BY <1>1, Invariance, PTL

\* A connection is not refused while another one from its address is open.
THEOREM ExistingAllowed == Spec => ExistingStaysAllowed
<1>1. IInv /\ [Next]_vars =>
        [\A c \in Conns : ~mixed /\ Refuse(c) =>
            \A k \in OfKind(conn[c].user, TRUE) \ {c} :
                ~(At(k, "open") /\ conn[k].ip = conn[c].ip)]_vars
  <2> SUFFICES ASSUME IInv, NEW c \in Conns, ~mixed, Refuse(c),
                      NEW k \in OfKind(conn[c].user, TRUE) \ {c},
                      conn[k].at = "open", conn[k].ip = conn[c].ip
               PROVE  FALSE
    BY DEF At
  <2>1. /\ TypeOK /\ conn[c].at = "slow"
        /\ conn[c].ip \notin LocalIPs(conn[c].user)
    BY DEF IInv, Refuse, At, Admissible
  <2>2. conn[c].user \in Users /\ conn[c].ip \in IPs
    BY <2>1, ConnType
  <2>3. local[conn[c].user][conn[c].ip] = Cardinality(Limited(conn[c].user, conn[c].ip))
    BY <2>2 DEF IInv, ReferencesAreHeld
  <2>4. k \in Limited(conn[c].user, conn[c].ip)
    BY DEF Limited, Counted
  <2>5. Limited(conn[c].user, conn[c].ip) \in SUBSET Conns
    BY DEF Limited, OfKind, InFlight
  <2>6. /\ Cardinality(Limited(conn[c].user, conn[c].ip)) \in Nat
        /\ Cardinality(Limited(conn[c].user, conn[c].ip)) # 0
    BY <2>4, <2>5, ConnsBound
  <2>7. local[conn[c].user][conn[c].ip] > 0
    BY <2>3, <2>6
  <2> QED
    BY <2>1, <2>2, <2>7 DEF LocalIPs
<1> QED
  BY <1>1, Invariance, PTL DEF Spec, ExistingStaysAllowed
=============================================================================
