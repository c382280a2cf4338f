------------------------- MODULE OrchestratorProofs -------------------------
(***************************************************************************)
(* A machine never leaves a node service running that nothing stops, for   *)
(* any number of nodes, of overlapping discoveries and of service runs.    *)
(***************************************************************************)
EXTENDS Orchestrator, TLAPS

USE DEF Threads, MaybeInstance

\* A goroutine between startNode's first critical section and the go
\* statement has an instance of its own that has not been started.
Starting(t) == pc[t] \in {"box", "launch"}

StartsOwnInstance ==
    \A t \in Threads : Starting(t) =>
        /\ service[cur[t]].phase = "made"
        /\ \A u \in Threads \ {t} : Starting(u) => cur[u] # cur[t]

\* The inductive invariant.
OInv == TypeOK /\ OneServicePerNode /\ StartsOwnInstance

LEMMA CurIsInstance ==
    ASSUME TypeOK, NEW t \in Threads,
           pc[t] \in {"unbox", "wait", "box", "launch"}
    PROVE  cur[t] \in Instances
BY DEF TypeOK

LEMMA HandleIsNotNone ==
    ASSUME NEW i \in Instances
    PROVE  i # None
BY OrchestratorAssumption

\* Initially nothing runs.
LEMMA OInitially == Init => OInv
<1> SUFFICES ASSUME Init PROVE OInv
    OBVIOUS
<1>1. TypeOK
    <2>1. service \in [Instances -> [node : Nodes, phase : Phases,
                                     cancelled : BOOLEAN]]
        BY DEF Init, Phases
    <2>2. \A t \in Threads : pc[t] \in {"boot", "idle"} /\ cur[t] = None
        BY DEF Init
    <2>3. budget \in [changes : 0..MaxChanges, faults : 0..MaxFaults]
        BY OrchestratorAssumption DEF Init
    <2> QED BY <2>1, <2>2, <2>3 DEF Init, TypeOK
<1>2. OneServicePerNode
    BY DEF Init, OneServicePerNode, Live
<1>3. StartsOwnInstance
    BY DEF Init, StartsOwnInstance, Starting
<1> QED BY <1>1, <1>2, <1>3 DEF OInv

\* Steps that touch neither a map of handles, an instance nor a goroutine
\* that holds one.
LEMMA OtherStep ==
    ASSUME OInv, TypeOK', UNCHANGED <<handles, service>>,
           \A t \in Threads : \/ pc'[t] = pc[t] /\ cur'[t] = cur[t]
                              \/ /\ pc[t] \notin {"unbox", "wait"}
                                 /\ ~Starting(t)
                                 /\ ~Starting(t)'
    PROVE  OInv'
<1>1. OneServicePerNode'
    BY DEF OInv, OneServicePerNode, Live, BeingStopped
<1>2. StartsOwnInstance'
    BY DEF OInv, StartsOwnInstance, Starting
<1> QED BY <1>1, <1>2 DEF OInv

-----------------------------------------------------------------------------
LEMMA EnvironmentStep ==
    ASSUME OInv, ChangeNodes \/ CancelRun \/ Boot \/ BootFails
    PROVE  OInv'
<1>1. TypeOK'
  <2>1. CASE ChangeNodes
    BY <2>1, OrchestratorAssumption
       DEF OInv, TypeOK, ChangeNodes, maps, threadVars
  <2>2. CASE CancelRun
    BY <2>2 DEF OInv, TypeOK, CancelRun, maps, threadVars
  <2>3. CASE Boot
    BY <2>3, SMTT(30) DEF OInv, TypeOK, Boot, maps, Goto
  <2>4. CASE BootFails
    BY <2>4, OrchestratorAssumption, SMTT(30)
       DEF OInv, TypeOK, BootFails, FaultHappens, maps, Goto
  <2> QED BY <2>1, <2>2, <2>3, <2>4
<1>2. /\ UNCHANGED <<handles, service, cur>>
      /\ \A t \in Threads : \/ pc'[t] = pc[t]
                            \/ /\ pc[t] = "boot"
                               /\ pc'[t] \in {"start", "returned"}
  BY DEF ChangeNodes, CancelRun, Boot, BootFails, maps, threadVars, Goto,
         OInv, TypeOK
<1> QED BY <1>1, <1>2, OtherStep DEF Starting

LEMMA DiscoveryStep ==
    ASSUME OInv, NEW t \in Threads,
           \/ Rediscover(t) \/ RediscoverFails(t) \/ Compare(t)
           \/ RemovalsDone(t) \/ StartsDone(t)
           \/ \E n \in Nodes : AlreadyRunning(t, n)
    PROVE  OInv'
<1>1. TypeOK'
  <2>1. CASE Rediscover(t)
    BY <2>1, SMTT(30) DEF OInv, TypeOK, Rediscover, maps, Goto
  <2>2. CASE RediscoverFails(t)
    BY <2>2, OrchestratorAssumption, SMTT(30)
       DEF OInv, TypeOK, RediscoverFails, FaultHappens, maps, Goto
  <2>3. CASE Compare(t)
    <3>1. todo' \in [Threads -> SUBSET Nodes]
      BY <2>3 DEF OInv, TypeOK, Compare
    <3> QED BY <2>3, <3>1, SMTT(30) DEF OInv, TypeOK, Compare, maps, Goto
  <2>4. CASE RemovalsDone(t)
    BY <2>4, SMTT(30) DEF OInv, TypeOK, RemovalsDone, maps, Goto
  <2>5. CASE StartsDone(t)
    BY <2>5, SMTT(30) DEF OInv, TypeOK, StartsDone, maps, Goto
  <2>6. CASE \E n \in Nodes : AlreadyRunning(t, n)
    BY <2>6, SMTT(30) DEF OInv, TypeOK, AlreadyRunning, maps
  <2> QED BY <2>1, <2>2, <2>3, <2>4, <2>5, <2>6
<1>2. /\ UNCHANGED <<handles, service, cur>>
      /\ \A u \in Threads : \/ pc'[u] = pc[u]
                            \/ /\ pc[u] \in {"idle", "compare", "remove",
                                             "start"}
                               /\ pc'[u] \in {"idle", "compare", "remove",
                                              "start"}
  BY DEF Rediscover, RediscoverFails, Compare, RemovalsDone, StartsDone,
         AlreadyRunning, maps, threadVars, Goto, OInv, TypeOK
<1> QED BY <1>1, <1>2, OtherStep DEF Starting

-----------------------------------------------------------------------------
\* The handle stopNode takes stays in its hands.
LEMMA TakeHandleStep ==
    ASSUME OInv, NEW t \in Threads, NEW n \in Nodes, TakeHandle(t, n)
    PROVE  OInv'
<1> USE DEF OInv
<1>1. TypeOK'
  <2>1. CASE handles[n] = None
    BY <2>1, SMTT(30) DEF TypeOK, TakeHandle, maps
  <2>2. CASE handles[n] # None
    BY <2>2, SMTT(30) DEF TypeOK, TakeHandle, maps, Goto
  <2> QED BY <2>1, <2>2
<1>2. OneServicePerNode'
  <2> SUFFICES ASSUME NEW i \in Instances, Live(i)'
               PROVE  handles'[service'[i].node] = i \/ BeingStopped(i)'
    BY DEF OneServicePerNode
  <2>1. service' = service /\ service[i].node \in Nodes
    BY DEF TakeHandle, TypeOK
  <2>2. CASE BeingStopped(i)
    <3>1. PICK u \in Threads : cur[u] = i /\ pc[u] \in {"unbox", "wait"}
      BY <2>2 DEF BeingStopped
    <3>2. u # t
      BY <3>1 DEF TakeHandle
    <3>3. cur'[u] = i /\ pc'[u] = pc[u]
      BY <3>1, <3>2 DEF TakeHandle, Goto, TypeOK
    <3> QED BY <3>1, <3>3 DEF BeingStopped
  <2>3. CASE handles[service[i].node] = i
    <3>1. CASE service[i].node = n
      <4>1. cur'[t] = i /\ pc'[t] = "unbox"
        BY <2>3, <3>1, HandleIsNotNone DEF TakeHandle, Goto, TypeOK
      <4> QED BY <4>1 DEF BeingStopped
    <3>2. CASE service[i].node # n
      BY <2>1, <2>3, <3>2 DEF TakeHandle, TypeOK
    <3> QED BY <3>1, <3>2
  <2> QED BY <2>1, <2>2, <2>3 DEF OneServicePerNode, Live
<1>3. StartsOwnInstance'
  BY DEF TakeHandle, Goto, TypeOK, StartsOwnInstance, Starting
<1> QED BY <1>1, <1>2, <1>3

\* stopNode cancels a service and leaves it where it is.
LEMMA CancelKeepsPhases ==
    ASSUME TypeOK, NEW t \in Threads, StopNode(t)
    PROVE  \A i \in Instances : /\ service'[i].phase = service[i].phase
                                /\ service'[i].node = service[i].node
<1> SUFFICES ASSUME NEW i \in Instances
             PROVE  /\ service'[i].phase = service[i].phase
                    /\ service'[i].node = service[i].node
  OBVIOUS
<1>1. service' = [service EXCEPT ![cur[t]].cancelled = TRUE]
  BY DEF StopNode
<1>2. service[i] \in [node : Nodes, phase : Phases, cancelled : BOOLEAN]
  BY DEF TypeOK
<1>3. service'[i] = IF i = cur[t]
                    THEN [service[i] EXCEPT !.cancelled = TRUE]
                    ELSE service[i]
  BY <1>1 DEF TypeOK
<1> QED BY <1>2, <1>3

\* Cancelling, and waiting for the end, keep the service in stopNode's hands
\* until it has ended.
LEMMA StopNodeStep ==
    ASSUME OInv, NEW t \in Threads, StopNode(t)
    PROVE  OInv'
<1> USE DEF OInv
<1>0. cur[t] \in Instances /\ service[cur[t]].node \in Nodes
  BY CurIsInstance DEF StopNode, TypeOK
<1>1. TypeOK'
  <2>1. service' = [service EXCEPT ![cur[t]] =
                        [service[cur[t]] EXCEPT !.cancelled = TRUE]]
    BY DEF StopNode
  <2>2. [service[cur[t]] EXCEPT !.cancelled = TRUE]
            \in [node : Nodes, phase : Phases, cancelled : BOOLEAN]
    <3>1. service[cur[t]]
            \in [node : Nodes, phase : Phases, cancelled : BOOLEAN]
      BY <1>0 DEF TypeOK
    <3> QED BY <3>1
  <2>3. service' \in [Instances -> [node : Nodes, phase : Phases,
                                    cancelled : BOOLEAN]]
    BY <1>0, <2>1, <2>2 DEF TypeOK
  <2>4. mailboxes' \in [Nodes -> MaybeInstance]
    BY <1>0 DEF TypeOK, StopNode
  <2> QED BY <2>3, <2>4, SMTT(30) DEF TypeOK, StopNode, Goto
<1>2. \A i \in Instances : /\ service'[i].phase = service[i].phase
                           /\ service'[i].node = service[i].node
  BY CancelKeepsPhases
<1>3. OneServicePerNode'
  BY <1>2 DEF OneServicePerNode, Live, BeingStopped, StopNode, Goto, TypeOK
<1>4. StartsOwnInstance'
  <2> SUFFICES ASSUME NEW u \in Threads, Starting(u)'
               PROVE  /\ service'[cur'[u]].phase = "made"
                      /\ \A v \in Threads \ {u} :
                            Starting(v)' => cur'[v] # cur'[u]
    BY DEF StartsOwnInstance
  <2>1. \A v \in Threads : Starting(v)' => Starting(v)
    BY DEF StopNode, Goto, Starting, TypeOK
  <2>2. cur[u] \in Instances
    BY <2>1, CurIsInstance DEF Starting
  <2> QED BY <1>2, <2>1, <2>2 DEF StartsOwnInstance, StopNode
<1> QED BY <1>1, <1>3, <1>4

LEMMA StoppedStep ==
    ASSUME OInv, NEW t \in Threads, Stopped(t)
    PROVE  OInv'
<1> USE DEF OInv
<1>1. TypeOK'
  BY SMTT(30) DEF TypeOK, Stopped, Goto, maps
<1>2. OneServicePerNode'
  <2> SUFFICES ASSUME NEW i \in Instances, Live(i)'
               PROVE  handles'[service'[i].node] = i \/ BeingStopped(i)'
    BY DEF OneServicePerNode
  <2>1. Live(i) /\ cur[t] # i
    BY DEF Stopped, Live
  <2>2. CASE BeingStopped(i)
    <3>1. PICK u \in Threads : cur[u] = i /\ pc[u] \in {"unbox", "wait"}
      BY <2>2 DEF BeingStopped
    <3>2. cur'[u] = i /\ pc'[u] = pc[u]
      BY <2>1, <3>1 DEF Stopped, Goto, TypeOK
    <3> QED BY <3>1, <3>2 DEF BeingStopped
  <2> QED BY <2>1, <2>2 DEF OneServicePerNode, Stopped, maps
<1>3. StartsOwnInstance'
  BY DEF Stopped, Goto, TypeOK, StartsOwnInstance, Starting
<1> QED BY <1>1, <1>2, <1>3

-----------------------------------------------------------------------------
\* The new instance is in the handle, and nobody else's.
LEMMA StartNodeStep ==
    ASSUME OInv, NEW t \in Threads, NEW n \in Nodes, StartNode(t, n)
    PROVE  OInv'
<1> USE DEF OInv
<1> DEFINE i == CHOOSE j \in Instances : Free(j)
<1>1. i \in Instances /\ Free(i)
  BY DEF StartNode
<1>2. /\ handles' = [handles EXCEPT ![n] = i]
      /\ service' = [service EXCEPT
              ![i] = [node |-> n, phase |-> "made", cancelled |-> FALSE]]
      /\ svc' = [svc EXCEPT ![i] = None]
      /\ cur' = [cur EXCEPT ![t] = i]
      /\ pc' = [pc EXCEPT ![t] = "box"]
      /\ todo' = [todo EXCEPT ![t] = @ \ {n}]
      /\ pc[t] = "start" /\ handles[n] = None
      /\ UNCHANGED <<panelNodes, ws, ctxDone, mailboxes, statuses, wanted,
                     draining, overlapped, budget>>
  BY DEF StartNode, Goto
<1> HIDE DEF i
<1>3. TypeOK'
  <2>1. service' \in [Instances -> [node : Nodes, phase : Phases,
                                    cancelled : BOOLEAN]]
    BY <1>1, <1>2 DEF TypeOK, Phases
  <2>2. \A u \in Threads :
          pc'[u] \in {"unbox", "wait", "box", "launch"} <=> cur'[u] # None
    BY <1>1, <1>2, HandleIsNotNone DEF TypeOK
  <2> QED BY <1>1, <1>2, <2>1, <2>2, SMTT(30) DEF TypeOK
<1>4. OneServicePerNode'
  <2> SUFFICES ASSUME NEW j \in Instances, Live(j)'
               PROVE  handles'[service'[j].node] = j \/ BeingStopped(j)'
    BY DEF OneServicePerNode
  <2>1. CASE j = i
    BY <1>1, <1>2, <2>1 DEF TypeOK
  <2>2. CASE j # i
    <3>1. service'[j] = service[j] /\ Live(j) /\ service[j].node \in Nodes
      BY <1>1, <1>2, <2>2 DEF TypeOK, Live
    <3>2. CASE handles[service[j].node] = j
      BY <1>2, <3>1, <3>2, HandleIsNotNone DEF TypeOK
    <3>3. CASE BeingStopped(j)
      <4>1. PICK u \in Threads : cur[u] = j /\ pc[u] \in {"unbox", "wait"}
        BY <3>3 DEF BeingStopped
      <4>2. cur'[u] = j /\ pc'[u] = pc[u]
        BY <1>2, <4>1 DEF TypeOK
      <4> QED BY <4>1, <4>2 DEF BeingStopped
    <3> QED BY <3>1, <3>2, <3>3 DEF OneServicePerNode
  <2> QED BY <2>1, <2>2
<1>5. StartsOwnInstance'
  <2>1. \A u \in Threads : u # t =>
            cur'[u] = cur[u] /\ pc'[u] = pc[u] /\ cur[u] # i
    BY <1>1, <1>2 DEF Free, TypeOK
  <2>2. cur'[t] = i /\ service'[i].phase = "made"
    BY <1>1, <1>2 DEF TypeOK
  <2>3. \A j \in Instances \ {i} : service'[j] = service[j]
    BY <1>1, <1>2 DEF TypeOK
  <2>4. \A u \in Threads : Starting(u) => cur[u] \in Instances
    BY CurIsInstance DEF Starting
  <2> QED BY <2>1, <2>2, <2>3, <2>4 DEF StartsOwnInstance, Starting
<1> QED BY <1>3, <1>4, <1>5

LEMMA AddMailboxStep ==
    ASSUME OInv, NEW t \in Threads, AddMailbox(t)
    PROVE  OInv'
<1> USE DEF OInv
<1>0. cur[t] \in Instances /\ service[cur[t]].node \in Nodes
  BY CurIsInstance DEF AddMailbox, TypeOK
<1>1. TypeOK'
  BY <1>0, SMTT(30) DEF TypeOK, AddMailbox, Goto
<1>2. OneServicePerNode'
  BY DEF OneServicePerNode, Live, BeingStopped, AddMailbox, Goto, TypeOK
<1>3. StartsOwnInstance'
  BY DEF StartsOwnInstance, Starting, AddMailbox, Goto, TypeOK
<1> QED BY <1>1, <1>2, <1>3

\* Run is started for an instance that was handled or is waited for already.
LEMMA LaunchStep ==
    ASSUME OInv, NEW t \in Threads, Launch(t)
    PROVE  OInv'
<1> USE DEF OInv
<1>0. /\ cur[t] \in Instances /\ service[cur[t]].node \in Nodes
      /\ service[cur[t]].phase = "made"
  BY CurIsInstance DEF Launch, TypeOK, StartsOwnInstance, Starting
<1>1. /\ service' = [service EXCEPT ![cur[t]].phase = "running"]
      /\ cur' = [cur EXCEPT ![t] = None]
      /\ pc' = [pc EXCEPT ![t] = "start"]
      /\ pc[t] = "launch"
      /\ UNCHANGED <<panelNodes, ws, ctxDone, maps, wanted, todo, draining,
                     overlapped, budget>>
  BY DEF Launch, Goto
<1>2. TypeOK'
  <2>1. svc' \in [Instances -> MaybeInstance]
    BY <1>0 DEF Launch, TypeOK
  <2>2. service' \in [Instances -> [node : Nodes, phase : Phases,
                                    cancelled : BOOLEAN]]
    BY <1>0, <1>1 DEF TypeOK, Phases
  <2> QED BY <1>1, <2>1, <2>2, SMTT(30) DEF TypeOK, maps
<1>3. OneServicePerNode'
  <2> SUFFICES ASSUME NEW i \in Instances, Live(i)'
               PROVE  handles'[service'[i].node] = i \/ BeingStopped(i)'
    BY DEF OneServicePerNode
  <2>1. Live(i) /\ service'[i].node = service[i].node
    BY <1>0, <1>1 DEF Live, TypeOK
  <2>2. CASE BeingStopped(i)
    <3>1. PICK u \in Threads : cur[u] = i /\ pc[u] \in {"unbox", "wait"}
      BY <2>2 DEF BeingStopped
    <3>2. cur'[u] = i /\ pc'[u] = pc[u]
      BY <1>1, <3>1 DEF TypeOK
    <3> QED BY <3>1, <3>2 DEF BeingStopped
  <2> QED BY <1>1, <2>1, <2>2 DEF OneServicePerNode, maps
<1>4. StartsOwnInstance'
  <2>1. \A u \in Threads : u # t => cur'[u] = cur[u] /\ pc'[u] = pc[u]
    BY <1>1 DEF TypeOK
  <2>2. \A u \in Threads \ {t} : Starting(u) =>
            /\ cur[u] # cur[t] /\ cur[u] \in Instances
            /\ service'[cur[u]].phase = service[cur[u]].phase
    <3> SUFFICES ASSUME NEW u \in Threads \ {t}, Starting(u)
                 PROVE  /\ cur[u] # cur[t] /\ cur[u] \in Instances
                        /\ service'[cur[u]].phase = service[cur[u]].phase
      OBVIOUS
    <3>1. cur[u] \in Instances
      BY CurIsInstance DEF Starting
    <3>2. cur[u] # cur[t]
      BY <1>1 DEF StartsOwnInstance, Starting
    <3> QED BY <1>0, <1>1, <3>1, <3>2 DEF TypeOK
  <2>3. ~Starting(t)'
    BY <1>1 DEF Starting, TypeOK
  <2> QED BY <2>1, <2>2, <2>3 DEF StartsOwnInstance, Starting
<1> QED BY <1>2, <1>3, <1>4

-----------------------------------------------------------------------------
\* A service that registers stays whose it was; one that ends is not live.
LEMMA ServiceStep ==
    ASSUME OInv, NEW i \in Instances,
           Register(i) \/ Exit(i) \/ ExitWithError(i)
    PROVE  OInv'
<1> USE DEF OInv
<1>1. /\ service[i].phase \in {"running", "serving"}
      /\ service[i].node \in Nodes
      /\ UNCHANGED <<handles, pc, cur>>
      /\ \/ service' = [service EXCEPT ![i].phase = "serving"]
         \/ service' = [service EXCEPT ![i].phase = "done"]
  BY DEF Register, Exit, ExitWithError, Ended, threadVars, TypeOK
<1>2. TypeOK'
  <2>1. service' \in [Instances -> [node : Nodes, phase : Phases,
                                    cancelled : BOOLEAN]]
    BY <1>1 DEF TypeOK, Phases
  <2>2. CASE Register(i)
    BY <1>1, <2>1, <2>2 DEF TypeOK, Register, threadVars
  <2>3. CASE Exit(i)
    BY <1>1, <2>1, <2>3 DEF TypeOK, Exit, Ended, threadVars
  <2>4. CASE ExitWithError(i)
    <3>1. budget' \in [changes : 0..MaxChanges, faults : 0..MaxFaults]
      BY <2>4, OrchestratorAssumption DEF TypeOK, ExitWithError, FaultHappens
    <3> QED BY <1>1, <2>1, <2>4, <3>1
            DEF TypeOK, ExitWithError, Ended, threadVars
  <2> QED BY <2>2, <2>3, <2>4
<1>3. \A j \in Instances : /\ service'[j].node = service[j].node
                           /\ Live(j)' => Live(j)
                           /\ j # i => service'[j] = service[j]
  BY <1>1 DEF Live, TypeOK
<1>4. OneServicePerNode'
  BY <1>1, <1>3 DEF OneServicePerNode, BeingStopped
<1>5. StartsOwnInstance'
  <2>1. \A t \in Threads : Starting(t) => cur[t] \in Instances
    BY CurIsInstance DEF Starting
  <2> QED BY <1>1, <1>3, <2>1 DEF StartsOwnInstance, Starting
<1> QED BY <1>2, <1>4, <1>5

LEMMA ShutdownStep ==
    ASSUME OInv, StopAll \/ Drained
    PROVE  OInv'
<1> USE DEF OInv
<1>1. /\ UNCHANGED <<handles, cur>>
      /\ pc[main] \in {"idle", "drain"}
      /\ \/ pc' = [pc EXCEPT ![main] = "drain"]
         \/ pc' = [pc EXCEPT ![main] = "returned"]
  BY DEF StopAll, Drained, Goto, maps
<1>2. /\ service' \in [Instances -> [node : Nodes, phase : Phases,
                                     cancelled : BOOLEAN]]
      /\ \A i \in Instances : /\ service'[i].phase = service[i].phase
                              /\ service'[i].node = service[i].node
  <2>1. CASE StopAll
    <3>1. service' = [i \in Instances |->
                [service[i] EXCEPT !.cancelled = @ \/ i \in draining']]
      BY <2>1 DEF StopAll
    <3> DEFINE after(i) ==
                [service[i] EXCEPT !.cancelled = @ \/ i \in draining']
    <3>2. ASSUME NEW i \in Instances
          PROVE  /\ after(i) \in [node : Nodes, phase : Phases,
                                  cancelled : BOOLEAN]
                 /\ after(i).phase = service[i].phase
                 /\ after(i).node = service[i].node
      <4>1. service[i] \in [node : Nodes, phase : Phases,
                            cancelled : BOOLEAN]
        BY DEF TypeOK
      <4> QED BY <4>1, Zenon
    <3>3. \A i \in Instances : service'[i] = after(i)
      BY <3>1
    <3>4. service' = [i \in Instances |-> after(i)]
      BY <3>1
    <3> HIDE DEF after
    <3> QED BY <3>2, <3>3, <3>4
  <2>2. CASE Drained
    BY <2>2 DEF Drained, TypeOK
  <2> QED BY <2>1, <2>2
<1>3. TypeOK'
  <2>1. draining' \in SUBSET Instances
    BY DEF StopAll, Drained, TypeOK
  <2> QED BY <1>1, <1>2, <2>1, SMTT(30) DEF TypeOK, StopAll, Drained, maps
<1>4. OneServicePerNode'
  BY <1>1, <1>2 DEF OneServicePerNode, Live, BeingStopped, TypeOK
<1>5. StartsOwnInstance'
  <2>1. \A t \in Threads : Starting(t) => cur[t] \in Instances
    BY CurIsInstance DEF Starting
  <2>2. \A t \in Threads : Starting(t)' <=> Starting(t)
    BY <1>1 DEF Starting, TypeOK
  <2> QED BY <1>1, <1>2, <2>1, <2>2 DEF StartsOwnInstance
<1> QED BY <1>3, <1>4, <1>5

-----------------------------------------------------------------------------
LEMMA OInvInductive == OInv /\ [Next]_vars => OInv'
<1> SUFFICES ASSUME OInv, [Next]_vars PROVE OInv'
    OBVIOUS
<1>1. CASE ChangeNodes \/ CancelRun \/ Boot \/ BootFails
    BY <1>1, EnvironmentStep
<1>2. CASE StopAll \/ Drained
    BY <1>2, ShutdownStep
<1>3. CASE \E t \in Threads : Rediscover(t) \/ RediscoverFails(t)
                                \/ ThreadStep(t)
    <2>1. PICK t \in Threads : Rediscover(t) \/ RediscoverFails(t)
                                 \/ ThreadStep(t)
        BY <1>3
    <2>2. CASE \/ Rediscover(t) \/ RediscoverFails(t) \/ Compare(t)
               \/ RemovalsDone(t) \/ StartsDone(t)
        BY <2>2, DiscoveryStep
    <2>3. CASE \E n \in Nodes : TakeHandle(t, n) \/ StartNode(t, n)
                                  \/ AlreadyRunning(t, n)
        BY <2>3, TakeHandleStep, StartNodeStep, DiscoveryStep
    <2>4. CASE StopNode(t) \/ Stopped(t) \/ AddMailbox(t) \/ Launch(t)
        BY <2>4, StopNodeStep, StoppedStep, AddMailboxStep, LaunchStep
    <2> QED BY <2>1, <2>2, <2>3, <2>4 DEF ThreadStep
<1>4. CASE \E i \in Instances : Register(i) \/ Exit(i) \/ ExitWithError(i)
    BY <1>4, ServiceStep
<1>5. CASE UNCHANGED vars
    BY <1>5 DEF vars, maps, threadVars, OInv, TypeOK, OneServicePerNode,
                StartsOwnInstance, Starting, Live, BeingStopped
<1> QED BY <1>1, <1>2, <1>3, <1>4, <1>5 DEF Next

\* The maps, the services and the goroutines of a machine keep their types; a
\* goroutine has an instance in its hands exactly between the steps of
\* startNode and stopNode that work on it.
THEOREM OrchestratorTypeCorrect == Spec => []TypeOK
<1>1. OInv => TypeOK
    BY DEF OInv
<1> QED BY <1>1, OInitially, OInvInductive, PTL DEF Spec

\* Whatever discoveries overlap and however stale their answers are, a live
\* service is its node's or is being stopped.
THEOREM MachineHasOneServicePerNode == Spec => []OneServicePerNode
<1>1. OInv => OneServicePerNode
    BY DEF OInv
<1> QED BY <1>1, OInitially, OInvInductive, PTL DEF Spec

-----------------------------------------------------------------------------
(* Events reach the service that runs a node, unless discoveries overlap.  *)

\* A goroutine between the start of a discovery and its end.
Discovering(t) == pc[t] \notin {"boot", "idle", "drain", "returned"}

\* Nothing happens before the first discovery.
BootIsFirst ==
    pc[main] = "boot" =>
        /\ ~ws
        /\ \A t \in Syncs : pc[t] = "idle"
        /\ \A i \in Instances : service[i].phase = "free"

\* Unless two discoveries overlapped, one goroutine at a time works on the
\* maps: the node it stops has no handle, and the node it starts has the new
\* instance in its handle and, from AddMailbox on, in its mailbox.
OneDiscovery ==
    \A t, u \in Threads : Discovering(t) /\ Discovering(u) => t = u
StoppedHasNoHandle ==
    \A t \in Threads : pc[t] \in {"unbox", "wait"} =>
        handles[service[cur[t]].node] = None
StartedIsHandled ==
    \A t \in Threads : Starting(t) =>
        /\ handles[service[cur[t]].node] = cur[t]
        /\ pc[t] = "launch" => mailboxes[service[cur[t]].node] = cur[t]

\* A running service with its node's handle has the mailbox, and once it
\* serves the place in statuses.
EventsReach ==
    \A i \in Instances :
        handles[service[i].node] = i =>
            /\ service[i].phase \in {"running", "serving"} =>
                  mailboxes[service[i].node] = i
            /\ service[i].phase = "serving" /\ ws =>
                  statuses[service[i].node] = i

InOrder ==
    /\ OneDiscovery /\ StoppedHasNoHandle /\ StartedIsHandled /\ EventsReach

\* A handle is that of the node its instance was made for.
HandlesAgree ==
    \A n \in Nodes : handles[n] # None => service[handles[n]].node = n

EInv == BootIsFirst /\ HandlesAgree /\ (~overlapped => InOrder)

\* An action that leaves the maps and the phases of the services alone, and
\* puts no instance into a goroutine's hands.
Quiet ==
    /\ UNCHANGED <<handles, mailboxes, statuses>>
    /\ \A i \in Instances : /\ service'[i].phase = service[i].phase
                            /\ service'[i].node = service[i].node
    /\ \A t \in Threads :
          \/ pc'[t] = pc[t] /\ cur'[t] = cur[t]
          \/ pc'[t] \notin {"unbox", "wait", "box", "launch"}

\* Initially the machine has not booted.
LEMMA EInitially == Init => EInv
<1> SUFFICES ASSUME Init PROVE EInv
    OBVIOUS
<1>1. main \notin Syncs
    BY OrchestratorAssumption
<1>2. \A t \in Threads : pc[t] = IF t = main THEN "boot" ELSE "idle"
    BY DEF Init
<1>3. BootIsFirst
    BY <1>1, <1>2 DEF Init, BootIsFirst
<1>5. HandlesAgree
    BY DEF Init, HandlesAgree
<1>4. InOrder
    BY <1>2 DEF Init, InOrder, OneDiscovery, Discovering, StoppedHasNoHandle,
                StartedIsHandled, Starting, EventsReach
<1> QED BY <1>3, <1>4, <1>5 DEF EInv

\* What a quiet action has to show besides.
LEMMA QuietStep ==
    ASSUME OInv, EInv, Quiet, BootIsFirst',
           ~overlapped' => ~overlapped /\ OneDiscovery',
           ~overlapped' => (ws' => ws \/ \A i \in Instances :
                                            service[i].phase # "serving")
    PROVE  EInv'
<1>0. HandlesAgree'
    BY DEF EInv, HandlesAgree, Quiet, OInv, TypeOK
<1> SUFFICES ASSUME ~overlapped' PROVE InOrder'
    BY <1>0 DEF EInv
<1>1. InOrder
    BY DEF EInv
<1>2. ASSUME NEW t \in Threads,
             pc'[t] \in {"unbox", "wait", "box", "launch"}
      PROVE  /\ pc[t] = pc'[t] /\ cur[t] = cur'[t] /\ cur[t] \in Instances
             /\ service'[cur[t]].node = service[cur[t]].node
    BY <1>2, CurIsInstance DEF Quiet, OInv
<1>3. StoppedHasNoHandle'
    BY <1>1, <1>2 DEF InOrder, StoppedHasNoHandle, Quiet
<1>4. StartedIsHandled'
    BY <1>1, <1>2 DEF InOrder, StartedIsHandled, Starting, Quiet
<1>5. EventsReach'
    BY <1>1 DEF InOrder, EventsReach, Quiet
<1> QED BY <1>3, <1>4, <1>5 DEF InOrder

\* The environment, and the first discovery.
LEMMA EnvironmentEvents ==
    ASSUME OInv, EInv, ChangeNodes \/ CancelRun \/ Boot \/ BootFails
    PROVE  EInv'
<1>1. Quiet
    BY DEF Quiet, ChangeNodes, CancelRun, Boot, BootFails, maps, threadVars,
           Goto, OInv, TypeOK
<1>2. \/ UNCHANGED <<ws, service, pc>>
      \/ /\ pc[main] = "boot"
         /\ pc' = [pc EXCEPT ![main] = "start"]
         /\ UNCHANGED service
      \/ /\ pc[main] = "boot"
         /\ pc' = [pc EXCEPT ![main] = "returned"]
         /\ UNCHANGED <<ws, service>>
    BY DEF ChangeNodes, CancelRun, Boot, BootFails, maps, threadVars, Goto
<1>3. overlapped' = overlapped
    BY DEF ChangeNodes, CancelRun, Boot, BootFails
<1>4. main \in Threads /\ pc \in [Threads -> {"boot", "idle", "compare",
            "remove", "unbox", "wait", "start", "box", "launch", "drain",
            "returned"}]
    BY DEF OInv, TypeOK
<1>5. BootIsFirst'
    BY <1>2, <1>4 DEF EInv, BootIsFirst
<1>6. ~overlapped' => OneDiscovery'
    <2>1. CASE UNCHANGED pc
        BY <1>3, <2>1 DEF EInv, InOrder, OneDiscovery, Discovering
    <2>2. CASE pc[main] = "boot"
        <3>1. \A t \in Threads \ {main} : pc[t] = "idle"
            BY <2>2 DEF EInv, BootIsFirst
        <3>2. \A t \in Threads \ {main} : pc'[t] = pc[t]
            BY <1>2, <1>4
        <3> QED BY <3>1, <3>2 DEF OneDiscovery, Discovering
    <2> QED BY <1>2, <2>1, <2>2
<1>7. ws' => ws \/ \A i \in Instances : service[i].phase # "serving"
    BY <1>2 DEF EInv, BootIsFirst
<1> QED BY <1>1, <1>3, <1>5, <1>6, <1>7, QuietStep

\* A discovery begins, goes from one loop to the next, or ends.
LEMMA DiscoveryEvents ==
    ASSUME OInv, EInv, NEW t \in Threads,
           \/ Rediscover(t) \/ RediscoverFails(t) \/ Compare(t)
           \/ RemovalsDone(t) \/ StartsDone(t) \/ Stopped(t)
           \/ \E n \in Nodes : AlreadyRunning(t, n)
    PROVE  EInv'
<1>1. Quiet
    BY DEF Quiet, Rediscover, RediscoverFails, Compare, RemovalsDone,
           StartsDone, Stopped, AlreadyRunning, maps, threadVars, Goto, OInv,
           TypeOK
<1>2. UNCHANGED <<ws, service>>
    BY DEF Rediscover, RediscoverFails, Compare, RemovalsDone, StartsDone,
           Stopped, AlreadyRunning, maps
<1>3. /\ \A u \in Threads \ {t} : pc'[u] = pc[u]
      /\ pc'[t] \in {"idle", "compare", "remove", "start"}
      /\ pc[t] # "boot"
    BY DEF Rediscover, RediscoverFails, Compare, RemovalsDone, StartsDone,
           Stopped, AlreadyRunning, Goto, OInv, TypeOK
<1>4. BootIsFirst'
    <2> SUFFICES ASSUME pc'[main] = "boot"
                 PROVE  /\ ~ws'
                        /\ \A s \in Syncs : pc'[s] = "idle"
                        /\ \A i \in Instances : service'[i].phase = "free"
        BY DEF BootIsFirst
    <2>1. pc[main] = "boot" /\ t \in Syncs
        BY <1>3
    <2>2. pc[t] = "idle" /\ ~ws
        BY <2>1 DEF EInv, BootIsFirst
    <2> QED BY <2>1, <2>2 DEF Rediscover, RediscoverFails, Compare,
                RemovalsDone, StartsDone, Stopped, AlreadyRunning
<1>5. ~overlapped' => ~overlapped /\ OneDiscovery'
    <2>1. CASE Rediscover(t)
        <3>1. ~overlapped' =>
                /\ ~overlapped
                /\ \A u \in Threads \ {t} : pc[u] \in {"idle", "returned"}
            BY <2>1 DEF Rediscover
        <3> QED BY <1>3, <3>1 DEF OneDiscovery, Discovering
    <2>2. CASE ~Rediscover(t)
        <3>1. overlapped' = overlapped /\ Discovering(t)
            BY <2>2 DEF RediscoverFails, Compare, RemovalsDone, StartsDone,
                   Stopped, AlreadyRunning, Discovering
        <3> QED BY <1>3, <3>1 DEF EInv, InOrder, OneDiscovery, Discovering
    <2> QED BY <2>1, <2>2
<1> QED BY <1>1, <1>2, <1>4, <1>5, QuietStep

\* StopAll cancels services and leaves them where they are.
LEMMA StopAllKeepsPhases ==
    ASSUME OInv, StopAll
    PROVE  \A i \in Instances : /\ service'[i].phase = service[i].phase
                                /\ service'[i].node = service[i].node
<1> SUFFICES ASSUME NEW i \in Instances
             PROVE  /\ service'[i].phase = service[i].phase
                    /\ service'[i].node = service[i].node
    OBVIOUS
<1>1. service'[i] = [service[i] EXCEPT !.cancelled = @ \/ i \in draining']
    BY DEF StopAll
<1>2. service[i] \in [node : Nodes, phase : Phases, cancelled : BOOLEAN]
    BY DEF OInv, TypeOK
<1> QED BY <1>1, <1>2, Zenon

LEMMA ShutdownEvents ==
    ASSUME OInv, EInv, StopAll \/ Drained
    PROVE  EInv'
<1>1. Quiet
    <2>1. CASE StopAll
        BY <2>1, StopAllKeepsPhases
           DEF Quiet, StopAll, maps, Goto, OInv, TypeOK
    <2>2. CASE Drained
        BY <2>2 DEF Quiet, Drained, maps, Goto, OInv, TypeOK
    <2> QED BY <2>1, <2>2
<1>2. /\ UNCHANGED <<ws, overlapped>>
      /\ \A u \in Threads \ {main} : pc'[u] = pc[u]
      /\ pc'[main] \in {"drain", "returned"}
    BY DEF StopAll, Drained, Goto, OInv, TypeOK
<1>3. BootIsFirst'
    BY <1>2 DEF BootIsFirst
<1>4. ~overlapped' => OneDiscovery'
    BY <1>2 DEF EInv, InOrder, OneDiscovery, Discovering
<1> QED BY <1>1, <1>2, <1>3, <1>4, QuietStep

\* A goroutine in a discovery: the machine has booted, and unless discoveries
\* overlapped nobody else is in one.
LEMMA WorkingAlone ==
    ASSUME OInv, EInv, NEW t \in Threads, Discovering(t), Discovering(t)',
           \A u \in Threads \ {t} : pc'[u] = pc[u]
    PROVE  /\ BootIsFirst'
           /\ ~overlapped => /\ OneDiscovery'
                             /\ \A u \in Threads \ {t} : ~Discovering(u)'
<1>1. pc[main] # "boot" /\ pc'[main] # "boot"
    BY DEF EInv, BootIsFirst, Discovering
<1>2. BootIsFirst'
    BY <1>1 DEF BootIsFirst
<1>3. ASSUME ~overlapped
      PROVE  /\ OneDiscovery'
             /\ \A u \in Threads \ {t} : ~Discovering(u)'
    <2>1. \A u \in Threads \ {t} : ~Discovering(u)'
        BY <1>3 DEF EInv, InOrder, OneDiscovery, Discovering
    <2> QED BY <2>1 DEF OneDiscovery
<1> QED BY <1>2, <1>3

\* A node that is stopped has no handle any more.
LEMMA TakeHandleEvents ==
    ASSUME OInv, EInv, NEW t \in Threads, NEW n \in Nodes, TakeHandle(t, n)
    PROVE  EInv'
<1>1. /\ pc[t] = "remove" /\ pc'[t] \in {"remove", "unbox"}
      /\ \A u \in Threads \ {t} : pc'[u] = pc[u]
      /\ cur' = [cur EXCEPT ![t] = handles[n]]
      /\ handles' = [handles EXCEPT ![n] = None]
      /\ pc'[t] = "unbox" => handles[n] # None
      /\ UNCHANGED <<ws, mailboxes, statuses, service, overlapped>>
    BY DEF TakeHandle, Goto, OInv, TypeOK
<1>2. /\ BootIsFirst'
      /\ ~overlapped => /\ OneDiscovery'
                        /\ \A u \in Threads \ {t} : ~Discovering(u)'
    BY <1>1, WorkingAlone DEF Discovering
<1>7. HandlesAgree'
    BY <1>1 DEF EInv, HandlesAgree, OInv, TypeOK
<1> SUFFICES ASSUME ~overlapped PROVE InOrder'
    BY <1>1, <1>2, <1>7 DEF EInv
<1>3. \A i \in Instances : handles'[service[i].node] = i =>
                             handles[service[i].node] = i
    BY <1>1, HandleIsNotNone DEF OInv, TypeOK
<1>4. EventsReach'
    BY <1>1, <1>3 DEF EInv, InOrder, EventsReach
<1>5. StoppedHasNoHandle'
    <2> SUFFICES ASSUME pc'[t] = "unbox"
                 PROVE  handles'[service'[cur'[t]].node] = None
            BY <1>1, <1>2 DEF StoppedHasNoHandle, Discovering
    <2>1. handles[n] \in Instances /\ cur'[t] = handles[n]
        BY <1>1 DEF OInv, TypeOK
    <2>2. service[cur'[t]].node = n
        BY <2>1, HandleIsNotNone DEF EInv, HandlesAgree
    <2> QED BY <1>1, <2>2 DEF OInv, TypeOK
<1>6. StartedIsHandled'
    BY <1>1, <1>2 DEF StartedIsHandled, Starting, Discovering
<1> QED BY <1>2, <1>4, <1>5, <1>6 DEF InOrder

\* stopNode takes the mailbox of a node that has no handle.
LEMMA StopNodeEvents ==
    ASSUME OInv, EInv, NEW t \in Threads, StopNode(t)
    PROVE  EInv'
<1> DEFINE n == service[cur[t]].node
<1>0. cur[t] \in Instances /\ n \in Nodes
    BY CurIsInstance DEF StopNode, OInv, TypeOK
<1>1. /\ pc[t] = "unbox" /\ pc'[t] = "wait"
      /\ \A u \in Threads \ {t} : pc'[u] = pc[u]
      /\ mailboxes' = [mailboxes EXCEPT ![n] = None]
      /\ UNCHANGED <<ws, handles, statuses, cur, overlapped>>
    BY DEF StopNode, Goto, OInv, TypeOK
<1>2. /\ BootIsFirst'
      /\ ~overlapped => /\ OneDiscovery'
                        /\ \A u \in Threads \ {t} : ~Discovering(u)'
    BY <1>1, WorkingAlone DEF Discovering
<1>3. \A i \in Instances : /\ service'[i].phase = service[i].phase
                           /\ service'[i].node = service[i].node
    BY CancelKeepsPhases DEF OInv
<1>7. HandlesAgree'
    BY <1>1, <1>3 DEF EInv, HandlesAgree, OInv, TypeOK
<1> SUFFICES ASSUME ~overlapped PROVE InOrder'
    BY <1>1, <1>2, <1>7 DEF EInv
<1>4. handles[n] = None
    BY <1>1 DEF EInv, InOrder, StoppedHasNoHandle
<1>5. EventsReach'
    <2> HIDE DEF n
    <2>1. \A i \in Instances : handles[service[i].node] = i =>
                             service[i].node # n
        BY <1>4, HandleIsNotNone
    <2> QED BY <1>0, <1>1, <1>3, <2>1
            DEF EInv, InOrder, EventsReach, OInv, TypeOK
<1>6. StoppedHasNoHandle'
    BY <1>0, <1>1, <1>2, <1>3, <1>4 DEF StoppedHasNoHandle, Discovering
<1>8. StartedIsHandled'
    BY <1>1, <1>2 DEF StartedIsHandled, Starting, Discovering
<1> QED BY <1>2, <1>5, <1>6, <1>8 DEF InOrder

\* The new instance has the handle of its node.
LEMMA StartNodeEvents ==
    ASSUME OInv, EInv, NEW t \in Threads, NEW n \in Nodes, StartNode(t, n)
    PROVE  EInv'
<1>0. PICK i \in Instances :
        /\ Free(i)
        /\ handles' = [handles EXCEPT ![n] = i]
        /\ service' = [service EXCEPT
                ![i] = [node |-> n, phase |-> "made", cancelled |-> FALSE]]
        /\ cur' = [cur EXCEPT ![t] = i]
    BY DEF StartNode
<1>1. /\ pc[t] = "start" /\ pc'[t] = "box" /\ handles[n] = None
      /\ \A u \in Threads \ {t} : pc'[u] = pc[u]
      /\ UNCHANGED <<ws, mailboxes, statuses, overlapped>>
    BY DEF StartNode, Goto, OInv, TypeOK
<1>2. /\ BootIsFirst'
      /\ ~overlapped => /\ OneDiscovery'
                        /\ \A u \in Threads \ {t} : ~Discovering(u)'
    BY <1>1, WorkingAlone DEF Discovering
<1>3. /\ service'[i] = [node |-> n, phase |-> "made", cancelled |-> FALSE]
      /\ handles'[n] = i /\ cur'[t] = i
      /\ \A j \in Instances \ {i} : service'[j] = service[j]
      /\ \A m \in Nodes \ {n} : handles'[m] = handles[m]
    BY <1>0 DEF OInv, TypeOK
<1>7. HandlesAgree'
    <2> SUFFICES ASSUME NEW m \in Nodes, m # n, handles[m] # None
                 PROVE  service'[handles[m]].node = m
        BY <1>3 DEF HandlesAgree
    <2>1. handles[m] \in Instances \ {i}
        BY <1>0 DEF Free, OInv, TypeOK
    <2> QED BY <1>3, <2>1 DEF EInv, HandlesAgree
<1> SUFFICES ASSUME ~overlapped PROVE InOrder'
    BY <1>1, <1>2, <1>7 DEF EInv
<1>4. EventsReach'
    <2> SUFFICES ASSUME NEW j \in Instances,
                        handles'[service'[j].node] = j
                 PROVE
            /\ service'[j].phase \in {"running", "serving"} =>
                  mailboxes[service'[j].node] = j
            /\ service'[j].phase = "serving" /\ ws =>
                  statuses[service'[j].node] = j
        BY <1>1 DEF EventsReach
    <2>1. CASE j = i
        BY <1>3, <2>1
    <2>2. CASE j # i
        <3>1. service'[j] = service[j] /\ service[j].node \in Nodes
            BY <1>3, <2>2 DEF OInv, TypeOK
        <3>2. handles[service[j].node] = j
            BY <1>3, <2>2, <3>1
        <3> QED BY <3>1, <3>2 DEF EInv, InOrder, EventsReach
    <2> QED BY <2>1, <2>2
<1>5. StoppedHasNoHandle'
    BY <1>1, <1>2 DEF StoppedHasNoHandle, Discovering
<1>6. StartedIsHandled'
    BY <1>1, <1>2, <1>3 DEF StartedIsHandled, Starting, Discovering
<1> QED BY <1>2, <1>4, <1>5, <1>6 DEF InOrder

LEMMA AddMailboxEvents ==
    ASSUME OInv, EInv, NEW t \in Threads, AddMailbox(t)
    PROVE  EInv'
<1>0. PICK i \in Instances, n \in Nodes :
        /\ cur[t] = i /\ service[i].node = n
        /\ mailboxes' = [mailboxes EXCEPT ![n] = i]
    BY CurIsInstance DEF AddMailbox, OInv, TypeOK
<1>1. /\ pc[t] = "box" /\ pc'[t] = "launch"
      /\ \A u \in Threads \ {t} : pc'[u] = pc[u]
      /\ UNCHANGED <<ws, handles, statuses, service, cur, overlapped>>
    BY DEF AddMailbox, Goto, OInv, TypeOK
<1>2. /\ BootIsFirst'
      /\ ~overlapped => /\ OneDiscovery'
                        /\ \A u \in Threads \ {t} : ~Discovering(u)'
    BY <1>1, WorkingAlone DEF Discovering
<1>7. HandlesAgree'
    BY <1>1 DEF EInv, HandlesAgree
<1> SUFFICES ASSUME ~overlapped PROVE InOrder'
    BY <1>1, <1>2, <1>7 DEF EInv
<1>3. handles[n] = i
    BY <1>0, <1>1 DEF EInv, InOrder, StartedIsHandled, Starting
<1>4. EventsReach'
    BY <1>0, <1>1, <1>3 DEF EInv, InOrder, EventsReach, OInv, TypeOK
<1>5. StoppedHasNoHandle'
    BY <1>1, <1>2 DEF StoppedHasNoHandle, Discovering
<1>6. StartedIsHandled'
    <2>1. mailboxes'[n] = i
        BY <1>0 DEF OInv, TypeOK
    <2> QED BY <1>0, <1>1, <1>2, <1>3, <2>1
            DEF StartedIsHandled, Starting, Discovering
<1> QED BY <1>2, <1>4, <1>5, <1>6 DEF InOrder

\* An instance that starts to run has its mailbox already.
LEMMA LaunchEvents ==
    ASSUME OInv, EInv, NEW t \in Threads, Launch(t)
    PROVE  EInv'
<1>0. PICK i \in Instances :
        /\ cur[t] = i
        /\ service' = [service EXCEPT ![i].phase = "running"]
    BY CurIsInstance DEF Launch, OInv
<1>1. /\ pc[t] = "launch" /\ pc'[t] = "start"
      /\ \A u \in Threads \ {t} : pc'[u] = pc[u]
      /\ UNCHANGED <<ws, handles, mailboxes, statuses, overlapped>>
    BY DEF Launch, Goto, maps, OInv, TypeOK
<1>2. /\ BootIsFirst'
      /\ ~overlapped => /\ OneDiscovery'
                        /\ \A u \in Threads \ {t} : ~Discovering(u)'
    BY <1>1, WorkingAlone DEF Discovering
<1>3. /\ \A j \in Instances : service'[j].node = service[j].node
      /\ service'[i].phase = "running"
      /\ \A j \in Instances \ {i} : service'[j].phase = service[j].phase
    BY <1>0 DEF OInv, TypeOK
<1>7. HandlesAgree'
    BY <1>1, <1>3 DEF EInv, HandlesAgree, OInv, TypeOK
<1> SUFFICES ASSUME ~overlapped PROVE InOrder'
    BY <1>1, <1>2, <1>7 DEF EInv
<1>4. mailboxes[service[i].node] = i
    BY <1>0, <1>1 DEF EInv, InOrder, StartedIsHandled, Starting
<1>5. EventsReach'
    BY <1>1, <1>3, <1>4 DEF EInv, InOrder, EventsReach
<1>6. StoppedHasNoHandle' /\ StartedIsHandled'
    BY <1>1, <1>2
       DEF StoppedHasNoHandle, StartedIsHandled, Starting, Discovering
<1> QED BY <1>2, <1>5, <1>6 DEF InOrder

\* A service that has been stopped has a successor only once it has ended.
LEMMA EndingHasNoSuccessor ==
    ASSUME OInv, InOrder, NEW i \in Instances, Live(i),
           NEW j \in Instances, j # i, service[j].node = service[i].node
    PROVE  handles[service[i].node] # j
<1>1. CASE handles[service[i].node] = i
    BY <1>1
<1>2. CASE BeingStopped(i)
    <2>1. handles[service[i].node] = None
        BY <1>2 DEF BeingStopped, InOrder, StoppedHasNoHandle
    <2> QED BY <2>1, HandleIsNotNone
<1> QED BY <1>1, <1>2 DEF OInv, OneServicePerNode

\* A service takes its place in statuses, and leaves its node's maps when it
\* ends.
LEMMA ServiceEvents ==
    ASSUME OInv, EInv, NEW i \in Instances,
           Register(i) \/ Exit(i) \/ ExitWithError(i)
    PROVE  EInv'
<1> DEFINE n == service[i].node
<1>1. /\ service[i].phase \in {"running", "serving"} /\ n \in Nodes
      /\ UNCHANGED <<handles, pc, cur, ws, overlapped>>
      /\ \/ /\ service' = [service EXCEPT ![i].phase = "serving"]
            /\ statuses' = IF ws THEN [statuses EXCEPT ![n] = i] ELSE statuses
            /\ service[i].phase = "running"
            /\ UNCHANGED mailboxes
         \/ /\ service' = [service EXCEPT ![i].phase = "done"]
            /\ mailboxes' = [mailboxes EXCEPT ![n] = None]
            /\ statuses' = [statuses EXCEPT ![n] = None]
    BY DEF Register, Exit, ExitWithError, Ended, threadVars, OInv, TypeOK
<1>2. /\ \A j \in Instances : service'[j].node = service[j].node
      /\ service'[i].phase \in {"serving", "done"}
      /\ \A j \in Instances \ {i} : service'[j].phase = service[j].phase
    <2>1. service \in [Instances -> [node : Nodes, phase : Phases,
                                     cancelled : BOOLEAN]]
        BY DEF OInv, TypeOK
    <2>2. PICK phase \in {"serving", "done"} :
                service' = [service EXCEPT ![i].phase = phase]
        BY <1>1
    <2> QED BY <2>1, <2>2
<1>3. BootIsFirst'
    BY <1>1 DEF EInv, BootIsFirst
<1>4. HandlesAgree'
    BY <1>1, <1>2 DEF EInv, HandlesAgree, OInv, TypeOK
<1> SUFFICES ASSUME ~overlapped PROVE InOrder'
    BY <1>1, <1>3, <1>4 DEF EInv
<1>5. EventsReach'
    <2> SUFFICES ASSUME NEW j \in Instances, handles[service[j].node] = j
                 PROVE
            /\ service'[j].phase \in {"running", "serving"} =>
                  mailboxes'[service[j].node] = j
            /\ service'[j].phase = "serving" /\ ws =>
                  statuses'[service[j].node] = j
        BY <1>1, <1>2 DEF EventsReach
    <2>1. CASE j # i
        <3>1. service[j].node # n
            BY <1>1, <2>1, EndingHasNoSuccessor DEF EInv, Live
        <3>2. /\ mailboxes'[service[j].node] = mailboxes[service[j].node]
              /\ statuses'[service[j].node] = statuses[service[j].node]
            BY <1>1, <3>1 DEF OInv, TypeOK
        <3> QED BY <1>2, <2>1, <3>2 DEF EInv, InOrder, EventsReach
    <2>2. CASE j = i
        <3>1. CASE service'[i].phase = "done"
            BY <2>2, <3>1
        <3>2. CASE service'[i].phase # "done"
            <4>1. /\ UNCHANGED mailboxes /\ service[i].phase = "running"
                  /\ statuses' = IF ws THEN [statuses EXCEPT ![n] = i]
                                  ELSE statuses
                BY <1>1, <3>2 DEF OInv, TypeOK
            <4>2. mailboxes[n] = i
                BY <2>2, <4>1 DEF EInv, InOrder, EventsReach
            <4> QED BY <1>1, <2>2, <4>1, <4>2 DEF OInv, TypeOK
        <3> QED BY <3>1, <3>2
    <2> QED BY <2>1, <2>2
<1>6. OneDiscovery'
    BY <1>1 DEF EInv, InOrder, OneDiscovery, Discovering
<1>7. StoppedHasNoHandle'
    BY <1>1, <1>2, CurIsInstance
       DEF EInv, InOrder, StoppedHasNoHandle, OInv
<1>8. StartedIsHandled'
    <2> SUFFICES ASSUME NEW t \in Threads, Starting(t)
                 PROVE
            /\ handles[service'[cur[t]].node] = cur[t]
            /\ pc[t] = "launch" => mailboxes'[service'[cur[t]].node] = cur[t]
        BY <1>1 DEF StartedIsHandled, Starting
    <2>1. /\ cur[t] \in Instances /\ service[cur[t]].phase = "made"
          /\ handles[service[cur[t]].node] = cur[t]
          /\ pc[t] = "launch" => mailboxes[service[cur[t]].node] = cur[t]
        BY CurIsInstance DEF EInv, InOrder, StartedIsHandled, Starting, OInv,
                             StartsOwnInstance
    <2>2. cur[t] # i
        BY <1>1, <2>1
    <2>3. service[cur[t]].node # n /\ service[cur[t]].node \in Nodes
        BY <1>1, <2>1, <2>2, EndingHasNoSuccessor DEF EInv, Live, OInv, TypeOK
    <2> QED BY <1>1, <1>2, <2>1, <2>3 DEF OInv, TypeOK
<1> QED BY <1>5, <1>6, <1>7, <1>8 DEF InOrder

LEMMA EInvInductive == OInv /\ EInv /\ [Next]_vars => EInv'
<1> SUFFICES ASSUME OInv, EInv, [Next]_vars PROVE EInv'
    OBVIOUS
<1>1. CASE ChangeNodes \/ CancelRun \/ Boot \/ BootFails
    BY <1>1, EnvironmentEvents
<1>2. CASE StopAll \/ Drained
    BY <1>2, ShutdownEvents
<1>3. CASE \E t \in Threads : Rediscover(t) \/ RediscoverFails(t)
                                \/ ThreadStep(t)
    <2>1. PICK t \in Threads : Rediscover(t) \/ RediscoverFails(t)
                                 \/ ThreadStep(t)
        BY <1>3
    <2>2. CASE \/ Rediscover(t) \/ RediscoverFails(t) \/ Compare(t)
               \/ RemovalsDone(t) \/ StartsDone(t) \/ Stopped(t)
        BY <2>2, DiscoveryEvents
    <2>3. CASE \E n \in Nodes : TakeHandle(t, n) \/ StartNode(t, n)
                                  \/ AlreadyRunning(t, n)
        BY <2>3, TakeHandleEvents, StartNodeEvents, DiscoveryEvents
    <2>4. CASE StopNode(t) \/ AddMailbox(t) \/ Launch(t)
        BY <2>4, StopNodeEvents, AddMailboxEvents, LaunchEvents
    <2> QED BY <2>1, <2>2, <2>3, <2>4 DEF ThreadStep
<1>4. CASE \E i \in Instances : Register(i) \/ Exit(i) \/ ExitWithError(i)
    BY <1>4, ServiceEvents
<1>5. CASE UNCHANGED vars
    <2>1. Quiet /\ BootIsFirst' /\ UNCHANGED <<ws, overlapped, pc>>
        BY <1>5 DEF Quiet, EInv, BootIsFirst, vars, maps, threadVars
    <2>2. ~overlapped' => OneDiscovery'
        BY <2>1 DEF EInv, InOrder, OneDiscovery, Discovering
    <2> QED BY <2>1, <2>2, QuietStep
<1> QED BY <1>1, <1>2, <1>3, <1>4, <1>5 DEF Next

\* Unless two discoveries overlapped, the mailbox and the place in statuses
\* that go by a node's identifier are those of the service that runs it.
THEOREM MachineEventsReachService == Spec => []EventsReachService
<1>1. OInv /\ EInv => EventsReachService
    BY DEF EInv, InOrder, EventsReach, EventsReachService
<1> QED BY <1>1, OInitially, OInvInductive, EInitially, EInvInductive, PTL
        DEF Spec

=============================================================================
