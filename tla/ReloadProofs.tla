---------------------------- MODULE ReloadProofs ----------------------------
(***************************************************************************)
(* For every set of configuration files and every sequence of edits,       *)
(* signals and failures: orchestrators that run at the same time have      *)
(* different identifiers and directories, and the health endpoint is       *)
(* where the served configuration says, until one says nowhere.            *)
(***************************************************************************)
EXTENDS ConfigReload, TLAPS

-----------------------------------------------------------------------------
(* What LoadRoot and ValidateStartupLayout let through.                    *)

\* Directories and defaults do not change who an instance is.
LEMMA DefaultsKeepID ==
    ASSUME NEW c, DOMAIN c = Keys, NEW base
    PROVE  AutoInstanceID(SetDefaultsFrom(c, base)) = AutoInstanceID(c)
BY DEF AutoInstanceID, SetDefaultsFrom, Keys

\* Neither does loading change the keys.
LEMMA LoadedKeys ==
    ASSUME NEW content, NEW c, DOMAIN c = Keys
    PROVE  DOMAIN Loaded(content, c) = Keys
<1>1. ASSUME NEW d, DOMAIN d = Keys
      PROVE  DOMAIN ApplyEnvOverrides(d) = Keys
    BY <1>1 DEF ApplyEnvOverrides
<1>2. ASSUME NEW d, DOMAIN d = Keys
      PROVE  DOMAIN ResolveEnvRefs(d) = Keys
    BY <1>2 DEF ResolveEnvRefs
<1>3. DOMAIN InheritFrom(c, content.top) = Keys
    BY DEF InheritFrom
<1> QED BY <1>1, <1>2, <1>3 DEF Loaded

\* A file that is started has every identifier and every directory once.
LEMMA StartedApart ==
    ASSUME NEW f \in Files, Starts[f],
           NEW i \in DOMAIN LoadedInstances(Content[f]),
           NEW j \in DOMAIN LoadedInstances(Content[f]),
           LET cs == LoadedInstances(Content[f])
           IN  \/ AutoInstanceID(cs[i]) = AutoInstanceID(cs[j])
               \/ cs[i].dir = cs[j].dir
    PROVE  i = j
<1> DEFINE content == Content[f]
           cs == LoadedInstances(content)
<1>1. /\ LoadRoot(content) /\ ValidateStartupLayout(content)
    BY DEF Starts, Accepts
<1>2. CASE content.instances = <<>>
    BY <1>2 DEF LoadedInstances
<1>3. CASE content.instances # <<>>
    <2>1. /\ DOMAIN cs = DOMAIN content.instances
          /\ \A k \in DOMAIN cs :
               DOMAIN Loaded(content, content.instances[k]) = Keys
        <3>1. content.kind # "broken"
            BY <1>1 DEF LoadRoot
        <3>2. DOMAIN cs = DOMAIN content.instances
            BY <1>3 DEF LoadedInstances
        <3> HIDE DEF cs
        <3> QED BY <3>1, <3>2, LoadedKeys, ReloadAssumption
    <2>2. \A k \in DOMAIN cs : AutoInstanceID(cs[k])
                = AutoInstanceID(Loaded(content, content.instances[k]))
        <3> SUFFICES ASSUME NEW k \in DOMAIN cs
                     PROVE  AutoInstanceID(cs[k])
                              = AutoInstanceID(Loaded(content, content.instances[k]))
            OBVIOUS
        <3>1. PICK base : cs[k] = SetDefaultsFrom(
                                    Loaded(content, content.instances[k]), base)
            BY <1>3 DEF LoadedInstances
        <3> HIDE DEF cs
        <3> QED BY <2>1, <3>1, DefaultsKeepID
    <2>3. AutoInstanceID(cs[i]) = AutoInstanceID(cs[j])
        <3> HIDE DEF cs
        <3> QED BY <1>1 DEF ValidateStartupLayout, cs
    <2> HIDE DEF cs
    <2> QED BY <1>1, <1>3, <2>1, <2>2, <2>3 DEF LoadRoot, ValidateRoot, cs
<1> QED BY <1>2, <1>3

\* So the orchestrators of one configuration are apart.
LEMMA InstancesApart ==
    ASSUME NEW f \in Files,
           NEW o \in InstancesOf[f], NEW p \in InstancesOf[f],
           o.id = p.id \/ o.dir = p.dir
    PROVE  o = p
<1> DEFINE cs == LoadedInstances(Content[f])
<1>1. Starts[f] /\ InstancesOf[f] = Instances(Content[f])
    BY DEF InstancesOf
<1>2. PICK i \in DOMAIN cs : o = [id |-> AutoInstanceID(cs[i]), dir |-> cs[i].dir]
    BY <1>1 DEF Instances
<1>3. PICK j \in DOMAIN cs : p = [id |-> AutoInstanceID(cs[j]), dir |-> cs[j].dir]
    BY <1>1 DEF Instances
<1> HIDE DEF cs
<1>4. i = j
    BY <1>1, <1>2, <1>3, StartedApart DEF cs
<1> QED BY <1>2, <1>3, <1>4

-----------------------------------------------------------------------------
(* The invariant.                                                          *)

LEMMA PortIsPort ==
    ASSUME NEW f \in Files
    PROVE  PortOf[f] \in Ports
BY DEF Ports

LEMMA RInitially == Init => IInv
<1> SUFFICES ASSUME Init PROVE IInv
    OBVIOUS
<1>1. {health, healthPort} \subseteq Ports
    BY PortIsPort DEF Init
<1>2. edits \in 0..MaxEdits /\ signals \in 0..MaxSignals /\ faults \in 0..MaxFaults
    BY ReloadAssumption DEF Init
<1>3. TypeOK
    BY <1>1, <1>2 DEF Init, TypeOK
<1> QED BY <1>3 DEF Init, IInv, OrchsOfRoot, HealthKnown

LEMMA FaultBounds ==
    ASSUME TypeOK, Fault
    PROVE  edits' \in 0..MaxEdits /\ signals' \in 0..MaxSignals
             /\ faults' \in 0..MaxFaults
BY ReloadAssumption DEF TypeOK, Fault

\* The steps of runWithReload.
LEMMA SetupStep == IInv /\ Setup => IInv'
<1> SUFFICES ASSUME IInv, Setup PROVE IInv'
    OBVIOUS
<1>1. edits' \in 0..MaxEdits /\ signals' \in 0..MaxSignals /\ faults' \in 0..MaxFaults
    BY FaultBounds DEF Setup, boundVars, IInv, TypeOK
<1> QED BY <1>1 DEF IInv, TypeOK, OrchsOfRoot, HealthKnown, Setup, Running, runVars

LEMMA StartStep == IInv /\ Start => IInv'
<1> SUFFICES ASSUME IInv, Start PROVE IInv'
    OBVIOUS
<1>1. root \in Files /\ PortOf[root] \in Ports
    BY PortIsPort DEF IInv, TypeOK
<1>2. CASE Launch
    <2>1. orchs = {} /\ hung = {}
        BY DEF IInv, TypeOK, OrchsOfRoot, Start
    <2>2. TypeOK'
        BY <1>1, <1>2, <2>1 DEF IInv, TypeOK, Start, Launch, StartHealth, boundVars,
                                loadVars, sigVars
    <2>3. OrchsOfRoot'
        BY <1>1, <1>2 DEF OrchsOfRoot, Start, Launch
    <2>4. HealthKnown'
        BY <1>2 DEF IInv, HealthKnown, Start, Launch, StartHealth
    <2> QED BY <2>2, <2>3, <2>4 DEF IInv
<1>3. CASE LaunchFails
    <2>1. edits' \in 0..MaxEdits /\ signals' \in 0..MaxSignals /\ faults' \in 0..MaxFaults
        BY <1>3, FaultBounds DEF LaunchFails, boundVars, IInv, TypeOK
    <2> QED BY <1>3, <2>1 DEF IInv, TypeOK, OrchsOfRoot, HealthKnown, Start,
                              LaunchFails, Exit, runVars, loadVars, sigVars
<1> QED BY <1>2, <1>3 DEF Start

LEMMA EndStep == IInv /\ End => IInv'
<1> SUFFICES ASSUME IInv, End PROVE IInv'
    OBVIOUS
<1> USE DEF boundVars
<1>1. orchs = {}
    BY DEF IInv, OrchsOfRoot, End
<1>2. TypeOK'
    <2>1. /\ forced' \subseteq {"signal", "second"}
          /\ handler' = "none" /\ sigCh' = FALSE
        BY DEF IInv, TypeOK, End, LeaveHandler
    <2> QED BY <2>1 DEF IInv, TypeOK, End, Restart, Exit
<1>3. OrchsOfRoot'
    BY <1>1 DEF OrchsOfRoot, End
<1>4. HealthKnown'
    BY DEF IInv, HealthKnown, End, Restart, Exit
<1> QED BY <1>2, <1>3, <1>4 DEF IInv

\* Every other step leaves the configuration and its port alone and starts no
\* orchestrator.
LEMMA QuietStep ==
    ASSUME IInv, TypeOK', UNCHANGED <<root, health, healthPort, disabled>>,
           orchs' \subseteq orchs,
           phase' = phase \/ (phase' = "ending" /\ orchs = {} /\ phase \in {"serving", "draining"})
                \/ (phase' = "draining" /\ phase = "serving")
    PROVE  IInv'
BY DEF IInv, OrchsOfRoot, HealthKnown

LEMMA RunStep ==
    ASSUME IInv, TakeReload \/ AllDone
    PROVE  IInv'
<1> USE DEF loadVars, sigVars, runVars, boundVars
<1>1. TypeOK'
    BY DEF IInv, TypeOK, TakeReload, AllDone
<1> QED BY <1>1, QuietStep DEF TakeReload, AllDone

LEMMA OrchStep ==
    ASSUME IInv, OrchEnds \/ OrchFails \/ OrchHangs
    PROVE  IInv'
<1> USE DEF loadVars, sigVars, boundVars
<1>1. edits' \in 0..MaxEdits /\ signals' \in 0..MaxSignals /\ faults' \in 0..MaxFaults
    BY FaultBounds DEF OrchEnds, OrchFails, OrchHangs, IInv, TypeOK
<1>2. TypeOK'
    BY <1>1 DEF IInv, TypeOK, OrchEnds, OrchFails, OrchHangs
<1> QED BY <1>2, QuietStep DEF OrchEnds, OrchFails, OrchHangs

LEMMA WatchStep ==
    ASSUME IInv, Watch
    PROVE  IInv'
<1> USE DEF sigVars, runVars, boundVars
<1>1. TypeOK'
    BY DEF IInv, TypeOK, Watch, SeeEvent, WatcherEnds, Fire, Offer
<1> QED BY <1>1, QuietStep DEF Watch, SeeEvent, WatcherEnds, Fire, Offer

LEMMA SignalStep ==
    ASSUME IInv, Handler \/ TimeOut
    PROVE  IInv'
<1> USE DEF loadVars, sigVars, runVars, boundVars
<1>1. TypeOK'
    BY DEF IInv, TypeOK, Handler, Hear, HandlerEnds, HearAgain, TimeOut, Exit
<1> QED BY <1>1, QuietStep
        DEF Handler, Hear, HandlerEnds, HearAgain, TimeOut, Exit

LEMMA OutsideStep ==
    ASSUME IInv, Edit \/ Signal
    PROVE  IInv'
<1> USE DEF loadVars, sigVars, runVars, boundVars
<1>1. edits' \in 0..MaxEdits /\ signals' \in 0..MaxSignals
    BY ReloadAssumption DEF Edit, Signal, IInv, TypeOK
<1>2. TypeOK'
    BY <1>1 DEF IInv, TypeOK, Edit, Signal, Exit, Reloading
<1> QED BY <1>2, QuietStep DEF Edit, Signal, Exit

LEMMA RStep == IInv /\ [Next]_vars => IInv'
<1> SUFFICES ASSUME IInv, [Next]_vars PROVE IInv'
    OBVIOUS
<1>1. CASE Main
    BY <1>1, SetupStep, StartStep, RunStep, EndStep DEF Main
<1>2. CASE OrchEnds \/ OrchFails \/ OrchHangs
    BY <1>2, OrchStep
<1>3. CASE Watch
    BY <1>3, WatchStep
<1>4. CASE Handler \/ TimeOut
    BY <1>4, SignalStep
<1>5. CASE Edit \/ Signal
    BY <1>5, OutsideStep
<1>6. CASE UNCHANGED vars
    <2> USE DEF vars, loadVars, sigVars, runVars, boundVars
    <2>1. TypeOK'
        BY <1>6 DEF IInv, TypeOK
    <2> QED BY <1>6, <2>1, QuietStep
<1> QED BY <1>1, <1>2, <1>3, <1>4, <1>5, <1>6 DEF Next

\* The invariant of the process: types, the orchestrators are those of the
\* configuration, the health port is remembered as it is.
THEOREM ReloadInvariant == Spec => []IInv
<1> QED BY RInitially, RStep, PTL DEF Spec

\* What is loaded, offered and taken is a file that loads; the health port is
\* that of some file, or none.
THEOREM ReloadTypeCorrect == Spec => []TypeOK
<1>1. IInv => TypeOK
    BY DEF IInv
<1> QED BY <1>1, ReloadInvariant, PTL

\* No two orchestrators ever run under one identifier, of normalised URL and
\* machine, or in directories that are written alike, whatever the files say and
\* however reloads follow one another.
THEOREM OrchestratorsAreSeparate == Spec => []Separate
<1>1. IInv => Separate
    BY InstancesApart DEF IInv, TypeOK, OrchsOfRoot, Separate
<1> QED BY <1>1, ReloadInvariant, PTL

\* Until a configuration disables it, the health endpoint follows the
\* configuration through every reload.
THEOREM HealthFollowsConfig == Spec => []HealthServed
<1>1. IInv => HealthServed
    BY DEF IInv, HealthKnown, HealthServed
<1> QED BY <1>1, ReloadInvariant, PTL
=============================================================================
