--------------------------- MODULE HardwareProofs ---------------------------
(***************************************************************************)
(* Parts of the hardware bridge that no lock board is in: the process of   *)
(* the fingerprint scanner, the health of loadcells, their serial ports,   *)
(* the card reader, and the connections of one serial path, for every      *)
(* strategy of opening and of buffering.  For any number of devices, ports,*)
(* clients and requests, of calls and of mishaps.                          *)
(***************************************************************************)
EXTENDS ScannerProcess, LoadcellHealth, LoadcellBus, CardReader, SerialConnection,
        SumTheorems, SequenceTheorems, TLAPS

-----------------------------------------------------------------------------
(* The process of the scanner: one program at most, and one that ended comes *)
(* back.                                                                     *)

\* What runs is what the service reads.
RunsIsRead == RunningChildren \subseteq {stream}

\* A start that is not over has its child.
StartHasChild == processState = "STARTING" => RunningChildren # {}

\* The flag of a stop is up without a program only while a restart sleeps, so that an
\* error that finds the flag may leave the restart to that one.
FlagHasRestart == intentional /\ RunningChildren = {} /\ ~down => sleeping > 0

ScannerInv == /\ ScannerTypeOK /\ RunsIsRead /\ StartHasChild /\ FlagHasRestart
              /\ DeadIsRestarted

-----------------------------------------------------------------------------
\* The number of the next child.
LEMMA ChildFacts ==
    /\ MaxChildren \in Nat
    /\ Cardinality(SpawnedChildren) \in Nat
    /\ Cardinality(SpawnedChildren) < MaxChildren =>
           Cardinality(SpawnedChildren) + 1 \in ChildIds
<1>1. MaxChildren \in Nat
  BY ScannerAssumption
<1>2. IsFiniteSet(1..MaxChildren)
  BY <1>1, FS_Interval
<1>3. SpawnedChildren \subseteq 1..MaxChildren
  BY DEF SpawnedChildren, ChildIds
<1>4. Cardinality(SpawnedChildren) \in Nat
  BY <1>2, <1>3, FS_Subset, FS_CardinalityType
<1> QED
  BY <1>1, <1>4 DEF ChildIds

\* Counters, one by one.
LEMMA CounterFacts ==
    ScannerTypeOK <=>
        /\ processState \in ProcessState /\ stream \in 0..MaxChildren
        /\ children \in [ChildIds -> {"none", "runs", "killed", "gone"}]
        /\ intentional \in BOOLEAN /\ down \in BOOLEAN /\ unnoticed \in BOOLEAN
        /\ failing \in Nat /\ errors \in Nat /\ completions \in Nat
        /\ restartTimers \in Nat /\ sleeping \in Nat /\ scannerCalls \in Nat
<1>1. {intentional, down, unnoticed} \subseteq BOOLEAN <=>
          intentional \in BOOLEAN /\ down \in BOOLEAN /\ unnoticed \in BOOLEAN
  OBVIOUS
<1>2. {failing, errors, completions, restartTimers, sleeping, scannerCalls} \subseteq Nat <=>
          /\ failing \in Nat /\ errors \in Nat /\ completions \in Nat
          /\ restartTimers \in Nat /\ sleeping \in Nat /\ scannerCalls \in Nat
  OBVIOUS
<1> QED
  BY <1>1, <1>2 DEF ScannerTypeOK

\* Something is on its way as soon as one of the counters says so.
LEMMA SomeDue ==
    ASSUME NEW a \in Nat, NEW b \in Nat, NEW c \in Nat, NEW d \in Nat,
           a > 0 \/ b > 0 \/ c > 0 \/ d > 0
    PROVE  a + b + c + d > 0
OBVIOUS

LEMMA ScannerInitInv == ASSUME ScannerInit PROVE ScannerInv
<1>1. /\ processState = "IDLE" /\ stream = 0 /\ children = [c \in ChildIds |-> "none"]
      /\ intentional = FALSE /\ unnoticed = FALSE /\ down = FALSE /\ failing = 0
      /\ errors = 0 /\ completions = 0 /\ restartTimers = 0 /\ sleeping = 0
      /\ scannerCalls = 0
  BY DEF ScannerInit
<1>2. RunningChildren = {} /\ SpawnedChildren = {}
  BY <1>1 DEF RunningChildren, SpawnedChildren
<1>3. ScannerTypeOK
  <2>1. processState \in ProcessState /\ stream \in 0..MaxChildren
    BY <1>1, ChildFacts DEF ProcessState
  <2>2. intentional \in BOOLEAN /\ down \in BOOLEAN /\ unnoticed \in BOOLEAN
    BY <1>1
  <2>3. /\ failing \in Nat /\ errors \in Nat /\ completions \in Nat
        /\ restartTimers \in Nat /\ sleeping \in Nat /\ scannerCalls \in Nat
    BY <1>1
  <2>4. children \in [ChildIds -> {"none", "runs", "killed", "gone"}]
    BY <1>1
  <2> QED
    BY <2>1, <2>2, <2>3, <2>4, CounterFacts
<1> QED
  BY <1>1, <1>2, <1>3 DEF ScannerInv, RunsIsRead, StartHasChild, FlagHasRestart,
                          DeadIsRestarted

-----------------------------------------------------------------------------
(* The parts that several actions share.                                     *)

\* A start: the child of before is told to end, the new one is the one that runs.
LEMMA StartInv ==
    ASSUME ScannerInv, StartProcess, sleeping' \in Nat, scannerCalls' \in Nat
    PROVE  ScannerInv'
<1> DEFINE new == Cardinality(SpawnedChildren) + 1
<1>1. stream' = new /\ new \in ChildIds /\ new \in 0..MaxChildren
  BY ChildFacts DEF StartProcess, ChildIds
<1>2. /\ children \in [ChildIds -> {"none", "runs", "killed", "gone"}]
      /\ \A c \in ChildIds : children[c] = "runs" => c = stream
  BY CounterFacts DEF ScannerInv, RunsIsRead, RunningChildren
<1>3. children' = [c \in ChildIds |-> IF c = new THEN "runs"
                       ELSE IF c \in EndedByDestroy THEN "killed" ELSE children[c]]
  BY <1>1 DEF StartProcess
<1> HIDE DEF new
<1>4. RunningChildren' = {new}
  <2>1. \A c \in ChildIds : children[c] = "runs" => c \in EndedByDestroy
    BY <1>2 DEF EndedByDestroy, RunningChildren
  <2>2. \A c \in ChildIds : children'[c] = "runs" <=> c = new
    BY <1>3, <2>1
  <2>3. RunningChildren' = {c \in ChildIds : children'[c] = "runs"}
    BY DEF RunningChildren
  <2> QED
    BY <1>1, <2>2, <2>3
<1>5. ScannerTypeOK'
  <2>1. children' \in [ChildIds -> {"none", "runs", "killed", "gone"}]
    BY <1>2, <1>3
  <2>2. /\ processState' \in ProcessState /\ intentional' \in BOOLEAN
        /\ unnoticed' \in BOOLEAN /\ down' \in BOOLEAN
    BY CounterFacts DEF ScannerInv, StartProcess, Completed, ProcessState
  <2>3. failing' \in Nat /\ errors' \in Nat /\ completions' \in Nat /\ restartTimers' \in Nat
    BY CounterFacts DEF ScannerInv, StartProcess, Completed
  <2>4. stream' \in 0..MaxChildren
    BY <1>1
  <2> QED
    BY <2>1, <2>2, <2>3, <2>4 DEF ScannerTypeOK
<1> QED
  BY <1>1, <1>4, <1>5 DEF ScannerInv, RunsIsRead, StartHasChild, FlagHasRestart,
                          DeadIsRestarted

\* A start that is refused, when the restart that wanted it is over.
LEMMA RefusedInv ==
    ASSUME ScannerInv, StartRefused, sleeping' \in Nat, scannerCalls' \in Nat
    PROVE  ScannerInv'
<1>1. processState = "STARTING" /\ RunningChildren # {}
  BY DEF ScannerInv, StartHasChild, StartRefused
<1>2. RunningChildren' = RunningChildren
  BY DEF StartRefused, RunningChildren
<1>3. ScannerTypeOK'
  BY DEF ScannerInv, ScannerTypeOK, StartRefused
<1>4. RunsIsRead'
  BY <1>2 DEF ScannerInv, RunsIsRead, StartRefused
<1> QED
  BY <1>1, <1>2, <1>3, <1>4 DEF ScannerInv, StartHasChild, FlagHasRestart, DeadIsRestarted

\* A restart that begins: its sleep is what the flag and a dead program wait for.
LEMMA RestartInv ==
    ASSUME ScannerInv, RestartBegins, scannerCalls' \in Nat, restartTimers' \in Nat
    PROVE  ScannerInv'
<1>1. /\ UNCHANGED <<children, stream, failing, errors, completions, down, unnoticed>>
      /\ sleeping \in Nat /\ sleeping' = sleeping + 1
      /\ errors \in Nat /\ completions \in Nat
  BY CounterFacts DEF ScannerInv, RestartBegins
<1>2. \/ processState' = processState /\ intentional' = intentional
      \/ processState' = "STOPPED" /\ intentional' = TRUE
  BY DEF RestartBegins, StopProcess
<1>3. RunningChildren' = RunningChildren /\ SpawnedChildren' = SpawnedChildren
  BY <1>1 DEF RunningChildren, SpawnedChildren
<1>4. ScannerTypeOK'
  <2>1. processState' \in ProcessState /\ intentional' \in BOOLEAN /\ sleeping' \in Nat
    <3>1. processState \in ProcessState /\ intentional \in BOOLEAN
      BY CounterFacts DEF ScannerInv
    <3>2. processState' \in ProcessState
      BY <1>2, <3>1 DEF ProcessState
    <3>3. intentional' \in BOOLEAN
      BY <1>2, <3>1
    <3> QED
      BY <1>1, <3>2, <3>3
  <2> QED
    BY <1>1, <2>1 DEF ScannerInv, ScannerTypeOK
<1>5. RunsIsRead' /\ StartHasChild'
  BY <1>1, <1>2, <1>3 DEF ScannerInv, RunsIsRead, StartHasChild
<1>6. FlagHasRestart' /\ DeadIsRestarted'
  <2>1. /\ errors' \in Nat /\ completions' \in Nat /\ restartTimers' \in Nat
        /\ sleeping' \in Nat /\ sleeping' > 0
    BY <1>1
  <2>2. errors' + completions' + restartTimers' + sleeping' > 0
    BY <2>1, SomeDue
  <2> QED
    BY <2>1, <2>2 DEF FlagHasRestart, DeadIsRestarted
<1> QED
  BY <1>4, <1>5, <1>6 DEF ScannerInv

\* The end of a program, but for who is told.
LEMMA EndFacts ==
    ASSUME ScannerInv, NEW c \in ChildIds, ChildEnds(c) \/ ChildFails(c)
    PROVE  /\ ScannerTypeOK' /\ RunsIsRead' /\ RunningChildren' = {}
           /\ processState' = "STOPPED" /\ intentional' = FALSE
<1>1. /\ c \in RunningChildren \cap {stream}
      /\ children' = [children EXCEPT ![c] = "gone"]
      /\ processState' = "STOPPED" /\ Completed
      /\ UNCHANGED <<stream, failing, restartTimers, sleeping, down, scannerCalls>>
  BY DEF ChildEnds, ChildFails
<1>2. errors' \in Nat /\ unnoticed' \in BOOLEAN
  BY CounterFacts DEF ScannerInv, ChildEnds, ChildFails
<1>3. intentional' = FALSE /\ completions' \in Nat
  BY <1>1, CounterFacts DEF ScannerInv, Completed
<1>4. children \in [ChildIds -> {"none", "runs", "killed", "gone"}]
  BY CounterFacts DEF ScannerInv
<1>5. children' \in [ChildIds -> {"none", "runs", "killed", "gone"}]
  BY <1>1, <1>4
<1>6. RunningChildren' = {}
  <2>1. \A d \in ChildIds : children[d] = "runs" => d = c
    BY <1>1 DEF ScannerInv, RunsIsRead, RunningChildren
  <2>2. \A d \in ChildIds : children'[d] # "runs"
    BY <1>1, <1>4, <2>1
  <2> QED
    BY <2>2 DEF RunningChildren
<1>7. ScannerTypeOK'
  <2>1. processState' \in ProcessState
    BY <1>1 DEF ProcessState
  <2> QED
    BY <1>1, <1>2, <1>3, <1>5, <2>1 DEF ScannerInv, ScannerTypeOK
<1> QED
  BY <1>1, <1>3, <1>6, <1>7 DEF RunsIsRead

-----------------------------------------------------------------------------
(* The actions.                                                              *)

LEMMA ChildEndsInv ==
    ASSUME ScannerInv, NEW c \in ChildIds, ChildEnds(c)
    PROVE  ScannerInv'
<1>1. /\ ScannerTypeOK' /\ RunsIsRead' /\ RunningChildren' = {}
      /\ processState' = "STOPPED" /\ intentional' = FALSE
  BY EndFacts
\* Unless it was taken for a stop, the end is on its way to a restart.
<1>2. unnoticed' \/ completions' > 0
  BY CounterFacts DEF ScannerInv, ChildEnds, Completed
<1>3. DeadIsRestarted'
  <2>1. /\ errors' \in Nat /\ completions' \in Nat /\ restartTimers' \in Nat
        /\ sleeping' \in Nat
    BY <1>1 DEF ScannerTypeOK
  <2>2. completions' > 0 => errors' + completions' + restartTimers' + sleeping' > 0
    BY <2>1, SomeDue
  <2> QED
    BY <1>2, <2>2 DEF DeadIsRestarted
<1> QED
  BY <1>1, <1>3 DEF ScannerInv, StartHasChild, FlagHasRestart

LEMMA ChildFailsInv ==
    ASSUME ScannerInv, NEW c \in ChildIds, ChildFails(c)
    PROVE  ScannerInv'
<1>1. /\ ScannerTypeOK' /\ RunsIsRead' /\ RunningChildren' = {}
      /\ processState' = "STOPPED" /\ intentional' = FALSE
  BY EndFacts
<1>2. errors' > 0
  BY CounterFacts DEF ScannerInv, ChildFails
<1>3. DeadIsRestarted'
  <2>1. /\ errors' \in Nat /\ completions' \in Nat /\ restartTimers' \in Nat
        /\ sleeping' \in Nat
    BY <1>1 DEF ScannerTypeOK
  <2>2. errors' > 0 => errors' + completions' + restartTimers' + sleeping' > 0
    BY <2>1, SomeDue
  <2> QED
    BY <1>2, <2>2 DEF DeadIsRestarted
<1> QED
  BY <1>1, <1>3 DEF ScannerInv, StartHasChild, FlagHasRestart

\* Hooks that are done, and a start that failed: nothing about the children changes.
LEMMA HooksInv ==
    ASSUME ScannerInv, StartFails \/ ErrorHandled \/ CompletionHandled
    PROVE  ScannerInv'
<1>1. /\ UNCHANGED <<children, stream, sleeping, down, scannerCalls, unnoticed>>
      /\ processState' \in {processState, "ERROR"} /\ (intentional' => intentional)
      /\ intentional' \in BOOLEAN
  <2>1. /\ UNCHANGED <<children, stream, sleeping, down, scannerCalls, unnoticed>>
        /\ processState' \in {processState, "ERROR"}
    BY DEF StartFails, ErrorHandled, CompletionHandled
  <2>2. intentional' = intentional \/ intentional' = FALSE
    BY DEF StartFails, ErrorHandled, CompletionHandled
  <2>3. intentional \in BOOLEAN
    BY CounterFacts DEF ScannerInv
  <2>4. (intentional' => intentional) /\ intentional' \in BOOLEAN
    <3>1. CASE intentional' = intentional
      BY <2>3, <3>1, Zenon
    <3>2. CASE intentional' = FALSE
      <4>1. intentional' \in BOOLEAN
        BY <3>2
      <4>2. ~intentional'
        BY <3>2
      <4> QED
        BY <4>1, <4>2
    <3> QED
      BY <2>2, <3>1, <3>2
  <2> QED
    BY <2>1, <2>4
<1>2. /\ failing \in Nat /\ errors \in Nat /\ completions \in Nat
      /\ restartTimers \in Nat /\ sleeping \in Nat
  BY CounterFacts DEF ScannerInv
<1>3. RunningChildren' = RunningChildren /\ SpawnedChildren' = SpawnedChildren
  BY <1>1 DEF RunningChildren, SpawnedChildren
<1>4. failing' \in Nat /\ errors' \in Nat /\ completions' \in Nat /\ restartTimers' \in Nat
  BY <1>2 DEF StartFails, ErrorHandled, CompletionHandled
<1>5. ScannerTypeOK'
  BY <1>1, <1>4 DEF ScannerInv, ScannerTypeOK, ProcessState
<1>6. RunsIsRead' /\ StartHasChild' /\ FlagHasRestart'
  BY <1>1, <1>3 DEF ScannerInv, RunsIsRead, StartHasChild, FlagHasRestart
<1>7. DeadIsRestarted'
  <2>1. SUFFICES ASSUME SpawnedChildren # {}, RunningChildren = {}, ~down, ~unnoticed
                 PROVE  errors' + completions' + restartTimers' + sleeping' > 0
    BY <1>1, <1>3 DEF DeadIsRestarted
  <2>2. errors + completions + restartTimers + sleeping > 0
    BY <2>1 DEF ScannerInv, DeadIsRestarted
  <2>3. CASE StartFails
    BY <2>2, <2>3 DEF StartFails
  <2>4. CASE ErrorHandled
    <3>1. CASE intentional
      <4>1. sleeping' > 0 /\ sleeping' \in Nat
        BY <1>1, <1>2, <2>1, <3>1 DEF ScannerInv, FlagHasRestart
      <4> QED
        BY <1>4, <4>1, SomeDue
    <3>2. CASE ~intentional
      BY <1>1, <1>2, <1>4, <2>4, <3>2 DEF ErrorHandled
    <3> QED
      BY <3>1, <3>2
  <2>5. CASE CompletionHandled
    BY <1>1, <1>2, <1>4, <2>5 DEF CompletionHandled
  <2> QED
    BY <2>3, <2>4, <2>5
<1> QED
  BY <1>5, <1>6, <1>7 DEF ScannerInv

LEMMA DestroyedInv == ASSUME ScannerInv, ScannerDestroyed PROVE ScannerInv'
<1>1. /\ children \in [ChildIds -> {"none", "runs", "killed", "gone"}]
      /\ completions \in Nat
  BY CounterFacts DEF ScannerInv
<1>2. /\ down' = TRUE /\ processState' = "STOPPED" /\ intentional' = TRUE
      /\ UNCHANGED <<stream, failing, errors, restartTimers, sleeping, scannerCalls, unnoticed>>
      /\ completions' \in Nat
      /\ children' = [c \in ChildIds |-> IF c \in EndedByDestroy THEN "killed" ELSE children[c]]
  BY <1>1 DEF ScannerDestroyed
<1>3. children' \in [ChildIds -> {"none", "runs", "killed", "gone"}]
  BY <1>1, <1>2
<1>4. ScannerTypeOK'
  BY <1>2, <1>3 DEF ScannerInv, ScannerTypeOK, ProcessState
<1>5. RunsIsRead'
  <2>1. \A c \in ChildIds : children'[c] = "runs" => children[c] = "runs"
    BY <1>2
  <2> QED
    BY <1>2, <2>1 DEF ScannerInv, RunsIsRead, RunningChildren
<1> QED
  BY <1>2, <1>4, <1>5 DEF ScannerInv, StartHasChild, FlagHasRestart, DeadIsRestarted

LEMMA ScannerStepInv == ASSUME ScannerInv, [ScannerNext]_scannerVars PROVE ScannerInv'
<1> USE DEF ScannerInv
<1>1. CASE StartCalled
  BY <1>1, StartInv, RefusedInv, CounterFacts DEF StartCalled, ScannerCall
<1>2. CASE Verify
  BY <1>2, RestartInv, CounterFacts DEF Verify, ScannerCall
<1>3. CASE RestartGoesOn
  BY <1>3, StartInv, RefusedInv, CounterFacts DEF RestartGoesOn
<1>4. CASE RestartTimer
  BY <1>4, RestartInv, CounterFacts DEF RestartTimer
<1>5. CASE StartFails \/ ErrorHandled \/ CompletionHandled
  BY <1>5, HooksInv
<1>6. CASE ScannerDestroyed
  BY <1>6, DestroyedInv
<1>7. ASSUME NEW c \in ChildIds, ChildEnds(c) \/ ChildFails(c) PROVE ScannerInv'
  BY <1>7, ChildEndsInv, ChildFailsInv
<1>8. CASE UNCHANGED scannerVars
  BY <1>8 DEF scannerVars, ScannerTypeOK, RunsIsRead, StartHasChild, FlagHasRestart,
              DeadIsRestarted, RunningChildren, SpawnedChildren
<1> QED
  BY <1>1, <1>2, <1>3, <1>4, <1>5, <1>6, <1>7, <1>8 DEF ScannerNext

\* One child at most, counted.
LEMMA OneRuns == ASSUME RunsIsRead PROVE OneScanner
<1>1. IsFiniteSet({stream}) /\ Cardinality({stream}) = 1
  BY FS_Singleton
<1>2. Cardinality(RunningChildren) \in Nat /\ Cardinality(RunningChildren) <= 1
  BY <1>1, FS_Subset, FS_CardinalityType DEF RunsIsRead
<1> QED
  BY <1>2 DEF OneScanner

-----------------------------------------------------------------------------
(* The state of FingerprintProcessService has its types.                     *)
THEOREM ScannerTypeCorrect == ScannerSpec => []ScannerTypeOK
<1>1. ScannerInit => ScannerInv
  BY ScannerInitInv
<1>2. ScannerInv /\ [ScannerNext]_scannerVars => ScannerInv'
  BY ScannerStepInv
<1>3. ScannerInv => ScannerTypeOK
  BY DEF ScannerInv
<1> QED
  BY <1>1, <1>2, <1>3, PTL DEF ScannerSpec

(* However many restarts of FingerprintProcessService overlap, in whatever   *)
(* order the program ends and the hooks answer: one scanner program at most  *)
(* runs, and one that ended is replaced unless its end was taken for a stop. *)
THEOREM ScannerIsKept == ScannerSpec => []ScannerKept
<1>1. ScannerInit => ScannerInv
  BY ScannerInitInv
<1>2. ScannerInv /\ [ScannerNext]_scannerVars => ScannerInv'
  BY ScannerStepInv
<1>3. ScannerInv => ScannerKept
  BY OneRuns DEF ScannerInv, ScannerKept
<1> QED
  BY <1>1, <1>2, <1>3, PTL DEF ScannerSpec

-----------------------------------------------------------------------------
(* The health of the loadcells: the books of HealthMonitoringService.        *)

\* The types, variable by variable.
HealthTypes ==
    /\ clock \in 1..Lifetime /\ nextCheck \in Nat /\ calls \in 0..MaxCalls
    /\ heartbeats \in [Devices -> Heartbeat] /\ loadcells \subseteq Devices
    /\ untold \subseteq Devices /\ previous \in [Devices -> {"unset", "on", "off"}]
    /\ told \in [Devices -> {"nothing", "on", "off"}] /\ losses \in [Devices -> Nat]

\* A check is due within an interval.
CheckIsDue == clock <= nextCheck /\ nextCheck <= clock + Interval

\* Who hears that a device is on will hear of a check in time.
CheckComesInTime ==
    \A d \in Devices \ untold : told[d] = "on" =>
        heartbeats[d].tracked /\ nextCheck <= heartbeats[d].lastSeen + Timeout + Interval

\* A device that was lost is remembered as lost, and stays silent until it is seen again.
LostIsRemembered ==
    \A d \in Devices : losses[d] <= 1 /\
        (losses[d] > 0 => ~heartbeats[d].isConnected /\ ~IsAlive(heartbeats[d]))

HealthInv == /\ HealthTypes /\ CheckIsDue /\ CheckComesInTime /\ LostIsRemembered
             /\ stats \in HealthStats /\ StatsAddUp
-----------------------------------------------------------------------------
LEMMA HealthConstants ==
    Timeout \in Nat \ {0} /\ Interval \in Nat \ {0} /\ Lifetime \in Nat \ {0} /\ MaxCalls \in Nat
BY HealthAssumption

\* The connected devices and the others are the tracked ones.
LEMMA StatsAreRight ==
    ASSUME NEW beats, NEW cells \in SUBSET Tracked(beats)
    PROVE  LET s == StatsOf(beats, cells)
           IN  /\ s \in HealthStats /\ s.total = Cardinality(Tracked(beats))
               /\ s.connected + s.disconnected = s.total /\ s.loadcells = Cardinality(cells)
<1> DEFINE T == Tracked(beats)
           C == Connected(beats)
           D == Disconnected(beats)
<1>1. T \in SUBSET Devices /\ C \in SUBSET T /\ D = T \ C
  BY DEF Tracked, Connected, Disconnected
<1>2. IsFiniteSet(T) /\ IsFiniteSet(C) /\ IsFiniteSet(D) /\ IsFiniteSet(cells)
  BY <1>1, FS_Subset, HealthAssumption
<1>3. Cardinality(C) + Cardinality(D) = Cardinality(T)
  <2> HIDE DEF T, C, D
  <2>1. T = C \cup D /\ C \cap D = {}
    BY <1>1
  <2>2. Cardinality(C \cup D) = Cardinality(C) + Cardinality(D) - Cardinality(C \cap D)
    BY <1>2, FS_Union
  <2>3. Cardinality(C \cap D) = 0 /\ Cardinality(C) \in Nat /\ Cardinality(D) \in Nat
    BY <1>2, <2>1, FS_EmptySet, FS_CardinalityType
  <2> QED
    BY <2>1, <2>2, <2>3
<1>4. Cardinality(T) \in Nat /\ Cardinality(C) \in Nat /\ Cardinality(D) \in Nat
      /\ Cardinality(cells) \in Nat
  BY <1>2, FS_CardinalityType
<1> QED
  BY <1>3, <1>4 DEF StatsOf, HealthStats

LEMMA HealthInitInv == HealthInit => HealthInv
<1> SUFFICES ASSUME HealthInit PROVE HealthInv
  OBVIOUS
<1>1. NoHeartbeat \in Heartbeat /\ NoHeartbeat.tracked = FALSE
  BY HealthConstants DEF NoHeartbeat, Heartbeat, Never
<1>2. HealthTypes
  BY <1>1, HealthConstants DEF HealthInit, HealthTypes
<1>3. CheckIsDue /\ CheckComesInTime /\ LostIsRemembered
  BY HealthConstants DEF HealthInit, CheckIsDue, CheckComesInTime, LostIsRemembered
<1>4. stats \in HealthStats /\ StatsAddUp
  <2>1. Tracked(heartbeats) = {}
    BY <1>1 DEF HealthInit, Tracked
  <2> QED
    BY <2>1, FS_EmptySet DEF HealthInit, HealthStats, StatsAddUp
<1> QED
  BY <1>2, <1>3, <1>4 DEF HealthInv

\* The statistics are taken anew with every change of what is tracked.
LEMMA StatsInv ==
    ASSUME stats' = StatsOf(heartbeats', loadcells'), loadcells' \subseteq Tracked(heartbeats')
    PROVE  stats' \in HealthStats /\ StatsAddUp'
<1>1. stats' = StatsOf(heartbeats', loadcells') /\ loadcells' \in SUBSET Tracked(heartbeats')
  OBVIOUS
<1>2. /\ stats' \in HealthStats /\ stats'.total = Cardinality(Tracked(heartbeats'))
      /\ stats'.connected + stats'.disconnected = stats'.total
      /\ stats'.loadcells = Cardinality(loadcells')
  BY <1>1, StatsAreRight
<1> QED
  BY <1>1, <1>2 DEF StatsAddUp, Tracked

LEMMA TicksInv == ASSUME HealthInv, ClockTicks PROVE HealthInv'
<1>1. /\ clock < Lifetime /\ clock < nextCheck /\ clock' = clock + 1
      /\ UNCHANGED <<heartbeats, loadcells, previous, stats, nextCheck, calls, told, losses, untold>>
  BY DEF ClockTicks
<1>2. HealthTypes' /\ CheckIsDue'
  BY <1>1, HealthConstants DEF HealthInv, HealthTypes, CheckIsDue
<1>3. CheckComesInTime'
  BY <1>1 DEF HealthInv, CheckComesInTime
<1>4. LostIsRemembered'
  <2>1. \A d \in Devices : ~IsAlive(heartbeats[d]) => ~IsAlive(heartbeats[d])'
    BY <1>1, HealthConstants DEF IsAlive, HealthInv, HealthTypes, Heartbeat
  <2> QED
    BY <1>1, <2>1 DEF HealthInv, LostIsRemembered
<1>5. stats' \in HealthStats /\ StatsAddUp'
  BY <1>1 DEF HealthInv, StatsAddUp, Tracked
<1> QED
  BY <1>2, <1>3, <1>4, <1>5 DEF HealthInv

LEMMA ReadingInv == ASSUME HealthInv, NEW d \in Devices, Reading(d) PROVE HealthInv'
<1> DEFINE new == [tracked |-> TRUE, lastSeen |-> clock, isConnected |-> TRUE]
<1>1. /\ heartbeats' = [heartbeats EXCEPT ![d] = new] /\ loadcells' = loadcells \cup {d}
      /\ stats' = StatsOf(heartbeats', loadcells') /\ Hear({d}, [e \in {d} |-> "on"])
      /\ losses' = [losses EXCEPT ![d] = 0] /\ untold' = untold \ {d}
      /\ UNCHANGED <<clock, previous, nextCheck, calls>>
  BY DEF Reading, UpdateHeartbeat
<1>2. new \in Heartbeat /\ new.tracked = TRUE /\ new.lastSeen = clock
  <2>1. clock \in 0..Lifetime
    BY HealthConstants DEF HealthInv, HealthTypes
  <2>2. new \in Heartbeat
    BY <2>1 DEF Heartbeat
  <2> QED
    BY <2>2
<1> HIDE DEF new
<1>3. /\ heartbeats' \in [Devices -> Heartbeat] /\ heartbeats'[d] = new
      /\ \A e \in Devices \ {d} : heartbeats'[e] = heartbeats[e] /\ losses'[e] = losses[e]
                                  /\ told'[e] = told[e]
      /\ losses'[d] = 0 /\ told' \in [Devices -> {"nothing", "on", "off"}]
  BY <1>1, <1>2 DEF HealthInv, HealthTypes, Hear
<1>4. HealthTypes' /\ CheckIsDue'
  BY <1>1, <1>3, HealthConstants DEF HealthInv, HealthTypes, CheckIsDue
<1>5. CheckComesInTime'
  BY <1>1, <1>2, <1>3, HealthConstants DEF HealthInv, HealthTypes, CheckIsDue, CheckComesInTime
<1>6. LostIsRemembered'
  BY <1>1, <1>3 DEF HealthInv, LostIsRemembered, IsAlive
<1>7. loadcells' \subseteq Tracked(heartbeats')
  BY <1>1, <1>2, <1>3 DEF HealthInv, HealthTypes, StatsAddUp, Tracked
<1> QED
  BY <1>1, <1>4, <1>5, <1>6, <1>7, StatsInv DEF HealthInv

\* A check that comes at any time; the next one is due within an interval of it.
LEMMA CheckInv ==
    ASSUME HealthInv, HealthCheck, calls' \in 0..MaxCalls, nextCheck' \in Nat,
           clock <= nextCheck', nextCheck' <= clock + Interval
    PROVE  HealthInv'
<1> DEFINE Found(d) == heartbeats[d].isConnected # IsAlive(heartbeats[d])
<1>1. /\ heartbeats' = [d \in Devices |-> Checked(d)]
      /\ previous' = [d \in Devices |->
             IF d \in FoundChanged THEN IF IsAlive(heartbeats[d]) THEN "on" ELSE "off"
             ELSE previous[d]]
      /\ stats' = StatsOf(heartbeats', loadcells)
      /\ told' = [d \in Devices |-> IF d \in Tracked(heartbeats)
                     THEN IF IsAlive(heartbeats[d]) THEN "on" ELSE "off" ELSE told[d]]
      /\ losses' = [d \in Devices |->
             IF d \in FoundChanged /\ ~IsAlive(heartbeats[d]) THEN losses[d] + 1 ELSE losses[d]]
      /\ untold' = untold \ Tracked(heartbeats)
      /\ UNCHANGED <<clock, loadcells>>
  <2>1. HealthCheck
    OBVIOUS
  <2>2. Tracked(heartbeats) \subseteq Devices
    BY DEF Tracked
  <2> QED
    BY <2>1, <2>2 DEF HealthCheck, Hear
<1>2. ASSUME NEW d \in Devices
      PROVE  /\ heartbeats'[d] \in Heartbeat /\ heartbeats'[d].tracked = heartbeats[d].tracked
             /\ heartbeats'[d].lastSeen = heartbeats[d].lastSeen
             /\ heartbeats[d].tracked => heartbeats'[d].isConnected = IsAlive(heartbeats[d])
             /\ ~heartbeats[d].tracked => heartbeats'[d] = heartbeats[d]
  <2>1. heartbeats[d] \in Heartbeat /\ IsAlive(heartbeats[d]) \in BOOLEAN
    BY DEF HealthInv, HealthTypes, IsAlive
  <2>2. heartbeats'[d] = IF heartbeats[d].tracked
            THEN [heartbeats[d] EXCEPT !.isConnected = IsAlive(heartbeats[d])] ELSE heartbeats[d]
    BY <1>1 DEF Checked
  <2> QED
    BY <2>1, <2>2 DEF Heartbeat
<1>3. Tracked(heartbeats') = Tracked(heartbeats)
  BY <1>2 DEF Tracked
<1>4. HealthTypes' /\ CheckIsDue'
  <2>1. heartbeats' \in [Devices -> Heartbeat]
    BY <1>1, <1>2
  <2>2. losses' \in [Devices -> Nat]
    BY <1>1 DEF HealthInv, HealthTypes
  <2> QED
    BY <1>1, <2>1, <2>2 DEF HealthInv, HealthTypes, CheckIsDue
<1>5. CheckComesInTime'
  <2> SUFFICES ASSUME NEW d \in Devices \ untold', told'[d] = "on"
               PROVE  heartbeats'[d].tracked
                      /\ nextCheck' <= heartbeats'[d].lastSeen + Timeout + Interval
    BY DEF CheckComesInTime
  <2>1. CASE d \in Tracked(heartbeats)
    <3>1. IsAlive(heartbeats[d]) /\ heartbeats[d] \in Heartbeat
      BY <1>1, <2>1 DEF HealthInv, HealthTypes
    <3> QED
      BY <1>2, <2>1, <3>1, HealthConstants DEF IsAlive, Tracked, Heartbeat, HealthInv, HealthTypes
  <2>2. CASE d \notin Tracked(heartbeats)
    BY <1>1, <2>2 DEF HealthInv, CheckComesInTime, Tracked
  <2> QED
    BY <2>1, <2>2
<1>6. LostIsRemembered'
  <2> SUFFICES ASSUME NEW d \in Devices
               PROVE  losses'[d] <= 1 /\
                      (losses'[d] > 0 => ~heartbeats'[d].isConnected /\ ~IsAlive(heartbeats[d])')
    BY DEF LostIsRemembered
  <2>1. IsAlive(heartbeats[d])' <=> IsAlive(heartbeats[d])
    BY <1>1, <1>2 DEF IsAlive
  <2>2. losses[d] \in Nat /\ losses[d] <= 1
        /\ (losses[d] > 0 => ~heartbeats[d].isConnected /\ ~IsAlive(heartbeats[d]))
    BY DEF HealthInv, HealthTypes, LostIsRemembered
  <2>3. CASE d \in FoundChanged /\ ~IsAlive(heartbeats[d])
    <3>1. heartbeats[d].tracked /\ heartbeats[d].isConnected
      <4>1. heartbeats[d] \in Heartbeat
        BY DEF HealthInv, HealthTypes
      <4>2. heartbeats[d].tracked /\ heartbeats[d].isConnected # IsAlive(heartbeats[d])
        BY <2>3, Zenon DEF FoundChanged, Tracked
      <4>3. heartbeats[d].isConnected \in BOOLEAN
        BY <4>1 DEF Heartbeat
      <4>4. IsAlive(heartbeats[d]) = FALSE
        BY <2>3, Zenon DEF IsAlive
      <4>5. heartbeats[d].isConnected # FALSE
        BY <4>2, <4>4, Zenon
      <4> QED
        BY <4>2, <4>3, <4>5
    <3>2. losses'[d] = 1
      BY <1>1, <2>2, <2>3, <3>1
    <3> QED
      BY <1>2, <2>1, <2>3, <3>1, <3>2
  <2>4. CASE ~(d \in FoundChanged /\ ~IsAlive(heartbeats[d]))
    BY <1>1, <1>2, <2>1, <2>2, <2>4
  <2> QED
    BY <2>3, <2>4
<1>7. stats' \in HealthStats /\ StatsAddUp'
  BY <1>1, <1>3, StatsInv DEF HealthInv, StatsAddUp
<1> QED
  BY <1>4, <1>5, <1>6, <1>7 DEF HealthInv

LEMMA CallInv == ASSUME HealthInv, Call PROVE calls' \in 0..MaxCalls
BY HealthConstants DEF Call, HealthInv, HealthTypes

LEMMA PeriodicInv == ASSUME HealthInv, PeriodicCheck PROVE HealthInv'
<1>1. clock = nextCheck /\ nextCheck' = clock + Interval /\ HealthCheck /\ calls' = calls
  BY DEF PeriodicCheck
<1> QED
  BY <1>1, CheckInv, HealthConstants DEF HealthInv, HealthTypes

LEMMA ForcedInv == ASSUME HealthInv, ForceHealthCheck PROVE HealthInv'
<1>1. Call /\ HealthCheck /\ nextCheck' = nextCheck
  BY DEF ForceHealthCheck
<1> QED
  BY <1>1, CheckInv, CallInv DEF HealthInv, HealthTypes, CheckIsDue

\* A change of what is tracked: devices whose heartbeat changes are untold or off
\* afterwards, and not remembered as lost unless they are silent.
LEMMA TrackingInv ==
    ASSUME HealthInv, Call, UNCHANGED <<clock, nextCheck>>,
           heartbeats' \in [Devices -> Heartbeat], loadcells' \subseteq Tracked(heartbeats'),
           previous' \in [Devices -> {"unset", "on", "off"}],
           told' \in [Devices -> {"nothing", "on", "off"}], losses' \in [Devices -> Nat],
           untold \subseteq untold', untold' \subseteq Devices,
           stats' = StatsOf(heartbeats', loadcells'),
           \A d \in Devices :
               \/ d \in untold' \/ told'[d] # "on"
               \/ told'[d] = told[d] /\ heartbeats'[d] = heartbeats[d],
           \A d \in Devices :
               \/ losses'[d] = 0
               \/ losses'[d] = losses[d] /\ heartbeats'[d].isConnected = FALSE
                  /\ heartbeats'[d].lastSeen = Never
               \/ /\ losses'[d] = losses[d]
                  /\ heartbeats'[d].isConnected = heartbeats[d].isConnected
                  /\ heartbeats'[d].lastSeen = heartbeats[d].lastSeen
    PROVE  HealthInv'
<1>1. HealthTypes' /\ CheckIsDue'
  BY CallInv DEF HealthInv, HealthTypes, CheckIsDue, Tracked
<1>2. CheckComesInTime'
  <2> SUFFICES ASSUME NEW d \in Devices \ untold', told'[d] = "on"
               PROVE  heartbeats'[d].tracked
                      /\ nextCheck' <= heartbeats'[d].lastSeen + Timeout + Interval
    BY DEF CheckComesInTime
  <2>1. heartbeats'[d] = heartbeats[d] /\ told[d] = "on" /\ d \in Devices \ untold
    OBVIOUS
  <2> QED
    BY <2>1 DEF HealthInv, CheckComesInTime
<1>3. LostIsRemembered'
  <2> SUFFICES ASSUME NEW d \in Devices
               PROVE  losses'[d] <= 1 /\
                      (losses'[d] > 0 => ~heartbeats'[d].isConnected /\ ~IsAlive(heartbeats[d])')
    BY DEF LostIsRemembered
  <2>1. losses[d] <= 1 /\ (losses[d] > 0 => ~heartbeats[d].isConnected /\ ~IsAlive(heartbeats[d]))
    BY DEF HealthInv, LostIsRemembered
  <2>2. CASE losses'[d] = 0
    BY <2>2
  <2>3. CASE heartbeats'[d].isConnected = FALSE /\ heartbeats'[d].lastSeen = Never
             /\ losses'[d] = losses[d]
    BY <2>1, <2>3 DEF IsAlive
  <2>4. CASE /\ losses'[d] = losses[d] /\ heartbeats'[d].isConnected = heartbeats[d].isConnected
             /\ heartbeats'[d].lastSeen = heartbeats[d].lastSeen
    BY <2>1, <2>4 DEF IsAlive
  <2> QED
    BY <2>2, <2>3, <2>4
<1> QED
  BY <1>1, <1>2, <1>3, StatsInv DEF HealthInv

LEMMA NoHeartbeatFacts ==
    /\ NoHeartbeat \in Heartbeat /\ ~NoHeartbeat.tracked
    /\ NoHeartbeat.isConnected = FALSE /\ NoHeartbeat.lastSeen = Never
BY HealthConstants DEF NoHeartbeat, Heartbeat, Never

LEMMA SetTrackingInv ==
    ASSUME HealthInv, NEW ds \in SUBSET Devices, SetTracking(ds) PROVE HealthInv'
<1> DEFINE new == [NoHeartbeat EXCEPT !.tracked = TRUE]
<1>1. /\ Call /\ heartbeats' = [d \in Devices |-> IF d \in ds THEN new ELSE heartbeats[d]]
      /\ stats' = StatsOf(heartbeats', loadcells) /\ untold' = untold \cup ds
      /\ UNCHANGED <<clock, loadcells, previous, nextCheck, told, losses>>
  BY DEF SetTracking
<1>2. new \in Heartbeat /\ new.tracked = TRUE /\ new.isConnected = FALSE /\ new.lastSeen = Never
  BY NoHeartbeatFacts DEF Heartbeat
<1> HIDE DEF new
<1>3. heartbeats' \in [Devices -> Heartbeat]
  BY <1>1, <1>2 DEF HealthInv, HealthTypes
<1>4. loadcells' \subseteq Tracked(heartbeats')
  BY <1>1, <1>2 DEF HealthInv, HealthTypes, StatsAddUp, Tracked
<1>5. \A d \in Devices : IF d \in ds THEN heartbeats'[d] = new ELSE heartbeats'[d] = heartbeats[d]
  BY <1>1
<1>6. /\ previous' \in [Devices -> {"unset", "on", "off"}] /\ losses' \in [Devices -> Nat]
      /\ told' \in [Devices -> {"nothing", "on", "off"}] /\ untold' \subseteq Devices
  BY <1>1 DEF HealthInv, HealthTypes
<1> QED
  BY <1>1, <1>2, <1>3, <1>4, <1>5, <1>6, TrackingInv

LEMMA AddTrackingInv ==
    ASSUME HealthInv, NEW d \in Devices, AddTracking(d) PROVE HealthInv'
<1> DEFINE new == [heartbeats[d] EXCEPT !.tracked = TRUE]
<1>1. /\ Call /\ ~heartbeats[d].tracked /\ heartbeats' = [heartbeats EXCEPT ![d] = new]
      /\ stats' = StatsOf(heartbeats', loadcells)
      /\ UNCHANGED <<clock, loadcells, previous, nextCheck, told, losses, untold>>
  BY DEF AddTracking
<1>2. heartbeats[d] \in Heartbeat /\ (d \in untold \/ told[d] # "on")
  BY <1>1 DEF HealthInv, HealthTypes, CheckComesInTime
<1>3. /\ new \in Heartbeat /\ new.tracked = TRUE
      /\ new.isConnected = heartbeats[d].isConnected /\ new.lastSeen = heartbeats[d].lastSeen
  BY <1>2 DEF Heartbeat
<1> HIDE DEF new
<1>4. /\ heartbeats' \in [Devices -> Heartbeat] /\ heartbeats'[d] = new
      /\ \A e \in Devices \ {d} : heartbeats'[e] = heartbeats[e]
  BY <1>1, <1>3 DEF HealthInv, HealthTypes
<1>5. loadcells' \subseteq Tracked(heartbeats')
  BY <1>1, <1>3, <1>4 DEF HealthInv, HealthTypes, StatsAddUp, Tracked
<1>6. /\ previous' \in [Devices -> {"unset", "on", "off"}] /\ losses' \in [Devices -> Nat]
      /\ told' \in [Devices -> {"nothing", "on", "off"}] /\ untold' \subseteq Devices
  BY <1>1 DEF HealthInv, HealthTypes
<1> QED
  BY <1>1, <1>2, <1>3, <1>4, <1>5, <1>6, TrackingInv

LEMMA RemoveTrackingInv ==
    ASSUME HealthInv, NEW d \in Devices, RemoveTracking(d) PROVE HealthInv'
<1>1. /\ Call /\ heartbeats' = [heartbeats EXCEPT ![d] = NoHeartbeat] /\ loadcells' = loadcells \ {d}
      /\ previous' = [previous EXCEPT ![d] = "unset"] /\ stats' = StatsOf(heartbeats', loadcells')
      /\ Hear({d} \cap Tracked(heartbeats), [e \in {d} |-> "off"])
      /\ UNCHANGED <<clock, nextCheck, losses, untold>>
  BY DEF RemoveTracking, Gone
<1>2. /\ heartbeats' \in [Devices -> Heartbeat] /\ heartbeats'[d] = NoHeartbeat
      /\ \A e \in Devices \ {d} : heartbeats'[e] = heartbeats[e]
  BY <1>1, NoHeartbeatFacts DEF HealthInv, HealthTypes
<1>3. told' = [e \in Devices |-> IF e = d /\ heartbeats[d].tracked THEN "off" ELSE told[e]]
  BY <1>1 DEF Hear, Tracked
<1>4. loadcells' \subseteq Tracked(heartbeats')
  BY <1>1, <1>2 DEF HealthInv, HealthTypes, StatsAddUp, Tracked
<1>5. d \in untold \/ told'[d] # "on"
  BY <1>3 DEF HealthInv, CheckComesInTime
<1>6. /\ previous' \in [Devices -> {"unset", "on", "off"}] /\ losses' \in [Devices -> Nat]
      /\ told' \in [Devices -> {"nothing", "on", "off"}] /\ untold' \subseteq Devices
  BY <1>1, <1>3 DEF HealthInv, HealthTypes
<1> QED
  BY <1>1, <1>2, <1>3, <1>4, <1>5, <1>6, NoHeartbeatFacts, TrackingInv

LEMMA ClearTrackingInv == ASSUME HealthInv, ClearTracking PROVE HealthInv'
<1>1. /\ Call /\ heartbeats' = [d \in Devices |-> NoHeartbeat]
      /\ loadcells' = {} /\ previous' = [d \in Devices |-> "unset"]
      /\ stats' = StatsOf(heartbeats', loadcells') /\ untold' = untold \cup Tracked(heartbeats)
      /\ UNCHANGED <<clock, nextCheck, told, losses>>
  BY DEF ClearTracking
<1>2. heartbeats' \in [Devices -> Heartbeat] /\ \A d \in Devices : heartbeats'[d] = NoHeartbeat
  BY <1>1, NoHeartbeatFacts
<1>3. \A d \in Devices : d \in untold' \/ told'[d] # "on"
  BY <1>1 DEF HealthInv, CheckComesInTime, Tracked
<1>4. /\ previous' \in [Devices -> {"unset", "on", "off"}] /\ losses' \in [Devices -> Nat]
      /\ told' \in [Devices -> {"nothing", "on", "off"}] /\ untold' \subseteq Devices
  BY <1>1 DEF HealthInv, HealthTypes, Tracked
<1> QED
  BY <1>1, <1>2, <1>3, <1>4, NoHeartbeatFacts, TrackingInv

LEMMA BulkUpdateInv ==
    ASSUME HealthInv, NEW d \in Devices, NEW seen \in 1..clock, BulkUpdate(d, seen)
    PROVE  HealthInv'
<1> DEFINE alive == IsAlive([heartbeats[d] EXCEPT !.lastSeen = seen])
           new == [heartbeats[d] EXCEPT !.lastSeen = seen, !.isConnected = alive]
<1>1. /\ Call /\ heartbeats[d].tracked /\ heartbeats' = [heartbeats EXCEPT ![d] = new]
      /\ stats' = StatsOf(heartbeats', loadcells)
      /\ losses' = [losses EXCEPT ![d] = 0] /\ untold' = untold \cup {d}
      /\ UNCHANGED <<clock, loadcells, previous, nextCheck, told>>
  BY DEF BulkUpdate
<1>2. heartbeats[d] \in Heartbeat /\ alive \in BOOLEAN /\ seen \in 0..Lifetime
  BY HealthConstants DEF HealthInv, HealthTypes, IsAlive
<1> HIDE DEF alive
<1>3. new \in Heartbeat /\ new.tracked = heartbeats[d].tracked
  BY <1>2 DEF Heartbeat
<1> HIDE DEF new
<1>4. /\ heartbeats' \in [Devices -> Heartbeat] /\ heartbeats'[d] = new
      /\ \A e \in Devices \ {d} : heartbeats'[e] = heartbeats[e] /\ losses'[e] = losses[e]
      /\ losses'[d] = 0
  BY <1>1, <1>3 DEF HealthInv, HealthTypes
<1>5. loadcells' \subseteq Tracked(heartbeats')
  BY <1>1, <1>3, <1>4 DEF HealthInv, HealthTypes, StatsAddUp, Tracked
<1>6. /\ previous' \in [Devices -> {"unset", "on", "off"}] /\ losses' \in [Devices -> Nat]
      /\ told' \in [Devices -> {"nothing", "on", "off"}] /\ untold' \subseteq Devices
  BY <1>1 DEF HealthInv, HealthTypes
<1> QED
  BY <1>1, <1>4, <1>5, <1>6, TrackingInv

LEMMA HealthNextInv == HealthInv /\ [HealthNext]_healthVars => HealthInv'
<1> SUFFICES ASSUME HealthInv, [HealthNext]_healthVars PROVE HealthInv'
  OBVIOUS
<1>1. CASE HealthNext
  BY <1>1, TicksInv, PeriodicInv, ForcedInv, ClearTrackingInv, SetTrackingInv, ReadingInv,
     AddTrackingInv, RemoveTrackingInv, BulkUpdateInv DEF HealthNext
<1>2. CASE UNCHANGED healthVars
  BY <1>2 DEF healthVars, HealthInv, HealthTypes, CheckIsDue, CheckComesInTime,
     LostIsRemembered, StatsAddUp, Tracked, IsAlive
<1> QED
  BY <1>1, <1>2

\* What the service knows of devices are values of their types, for any devices, any
\* timeout and any interval.
THEOREM HealthTypeCorrect == HealthSpec => []HealthTypeOK
<1>1. HealthInv => HealthTypeOK
  BY DEF HealthInv, HealthTypes, HealthTypeOK
<1> QED
  BY <1>1, HealthInitInv, HealthNextInv, PTL DEF HealthSpec

\* updateHeartbeat, _checkAndCallDeviceHooks and the calls that set or clear what is
\* tracked: a silence is told once and within an interval of its timeout, and the
\* statistics agree, in whatever order readings, checks and calls come.
THEOREM SilenceIsHeard == HealthSpec => []HealthIsTold
<1>1. HealthInv => SilenceIsTold
  <2> SUFFICES ASSUME HealthInv, NEW d \in Devices \ untold, told[d] = "on"
               PROVE  heartbeats[d].tracked /\ clock <= heartbeats[d].lastSeen + Timeout + Interval
    BY DEF SilenceIsTold
  <2>1. heartbeats[d] \in Heartbeat
    BY DEF HealthInv, HealthTypes
  <2> QED
    BY <2>1, HealthConstants DEF HealthInv, HealthTypes, CheckIsDue, CheckComesInTime, Heartbeat
<1>2. HealthInv => OneLossPerSilence /\ StatsAddUp
  BY DEF HealthInv, LostIsRemembered, OneLossPerSilence
<1>3. HealthInv => HealthIsTold
  BY <1>1, <1>2 DEF HealthIsTold
<1> QED
  BY <1>3, HealthInitInv, HealthNextInv, PTL DEF HealthSpec

-----------------------------------------------------------------------------
(* The bus of the loadcells: ports that are found, tested and opened, and the *)
(* rooms whose cells are polled.                                             *)

BusTypes ==
    /\ link \in [Ports -> {"open", "closed"}]
    /\ portState \in [Ports -> PortState] /\ portStep \in [Ports -> PortStep]
    /\ callbacks \in [Ports -> Nat]
    /\ connectedPorts \subseteq Ports /\ running \in BOOLEAN /\ timers \in 0..2
    /\ run \in [Runs -> [pc : RunPc, todo : SUBSET Ports, found : SUBSET Ports]]

ReadTypes ==
    /\ comId \in ComIds
    /\ online \subseteq Cells /\ polled \subseteq Cells /\ discovery \subseteq Cells
    /\ active \subseteq DeviceIds /\ asked \subseteq Ports \X Cells
    /\ room \in [Clients -> Cells \cup {NoRoom}] /\ joined \in [Clients -> SUBSET Cells]

\* One discovery run at a time.
OneRun == "overlap" \in upset \/
    \A i, j \in Runs : run[i].pc # "off" /\ run[j].pc # "off" => i = j

\* Before the service runs or starts, no port is touched.
QuietBefore ==
    "overlap" \notin upset /\ ~running /\ (\A i \in Runs : run[i].pc # "start") =>
        \A p \in Ports : portStep[p] = "idle" /\ callbacks[p] = 0 /\ portState[p] # "connected"

\* A port on its way has no callback and does not count as connected.
UnheardOnTheWay == "overlap" \in upset \/
    \A p \in Ports : portStep[p] # "idle" => callbacks[p] = 0 /\ portState[p] # "connected"

\* Ports are tested before the service runs.
TestedBefore ==
    upset \cap {"overlap", "late"} = {} =>
        \A i \in Runs : run[i].pc \in {"scan", "test"} => ~running

\* A test has its port.
TestHasPort == \A i \in Runs : run[i].pc = "test" => run[i].todo # {}

PortsInv == /\ TestHasPort /\ OneRun /\ QuietBefore /\ UnheardOnTheWay /\ TestedBefore
            /\ ReadOnce /\ ConnectedIsOpen
\* What is polled is what is active; a cell's number is its address on COM 0.
PolledIsActive ==
    /\ polled = active /\ active \subseteq Cells
    /\ "replaced" \in upset \/ active = {} \/ comId = 0

\* A socket that did not move on is in the room it joined last.
OneRoom == "moved" \in upset \/ \A w \in Clients : joined[w] \subseteq {room[w]}

PollingInv == PolledIsActive /\ OneRoom /\ PollingFollowsRooms
-----------------------------------------------------------------------------
LEMMA BusConstants ==
    /\ Cells \subseteq 1..99 /\ 1 \in Runs /\ MaxMishaps \in Nat /\ ComIds \subseteq Nat
    /\ CellsAt \in [Ports -> SUBSET Cells]
BY BusAssumption DEF BusAssumption

LEMMA PortsStart == BusInit => BusTypes /\ PortsInv
<1> SUFFICES ASSUME BusInit PROVE BusTypes /\ PortsInv
  OBVIOUS
<1>1. 1 \in Runs
  BY BusConstants
<1>2. BusTypes
  <2>1. run \in [Runs -> [pc : RunPc, todo : SUBSET Ports, found : SUBSET Ports]]
    BY DEF BusInit, RunPc
  <2>2. connectedPorts \subseteq Ports /\ portStep \in [Ports -> PortStep]
    BY DEF BusInit, PortStep
  <2>3. link \in [Ports -> {"open", "closed"}] /\ callbacks \in [Ports -> Nat]
    <3>1. link = [p \in Ports |-> "closed"] /\ callbacks = [p \in Ports |-> 0]
      BY DEF BusInit
    <3> QED  BY <3>1
  <2>4. portState \in [Ports -> PortState]
    <3>1. portState = [p \in Ports |-> "none"]
      BY DEF BusInit
    <3> QED  BY <3>1 DEF PortState
  <2>5. running \in BOOLEAN /\ timers \in 0..2
    <3>1. running \in BOOLEAN
      BY DEF BusInit
    <3>2. timers \in 0..2
      BY SMT DEF BusInit
    <3> QED  BY <3>1, <3>2
  <2> QED  BY <2>1, <2>2, <2>3, <2>4, <2>5 DEF BusTypes
<1>3. /\ \A i \in Runs \ {1} : run[i].pc = "off"
      /\ \A p \in Ports : callbacks[p] = 0 /\ portState[p] = "none"
      /\ ~running
  BY DEF BusInit
<1>4. (\A i \in Runs : run[i].pc # "start") => \A p \in Ports : portStep[p] = "idle"
  BY <1>1 DEF BusInit
<1>5. \A i, j \in Runs : run[i].pc # "off" /\ run[j].pc # "off" => i = j
  BY <1>3
<1>6. TestHasPort
  BY DEF BusInit, TestHasPort
<1> QED
  BY <1>2, <1>3, <1>4, <1>5, <1>6
  DEF PortsInv, OneRun, QuietBefore, UnheardOnTheWay, TestedBefore, ReadOnce, ConnectedIsOpen

\* Steps that leave the ports and the runs alone.
LEMMA PortsAlone ==
    ASSUME BusTypes, PortsInv, upset \subseteq upset',
           UNCHANGED <<run, running, link, portState, portStep, callbacks, connectedPorts, timers>>
    PROVE  BusTypes' /\ PortsInv'
<1>1. BusTypes'
  BY DEF BusTypes
<1>2. TestHasPort' /\ OneRun' /\ QuietBefore' /\ UnheardOnTheWay' /\ TestedBefore'
  BY DEF PortsInv, TestHasPort, OneRun, QuietBefore, UnheardOnTheWay, TestedBefore
<1>3. ReadOnce' /\ ConnectedIsOpen'
  BY DEF PortsInv, ReadOnce, ConnectedIsOpen
<1> QED  BY <1>1, <1>2, <1>3 DEF PortsInv

\* Steps of a discovery run that end in a scan, having opened or closed a port that does
\* not count as connected, leave the rest in order.
LEMMA RunGoesOn ==
    ASSUME BusTypes, PortsInv, upset \subseteq upset',
           NEW i \in Runs, run[i].pc \in {"scan", "test"},
           NEW r \in [pc : {"scan", "test"}, todo : SUBSET Ports, found : SUBSET Ports],
           run' = [run EXCEPT ![i] = r], r.pc = "test" => r.todo # {},
           UNCHANGED <<running, portState, portStep, callbacks, connectedPorts, timers>>,
           NEW p \in Ports, NEW state \in {"open", "closed"},
           link' = [link EXCEPT ![p] = state]
    PROVE  BusTypes' /\ PortsInv'
<1>1. BusTypes'
  <2>1. r \in [pc : RunPc, todo : SUBSET Ports, found : SUBSET Ports]
    BY DEF RunPc
  <2>2. run' \in [Runs -> [pc : RunPc, todo : SUBSET Ports, found : SUBSET Ports]]
    BY <2>1 DEF BusTypes
  <2> QED  BY <2>2 DEF BusTypes
<1>2. /\ run'[i].pc \in {"scan", "test"} /\ \A j \in Runs : j # i => run'[j] = run[j]
      /\ run'[i].pc = "test" => run'[i].todo # {}
  BY DEF BusTypes
<1>3. TestHasPort' /\ OneRun' /\ QuietBefore' /\ UnheardOnTheWay' /\ TestedBefore'
  BY <1>2 DEF PortsInv, TestHasPort, OneRun, QuietBefore, UnheardOnTheWay, TestedBefore
<1>4. ReadOnce'
  BY DEF PortsInv, ReadOnce
<1>5. ConnectedIsOpen'
  <2> SUFFICES ASSUME upset' \cap {"unplugged", "overlap", "late"} = {}, NEW q \in Ports,
                      portState[q] = "connected"
               PROVE  link'[q] = "open"
    BY DEF ConnectedIsOpen
  <2>1. upset \cap {"unplugged", "overlap", "late"} = {}
    OBVIOUS
  <2>2. ~running
    BY <2>1 DEF PortsInv, TestedBefore
  <2>3. \A j \in Runs : run[j].pc # "start"
    BY <2>1 DEF PortsInv, OneRun
  <2>4. portState[q] # "connected"
    BY <2>1, <2>2, <2>3 DEF PortsInv, QuietBefore
  <2> QED  BY <2>4
<1> QED  BY <1>1, <1>3, <1>4, <1>5 DEF PortsInv

LEMMA RunTypes ==
    ASSUME BusTypes, NEW i \in Runs
    PROVE  run[i] \in [pc : RunPc, todo : SUBSET Ports, found : SUBSET Ports]
BY DEF BusTypes

LEMMA TestKeepsPorts ==
    ASSUME BusTypes, PortsInv, NEW i \in Runs, TestPort(i)
    PROVE  BusTypes' /\ PortsInv'
<1>1. upset \subseteq upset'
  BY DEF TestPort, Calm, Mishap
<1>2. run[i].pc = "scan" /\ run[i].todo # {}
  BY DEF TestPort
<1> DEFINE p == CHOOSE p \in run[i].todo : TRUE
<1>3. p \in Ports
  BY <1>2, RunTypes
<1>4. UNCHANGED <<running, portState, portStep, callbacks, connectedPorts, timers>>
  BY DEF TestPort
<1>5. PICK r \in [pc : {"scan", "test"}, todo : SUBSET Ports, found : SUBSET Ports] :
          run' = [run EXCEPT ![i] = r] /\ (r.pc = "test" => r.todo # {})
  <2>1. run' = [run EXCEPT ![i].todo = @ \ {p}] \/ run' = [run EXCEPT ![i].pc = "test"]
    BY DEF TestPort
  <2>2. CASE run' = [run EXCEPT ![i].todo = @ \ {p}]
    <3>1. [run[i] EXCEPT !.todo = @ \ {p}] \in
              [pc : {"scan", "test"}, todo : SUBSET Ports, found : SUBSET Ports]
      BY <1>2, RunTypes
    <3>2. run' = [run EXCEPT ![i] = [run[i] EXCEPT !.todo = @ \ {p}]]
      BY <2>2
    <3>3. [run[i] EXCEPT !.todo = @ \ {p}].pc = "scan"
      BY <1>2, RunTypes
    <3> QED  BY <3>1, <3>2, <3>3
  <2>3. CASE run' = [run EXCEPT ![i].pc = "test"]
    <3>1. [run[i] EXCEPT !.pc = "test"] \in
              [pc : {"scan", "test"}, todo : SUBSET Ports, found : SUBSET Ports]
      BY RunTypes
    <3>2. run' = [run EXCEPT ![i] = [run[i] EXCEPT !.pc = "test"]]
      BY <2>3
    <3>3. [run[i] EXCEPT !.pc = "test"].todo = run[i].todo
      BY RunTypes
    <3> QED  BY <1>2, <3>1, <3>2, <3>3
  <2> QED  BY <2>1, <2>2, <2>3
<1>6. PICK state \in {"open", "closed"} : link' = [link EXCEPT ![p] = state]
  <2>1. link' = link \/ link' = [link EXCEPT ![p] = "open"]
    BY DEF TestPort
  <2>2. link[p] \in {"open", "closed"} /\ link = [link EXCEPT ![p] = link[p]]
    BY <1>3 DEF BusTypes
  <2> QED  BY <2>1, <2>2
<1> HIDE DEF p
<1> QED  BY <1>1, <1>2, <1>3, <1>4, <1>5, <1>6, RunGoesOn

LEMMA TestedKeepsPorts ==
    ASSUME BusTypes, PortsInv, NEW i \in Runs, PortTested(i)
    PROVE  BusTypes' /\ PortsInv'
<1>1. upset \subseteq upset'
  BY DEF PortTested, Calm, Mishap
<1>2. run[i].pc = "test" /\ run[i].todo # {}
  BY DEF PortTested, PortsInv, TestHasPort
<1> DEFINE p == CHOOSE p \in run[i].todo : TRUE
<1>3. p \in Ports
  BY <1>2, RunTypes
<1>4. UNCHANGED <<running, portState, portStep, callbacks, connectedPorts, timers>>
  BY DEF PortTested
<1>5. PICK found \in {{p}, {}} :
          run' = [run EXCEPT ![i] = [pc |-> "scan", todo |-> @.todo \ {p},
                                     found |-> @.found \cup found]]
  BY DEF PortTested
<1> DEFINE r == [pc |-> "scan", todo |-> run[i].todo \ {p}, found |-> run[i].found \cup found]
<1>6. r \in [pc : {"scan", "test"}, todo : SUBSET Ports, found : SUBSET Ports]
  BY <1>3, RunTypes
<1>7. run' = [run EXCEPT ![i] = r] /\ r.pc = "scan"
  BY <1>5
<1>8. link' = [link EXCEPT ![p] = "closed"]
  BY DEF PortTested
<1> HIDE DEF p, r
<1> QED  BY <1>1, <1>2, <1>3, <1>4, <1>6, <1>7, <1>8, RunGoesOn

LEMMA ScanDoneKeepsPorts ==
    ASSUME BusTypes, PortsInv, NEW i \in Runs, ScanDone(i)
    PROVE  BusTypes' /\ PortsInv'
<1>1. UNCHANGED <<upset, link, portState, callbacks, running>> /\ run[i].pc = "scan"
  BY DEF ScanDone, Calm
<1>2. CASE run' = [run EXCEPT ![i].pc = "off"] /\ UNCHANGED <<connectedPorts, portStep>>
           /\ timers' \in {timers, timers + 1} /\ timers' <= 2
  <2>1. BusTypes'
    <3>1. [run[i] EXCEPT !.pc = "off"] \in [pc : RunPc, todo : SUBSET Ports, found : SUBSET Ports]
      BY RunTypes DEF RunPc
    <3>2. run' \in [Runs -> [pc : RunPc, todo : SUBSET Ports, found : SUBSET Ports]]
      BY <1>2, <3>1 DEF BusTypes
    <3>3. timers' \in 0..2
      BY <1>2 DEF BusTypes
    <3> QED  BY <1>1, <1>2, <3>2, <3>3 DEF BusTypes
  <2>2. run'[i].pc = "off" /\ \A j \in Runs : j # i => run'[j] = run[j]
    BY <1>2 DEF BusTypes
  <2>3. TestHasPort' /\ OneRun' /\ QuietBefore' /\ UnheardOnTheWay' /\ TestedBefore'
    BY <1>1, <1>2, <2>2 DEF PortsInv, TestHasPort, OneRun, QuietBefore, UnheardOnTheWay, TestedBefore
  <2>4. ReadOnce' /\ ConnectedIsOpen'
    BY <1>1 DEF PortsInv, ReadOnce, ConnectedIsOpen
  <2> QED  BY <2>1, <2>3, <2>4 DEF PortsInv
<1>3. CASE ~running /\ run' = [run EXCEPT ![i].pc = "start"] /\ connectedPorts' = run[i].found
           /\ portStep' = [p \in Ports |->
                  IF p \in run[i].found /\ portStep[p] = "idle" THEN "checking" ELSE portStep[p]]
           /\ UNCHANGED timers
  <2>1. BusTypes'
    <3>1. [run[i] EXCEPT !.pc = "start"] \in [pc : RunPc, todo : SUBSET Ports, found : SUBSET Ports]
      BY RunTypes DEF RunPc
    <3>2. run' \in [Runs -> [pc : RunPc, todo : SUBSET Ports, found : SUBSET Ports]]
      BY <1>3, <3>1 DEF BusTypes
    <3>3. portStep' \in [Ports -> PortStep]
      BY <1>3 DEF BusTypes, PortStep
    <3>4. connectedPorts' \subseteq Ports
      BY <1>3, RunTypes
    <3> QED  BY <1>1, <1>3, <3>2, <3>3, <3>4 DEF BusTypes
  <2>2. run'[i].pc = "start" /\ \A j \in Runs : j # i => run'[j] = run[j]
    BY <1>3 DEF BusTypes
  <2>3. TestHasPort' /\ OneRun' /\ TestedBefore'
    BY <1>1, <1>3, <2>2 DEF PortsInv, TestHasPort, OneRun, TestedBefore
  <2>4. QuietBefore'
    BY <2>2 DEF QuietBefore
  <2>5. UnheardOnTheWay'
    <3> SUFFICES ASSUME "overlap" \notin upset
                 PROVE  \A p \in Ports : callbacks[p] = 0 /\ portState[p] # "connected"
      BY <1>1 DEF UnheardOnTheWay
    <3>1. \A j \in Runs : run[j].pc # "start"
      BY <1>1 DEF PortsInv, OneRun
    <3> QED  BY <1>3, <3>1 DEF PortsInv, QuietBefore
  <2>6. ReadOnce' /\ ConnectedIsOpen'
    BY <1>1 DEF PortsInv, ReadOnce, ConnectedIsOpen
  <2> QED  BY <2>1, <2>3, <2>4, <2>5, <2>6 DEF PortsInv
<1> QED
  <2>1. timers \in 0..2
    BY DEF BusTypes
  <2> QED  BY <1>2, <1>3, <2>1 DEF ScanDone

LEMMA StartedKeepsPorts ==
    ASSUME BusTypes, PortsInv, NEW i \in Runs, Started(i)
    PROVE  BusTypes' /\ PortsInv'
<1>1. UNCHANGED <<upset, timers, connectedPorts, link, portState, portStep, callbacks>>
      /\ run[i].pc = "start" /\ running' = TRUE /\ run' = [run EXCEPT ![i].pc = "off"]
  BY DEF Started, Calm, portVars
<1>2. BusTypes'
  <2>1. [run[i] EXCEPT !.pc = "off"] \in [pc : RunPc, todo : SUBSET Ports, found : SUBSET Ports]
    BY RunTypes DEF RunPc
  <2>2. run' \in [Runs -> [pc : RunPc, todo : SUBSET Ports, found : SUBSET Ports]]
    BY <1>1, <2>1 DEF BusTypes
  <2> QED  BY <1>1, <2>2 DEF BusTypes
<1>3. run'[i].pc = "off" /\ \A j \in Runs : j # i => run'[j] = run[j]
  BY <1>1 DEF BusTypes
<1>4. TestHasPort' /\ OneRun' /\ QuietBefore' /\ UnheardOnTheWay'
  BY <1>1, <1>3 DEF PortsInv, TestHasPort, OneRun, QuietBefore, UnheardOnTheWay
<1>5. TestedBefore'
  BY <1>1, <1>3 DEF PortsInv, OneRun, TestedBefore
<1>6. ReadOnce' /\ ConnectedIsOpen'
  BY <1>1 DEF PortsInv, ReadOnce, ConnectedIsOpen
<1> QED  BY <1>2, <1>4, <1>5, <1>6 DEF PortsInv

LEMMA TimerKeepsPorts ==
    ASSUME BusTypes, PortsInv, NEW i \in Runs, TimerFires(i)
    PROVE  BusTypes' /\ PortsInv'
<1>1. /\ UNCHANGED <<timers, connectedPorts, running, link, portState, portStep, callbacks>>
      /\ run[i].pc = "off"
      /\ run' = [run EXCEPT ![i] = [pc |-> "scan", todo |-> Ports, found |-> {}]]
  BY DEF TimerFires, portVars
<1>2. /\ upset \subseteq upset'
      /\ (\E j \in Runs : run[j].pc # "off") => "overlap" \in upset'
      /\ running => "overlap" \in upset' \/ "late" \in upset'
  BY DEF TimerFires, Calm, Mishap
<1>3. BusTypes'
  <2>1. [pc |-> "scan", todo |-> Ports, found |-> {}] \in
            [pc : RunPc, todo : SUBSET Ports, found : SUBSET Ports]
    BY DEF RunPc
  <2>2. run' \in [Runs -> [pc : RunPc, todo : SUBSET Ports, found : SUBSET Ports]]
    BY <1>1, <2>1 DEF BusTypes
  <2> QED  BY <1>1, <2>2 DEF BusTypes
<1>4. run'[i].pc = "scan" /\ \A j \in Runs : j # i => run'[j] = run[j]
  BY <1>1 DEF BusTypes
<1>5. TestHasPort' /\ OneRun'
  BY <1>2, <1>4 DEF PortsInv, TestHasPort, OneRun
<1>6. QuietBefore' /\ UnheardOnTheWay'
  BY <1>1, <1>2, <1>4 DEF PortsInv, QuietBefore, UnheardOnTheWay
<1>7. TestedBefore'
  BY <1>1, <1>2, <1>4 DEF PortsInv, TestedBefore
<1>8. ReadOnce' /\ ConnectedIsOpen'
  BY <1>1, <1>2 DEF PortsInv, ReadOnce, ConnectedIsOpen
<1> QED  BY <1>3, <1>5, <1>6, <1>7, <1>8 DEF PortsInv

\* A port that is connected or was moves on.
LEMMA PortMoves ==
    ASSUME BusTypes, PortsInv, upset \subseteq upset',
           UNCHANGED <<run, running, connectedPorts, timers>>, NEW p \in Ports,
           link' \in [Ports -> {"open", "closed"}], portState' \in [Ports -> PortState],
           portStep' \in [Ports -> PortStep], callbacks' \in [Ports -> Nat],
           \A q \in Ports : q # p =>
               /\ link'[q] = link[q] /\ portState'[q] = portState[q]
               /\ portStep'[q] = portStep[q] /\ callbacks'[q] = callbacks[q],
           portStep[p] # "idle" \/ callbacks[p] > 0,
           "overlap" \in upset \/
               /\ portState'[p] = "connected" => link'[p] = "open"
               /\ callbacks'[p] <= 1
               /\ portStep'[p] # "idle" => callbacks'[p] = 0 /\ portState'[p] # "connected"
    PROVE  BusTypes' /\ PortsInv'
<1>1. BusTypes'
  BY DEF BusTypes
<1>2. TestHasPort' /\ OneRun' /\ TestedBefore'
  BY DEF PortsInv, TestHasPort, OneRun, TestedBefore
<1>3. QuietBefore'
  <2>1. "overlap" \notin upset /\ ~running => \E i \in Runs : run[i].pc = "start"
    BY DEF PortsInv, QuietBefore, BusTypes
  <2> QED  BY <2>1 DEF QuietBefore
<1>4. UnheardOnTheWay' /\ ReadOnce'
  BY DEF PortsInv, UnheardOnTheWay, ReadOnce
<1>5. ConnectedIsOpen'
  BY DEF PortsInv, ConnectedIsOpen
<1> QED  BY <1>1, <1>2, <1>3, <1>4, <1>5 DEF PortsInv

LEMMA ConnectKeepsPorts ==
    ASSUME BusTypes, PortsInv, NEW p \in Ports, Connect(p)
    PROVE  BusTypes' /\ PortsInv'
<1>1. /\ portStep[p] = "checking" /\ UNCHANGED <<run, running, connectedPorts, timers, upset, callbacks>>
      /\ portState' = [portState EXCEPT ![p] = "connecting"]
      /\ link' = [link EXCEPT ![p] = "closed"]
  BY DEF Connect, Calm, runVars
<1>2. PICK t \in {"reopening", "opening"} : portStep' = [portStep EXCEPT ![p] = t]
  BY DEF Connect, Step
<1>3. /\ link' \in [Ports -> {"open", "closed"}] /\ portState' \in [Ports -> PortState]
      /\ portStep' \in [Ports -> PortStep] /\ callbacks' \in [Ports -> Nat]
  BY <1>1, <1>2 DEF BusTypes, PortState, PortStep
<1>4. "overlap" \notin upset => callbacks[p] = 0
  BY <1>1 DEF PortsInv, UnheardOnTheWay
<1>5. portState'[p] = "connecting" /\ callbacks'[p] = callbacks[p]
  BY <1>1 DEF BusTypes
<1>6. \A q \in Ports : q # p => /\ link'[q] = link[q] /\ portState'[q] = portState[q]
                                /\ portStep'[q] = portStep[q] /\ callbacks'[q] = callbacks[q]
  BY <1>1, <1>2 DEF BusTypes
<1> QED  BY <1>1, <1>3, <1>4, <1>5, <1>6, PortMoves

\* The waits of a port on its way.
LEMMA WaitKeepsPorts ==
    ASSUME BusTypes, PortsInv, NEW p \in Ports, Reopen(p) \/ Recover(p)
    PROVE  BusTypes' /\ PortsInv'
<1>1. /\ portStep[p] # "idle" /\ UNCHANGED <<run, running, connectedPorts, timers, upset>>
      /\ UNCHANGED <<link, portState, callbacks>>
  BY DEF Reopen, Recover, Calm, runVars
<1>2. PICK t \in {"opening", "checking"} : portStep' = [portStep EXCEPT ![p] = t]
  BY DEF Reopen, Recover, Step
<1>3. /\ link' \in [Ports -> {"open", "closed"}] /\ portState' \in [Ports -> PortState]
      /\ portStep' \in [Ports -> PortStep] /\ callbacks' \in [Ports -> Nat]
  BY <1>1, <1>2 DEF BusTypes, PortStep
<1>4. "overlap" \notin upset => callbacks[p] = 0 /\ portState[p] # "connected"
  BY <1>1 DEF PortsInv, UnheardOnTheWay
<1>5. \A q \in Ports : q # p => portStep'[q] = portStep[q]
  BY <1>2 DEF BusTypes
<1> QED  BY <1>1, <1>3, <1>4, <1>5, PortMoves

LEMMA OpenKeepsPorts ==
    ASSUME BusTypes, PortsInv, NEW p \in Ports, OpenForReading(p)
    PROVE  BusTypes' /\ PortsInv'
<1>1. /\ portStep[p] = "opening" /\ UNCHANGED <<run, running, connectedPorts, timers, callbacks>>
      /\ upset \subseteq upset'
  BY DEF OpenForReading, Calm, Mishap, runVars
<1>2. "overlap" \notin upset => callbacks[p] = 0 /\ portState[p] # "connected"
  BY <1>1 DEF PortsInv, UnheardOnTheWay
<1>3. CASE /\ link' = [link EXCEPT ![p] = "open"] /\ UNCHANGED portState
           /\ portStep' = [portStep EXCEPT ![p] = "verifying"]
  <2>1. /\ link' \in [Ports -> {"open", "closed"}] /\ portState' \in [Ports -> PortState]
        /\ portStep' \in [Ports -> PortStep] /\ callbacks' \in [Ports -> Nat]
    BY <1>1, <1>3 DEF BusTypes, PortStep
  <2>2. \A q \in Ports : q # p => link'[q] = link[q] /\ portStep'[q] = portStep[q]
    BY <1>3 DEF BusTypes
  <2> QED  BY <1>1, <1>2, <1>3, <2>1, <2>2, PortMoves
<1>4. CASE /\ portState' = [portState EXCEPT ![p] = "disconnected"] /\ UNCHANGED link
           /\ portStep' = [portStep EXCEPT ![p] = "idle"]
  <2>1. /\ link' \in [Ports -> {"open", "closed"}] /\ portState' \in [Ports -> PortState]
        /\ portStep' \in [Ports -> PortStep] /\ callbacks' \in [Ports -> Nat]
    BY <1>1, <1>4 DEF BusTypes, PortStep, PortState
  <2>2. /\ portState'[p] = "disconnected" /\ portStep'[p] = "idle"
        /\ \A q \in Ports : q # p => portState'[q] = portState[q] /\ portStep'[q] = portStep[q]
    BY <1>4 DEF BusTypes
  <2> QED  BY <1>1, <1>2, <1>4, <2>1, <2>2, PortMoves
<1> QED  BY <1>3, <1>4 DEF OpenForReading, Step

LEMMA VerifiedKeepsPorts ==
    ASSUME BusTypes, PortsInv, NEW p \in Ports, Verified(p)
    PROVE  BusTypes' /\ PortsInv'
<1>1. /\ portStep[p] = "verifying" /\ UNCHANGED <<run, running, connectedPorts, timers, upset, link>>
      /\ portStep' = [portStep EXCEPT ![p] = "idle"]
  BY DEF Verified, Calm, Step, runVars
<1>2. "overlap" \notin upset => callbacks[p] = 0 /\ portState[p] # "connected"
  BY <1>1 DEF PortsInv, UnheardOnTheWay
<1>3. /\ portStep' \in [Ports -> PortStep] /\ portStep'[p] = "idle"
      /\ \A q \in Ports : q # p => portStep'[q] = portStep[q]
  BY <1>1 DEF BusTypes, PortStep
<1>4. CASE link[p] = "open"
  <2>1. callbacks' = [callbacks EXCEPT ![p] = @ + 1]
        /\ portState' = [portState EXCEPT ![p] = "connected"]
    BY <1>4 DEF Verified
  <2>2. /\ link' \in [Ports -> {"open", "closed"}] /\ portState' \in [Ports -> PortState]
        /\ callbacks' \in [Ports -> Nat]
    BY <1>1, <2>1 DEF BusTypes, PortState
  <2>3. /\ callbacks'[p] = callbacks[p] + 1
        /\ \A q \in Ports : q # p => portState'[q] = portState[q] /\ callbacks'[q] = callbacks[q]
    BY <2>1 DEF BusTypes
  <2> QED  BY <1>1, <1>2, <1>3, <1>4, <2>2, <2>3, PortMoves
<1>5. CASE link[p] # "open"
  <2>1. UNCHANGED callbacks /\ portState' = [portState EXCEPT ![p] = "disconnected"]
    BY <1>5 DEF Verified
  <2>2. /\ link' \in [Ports -> {"open", "closed"}] /\ portState' \in [Ports -> PortState]
        /\ callbacks' \in [Ports -> Nat]
    BY <1>1, <2>1 DEF BusTypes, PortState
  <2>3. /\ portState'[p] = "disconnected"
        /\ \A q \in Ports : q # p => portState'[q] = portState[q]
    BY <2>1 DEF BusTypes
  <2> QED  BY <1>1, <1>2, <1>3, <2>1, <2>2, <2>3, PortMoves
<1> QED  BY <1>4, <1>5

LEMMA ErrorKeepsPorts ==
    ASSUME BusTypes, PortsInv, NEW p \in Ports, CriticalError(p)
    PROVE  BusTypes' /\ PortsInv'
<1>1. /\ callbacks[p] > 0 /\ UNCHANGED <<run, running, connectedPorts, timers, link>>
      /\ upset \subseteq upset'
      /\ portState' = [portState EXCEPT ![p] = "disconnecting"]
      /\ callbacks' = [callbacks EXCEPT ![p] = @ - 1]
      /\ portStep' = [portStep EXCEPT ![p] = "dropping"]
  BY DEF CriticalError, Mishap, Step, runVars
<1>2. "overlap" \notin upset => callbacks[p] <= 1
  BY DEF PortsInv, ReadOnce
<1>3. callbacks[p] \in Nat \ {0}
  BY <1>1 DEF BusTypes
<1>4. /\ link' \in [Ports -> {"open", "closed"}] /\ portState' \in [Ports -> PortState]
      /\ portStep' \in [Ports -> PortStep]
  BY <1>1 DEF BusTypes, PortStep, PortState
<1>5. callbacks' \in [Ports -> Nat]
  BY <1>1, <1>3 DEF BusTypes
<1>6. /\ portState'[p] = "disconnecting" /\ callbacks'[p] = callbacks[p] - 1
      /\ \A q \in Ports : q # p => /\ portState'[q] = portState[q]
                                   /\ portStep'[q] = portStep[q] /\ callbacks'[q] = callbacks[q]
  BY <1>1 DEF BusTypes
<1>7. "overlap" \notin upset => callbacks'[p] = 0
  BY <1>2, <1>3, <1>6
<1> QED  BY <1>1, <1>4, <1>5, <1>6, <1>7, PortMoves

LEMMA DroppedKeepsPorts ==
    ASSUME BusTypes, PortsInv, NEW p \in Ports, Dropped(p)
    PROVE  BusTypes' /\ PortsInv'
<1>1. /\ portStep[p] = "dropping" /\ UNCHANGED <<run, running, connectedPorts, timers, upset, callbacks>>
      /\ portState' = [portState EXCEPT ![p] = "disconnected"]
      /\ link' = [link EXCEPT ![p] = "closed"]
      /\ portStep' = [portStep EXCEPT ![p] = "pausing"]
  BY DEF Dropped, Calm, Step, runVars
<1>2. "overlap" \notin upset => callbacks[p] = 0
  BY <1>1 DEF PortsInv, UnheardOnTheWay
<1>3. /\ link' \in [Ports -> {"open", "closed"}] /\ portState' \in [Ports -> PortState]
      /\ portStep' \in [Ports -> PortStep] /\ callbacks' \in [Ports -> Nat]
  BY <1>1 DEF BusTypes, PortStep, PortState
<1>4. /\ portState'[p] = "disconnected"
      /\ \A q \in Ports : q # p => /\ link'[q] = link[q] /\ portState'[q] = portState[q]
                                   /\ portStep'[q] = portStep[q]
  BY <1>1 DEF BusTypes
<1> QED  BY <1>1, <1>2, <1>3, <1>4, PortMoves

LEMMA SilentKeepsPorts ==
    ASSUME BusTypes, PortsInv, NEW p \in Ports, SilentClose(p)
    PROVE  BusTypes' /\ PortsInv'
<1>1. /\ UNCHANGED <<run, running, connectedPorts, timers, callbacks, portStep, portState>>
      /\ link' = [link EXCEPT ![p] = "closed"] /\ upset' = upset \cup {"unplugged"}
  BY DEF SilentClose, Mishap, runVars
<1>2. BusTypes'
  BY <1>1 DEF BusTypes
<1>3. TestHasPort' /\ OneRun' /\ QuietBefore' /\ UnheardOnTheWay' /\ TestedBefore'
  BY <1>1 DEF PortsInv, TestHasPort, OneRun, QuietBefore, UnheardOnTheWay, TestedBefore
<1>4. ReadOnce' /\ ConnectedIsOpen'
  BY <1>1 DEF PortsInv, ReadOnce, ConnectedIsOpen
<1> QED  BY <1>2, <1>3, <1>4 DEF PortsInv
-----------------------------------------------------------------------------
LEMMA PollingStart == BusInit => ReadTypes /\ PollingInv
<1> SUFFICES ASSUME BusInit PROVE ReadTypes /\ PollingInv
  OBVIOUS
<1>1. /\ comId \in ComIds /\ online = {} /\ active = {} /\ polled = {} /\ discovery = {}
      /\ asked = {} /\ room = [c \in Clients |-> NoRoom] /\ joined = [c \in Clients |-> {}]
  BY DEF BusInit
<1>2. ReadTypes
  BY <1>1 DEF ReadTypes
<1> QED
  BY <1>1, <1>2 DEF PollingInv, PolledIsActive, OneRoom, PollingFollowsRooms,
                    WatchedIsPolled, PolledIsWatched

\* Steps that leave the active cells and the rooms alone.
LEMMA PollingAlone ==
    ASSUME ReadTypes, PollingInv, upset \subseteq upset',
           UNCHANGED <<comId, active, polled, room, joined>>,
           online' \subseteq Cells, discovery' \subseteq Cells, asked' \subseteq Ports \X Cells
    PROVE  ReadTypes' /\ PollingInv'
<1>1. ReadTypes'
  BY DEF ReadTypes
<1>2. PolledIsActive' /\ OneRoom'
  BY DEF PollingInv, PolledIsActive, OneRoom
<1>3. WatchedIsPolled' /\ PolledIsWatched'
  BY DEF PollingInv, PollingFollowsRooms, WatchedIsPolled, PolledIsWatched
<1> QED  BY <1>1, <1>2, <1>3 DEF PollingInv, PollingFollowsRooms

LEMMA AskedCells ==
    ASSUME ReadTypes, NEW c \in Cells, Ask(c), connectedPorts \subseteq Ports
    PROVE  asked' \subseteq Ports \X Cells
BY DEF ReadTypes, Ask

\* A cell is on line by its address: its number is the address, or nobody finds it.
LEMMA NumberIsAddress ==
    ASSUME ReadTypes, NEW c \in Cells, DeviceId(c) \in Cells
    PROVE  comId = 0 /\ DeviceId(c) = c
<1>1. comId \in Nat /\ c \in 1..99 /\ comId * 100 + c \in 1..99
  BY BusConstants DEF ReadTypes, DeviceId
<1> QED  BY <1>1 DEF DeviceId

LEMMA ReplaceKeepsPolling ==
    ASSUME ReadTypes, PollingInv, NEW ids \in SUBSET DeviceIds, ReplaceActive(ids)
    PROVE  ReadTypes' /\ PollingInv'
<1>1. /\ active' = ids \cap online /\ polled' = {c \in Cells : c \in ids \cap online}
      /\ upset' = upset \cup {"replaced"}
      /\ UNCHANGED <<comId, online, discovery, asked, room, joined>>
  BY DEF ReplaceActive, SetActive, Mishap, wsVars
<1>2. ReadTypes' /\ PolledIsActive'
  BY <1>1 DEF ReadTypes, PolledIsActive
<1>3. OneRoom' /\ PollingFollowsRooms'
  BY <1>1 DEF PollingInv, OneRoom, PollingFollowsRooms, WatchedIsPolled, PolledIsWatched
<1> QED  BY <1>2, <1>3 DEF PollingInv

LEMMA JoinKeepsPolling ==
    ASSUME ReadTypes, PollingInv, NEW w \in Clients, NEW c \in Cells, JoinRoom(w, c)
    PROVE  ReadTypes' /\ PollingInv'
<1>1. /\ joined' = [joined EXCEPT ![w] = @ \cup {c}] /\ room' = [room EXCEPT ![w] = c]
      /\ UNCHANGED <<comId, online, discovery, asked>>
  BY DEF JoinRoom
<1>2. /\ joined'[w] = joined[w] \cup {c} /\ room'[w] = c
      /\ \A v \in Clients : v # w => joined'[v] = joined[v] /\ room'[v] = room[v]
      /\ joined' \in [Clients -> SUBSET Cells] /\ room' \in [Clients -> Cells \cup {NoRoom}]
  BY <1>1 DEF ReadTypes
<1>3. CASE StartReading({DeviceId(c)}) /\
           upset' = upset \cup (IF room[w] \notin {NoRoom, c} THEN {"moved"} ELSE {})
                          \cup (IF DeviceId(c) \notin online THEN {"skipped"} ELSE {})
  <2>1. /\ active' = active \cup ({DeviceId(c)} \cap online)
        /\ polled' = {d \in Cells : d \in active'}
    BY <1>3 DEF StartReading, SetActive
  <2>2. /\ active \subseteq Cells /\ polled = active /\ online \subseteq Cells
        /\ active \subseteq DeviceIds /\ DeviceId(c) \in DeviceIds
    BY DEF PollingInv, PolledIsActive, ReadTypes, DeviceIds, DeviceId
  <2>3. polled' = active' /\ active' \subseteq Cells /\ active' \subseteq DeviceIds
    BY <2>1, <2>2
  <2>4. DeviceId(c) \in online => comId = 0 /\ DeviceId(c) = c
    BY <2>2, NumberIsAddress
  <2>5. ReadTypes'
    BY <1>1, <1>2, <2>2, <2>3 DEF ReadTypes
  <2>6. PolledIsActive'
    <3>1. CASE DeviceId(c) \in online
      BY <1>1, <2>3, <2>4, <3>1 DEF PolledIsActive
    <3>2. CASE DeviceId(c) \notin online
      <4>1. active' = active /\ upset \subseteq upset'
        BY <1>3, <2>1, <3>2
      <4> QED  BY <1>1, <2>3, <4>1 DEF PollingInv, PolledIsActive
    <3> QED  BY <3>1, <3>2
  <2>7. OneRoom'
    <3> SUFFICES ASSUME "moved" \notin upset' PROVE \A v \in Clients : joined'[v] \subseteq {room'[v]}
      BY DEF OneRoom
    <3>1. "moved" \notin upset /\ room[w] \in {NoRoom, c}
      BY <1>3
    <3>2. joined[w] \subseteq {room[w]} /\ joined[w] \subseteq Cells /\ NoRoom \notin Cells
      BY <3>1, BusConstants DEF PollingInv, OneRoom, ReadTypes, NoRoom
    <3>3. joined[w] \subseteq {c}
      BY <3>1, <3>2
    <3> QED  BY <1>2, <3>1, <3>3 DEF PollingInv, OneRoom
  <2>8. WatchedIsPolled'
    <3> SUFFICES ASSUME upset' \cap {"lost", "skipped", "shared", "replaced"} = {},
                        NEW v \in Clients, NEW d \in joined'[v]
                 PROVE  d \in polled'
      BY DEF WatchedIsPolled
    <3>1. upset \cap {"lost", "skipped", "shared", "replaced"} = {} /\ DeviceId(c) \in online
      BY <1>3
    <3>2. c \in active' /\ active \subseteq active'
      BY <2>1, <2>4, <3>1
    <3>3. d \in joined[v] \/ d = c
      BY <1>2
    <3>4. d \in joined[v] => d \in polled
      BY <3>1 DEF PollingInv, PollingFollowsRooms, WatchedIsPolled
    <3> QED  BY <2>2, <2>3, <3>2, <3>3, <3>4
  <2>9. PolledIsWatched'
    <3> SUFFICES ASSUME upset' \cap {"moved", "replaced"} = {}, NEW d \in polled'
                 PROVE  \E v \in Clients : d \in joined'[v]
      BY DEF PolledIsWatched
    <3>1. upset \cap {"moved", "replaced"} = {}
      BY <1>3
    <3>2. d \in polled \/ d = c
      BY <2>1, <2>2, <2>4
    <3>3. d \in polled => \E v \in Clients : d \in joined[v]
      BY <3>1 DEF PollingInv, PollingFollowsRooms, PolledIsWatched
    <3> QED  BY <1>2, <3>2, <3>3
  <2> QED  BY <2>5, <2>6, <2>7, <2>8, <2>9 DEF PollingInv, PollingFollowsRooms
<1>4. CASE UNCHANGED <<active, polled>> /\ upset' = upset \cup {"lost", "moved"}
  <2>1. ReadTypes'
    BY <1>1, <1>2, <1>4 DEF ReadTypes
  <2>2. PolledIsActive' /\ OneRoom'
    BY <1>1, <1>4 DEF PollingInv, PolledIsActive, OneRoom
  <2>3. PollingFollowsRooms'
    BY <1>4 DEF PollingFollowsRooms, WatchedIsPolled, PolledIsWatched
  <2> QED  BY <2>1, <2>2, <2>3 DEF PollingInv
<1> QED  BY <1>3, <1>4 DEF JoinRoom

\* A socket leaves rooms, and the reading of one cell stops: its last room of that cell.
LEMMA LeavingKeepsPolling ==
    ASSUME ReadTypes, PollingInv, NEW w \in Clients, NEW c \in Cells, NEW rooms \in SUBSET Cells,
           joined' = [joined EXCEPT ![w] = rooms], rooms \subseteq joined[w] \ {c},
           "moved" \in upset \/ joined[w] \subseteq rooms \cup {c},
           room' \in [Clients -> Cells \cup {NoRoom}],
           \A v \in Clients : v # w => room'[v] = room[v], room'[w] = room[w] \/ rooms = {},
           StopReading({DeviceId(c)}), upset \subseteq upset',
           "shared" \in upset' \/ \A v \in Clients : v # w => c \notin joined[v],
           UNCHANGED <<comId, online, discovery, asked>>
    PROVE  ReadTypes' /\ PollingInv'
<1>1. active' = active \ {DeviceId(c)} /\ polled' = {d \in Cells : d \in active'}
  BY DEF StopReading, SetActive
<1>2. active \subseteq Cells /\ polled = active
  BY DEF PollingInv, PolledIsActive
<1>3. polled' = active' /\ active' \subseteq active
  BY <1>1, <1>2
<1>4. /\ joined'[w] = rooms /\ \A v \in Clients : v # w => joined'[v] = joined[v]
      /\ joined' \in [Clients -> SUBSET Cells]
  BY DEF ReadTypes
<1>5. ReadTypes'
  BY <1>2, <1>3, <1>4 DEF ReadTypes
<1>6. PolledIsActive'
  BY <1>2, <1>3 DEF PollingInv, PolledIsActive
<1>7. OneRoom'
  BY <1>4 DEF PollingInv, OneRoom
<1>8. WatchedIsPolled'
  <2> SUFFICES ASSUME upset' \cap {"lost", "skipped", "shared", "replaced"} = {},
                      NEW v \in Clients, NEW d \in joined'[v]
               PROVE  d \in polled'
    BY DEF WatchedIsPolled
  <2>1. upset \cap {"lost", "skipped", "shared", "replaced"} = {}
    OBVIOUS
  <2>2. d \in joined[v] /\ d # c
    BY <1>4
  <2>3. d \in polled
    BY <2>1, <2>2 DEF PollingInv, PollingFollowsRooms, WatchedIsPolled
  <2>4. d # DeviceId(c)
    BY <1>2, <2>2, <2>3, NumberIsAddress
  <2> QED  BY <1>1, <1>2, <1>3, <2>3, <2>4
<1>9. PolledIsWatched'
  <2> SUFFICES ASSUME upset' \cap {"moved", "replaced"} = {}, NEW d \in polled'
               PROVE  \E v \in Clients : d \in joined'[v]
    BY DEF PolledIsWatched
  <2>1. upset \cap {"moved", "replaced"} = {}
    OBVIOUS
  <2>2. d \in active /\ d # DeviceId(c)
    BY <1>1, <1>3
  <2>3. PICK v \in Clients : d \in joined[v]
    BY <1>2, <2>1, <2>2 DEF PollingInv, PollingFollowsRooms, PolledIsWatched
  <2>4. comId = 0
    BY <2>1, <2>2 DEF PollingInv, PolledIsActive
  <2>5. d # c
    BY <2>2, <2>4, BusConstants DEF DeviceId
  <2> QED  BY <1>4, <2>1, <2>3, <2>5
<1> QED  BY <1>5, <1>6, <1>7, <1>8, <1>9 DEF PollingInv, PollingFollowsRooms

LEMMA LeaveKeepsPolling ==
    ASSUME ReadTypes, PollingInv, NEW w \in Clients, NEW c \in Cells, LeaveRoom(w, c)
    PROVE  ReadTypes' /\ PollingInv'
<1>1. /\ joined' = [joined EXCEPT ![w] = @ \ {c}] /\ UNCHANGED room /\ StopReading({DeviceId(c)})
      /\ UNCHANGED <<comId, online, discovery, asked>>
  BY DEF LeaveRoom
<1>2. /\ joined' = [joined EXCEPT ![w] = joined[w] \ {c}] /\ joined[w] \ {c} \in SUBSET Cells
      /\ room' \in [Clients -> Cells \cup {NoRoom}]
  BY <1>1 DEF ReadTypes
<1>3. upset \subseteq upset' /\ ("shared" \in upset' \/ Watchers(c) = {w})
  BY DEF LeaveRoom
<1>4. "shared" \in upset' \/ \A v \in Clients : v # w => c \notin joined[v]
  BY <1>3 DEF Watchers
<1>5. joined[w] \subseteq (joined[w] \ {c}) \cup {c}
  OBVIOUS
<1> QED  BY <1>1, <1>2, <1>3, <1>4, <1>5, LeavingKeepsPolling

LEMMA DisconnectKeepsPolling ==
    ASSUME ReadTypes, PollingInv, NEW w \in Clients, Disconnect(w)
    PROVE  ReadTypes' /\ PollingInv'
<1> DEFINE c == room[w]
<1>1. /\ joined' = [joined EXCEPT ![w] = {}] /\ room' = [room EXCEPT ![w] = NoRoom]
      /\ StopReading({DeviceId(c)}) /\ UNCHANGED <<comId, online, discovery, asked>>
      /\ c # NoRoom
  BY DEF Disconnect
<1>2. c \in Cells /\ {} \in SUBSET Cells
  BY <1>1 DEF ReadTypes
<1>3. /\ room' \in [Clients -> Cells \cup {NoRoom}]
      /\ \A v \in Clients : v # w => room'[v] = room[v]
  BY <1>1 DEF ReadTypes
<1>4. upset \subseteq upset' /\ ("shared" \in upset' \/ Watchers(c) \ {w} = {})
  BY DEF Disconnect
<1>5. "shared" \in upset' \/ \A v \in Clients : v # w => c \notin joined[v]
  BY <1>4 DEF Watchers
<1>6. "moved" \in upset \/ joined[w] \subseteq {} \cup {c}
  BY DEF PollingInv, OneRoom
<1> HIDE DEF c
<1> QED  BY <1>1, <1>2, <1>3, <1>4, <1>5, <1>6, LeavingKeepsPolling
-----------------------------------------------------------------------------
BusInv == BusTypes /\ PortsInv /\ ReadTypes /\ PollingInv

\* The steps of a discovery run leave the cells alone, but for the list of those on line.
LEMMA RunHolds ==
    ASSUME BusInv, NEW i \in Runs,
           TestPort(i) \/ PortTested(i) \/ ScanDone(i) \/ Started(i) \/ TimerFires(i)
    PROVE  BusInv'
<1>1. BusTypes' /\ PortsInv'
  BY TestKeepsPorts, TestedKeepsPorts, ScanDoneKeepsPorts, StartedKeepsPorts, TimerKeepsPorts
  DEF BusInv
<1>2. upset \subseteq upset' /\ UNCHANGED <<comId, active, polled, room, joined>>
  BY DEF TestPort, PortTested, ScanDone, Started, TimerFires, Calm, Mishap, readVars, wsVars
<1>3. online' \subseteq Cells /\ discovery' \subseteq Cells /\ asked' \subseteq Ports \X Cells
  <2>1. online' \in {online, {}} /\ discovery' \in {discovery, Cells} /\ asked' = asked
    BY DEF TestPort, PortTested, ScanDone, Started, TimerFires, readVars
  <2> QED  BY <2>1 DEF BusInv, ReadTypes
<1>4. ReadTypes' /\ PollingInv'
  BY <1>2, <1>3, PollingAlone DEF BusInv
<1> QED  BY <1>1, <1>4 DEF BusInv

LEMMA PortHolds ==
    ASSUME BusInv, NEW p \in Ports,
           \/ Connect(p) \/ Reopen(p) \/ OpenForReading(p) \/ Verified(p)
           \/ CriticalError(p) \/ Dropped(p) \/ Recover(p) \/ SilentClose(p)
    PROVE  BusInv'
<1>1. BusTypes' /\ PortsInv'
  BY ConnectKeepsPorts, WaitKeepsPorts, OpenKeepsPorts, VerifiedKeepsPorts, ErrorKeepsPorts,
     DroppedKeepsPorts, SilentKeepsPorts DEF BusInv
<1>2. /\ upset \subseteq upset'
      /\ UNCHANGED <<comId, active, polled, room, joined, online, discovery, asked>>
  BY DEF Connect, Reopen, OpenForReading, Verified, CriticalError, Dropped, Recover, SilentClose,
         Calm, Mishap, readVars, wsVars
<1>3. online' \subseteq Cells /\ discovery' \subseteq Cells /\ asked' \subseteq Ports \X Cells
  BY <1>2 DEF BusInv, ReadTypes
<1>4. ReadTypes' /\ PollingInv'
  BY <1>2, <1>3, PollingAlone DEF BusInv
<1> QED  BY <1>1, <1>4 DEF BusInv

LEMMA MessageHolds ==
    ASSUME BusInv, NEW c \in Cells,
           SendDiscovery(c) \/ SendPoll(c) \/ \E p \in Ports : CellAnswers(p, c)
    PROVE  BusInv'
<1>1. /\ UNCHANGED <<comId, active, polled, room, joined>>
      /\ UNCHANGED <<run, running, link, portState, portStep, callbacks, connectedPorts, timers>>
      /\ upset \subseteq upset'
  BY DEF SendDiscovery, SendPoll, CellAnswers, Calm, Mishap, portVars, runVars, wsVars
<1>2. online' \subseteq Cells /\ discovery' \subseteq Cells
  BY DEF SendDiscovery, SendPoll, CellAnswers, ProcessReading, BusInv, ReadTypes
<1>3. asked' \subseteq Ports \X Cells
  <2>1. CASE Ask(c)
    BY <2>1, AskedCells DEF BusInv, BusTypes
  <2>2. CASE asked' \subseteq asked
    BY <2>2 DEF BusInv, ReadTypes
  <2> QED  BY <2>1, <2>2 DEF SendDiscovery, SendPoll, CellAnswers
<1>4. ReadTypes' /\ PollingInv'
  BY <1>1, <1>2, <1>3, PollingAlone DEF BusInv
<1>5. BusTypes' /\ PortsInv'
  BY <1>1, PortsAlone DEF BusInv
<1> QED  BY <1>4, <1>5 DEF BusInv

LEMMA RoomHolds ==
    ASSUME BusInv,
           \/ \E ids \in SUBSET DeviceIds : ReplaceActive(ids)
           \/ \E w \in Clients : \/ Disconnect(w)
                                 \/ \E c \in Cells : JoinRoom(w, c) \/ LeaveRoom(w, c)
    PROVE  BusInv'
<1>1. UNCHANGED <<run, running, link, portState, portStep, callbacks, connectedPorts, timers>>
  BY DEF ReplaceActive, Disconnect, JoinRoom, LeaveRoom, portVars, runVars
<1>2. upset \subseteq upset'
  BY DEF ReplaceActive, Disconnect, JoinRoom, LeaveRoom, Mishap
<1>3. BusTypes' /\ PortsInv'
  BY <1>1, <1>2, PortsAlone DEF BusInv
<1>4. ReadTypes' /\ PollingInv'
  BY ReplaceKeepsPolling, DisconnectKeepsPolling, JoinKeepsPolling, LeaveKeepsPolling DEF BusInv
<1> QED  BY <1>3, <1>4 DEF BusInv

LEMMA BusInvariance == BusSpec => []BusInv
<1>1. BusInit => BusInv
  BY PortsStart, PollingStart DEF BusInv
<1>2. BusInv /\ [BusNext]_busVars => BusInv'
  <2> SUFFICES ASSUME BusInv, [BusNext]_busVars PROVE BusInv'
    OBVIOUS
  <2>1. CASE BusNext
    BY <2>1, RunHolds, PortHolds, MessageHolds, RoomHolds DEF BusNext
  <2>2. CASE UNCHANGED busVars
    <3>1. /\ UNCHANGED <<run, running, link, portState, portStep, callbacks, connectedPorts, timers>>
          /\ UNCHANGED <<comId, active, polled, room, joined, online, discovery, asked, upset>>
      BY <2>2 DEF busVars
    <3>2. BusTypes' /\ PortsInv'
      BY <3>1, PortsAlone DEF BusInv
    <3>3. ReadTypes' /\ PollingInv'
      BY <3>1, PollingAlone DEF BusInv, ReadTypes
    <3> QED  BY <3>2, <3>3 DEF BusInv
  <2> QED  BY <2>1, <2>2
<1> QED  BY <1>1, <1>2, PTL DEF BusSpec

\* The books of ports, cells and rooms keep their types.
THEOREM BusTypeCorrect == BusSpec => []BusTypeOK
<1>1. BusInv => BusTypeOK
  BY DEF BusInv, BusTypes, ReadTypes, BusTypeOK
<1> QED  BY <1>1, BusInvariance, PTL

\* However errors, recoveries and discovery runs interleave, a reading is seen once and a
\* port that counts as connected is open, but for the overlaps and silent closes named.
THEOREM PortsStayInOrder == BusSpec => []PortsInOrder
<1>1. BusInv => PortsInOrder
  BY DEF BusInv, PortsInv, PortsInOrder
<1> QED  BY <1>1, BusInvariance, PTL

\* For any number of sockets and cells, what is polled is what somebody watches, but for
\* the lost, skipped, shared and replaced requests named.
THEOREM PollingIsWatched == BusSpec => []PollingFollowsRooms
<1>1. BusInv => PollingFollowsRooms
  BY DEF BusInv, PollingInv
<1> QED  BY <1>1, BusInvariance, PTL

-----------------------------------------------------------------------------
(* The card reader: a reader that is found and heard once.                   *)

LEMMA ReaderConstants == Enter \notin Digits /\ MaxTimers \in Nat /\ MaxTimers >= 2
                         /\ MaxKeys \in Nat /\ Hitches \in Nat
BY ReaderAssumption DEF ReaderAssumption

\* Where a text and the keys of a report meet.
LEMMA TextAndKeys ==
    ASSUME NEW t \in Seq(Digits), NEW keys \in Seq(Keys)
    PROVE  /\ t \o keys \in Seq(Keys) /\ Len(t \o keys) = Len(t) + Len(keys)
           /\ \A i \in 1..Len(t) : (t \o keys)[i] \in Digits /\ (t \o keys)[i] = t[i]
           /\ \A i \in 1..Len(keys) : (t \o keys)[Len(t) + i] = keys[i]
<1>1. t \in Seq(Keys)
  BY DEF Keys
<1>2. \A i \in 1..Len(t) : t[i] \in Digits
  OBVIOUS
<1> QED  BY <1>1, <1>2

\* A line ends at the only Enter of a text that had none and of keys that differ.
LEMMA LineEnds ==
    ASSUME NEW t \in Seq(Digits), NEW keys \in Seq(Keys),
           \A i, j \in 1..Len(keys) : keys[i] = keys[j] => i = j,
           Splits(t \o keys)
    PROVE  \E i \in (Len(t) + 1)..(Len(t) + Len(keys)) :
               /\ (t \o keys)[i] = Enter
               /\ \A j \in 1..(Len(t) + Len(keys)) : j # i => (t \o keys)[j] \in Digits
               /\ Line(t \o keys) = SubSeq(t \o keys, 1, i - 1)
<1> DEFINE s == t \o keys
           First(i) == s[i] = Enter /\ \A j \in 1..(i - 1) : s[j] # Enter
           n == CHOOSE i \in DOMAIN s : First(i)
<1>1. /\ s \in Seq(Keys) /\ Len(s) = Len(t) + Len(keys) /\ DOMAIN s = 1..Len(s)
      /\ \A i \in 1..Len(t) : s[i] \in Digits
      /\ \A i \in 1..Len(keys) : s[Len(t) + i] = keys[i]
      /\ Len(t) \in Nat /\ Len(keys) \in Nat
  BY TextAndKeys
<1> HIDE DEF s
<1>2. PICK i \in 1..Len(s) : s[i] = Enter
  BY <1>1 DEF Splits, s
<1>3. \A j \in 1..Len(s) : j # i => s[j] \in Digits
  <2> SUFFICES ASSUME NEW j \in 1..Len(s), s[j] \notin Digits PROVE j = i
    OBVIOUS
  <2>1. s[j] = Enter
    BY <1>1 DEF Keys
  <2>2. ASSUME NEW m \in {i, j} PROVE m - Len(t) \in 1..Len(keys) /\ keys[m - Len(t)] = Enter
    <3>1. m \in 1..Len(s) /\ s[m] = Enter /\ s[m] \notin Digits
      BY <1>2, <2>1, ReaderConstants
    <3>2. m - Len(t) \in 1..Len(keys) /\ m = Len(t) + (m - Len(t))
      BY <1>1, <3>1
    <3> QED  BY <1>1, <3>1, <3>2
  <2>3. i - Len(t) = j - Len(t)
    BY <2>2
  <2> QED  BY <1>1, <2>3
<1>4. i \in (Len(t) + 1)..(Len(t) + Len(keys))
  BY <1>1, <1>2, ReaderConstants
<1>5. First(i)
  <2>1. \A j \in 1..(i - 1) : j \in 1..Len(s) /\ j # i
    BY <1>1, <1>2
  <2> QED  BY <1>2, <1>3, <2>1, ReaderConstants
<1>6. n \in DOMAIN s /\ First(n)
  <2> HIDE DEF First
  <2>1. \E j \in DOMAIN s : First(j)
    BY <1>1, <1>2, <1>5
  <2> QED  BY <2>1
<1>7. n = i
  BY <1>1, <1>3, <1>6, ReaderConstants
<1>8. Line(s) = SubSeq(s, 1, n - 1)
  BY DEF Line
<1> HIDE DEF n, First
<1> QED  BY <1>1, <1>2, <1>3, <1>4, <1>7, <1>8 DEF s

\* What a report leaves of a text without Enter: a line of digits, and a text without Enter.
LEMMA ReportedText ==
    ASSUME NEW t \in Seq(Digits), NEW keys \in Seq(Keys),
           \A i, j \in 1..Len(keys) : keys[i] = keys[j] => i = j
    PROVE  IF Splits(t \o keys)
           THEN Line(t \o keys) \in Seq(Digits) /\ Rest(t \o keys) \in Seq(Digits)
           ELSE t \o keys \in Seq(Digits)
<1> DEFINE s == t \o keys
<1>1. s \in Seq(Keys) /\ Len(s) = Len(t) + Len(keys) /\ Len(t) \in Nat /\ Len(keys) \in Nat
  BY TextAndKeys
<1> HIDE DEF s
<1>2. CASE Splits(s)
  <2>1. PICK i \in (Len(t) + 1)..(Len(t) + Len(keys)) :
            /\ s[i] = Enter /\ \A j \in 1..(Len(t) + Len(keys)) : j # i => s[j] \in Digits
            /\ Line(s) = SubSeq(s, 1, i - 1)
    BY <1>2, LineEnds DEF s
  <2>2. \A j \in 1..(i - 1) : s[j] \in Digits
    BY <1>1, <2>1
  <2>3. Line(s) \in Seq(Digits) /\ Len(Line(s)) = i - 1
    <3>1. i \in 1..Len(s) /\ i - 1 \in Int /\ 1 \in Int
      BY <1>1
    <3>2. \A j \in 1..(i - 1) : j \in 1..Len(s)
      BY <1>1, <3>1
    <3>3. /\ SubSeq(s, 1, i - 1) \in Seq(Digits)
          /\ Len(SubSeq(s, 1, i - 1)) = IF 1 <= i - 1 THEN (i - 1) - 1 + 1 ELSE 0
      BY <1>1, <2>2, <3>1, <3>2, SubSeqProperties
    <3>4. Len(SubSeq(s, 1, i - 1)) = i - 1
      BY <3>1, <3>3
    <3> QED  BY <2>1, <3>3, <3>4
  <2>4. Rest(s) = SubSeq(s, i + 1, Len(s))
    <3>1. Len(Line(s)) + 2 = i + 1
      BY <1>1, <2>1, <2>3
    <3> QED  BY <3>1 DEF Rest
  <2>5. \A j \in (i + 1)..Len(s) : s[j] \in Digits
    BY <1>1, <2>1
  <2>6. Rest(s) \in Seq(Digits)
    BY <1>1, <2>1, <2>4, <2>5, SubSeqProperties
  <2> QED  BY <1>2, <2>3, <2>6 DEF s
<1>3. CASE ~Splits(s)
  <2>1. \A i \in 1..Len(s) : s[i] \in Digits
    BY <1>1, <1>3 DEF Splits, Keys
  <2>2. s \in [1..Len(s) -> Digits]
    BY <1>1, <2>1
  <2>3. s \in Seq(Digits)
    BY <1>1, <2>2
  <2> QED  BY <1>3, <2>3 DEF s
<1> QED  BY <1>2, <1>3 DEF s

\* Enter alone ends the line: it is the text, and nothing is left.
LEMMA EnterEndsText ==
    ASSUME NEW t \in Seq(Digits)
    PROVE  /\ Splits(t \o <<Enter>>) /\ Line(t \o <<Enter>>) = t
           /\ Rest(t \o <<Enter>>) = <<>>
<1> DEFINE keys == <<Enter>>
           s == t \o keys
<1>1. /\ keys \in Seq(Keys) /\ Len(keys) = 1 /\ keys[1] = Enter
      /\ \A i, j \in 1..Len(keys) : keys[i] = keys[j] => i = j
  <2>1. keys \in Seq(Keys) /\ Len(keys) = 1 /\ keys[1] = Enter
    BY DEF Keys
  <2> HIDE DEF keys
  <2>2. \A i, j \in 1..Len(keys) : i = j
    BY <2>1
  <2> QED  BY <2>1, <2>2
<1>2. /\ s \in Seq(Keys) /\ Len(s) = Len(t) + 1 /\ Len(t) \in Nat
      /\ s[Len(t) + 1] = Enter /\ \A i \in 1..Len(t) : s[i] = t[i]
  <2> HIDE DEF keys
  <2>1. /\ s \in Seq(Keys) /\ Len(s) = Len(t) + Len(keys)
        /\ \A i \in 1..Len(t) : s[i] = t[i]
        /\ \A i \in 1..Len(keys) : s[Len(t) + i] = keys[i]
    BY <1>1, TextAndKeys
  <2>2. Len(t) \in Nat /\ 1 \in 1..Len(keys)
    BY <1>1
  <2> QED  BY <1>1, <2>1, <2>2
<1> HIDE DEF s
<1>3. Splits(s)
  BY <1>2 DEF Splits
<1>4. PICK i \in (Len(t) + 1)..(Len(t) + Len(keys)) : Line(s) = SubSeq(s, 1, i - 1)
  <2> HIDE DEF keys
  <2> QED  BY <1>1, <1>3, LineEnds DEF s
<1>5. Line(s) = SubSeq(s, 1, Len(t))
  BY <1>1, <1>2, <1>4
<1>6. \A j \in 1..Len(t) : s[j] \in Digits /\ s[j] = t[j]
  BY <1>2
<1>7. /\ Line(s) \in Seq(Digits) /\ Len(Line(s)) = Len(t)
      /\ \A j \in 1..Len(t) : Line(s)[j] = t[j]
  <2>1. /\ SubSeq(s, 1, Len(t)) \in Seq(Digits)
        /\ Len(SubSeq(s, 1, Len(t))) = IF 1 <= Len(t) THEN Len(t) - 1 + 1 ELSE 0
        /\ \A j \in 1..(Len(t) - 1 + 1) : SubSeq(s, 1, Len(t))[j] = s[1 + j - 1]
    BY <1>2, <1>6, SubSeqProperties
  <2> QED  BY <1>2, <1>5, <1>6, <2>1
<1>8. Line(s) = t
  BY <1>7, SeqEqual
<1>9. Rest(s) = <<>>
  <2>1. Rest(s) = SubSeq(s, Len(t) + 2, Len(t) + 1)
    BY <1>2, <1>7 DEF Rest
  <2> QED  BY <1>2, <2>1, SubSeqEmpty
<1> QED  BY <1>3, <1>8, <1>9 DEF s

-----------------------------------------------------------------------------
\* The types, variable by variable; no key is down twice, and the text ends no line.
KeyTypes ==
    /\ held \in Seq(Keys) /\ Len(held) <= 2
    /\ \A i, j \in 1..Len(held) : held[i] = held[j] => i = j
    /\ card \in Seq(Digits) /\ text \in Seq(Digits)
    /\ scanned \in Seq(Seq(Digits)) /\ typed \in Seq(Seq(Digits))
    /\ presses \in Nat /\ smeared \in BOOLEAN

LinkTypes ==
    /\ attached \in BOOLEAN /\ opened \in {"none", "live", "dead"} /\ isConnected \in BOOLEAN
    /\ scanning \in BOOLEAN /\ reconnects \in 0..MaxTimers /\ watching \in BOOLEAN
    /\ notices \in Nat /\ listeners \in Nat /\ hitches \in Nat /\ excused \in BOOLEAN

\* The reader is told of once, and listened to once.
HeardOnce == notices + listeners <= 1

\* Whoever may still find the reader finds it for the first time.
FoundOnce ==
    ~isConnected /\ (scanning \/ reconnects > 0 \/ ~watching) => notices = 0 /\ listeners = 0

NotStarted == ~watching => ~scanning /\ reconnects = 0 /\ ~isConnected /\ ~excused

\* A reader that is connected is open as long as nothing excuses the service.
FoundIsOpen ==
    ~excused /\ watching => IF isConnected THEN listeners + notices = 1 /\ opened # "none"
                                           ELSE scanning

\* The line that is read is the card that is typed.
TextIsCard == ~smeared => text = card

LinkInv == LinkTypes /\ HeardOnce /\ FoundOnce /\ NotStarted /\ FoundIsOpen
ReaderInv == LinkInv /\ KeyTypes /\ TextIsCard /\ CardsRead

LEMMA ReaderStart == ReaderInit => ReaderInv
<1> SUFFICES ASSUME ReaderInit PROVE ReaderInv
  OBVIOUS
<1>1. LinkInv
  <2>1. 0 \in 0..MaxTimers
    BY ReaderConstants
  <2>2. LinkTypes
    BY <2>1 DEF ReaderInit, LinkTypes
  <2>3. HeardOnce /\ FoundOnce /\ NotStarted /\ FoundIsOpen
    BY DEF ReaderInit, HeardOnce, FoundOnce, NotStarted, FoundIsOpen
  <2> QED  BY <2>2, <2>3 DEF LinkInv
<1>2. KeyTypes
  <2>1. /\ <<>> \in Seq(Keys) /\ <<>> \in Seq(Digits) /\ <<>> \in Seq(Seq(Digits))
        /\ Len(<<>>) = 0
    BY EmptySeq
  <2> QED  BY <2>1 DEF ReaderInit, KeyTypes
<1> QED  BY <1>1, <1>2 DEF ReaderInit, ReaderInv, TextIsCard, CardsRead

-----------------------------------------------------------------------------
(* Steps of the link leave the keys alone, and steps of the keys the link.   *)

LEMMA KeysAlone ==
    ASSUME KeyTypes, TextIsCard, CardsRead, UNCHANGED keyVars
    PROVE  KeyTypes' /\ TextIsCard' /\ CardsRead'
BY DEF KeyTypes, TextIsCard, CardsRead, keyVars

LEMMA StartHolds == ASSUME LinkInv, StartScanning PROVE LinkInv'
<1>1. PICK failures \in 0..2 :
          /\ hitches' = hitches + failures /\ reconnects' = failures
          /\ isConnected' = (attached /\ failures < 2)
  BY DEF StartScanning
<1>2. /\ ~watching /\ watching' = TRUE /\ scanning' = TRUE /\ excused' = isConnected'
      /\ opened' = IF isConnected' THEN "live" ELSE "none"
      /\ UNCHANGED <<attached, notices, listeners>>
  BY DEF StartScanning
<1>3. notices = 0 /\ listeners = 0
  BY <1>2 DEF LinkInv, NotStarted, FoundOnce
<1>4. LinkTypes'
  <2>1. isConnected' \in BOOLEAN
    BY <1>1
  <2>2. reconnects' \in 0..MaxTimers /\ hitches' \in Nat
    BY <1>1, ReaderConstants DEF LinkInv, LinkTypes
  <2> QED  BY <1>2, <2>1, <2>2 DEF LinkInv, LinkTypes
<1>5. HeardOnce' /\ FoundOnce' /\ NotStarted'
  BY <1>2, <1>3 DEF HeardOnce, FoundOnce, NotStarted
<1>6. FoundIsOpen'
  BY <1>2 DEF FoundIsOpen
<1> QED  BY <1>4, <1>5, <1>6 DEF LinkInv

\* The reader is found while somebody looks for it, so nobody heard of it before.
LEMMA ConnectsHolds ==
    ASSUME LinkInv, Connects, scanning \/ reconnects > 0, reconnects' \in 0..MaxTimers,
           UNCHANGED <<attached, scanning, watching, excused>>
    PROVE  LinkInv'
<1>1. /\ ~isConnected /\ opened' = "live" /\ isConnected' = TRUE
      /\ notices' = notices + 1 /\ listeners' = 0 /\ hitches' = hitches
  BY DEF Connects, MayConnect
<1>2. notices = 0 /\ watching
  BY <1>1 DEF LinkInv, FoundOnce, NotStarted
<1> QED  BY <1>1, <1>2 DEF LinkInv, LinkTypes, HeardOnce, FoundOnce, NotStarted, FoundIsOpen

\* Timers that come and go while the reader is looked for, or after it was found.
LEMMA TimersHold ==
    ASSUME LinkInv, reconnects' \in 0..MaxTimers, scanning \/ reconnects > 0, hitches' \in Nat,
           UNCHANGED <<attached, opened, isConnected, scanning, watching, notices, listeners,
                       excused>>
    PROVE  LinkInv'
BY DEF LinkInv, LinkTypes, HeardOnce, FoundOnce, NotStarted, FoundIsOpen

LEMMA HitchCounts == ASSUME LinkInv, Hitch PROVE hitches' \in Nat
BY DEF LinkInv, LinkTypes, Hitch

LEMMA ScanHolds == ASSUME LinkInv, PeriodicScan PROVE LinkInv'
<1>1. scanning /\ UNCHANGED <<attached, scanning, watching, excused>>
  BY DEF PeriodicScan
<1>2. CASE Connects /\ UNCHANGED reconnects
  BY <1>1, <1>2, ConnectsHolds DEF LinkInv, LinkTypes
<1>3. CASE /\ MayConnect /\ Hitch /\ reconnects < MaxTimers /\ reconnects' = reconnects + 1
           /\ UNCHANGED <<opened, isConnected, notices, listeners>>
  <2>1. reconnects' \in 0..MaxTimers
    BY <1>3, ReaderConstants DEF LinkInv, LinkTypes
  <2> QED  BY <1>1, <1>3, <2>1, HitchCounts, TimersHold
<1> QED  BY <1>2, <1>3 DEF PeriodicScan

LEMMA TimerHolds == ASSUME LinkInv, ReconnectTimer PROVE LinkInv'
<1>1. reconnects > 0 /\ UNCHANGED <<attached, scanning, watching, excused>>
  BY DEF ReconnectTimer
<1>2. reconnects - 1 \in 0..MaxTimers /\ reconnects \in 0..MaxTimers /\ hitches \in Nat
  BY <1>1, ReaderConstants DEF LinkInv, LinkTypes
<1>3. CASE Connects /\ reconnects' = reconnects - 1
  BY <1>1, <1>2, <1>3, ConnectsHolds
<1>4. CASE /\ MayConnect /\ Hitch
           /\ UNCHANGED <<opened, isConnected, notices, listeners, reconnects>>
  BY <1>1, <1>2, <1>4, HitchCounts, TimersHold
<1>5. CASE /\ ~MayConnect /\ reconnects' = reconnects - 1
           /\ UNCHANGED <<opened, isConnected, notices, listeners, hitches>>
  BY <1>1, <1>2, <1>5, TimersHold
<1> QED  BY <1>3, <1>4, <1>5 DEF ReconnectTimer

\* Only a reader that is connected, or one that was closed, is still told of.
LEMMA ListenHolds == ASSUME LinkInv, Listen PROVE LinkInv'
<1>1. /\ notices > 0 /\ notices' = notices - 1
      /\ UNCHANGED <<attached, opened, isConnected, scanning, reconnects, watching>>
  BY DEF Listen
<1>2. notices = 1 /\ listeners = 0 /\ notices' = 0
  BY <1>1 DEF LinkInv, LinkTypes, HeardOnce
<1>3. watching /\ (isConnected \/ (~scanning /\ reconnects = 0))
  BY <1>1 DEF LinkInv, LinkTypes, FoundOnce, NotStarted
<1>4. CASE /\ listeners' = IF opened = "none" THEN listeners ELSE listeners + 1
           /\ UNCHANGED <<excused, hitches>>
  <2>1. listeners' \in {0, 1}
    BY <1>2, <1>4
  <2>2. ~excused => isConnected /\ opened # "none"
    BY <1>3 DEF LinkInv, FoundIsOpen
  <2> QED  BY <1>1, <1>2, <1>3, <1>4, <2>1, <2>2 DEF LinkInv, LinkTypes, HeardOnce, FoundOnce,
              NotStarted, FoundIsOpen
<1>5. CASE Hitch /\ excused' = TRUE /\ UNCHANGED listeners
  <2>1. hitches' \in Nat
    BY <1>5, HitchCounts
  <2> QED  BY <1>1, <1>2, <1>3, <1>5, <2>1 DEF LinkInv, LinkTypes, HeardOnce, FoundOnce,
              NotStarted, FoundIsOpen
<1> QED  BY <1>4, <1>5 DEF Listen

LEMMA PlugsHold == ASSUME LinkInv, PlugIn \/ Unplug PROVE LinkInv'
<1>1. CASE PlugIn
  BY <1>1 DEF PlugIn, LinkInv, LinkTypes, HeardOnce, FoundOnce, NotStarted, FoundIsOpen
<1>2. CASE Unplug
  <2>1. hitches' \in Nat
    BY <1>2, HitchCounts DEF Unplug
  <2> QED  BY <1>2, <2>1 DEF Unplug, LinkInv, LinkTypes, HeardOnce, FoundOnce, NotStarted,
              FoundIsOpen
<1> QED  BY <1>1, <1>2

LEMMA CloseHolds == ASSUME LinkInv, CloseReader PROVE LinkInv'
<1>1. hitches' \in Nat
  BY HitchCounts DEF CloseReader
<1>2. 0 \in 0..MaxTimers
  BY ReaderConstants
<1>3. LinkTypes'
  BY <1>1, <1>2 DEF CloseReader, LinkInv, LinkTypes
<1>4. HeardOnce' /\ FoundOnce' /\ NotStarted' /\ FoundIsOpen'
  BY DEF CloseReader, LinkInv, HeardOnce, FoundOnce, NotStarted, FoundIsOpen
<1> QED  BY <1>3, <1>4 DEF LinkInv

LEMMA LinkHolds ==
    ASSUME ReaderInv, \/ StartScanning \/ PeriodicScan \/ ReconnectTimer \/ Listen
                      \/ PlugIn \/ Unplug \/ CloseReader
    PROVE  ReaderInv'
<1>1. LinkInv'
  BY StartHolds, ScanHolds, TimerHolds, ListenHolds, PlugsHold, CloseHolds DEF ReaderInv
<1>2. UNCHANGED keyVars
  BY DEF StartScanning, PeriodicScan, ReconnectTimer, Listen, PlugIn, Unplug, CloseReader
<1> QED  BY <1>1, <1>2, KeysAlone DEF ReaderInv

LEMMA LinkAlone == ASSUME LinkInv, UNCHANGED <<linkVars, hitches>> PROVE LinkInv'
BY DEF linkVars, LinkInv, LinkTypes, HeardOnce, FoundOnce, NotStarted, FoundIsOpen

-----------------------------------------------------------------------------
(* Reports of keys.                                                          *)

\* The keys that are left when one of two goes up.
LEMMA KeysLeft ==
    ASSUME KeyTypes, NEW i \in 1..Len(held)
    PROVE  /\ RemoveAt(held, i) \in Seq(Keys) /\ Len(RemoveAt(held, i)) = Len(held) - 1
           /\ Len(held) \in 1..2
<1>1. /\ held \in Seq(Keys) /\ Len(held) \in 1..2 /\ i \in Int
      /\ \A j \in 1..Len(held) : held[j] \in Keys
  <2>1. held \in Seq(Keys) /\ Len(held) <= 2
    BY DEF KeyTypes
  <2>2. Len(held) \in Nat /\ i \in Int /\ 1 <= i /\ i <= Len(held)
    BY <2>1
  <2>3. \A j \in 1..Len(held) : held[j] \in Keys
    BY <2>1
  <2>4. \A n \in Nat : 1 <= i /\ i <= n /\ n <= 2 => n \in 1..2
    BY <2>2
  <2>5. Len(held) \in 1..2
    BY <2>1, <2>2, <2>4
  <2> QED  BY <2>1, <2>2, <2>3, <2>5
<1>2. /\ SubSeq(held, 1, i - 1) \in Seq(Keys)
      /\ Len(SubSeq(held, 1, i - 1)) = IF 1 <= i - 1 THEN (i - 1) - 1 + 1 ELSE 0
  <2>1. 1 \in Int /\ i - 1 \in Int /\ \A j \in 1..(i - 1) : held[j] \in Keys
    BY <1>1
  <2> QED  BY <2>1, SubSeqProperties
<1>3. /\ SubSeq(held, i + 1, Len(held)) \in Seq(Keys)
      /\ Len(SubSeq(held, i + 1, Len(held)))
             = IF i + 1 <= Len(held) THEN Len(held) - (i + 1) + 1 ELSE 0
  <2>1. i + 1 \in Int /\ Len(held) \in Int /\ \A j \in (i + 1)..Len(held) : held[j] \in Keys
    BY <1>1
  <2> QED  BY <2>1, SubSeqProperties
<1>4. /\ RemoveAt(held, i) \in Seq(Keys)
      /\ Len(RemoveAt(held, i)) = Len(SubSeq(held, 1, i - 1)) + Len(SubSeq(held, i + 1, Len(held)))
  BY <1>2, <1>3, ConcatProperties DEF RemoveAt
<1>5. i \in 1..2 /\ i <= Len(held)
  BY <1>1
<1>6. Len(SubSeq(held, 1, i - 1)) + Len(SubSeq(held, i + 1, Len(held))) = Len(held) - 1
  <2>1. Len(SubSeq(held, 1, i - 1)) = i - 1
    BY <1>2, <1>5
  <2>2. Len(SubSeq(held, i + 1, Len(held))) = Len(held) - i
    BY <1>1, <1>3, <1>5
  <2>3. \A n \in 1..2, j \in 1..2 : (j - 1) + (n - j) = n - 1
    OBVIOUS
  <2> QED  BY <1>1, <1>5, <2>1, <2>2, <2>3
<1> QED  BY <1>1, <1>4, <1>6

\* What a report does to the text and to what is scanned.
LEMMA ReportHolds ==
    ASSUME KeyTypes, listeners \in Nat, NEW keys \in Seq(Keys), KeyReport(keys),
           \A i, j \in 1..Len(keys) : keys[i] = keys[j] => i = j
    PROVE  held' = keys /\ text' \in Seq(Digits) /\ scanned' \in Seq(Seq(Digits))
<1> DEFINE s == text \o keys
<1>1. IF Splits(s) THEN Line(s) \in Seq(Digits) /\ Rest(s) \in Seq(Digits)
                   ELSE s \in Seq(Digits)
  BY ReportedText DEF KeyTypes
<1>2. <<>> \in Seq(Seq(Digits))
  OBVIOUS
<1>3. /\ held' = keys
      /\ IF opened = "live"
         THEN IF Splits(s) THEN text' = Rest(s) /\ scanned' = [i \in 1..listeners |-> Line(s)]
                           ELSE text' = s /\ scanned' = <<>>
         ELSE text' = text /\ scanned' = <<>>
  BY DEF KeyReport, CharCodes
<1> HIDE DEF s
<1>4. Line(s) \in Seq(Digits) => [i \in 1..listeners |-> Line(s)] \in Seq(Seq(Digits))
  OBVIOUS
<1> QED  BY <1>1, <1>2, <1>3, <1>4 DEF KeyTypes

\* One key, pressed alone, joins the text; Enter alone hands it over.
LEMMA KeyAlone ==
    ASSUME KeyTypes, NEW k \in Keys, KeyReport(<<k>>), opened = "live"
    PROVE  /\ k # Enter => text' = Append(text, k)
           /\ k = Enter => text' = <<>> /\ scanned' = [i \in 1..listeners |-> text]
<1>1. text \in Seq(Digits)
  BY DEF KeyTypes
<1> DEFINE s == text \o <<k>>
<1>2. IF Splits(s) THEN text' = Rest(s) /\ scanned' = [i \in 1..listeners |-> Line(s)]
                   ELSE text' = s /\ scanned' = <<>>
  BY DEF KeyReport, CharCodes
<1>3. CASE k = Enter
  <2>1. Splits(s) /\ Line(s) = text /\ Rest(s) = <<>>
    BY <1>1, <1>3, EnterEndsText
  <2> HIDE DEF s
  <2> QED  BY <1>2, <1>3, <2>1
<1>4. CASE k # Enter
  <2>1. k \in Digits
    BY <1>4 DEF Keys
  <2>2. s \in Seq(Digits) /\ s = Append(text, k)
    BY <1>1, <2>1
  <2> HIDE DEF s
  <2>3. \A i \in DOMAIN s : s[i] \in Digits
    BY <2>2
  <2>4. ~Splits(s)
    BY <2>3, ReaderConstants DEF Splits
  <2> QED  BY <1>2, <1>4, <2>2, <2>4
<1> QED  BY <1>3, <1>4

LEMMA PressHolds == ASSUME ReaderInv, NEW k \in Keys, Press(k) PROVE ReaderInv'
<1> DEFINE spoilt == smeared \/ held # <<>> \/ ~Heard
<1>1. /\ presses' = presses + 1 /\ k \notin Range(held) /\ Len(held) < 2
      /\ KeyReport(Append(held, k))
      /\ smeared' = IF k = Enter THEN ~(Heard /\ held = <<>>) ELSE spoilt
      /\ typed' = IF k = Enter /\ ~spoilt THEN <<card>> ELSE <<>>
      /\ card' = IF k = Enter THEN <<>> ELSE Append(card, k)
      /\ UNCHANGED <<linkVars, hitches>>
  BY DEF Press
<1>2. LinkInv'
  BY <1>1, LinkAlone DEF ReaderInv
<1>3. KeyTypes /\ TextIsCard /\ listeners \in Nat /\ notices \in Nat /\ notices + listeners <= 1
  BY DEF ReaderInv, LinkInv, LinkTypes, HeardOnce
<1>4. /\ Append(held, k) \in Seq(Keys) /\ Len(Append(held, k)) = Len(held) + 1
      /\ Len(held) \in Nat /\ Append(held, k)[Len(held) + 1] = k
      /\ \A i \in 1..Len(held) : Append(held, k)[i] = held[i] /\ held[i] # k
      /\ \A i, j \in 1..Len(held) : held[i] = held[j] => i = j
  <2>1. /\ held \in Seq(Keys) /\ \A i, j \in 1..Len(held) : held[i] = held[j] => i = j
    BY <1>3 DEF KeyTypes
  <2>2. \A i \in 1..Len(held) : held[i] # k
    BY <1>1, <2>1 DEF Range
  <2> QED  BY <2>1, <2>2
<1>5. \A i, j \in 1..Len(Append(held, k)) : Append(held, k)[i] = Append(held, k)[j] => i = j
  <2>1. \A i \in 1..Len(Append(held, k)) : i \in 1..Len(held) \/ i = Len(held) + 1
    BY <1>4
  <2> QED  BY <1>4, <2>1
<1>6. held' = Append(held, k) /\ text' \in Seq(Digits) /\ scanned' \in Seq(Seq(Digits))
  BY <1>1, <1>3, <1>4, <1>5, ReportHolds
<1>7. card' \in Seq(Digits) /\ typed' \in Seq(Seq(Digits)) /\ smeared' \in BOOLEAN
  <2>1. card \in Seq(Digits) /\ smeared \in BOOLEAN /\ (k # Enter => k \in Digits)
    BY <1>3 DEF KeyTypes, Keys
  <2>2. card' \in Seq(Digits)
    <3>1. <<>> \in Seq(Digits) /\ (k # Enter => Append(card, k) \in Seq(Digits))
      BY <2>1
    <3> QED  BY <1>1, <3>1
  <2>3. typed' \in Seq(Seq(Digits))
    <3>1. <<>> \in Seq(Seq(Digits)) /\ <<card>> \in Seq(Seq(Digits))
      BY <2>1
    <3> QED  BY <1>1, <3>1
  <2>4. smeared' \in BOOLEAN
    <3>1. CASE k = Enter
      BY <1>1, <3>1
    <3>2. CASE k # Enter
      BY <1>1, <3>2
    <3> QED  BY <3>1, <3>2
  <2> QED  BY <2>2, <2>3, <2>4
<1>8. KeyTypes'
  <2>1. held' \in Seq(Keys) /\ Len(held') <= 2
    BY <1>1, <1>4, <1>6
  <2>2. \A i, j \in 1..Len(held') : held'[i] = held'[j] => i = j
    BY <1>5, <1>6
  <2>3. presses' \in Nat
    BY <1>1, <1>3 DEF KeyTypes
  <2> QED  BY <1>6, <1>7, <2>1, <2>2, <2>3 DEF KeyTypes
\* Alone and heard, the key reaches the text.
<1>9. ASSUME held = <<>>, Heard
      PROVE  /\ k # Enter => text' = Append(text, k)
             /\ k = Enter => text' = <<>> /\ scanned' = <<text>>
  <2>1. Append(held, k) = <<k>>
    BY <1>9
  <2>2. KeyReport(<<k>>) /\ opened = "live" /\ listeners = 1
    <3>1. KeyReport(<<k>>)
      BY <1>1, <2>1
    <3>2. listeners = 1 /\ opened = "live"
      BY <1>3, <1>9 DEF Heard
    <3> QED  BY <3>1, <3>2
  <2>3. [i \in 1..1 |-> text] = <<text>>
    BY <1>3 DEF KeyTypes
  <2> QED  BY <1>3, <2>2, <2>3, KeyAlone
<1>10. TextIsCard'
  <2> SUFFICES ASSUME ~smeared' PROVE text' = card'
    BY DEF TextIsCard
  <2>1. CASE k = Enter
    BY <1>1, <1>9, <2>1
  <2>2. CASE k # Enter
    BY <1>1, <1>3, <1>9, <2>2 DEF TextIsCard
  <2> QED  BY <2>1, <2>2
<1>11. CardsRead'
  <2> SUFFICES ASSUME typed' # <<>> PROVE scanned' = typed'
    BY DEF CardsRead
  <2>1. k = Enter /\ ~spoilt /\ typed' = <<card>>
    BY <1>1
  <2>2. text = card /\ held = <<>> /\ Heard
    BY <1>3, <2>1 DEF TextIsCard
  <2> QED  BY <1>9, <2>1, <2>2
<1> QED  BY <1>2, <1>8, <1>10, <1>11 DEF ReaderInv

LEMMA ReleaseHolds == ASSUME ReaderInv, NEW k \in Keys, Release(k) PROVE ReaderInv'
<1>1. KeyTypes /\ TextIsCard /\ listeners \in Nat
  BY DEF ReaderInv, LinkInv, LinkTypes
<1>2. PICK i \in DOMAIN held : KeyReport(RemoveAt(held, i))
  BY DEF Release
<1>3. /\ smeared' = (smeared \/ Len(held) > 1) /\ typed' = <<>>
      /\ UNCHANGED <<linkVars, hitches, presses, card>>
  BY DEF Release
<1>4. i \in 1..Len(held)
  BY <1>1, <1>2 DEF KeyTypes
<1>5. PICK left : left = RemoveAt(held, i)
  OBVIOUS
<1>6. left \in Seq(Keys) /\ Len(left) = Len(held) - 1 /\ Len(held) \in 1..2
  BY <1>1, <1>4, <1>5, KeysLeft
<1>7. \A m, n \in 1..Len(left) : left[m] = left[n] => m = n
  BY <1>6
<1>8. KeyReport(left)
  BY <1>2, <1>5
<1>9. held' = left /\ text' \in Seq(Digits) /\ scanned' \in Seq(Seq(Digits))
  BY <1>1, <1>6, <1>7, <1>8, ReportHolds
<1>10. KeyTypes'
  <2>1. held' \in Seq(Keys) /\ Len(held') <= 2
    <3>1. \A n \in 1..2 : n - 1 <= 2
      OBVIOUS
    <3>2. Len(left) <= 2
      BY <1>6, <3>1
    <3> QED  BY <1>6, <1>9, <3>2
  <2>2. card' \in Seq(Digits) /\ presses' \in Nat /\ typed' \in Seq(Seq(Digits))
    BY <1>1, <1>3 DEF KeyTypes
  <2>3. smeared' \in BOOLEAN
    BY <1>3
  <2> QED  BY <1>7, <1>9, <2>1, <2>2, <2>3 DEF KeyTypes
<1>11. TextIsCard'
  <2> SUFFICES ASSUME ~smeared' PROVE text' = card'
    BY DEF TextIsCard
  <2>1. ~smeared /\ Len(held) = 1
    <3>1. ~smeared /\ ~(Len(held) > 1)
      BY <1>3
    <3>2. \A n \in 1..2 : ~(n > 1) => n = 1
      OBVIOUS
    <3> QED  BY <1>6, <3>1, <3>2
  <2>2. left = <<>>
    BY <1>6, <2>1
  <2>3. text \in Seq(Digits) /\ text \o left = text
    BY <1>1, <2>2 DEF KeyTypes
  <2>4. ~Splits(text)
    BY <2>3, ReaderConstants DEF Splits
  <2>5. text' = text
    BY <1>8, <2>3, <2>4 DEF KeyReport, CharCodes
  <2> QED  BY <1>1, <1>3, <2>1, <2>5 DEF TextIsCard
<1>12. LinkInv' /\ CardsRead'
  BY <1>3, LinkAlone DEF ReaderInv, CardsRead
<1> QED  BY <1>10, <1>11, <1>12 DEF ReaderInv

LEMMA ReaderInvariance == ReaderSpec => []ReaderInv
<1>1. ReaderInv /\ [ReaderNext]_readerVars => ReaderInv'
  <2> SUFFICES ASSUME ReaderInv, [ReaderNext]_readerVars PROVE ReaderInv'
    OBVIOUS
  <2>1. CASE UNCHANGED readerVars
    <3>1. UNCHANGED keyVars /\ UNCHANGED <<linkVars, hitches>>
      BY <2>1 DEF readerVars, keyVars, linkVars
    <3> QED  BY <3>1, KeysAlone, LinkAlone DEF ReaderInv
  <2>2. CASE ReaderNext
    BY <2>2, LinkHolds, PressHolds, ReleaseHolds DEF ReaderNext
  <2> QED  BY <2>1, <2>2
<1> QED  BY <1>1, ReaderStart, PTL DEF ReaderSpec

-----------------------------------------------------------------------------
\* The state of the reader, of its streams and of the timers that look for it keeps its
\* types, and what a scan hands over never holds an Enter (libs/hid).
THEOREM ReaderTypeCorrect == ReaderSpec => []ReaderTypeOK
<1>1. ReaderInv => ReaderTypeOK
  <2> SUFFICES ASSUME ReaderInv PROVE ReaderTypeOK
    OBVIOUS
  <2>1. LinkTypes /\ KeyTypes
    BY DEF ReaderInv, LinkInv
  <2>2. text \in Seq(Keys)
    BY <2>1 DEF KeyTypes, Keys
  <2> QED  BY <2>1, <2>2 DEF ReaderTypeOK, LinkTypes, KeyTypes
<1> QED  BY <1>1, ReaderInvariance, PTL

\* For any keys, any number of timers, failed openings and failed publishes, in any order:
\* a reader that comes after the start is looked for until it is found and then heard by
\* one listener, and a card typed key by key arrives as it was typed (CardScanService,
\* HidService and its keyboard streams).
THEOREM ScansAreHeard == ReaderSpec => []ScansHeard
<1>1. ReaderInv => ScansHeard
  BY DEF ReaderInv, LinkInv, FoundIsOpen, ReaderFound, ScansHeard
<1> QED  BY <1>1, ReaderInvariance, PTL

-----------------------------------------------------------------------------
(* One path: counting in a sequence.                                         *)

LEMMA LargestNumber ==
    ASSUME NEW n \in Nat, NEW T, T \subseteq 1..n, T # {}
    PROVE  \E m \in T : \A k \in T : k <= m
<1> DEFINE U == {n - k : k \in T}
<1>1. U \subseteq Nat /\ U # {}
  <2>1. \A k \in T : n - k \in Nat
    OBVIOUS
  <2>2. PICK k \in T : TRUE
    OBVIOUS
  <2>3. n - k \in U
    OBVIOUS
  <2> QED  BY <2>1, <2>3
<1>2. PICK u \in U : \A v \in U : u <= v
  BY <1>1, SmallestNumber
<1>3. PICK m \in T : u = n - m
  OBVIOUS
<1>4. ASSUME NEW k \in T PROVE k <= m
  <2>1. n - m <= n - k
    BY <1>2, <1>3
  <2>2. n \in Int /\ m \in Int /\ k \in Int
    OBVIOUS
  <2> HIDE DEF U
  <2> QED  BY <2>1, <2>2
<1> QED  BY <1>4

\* The members of a set of numbers can be counted from below.
LEMMA NthNumber ==
    ASSUME NEW n \in Nat, NEW F, F \subseteq 1..n, NEW m \in 1..Cardinality(F)
    PROVE  Nth(F, m) \in F
<1> DEFINE upto(i) == {j \in F : j <= i}
           T == {i \in Nat : Cardinality(upto(i)) >= m}
<1>1. IsFiniteSet(F) /\ \A i \in Nat : IsFiniteSet(upto(i)) /\ Cardinality(upto(i)) \in Nat
  <2>1. IsFiniteSet(F)
    <3>1. IsFiniteSet(1..n)
      BY FS_Interval
    <3> QED  BY <3>1, FS_Subset
  <2> QED  BY <2>1, FS_Subset, FS_CardinalityType
<1>2. T \subseteq Nat /\ n \in T
  <2>1. upto(n) = F
    <3>1. \A j \in F : j \in Nat /\ j <= n
      OBVIOUS
    <3> QED  BY <3>1
  <2>2. Cardinality(F) \in Nat /\ Cardinality(F) >= m
    BY <1>1, FS_CardinalityType
  <2>3. n \in T
    BY <2>1, <2>2
  <2> QED  BY <2>3
<1>3. PICK i \in T : \A k \in T : i <= k
  BY <1>2, SmallestNumber
<1>4. i \in Nat /\ Cardinality(upto(i)) >= m /\ m \in Nat /\ m > 0
  <2>1. i \in Nat /\ Cardinality(upto(i)) >= m
    OBVIOUS
  <2>2. Cardinality(F) \in Nat
    BY <1>1, FS_CardinalityType
  <2> QED  BY <2>1, <2>2
<1>5. i # 0
  <2>1. upto(0) = {}
    <3>1. \A j \in F : j \in Nat /\ ~(j <= 0)
      OBVIOUS
    <3> QED  BY <3>1
  <2>2. Cardinality(upto(0)) = 0
    BY <2>1, FS_EmptySet
  <2> HIDE DEF upto
  <2> QED  BY <1>4, <2>2
<1>6. i - 1 \in Nat /\ Cardinality(upto(i - 1)) < m
  <2>1. i - 1 \in Nat /\ ~(i <= i - 1)
    BY <1>4, <1>5
  <2>2. ~(Cardinality(upto(i - 1)) >= m)
    BY <1>3, <2>1
  <2>3. Cardinality(upto(i - 1)) \in Nat
    BY <1>1, <2>1
  <2> HIDE DEF upto
  <2> QED  BY <1>4, <2>1, <2>2, <2>3
<1>7. upto(i) = IF i \in F THEN upto(i - 1) \cup {i} ELSE upto(i - 1)
  <2>1. \A j \in F : j \in Nat /\ (j <= i <=> j <= i - 1 \/ j = i)
    BY <1>4, <1>6
  <2> QED  BY <1>4, <2>1
<1>8. i \in F
  <2>1. upto(i) = upto(i - 1) => FALSE
    <3>1. Cardinality(upto(i - 1)) \in Nat
      BY <1>1, <1>6
    <3> HIDE DEF upto
    <3> QED  BY <1>4, <1>6, <3>1
  <2> QED  BY <1>7, <2>1
<1>9. Cardinality(upto(i)) = Cardinality(upto(i - 1)) + 1
  <2>1. i \notin upto(i - 1)
    BY <1>4
  <2> HIDE DEF upto
  <2> QED  BY <1>1, <1>6, <1>7, <1>8, <2>1, FS_AddElement
<1>10. Cardinality(upto(i)) = m
  <2>1. Cardinality(upto(i - 1)) \in Nat
    BY <1>1, <1>6
  <2> HIDE DEF upto
  <2> QED  BY <1>4, <1>6, <1>9, <2>1
<1>11. \E k \in F : Cardinality({j \in F : j <= k}) = m
  BY <1>8, <1>10
<1> QED  BY <1>11 DEF Nth

-----------------------------------------------------------------------------
(* The pieces between delimiters.                                            *)

LEMMA SerialConstants ==
    /\ End \notin Requests /\ MaxConns \in Nat /\ MaxConns > 0
    /\ MaxAttempts \in Nat /\ MaxAttempts > 0
    /\ BufferSize \in Nat /\ BufferSize > 0 /\ MaxBuffer \in Nat /\ MaxBuffer > 0
    /\ MaxFaults \in Nat /\ Requests \subseteq Byte /\ End \in Byte
BY SerialAssumption DEF Byte

LEMMA PieceStartBound ==
    ASSUME NEW s \in Seq(Byte), NEW i \in Ends(s)
    PROVE  PieceStart(s, i) \in 1..i
<1> DEFINE T == {j \in Ends(s) : j < i}
<1>1. i \in 1..Len(s) /\ Len(s) \in Nat /\ T \subseteq 1..Len(s)
  BY DEF Ends
<1>2. CASE T = {}
  <2>1. PieceStart(s, i) = 1
    BY <1>2 DEF PieceStart
  <2> QED  BY <1>1, <2>1
<1>3. CASE T # {}
  <2>1. \E j \in Ends(s) : j < i /\ \A k \in Ends(s) : k < i => k <= j
    <3>1. PICK j \in T : \A k \in T : k <= j
      BY <1>1, <1>3, LargestNumber
    <3> QED  BY <3>1
  <2>2. PICK j : j = CHOOSE d \in Ends(s) : d < i /\ \A k \in Ends(s) : k < i => k <= d
    OBVIOUS
  <2>3. j \in Ends(s) /\ j < i
    BY <2>1, <2>2
  <2>4. PieceStart(s, i) = 1 + j
    BY <1>3, <2>2 DEF PieceStart
  <2> QED  BY <1>1, <2>3, <2>4 DEF Ends
<1> QED  BY <1>2, <1>3

LEMMA PiecesType == ASSUME NEW s \in Seq(Byte) PROVE Pieces(s) \in Seq(Seq(Byte))
<1> DEFINE full == {i \in Ends(s) : PieceStart(s, i) < i}
           nth(m) == Nth(full, m)
<1>1. Pieces(s) = [m \in 1..Cardinality(full) |-> SubSeq(s, PieceStart(s, nth(m)), nth(m) - 1)]
  BY DEF Pieces
<1>2. full \subseteq 1..Len(s) /\ Len(s) \in Nat
  BY DEF Ends
<1>3. PICK c \in Nat : c = Cardinality(full)
  <2>1. IsFiniteSet(1..Len(s))
    BY <1>2, FS_Interval
  <2> HIDE DEF full
  <2>2. IsFiniteSet(full)
    BY <1>2, <2>1, FS_Subset
  <2> QED  BY <2>2, FS_CardinalityType
<1>4. \A m \in 1..c : nth(m) \in full
  <2> SUFFICES ASSUME NEW m \in 1..c PROVE nth(m) \in full
    OBVIOUS
  <2> HIDE DEF full
  <2> QED  BY <1>2, <1>3, NthNumber
<1>5. ASSUME NEW i \in full PROVE SubSeq(s, PieceStart(s, i), i - 1) \in Seq(Byte)
  <2>1. PieceStart(s, i) \in 1..i /\ i \in 1..Len(s)
    BY <1>2, PieceStartBound
  <2> QED  BY <2>1
<1> HIDE DEF full, nth
<1>6. Pieces(s) \in [1..c -> Seq(Byte)]
  BY <1>1, <1>3, <1>4, <1>5
<1> QED  BY <1>3, <1>6

LEMMA AfterType == ASSUME NEW s \in Seq(Byte) PROVE After(s) \in Seq(Byte)
<1>1. CASE Ends(s) = {}
  BY <1>1 DEF After
<1>2. CASE Ends(s) # {}
  <2>1. Ends(s) \subseteq 1..Len(s) /\ Len(s) \in Nat
    BY DEF Ends
  <2>2. \E i \in Ends(s) : \A j \in Ends(s) : j <= i
    BY <1>2, <2>1, LargestNumber
  <2>3. PICK i : i = CHOOSE d \in Ends(s) : \A j \in Ends(s) : j <= d
    OBVIOUS
  <2>4. i \in 1..Len(s)
    BY <2>1, <2>2, <2>3
  <2>5. After(s) = SubSeq(s, 1 + i, Len(s))
    BY <1>2, <2>3 DEF After
  <2> QED  BY <2>1, <2>4, <2>5
<1> QED  BY <1>1, <1>2

\* What the delimiter makes of an answer, and of its first byte alone.
LEMMA PiecesOfAnswer ==
    ASSUME NEW r \in Requests
    PROVE  /\ Answer(r) \in Seq(Byte) /\ Len(Answer(r)) = 2
           /\ Pieces(Answer(r)) = << <<r>> >> /\ After(Answer(r)) = <<>>
           /\ Pieces(<<r>>) = <<>> /\ After(<<r>>) = <<r>>
<1>1. r \in Byte /\ End \in Byte /\ r # End
  BY SerialConstants
<1>2. PICK s \in Seq(Byte) : s = Answer(r)
  <2>1. <<r, End>> \in Seq(Byte)
    BY <1>1
  <2> QED  BY <2>1 DEF Answer
<1>3. /\ Len(s) = 2 /\ s[1] = r /\ s[2] = End
  BY <1>2 DEF Answer
<1>4. Ends(s) = {2}
  BY <1>1, <1>3 DEF Ends
<1>5. PieceStart(s, 2) = 1
  BY <1>4 DEF PieceStart
<1>6. Pieces(s) = << <<r>> >>
  <2> DEFINE full == {i \in Ends(s) : PieceStart(s, i) < i}
             nth(m) == Nth(full, m)
  <2>1. full = {2}
    BY <1>4, <1>5
  <2> HIDE DEF full
  <2>2. Cardinality(full) = 1
    BY <2>1, FS_Singleton
  <2>3. nth(1) = 2
    <3>1. {j \in full : j <= 2} = full
      BY <2>1
    <3>2. \E i \in full : Cardinality({j \in full : j <= i}) = 1
      BY <2>1, <2>2, <3>1
    <3>3. nth(1) \in full
      BY <3>2 DEF Nth
    <3> QED  BY <2>1, <3>3
  <2>4. Pieces(s) = [m \in 1..Cardinality(full) |-> SubSeq(s, PieceStart(s, nth(m)), nth(m) - 1)]
    BY DEF Pieces, full
  <2> HIDE DEF nth
  <2>5. Pieces(s) = [m \in 1..1 |-> SubSeq(s, 1, 1)]
    BY <1>5, <2>2, <2>3, <2>4
  <2>6. SubSeq(s, 1, 1) = <<r>>
    <3>1. SubSeq(s, 1, 1) = << s[1] >> \o SubSeq(s, 2, 1)
      BY <1>3, SubSeqRecursiveFirst
    <3>2. SubSeq(s, 2, 1) = <<>> /\ <<r>> \in Seq(Byte)
      BY <1>1, <1>3, SubSeqEmpty
    <3> QED  BY <1>3, <3>1, <3>2, ConcatEmptySeq
  <2>7. [m \in 1..1 |-> SubSeq(s, 1, 1)] = << <<r>> >>
    <3>1. PICK q : q = <<r>>
      OBVIOUS
    <3>2. [m \in 1..1 |-> q] \in Seq({q}) /\ <<q>> \in Seq({q})
      OBVIOUS
    <3>3. [m \in 1..1 |-> q] = <<q>>
      BY <3>2
    <3> QED  BY <2>6, <3>1, <3>3
  <2> QED  BY <2>5, <2>7
<1>7. After(s) = <<>>
  <2>1. (CHOOSE i \in Ends(s) : \A j \in Ends(s) : j <= i) = 2
    BY <1>4
  <2>2. After(s) = SubSeq(s, 3, 2)
    BY <1>3, <1>4, <2>1 DEF After
  <2> QED  BY <1>3, <2>2
<1>8. Ends(<<r>>) = {}
  BY <1>1 DEF Ends
<1>9. Pieces(<<r>>) = <<>>
  <2> DEFINE full == {i \in Ends(<<r>>) : PieceStart(<<r>>, i) < i}
             nth(m) == Nth(full, m)
  <2>1. Pieces(<<r>>) = [m \in 1..Cardinality(full) |->
                             SubSeq(<<r>>, PieceStart(<<r>>, nth(m)), nth(m) - 1)]
    BY DEF Pieces
  <2>2. full = {}
    BY <1>8
  <2> HIDE DEF full, nth
  <2>3. Cardinality(full) = 0
    BY <2>2, FS_EmptySet
  <2>4. 1..Cardinality(full) = {}
    BY <2>3
  <2>5. Pieces(<<r>>) = [m \in {} |-> SubSeq(<<r>>, PieceStart(<<r>>, nth(m)), nth(m) - 1)]
    BY <2>1, <2>4
  <2> QED  BY <2>5
<1>10. After(<<r>>) = <<r>>
  BY <1>8 DEF After
<1> QED  BY <1>2, <1>3, <1>6, <1>7, <1>9, <1>10

-----------------------------------------------------------------------------
(* The invariant: connection objects, and what is on its way to a request.   *)

\* The types, variable by variable.
SerialTypes ==
    /\ conn \in [ConnIds -> Connection] /\ asks \in [Requests -> AskState]
    /\ made \in 0..MaxConns /\ current \in 0..made /\ device \in 0..made
    /\ persistent \subseteq Listeners /\ options \in SerialOptions
    /\ destroyed \in BOOLEAN /\ closing \in BOOLEAN /\ interrupted \in BOOLEAN
    /\ disturbed \in BOOLEAN /\ line \in Seq(Byte) /\ faults \in 0..MaxFaults

ObjectsOK == \A c \in ConnIds :
    /\ c > made => conn[c] = Unmade
    /\ conn[c].opener # "ended" => conn[c].tries < MaxAttempts
    /\ conn[c].queue # <<>> => conn[c].resolvers = <<>>

\* The connection of the map is open when its port is, and its port is when it holds
\* the device.
CurrentOK == current # 0 =>
    /\ conn[current].callbacks = persistent
    /\ conn[current].port = "open" <=> device = current
    /\ conn[current].isOpen <=> conn[current].port = "open"
    /\ conn[current].opener # "ended" \/ conn[current].port = "open" => conn[current].listening
    /\ conn[current].port = "open" => conn[current].opener = "ended"

ClosingOK == closing => current # 0 /\ conn[current].port = "open"

OnlyCurrentOpens ==
    ~interrupted => device \in {0, current}
                    /\ \A c \in ConnIds : c # current => conn[c].opener = "ended"

PortInv == SerialTypes /\ ObjectsOK /\ CurrentOK /\ ClosingOK /\ OnlyCurrentOpens

OwnAnswer(r) == IF options.buffer = "delimiter" THEN <<r>> ELSE Answer(r)

\* Where the answer to a request may be: on the line, in the buffer, in the queue; or
\* it was lost.
OnLine(r, k) ==
    /\ k.queue = <<>> /\ ~k.timer
    /\ \/ line = Answer(r) /\ k.raw = <<>>
       \/ line = <<End>> /\ k.raw = <<r>> /\ options.buffer \in {"size", "delimiter"}
Held(r, k) ==
    /\ line = <<>> /\ k.queue = <<>>
    /\ k.timer => k.raw = Answer(r) /\ options.buffer \in {"time", "combined"}
Queued(r, k) ==
    /\ line = <<>> /\ k.queue = <<OwnAnswer(r)>> /\ k.raw = <<>> /\ ~k.timer
    /\ asks[r].pc = "written"

\* One request at a time, and the line and the buffers hold its answer or nothing.
OneAtWork == \A r, s \in Pending : r = s
TimersOK == \A c \in ConnIds : conn[c].timer => c = current /\ conn[c].isOpen
LineOK == line # <<>> => device # 0 /\ device = current
ResolversOK ==
    current # 0 => \/ conn[current].resolvers = <<>>
                   \/ \E r \in Requests : asks[r].pc = "waiting" /\ conn[current].resolvers = <<r>>
NothingLeft ==
    Pending = {} =>
        /\ line = <<>>
        /\ current # 0 => /\ conn[current].raw = <<>> /\ conn[current].queue = <<>>
                          /\ conn[current].resolvers = <<>> /\ ~conn[current].timer
Coming ==
    \A r \in Pending :
        current # 0 =>
            /\ OnLine(r, conn[current]) \/ Held(r, conn[current]) \/ Queued(r, conn[current])
            /\ asks[r].pc = "waiting" /\ (line # <<>> \/ conn[current].timer)
                   => conn[current].resolvers = <<r>>
InStep == OneAtWork /\ TimersOK /\ LineOK /\ ResolversOK /\ NothingLeft /\ Coming

SerialInv == PortInv /\ AnswerIsMine /\ (~disturbed => InStep)

LEMMA UnmadeType == Unmade \in Connection
<1>1. <<>> \in Seq(Byte) /\ <<>> \in Seq(Seq(Byte)) /\ <<>> \in Seq(Requests)
  BY EmptySeq
<1>2. 0 \in 0..MaxAttempts
  BY SerialConstants
<1> QED  BY <1>1, <1>2 DEF Unmade, Connection

LEMMA SerialStart == SerialInit => SerialInv
<1> SUFFICES ASSUME SerialInit PROVE SerialInv
  OBVIOUS
<1>1. SerialTypes
  <2>1. <<>> \in Seq(Byte)
    BY EmptySeq
  <2>2. asks \in [Requests -> AskState]
    BY <2>1 DEF SerialInit, AskState
  <2>3. conn \in [ConnIds -> Connection]
    BY UnmadeType DEF SerialInit
  <2>4. made = 0 /\ current = 0 /\ device = 0 /\ faults = 0 /\ line = <<>>
        /\ persistent = {} /\ options \in SerialOptions
        /\ destroyed = FALSE /\ closing = FALSE /\ interrupted = FALSE /\ disturbed = FALSE
    BY DEF SerialInit
  <2>5. 0 \in 0..MaxConns /\ 0 \in 0..MaxFaults /\ 0 \in 0..0
    BY SerialConstants
  <2> QED  BY <2>1, <2>2, <2>3, <2>4, <2>5 DEF SerialTypes
<1>2. \A c \in ConnIds : conn[c] = Unmade
  BY DEF SerialInit
<1>3. PortInv
  BY <1>1, <1>2 DEF PortInv, SerialInit, ObjectsOK, CurrentOK, ClosingOK, OnlyCurrentOpens, Unmade
<1>4. \A r \in Requests : asks[r].pc = "idle"
  BY DEF SerialInit
<1>5. AnswerIsMine
  BY <1>4 DEF AnswerIsMine
<1>6. InStep
  BY <1>2, <1>4 DEF SerialInit, InStep, OneAtWork, TimersOK, LineOK, ResolversOK, NothingLeft,
                    Coming, Pending, Unmade
<1> QED  BY <1>3, <1>5, <1>6 DEF SerialInv

-----------------------------------------------------------------------------
(* The connection objects.                                                   *)

LEMMA ConnNumbers ==
    ASSUME SerialTypes
    PROVE  /\ 0 \notin ConnIds /\ made \in Nat /\ made <= MaxConns
           /\ \A c \in 0..made : c # 0 => c \in ConnIds /\ c \in Nat /\ c <= made
           /\ \A c \in ConnIds : c \in Nat
           /\ current # 0 => current \in ConnIds /\ current <= made
           /\ device # 0 => device \in ConnIds /\ device <= made
BY SerialConstants DEF SerialTypes, ConnIds

\* An object changes, as long as it opens no port and keeps what the map says of it.
LEMMA ObjectChanges ==
    ASSUME PortInv, NEW c \in ConnIds, NEW k \in Connection, c <= made,
           conn' = [conn EXCEPT ![c] = k],
           made' = made, current' = current, device' = device, options' = options,
           interrupted' = interrupted,
           asks' \in [Requests -> AskState], line' \in Seq(Byte), faults' \in 0..MaxFaults,
           destroyed' \in BOOLEAN, disturbed' \in BOOLEAN, closing' \in BOOLEAN,
           persistent' \subseteq Listeners,
           c = current \/ persistent' = persistent,
           closing' => closing \/ (current # 0 /\ conn[current].port = "open"),
           conn[c].opener = "ended" => k.opener = "ended",
           k.opener # "ended" => k.tries < MaxAttempts,
           k.queue # <<>> => k.resolvers = <<>>,
           c = current =>
               /\ k.callbacks = persistent' /\ (k.port = "open" <=> conn[c].port = "open")
               /\ k.isOpen = conn[c].isOpen
               /\ k.opener # "ended" \/ k.port = "open" => k.listening
               /\ k.port = "open" => k.opener = "ended"
    PROVE  PortInv'
<1>1. SerialTypes
  BY DEF PortInv
<1>2. /\ conn' \in [ConnIds -> Connection] /\ conn'[c] = k
      /\ \A d \in ConnIds : d # c => conn'[d] = conn[d]
  BY <1>1 DEF SerialTypes
<1>3. SerialTypes'
  BY <1>1, <1>2 DEF SerialTypes
<1>4. c \in Nat /\ made \in Nat /\ ~(c > made)
  BY <1>1, ConnNumbers
<1>5. ObjectsOK'
  BY <1>2, <1>4 DEF PortInv, ObjectsOK, ConnIds
<1>6. current # 0 => current \in ConnIds
  BY <1>1, ConnNumbers
<1>7. CurrentOK'
  BY <1>2, <1>6 DEF PortInv, CurrentOK
<1>8. ClosingOK'
  BY <1>2, <1>6 DEF PortInv, ClosingOK
<1>9. OnlyCurrentOpens'
  BY <1>2 DEF PortInv, OnlyCurrentOpens, ConnIds
<1> QED  BY <1>3, <1>5, <1>7, <1>8, <1>9 DEF PortInv

\* No object changes.
LEMMA ObjectsStay ==
    ASSUME PortInv, conn' = conn, made' = made, current' = current, device' = device,
           options' = options, interrupted' = interrupted,
           asks' \in [Requests -> AskState], line' \in Seq(Byte), faults' \in 0..MaxFaults,
           destroyed' \in BOOLEAN, disturbed' \in BOOLEAN,
           closing' \in BOOLEAN, closing' => closing,
           persistent' \subseteq Listeners, current = 0 \/ persistent' = persistent
    PROVE  PortInv'
<1>1. SerialTypes'
  BY DEF PortInv, SerialTypes
<1>2. ObjectsOK' /\ CurrentOK' /\ ClosingOK' /\ OnlyCurrentOpens'
  BY DEF PortInv, ObjectsOK, CurrentOK, ClosingOK, OnlyCurrentOpens, ConnIds
<1> QED  BY <1>1, <1>2 DEF PortInv

-----------------------------------------------------------------------------
(* The types of what data do.                                                *)

LEMMA EmittedFacts ==
    ASSUME NEW k \in Connection, NEW data \in Seq(Seq(Byte))
    PROVE  /\ Emitted(k, data) \in Connection
           /\ Emitted(k, data).queue # <<>> => Emitted(k, data).resolvers = <<>>
           /\ Emitted(k, data).port = k.port /\ Emitted(k, data).isOpen = k.isOpen
           /\ Emitted(k, data).opener = k.opener /\ Emitted(k, data).tries = k.tries
           /\ Emitted(k, data).listening = k.listening
           /\ Emitted(k, data).callbacks = k.callbacks
<1>1. k.queue \in Seq(Seq(Byte)) /\ k.resolvers \in Seq(Requests)
  BY DEF Connection
<1>2. PICK q \in Seq(Seq(Byte)) : q = k.queue \o data
  BY <1>1, ConcatProperties
<1>3. PICK n : n = IF Len(q) < Len(k.resolvers) THEN Len(q) ELSE Len(k.resolvers)
  OBVIOUS
<1>4. /\ n \in Nat /\ n <= Len(q) /\ n <= Len(k.resolvers) /\ Len(q) \in Nat
      /\ Len(k.resolvers) \in Nat /\ (n = Len(q) \/ n = Len(k.resolvers))
  BY <1>1, <1>2, <1>3
<1>5. PICK qq \in Seq(Seq(Byte)) : qq = SubSeq(q, n + 1, Len(q))
  <2>1. \A i \in n + 1 .. Len(q) : q[i] \in Seq(Byte)
    BY <1>4, ElementOfSeq
  <2>2. n + 1 \in Int /\ Len(q) \in Int
    BY <1>4
  <2>3. SubSeq(q, n + 1, Len(q)) \in Seq(Seq(Byte))
    BY <2>1, <2>2, SubSeqProperties, Zenon
  <2> QED  BY <2>3
<1>6. PICK rr \in Seq(Requests) : rr = SubSeq(k.resolvers, n + 1, Len(k.resolvers))
  <2>1. \A i \in n + 1 .. Len(k.resolvers) : k.resolvers[i] \in Requests
    BY <1>1, <1>4, ElementOfSeq
  <2>2. n + 1 \in Int /\ Len(k.resolvers) \in Int
    BY <1>4
  <2>3. SubSeq(k.resolvers, n + 1, Len(k.resolvers)) \in Seq(Requests)
    BY <2>1, <2>2, SubSeqProperties, Zenon
  <2> QED  BY <2>3
<1>7. Emitted(k, data) = [k EXCEPT !.queue = qq, !.resolvers = rr]
  BY <1>2, <1>3, <1>5, <1>6 DEF Emitted
<1>8. qq # <<>> => rr = <<>>
  <2>1. n = Len(q) => qq = <<>>
    BY <1>2, <1>4, <1>5, SubSeqEmpty
  <2>2. n = Len(k.resolvers) => rr = <<>>
    BY <1>1, <1>4, <1>6, SubSeqEmpty
  <2> QED  BY <1>4, <2>1, <2>2
<1> QED  BY <1>7, <1>8 DEF Connection

LEMMA DeliveredType ==
    ASSUME SerialTypes, NEW k \in Connection, NEW data \in Seq(Seq(Byte)), NEW skew \in BOOLEAN
    PROVE  Delivered(k, data, skew) \in [Requests -> AskState]
<1> DEFINE q == k.queue \o data
           turns(r) == {i \in 1..Len(k.resolvers) : i <= Len(q) /\ k.resolvers[i] = r}
<1>1. q \in Seq(Seq(Byte))
  <2>1. k.queue \in Seq(Seq(Byte))
    BY DEF Connection
  <2> QED  BY <2>1, ConcatProperties
<1>2. ASSUME NEW r \in Requests, turns(r) # {}
      PROVE  Answered(asks[r], q[CHOOSE i \in turns(r) : TRUE], skew) \in AskState
  <2>1. PICK j \in turns(r) : j = CHOOSE i \in turns(r) : TRUE
    BY <1>2
  <2>2. Len(k.resolvers) \in Nat
    BY DEF Connection
  <2>3. j \in 1..Len(q)
    <3>1. Len(q) \in Nat
      BY <1>1, LenProperties
    <3> HIDE DEF q
    <3> QED  BY <2>1, <2>2, <3>1
  <2>4. q[j] \in Seq(Byte)
    BY <1>1, <2>3
  <2>5. asks[r] \in AskState
    BY DEF SerialTypes
  <2> HIDE DEF q, turns
  <2> QED  BY <2>1, <2>4, <2>5 DEF Answered, AskState
<1>3. Delivered(k, data, skew) =
          [r \in Requests |-> IF asks[r].pc = "waiting" /\ turns(r) # {}
                              THEN Answered(asks[r], q[CHOOSE i \in turns(r) : TRUE], skew)
                              ELSE asks[r]]
  BY DEF Delivered
<1> HIDE DEF q, turns
<1> QED  BY <1>2, <1>3 DEF SerialTypes

LEMMA BufferingType ==
    ASSUME SerialTypes, NEW k \in Connection, NEW chunk \in Seq(Byte)
    PROVE  /\ Buffering(k, chunk).emit \in Seq(Seq(Byte))
           /\ Buffering(k, chunk).raw \in Seq(Byte) /\ Buffering(k, chunk).timer \in BOOLEAN
<1>1. PICK all \in Seq(Byte) : all = k.raw \o chunk
  <2>1. k.raw \in Seq(Byte)
    BY DEF Connection
  <2> QED  BY <2>1, ConcatProperties
<1>2. /\ k.raw \in Seq(Byte) /\ k.timer \in BOOLEAN /\ <<>> \in Seq(Byte) /\ <<>> \in Seq(Seq(Byte))
      /\ <<chunk>> \in Seq(Seq(Byte)) /\ <<all>> \in Seq(Seq(Byte))
      /\ Pieces(all) \in Seq(Seq(Byte)) /\ After(all) \in Seq(Byte)
  BY PiecesType, AfterType DEF Connection
<1>3. CASE options.buffer = "none"
  BY <1>1, <1>2, <1>3 DEF Buffering
<1>4. CASE options.buffer = "time"
  BY <1>1, <1>2, <1>4 DEF Buffering
<1>5. CASE options.buffer = "size"
  BY <1>1, <1>2, <1>5 DEF Buffering
<1>6. CASE options.buffer = "delimiter"
  BY <1>1, <1>2, <1>6 DEF Buffering
<1>7. CASE options.buffer = "combined"
  BY <1>1, <1>2, <1>7 DEF Buffering
<1> QED  BY <1>3, <1>4, <1>5, <1>6, <1>7 DEF SerialTypes, SerialOptions, BufferType

-----------------------------------------------------------------------------
(* The steps that open and close a port.                                     *)

LEMMA AttemptKeepsPorts == ASSUME PortInv, PortOpen PROVE PortInv'
<1>1. SerialTypes /\ made + 1 \in ConnIds /\ made + 1 \in 1..MaxConns /\ made \in Nat
  BY ConnNumbers, SerialConstants DEF PortInv, PortOpen, ConnIds
<1>2. PICK k : k = IF destroyed THEN Restored(Unmade) ELSE Attempting(Restored(Unmade))
  OBVIOUS
<1>3. /\ k \in Connection /\ k.callbacks = persistent /\ k.port # "open" /\ ~k.isOpen
      /\ k.tries = 0 /\ k.queue = <<>> /\ (k.opener # "ended" => k.listening)
  <2>1. Unmade \in Connection
    BY UnmadeType
  <2>2. persistent \in SUBSET Listeners
    BY <1>1 DEF SerialTypes
  <2> QED  BY <1>2, <2>1, <2>2 DEF Restored, Attempting, Connection, Unmade
<1>4. /\ conn' = [conn EXCEPT ![made + 1] = k] /\ made' = made + 1 /\ current' = made + 1
      /\ ~(current # 0 /\ conn[current].isOpen)
      /\ interrupted' = (interrupted \/ Connecting(current))
      /\ UNCHANGED <<persistent, options, destroyed, closing, device, line, asks, disturbed,
                     faults>>
  BY <1>2 DEF PortOpen
<1>5. /\ conn' \in [ConnIds -> Connection] /\ conn'[made + 1] = k
      /\ \A d \in ConnIds : d # made + 1 => conn'[d] = conn[d]
  BY <1>1, <1>3, <1>4 DEF SerialTypes
<1>6. SerialTypes'
  <2>1. made' \in 0..MaxConns /\ current' \in 0..made' /\ device' \in 0..made'
    BY <1>1, <1>4, SerialConstants DEF SerialTypes
  <2>2. interrupted' \in BOOLEAN
    BY <1>1, <1>4 DEF SerialTypes, Connecting
  <2> QED  BY <1>1, <1>4, <1>5, <2>1, <2>2 DEF SerialTypes
<1>7. ObjectsOK'
  <2>1. \A c \in ConnIds : c > made' => c # made + 1 /\ c > made
    BY <1>1, <1>4 DEF ConnIds
  <2> QED  BY <1>3, <1>5, <2>1, SerialConstants DEF PortInv, ObjectsOK
<1>8. device # made + 1 /\ (current # 0 => device # current)
  BY <1>1, <1>4, ConnNumbers DEF PortInv, CurrentOK
<1>9. CurrentOK'
  BY <1>3, <1>4, <1>5, <1>8 DEF CurrentOK
<1>10. ClosingOK'
  BY <1>4 DEF PortInv, CurrentOK, ClosingOK
<1>11. OnlyCurrentOpens'
  <2> SUFFICES ASSUME ~interrupted'
               PROVE  device' = 0 /\ \A c \in ConnIds : c # made + 1 => conn'[c].opener = "ended"
    BY <1>4 DEF OnlyCurrentOpens
  <2>1. ~interrupted /\ ~Connecting(current)
    BY <1>4
  <2>2. device \in {0, current} /\ \A c \in ConnIds : c # current => conn[c].opener = "ended"
    BY <2>1 DEF PortInv, OnlyCurrentOpens
  <2>3. \A c \in ConnIds : conn[c].opener = "ended"
    BY <2>1, <2>2, <1>1, ConnNumbers DEF Connecting
  <2> QED  BY <1>4, <1>5, <1>8, <2>2, <2>3
<1> QED  BY <1>6, <1>7, <1>9, <1>10, <1>11 DEF PortInv

LEMMA OpenedKeepsPorts == ASSUME PortInv, NEW c \in ConnIds, PortOpened(c) PROVE PortInv'
<1>1. SerialTypes /\ c \in Nat /\ made \in Nat
  BY ConnNumbers DEF PortInv
<1>2. c <= made
  BY <1>1 DEF PortInv, ObjectsOK, PortOpened, Unmade
<1>3. PICK k : k = IF conn[c].listening
                   THEN [conn[c] EXCEPT !.port = "open", !.opener = "ended",
                                        !.isOpen = TRUE, !.connecting = FALSE]
                   ELSE [conn[c] EXCEPT !.port = "open", !.opener = "ended"]
  OBVIOUS
<1>4. conn[c] \in Connection
  BY <1>1 DEF SerialTypes
<1>5. /\ k \in Connection /\ k.port = "open" /\ k.opener = "ended" /\ k.queue = conn[c].queue
      /\ k.resolvers = conn[c].resolvers /\ k.listening = conn[c].listening
      /\ k.callbacks = conn[c].callbacks /\ (conn[c].listening => k.isOpen)
  BY <1>3, <1>4 DEF Connection
<1>6. /\ conn' = [conn EXCEPT ![c] = k] /\ device = 0 /\ device' = c /\ conn[c].opener = "attempt"
      /\ UNCHANGED <<made, current, persistent, options, destroyed, closing, line, asks,
                     interrupted, disturbed, faults>>
  BY <1>3 DEF PortOpened
<1>7. /\ conn' \in [ConnIds -> Connection] /\ conn'[c] = k
      /\ \A d \in ConnIds : d # c => conn'[d] = conn[d]
  BY <1>1, <1>5, <1>6 DEF SerialTypes
<1>8. SerialTypes'
  <2>1. device' \in 0..made'
    BY <1>1, <1>2, <1>6
  <2> QED  BY <1>1, <1>6, <1>7, <2>1 DEF SerialTypes
<1>9. ObjectsOK'
  <2>1. \A d \in ConnIds : d > made' => d # c
    BY <1>1, <1>2, <1>6
  <2> QED  BY <1>5, <1>6, <1>7, <2>1 DEF PortInv, ObjectsOK
<1>10. current # 0 => current \in ConnIds /\ conn[current].port # "open"
  BY <1>1, <1>6, ConnNumbers DEF PortInv, CurrentOK
<1>11. CurrentOK'
  BY <1>5, <1>6, <1>7, <1>10 DEF PortInv, CurrentOK
<1>12. ClosingOK'
  BY <1>6, <1>10 DEF PortInv, ClosingOK
<1>13. OnlyCurrentOpens'
  BY <1>6, <1>7 DEF PortInv, OnlyCurrentOpens
<1> QED  BY <1>8, <1>9, <1>11, <1>12, <1>13 DEF PortInv

LEMMA CleanedFacts ==
    ASSUME NEW k \in Connection
    PROVE  /\ Cleaned(k) \in Connection /\ Cleaned(k).opener = k.opener
           /\ Cleaned(k).tries = k.tries /\ Cleaned(k).queue = <<>> /\ ~Cleaned(k).timer
<1>1. <<>> \in Seq(Seq(Byte)) /\ <<>> \in Seq(Requests)
  BY EmptySeq
<1> QED  BY <1>1 DEF Cleaned, Connection

\* The object of the map is cleaned and leaves it.
LEMMA CleaningKeepsPorts ==
    ASSUME PortInv, current # 0, NEW k \in Connection, k.opener = conn[current].opener,
           k.tries = conn[current].tries,
           conn' = [conn EXCEPT ![current] = Cleaned(k)], current' = 0, device' \in {0, device},
           device # current \/ device' = 0, closing' = FALSE, line' \in Seq(Byte),
           interrupted' \in BOOLEAN,
           ~interrupted' => ~interrupted /\ ~Connecting(current),
           UNCHANGED <<made, persistent, options, destroyed, asks, disturbed, faults>>
    PROVE  PortInv'
<1>1. SerialTypes /\ current \in ConnIds /\ made \in Nat /\ current \in Nat /\ current <= made
  BY ConnNumbers DEF PortInv
<1>2. /\ conn' \in [ConnIds -> Connection] /\ conn'[current] = Cleaned(k)
      /\ \A d \in ConnIds : d # current => conn'[d] = conn[d]
  BY <1>1, CleanedFacts DEF SerialTypes
<1>3. SerialTypes'
  <2>1. current' \in 0..made' /\ device' \in 0..made'
    BY <1>1 DEF SerialTypes
  <2> QED  BY <1>1, <1>2, <2>1 DEF SerialTypes
<1>4. ObjectsOK'
  <2>1. \A d \in ConnIds : d > made' => d # current
    BY <1>1
  <2> QED  BY <1>2, <2>1, CleanedFacts DEF PortInv, ObjectsOK
<1>5. CurrentOK' /\ ClosingOK'
  BY DEF CurrentOK, ClosingOK
<1>6. OnlyCurrentOpens'
  BY <1>1, <1>2, CleanedFacts DEF PortInv, OnlyCurrentOpens, Connecting
<1> QED  BY <1>3, <1>4, <1>5, <1>6 DEF PortInv

LEMMA ForgetKeepsPorts == ASSUME PortInv, PortForget PROVE PortInv'
<1>1. SerialTypes /\ current # 0 /\ current \in ConnIds /\ conn[current] \in Connection
  BY ConnNumbers DEF PortInv, PortForget, SerialTypes
<1>2. interrupted' \in BOOLEAN /\ (~interrupted' => ~interrupted /\ ~Connecting(current))
  BY <1>1 DEF PortForget, SerialTypes, Connecting
<1>3. device # current
  BY <1>1 DEF PortInv, CurrentOK, PortForget
<1>4. /\ conn' = [conn EXCEPT ![current] = Cleaned(conn[current])] /\ current' = 0
      /\ device' \in {0, device} /\ closing' = FALSE /\ line' \in Seq(Byte)
      /\ UNCHANGED <<made, persistent, options, destroyed, asks, disturbed, faults>>
  BY <1>1 DEF PortForget, SerialTypes
<1> QED  BY <1>1, <1>2, <1>3, <1>4, CleaningKeepsPorts

LEMMA ClosedKeepsPorts == ASSUME PortInv, PortClosed PROVE PortInv'
<1>1. SerialTypes /\ current # 0 /\ current \in ConnIds /\ conn[current] \in Connection
  BY ConnNumbers DEF PortInv, PortClosed, SerialTypes
<1>2. /\ device = current /\ conn[current].opener = "ended"
  BY <1>1 DEF PortInv, CurrentOK, ClosingOK, PortClosed
<1>3. PICK k : k = [conn[current] EXCEPT !.port = "shut", !.isOpen = FALSE]
  OBVIOUS
<1>4. k \in Connection /\ k.opener = conn[current].opener /\ k.tries = conn[current].tries
  BY <1>1, <1>3 DEF Connection
<1>5. /\ conn' = [conn EXCEPT ![current] = Cleaned(k)] /\ current' = 0 /\ device' = 0
      /\ closing' = FALSE /\ line' \in Seq(Byte) /\ interrupted' = interrupted
      /\ UNCHANGED <<made, persistent, options, destroyed, asks, disturbed, faults>>
  <2>1. <<>> \in Seq(Byte)
    BY EmptySeq
  <2> QED  BY <1>1, <1>2, <1>3, <2>1 DEF PortClosed, SerialTypes
<1>6. interrupted' \in BOOLEAN /\ (~interrupted' => ~interrupted /\ ~Connecting(current))
  BY <1>1, <1>2, <1>5 DEF SerialTypes, Connecting
<1> QED  BY <1>1, <1>2, <1>4, <1>5, <1>6, CleaningKeepsPorts

LEMMA UnpluggedKeepsPorts == ASSUME PortInv, Unplugged PROVE PortInv'
<1>1. SerialTypes /\ device # 0 /\ device \in ConnIds /\ device \in Nat /\ made \in Nat
      /\ device <= made /\ conn[device] \in Connection
  BY ConnNumbers DEF PortInv, Unplugged, SerialTypes
<1>2. PICK k : k = [conn[device] EXCEPT !.port = "shut",
                                         !.isOpen = conn[device].isOpen /\ ~conn[device].listening]
  OBVIOUS
<1>3. /\ k \in Connection /\ k.port = "shut" /\ k.opener = conn[device].opener
      /\ k.tries = conn[device].tries /\ k.listening = conn[device].listening
      /\ k.callbacks = conn[device].callbacks /\ k.queue = conn[device].queue
      /\ k.resolvers = conn[device].resolvers /\ (conn[device].listening => ~k.isOpen)
  BY <1>1, <1>2 DEF Connection
<1>4. /\ conn' = [conn EXCEPT ![device] = k] /\ device' = 0 /\ ~closing /\ line' = <<>>
      /\ Fault /\ disturbed' = TRUE
      /\ UNCHANGED <<made, current, persistent, options, destroyed, closing, asks, interrupted>>
  BY <1>1, <1>2 DEF Unplugged, SerialTypes, Connection
<1>5. /\ conn' \in [ConnIds -> Connection] /\ conn'[device] = k
      /\ \A d \in ConnIds : d # device => conn'[d] = conn[d]
  BY <1>1, <1>3, <1>4 DEF SerialTypes
<1>6. SerialTypes'
  <2>1. <<>> \in Seq(Byte)
    BY EmptySeq
  <2>2. faults' \in 0..MaxFaults
    BY <1>1, <1>4, SerialConstants DEF SerialTypes, Fault
  <2>3. device' \in 0..made'
    BY <1>1, <1>4
  <2> QED  BY <1>1, <1>4, <1>5, <2>1, <2>2, <2>3 DEF SerialTypes
<1>7. ObjectsOK'
  <2>1. \A d \in ConnIds : d > made' => d # device
    BY <1>1, <1>4
  <2> QED  BY <1>3, <1>4, <1>5, <2>1 DEF PortInv, ObjectsOK
<1>8. current # 0 => current \in ConnIds
  BY <1>1, ConnNumbers
<1>9. CurrentOK'
  BY <1>1, <1>3, <1>4, <1>5, <1>8 DEF PortInv, CurrentOK
<1>10. ClosingOK'
  BY <1>4 DEF ClosingOK
<1>11. OnlyCurrentOpens'
  BY <1>3, <1>4, <1>5 DEF PortInv, OnlyCurrentOpens
<1> QED  BY <1>6, <1>7, <1>9, <1>10, <1>11 DEF PortInv

-----------------------------------------------------------------------------
(* The steps that change one object and no port.                             *)

\* What every use of ObjectChanges needs.
LEMMA ObjectMade ==
    ASSUME PortInv, NEW c \in ConnIds, conn[c] # Unmade
    PROVE  SerialTypes /\ conn[c] \in Connection /\ c <= made
BY ConnNumbers DEF PortInv, ObjectsOK, SerialTypes

LEMMA FaultBound == ASSUME SerialTypes, Fault PROVE faults' \in 0..MaxFaults
BY SerialConstants DEF SerialTypes, Fault

LEMMA CurrentMade ==
    ASSUME PortInv, current # 0
    PROVE  SerialTypes /\ current \in ConnIds /\ conn[current] \in Connection /\ current <= made
BY ConnNumbers DEF PortInv, SerialTypes

LEMMA OpenFailedKeepsPorts == ASSUME PortInv, NEW c \in ConnIds, PortOpenFailed(c) PROVE PortInv'
<1>1. SerialTypes /\ conn[c] \in Connection /\ c <= made /\ conn[c].opener = "attempt"
  BY ObjectMade DEF PortOpenFailed, Unmade
<1> DEFINE more == options.reconnect = "interval" \/ conn[c].tries + 1 < MaxAttempts
           tries == IF options.reconnect = "interval" THEN conn[c].tries ELSE conn[c].tries + 1
<1>2. PICK k : k = [OpenFailed(conn[c]) EXCEPT !.tries = tries,
                                               !.opener = IF more THEN "sleep" ELSE "ended"]
  OBVIOUS
<1>3. conn[c].tries \in Nat /\ conn[c].tries < MaxAttempts /\ MaxAttempts \in Nat
  BY <1>1, SerialConstants DEF PortInv, ObjectsOK, Connection
<1>4. tries \in 0..MaxAttempts /\ (more => tries < MaxAttempts)
  BY <1>3
<1>5. /\ k \in Connection /\ (k.opener # "ended" => k.tries < MaxAttempts)
      /\ k.callbacks = conn[c].callbacks /\ k.port = "shut" /\ k.isOpen = conn[c].isOpen
      /\ k.listening = conn[c].listening /\ k.queue = conn[c].queue
      /\ k.resolvers = conn[c].resolvers
  <2> HIDE DEF tries, more
  <2> QED  BY <1>1, <1>2, <1>4 DEF OpenFailed, Connection
<1>6. /\ conn' = [conn EXCEPT ![c] = k] /\ Fault
      /\ UNCHANGED <<made, current, persistent, options, destroyed, closing, device, line, asks,
                     interrupted, disturbed>>
  BY <1>2 DEF PortOpenFailed
<1>7. faults' \in 0..MaxFaults
  BY <1>1, <1>6, FaultBound
<1>8. c = current => conn[c].port # "open" /\ conn[c].listening /\ conn[c].callbacks = persistent
  BY <1>1, SerialConstants DEF PortInv, CurrentOK, ConnIds
<1>9. conn[c].queue # <<>> => conn[c].resolvers = <<>>
  BY DEF PortInv, ObjectsOK
<1> HIDE DEF tries, more
<1>10. c = current =>
           /\ k.callbacks = persistent' /\ (k.port = "open" <=> conn[c].port = "open")
           /\ k.isOpen = conn[c].isOpen
           /\ k.opener # "ended" \/ k.port = "open" => k.listening
           /\ k.port = "open" => k.opener = "ended"
  BY <1>5, <1>6, <1>8
<1>11. line' \in Seq(Byte) /\ asks' \in [Requests -> AskState] /\ destroyed' \in BOOLEAN
       /\ disturbed' \in BOOLEAN /\ closing' \in BOOLEAN /\ persistent' \subseteq Listeners
       /\ faults' \in 0..MaxFaults
  BY <1>1, <1>6, <1>7 DEF SerialTypes
<1> QED  BY <1>1, <1>5, <1>6, <1>9, <1>10, <1>11, ObjectChanges

LEMMA RetryKeepsPorts == ASSUME PortInv, NEW c \in ConnIds, PortRetry(c) PROVE PortInv'
<1>1. SerialTypes /\ conn[c] \in Connection /\ c <= made /\ conn[c].opener = "sleep"
  BY ObjectMade DEF PortRetry, Unmade
<1>2. PICK k : k = IF destroyed THEN [conn[c] EXCEPT !.opener = "ended"] ELSE Attempting(conn[c])
  OBVIOUS
<1>3. c = current => conn[c].port # "open" /\ conn[c].listening /\ conn[c].callbacks = persistent
  BY <1>1, SerialConstants DEF PortInv, CurrentOK, ConnIds
<1>4. /\ k \in Connection /\ k.tries = conn[c].tries
      /\ k.callbacks = conn[c].callbacks /\ k.port \in {"opening", conn[c].port}
      /\ k.isOpen = conn[c].isOpen /\ k.queue = conn[c].queue /\ k.resolvers = conn[c].resolvers
      /\ (k.opener # "ended" => k.listening)
  BY <1>1, <1>2 DEF Attempting, Connection
<1>5. /\ conn' = [conn EXCEPT ![c] = k]
      /\ UNCHANGED <<made, current, persistent, options, destroyed, closing, device, line, asks,
                     interrupted, disturbed, faults>>
  BY <1>2 DEF PortRetry
<1>6. conn[c].tries < MaxAttempts /\ (conn[c].queue # <<>> => conn[c].resolvers = <<>>)
  BY <1>1 DEF PortInv, ObjectsOK
<1>7. c = current =>
           /\ k.callbacks = persistent' /\ (k.port = "open" <=> conn[c].port = "open")
           /\ k.isOpen = conn[c].isOpen
           /\ k.opener # "ended" \/ k.port = "open" => k.listening
           /\ k.port = "open" => k.opener = "ended"
  BY <1>3, <1>4, <1>5
<1>8. line' \in Seq(Byte) /\ asks' \in [Requests -> AskState] /\ destroyed' \in BOOLEAN
       /\ disturbed' \in BOOLEAN /\ closing' \in BOOLEAN /\ persistent' \subseteq Listeners
       /\ faults' \in 0..MaxFaults
  BY <1>1, <1>5 DEF SerialTypes
<1> QED  BY <1>1, <1>4, <1>5, <1>6, <1>7, <1>8, ObjectChanges

LEMMA CloseKeepsPorts == ASSUME PortInv, PortClose PROVE PortInv'
<1>1. SerialTypes /\ current # 0 /\ current \in ConnIds /\ conn[current] \in Connection
      /\ current <= made
  BY CurrentMade DEF PortClose
<1>2. PICK k : k = [conn[current] EXCEPT !.timer = FALSE]
  OBVIOUS
<1>3. /\ k \in Connection /\ k.tries = conn[current].tries /\ k.opener = conn[current].opener
      /\ k.callbacks = conn[current].callbacks /\ k.port = conn[current].port
      /\ k.isOpen = conn[current].isOpen /\ k.queue = conn[current].queue
      /\ k.resolvers = conn[current].resolvers /\ k.listening = conn[current].listening
  BY <1>1, <1>2 DEF Connection
<1>4. /\ conn' = [conn EXCEPT ![current] = k] /\ conn[current].port = "open" /\ closing' = TRUE
      /\ UNCHANGED <<made, current, persistent, options, destroyed, device, line, asks,
                     interrupted, disturbed, faults>>
  BY <1>2 DEF PortClose
<1>5. /\ conn[current].queue # <<>> => conn[current].resolvers = <<>>
      /\ conn[current].opener # "ended" => conn[current].tries < MaxAttempts
  BY <1>1 DEF PortInv, ObjectsOK
<1>6. CurrentOK
  BY DEF PortInv
<1> QED  BY <1>1, <1>3, <1>4, <1>5, <1>6, ObjectChanges DEF SerialTypes, CurrentOK

LEMMA QuietKeepsPorts ==
    ASSUME PortInv, PortCloseFailed \/ Destroy \/ DisposeCallbacks PROVE PortInv'
<1>1. SerialTypes /\ (Fault => faults' \in 0..MaxFaults)
  BY FaultBound DEF PortInv
<1>2. CASE PortCloseFailed
  BY <1>1, <1>2, ObjectsStay DEF PortCloseFailed, SerialTypes
<1>3. CASE Destroy
  BY <1>1, <1>3, ObjectsStay DEF Destroy, SerialTypes
<1>4. CASE DisposeCallbacks
  BY <1>1, <1>4, ObjectsStay DEF DisposeCallbacks, SerialTypes
<1> QED  BY <1>2, <1>3, <1>4

LEMMA SubscribeKeepsPorts ==
    ASSUME PortInv, NEW l \in Listeners, Subscribe(l) \/ Unsubscribe(l) PROVE PortInv'
<1>1. SerialTypes /\ persistent' \subseteq Listeners
  BY DEF PortInv, SerialTypes, Subscribe, Unsubscribe
<1>2. UNCHANGED <<made, current, options, destroyed, closing, device, line, asks, interrupted,
                  disturbed, faults>>
  BY DEF Subscribe, Unsubscribe
<1>3. CASE current = 0
  <2>1. conn' = conn
    BY <1>3 DEF Subscribe, Unsubscribe
  <2> QED  BY <1>1, <1>2, <1>3, <2>1, ObjectsStay DEF SerialTypes
<1>4. CASE current # 0
  <2>1. current \in ConnIds /\ conn[current] \in Connection /\ current <= made
    BY <1>4, CurrentMade
  <2>2. CurrentOK /\ conn[current].callbacks = persistent
    BY <1>4 DEF PortInv, CurrentOK
  <2>3. PICK k : k = [conn[current] EXCEPT !.callbacks = persistent']
    OBVIOUS
  <2>4. conn' = [conn EXCEPT ![current] = k]
    BY <1>4, <2>2, <2>3 DEF Subscribe, Unsubscribe
  <2>5. /\ k \in Connection /\ k.tries = conn[current].tries /\ k.opener = conn[current].opener
        /\ k.callbacks = persistent' /\ k.port = conn[current].port
        /\ k.isOpen = conn[current].isOpen /\ k.queue = conn[current].queue
        /\ k.resolvers = conn[current].resolvers /\ k.listening = conn[current].listening
    BY <1>1, <2>1, <2>3 DEF Connection
  <2>6. /\ conn[current].queue # <<>> => conn[current].resolvers = <<>>
        /\ conn[current].opener # "ended" => conn[current].tries < MaxAttempts
    BY <2>1 DEF PortInv, ObjectsOK
  <2>7. line' \in Seq(Byte) /\ asks' \in [Requests -> AskState] /\ destroyed' \in BOOLEAN
         /\ disturbed' \in BOOLEAN /\ closing' \in BOOLEAN /\ persistent' \subseteq Listeners
         /\ faults' \in 0..MaxFaults
    BY <1>1, <1>2 DEF SerialTypes
  <2>8. /\ k.opener # "ended" \/ k.port = "open" => k.listening
        /\ k.port = "open" => k.opener = "ended"
    BY <1>4, <2>2, <2>5 DEF CurrentOK
  <2> QED  BY <1>2, <2>1, <2>4, <2>5, <2>6, <2>7, <2>8, ObjectChanges
<1> QED  BY <1>3, <1>4

-----------------------------------------------------------------------------
(* The steps of requests and data, on the side of the connection objects.    *)

\* An object whose port is left alone.
LEMMA ObjectFilled ==
    ASSUME PortInv, NEW c \in ConnIds, NEW k \in Connection, c <= made,
           conn' = [conn EXCEPT ![c] = k],
           k.port = conn[c].port, k.isOpen = conn[c].isOpen, k.opener = conn[c].opener,
           k.tries = conn[c].tries, k.listening = conn[c].listening,
           k.callbacks = conn[c].callbacks, k.queue # <<>> => k.resolvers = <<>>,
           UNCHANGED <<made, current, persistent, options, destroyed, closing, device,
                       interrupted>>,
           asks' \in [Requests -> AskState], line' \in Seq(Byte), faults' \in 0..MaxFaults,
           disturbed' \in BOOLEAN
    PROVE  PortInv'
<1>1. SerialTypes /\ CurrentOK /\ ObjectsOK
  BY DEF PortInv
<1>2. /\ conn[c].opener = "ended" => k.opener = "ended"
      /\ k.opener # "ended" => k.tries < MaxAttempts
      /\ closing' => closing \/ (current # 0 /\ conn[current].port = "open")
  BY <1>1 DEF ObjectsOK
<1>3. c = current =>
          /\ k.callbacks = persistent' /\ (k.port = "open" <=> conn[c].port = "open")
          /\ k.isOpen = conn[c].isOpen
          /\ k.opener # "ended" \/ k.port = "open" => k.listening
          /\ k.port = "open" => k.opener = "ended"
  BY <1>1, SerialConstants DEF CurrentOK, ConnIds
<1>4. destroyed' \in BOOLEAN /\ closing' \in BOOLEAN /\ persistent' \subseteq Listeners
  BY <1>1 DEF SerialTypes
<1> QED  BY <1>2, <1>3, <1>4, ObjectChanges

LEMMA PendingType == ASSUME SerialTypes, NEW r \in Requests PROVE asks[r] \in AskState
BY DEF SerialTypes

LEMMA WriteKeepsPorts ==
    ASSUME PortInv, NEW r \in Requests, WriteRequest(r) \/ RequestTimeout(r) PROVE PortInv'
<1>1. SerialTypes /\ asks[r] \in AskState
  BY PendingType DEF PortInv
<1>2. UNCHANGED <<conn, made, current, persistent, options, destroyed, closing, device,
                  interrupted>>
  BY DEF WriteRequest, RequestTimeout
<1>3. asks' \in [Requests -> AskState]
  <2>1. PICK p \in {"written", "timeout"} : asks' = [asks EXCEPT ![r].pc = p]
    BY DEF WriteRequest, RequestTimeout
  <2>2. [asks[r] EXCEPT !.pc = p] \in AskState
    BY <1>1, <2>1 DEF AskState
  <2> QED  BY <1>1, <2>1, <2>2 DEF SerialTypes
<1>4. faults' \in 0..MaxFaults
  BY <1>1, FaultBound DEF WriteRequest, RequestTimeout, SerialTypes
<1>5. line' \in Seq(Byte)
  <2>1. Answer(r) \in Seq(Byte) /\ line \in Seq(Byte)
    BY <1>1, PiecesOfAnswer DEF SerialTypes
  <2>2. line \o Answer(r) \in Seq(Byte)
    BY <2>1, ConcatProperties
  <2> QED  BY <2>1, <2>2 DEF WriteRequest, RequestTimeout
<1>6. disturbed' \in BOOLEAN
  BY <1>1 DEF WriteRequest, RequestTimeout, SerialTypes
<1> QED  BY <1>1, <1>2, <1>3, <1>4, <1>5, <1>6, ObjectsStay DEF SerialTypes

LEMMA FaultKeepsPorts == ASSUME PortInv, PortError PROVE PortInv'
<1>1. SerialTypes /\ device # 0 /\ device \in ConnIds /\ device <= made
      /\ conn[device] \in Connection
  BY ConnNumbers DEF PortInv, PortError, SerialTypes
<1>2. PICK k : k = [conn[device] EXCEPT !.rejecters = {}]
  OBVIOUS
<1>3. PICK failed \in SUBSET Requests :
          /\ asks' = [r \in Requests |-> IF r \in failed THEN [asks[r] EXCEPT !.pc = "error"]
                                         ELSE asks[r]]
          /\ disturbed' = (disturbed \/ failed # {})
  <2>1. conn[device].rejecters \subseteq Requests
    BY <1>1 DEF Connection
  <2> QED  BY <2>1 DEF PortError
<1>4. asks' \in [Requests -> AskState] /\ disturbed' \in BOOLEAN
  BY <1>1, <1>3 DEF SerialTypes, AskState
<1>5. /\ conn' = [conn EXCEPT ![device] = k] /\ Fault /\ line' = line
      /\ UNCHANGED <<made, current, persistent, options, destroyed, closing, device, interrupted>>
  BY <1>2 DEF PortError
<1>6. /\ k \in Connection /\ k.tries = conn[device].tries /\ k.opener = conn[device].opener
      /\ k.callbacks = conn[device].callbacks /\ k.port = conn[device].port
      /\ k.isOpen = conn[device].isOpen /\ k.queue = conn[device].queue
      /\ k.resolvers = conn[device].resolvers /\ k.listening = conn[device].listening
  BY <1>1, <1>2 DEF Connection
<1>7. line' \in Seq(Byte) /\ faults' \in 0..MaxFaults
  BY <1>1, <1>5, FaultBound DEF SerialTypes
<1>8. conn[device].queue # <<>> => conn[device].resolvers = <<>>
  BY <1>1 DEF PortInv, ObjectsOK
<1> QED  BY <1>1, <1>4, <1>5, <1>6, <1>7, <1>8, ObjectFilled

LEMMA OnDataKeepsPorts == ASSUME PortInv, NEW r \in Requests, OnData(r) PROVE PortInv'
<1>1. SerialTypes /\ asks[r] \in AskState
  BY PendingType DEF PortInv
<1>2. UNCHANGED <<made, current, persistent, options, destroyed, closing, device, line, interrupted,
                  faults>>
  BY DEF OnData
<1>3. /\ asks \in [Requests -> AskState] /\ line' \in Seq(Byte) /\ faults' \in 0..MaxFaults
      /\ disturbed' \in BOOLEAN /\ disturbed \in BOOLEAN
  BY <1>1, <1>2 DEF SerialTypes, OnData
<1>4. CASE /\ current = 0 /\ conn' = conn
           /\ asks' = [asks EXCEPT ![r].pc = "error"]
  <2>1. asks' \in [Requests -> AskState]
    BY <1>1, <1>3, <1>4 DEF AskState
  <2> QED  BY <1>1, <1>2, <1>3, <1>4, <2>1, ObjectsStay DEF SerialTypes
<1>5. CASE /\ current # 0 /\ conn[current].queue # <<>>
           /\ asks' = [asks EXCEPT ![r] = Answered(@, Head(conn[current].queue), disturbed)]
           /\ conn' = [conn EXCEPT ![current].queue = Tail(@)]
  <2>1. current \in ConnIds /\ current <= made /\ conn[current] \in Connection
    BY <1>5, CurrentMade
  <2>2. PICK q \in Seq(Seq(Byte)) : q = conn[current].queue
    BY <2>1 DEF Connection
  <2>3. Head(q) \in Seq(Byte) /\ Tail(q) \in Seq(Seq(Byte))
    BY <1>5, <2>2, HeadTailProperties
  <2>4. asks' \in [Requests -> AskState]
    <3>1. Answered(asks[r], Head(q), disturbed) \in AskState
      BY <1>1, <1>3, <2>3 DEF Answered, AskState
    <3> QED  BY <1>3, <1>5, <2>2, <3>1
  <2>5. PICK k : k = [conn[current] EXCEPT !.queue = Tail(q)]
    OBVIOUS
  <2>6. conn' = [conn EXCEPT ![current] = k]
    BY <1>5, <2>2, <2>5
  <2>7. /\ k \in Connection /\ k.tries = conn[current].tries /\ k.opener = conn[current].opener
        /\ k.callbacks = conn[current].callbacks /\ k.port = conn[current].port
        /\ k.isOpen = conn[current].isOpen /\ k.resolvers = conn[current].resolvers
        /\ k.listening = conn[current].listening
    BY <2>1, <2>3, <2>5 DEF Connection
  <2>8. k.resolvers = <<>>
    BY <1>5, <2>1, <2>7 DEF PortInv, ObjectsOK
  <2> QED  BY <1>2, <1>3, <2>1, <2>4, <2>6, <2>7, <2>8, ObjectFilled
<1>6. CASE /\ current # 0 /\ conn[current].queue = <<>>
           /\ asks' = [asks EXCEPT ![r].pc = "waiting"]
           /\ conn' = [conn EXCEPT ![current].resolvers = Append(@, r),
                                   ![current].rejecters = @ \cup {r}]
  <2>1. current \in ConnIds /\ current <= made /\ conn[current] \in Connection
    BY <1>6, CurrentMade
  <2>2. asks' \in [Requests -> AskState]
    BY <1>1, <1>3, <1>6 DEF AskState
  <2>3. PICK rr : rr = Append(conn[current].resolvers, r)
    OBVIOUS
  <2>4. rr \in Seq(Requests)
    <3>1. conn[current].resolvers \in Seq(Requests)
      BY <2>1 DEF Connection
    <3> QED  BY <2>3, <3>1, AppendProperties
  <2>5. PICK k : k = [conn[current] EXCEPT !.resolvers = rr, !.rejecters = @ \cup {r}]
    OBVIOUS
  <2>6. conn' = [conn EXCEPT ![current] = k]
    BY <1>1, <1>6, <2>1, <2>3, <2>5 DEF SerialTypes
  <2>7. /\ k \in Connection /\ k.tries = conn[current].tries /\ k.opener = conn[current].opener
        /\ k.callbacks = conn[current].callbacks /\ k.port = conn[current].port
        /\ k.isOpen = conn[current].isOpen /\ k.queue = conn[current].queue
        /\ k.listening = conn[current].listening
    BY <2>1, <2>4, <2>5 DEF Connection
  <2> QED  BY <1>2, <1>3, <1>6, <2>1, <2>2, <2>6, <2>7, ObjectFilled
<1> QED  BY <1>4, <1>5, <1>6 DEF OnData

LEMMA ArrivalKeepsPorts == ASSUME PortInv, NEW n \in Nat, DataArrives(n) PROVE PortInv'
<1>1. SerialTypes /\ device # 0 /\ device \in ConnIds /\ device <= made
      /\ conn[device] \in Connection
  BY ConnNumbers DEF PortInv, DataArrives, SerialTypes
<1>2. PICK chunk \in Seq(Byte), rest \in Seq(Byte) :
          chunk = SubSeq(line, 1, n) /\ rest = SubSeq(line, n + 1, Len(line))
  <2>1. line \in Seq(Byte) /\ Len(line) \in Nat /\ n \in 1..Len(line)
    BY <1>1 DEF SerialTypes, DataArrives
  <2>2. SubSeq(line, 1, n) \in Seq(Byte) /\ SubSeq(line, n + 1, Len(line)) \in Seq(Byte)
    BY <2>1
  <2> QED  BY <2>2
<1>3. PICK b : b = Buffering(conn[device], chunk)
  OBVIOUS
<1>4. b.emit \in Seq(Seq(Byte)) /\ b.raw \in Seq(Byte) /\ b.timer \in BOOLEAN
  BY <1>1, <1>3, BufferingType
<1>5. OutOfStep(n) \in BOOLEAN
  BY DEF OutOfStep
<1>6. /\ line' = rest /\ disturbed' = OutOfStep(n)
      /\ UNCHANGED <<made, current, persistent, options, destroyed, closing, device,
                     interrupted, faults>>
  BY <1>2 DEF DataArrives
<1>7. line' \in Seq(Byte) /\ disturbed' \in BOOLEAN /\ faults' \in 0..MaxFaults
  BY <1>1, <1>5, <1>6 DEF SerialTypes
<1>8. CASE conn[device].listening
  <2>1. /\ conn' = [conn EXCEPT ![device] = [Emitted(conn[device], b.emit) EXCEPT
                                                 !.raw = b.raw, !.timer = b.timer]]
        /\ asks' = Delivered(conn[device], b.emit, OutOfStep(n))
    BY <1>2, <1>3, <1>8 DEF DataArrives
  <2>2. asks' \in [Requests -> AskState]
    BY <1>1, <1>4, <1>5, <2>1, DeliveredType
  <2>3. PICK e : e = Emitted(conn[device], b.emit)
    OBVIOUS
  <2>4. PICK k : k = [e EXCEPT !.raw = b.raw, !.timer = b.timer]
    OBVIOUS
  <2>5. /\ e \in Connection /\ (e.queue # <<>> => e.resolvers = <<>>)
        /\ e.tries = conn[device].tries /\ e.opener = conn[device].opener
        /\ e.callbacks = conn[device].callbacks /\ e.port = conn[device].port
        /\ e.isOpen = conn[device].isOpen /\ e.listening = conn[device].listening
    BY <1>1, <1>4, <2>3, EmittedFacts
  <2>6. /\ k \in Connection /\ (k.queue # <<>> => k.resolvers = <<>>)
        /\ k.tries = conn[device].tries /\ k.opener = conn[device].opener
        /\ k.callbacks = conn[device].callbacks /\ k.port = conn[device].port
        /\ k.isOpen = conn[device].isOpen /\ k.listening = conn[device].listening
    BY <1>4, <2>4, <2>5 DEF Connection
  <2>7. conn' = [conn EXCEPT ![device] = k]
    BY <2>1, <2>3, <2>4
  <2> QED  BY <1>1, <1>6, <1>7, <2>2, <2>6, <2>7, ObjectFilled
<1>9. CASE ~conn[device].listening
  <2>1. conn' = conn /\ asks' = asks
    BY <1>9 DEF DataArrives
  <2> QED  BY <1>1, <1>6, <1>7, <2>1, ObjectsStay DEF SerialTypes
<1> QED  BY <1>8, <1>9

LEMMA TimeoutKeepsPorts == ASSUME PortInv, NEW c \in ConnIds, BufferTimeout(c) PROVE PortInv'
<1>1. SerialTypes /\ conn[c] \in Connection /\ c <= made
  BY ObjectMade DEF BufferTimeout, Unmade
<1>2. PICK data \in Seq(Seq(Byte)) : data = IF conn[c].raw = <<>> THEN <<>> ELSE <<conn[c].raw>>
  <2>1. conn[c].raw \in Seq(Byte)
    BY <1>1 DEF Connection
  <2>2. <<>> \in Seq(Seq(Byte)) /\ <<conn[c].raw>> \in Seq(Seq(Byte))
    BY <2>1
  <2> QED  BY <2>2
<1>3. /\ conn' = [conn EXCEPT ![c] = [Emitted(conn[c], data) EXCEPT !.raw = <<>>, !.timer = FALSE]]
      /\ asks' = Delivered(conn[c], data, disturbed)
      /\ UNCHANGED <<made, current, persistent, options, destroyed, closing, device, line,
                     interrupted, disturbed, faults>>
  BY <1>2 DEF BufferTimeout
<1>4. /\ line' \in Seq(Byte) /\ disturbed' \in BOOLEAN /\ disturbed \in BOOLEAN
      /\ faults' \in 0..MaxFaults
  BY <1>1, <1>3 DEF SerialTypes
<1>5. asks' \in [Requests -> AskState]
  BY <1>1, <1>3, <1>4, DeliveredType
<1>6. PICK e : e = Emitted(conn[c], data)
  OBVIOUS
<1>7. PICK k : k = [e EXCEPT !.raw = <<>>, !.timer = FALSE]
  OBVIOUS
<1>8. /\ e \in Connection /\ (e.queue # <<>> => e.resolvers = <<>>)
      /\ e.tries = conn[c].tries /\ e.opener = conn[c].opener
      /\ e.callbacks = conn[c].callbacks /\ e.port = conn[c].port
      /\ e.isOpen = conn[c].isOpen /\ e.listening = conn[c].listening
  BY <1>1, <1>2, <1>6, EmittedFacts
<1>9. /\ k \in Connection /\ (k.queue # <<>> => k.resolvers = <<>>)
      /\ k.tries = conn[c].tries /\ k.opener = conn[c].opener
      /\ k.callbacks = conn[c].callbacks /\ k.port = conn[c].port
      /\ k.isOpen = conn[c].isOpen /\ k.listening = conn[c].listening
  <2>1. <<>> \in Seq(Byte)
    BY EmptySeq
  <2> QED  BY <1>7, <1>8, <2>1 DEF Connection
<1>10. conn' = [conn EXCEPT ![c] = k]
  BY <1>3, <1>6, <1>7
<1> QED  BY <1>1, <1>3, <1>4, <1>5, <1>9, <1>10, ObjectFilled

-----------------------------------------------------------------------------
(* What an object emits to at most one resolver.                             *)

LEMMA EmitNothing ==
    ASSUME SerialTypes, NEW k \in Connection, k.queue = <<>>, NEW skew
    PROVE  /\ Emitted(k, <<>>).queue = <<>> /\ Emitted(k, <<>>).resolvers = k.resolvers
           /\ Delivered(k, <<>>, skew) = asks
<1>1. k.resolvers \in Seq(Requests) /\ Len(k.resolvers) \in Nat /\ Len(<<>>) = 0
  BY EmptySeq DEF Connection
<1>2. k.queue \o <<>> = <<>>
  BY ConcatEmptySeq, EmptySeq
<1>3. (IF Len(<<>>) < Len(k.resolvers) THEN Len(<<>>) ELSE Len(k.resolvers)) = 0
  BY <1>1
<1>4. Emitted(k, <<>>) = [k EXCEPT !.queue = SubSeq(<<>>, 0 + 1, Len(<<>>)),
                                   !.resolvers = SubSeq(k.resolvers, 0 + 1, Len(k.resolvers))]
  BY <1>2, <1>3 DEF Emitted
<1>5. SubSeq(<<>>, 0 + 1, Len(<<>>)) = <<>>
  BY <1>1, SubSeqEmpty
<1>6. SubSeq(k.resolvers, 0 + 1, Len(k.resolvers)) = k.resolvers
  BY <1>1, SubSeqFull
<1>7. Emitted(k, <<>>).queue = <<>> /\ Emitted(k, <<>>).resolvers = k.resolvers
  BY <1>4, <1>5, <1>6 DEF Connection
<1>8. \A r \in Requests :
          {i \in 1..Len(k.resolvers) : i <= Len(k.queue \o <<>>) /\ k.resolvers[i] = r} = {}
  BY <1>1, <1>2
<1>9. Delivered(k, <<>>, skew) = [r \in Requests |-> asks[r]]
  BY <1>8 DEF Delivered
<1>10. asks = [r \in Requests |-> asks[r]]
  BY DEF SerialTypes
<1> QED  BY <1>7, <1>9, <1>10

\* Nobody waits: the datum is queued.
LEMMA EmitQueued ==
    ASSUME SerialTypes, NEW k \in Connection, k.queue = <<>>, k.resolvers = <<>>,
           NEW d \in Seq(Byte), NEW skew
    PROVE  /\ Emitted(k, <<d>>).queue = <<d>> /\ Emitted(k, <<d>>).resolvers = <<>>
           /\ Delivered(k, <<d>>, skew) = asks
<1>1. <<d>> \in Seq(Seq(Byte)) /\ Len(<<d>>) = 1 /\ Len(<<>>) = 0
  BY EmptySeq
<1>2. k.queue \o <<d>> = <<d>>
  BY <1>1, ConcatEmptySeq
<1>3. (IF Len(<<d>>) < Len(k.resolvers) THEN Len(<<d>>) ELSE Len(k.resolvers)) = 0
  BY <1>1
<1>4. Emitted(k, <<d>>) = [k EXCEPT !.queue = SubSeq(<<d>>, 0 + 1, Len(<<d>>)),
                                    !.resolvers = SubSeq(k.resolvers, 0 + 1, Len(k.resolvers))]
  BY <1>2, <1>3 DEF Emitted
<1>5. SubSeq(<<d>>, 0 + 1, Len(<<d>>)) = <<d>>
  <2>1. PICK q \in Seq(Seq(Byte)) : q = <<d>>
    BY <1>1
  <2>2. SubSeq(q, 1, Len(q)) = q
    BY SubSeqFull
  <2>3. 0 + 1 = 1
    OBVIOUS
  <2> QED  BY <2>1, <2>2, <2>3
<1>6. SubSeq(k.resolvers, 0 + 1, Len(k.resolvers)) = <<>>
  BY <1>1, SubSeqEmpty
<1>7. Emitted(k, <<d>>).queue = <<d>> /\ Emitted(k, <<d>>).resolvers = <<>>
  BY <1>4, <1>5, <1>6 DEF Connection
<1>8. \A r \in Requests :
          {i \in 1..Len(k.resolvers) : i <= Len(k.queue \o <<d>>) /\ k.resolvers[i] = r} = {}
  BY <1>1
<1>9. Delivered(k, <<d>>, skew) = [r \in Requests |-> asks[r]]
  BY <1>8 DEF Delivered
<1>10. asks = [r \in Requests |-> asks[r]]
  BY DEF SerialTypes
<1> QED  BY <1>7, <1>9, <1>10

\* One request waits: it gets the datum.
LEMMA EmitTaken ==
    ASSUME NEW k \in Connection, NEW r \in Requests, NEW d \in Seq(Byte), NEW skew,
           SerialTypes, k.queue = <<>>, k.resolvers = <<r>>, asks[r].pc = "waiting"
    PROVE  /\ Emitted(k, <<d>>).queue = <<>> /\ Emitted(k, <<d>>).resolvers = <<>>
           /\ Delivered(k, <<d>>, skew)[r] = Answered(asks[r], d, skew)
           /\ \A s \in Requests : s # r => Delivered(k, <<d>>, skew)[s] = asks[s]
<1>1. <<d>> \in Seq(Seq(Byte)) /\ Len(<<d>>) = 1 /\ Len(<<r>>) = 1
  OBVIOUS
<1>2. k.queue \o <<d>> = <<d>>
  BY <1>1, ConcatEmptySeq
<1>3. (IF Len(<<d>>) < Len(k.resolvers) THEN Len(<<d>>) ELSE Len(k.resolvers)) = 1
  BY <1>1
<1>4. Emitted(k, <<d>>) = [k EXCEPT !.queue = SubSeq(<<d>>, 1 + 1, Len(<<d>>)),
                                    !.resolvers = SubSeq(k.resolvers, 1 + 1, Len(k.resolvers))]
  BY <1>2, <1>3 DEF Emitted
<1>5. SubSeq(<<d>>, 1 + 1, Len(<<d>>)) = <<>>
  BY <1>1, SubSeqEmpty
<1>6. SubSeq(k.resolvers, 1 + 1, Len(k.resolvers)) = <<>>
  BY <1>1, SubSeqEmpty
<1>7. Emitted(k, <<d>>).queue = <<>> /\ Emitted(k, <<d>>).resolvers = <<>>
  BY <1>4, <1>5, <1>6 DEF Connection
<1> DEFINE turns(s) ==
          {i \in 1..Len(k.resolvers) : i <= Len(k.queue \o <<d>>) /\ k.resolvers[i] = s}
<1>8. \A s \in Requests : turns(s) = IF s = r THEN {1} ELSE {}
  BY <1>1, <1>2
<1>9. Delivered(k, <<d>>, skew) =
          [s \in Requests |-> IF asks[s].pc = "waiting" /\ turns(s) # {}
                              THEN Answered(asks[s], <<d>>[CHOOSE i \in turns(s) : TRUE], skew)
                              ELSE asks[s]]
  BY <1>2 DEF Delivered
<1>10. (CHOOSE i \in turns(r) : TRUE) = 1 /\ <<d>>[1] = d
  BY <1>8
<1> HIDE DEF turns
<1>11. Delivered(k, <<d>>, skew) = [s \in Requests |-> IF s = r THEN Answered(asks[r], d, skew)
                                                       ELSE asks[s]]
  BY <1>8, <1>9, <1>10
<1> QED  BY <1>7, <1>11

\* What a strategy makes of an answer, once all of it has come, and of its first byte.
LEMMA BufferingOfAnswer ==
    ASSUME SerialTypes, NEW k \in Connection, NEW chunk \in Seq(Byte), NEW r \in Requests,
           k.raw \o chunk = Answer(r), options.buffer = "none" => chunk = Answer(r) /\ k.raw = <<>>,
           ~k.timer
    PROVE  LET b == Buffering(k, chunk) IN
           \/ b.emit = << OwnAnswer(r) >> /\ b.raw = <<>> /\ ~b.timer
           \/ /\ b.emit = <<>>
              /\ b.timer => b.raw = Answer(r) /\ options.buffer \in {"time", "combined"}
<1>1. /\ Len(Answer(r)) = 2 /\ Pieces(Answer(r)) = << <<r>> >> /\ After(Answer(r)) = <<>>
  BY PiecesOfAnswer
<1>2. CASE options.buffer = "none"
  BY <1>1, <1>2 DEF Buffering, OwnAnswer
<1>3. CASE options.buffer = "time"
  BY <1>1, <1>3 DEF Buffering, OwnAnswer
<1>4. CASE options.buffer = "size"
  BY <1>1, <1>4 DEF Buffering, OwnAnswer
<1>5. CASE options.buffer = "delimiter"
  BY <1>1, <1>5 DEF Buffering, OwnAnswer
<1>6. CASE options.buffer = "combined"
  BY <1>1, <1>6 DEF Buffering, OwnAnswer
<1> QED  BY <1>2, <1>3, <1>4, <1>5, <1>6 DEF SerialTypes, SerialOptions, BufferType

LEMMA BufferingOfStart ==
    ASSUME SerialTypes, NEW k \in Connection, k.raw = <<>>, NEW r \in Requests, ~k.timer,
           options.buffer = "delimiter" \/ (options.buffer = "size" /\ ~(1 >= BufferSize))
    PROVE  LET b == Buffering(k, <<r>>) IN b.emit = <<>> /\ b.raw = <<r>> /\ ~b.timer
<1>1. <<r>> \in Seq(Byte) /\ Len(<<r>>) = 1
  BY SerialConstants
<1>2. k.raw \o <<r>> = <<r>>
  BY <1>1, ConcatEmptySeq
<1>3. Pieces(<<r>>) = <<>> /\ After(<<r>>) = <<r>>
  BY PiecesOfAnswer
<1>4. ~(1 > MaxBuffer)
  BY SerialConstants
<1>5. CASE options.buffer = "delimiter"
  BY <1>1, <1>2, <1>3, <1>4, <1>5 DEF Buffering
<1>6. CASE options.buffer = "size" /\ ~(1 >= BufferSize)
  BY <1>1, <1>2, <1>6 DEF Buffering
<1> QED  BY <1>5, <1>6

-----------------------------------------------------------------------------
(* The steps that leave answers and requests in step.                        *)

LEMMA AnswersStay ==
    ASSUME AnswerIsMine, options' = options,
           \A r \in Requests : asks'[r].pc = "answered" => asks'[r] = asks[r]
    PROVE  AnswerIsMine'
BY DEF AnswerIsMine, Answer

\* Nothing that InStep speaks of changes, but a timer may be cleared.
LEMMA CalmKeeps ==
    ASSUME PortInv, InStep, asks' = asks, options' = options, line' = line, current' = current,
           device' = device \/ line = <<>>,
           \A c \in ConnIds :
               /\ conn'[c].raw = conn[c].raw /\ conn'[c].queue = conn[c].queue
               /\ conn'[c].resolvers = conn[c].resolvers
               /\ conn'[c].timer => conn[c].timer /\ (conn[c].isOpen => conn'[c].isOpen)
    PROVE  InStep'
<1>1. current # 0 => current \in ConnIds
  BY ConnNumbers DEF PortInv
<1>2. OneAtWork' /\ TimersOK' /\ LineOK'
  BY DEF InStep, OneAtWork, Pending, TimersOK, LineOK, ConnIds
<1>3. ResolversOK'
  BY <1>1 DEF InStep, ResolversOK
<1>4. NothingLeft'
  BY <1>1 DEF InStep, NothingLeft, Pending
<1>5. Coming'
  <2> SUFFICES ASSUME NEW r \in Pending', current' # 0
               PROVE  /\ OnLine(r, conn[current])' \/ Held(r, conn[current])'
                         \/ Queued(r, conn[current])'
                      /\ asks'[r].pc = "waiting" /\ (line' # <<>> \/ conn'[current'].timer)
                             => conn'[current'].resolvers = <<r>>
    BY DEF Coming
  <2>1. r \in Pending
    BY DEF Pending
  <2>2. /\ OnLine(r, conn[current]) \/ Held(r, conn[current]) \/ Queued(r, conn[current])
        /\ asks[r].pc = "waiting" /\ (line # <<>> \/ conn[current].timer)
               => conn[current].resolvers = <<r>>
    BY <2>1 DEF InStep, Coming
  <2>3. OnLine(r, conn[current]) => OnLine(r, conn[current])'
    BY <1>1 DEF OnLine, Answer
  <2>4. Held(r, conn[current]) => Held(r, conn[current])'
    BY <1>1 DEF Held, Answer
  <2>5. Queued(r, conn[current]) => Queued(r, conn[current])'
    BY <1>1 DEF Queued, OwnAnswer, Answer
  <2> QED  BY <1>1, <2>2, <2>3, <2>4, <2>5
<1> QED  BY <1>2, <1>3, <1>4, <1>5 DEF InStep

\* The path has another connection or none, and nothing is under way.
LEMMA FreshKeeps ==
    ASSUME PortInv, InStep, asks' = asks, options' = options, line' = <<>>,
           \A c \in ConnIds : ~conn'[c].timer,
           current' # 0 => /\ current' \in ConnIds /\ conn'[current'].raw = <<>>
                           /\ conn'[current'].queue = <<>> /\ conn'[current'].resolvers = <<>>
    PROVE  InStep'
<1>1. OneAtWork' /\ TimersOK' /\ LineOK' /\ ResolversOK'
  BY DEF InStep, OneAtWork, Pending, TimersOK, LineOK, ResolversOK, ConnIds
<1>2. NothingLeft'
  BY DEF NothingLeft
<1>3. Coming'
  BY DEF Coming, Held
<1> QED  BY <1>1, <1>2, <1>3 DEF InStep

\* A step that touches no request and no data.
LEMMA QuietInStep ==
    ASSUME PortInv, InStep,
           \/ PortClose \/ PortCloseFailed \/ Destroy \/ DisposeCallbacks
           \/ \E l \in Listeners : Subscribe(l) \/ Unsubscribe(l)
           \/ \E c \in ConnIds : PortOpened(c) \/ PortOpenFailed(c) \/ PortRetry(c)
    PROVE  InStep'
<1>1. /\ asks' = asks /\ options' = options /\ line' = line /\ current' = current
  BY DEF PortClose, PortCloseFailed, Destroy, DisposeCallbacks, Subscribe, Unsubscribe, PortOpened,
         PortOpenFailed, PortRetry
<1>2. device' = device \/ line = <<>>
  BY DEF PortClose, PortCloseFailed, Destroy, DisposeCallbacks, Subscribe, Unsubscribe, PortOpened,
         PortOpenFailed, PortRetry, InStep, LineOK
<1>3. SerialTypes /\ (current # 0 => current \in ConnIds)
      /\ \A c \in ConnIds : conn[c] \in Connection
  BY ConnNumbers DEF PortInv, SerialTypes
<1> DEFINE kept(c) ==
          /\ conn'[c].raw = conn[c].raw /\ conn'[c].queue = conn[c].queue
          /\ conn'[c].resolvers = conn[c].resolvers
          /\ conn'[c].timer => conn[c].timer /\ (conn[c].isOpen => conn'[c].isOpen)
<1>4. \A c \in ConnIds : kept(c)
  <2>1. CASE PortCloseFailed \/ Destroy \/ DisposeCallbacks
    BY <2>1 DEF PortCloseFailed, Destroy, DisposeCallbacks
  <2>2. CASE PortClose
    BY <1>3, <2>2 DEF PortClose, SerialTypes, Connection
  <2>3. ASSUME NEW l \in Listeners, Subscribe(l) \/ Unsubscribe(l) PROVE \A c \in ConnIds : kept(c)
    <3>1. CASE current = 0
      BY <2>3, <3>1 DEF Subscribe, Unsubscribe
    <3>2. CASE current # 0
      <4>1. PICK ls : conn' = [conn EXCEPT ![current].callbacks = ls]
        BY <2>3, <3>2 DEF Subscribe, Unsubscribe
      <4> QED  BY <1>3, <3>2, <4>1 DEF SerialTypes, Connection
    <3> QED  BY <3>1, <3>2
  <2>4. ASSUME NEW d \in ConnIds, PortOpened(d) PROVE \A c \in ConnIds : kept(c)
    BY <1>3, <2>4 DEF PortOpened, SerialTypes, Connection
  <2>5. ASSUME NEW d \in ConnIds, PortOpenFailed(d) PROVE \A c \in ConnIds : kept(c)
    BY <1>3, <2>5 DEF PortOpenFailed, OpenFailed, SerialTypes, Connection
  <2>6. ASSUME NEW d \in ConnIds, PortRetry(d) PROVE \A c \in ConnIds : kept(c)
    <3>1. CASE destroyed
      BY <1>3, <2>6, <3>1 DEF PortRetry, SerialTypes, Connection
    <3>2. CASE ~destroyed
      <4>1. conn' = [conn EXCEPT ![d] = Attempting(conn[d])]
        BY <2>6, <3>2 DEF PortRetry
      <4> QED  BY <1>3, <4>1 DEF Attempting, SerialTypes, Connection
    <3> QED  BY <3>1, <3>2
  <2> QED  BY <2>1, <2>2, <2>3, <2>4, <2>5, <2>6
<1> QED  BY <1>1, <1>2, <1>4, CalmKeeps

\* A new connection starts with nothing, and a gone one leaves nothing.
LEMMA FreshInStep ==
    ASSUME PortInv, InStep, PortOpen \/ PortForget \/ PortClosed
    PROVE  InStep'
<1>1. SerialTypes /\ made \in Nat /\ (current # 0 => current \in ConnIds)
      /\ \A c \in ConnIds : conn[c] \in Connection /\ c \in Nat /\ c # 0
  BY ConnNumbers DEF PortInv, SerialTypes
<1>2. asks' = asks /\ options' = options
  BY DEF PortOpen, PortForget, PortClosed
<1>3. CASE PortOpen
  <2>1. ~(current # 0 /\ conn[current].isOpen) /\ made + 1 \in ConnIds
    BY <1>1, <1>3, SerialConstants DEF PortOpen, ConnIds
  <2>2. line' = <<>>
    BY <1>3, <2>1 DEF PortOpen, PortInv, CurrentOK, InStep, LineOK
  <2>3. \A c \in ConnIds : ~conn[c].timer
    BY <1>1, <2>1 DEF InStep, TimersOK
  <2>4. PICK k : k = IF destroyed THEN Restored(Unmade) ELSE Attempting(Restored(Unmade))
    OBVIOUS
  <2>5. k.raw = <<>> /\ k.queue = <<>> /\ k.resolvers = <<>> /\ ~k.timer
    BY <2>4 DEF Restored, Attempting, Unmade
  <2>6. conn' = [conn EXCEPT ![made + 1] = k] /\ current' = made + 1
    BY <1>3, <2>4 DEF PortOpen
  <2>7. /\ \A c \in ConnIds : ~conn'[c].timer
        /\ current' # 0 => /\ current' \in ConnIds /\ conn'[current'].raw = <<>>
                           /\ conn'[current'].queue = <<>> /\ conn'[current'].resolvers = <<>>
    BY <1>1, <2>1, <2>3, <2>5, <2>6 DEF SerialTypes
  <2> QED  BY <1>2, <2>2, <2>7, FreshKeeps
<1>4. CASE PortForget \/ PortClosed
  <2>1. current # 0 /\ current' = 0
    BY <1>4 DEF PortForget, PortClosed
  <2>2. line' = <<>>
    <3>1. CASE PortForget
      BY <3>1 DEF PortForget, PortInv, CurrentOK, InStep, LineOK
    <3>2. CASE PortClosed
      BY <3>2 DEF PortClosed, InStep, LineOK
    <3> QED  BY <1>4, <3>1, <3>2
  <2>3. PICK k \in Connection : conn' = [conn EXCEPT ![current] = Cleaned(k)]
    <3>1. CASE PortForget
      BY <1>1, <2>1, <3>1 DEF PortForget
    <3>2. CASE PortClosed
      <4>1. [conn[current] EXCEPT !.port = "shut", !.isOpen = FALSE] \in Connection
        BY <1>1, <2>1 DEF Connection
      <4> QED  BY <3>2, <4>1 DEF PortClosed
    <3> QED  BY <1>4, <3>1, <3>2
  <2>4. \A c \in ConnIds : c # current => ~conn[c].timer
    BY DEF InStep, TimersOK
  <2>5. \A c \in ConnIds : ~conn'[c].timer
    BY <1>1, <2>1, <2>3, <2>4, CleanedFacts DEF SerialTypes
  <2> QED  BY <1>2, <2>1, <2>2, <2>5, FreshKeeps
<1> QED  BY <1>3, <1>4

\* An error that rejects nobody.
LEMMA ErrorInStep == ASSUME PortInv, InStep, PortError, ~disturbed' PROVE InStep'
<1>1. SerialTypes /\ device # 0 /\ device \in ConnIds /\ \A c \in ConnIds : conn[c] \in Connection
  BY ConnNumbers DEF PortInv, PortError, SerialTypes
<1>2. asks' = asks
  <2>1. {r \in conn[device].rejecters : asks[r].pc = "waiting"} = {}
    BY DEF PortError
  <2>2. asks' = [r \in Requests |-> asks[r]]
    BY <2>1 DEF PortError
  <2> QED  BY <1>1, <2>2 DEF SerialTypes
<1>3. /\ conn' = [conn EXCEPT ![device].rejecters = {}]
      /\ options' = options /\ line' = line /\ current' = current /\ device' = device
  BY DEF PortError
<1>4. \A c \in ConnIds :
          /\ conn'[c].raw = conn[c].raw /\ conn'[c].queue = conn[c].queue
          /\ conn'[c].resolvers = conn[c].resolvers
          /\ conn'[c].timer => conn[c].timer /\ (conn[c].isOpen => conn'[c].isOpen)
  BY <1>1, <1>3 DEF SerialTypes, Connection
<1> QED  BY <1>2, <1>3, <1>4, CalmKeeps

\* A request is written while none is pending: its answer is on the line.
LEMMA WriteInStep ==
    ASSUME PortInv, InStep, NEW r \in Requests, WriteRequest(r), ~disturbed' PROVE InStep'
<1>1. SerialTypes /\ current # 0 /\ current \in ConnIds /\ asks \in [Requests -> AskState]
  BY ConnNumbers DEF PortInv, WriteRequest, SerialTypes
<1>2. Pending = {} /\ line = <<>> /\ line' = line \o Answer(r)
  BY DEF WriteRequest
<1>3. line' = Answer(r)
  <2>1. Answer(r) \in Seq(Byte)
    BY PiecesOfAnswer
  <2> QED  BY <1>2, <2>1, ConcatEmptySeq
<1>4. /\ conn' = conn /\ current' = current /\ device' = device /\ options' = options
      /\ asks' = [asks EXCEPT ![r].pc = "written"] /\ asks[r].pc = "idle"
      /\ conn[current].port = "open"
  BY DEF WriteRequest
<1>5. device = current
  BY <1>1, <1>4 DEF PortInv, CurrentOK
<1>6. asks'[r].pc = "written" /\ \A s \in Requests : s # r => asks'[s] = asks[s]
  BY <1>1, <1>4 DEF AskState
<1>7. Pending' = {r}
  BY <1>2, <1>6 DEF Pending
<1>8. /\ conn[current].raw = <<>> /\ conn[current].queue = <<>>
      /\ conn[current].resolvers = <<>> /\ ~conn[current].timer
  BY <1>1, <1>2 DEF InStep, NothingLeft
<1>9. OneAtWork' /\ NothingLeft'
  BY <1>7 DEF OneAtWork, NothingLeft
<1>10. TimersOK' /\ LineOK' /\ ResolversOK'
  BY <1>1, <1>4, <1>5, <1>8 DEF InStep, TimersOK, LineOK, ResolversOK
<1>11. Coming'
  <2>1. OnLine(r, conn[current])'
    BY <1>3, <1>4, <1>8 DEF OnLine, Answer
  <2> QED  BY <1>4, <1>6, <1>7, <2>1 DEF Coming
<1> QED  BY <1>9, <1>10, <1>11 DEF InStep

-----------------------------------------------------------------------------
(* The steps that give a request its answer.                                 *)

\* The only request takes what was queued for it, or its place in the queue.
LEMMA OnDataInStep ==
    ASSUME PortInv, InStep, NEW r \in Requests, OnData(r), ~disturbed' PROVE InStep'
<1>1. SerialTypes /\ current # 0 /\ current \in ConnIds /\ conn[current] \in Connection
      /\ asks \in [Requests -> AskState] /\ conn \in [ConnIds -> Connection]
  BY ConnNumbers DEF PortInv, OnData, SerialTypes
<1>2. /\ current' = current /\ device' = device /\ options' = options /\ line' = line
      /\ asks[r].pc = "written"
  BY DEF OnData
<1>3. r \in Pending /\ \A s \in Pending : s = r
  BY <1>2 DEF InStep, OneAtWork, Pending
<1>4. /\ OnLine(r, conn[current]) \/ Held(r, conn[current]) \/ Queued(r, conn[current])
  BY <1>1, <1>3 DEF InStep, Coming
<1>5. CASE /\ conn[current].queue # <<>>
           /\ asks' = [asks EXCEPT ![r] = Answered(@, Head(conn[current].queue), disturbed)]
           /\ conn' = [conn EXCEPT ![current].queue = Tail(@)]
  <2>1. /\ line = <<>> /\ conn[current].queue = <<OwnAnswer(r)>> /\ conn[current].raw = <<>>
        /\ ~conn[current].timer /\ conn[current].resolvers = <<>>
    BY <1>1, <1>4, <1>5 DEF OnLine, Held, Queued, PortInv, ObjectsOK
  <2>2. asks'[r].pc = "answered" /\ \A s \in Requests : s # r => asks'[s] = asks[s]
    BY <1>1, <1>5 DEF Answered, AskState
  <2>3. Pending' = {}
    BY <1>3, <2>2 DEF Pending
  <2>4. conn'[current].queue = <<>>
    BY <1>1, <1>5, <2>1 DEF Connection
  <2>5. \A c \in ConnIds : /\ conn'[c].raw = conn[c].raw /\ conn'[c].resolvers = conn[c].resolvers
                           /\ conn'[c].timer = conn[c].timer /\ conn'[c].isOpen = conn[c].isOpen
    BY <1>1, <1>5 DEF Connection
  <2>6. OneAtWork' /\ Coming'
    BY <2>3 DEF OneAtWork, Coming
  <2>7. TimersOK' /\ LineOK' /\ ResolversOK'
    BY <1>1, <1>2, <2>1, <2>5 DEF InStep, TimersOK, LineOK, ResolversOK
  <2>8. NothingLeft'
    BY <1>1, <1>2, <2>1, <2>4, <2>5 DEF NothingLeft
  <2> QED  BY <2>6, <2>7, <2>8 DEF InStep
<1>6. CASE /\ conn[current].queue = <<>>
           /\ asks' = [asks EXCEPT ![r].pc = "waiting"]
           /\ conn' = [conn EXCEPT ![current].resolvers = Append(@, r),
                                   ![current].rejecters = @ \cup {r}]
  <2>1. conn[current].resolvers = <<>>
    <3>1. \A s \in Requests : asks[s].pc = "waiting" => s = r
      BY <1>3 DEF Pending
    <3> QED  BY <1>1, <1>2, <3>1 DEF InStep, ResolversOK
  <2>2. asks'[r].pc = "waiting" /\ \A s \in Requests : s # r => asks'[s] = asks[s]
    BY <1>1, <1>6 DEF AskState
  <2>3. Pending' = {r}
    BY <1>3, <2>2 DEF Pending
  <2>4. Append(<<>>, r) = <<r>>
    <3>1. <<>> \in Seq(Requests)
      BY EmptySeq
    <3>2. Append(<<>>, r) = <<>> \o <<r>> /\ <<r>> \in Seq(Requests)
      BY <3>1, AppendIsConcat
    <3> QED  BY <3>2, ConcatEmptySeq
  <2>5. PICK k : k = [conn[current] EXCEPT !.resolvers = Append(@, r), !.rejecters = @ \cup {r}]
    OBVIOUS
  <2>6. conn' = [conn EXCEPT ![current] = k]
    BY <1>1, <1>6, <2>5
  <2>7. /\ k.resolvers = <<r>> /\ k.raw = conn[current].raw /\ k.queue = conn[current].queue
        /\ k.timer = conn[current].timer /\ k.isOpen = conn[current].isOpen
    BY <1>1, <2>1, <2>4, <2>5 DEF Connection
  <2>8. conn'[current] = k /\ \A c \in ConnIds : c # current => conn'[c] = conn[c]
    BY <1>1, <2>6
  <2>9. OneAtWork' /\ NothingLeft'
    BY <2>3 DEF OneAtWork, NothingLeft
  <2>10. TimersOK' /\ LineOK' /\ ResolversOK'
    BY <1>1, <1>2, <2>2, <2>7, <2>8 DEF InStep, TimersOK, LineOK, ResolversOK
  <2>11. Coming'
    <3>1. OnLine(r, conn[current]) \/ Held(r, conn[current])
      BY <1>4, <1>6 DEF Queued
    <3>2. OnLine(r, conn[current]) => OnLine(r, conn[current])'
      BY <1>2, <2>7, <2>8 DEF OnLine, Answer
    <3>3. Held(r, conn[current]) => Held(r, conn[current])'
      BY <1>2, <2>7, <2>8 DEF Held, Answer
    <3> QED  BY <1>2, <2>3, <2>7, <2>8, <3>1, <3>2, <3>3 DEF Coming
  <2> QED  BY <2>9, <2>10, <2>11 DEF InStep
<1> QED  BY <1>1, <1>5, <1>6 DEF OnData

\* The connection emits the answer of the only request: it is taken or queued.
LEMMA EmissionInStep ==
    ASSUME PortInv, InStep, current # 0, NEW r \in Pending, conn[current].queue = <<>>,
           asks[r].pc = "waiting" => conn[current].resolvers = <<r>>,
           NEW k, NEW skew, conn' = [conn EXCEPT ![current] = k],
           k.queue = Emitted(conn[current], << OwnAnswer(r) >>).queue,
           k.resolvers = Emitted(conn[current], << OwnAnswer(r) >>).resolvers,
           k.raw = <<>>, ~k.timer, k.isOpen = conn[current].isOpen,
           asks' = Delivered(conn[current], << OwnAnswer(r) >>, skew),
           options' = options, current' = current, line' = <<>>
    PROVE  InStep' /\ (AnswerIsMine => AnswerIsMine')
<1>1. SerialTypes /\ current \in ConnIds /\ conn[current] \in Connection /\ r \in Requests
      /\ asks \in [Requests -> AskState] /\ conn \in [ConnIds -> Connection]
  BY ConnNumbers DEF PortInv, SerialTypes, Pending
<1>2. OwnAnswer(r) \in Seq(Byte)
  <2>1. <<r>> \in Seq(Byte)
    BY <1>1, SerialConstants
  <2> QED  BY <1>1, <2>1, PiecesOfAnswer DEF OwnAnswer
<1>3. asks[r].pc \in {"written", "waiting"} /\ \A s \in Pending : s = r
  BY DEF InStep, OneAtWork, Pending
<1>4. conn'[current] = k /\ \A c \in ConnIds : c # current => conn'[c] = conn[c]
  BY <1>1
<1>5. TimersOK' /\ LineOK'
  BY <1>4 DEF InStep, TimersOK, LineOK, ConnIds
<1>6. CASE asks[r].pc = "waiting"
  <2>1. /\ k.queue = <<>> /\ k.resolvers = <<>>
        /\ asks'[r] = Answered(asks[r], OwnAnswer(r), skew)
        /\ \A s \in Requests : s # r => asks'[s] = asks[s]
    <3>1. conn[current].resolvers = <<r>>
      BY <1>6
    <3>2. PICK o \in Connection, d \in Seq(Byte) : o = conn[current] /\ d = OwnAnswer(r)
      BY <1>1, <1>2
    <3>3. r \in Requests /\ o.queue = <<>> /\ o.resolvers = <<r>>
      BY <1>1, <3>1, <3>2
    <3>4. /\ Emitted(o, <<d>>).queue = <<>> /\ Emitted(o, <<d>>).resolvers = <<>>
          /\ Delivered(o, <<d>>, skew)[r] = Answered(asks[r], d, skew)
          /\ \A s \in Requests : s # r => Delivered(o, <<d>>, skew)[s] = asks[s]
      BY <1>1, <1>6, <3>2, <3>3, EmitTaken
    <3> QED  BY <3>2, <3>4
  <2>2. /\ asks'[r].pc = "answered" /\ asks'[r].got = OwnAnswer(r)
        /\ \A s \in Requests : s # r => asks'[s] = asks[s]
    <3>1. PICK a \in AskState : a = asks[r]
      BY <1>1
    <3>2. Answered(a, OwnAnswer(r), skew).pc = "answered" /\ Answered(a, OwnAnswer(r), skew).got = OwnAnswer(r)
      BY <3>1 DEF Answered, AskState
    <3> QED  BY <2>1, <3>1, <3>2
  <2>3. Pending' = {}
    BY <1>3, <2>2 DEF Pending
  <2>4. OneAtWork' /\ Coming'
    BY <2>3 DEF OneAtWork, Coming
  <2>5. ResolversOK' /\ NothingLeft'
    BY <1>4, <2>1 DEF ResolversOK, NothingLeft
  <2>6. AnswerIsMine => AnswerIsMine'
    BY <2>2 DEF AnswerIsMine, OwnAnswer, Answer
  <2> QED  BY <1>5, <2>4, <2>5, <2>6 DEF InStep
<1>7. CASE asks[r].pc = "written"
  <2>1. conn[current].resolvers = <<>>
    <3>1. \A s \in Requests : asks[s].pc = "waiting" => s = r
      BY <1>3 DEF Pending
    <3> QED  BY <1>7, <3>1 DEF InStep, ResolversOK
  <2>2. k.queue = << OwnAnswer(r) >> /\ k.resolvers = <<>> /\ asks' = asks
    BY <1>1, <1>2, <2>1, EmitQueued
  <2>3. Pending' = Pending
    BY <2>2 DEF Pending
  <2>4. OneAtWork' /\ ResolversOK'
    BY <1>4, <2>2, <2>3 DEF InStep, OneAtWork, ResolversOK
  <2>5. NothingLeft'
    BY <2>3 DEF NothingLeft
  <2>6. Coming'
    <3>1. Queued(r, conn[current])'
      BY <1>4, <1>7, <2>2 DEF Queued, OwnAnswer, Answer
    <3> QED  BY <1>3, <1>4, <1>7, <2>2, <2>3, <3>1 DEF Coming
  <2>7. AnswerIsMine => AnswerIsMine'
    BY <2>2 DEF AnswerIsMine, Answer
  <2> QED  BY <1>5, <2>4, <2>5, <2>6, <2>7 DEF InStep
<1> QED  BY <1>3, <1>6, <1>7

\* What resolvers take out of step is marked.
LEMMA SkewedAnswers ==
    ASSUME SerialTypes, AnswerIsMine, options' = options, NEW k, NEW data,
           asks' = Delivered(k, data, TRUE)
    PROVE  AnswerIsMine'
<1> SUFFICES ASSUME NEW r \in Requests, asks'[r].pc = "answered", ~asks'[r].askew
             PROVE  asks'[r] = asks[r]
  BY DEF AnswerIsMine, Answer
<1>1. asks[r] \in AskState
  BY DEF SerialTypes
<1>2. asks'[r] = asks[r] \/ \E d : asks'[r] = Answered(asks[r], d, TRUE)
  BY DEF Delivered
<1> QED  BY <1>1, <1>2 DEF Answered, AskState

\* The buffer timer emits an answer only when all of it has come.
LEMMA TimeoutInStep ==
    ASSUME PortInv, InStep, NEW c \in ConnIds, BufferTimeout(c), ~disturbed
    PROVE  InStep' /\ (AnswerIsMine => AnswerIsMine')
<1>1. SerialTypes /\ c = current /\ c # 0 /\ conn[c] \in Connection /\ conn[c].timer
  BY ConnNumbers DEF PortInv, SerialTypes, BufferTimeout, InStep, TimersOK
<1>2. PICK r : r \in Pending
  BY <1>1 DEF InStep, NothingLeft
<1>3. r \in Requests
  BY <1>2 DEF Pending
<1>4. Held(r, conn[c]) /\ (asks[r].pc = "waiting" => conn[c].resolvers = <<r>>)
  BY <1>1, <1>2 DEF InStep, Coming, OnLine, Queued
<1>5. conn[c].raw = OwnAnswer(r) /\ OwnAnswer(r) # <<>> /\ conn[c].queue = <<>> /\ line = <<>>
  BY <1>1, <1>4 DEF Held, OwnAnswer, Answer
<1>6. PICK k : k = [Emitted(conn[c], << OwnAnswer(r) >>) EXCEPT !.raw = <<>>, !.timer = FALSE]
  OBVIOUS
<1>7. << OwnAnswer(r) >> \in Seq(Seq(Byte))
  <2>1. OwnAnswer(r) \in Seq(Byte)
    BY <1>1, <1>5 DEF Connection
  <2> QED  BY <2>1
<1>8. Emitted(conn[c], << OwnAnswer(r) >>) \in Connection
      /\ Emitted(conn[c], << OwnAnswer(r) >>).isOpen = conn[c].isOpen
  BY <1>1, <1>7, EmittedFacts
<1>9. /\ k.queue = Emitted(conn[c], << OwnAnswer(r) >>).queue
      /\ k.resolvers = Emitted(conn[c], << OwnAnswer(r) >>).resolvers
      /\ k.raw = <<>> /\ ~k.timer /\ k.isOpen = conn[c].isOpen
  BY <1>6, <1>8 DEF Connection
<1>10. /\ conn' = [conn EXCEPT ![current] = k]
       /\ asks' = Delivered(conn[current], << OwnAnswer(r) >>, disturbed)
       /\ options' = options /\ current' = current /\ line' = <<>>
  BY <1>1, <1>5, <1>6 DEF BufferTimeout
<1> QED  BY <1>1, <1>2, <1>4, <1>5, <1>9, <1>10, EmissionInStep

\* A chunk takes the answer of the only request off the line: to the buffer, or on.
LEMMA ArrivalInStep ==
    ASSUME PortInv, InStep, NEW n \in Nat, DataArrives(n), ~disturbed'
    PROVE  InStep' /\ (AnswerIsMine => AnswerIsMine')
<1>1. SerialTypes /\ device # 0 /\ device \in ConnIds /\ conn[device] \in Connection
      /\ conn \in [ConnIds -> Connection] /\ asks \in [Requests -> AskState]
  BY ConnNumbers DEF PortInv, SerialTypes, DataArrives
<1>2. /\ n \in 1..Len(line) /\ ~OutOfStep(n) /\ device = current
      /\ options' = options /\ current' = current /\ device' = device
  BY DEF DataArrives, OutOfStep
<1>3. conn[current].listening /\ conn[current].isOpen
  BY <1>1, <1>2 DEF PortInv, CurrentOK
<1>4. line # <<>> /\ line \in Seq(Byte)
  BY <1>1, <1>2, EmptySeq DEF SerialTypes
<1>5. PICK r \in Pending : TRUE
  BY <1>4 DEF InStep, NothingLeft
<1>6. r \in Requests /\ \A s \in Pending : s = r
  BY <1>5 DEF InStep, OneAtWork, Pending
<1>7. OnLine(r, conn[current]) /\ (asks[r].pc = "waiting" => conn[current].resolvers = <<r>>)
  BY <1>1, <1>2, <1>4, <1>5 DEF InStep, Coming, Held, Queued
<1>8. PICK o \in Connection : o = conn[current]
  BY <1>1, <1>2
<1>9. o.queue = <<>> /\ ~o.timer
  BY <1>7, <1>8 DEF OnLine
<1>10. PICK chunk, rest : chunk = SubSeq(line, 1, n) /\ rest = SubSeq(line, n + 1, Len(line))
  OBVIOUS
<1>11. chunk \in Seq(Byte) /\ rest \in Seq(Byte)
  <2>1. Len(line) \in Nat /\ n \in 1..Len(line)
    BY <1>2, <1>4
  <2> QED  BY <1>4, <1>10, <2>1
<1>12. PICK b : b = Buffering(o, chunk)
  OBVIOUS
<1>13. b.emit \in Seq(Seq(Byte)) /\ b.raw \in Seq(Byte) /\ b.timer \in BOOLEAN
  BY <1>1, <1>8, <1>11, <1>12, BufferingType
<1>14. PICK k : k = [Emitted(o, b.emit) EXCEPT !.raw = b.raw, !.timer = b.timer]
  OBVIOUS
<1>15. /\ conn' = [conn EXCEPT ![current] = k] /\ line' = rest
       /\ asks' = Delivered(o, b.emit, OutOfStep(n))
  BY <1>2, <1>3, <1>8, <1>10, <1>12, <1>14 DEF DataArrives
<1>16. /\ k.queue = Emitted(o, b.emit).queue /\ k.resolvers = Emitted(o, b.emit).resolvers
       /\ k.raw = b.raw /\ k.timer = b.timer /\ k.isOpen = conn[current].isOpen
  <2>1. Emitted(o, b.emit) \in Connection /\ Emitted(o, b.emit).isOpen = o.isOpen
    BY <1>8, <1>13, EmittedFacts
  <2> QED  BY <1>8, <1>14, <2>1 DEF Connection
\* Nothing is emitted: the answer is on its way still.
<1>17. ASSUME b.emit = <<>>, OnLine(r, k)' \/ Held(r, k)'
       PROVE  InStep' /\ (AnswerIsMine => AnswerIsMine')
  <2>1. k.queue = <<>> /\ k.resolvers = o.resolvers /\ asks' = asks
    BY <1>1, <1>8, <1>9, <1>15, <1>16, <1>17, EmitNothing
  <2>2. conn'[current] = k /\ \A c \in ConnIds : c # current => conn'[c] = conn[c]
    BY <1>1, <1>2, <1>15
  <2>3. Pending' = Pending
    BY <2>1 DEF Pending
  <2>4. OneAtWork' /\ NothingLeft'
    BY <1>5, <2>3 DEF InStep, OneAtWork, NothingLeft
  <2>5. TimersOK' /\ LineOK' /\ ResolversOK'
    BY <1>1, <1>2, <1>3, <1>8, <1>16, <2>1, <2>2 DEF InStep, TimersOK, LineOK, ResolversOK, ConnIds
  <2>6. Coming'
    BY <1>2, <1>6, <1>7, <1>8, <1>17, <2>1, <2>2, <2>3 DEF Coming
  <2>7. AnswerIsMine => AnswerIsMine'
    BY <1>2, <2>1 DEF AnswerIsMine, Answer
  <2> QED  BY <2>4, <2>5, <2>6, <2>7 DEF InStep
\* All of the answer has come.
<1>18. ASSUME o.raw \o chunk = Answer(r), rest = <<>>,
              options.buffer = "none" => chunk = Answer(r) /\ o.raw = <<>>
       PROVE  InStep' /\ (AnswerIsMine => AnswerIsMine')
  <2>1. \/ b.emit = << OwnAnswer(r) >> /\ b.raw = <<>> /\ ~b.timer
        \/ /\ b.emit = <<>>
           /\ b.timer => b.raw = Answer(r) /\ options.buffer \in {"time", "combined"}
    BY <1>1, <1>6, <1>9, <1>11, <1>12, <1>18, BufferingOfAnswer
  <2>2. CASE b.emit = << OwnAnswer(r) >> /\ b.raw = <<>> /\ ~b.timer
    <3>1. conn[current].queue = <<>> /\ current # 0 /\ k.raw = <<>> /\ ~k.timer /\ line' = <<>>
      BY <1>1, <1>2, <1>8, <1>9, <1>15, <1>16, <1>18, <2>2
    <3>2. /\ k.queue = Emitted(conn[current], << OwnAnswer(r) >>).queue
          /\ k.resolvers = Emitted(conn[current], << OwnAnswer(r) >>).resolvers
          /\ asks' = Delivered(conn[current], << OwnAnswer(r) >>, OutOfStep(n))
      BY <1>8, <1>15, <1>16, <2>2
    <3> HIDE <1>17
    <3> QED  BY <1>2, <1>5, <1>7, <1>15, <1>16, <3>1, <3>2, EmissionInStep
  <2>3. CASE /\ b.emit = <<>>
             /\ b.timer => b.raw = Answer(r) /\ options.buffer \in {"time", "combined"}
    <3>1. k.queue = <<>>
      BY <1>1, <1>9, <1>16, <2>3, EmitNothing
    <3>2. Held(r, k)'
      BY <1>2, <1>15, <1>16, <1>18, <2>3, <3>1 DEF Held, Answer
    <3> QED  BY <1>17, <2>3, <3>2
  <2> QED  BY <2>1, <2>2, <2>3
<1>19. Answer(r) \in Seq(Byte) /\ Len(Answer(r)) = 2 /\ r # End /\ r \in Byte /\ End \in Byte
       /\ Answer(r)[1] = r
  BY <1>6, PiecesOfAnswer, SerialConstants DEF Answer
<1>20. CASE line = Answer(r) /\ o.raw = <<>> /\ n = 1
  <2>1. chunk = <<r>> /\ rest = <<End>>
    <3>1. PICK s \in Seq(Byte) : s = Answer(r) /\ Len(s) = 2 /\ s[1] = r /\ s[2] = End
      BY <1>19 DEF Answer
    <3>2. /\ SubSeq(s, 1, 1) = << s[1] >> \o SubSeq(s, 2, 1)
          /\ SubSeq(s, 2, 2) = << s[2] >> \o SubSeq(s, 3, 2)
      BY <3>1, SubSeqRecursiveFirst
    <3>3. SubSeq(s, 2, 1) = <<>> /\ SubSeq(s, 3, 2) = <<>>
      BY SubSeqEmpty
    <3>4. <<r>> \in Seq(Byte) /\ <<End>> \in Seq(Byte)
      BY <1>19
    <3>5. SubSeq(s, 1, 1) = <<r>> /\ SubSeq(s, 2, 2) = <<End>>
      BY <3>1, <3>2, <3>3, <3>4, ConcatEmptySeq
    <3> QED  BY <1>10, <1>20, <3>1, <3>5
  <2>2. options.buffer = "delimiter" \/ (options.buffer = "size" /\ ~(1 >= BufferSize))
    <3>1. line[n] # End /\ Len(conn[device].raw) + n = 1
      BY <1>2, <1>8, <1>19, <1>20, EmptySeq
    <3> QED  BY <1>1, <1>2, <3>1 DEF OutOfStep, SerialTypes, SerialOptions, BufferType
  <2>3. b.emit = <<>> /\ b.raw = <<r>> /\ ~b.timer
    BY <1>1, <1>6, <1>9, <1>12, <1>20, <2>1, <2>2, BufferingOfStart
  <2>4. k.queue = <<>>
    BY <1>1, <1>9, <1>16, <2>3, EmitNothing
  <2>5. OnLine(r, k)'
    BY <1>2, <1>15, <1>16, <2>1, <2>2, <2>3, <2>4 DEF OnLine
  <2> QED  BY <1>17, <2>3, <2>5
<1>21. CASE line = Answer(r) /\ o.raw = <<>> /\ n = 2
  <2>1. chunk = Answer(r) /\ rest = <<>>
    <3>1. PICK s \in Seq(Byte) : s = Answer(r) /\ Len(s) = 2
      BY <1>19
    <3>2. SubSeq(s, 1, 2) = s /\ SubSeq(s, 3, 2) = <<>>
      BY <3>1, SubSeqFull, SubSeqEmpty
    <3> QED  BY <1>10, <1>21, <3>1, <3>2
  <2>2. o.raw \o chunk = Answer(r)
    BY <1>19, <1>21, <2>1, ConcatEmptySeq
  <2> QED  BY <1>18, <1>21, <2>1, <2>2
<1>22. CASE line = <<End>> /\ o.raw = <<r>> /\ options.buffer \in {"size", "delimiter"}
  <2>1. Len(line) = 1 /\ n = 1
    BY <1>2, <1>22
  <2>2. chunk = <<End>> /\ rest = <<>>
    <3>1. PICK s \in Seq(Byte) : s = line /\ Len(s) = 1
      BY <1>4, <2>1
    <3>2. SubSeq(s, 1, 1) = s /\ SubSeq(s, 2, 1) = <<>>
      BY <3>1, SubSeqFull, SubSeqEmpty
    <3> QED  BY <1>10, <1>22, <2>1, <3>1, <3>2
  <2>3. o.raw \o chunk = Answer(r)
    <3>1. <<r>> \in Seq(Byte) /\ <<End>> \in Seq(Byte) /\ Len(<<r>>) = 1 /\ Len(<<End>>) = 1
      BY <1>19
    <3>2. PICK s \in Seq(Byte) : s = <<r>> \o <<End>>
      BY <3>1, ConcatProperties
    <3>3. Len(s) = 2 /\ s[1] = r /\ s[2] = End
      BY <3>1, <3>2, ConcatProperties
    <3>4. PICK a \in Seq(Byte) : a = Answer(r)
      BY <1>19
    <3>5. Len(a) = 2 /\ a[1] = r /\ a[2] = End
      BY <3>4 DEF Answer
    <3>6. s = a
      BY <3>3, <3>5, SeqEqual
    <3> QED  BY <1>22, <2>2, <3>2, <3>4, <3>6
  <2> QED  BY <1>18, <1>22, <2>2, <2>3
<1>23. line = Answer(r) => n \in {1, 2}
  <2> HAVE line = Answer(r)
  <2>1. PICK m \in Nat : m = Len(line) /\ m = 2
    BY <1>19
  <2>2. n \in 1..m
    BY <1>2, <2>1
  <2> QED  BY <2>1, <2>2
<1> QED  BY <1>7, <1>8, <1>20, <1>21, <1>22, <1>23 DEF OnLine

-----------------------------------------------------------------------------
(* The invariant holds.                                                      *)

LEMMA SerialStep == ASSUME SerialInv, SerialNext PROVE SerialInv'
<1>1. PortInv /\ SerialTypes /\ AnswerIsMine /\ (~disturbed => InStep)
  BY DEF SerialInv, PortInv
<1> DEFINE answering == /\ options' = options
                        /\ \A r \in Requests : asks'[r].pc = "answered" => asks'[r] = asks[r]
<1>2. CASE PortOpen \/ PortForget \/ PortClosed
  <2>1. PortInv'
    BY <1>1, <1>2, AttemptKeepsPorts, ForgetKeepsPorts, ClosedKeepsPorts
  <2>2. answering /\ disturbed' = disturbed
    BY <1>2 DEF PortOpen, PortForget, PortClosed
  <2>3. ~disturbed' => InStep'
    BY <1>1, <1>2, <2>2, FreshInStep
  <2> QED  BY <1>1, <2>1, <2>2, <2>3, AnswersStay DEF SerialInv
<1>3. CASE PortClose \/ PortCloseFailed \/ Destroy \/ DisposeCallbacks
  <2>1. PortInv'
    BY <1>1, <1>3, CloseKeepsPorts, QuietKeepsPorts
  <2>2. answering /\ disturbed' = disturbed
    BY <1>3 DEF PortClose, PortCloseFailed, Destroy, DisposeCallbacks
  <2>3. ~disturbed' => InStep'
    BY <1>1, <1>3, <2>2, QuietInStep
  <2> QED  BY <1>1, <2>1, <2>2, <2>3, AnswersStay DEF SerialInv
<1>4. ASSUME NEW l \in Listeners, Subscribe(l) \/ Unsubscribe(l) PROVE SerialInv'
  <2>1. PortInv'
    BY <1>1, <1>4, SubscribeKeepsPorts
  <2>2. answering /\ disturbed' = disturbed
    BY <1>4 DEF Subscribe, Unsubscribe
  <2>3. ~disturbed' => InStep'
    BY <1>1, <1>4, <2>2, QuietInStep
  <2> QED  BY <1>1, <2>1, <2>2, <2>3, AnswersStay DEF SerialInv
<1>5. ASSUME NEW c \in ConnIds, PortOpened(c) \/ PortOpenFailed(c) \/ PortRetry(c) PROVE SerialInv'
  <2>1. PortInv'
    BY <1>1, <1>5, OpenedKeepsPorts, OpenFailedKeepsPorts, RetryKeepsPorts
  <2>2. answering /\ disturbed' = disturbed
    BY <1>5 DEF PortOpened, PortOpenFailed, PortRetry
  <2>3. ~disturbed' => InStep'
    BY <1>1, <1>5, <2>2, QuietInStep
  <2> QED  BY <1>1, <2>1, <2>2, <2>3, AnswersStay DEF SerialInv
<1>6. CASE Unplugged
  <2>1. answering /\ disturbed'
    BY <1>6 DEF Unplugged
  <2> QED  BY <1>1, <1>6, <2>1, UnpluggedKeepsPorts, AnswersStay DEF SerialInv
<1>7. CASE PortError
  <2>1. answering
    BY <1>1, <1>7 DEF PortError, SerialTypes, AskState
  <2>2. disturbed => disturbed'
    BY <1>7 DEF PortError
  <2> QED  BY <1>1, <1>7, <2>1, <2>2, FaultKeepsPorts, ErrorInStep, AnswersStay DEF SerialInv
<1>8. ASSUME NEW r \in Requests, WriteRequest(r) PROVE SerialInv'
  <2>1. answering
    BY <1>1, <1>8 DEF WriteRequest, SerialTypes, AskState
  <2>2. disturbed => disturbed'
    BY <1>8 DEF WriteRequest
  <2> QED  BY <1>1, <1>8, <2>1, <2>2, WriteKeepsPorts, WriteInStep, AnswersStay DEF SerialInv
<1>9. ASSUME NEW r \in Requests, RequestTimeout(r) PROVE SerialInv'
  <2>1. answering /\ disturbed'
    BY <1>1, <1>9 DEF RequestTimeout, SerialTypes, AskState
  <2> QED  BY <1>1, <1>9, <2>1, WriteKeepsPorts, AnswersStay DEF SerialInv
<1>10. ASSUME NEW r \in Requests, OnData(r) PROVE SerialInv'
  <2>1. disturbed => disturbed'
    BY <1>10 DEF OnData
  <2>2. AnswerIsMine'
    <3>1. options' = options /\ asks \in [Requests -> AskState]
          /\ asks[r].pc = "written" /\ disturbed \in BOOLEAN
      BY <1>1, <1>10 DEF OnData, SerialTypes
    <3>2. CASE /\ current # 0 /\ conn[current].queue # <<>>
               /\ asks' = [asks EXCEPT ![r] = Answered(@, Head(conn[current].queue), disturbed)]
      <4>1. asks'[r] = Answered(asks[r], Head(conn[current].queue), disturbed)
            /\ \A s \in Requests : s # r => asks'[s] = asks[s]
        BY <3>1, <3>2
      <4>2. asks'[r].got = Head(conn[current].queue) /\ asks'[r].askew = disturbed
        <5>1. PICK a \in AskState : a = asks[r]
          BY <3>1
        <5>2. /\ Answered(a, Head(conn[current].queue), disturbed).got = Head(conn[current].queue)
              /\ Answered(a, Head(conn[current].queue), disturbed).askew = disturbed
          BY <5>1 DEF Answered, AskState
        <5> QED  BY <4>1, <5>1, <5>2
      <4>3. CASE disturbed
        BY <1>1, <3>1, <4>1, <4>2, <4>3 DEF AnswerIsMine, Answer
      <4>4. CASE ~disturbed
        <5>1. r \in Pending
          BY <3>1 DEF Pending
        <5>2. conn[current].queue = << OwnAnswer(r) >>
          BY <1>1, <3>2, <4>4, <5>1 DEF InStep, Coming, OnLine, Held, Queued
        <5>3. asks'[r].got = OwnAnswer(r)
          BY <4>2, <5>2
        <5> QED  BY <1>1, <3>1, <4>1, <5>3 DEF AnswerIsMine, Answer, OwnAnswer
      <4> QED  BY <4>3, <4>4
    <3>3. CASE \E p \in {"error", "waiting"} : asks' = [asks EXCEPT ![r].pc = p]
      <4>1. answering
        BY <3>1, <3>3 DEF AskState
      <4> QED  BY <1>1, <4>1, AnswersStay
    <3> QED  BY <1>10, <3>2, <3>3 DEF OnData
  <2> QED  BY <1>1, <1>10, <2>1, <2>2, OnDataKeepsPorts, OnDataInStep DEF SerialInv
<1>11. ASSUME NEW n \in Nat, DataArrives(n) PROVE SerialInv'
  <2>1. disturbed => disturbed'
    BY <1>11 DEF DataArrives, OutOfStep
  <2>2. CASE ~disturbed'
    BY <1>1, <1>11, <2>1, <2>2, ArrivalKeepsPorts, ArrivalInStep DEF SerialInv
  <2>3. CASE disturbed'
    <3>1. OutOfStep(n) = TRUE /\ options' = options
      BY <1>11, <2>3 DEF DataArrives, OutOfStep
    <3>2. asks' = asks \/ \E k, data : asks' = Delivered(k, data, TRUE)
      <4>1. asks' = asks \/ \E k, data : asks' = Delivered(k, data, OutOfStep(n))
        BY <1>11 DEF DataArrives
      <4> QED  BY <3>1, <4>1
    <3>3. asks' = asks => answering
      BY <3>1
    <3>4. AnswerIsMine'
      BY <1>1, <3>1, <3>2, <3>3, SkewedAnswers, AnswersStay
    <3> QED  BY <1>1, <1>11, <2>3, <3>4, ArrivalKeepsPorts DEF SerialInv
  <2> QED  BY <2>2, <2>3
<1>12. ASSUME NEW c \in ConnIds, BufferTimeout(c) PROVE SerialInv'
  <2>1. disturbed' = disturbed /\ options' = options /\ disturbed \in BOOLEAN
    BY <1>1, <1>12 DEF BufferTimeout, SerialTypes
  <2>2. CASE ~disturbed
    BY <1>1, <1>12, <2>2, TimeoutKeepsPorts, TimeoutInStep DEF SerialInv
  <2>3. CASE disturbed
    <3>1. \E k, data : asks' = Delivered(k, data, TRUE)
      <4>1. \E k, data : asks' = Delivered(k, data, disturbed)
        BY <1>12 DEF BufferTimeout
      <4>2. disturbed = TRUE
        BY <2>1, <2>3
      <4> QED  BY <4>1, <4>2
    <3>2. AnswerIsMine'
      BY <1>1, <2>1, <3>1, SkewedAnswers
    <3> QED  BY <1>1, <1>12, <2>1, <2>3, <3>2, TimeoutKeepsPorts DEF SerialInv
  <2> QED  BY <2>2, <2>3
<1>13. \A n \in 1..2 * Cardinality(Requests) : DataArrives(n) => n \in Nat
  <2>1. \A n : DataArrives(n) => n \in 1..Len(line)
    BY DEF DataArrives
  <2>2. Len(line) \in Nat
    BY <1>1 DEF SerialTypes
  <2> QED  BY <2>1, <2>2
<1> QED
  BY <1>2, <1>3, <1>4, <1>5, <1>6, <1>7, <1>8, <1>9, <1>10, <1>11, <1>12, <1>13 DEF SerialNext

LEMMA SerialStutter == ASSUME SerialInv, UNCHANGED serialVars PROVE SerialInv'
<1>1. PortInv'
  BY DEF serialVars, SerialInv, PortInv, SerialTypes, ObjectsOK, CurrentOK, ClosingOK,
         OnlyCurrentOpens
<1>2. AnswerIsMine'
  BY DEF serialVars, SerialInv, AnswerIsMine
<1>3. InStep => InStep'
  BY CalmKeeps DEF serialVars, SerialInv
<1> QED  BY <1>1, <1>2, <1>3 DEF SerialInv, serialVars

THEOREM SerialInvariant == SerialSpec => []SerialInv
<1>1. SerialInv /\ [SerialNext]_serialVars => SerialInv'
  BY SerialStep, SerialStutter
<1> QED  BY SerialStart, <1>1, PTL DEF SerialSpec

\* The type invariant of the connections of a path.
THEOREM SerialTypeCorrect == SerialSpec => []SerialTypeOK
<1>1. SerialInv => SerialTypeOK
  BY DEF SerialInv, PortInv, SerialTypes, SerialTypeOK
<1> QED  BY SerialInvariant, <1>1, PTL

\* A request that is answered in step gets its own answer and all of it, nobody waits
\* beside queued data, the listeners of a path are those of its connection, and the
\* device is held by it unless an open or a close met a connecting object: for every
\* strategy, any number of requests, listeners, connections, attempts and faults.
THEOREM RequestsAreServed == SerialSpec => []RequestsServed
<1>1. SerialInv => RequestsServed
  BY DEF SerialInv, PortInv, ObjectsOK, CurrentOK, OnlyCurrentOpens, RequestsServed, NoIdleData,
         ListenersSurvive, DeviceNotOrphaned
<1> QED  BY SerialInvariant, <1>1, PTL
=============================================================================
