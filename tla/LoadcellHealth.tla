--------------------------- MODULE LoadcellHealth ---------------------------
(* LoadcellsHealthMonitoringService: every reading of a load cell is a       *)
(* heartbeat, a periodic check finds the load cells that fell silent, and    *)
(* whoever registered hooks is told.  Calls run to their end one by one;     *)
(* what can go wrong is their order, and the time between them.              *)
EXTENDS Naturals, FiniteSets

CONSTANTS Devices,   \* rawDeviceId of load cells
          Timeout,   \* heartbeatTimeout
          Interval,  \* checkInterval
          Lifetime,  \* BOUND: how long the clock runs
          MaxCalls   \* BOUND: calls from outside

ASSUME HealthAssumption ==
    IsFiniteSet(Devices) /\ {Timeout, Interval, Lifetime, MaxCalls} \subseteq Nat \ {0}

VARIABLES clock,
          heartbeats,  \* _deviceHeartbeats$
          loadcells,   \* _loadCellDevices
          previous,    \* _previousConnectionStates
          stats,       \* _healthStats$
          nextCheck,   \* when the timer fires
          calls,
          told,        \* history: what the hooks last heard of a device
          losses,      \* history: losses a check reported since it was last seen
          untold       \* history: devices changed without a word since the last check

healthVars == <<clock, heartbeats, loadcells, previous, stats, nextCheck, calls, told, losses,
                untold>>

Never == 0
Heartbeat == [tracked : BOOLEAN, lastSeen : 0..Lifetime, isConnected : BOOLEAN]
NoHeartbeat == [tracked |-> FALSE, lastSeen |-> Never, isConnected |-> FALSE]
HealthStats == [total : Nat, connected : Nat, disconnected : Nat, loadcells : Nat]

HealthInit ==
    /\ clock = 1 /\ nextCheck = 1 /\ calls = 0
    /\ heartbeats = [d \in Devices |-> NoHeartbeat]
    /\ loadcells = {} /\ previous = [d \in Devices |-> "unset"]
    /\ stats = [total |-> 0, connected |-> 0, disconnected |-> 0, loadcells |-> 0]
    /\ told = [d \in Devices |-> "nothing"] /\ losses = [d \in Devices |-> 0] /\ untold = {}

Tracked(beats) == {d \in Devices : beats[d].tracked}

\* _isAlive.
IsAlive(beat) == beat.lastSeen # Never /\ clock <= beat.lastSeen + Timeout

\* getConnectedDevices and getDisconnectedDevices.
Connected(beats) == {d \in Tracked(beats) : IsAlive(beats[d])}
Disconnected(beats) == Tracked(beats) \ Connected(beats)

\* _updateHealthStats.
StatsOf(beats, cells) ==
    [total |-> Cardinality(Tracked(beats)), connected |-> Cardinality(Connected(beats)),
     disconnected |-> Cardinality(Disconnected(beats)), loadcells |-> Cardinality(cells)]

\* The hooks that were registered, global and of every context, hear of the devices;
\* one that throws does not keep the others from hearing.
Hear(ds, what) == told' = [d \in Devices |-> IF d \in ds THEN what[d] ELSE told[d]]

\* The timers fire on time.
ClockTicks ==
    /\ clock < Lifetime /\ clock < nextCheck /\ clock' = clock + 1
    /\ UNCHANGED <<heartbeats, loadcells, previous, stats, nextCheck, calls, told, losses,
                   untold>>

\* updateHeartbeat: status hooks are called, connection hooks are not.
UpdateHeartbeat(d) ==
    /\ heartbeats' = [heartbeats EXCEPT ![d] =
           [tracked |-> TRUE, lastSeen |-> clock, isConnected |-> TRUE]]
    /\ loadcells' = loadcells \cup {d}
    /\ stats' = StatsOf(heartbeats', loadcells')
    /\ Hear({d}, [e \in {d} |-> "on"])
    /\ losses' = [losses EXCEPT ![d] = 0]
    /\ untold' = untold \ {d}
    /\ UNCHANGED <<clock, previous, nextCheck, calls>>

\* What _registerLoadCellHooks makes of LoadcellsService: every running reading and
\* every discovery is a heartbeat.  No discovery ever says that a device went
\* offline, and errors are passed on without touching a device.
Reading(d) == UpdateHeartbeat(d)

\* Variant: what a check found is not remembered.
Forgotten(d) == heartbeats[d]

\* The heartbeat of a device after a check.
Checked(d) ==
    IF heartbeats[d].tracked
    THEN [heartbeats[d] EXCEPT !.isConnected = IsAlive(heartbeats[d])] ELSE heartbeats[d]

\* Devices whose state a check finds changed.
FoundChanged == {d \in Tracked(heartbeats) :
                    heartbeats[d].isConnected # IsAlive(heartbeats[d])}

\* _checkAndCallDeviceHooks: the batch hooks hear of all, the connection hooks of
\* changes.
HealthCheck ==
    /\ heartbeats' = [d \in Devices |-> Checked(d)]
    /\ previous' = [d \in Devices |->
           IF d \in FoundChanged THEN IF IsAlive(heartbeats[d]) THEN "on" ELSE "off"
           ELSE previous[d]]
    /\ stats' = StatsOf(heartbeats', loadcells)
    /\ Hear(Tracked(heartbeats),
            [d \in Devices |-> IF IsAlive(heartbeats[d]) THEN "on" ELSE "off"])
    /\ losses' = [d \in Devices |->
           IF d \in FoundChanged /\ ~IsAlive(heartbeats[d]) THEN losses[d] + 1 ELSE losses[d]]
    /\ untold' = untold \ Tracked(heartbeats)
    /\ UNCHANGED <<clock, loadcells>>

PeriodicCheck == clock = nextCheck /\ nextCheck' = clock + Interval /\ HealthCheck
                 /\ UNCHANGED calls

-----------------------------------------------------------------------------
(* Calls from outside.                                                       *)
Call == calls < MaxCalls /\ calls' = calls + 1

ForceHealthCheck == Call /\ HealthCheck /\ UNCHANGED nextCheck

\* setTrackingDevices: what was known of them is overwritten.
SetTracking(ds) ==
    /\ Call
    /\ heartbeats' = [d \in Devices |-> IF d \in ds THEN [NoHeartbeat EXCEPT !.tracked = TRUE]
                                        ELSE heartbeats[d]]
    /\ stats' = StatsOf(heartbeats', loadcells)
    /\ untold' = untold \cup ds
    /\ UNCHANGED <<clock, loadcells, previous, nextCheck, told, losses>>

\* addTrackingDevice of one that is not tracked.
AddTracking(d) ==
    /\ Call /\ ~heartbeats[d].tracked
    /\ heartbeats' = [heartbeats EXCEPT ![d].tracked = TRUE]
    /\ stats' = StatsOf(heartbeats', loadcells)
    /\ UNCHANGED <<clock, loadcells, previous, nextCheck, told, losses, untold>>

\* clearDevice: the hooks hear that it is gone.
Gone(d) ==
    /\ heartbeats' = [heartbeats EXCEPT ![d] = NoHeartbeat]
    /\ loadcells' = loadcells \ {d}
    /\ previous' = [previous EXCEPT ![d] = "unset"]
    /\ stats' = StatsOf(heartbeats', loadcells')
    /\ Hear({d} \cap Tracked(heartbeats), [e \in {d} |-> "off"])

\* removeTrackingDevice does the same as clearDevice.
RemoveTracking(d) == Call /\ Gone(d) /\ UNCHANGED <<clock, nextCheck, losses, untold>>

\* clearTrackingDevices: nobody hears anything.
ClearTracking ==
    /\ Call
    /\ heartbeats' = [d \in Devices |-> NoHeartbeat]
    /\ loadcells' = {} /\ previous' = [d \in Devices |-> "unset"]
    /\ stats' = StatsOf(heartbeats', loadcells')
    /\ untold' = untold \cup Tracked(heartbeats)
    /\ UNCHANGED <<clock, nextCheck, told, losses>>

\* bulkUpdateHeartbeats with a time of its own.
BulkUpdate(d, seen) ==
    /\ Call /\ heartbeats[d].tracked
    /\ heartbeats' = [heartbeats EXCEPT ![d].lastSeen = seen,
                          ![d].isConnected = IsAlive([heartbeats[d] EXCEPT !.lastSeen = seen])]
    /\ stats' = StatsOf(heartbeats', loadcells)
    /\ losses' = [losses EXCEPT ![d] = 0]
    /\ untold' = untold \cup {d}
    /\ UNCHANGED <<clock, loadcells, previous, nextCheck, told>>

HealthNext ==
    \/ ClockTicks \/ PeriodicCheck \/ ForceHealthCheck \/ ClearTracking
    \/ \E ds \in SUBSET Devices : SetTracking(ds)
    \/ \E d \in Devices : \/ Reading(d) \/ AddTracking(d) \/ RemoveTracking(d)
                          \/ \E seen \in 1..clock : BulkUpdate(d, seen)

HealthSpec == HealthInit /\ [][HealthNext]_healthVars

-----------------------------------------------------------------------------
(* Types of the maps and of the statistics.                                  *)
HealthTypeOK ==
    /\ clock \in 1..Lifetime /\ nextCheck \in Nat /\ calls \in 0..MaxCalls
    /\ heartbeats \in [Devices -> Heartbeat] /\ loadcells \cup untold \subseteq Devices
    /\ previous \in [Devices -> {"unset", "on", "off"}] /\ stats \in HealthStats
    /\ told \in [Devices -> {"nothing", "on", "off"}] /\ losses \in [Devices -> Nat]

\* Who was told that a device is connected hears within a check of its timeout that
\* it is not, unless it was reset or cleared without a word.
SilenceIsTold ==
    \A d \in Devices \ untold : told[d] = "on" =>
        heartbeats[d].tracked /\ clock <= heartbeats[d].lastSeen + Timeout + Interval

\* A silence is reported as one loss, however many checks fall into it.
OneLossPerSilence == \A d \in Devices : losses[d] <= 1

\* The statistics count every tracked device once, and no load cell that is not.
StatsAddUp ==
    /\ stats.total = Cardinality(Tracked(heartbeats))
    /\ stats.connected + stats.disconnected = stats.total
    /\ loadcells \subseteq Tracked(heartbeats) /\ stats.loadcells = Cardinality(loadcells)

(* Who listens to the health of load cells hears of every silence, once and  *)
(* in time, and the statistics agree with what is tracked, in whatever order *)
(* readings, checks and calls come.                                          *)
HealthIsTold == SilenceIsTold /\ OneLossPerSilence /\ StatsAddUp
=============================================================================
