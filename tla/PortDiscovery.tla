--------------------------- MODULE PortDiscovery ----------------------------
(* PortDiscoveryService (libs/serialport): a periodic scan compares the      *)
(* ports of the machine with those of the scan before, opens the ones that   *)
(* appeared after a delay, and forgets and closes the ones that went.        *)
EXTENDS Naturals, FiniteSets

CONSTANTS Paths,    \* paths of serial ports
          MakerOf,  \* the manufacturer of what is behind a path, if it says so
          Unknown,  \* no manufacturer
          SystemPaths,   \* paths that look like ports of the system (_isSystemPort)
          ExcludedPaths, \* paths that match one of excludePaths
          IncludeSystem, IncludeMakers, ExcludeMakers, \* the configuration
          Changes,  \* BOUND: devices plugged in or out
          Troubles  \* BOUND: scans and openings that fail

ASSUME DiscoveryAssumption ==
    /\ SystemPaths \cup ExcludedPaths \subseteq Paths /\ IncludeSystem \in BOOLEAN
    /\ Unknown \notin IncludeMakers \cup ExcludeMakers /\ {Changes, Troubles} \subseteq Nat

VARIABLES plugged,    \* external: the devices that are there
          available,  \* _availablePorts$
          connected,  \* the keys of _connectedPorts$
          listing,    \* the answer of a listPorts() under way
          scanning,   \* whether there is one
          timers,     \* auto-connects that wait their 500 ms, by path
          openings,   \* calls of open() under way, by path
          closings,   \* calls of close() under way, by path
          opened,     \* paths whose device this process holds
          unseen,     \* history: paths that went and came back between two scans,
                      \* or whose opening failed
          doubled,    \* history: paths opened a second time while being opened
          changes, troubles

discVars == <<plugged, available, connected, listing, scanning, timers, openings, closings,
              opened, unseen, doubled, changes, troubles>>

\* listPorts() leaves out ports without a manufacturer.
ListPorts == {p \in plugged : MakerOf[p] # Unknown}

\* _filterPorts: an empty list of manufacturers to include stands for all.
FilterPorts(ports) ==
    {p \in ports \ ExcludedPaths :
        /\ p \in SystemPaths => IncludeSystem
        /\ IncludeMakers # {} => MakerOf[p] \in IncludeMakers
        /\ MakerOf[p] \notin ExcludeMakers}

DiscInit ==
    /\ plugged \in SUBSET Paths
    /\ available = {} /\ connected = {} /\ opened = {}
    /\ scanning = FALSE /\ listing = {}
    /\ timers = [p \in Paths |-> 0] /\ openings = timers /\ closings = timers
    /\ unseen = {} /\ doubled = {} /\ changes = 0 /\ troubles = 0

\* The 'close' event of a port that is pulled out reaches the adapter.
PlugOut(p) ==
    /\ p \in plugged /\ changes < Changes
    /\ plugged' = plugged \ {p} /\ opened' = opened \ {p}
    /\ changes' = changes + 1
    /\ UNCHANGED <<available, connected, listing, scanning, timers, openings, closings, unseen,
                   troubles, doubled>>

\* A scan that has not seen it go will not see it come back.
PlugIn(p) ==
    /\ p \notin plugged /\ changes < Changes
    /\ plugged' = plugged \cup {p}
    /\ unseen' = IF p \in available \cup listing THEN unseen \cup {p} ELSE unseen
    /\ changes' = changes + 1
    /\ UNCHANGED <<available, connected, listing, scanning, timers, openings, closings, opened,
                   troubles, doubled>>

\* The timer ticks; switchMap drops a listPorts() that has not answered.
ScanStarts ==
    /\ ~scanning \/ listing # FilterPorts(ListPorts)
    /\ scanning' = TRUE /\ listing' = FilterPorts(ListPorts)
    /\ UNCHANGED <<plugged, available, connected, timers, openings, closings, opened, unseen,
                   changes, troubles, doubled>>

\* Added ports are opened later; removed ones that are connected are dropped and
\* closed at once.
ScanEnds ==
    /\ scanning
    /\ LET added == listing \ available
           removed == available \ listing
       IN  /\ timers' = [p \in Paths |-> IF p \in added THEN timers[p] + 1 ELSE timers[p]]
           /\ closings' = [p \in Paths |-> IF p \in removed \cap connected
                                           THEN closings[p] + 1 ELSE closings[p]]
           /\ connected' = connected \ removed
    /\ available' = listing
    /\ scanning' = FALSE /\ listing' = {}
    /\ UNCHANGED <<plugged, openings, opened, unseen, changes, troubles, doubled>>

\* Variant: what a failed scan listed is taken for known.
ScanFailsSeen ==
    /\ scanning /\ troubles < Troubles
    /\ available' = listing
    /\ scanning' = FALSE /\ listing' = {} /\ troubles' = troubles + 1
    /\ UNCHANGED <<plugged, connected, timers, openings, closings, opened, unseen, changes,
                   doubled>>

\* listPorts() fails: the stream goes on, the ports stay as they were.
ScanFails ==
    /\ scanning /\ troubles < Troubles
    /\ scanning' = FALSE /\ listing' = {} /\ troubles' = troubles + 1
    /\ UNCHANGED <<plugged, available, connected, timers, openings, closings, opened, unseen,
                   changes, doubled>>

\* Variant: a port is remembered even when it is gone.
TrackedAlways(p) == connected \cup {p}

\* _updateConnectedPort: only a port of the last scan is remembered.
Tracked(p) == IF p \in available THEN connected \cup {p} ELSE connected

\* The delay is over.  open() of what is open already ends at once.
ConnectStarts(p) ==
    /\ timers[p] > 0
    /\ timers' = [timers EXCEPT ![p] = @ - 1]
    /\ IF p \in opened \ doubled
       THEN connected' = Tracked(p) /\ UNCHANGED openings
       ELSE openings' = [openings EXCEPT ![p] = @ + 1] /\ UNCHANGED connected
    /\ doubled' = IF openings[p] > 0 THEN doubled \cup {p} ELSE doubled
    /\ UNCHANGED <<plugged, available, listing, scanning, closings, opened, unseen, changes,
                   troubles>>

\* Variant: an open() that was given up succeeds all the same.
ConnectSucceedsLate(p) ==
    /\ p \in plugged
    /\ openings' = [openings EXCEPT ![p] = @ - 1]
    /\ opened' = opened \cup {p}
    /\ connected' = Tracked(p)
    /\ UNCHANGED <<plugged, available, listing, scanning, timers, closings, unseen, changes,
                   troubles, doubled>>

ConnectSucceeds(p) ==
    /\ openings[p] > 0 /\ p \in plugged
    /\ openings' = [openings EXCEPT ![p] = @ - 1]
    /\ opened' = opened \cup {p}
    /\ connected' = Tracked(p)
    /\ UNCHANGED <<plugged, available, listing, scanning, timers, closings, unseen, changes,
                   troubles, doubled>>

\* open() gives up: the device is gone or busy.  Nothing tries again.
ConnectFails(p) ==
    /\ openings[p] > 0
    /\ \/ p \notin plugged /\ UNCHANGED troubles
       \/ p \in plugged /\ troubles < Troubles /\ troubles' = troubles + 1
    /\ openings' = [openings EXCEPT ![p] = @ - 1]
    /\ unseen' = IF p \in plugged THEN unseen \cup {p} ELSE unseen
    /\ UNCHANGED <<plugged, available, connected, listing, scanning, timers, closings, opened,
                   changes, doubled>>

\* close() ends, and takes away what was opened since.
CloseEnds(p) ==
    /\ closings[p] > 0
    /\ closings' = [closings EXCEPT ![p] = @ - 1]
    /\ opened' = opened \ {p}
    /\ unseen' = IF p \in opened THEN unseen \cup {p} ELSE unseen
    /\ UNCHANGED <<plugged, available, connected, listing, scanning, timers, openings, changes,
                   troubles, doubled>>

DiscNext ==
    \/ \E p \in Paths : \/ PlugOut(p) \/ PlugIn(p) \/ ConnectStarts(p) \/ ConnectSucceeds(p)
                        \/ ConnectFails(p) \/ CloseEnds(p)
    \/ ScanStarts \/ ScanEnds \/ ScanFails

(* Timers fire, and calls of the adapter end: the scan is periodic, and a    *)
(* scan that answers in less than its period is not dropped.                 *)
DiscFairness ==
    /\ WF_discVars(ScanStarts) /\ WF_discVars(ScanEnds)
    /\ \A p \in Paths : /\ WF_discVars(ConnectStarts(p))
                        /\ WF_discVars(ConnectSucceeds(p) \/ ConnectFails(p))
                        /\ WF_discVars(CloseEnds(p))

DiscSpec == DiscInit /\ [][DiscNext]_discVars

-----------------------------------------------------------------------------
(* Types of the sets of ports and of the calls under way.                    *)
DiscTypeOK ==
    /\ UNION {plugged, available, connected, listing, opened, unseen, doubled} \subseteq Paths
    /\ scanning \in BOOLEAN
    /\ {timers, openings, closings} \subseteq [Paths -> Nat]
    /\ changes \in 0..Changes /\ troubles \in 0..Troubles

(* A port that was opened is known as connected, and one known as connected  *)
(* is one of the last scan, so that its removal closes it: also when it went *)
(* and came back while it was being opened, unless it was opened twice at    *)
(* the same time.                                                            *)
OpenIsTracked ==
    /\ connected \subseteq available
    /\ \A p \in (opened \cap available) \ doubled :
           timers[p] + openings[p] + closings[p] = 0 => p \in connected

(* A device that is plugged in and stays is opened in the end if it has a    *)
(* manufacturer and the configuration does not filter it out, unless it came *)
(* back before a scan saw it go, or its opening failed.                      *)
PluggedIsOpened ==
    \A p \in Paths :
        p \in FilterPorts(ListPorts) \ unseen
            ~> p \in opened \cup unseen \/ p \notin plugged
=============================================================================
