----------------------------- MODULE LoadcellBus -----------------------------
(* How load cells are read: LoadcellsService polls the cells that somebody   *)
(* asked for over every serial port it holds, LoadcellBridgeService finds    *)
(* the ports and turns MQTT requests into calls, and WsGateway asks for a    *)
(* cell when a browser joins its room.  A port is what SerialConnection      *)
(* promises of one: open or not, with callbacks that outlive a reopening.    *)
EXTENDS Integers, Sequences, FiniteSets, FiniteSetsExt

CONSTANTS Ports,         \* serial ports
          Cells,         \* addresses of load cells on a bus (rawDeviceId)
          CellsAt,       \* the cells behind a port
          ComIds,        \* what _extractComId may find in the ports' names
          Clients,       \* sockets of the gateway
          Runs,          \* auto-discovery runs
          MaxMishaps     \* bound: faults and joins

ASSUME BusAssumption ==
    /\ Cells \subseteq 1..99 /\ 1 \in Runs /\ ComIds \subseteq Nat /\ MaxMishaps \in Nat
    /\ CellsAt \in [Ports -> SUBSET Cells]

VARIABLES comId,         \* the COM number of every port (one value here)
          link,          \* the adapter's state of a port
          portState,     \* _portStates
          portStep,      \* where connect or recovery of a port is
          callbacks,     \* callbacks registered for the port's data
          connectedPorts,\* _connectedPorts
          running,       \* _isRunning$
          online,        \* _onlineDevices$
          active,        \* _activeDeviceIds
          polled,        \* cells of the polling subscription
          discovery,     \* messages of the discovery cycle not yet sent
          asked,         \* cells that were asked and have not answered
          run,           \* auto-discovery runs in progress
          timers,        \* interval(30000) subscriptions
          room,          \* client.data.room
          joined,        \* rooms the socket is in
          mishaps,       \* faults and joins so far
          upset          \* history: kinds of things that went wrong

busVars == <<comId, link, portState, portStep, callbacks, connectedPorts, running,
             online, active, polled, discovery, asked, run, timers, room, joined,
             mishaps, upset>>
portVars == <<link, portState, portStep, callbacks>>
readVars == <<online, active, polled, discovery, asked>>
runVars == <<run, timers, connectedPorts, running>>
wsVars == <<room, joined>>

PortState == {"none", "connecting", "connected", "disconnecting", "disconnected"}
PortStep == {"idle", "checking", "reopening", "opening", "verifying", "dropping", "pausing"}
RunPc == {"off", "scan", "test", "start"}
NoRoom == 0
DeviceIds == {k * 100 + c : k \in ComIds, c \in Cells}
DeviceId(c) == comId * 100 + c

Mishap(kind) == /\ mishaps < MaxMishaps
                /\ mishaps' = mishaps + 1
                /\ upset' = upset \cup {kind}
Calm == UNCHANGED <<mishaps, upset>>

\* defaultPorts are configured for one start, the other discovers its ports.
BusInit ==
    /\ comId \in ComIds
    /\ link = [p \in Ports |-> "closed"]
    /\ portState = [p \in Ports |-> "none"]
    /\ callbacks = [p \in Ports |-> 0]
    /\ \/ /\ connectedPorts = Ports
          /\ portStep = [p \in Ports |-> "checking"]
          /\ run = [i \in Runs |-> [pc |-> IF i = 1 THEN "start" ELSE "off",
                                    todo |-> {}, found |-> Ports]]
       \/ /\ connectedPorts = {}
          /\ portStep = [p \in Ports |-> "idle"]
          /\ run = [i \in Runs |-> [pc |-> IF i = 1 THEN "scan" ELSE "off",
                                    todo |-> IF i = 1 THEN Ports ELSE {}, found |-> {}]]
    /\ running = FALSE /\ online = {} /\ active = {} /\ polled = {} /\ discovery = {}
    /\ asked = {} /\ timers = 0 /\ mishaps = 0 /\ upset = {}
    /\ room = [c \in Clients |-> NoRoom] /\ joined = [c \in Clients |-> {}]

-----------------------------------------------------------------------------
(* LoadcellBridgeService: finding the ports.                                *)

\* The next port of _autoDiscoverLoadcellPorts: an open one is skipped, another is
\* opened for the test, or cannot be.
TestPort(i) ==
    /\ run[i].pc = "scan" /\ run[i].todo # {}
    /\ LET p == CHOOSE p \in run[i].todo : TRUE
       IN  \/ /\ link[p] = "open" /\ run' = [run EXCEPT ![i].todo = @ \ {p}]
              /\ UNCHANGED link /\ Calm
           \/ /\ link[p] # "open" /\ run' = [run EXCEPT ![i].pc = "test"]
              /\ link' = [link EXCEPT ![p] = "open"] /\ Calm
           \/ /\ link[p] # "open" /\ run' = [run EXCEPT ![i].todo = @ \ {p}]
              /\ UNCHANGED link /\ Mishap("not found")
    /\ UNCHANGED <<comId, portState, portStep, callbacks, timers, connectedPorts, running>>
    /\ UNCHANGED readVars /\ UNCHANGED wsVars

\* _sendTestMessages asks the first three addresses alone.
TestMessages == 1..3

\* The end of _verifyLoadcellPort, a cell having answered or not: the port is closed,
\* whoever has opened it since.
PortTested(i) ==
    /\ run[i].pc = "test"
    /\ LET p == CHOOSE p \in run[i].todo : TRUE
           answerable == link[p] = "open" /\ CellsAt[p] \cap TestMessages # {}
           Seen(found) == run' = [run EXCEPT ![i] = [pc |-> "scan", todo |-> @.todo \ {p},
                                                     found |-> @.found \cup found]]
       IN  /\ link' = [link EXCEPT ![p] = "closed"]
           /\ \/ answerable /\ Seen({p}) /\ Calm
              \/ answerable /\ Seen({}) /\ Mishap("not found")
              \/ ~answerable /\ Seen({}) /\ Calm
    /\ UNCHANGED <<comId, portState, portStep, callbacks, timers, connectedPorts, running>>
    /\ UNCHANGED readVars /\ UNCHANGED wsVars

\* All ports seen: start() with those found, or one more timer for a new run.
\* start() is refused while running; a second start joins connects in progress.
ScanDone(i) ==
    /\ run[i].pc = "scan" /\ run[i].todo = {}
    /\ IF run[i].found = {}
       THEN /\ timers' = IF timers < 2 THEN timers + 1 ELSE timers
            /\ run' = [run EXCEPT ![i].pc = "off"]
            /\ UNCHANGED <<connectedPorts, portStep>>
       ELSE IF running
       THEN /\ run' = [run EXCEPT ![i].pc = "off"]
            /\ UNCHANGED <<connectedPorts, portStep, timers>>
       ELSE /\ run' = [run EXCEPT ![i].pc = "start"]
            /\ connectedPorts' = run[i].found
            /\ portStep' = [p \in Ports |->
                   IF p \in run[i].found /\ portStep[p] = "idle" THEN "checking"
                   ELSE portStep[p]]
            /\ UNCHANGED timers
    /\ UNCHANGED <<comId, link, portState, callbacks, running>>
    /\ UNCHANGED readVars /\ UNCHANGED wsVars /\ Calm

\* start() after Promise.allSettled: running, and one discovery cycle, which
\* forgets the devices found before.  It waits for no recovery.
Started(i) ==
    /\ run[i].pc = "start"
    /\ \A p \in connectedPorts : portStep[p] \in {"idle", "dropping", "pausing"}
    /\ run' = [run EXCEPT ![i].pc = "off"]
    /\ running' = TRUE
    /\ online' = {} /\ discovery' = Cells
    /\ UNCHANGED <<comId, timers, connectedPorts, active, polled, asked>>
    /\ UNCHANGED portVars /\ UNCHANGED wsVars /\ Calm

\* interval(30000) fires.  It is never unsubscribed, not even after a success.
TimerFires(i) ==
    /\ timers > 0 /\ run[i].pc = "off"
    /\ run' = [run EXCEPT ![i] = [pc |-> "scan", todo |-> Ports, found |-> {}]]
    /\ IF \E j \in Runs : run[j].pc # "off" THEN Mishap("overlap")
       ELSE IF running THEN Mishap("late") ELSE Calm
    /\ UNCHANGED <<comId, timers, connectedPorts, running>>
    /\ UNCHANGED portVars /\ UNCHANGED readVars /\ UNCHANGED wsVars

-----------------------------------------------------------------------------
(* LoadcellsService: one port.                                              *)

Step(p, s) == portStep' = [portStep EXCEPT ![p] = s]

\* _connectToSinglePort: an open port is closed first.
Connect(p) ==
    /\ portStep[p] = "checking"
    /\ portState' = [portState EXCEPT ![p] = "connecting"]
    /\ link' = [link EXCEPT ![p] = "closed"]
    /\ Step(p, IF link[p] = "open" THEN "reopening" ELSE "opening")
    /\ UNCHANGED <<comId, callbacks>>
    /\ UNCHANGED readVars /\ UNCHANGED runVars /\ UNCHANGED wsVars /\ Calm

\* The half second before the port is opened again.
Reopen(p) ==
    /\ portStep[p] = "reopening" /\ Step(p, "opening")
    /\ UNCHANGED <<comId, link, portState, callbacks>>
    /\ UNCHANGED readVars /\ UNCHANGED runVars /\ UNCHANGED wsVars /\ Calm

\* open() returns: an open port is verified 200 ms later, a failure ends the
\* attempt, and nothing tries again.
OpenForReading(p) ==
    /\ portStep[p] = "opening"
    /\ \/ /\ link' = [link EXCEPT ![p] = "open"]
          /\ Step(p, "verifying") /\ UNCHANGED portState /\ Calm
       \/ /\ portState' = [portState EXCEPT ![p] = "disconnected"]
          /\ Step(p, "idle") /\ UNCHANGED link /\ Mishap("dead port")
    /\ UNCHANGED <<comId, callbacks>>
    /\ UNCHANGED readVars /\ UNCHANGED runVars /\ UNCHANGED wsVars

\* Still open: the callbacks are registered.
Verified(p) ==
    /\ portStep[p] = "verifying"
    /\ Step(p, "idle")
    /\ IF link[p] = "open"
       THEN /\ callbacks' = [callbacks EXCEPT ![p] = @ + 1]
            /\ portState' = [portState EXCEPT ![p] = "connected"]
       ELSE /\ portState' = [portState EXCEPT ![p] = "disconnected"]
            /\ UNCHANGED callbacks
    /\ UNCHANGED <<comId, link>>
    /\ UNCHANGED readVars /\ UNCHANGED runVars /\ UNCHANGED wsVars /\ Calm

\* Variant: the callbacks of the port that is given up stay registered.
ErrorUnheard(p) ==
    /\ callbacks[p] > 0 /\ portStep[p] = "idle"
    /\ Mishap("error")
    /\ portState' = [portState EXCEPT ![p] = "disconnecting"]
    /\ Step(p, "dropping")
    /\ UNCHANGED <<comId, link, callbacks>>
    /\ UNCHANGED readVars /\ UNCHANGED runVars /\ UNCHANGED wsVars

\* A critical error reaches the error callback: _disconnectFromSinglePort
\* unsubscribes and closes, a second later the port is connected again.
CriticalError(p) ==
    /\ callbacks[p] > 0 /\ portStep[p] = "idle"
    /\ Mishap("error")
    /\ portState' = [portState EXCEPT ![p] = "disconnecting"]
    /\ callbacks' = [callbacks EXCEPT ![p] = @ - 1]
    /\ Step(p, "dropping")
    /\ UNCHANGED <<comId, link>>
    /\ UNCHANGED readVars /\ UNCHANGED runVars /\ UNCHANGED wsVars

Dropped(p) ==
    /\ portStep[p] = "dropping"
    /\ link' = [link EXCEPT ![p] = "closed"]
    /\ portState' = [portState EXCEPT ![p] = "disconnected"]
    /\ Step(p, "pausing")
    /\ UNCHANGED <<comId, callbacks>>
    /\ UNCHANGED readVars /\ UNCHANGED runVars /\ UNCHANGED wsVars /\ Calm

Recover(p) ==
    /\ portStep[p] = "pausing" /\ Step(p, "checking")
    /\ UNCHANGED <<comId, link, portState, callbacks>>
    /\ UNCHANGED readVars /\ UNCHANGED runVars /\ UNCHANGED wsVars /\ Calm

\* The port closes without an error: no callback hears of it.
SilentClose(p) ==
    /\ link[p] = "open" /\ Mishap("unplugged")
    /\ link' = [link EXCEPT ![p] = "closed"]
    /\ UNCHANGED <<comId, portState, portStep, callbacks>>
    /\ UNCHANGED readVars /\ UNCHANGED runVars /\ UNCHANGED wsVars

-----------------------------------------------------------------------------
(* LoadcellsService: messages and readings.                                 *)

\* _sendMessage: to every port; ports that are not open drop it.
Ask(c) == asked' = asked \cup {<<p, c>> : p \in {q \in connectedPorts :
                                                 link[q] = "open" /\ c \in CellsAt[q]}}

SendDiscovery(c) ==
    /\ c \in discovery
    /\ discovery' = discovery \ {c} /\ Ask(c)
    /\ UNCHANGED <<comId, online, active, polled>>
    /\ UNCHANGED portVars /\ UNCHANGED runVars /\ UNCHANGED wsVars /\ Calm

SendPoll(c) ==
    /\ c \in polled /\ Ask(c) /\ asked' # asked
    /\ UNCHANGED <<comId, online, active, polled, discovery>>
    /\ UNCHANGED portVars /\ UNCHANGED runVars /\ UNCHANGED wsVars /\ Calm

\* _processReading: a running cell is online from its first reading on.
ProcessReading(c) == online' = online \cup {c}

\* _parseRawData: a reading with a wrong checksum or status is not running; without a
\* callback the answer is not seen.
CellAnswers(p, c) ==
    /\ <<p, c>> \in asked
    /\ asked' = asked \ {<<p, c>>}
    /\ \/ /\ callbacks[p] > 0 /\ link[p] = "open"
          /\ ProcessReading(c) /\ Calm
       \/ UNCHANGED online /\ Mishap("bad answer")
       \/ /\ ~(callbacks[p] > 0 /\ link[p] = "open") /\ UNCHANGED online /\ Calm
    /\ UNCHANGED <<comId, active, polled, discovery>>
    /\ UNCHANGED portVars /\ UNCHANGED runVars /\ UNCHANGED wsVars

\* addActiveDevices and removeActiveDevices (START_READING, STOP_READING);
\* setActiveDevices (ACTIVATED, or START_READING with forceReset).
SetActive(new) ==
    /\ active' = new
    /\ polled' = {c \in Cells : c \in new}
StartReading(ids) == SetActive(active \cup (ids \cap online))
StopReading(ids) == SetActive(active \ ids)

ReplaceActive(ids) ==
    /\ Mishap("replaced")
    /\ SetActive(ids \cap online)
    /\ UNCHANGED <<comId, online, discovery, asked>>
    /\ UNCHANGED portVars /\ UNCHANGED runVars /\ UNCHANGED wsVars

-----------------------------------------------------------------------------
(* WsGateway.                                                               *)

Watchers(c) == {w \in Clients : c \in joined[w]}

\* joinRoom: data.room is replaced, a room joined before is not left.
JoinRoom(w, c) ==
    /\ mishaps < MaxMishaps /\ mishaps' = mishaps + 1
    /\ joined' = [joined EXCEPT ![w] = @ \cup {c}]
    /\ room' = [room EXCEPT ![w] = c]
    /\ \/ StartReading({DeviceId(c)})
          /\ upset' = upset \cup (IF room[w] \notin {NoRoom, c} THEN {"moved"} ELSE {})
                            \cup (IF DeviceId(c) \notin online THEN {"skipped"} ELSE {})
       \/ /\ UNCHANGED <<active, polled>>
          /\ upset' = upset \cup {"lost", "moved"}
    /\ UNCHANGED <<comId, online, discovery, asked>>
    /\ UNCHANGED portVars /\ UNCHANGED runVars

\* leaveRoom: data.room stays.  STOP_READING is for everybody.
LeaveRoom(w, c) ==
    /\ c \in joined[w]
    /\ joined' = [joined EXCEPT ![w] = @ \ {c}]
    /\ UNCHANGED room
    /\ StopReading({DeviceId(c)})
    /\ upset' = IF Watchers(c) # {w} THEN upset \cup {"shared"} ELSE upset
    /\ UNCHANGED <<comId, online, discovery, asked, mishaps>>
    /\ UNCHANGED portVars /\ UNCHANGED runVars

\* Variant: a socket that goes takes its subscription along.
DisconnectSilently(w) ==
    /\ room[w] # NoRoom
    /\ joined' = [joined EXCEPT ![w] = {}]
    /\ room' = [room EXCEPT ![w] = NoRoom]
    /\ UNCHANGED <<comId, active, polled, upset, online, discovery, asked, mishaps>>
    /\ UNCHANGED portVars /\ UNCHANGED runVars

\* handleDisconnect: STOP_READING of the last room, left or not.
Disconnect(w) ==
    /\ room[w] # NoRoom
    /\ joined' = [joined EXCEPT ![w] = {}]
    /\ room' = [room EXCEPT ![w] = NoRoom]
    /\ StopReading({DeviceId(room[w])})
    /\ upset' = IF Watchers(room[w]) \ {w} # {} THEN upset \cup {"shared"} ELSE upset
    /\ UNCHANGED <<comId, online, discovery, asked, mishaps>>
    /\ UNCHANGED portVars /\ UNCHANGED runVars

BusNext ==
    \/ \E i \in Runs : \/ TestPort(i) \/ PortTested(i) \/ ScanDone(i) \/ Started(i)
                       \/ TimerFires(i)
    \/ \E p \in Ports : \/ Connect(p) \/ Reopen(p) \/ OpenForReading(p) \/ Verified(p)
                        \/ CriticalError(p) \/ Dropped(p) \/ Recover(p) \/ SilentClose(p)
                        \/ \E c \in Cells : CellAnswers(p, c)
    \/ \E c \in Cells : SendDiscovery(c) \/ SendPoll(c)
    \/ \E ids \in SUBSET DeviceIds : ReplaceActive(ids)
    \/ \E w \in Clients : \/ Disconnect(w)
                          \/ \E c \in Cells : JoinRoom(w, c) \/ LeaveRoom(w, c)

BusSpec == BusInit /\ [][BusNext]_busVars

-----------------------------------------------------------------------------
(* Types.                                                                   *)
BusTypeOK ==
    /\ link \in [Ports -> {"open", "closed"}]
    /\ portState \in [Ports -> PortState] /\ portStep \in [Ports -> PortStep]
    /\ callbacks \in [Ports -> Nat]
    /\ connectedPorts \subseteq Ports /\ running \in BOOLEAN
    /\ UNION {online, polled, discovery} \subseteq Cells /\ active \subseteq DeviceIds
    /\ asked \subseteq Ports \X Cells /\ timers \in 0..2
    /\ run \in [Runs -> [pc : RunPc, todo : SUBSET Ports, found : SUBSET Ports]]
    /\ room \in [Clients -> Cells \cup {NoRoom}] /\ joined \in [Clients -> SUBSET Cells]

\* A reading is processed once: however often a port was reconnected, it has at most
\* one callback of the service, unless discovery runs overlapped: the second start()
\* connects the ports of the first again.
ReadOnce == "overlap" \in upset \/ \A p \in Ports : callbacks[p] <= 1

\* A port that counts as connected is open, unless it closed without an error, or a
\* discovery run that was late or second tested and closed it.
ConnectedIsOpen ==
    upset \cap {"unplugged", "overlap", "late"} = {} =>
        \A p \in Ports : portState[p] = "connected" => link[p] = "open"

\* A cell whose room somebody is in is polled, unless its START_READING was lost or
\* came before the cell was discovered, somebody else left the room, or the active
\* cells were replaced.
WatchedIsPolled ==
    upset \cap {"lost", "skipped", "shared", "replaced"} = {} =>
        \A w \in Clients : \A c \in joined[w] : c \in polled

\* Nothing is polled for nobody: a polled cell is in the room of a socket, unless the
\* socket had moved on to another room, or cells were replaced.
PolledIsWatched ==
    upset \cap {"moved", "replaced"} = {} =>
        \A c \in polled : \E w \in Clients : c \in joined[w]

(* Reconnecting keeps the ports in order: a reading is seen once, and what   *)
(* counts as connected is open, however errors, recoveries and discovery     *)
(* runs interleave, but for the overlaps and silent closes named.            *)
PortsInOrder == ReadOnce /\ ConnectedIsOpen

(* The polled cells are those of the rooms: joins, leaves and disconnections *)
(* of several sockets neither leave a watched cell unread nor an unwatched   *)
(* one polled, but for the lost and shared requests named.                   *)
PollingFollowsRooms == WatchedIsPolled /\ PolledIsWatched
=============================================================================
