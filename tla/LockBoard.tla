------------------------------ MODULE LockBoard ------------------------------
(* The locks of the bins: BinService of inventory opens a bin over TCP and   *)
(* asks the hardware bridge over MQTT to watch the lock; the bridge polls    *)
(* the board until the lock is closed and reports it; BinService.close then  *)
(* writes it to the bin.  The answers of the boards come over one serial     *)
(* port that opening and polling share (SerialConnection).                   *)
EXTENDS LockProtocol, FiniteSets, SequencesExt

CONSTANTS Bins,          \* bins, each with one lock
          LockOf,        \* lockId of a bin
          Boards,        \* lock boards
          BoardNumber,   \* cuLockId, the device id of a board
          Layouts,       \* what board each bin may be on
          SlowBoards,    \* boards that answer no poll before the next one
          PortScans,     \* what the serial ports may look like at start
          MaxCalls,      \* bound: calls that open, activate or deactivate bins
          MaxTrouble,    \* bound: kinds of trouble in a behaviour
          MaxRetries     \* retries of the TCP publisher, 5 in the code

NoBin == "none"

\* A board is known by its number: a bin names its board by cuLockId alone.
ASSUME LockAssumption ==
    /\ NoBin \notin Bins /\ LockOf \in [Bins -> 1..LockCount]
    /\ BoardNumber \in [Boards -> Nat]
    /\ \A j, k \in Boards : BoardNumber[j] = BoardNumber[k] => j = k
    /\ Layouts \subseteq [Bins -> Boards] /\ SlowBoards \subseteq Boards
    /\ {MaxCalls, MaxTrouble, MaxRetries} \subseteq Nat

VARIABLES boardOf,       \* cuLockId of a bin
          lockPort,      \* hardware behind _controlUnitLockPorts[0]
          phys,          \* the lock itself
          books,         \* BinEntity.state in the database
          opener,        \* BinService.open in progress
          late,          \* opens that timed out and may still be executed
          monitor,       \* _activeMonitors: what is polled on a board
          tracks,        \* LOCK.TRACKING messages in flight
          reports,       \* LOCK.TRACKING_STATUS messages in flight
          closer,        \* BinService.close in progress, per board
          bulk,          \* openCabinetBins in progress
          admin,         \* BinService.activate or deactivate in progress
          reading,       \* bins whose load cells were last told to read
          stops,         \* bins whose STOP_READING waits for its 2 seconds
          calls,         \* how many such calls were made
          trouble        \* history: what went wrong so far

lockVars == <<boardOf, lockPort, phys, books, opener, late, monitor, tracks,
              reports, closer, bulk, admin, reading, stops, calls, trouble>>

LockMaxAttempts == 3     \* BinService._maxOpenAttempts
LockStatus == {"OPENED", "CLOSED", "undefined"}
BinBooks == [isLocked : BOOLEAN, isFailed : BOOLEAN,
             failedOpenAttempts : 0..LockMaxAttempts]
Trouble == {"shared board", "late", "refused", "lost", "restart", "bulk", "garbled",
            "timeout", "overtaken", "reopened", "unread", "crossed"}

NewBooks == [isLocked |-> TRUE, isFailed |-> FALSE, failedOpenAttempts |-> 0]

\* incrementOpenFailedAttempt, hasExceededFailedAttempts, markFailed and markAlive of
\* BinEntity; attempts past the limit make no difference and are not counted.
Exceeded(s) == s.failedOpenAttempts >= LockMaxAttempts
Incremented(s) == IF Exceeded(s) THEN s ELSE [s EXCEPT !.failedOpenAttempts = @ + 1]
MarkFailed(s) == [s EXCEPT !.isFailed = TRUE]
MarkAlive(s) == [s EXCEPT !.isFailed = FALSE, !.failedOpenAttempts = 0]

-----------------------------------------------------------------------------
(* ControlUnitLockService and its CU protocol.                              *)

\* _detectPorts: every port that opens is taken for a control unit, whatever
\* answered on it (_addPort).
DetectPorts(scan) == SelectSeq(scan, LAMBDA p : p.opens)
FirstHardware(scan) ==
    IF DetectPorts(scan) = <<>> THEN "none" ELSE Head(DetectPorts(scan)).hardware

\* The locks of a board that are closed.
ClosedOn(k) == {LockOf[b] : b \in {c \in Bins : boardOf[c] = k /\ phys[c] = "closed"}}

\* What a board has to say of its locks, and what is no reply of a board.
BoardReply(k) ==
    [valid |-> TRUE, device |-> BoardNumber[k], opened |-> {},
     bytes |-> BoardFrame(ClosedOn(k))]
StrangeReply == [valid |-> FALSE, device |-> 0, opened |-> {}, bytes |-> BoardFrame({})]

\* The bins that a board opens, by the messages it gets.
OpenedBy(messages) ==
    {b \in Bins : \E i \in DOMAIN messages :
        /\ messages[i].command = "OPEN_LOCK"
        /\ messages[i].device = BoardNumber[boardOf[b]]
        /\ messages[i].lock + 1 = LockOf[b]}
OpenLock(b) == Written("OPEN_LOCK", BoardNumber[boardOf[b]], <<LockOf[b]>>)
LocksOpen(bins) == phys' = [b \in Bins |-> IF b \in bins THEN "open" ELSE phys[b]]

\* Variant: the status is compared with a word the board never says.
SaysClosed(statuses) == \A l \in DOMAIN statuses : statuses[l] = "LOCKED"

\* _isLockClosed: everything but OPENED counts as closed.
IsLockClosed(statuses) == \A l \in DOMAIN statuses : statuses[l] # "OPENED"

Troubled(kind) == /\ kind \notin trouble => Cardinality(trouble) < MaxTrouble
                  /\ trouble' = trouble \cup {kind}

-----------------------------------------------------------------------------
NotOpening == [pc |-> "idle", loaded |-> NewBooks, tries |-> 0]
NotClosing == [pc |-> "idle", loaded |-> NewBooks, isClosed |-> FALSE]
Unwatched == [bin |-> NoBin, seen |-> "undefined"]
NotSetting == [pc |-> "idle", loaded |-> NewBooks]
NoBulk == [opened |-> {}, loaded |-> [b \in Bins |-> NewBooks]]

LockInit ==
    /\ boardOf \in Layouts
    /\ lockPort \in {FirstHardware(s) : s \in PortScans}
    /\ phys = [b \in Bins |-> "closed"]
    /\ books = [b \in Bins |-> NewBooks]
    /\ opener = [b \in Bins |-> NotOpening]
    /\ late = {} /\ tracks = {} /\ reports = {} /\ reading = {} /\ stops = {}
    /\ monitor = [k \in Boards |-> Unwatched]
    /\ closer = [k \in Boards |-> NotClosing]
    /\ admin = [b \in Bins |-> NotSetting]
    /\ bulk = NoBulk /\ calls = 0
    /\ trouble = IF \E b, c \in Bins : b # c /\ boardOf[b] = boardOf[c]
                 THEN {"shared board"} ELSE {}

\* The calls of the bridge reach a board.
BoardAnswers == lockPort = "cu"

\* What is under way for a bin.
Watched(b) == monitor[boardOf[b]].bin = b \/ b \in tracks
Reported(b) == \/ \E m \in reports : m.board = boardOf[b]
               \/ closer[boardOf[b]].pc = "loaded"
Opening(b) == opener[b].pc # "idle"

\* The bin that findOneOrFail({cuLockId}) and find(cuLockId) return.
FirstBin(k) == CHOOSE b \in Bins : boardOf[b] = k

\* BinService.open: load the bin, call LOCK.OPEN.
OpenBin(b) ==
    /\ opener[b].pc = "idle" /\ calls < MaxCalls
    /\ opener' = [opener EXCEPT ![b] = [pc |-> "calling", loaded |-> books[b], tries |-> 0]]
    /\ calls' = calls + 1
    /\ IF b \in stops \/ Watched(b) \/ Reported(b)
       THEN Troubled("reopened") ELSE UNCHANGED trouble
    /\ UNCHANGED <<boardOf, admin, lockPort, bulk, phys, books, late, monitor, tracks, reports,
                   closer, reading, stops>>

\* An answer that is a success; that it says of the lock is not looked at (_isFailOpenCU),
\* so that the lock may have stayed shut.  START_READING (QoS 0) follows.
OpenSucceeds(b) ==
    /\ opener[b].pc = "calling" /\ BoardAnswers
    /\ LocksOpen(OpenedBy(OpenLock(b))) \/ UNCHANGED phys
    /\ opener' = [opener EXCEPT ![b].pc = "tracking"]
    /\ \/ reading' = reading \cup {b} /\ UNCHANGED trouble
       \/ UNCHANGED reading /\ Troubled("unread")
    /\ UNCHANGED <<boardOf, admin, lockPort, bulk, books, late, monitor, tracks, reports,
                   closer, stops, calls>>

\* The answer is not a success (_handleFailOpenAndThrowException): the whole
\* entity is written, the lock may be open all the same.
OpenRefused(b) ==
    /\ opener[b].pc = "calling" /\ BoardAnswers
    /\ Troubled("refused")
    /\ LocksOpen(OpenedBy(OpenLock(b))) \/ UNCHANGED phys
    /\ LET counted == Incremented(opener[b].loaded)
       IN  books' = [books EXCEPT ![b] =
               IF Exceeded(counted) THEN MarkFailed(counted) ELSE counted]
    /\ opener' = [opener EXCEPT ![b] = NotOpening]
    /\ UNCHANGED <<boardOf, admin, lockPort, bulk, late, monitor, tracks, reports, closer,
                   reading, stops, calls>>

\* No answer within 10 s: the publisher sends the call again, up to its retries,
\* while the bridge may still execute the one that was given up.
OpenTimesOut(b) ==
    /\ opener[b].pc = "calling"
    /\ \/ /\ BoardAnswers /\ Troubled("late") /\ late' = late \cup {b}
       \/ /\ ~BoardAnswers /\ UNCHANGED <<late, trouble>>
    /\ IF opener[b].tries < MaxRetries
       THEN opener' = [opener EXCEPT ![b].tries = @ + 1]
       ELSE opener' = [opener EXCEPT ![b] = NotOpening]
    /\ UNCHANGED <<boardOf, admin, lockPort, bulk, phys, books, monitor, tracks, reports,
                   closer, reading, stops, calls>>

LateOpen(b) ==
    /\ b \in late
    /\ late' = late \ {b}
    /\ LocksOpen(OpenedBy(OpenLock(b)))
    /\ UNCHANGED <<boardOf, admin, lockPort, bulk, books, opener, monitor, tracks, reports,
                   closer, reading, stops, calls, trouble>>

\* LOCK.TRACKING is published (QoS 0) ...
AskForTracking(b) ==
    /\ opener[b].pc = "tracking"
    /\ \/ /\ tracks' = tracks \cup {b} /\ UNCHANGED trouble
       \/ /\ Troubled("lost") /\ UNCHANGED tracks
    /\ opener' = [opener EXCEPT ![b].pc = "saving"]
    /\ UNCHANGED <<boardOf, admin, lockPort, bulk, phys, books, late, monitor, reports, closer,
                   reading, stops, calls>>

\* ... then the state of the loaded entity is flushed, as a whole and only when
\* it changed.  A report that came in between is overwritten.
SaveOpened(b) ==
    /\ opener[b].pc = "saving"
    /\ LET new == [NewBooks EXCEPT !.isLocked = FALSE]
       IN  /\ books' = IF new = opener[b].loaded THEN books ELSE [books EXCEPT ![b] = new]
           /\ IF /\ boardOf[b] \notin {boardOf[c] : c \in tracks}
                 /\ monitor[boardOf[b]].bin # b /\ "lost" \notin trouble
              THEN Troubled("overtaken") ELSE UNCHANGED trouble
    /\ opener' = [opener EXCEPT ![b] = NotOpening]
    /\ UNCHANGED <<boardOf, admin, lockPort, bulk, phys, late, monitor, tracks, reports,
                   closer, reading, stops, calls>>

\* openCabinetBins loads every locked bin and opens them all at once; calls may
\* fail.  Nothing is watched, read or marked unlocked.
OpenCabinet ==
    /\ bulk = NoBulk /\ calls < MaxCalls /\ BoardAnswers
    /\ \E opened \in SUBSET {b \in Bins : books[b].isLocked} :
          /\ opened # {}
          /\ LocksOpen(UNION {OpenedBy(OpenLock(b)) : b \in opened})
          /\ bulk' = [opened |-> opened, loaded |-> books]
    /\ calls' = calls + 1
    /\ Troubled("bulk")
    /\ UNCHANGED <<boardOf, admin, lockPort, books, opener, late, monitor, tracks, reports,
                   closer, reading, stops>>

\* When all calls have ended, the first bin of each board that answered is stored
\* as it was loaded, alive.
SaveCabinet ==
    /\ bulk # NoBulk
    /\ LET alive == {b \in Bins : \E c \in bulk.opened : b = FirstBin(boardOf[c])}
       IN  books' = [b \in Bins |->
               IF b \in alive THEN MarkAlive(bulk.loaded[b]) ELSE books[b]]
    /\ bulk' = NoBulk
    /\ UNCHANGED <<boardOf, admin, lockPort, phys, opener, late, monitor, tracks, reports,
                   closer, reading, stops, calls, trouble>>

\* activate and deactivate load the bin ...
LoadForSet(b) ==
    /\ admin[b].pc = "idle" /\ calls < MaxCalls
    /\ calls' = calls + 1
    /\ \E pc \in {"activate", "deactivate"} :
          admin' = [admin EXCEPT ![b] = [pc |-> pc, loaded |-> books[b]]]
    /\ UNCHANGED <<boardOf, lockPort, bulk, phys, books, opener, late, monitor, tracks,
                   reports, closer, reading, stops, trouble>>

\* ... and nativeUpdate sets all that was loaded, isLocked with it, whatever was written
\* meanwhile.
SaveSet(b) ==
    /\ admin[b].pc # "idle"
    /\ books' = [books EXCEPT ![b] =
           IF admin[b].pc = "activate" THEN MarkAlive(admin[b].loaded)
                                       ELSE MarkFailed(admin[b].loaded)]
    /\ IF admin[b].loaded.isLocked # books[b].isLocked
       THEN Troubled("crossed") ELSE UNCHANGED trouble
    /\ admin' = [admin EXCEPT ![b] = NotSetting]
    /\ UNCHANGED <<boardOf, lockPort, bulk, phys, opener, late, monitor, tracks,
                   reports, closer, reading, stops, calls>>

-----------------------------------------------------------------------------
(* LockMonitoringService of the hardware bridge.                            *)

\* track(): an older monitor of the board is unsubscribed.
Track(b) ==
    /\ b \in tracks
    /\ tracks' = tracks \ {b}
    /\ monitor' = [monitor EXCEPT ![boardOf[b]] = [bin |-> b, seen |-> "undefined"]]
    /\ UNCHANGED <<boardOf, admin, lockPort, bulk, phys, books, opener, late, reports, closer,
                   reading, stops, calls, trouble>>

\* A poll asks the board: the status is that of the moment.  It may get the
\* answer to another call, which is of another board or none.
PollLock(k) ==
    /\ monitor[k].bin # NoBin /\ BoardAnswers
    /\ \E reply \in {BoardReply(j) : j \in Boards} \cup {StrangeReply} :
          /\ IF reply # BoardReply(k) THEN Troubled("garbled") ELSE UNCHANGED trouble
          /\ LET locks == <<LockOf[monitor[k].bin]>>
             IN  monitor' = [monitor EXCEPT ![k].seen =
                    IF IsLockClosed(Response(BoardNumber[k], locks, reply).lockStatuses)
                    THEN "CLOSED" ELSE "OPENED"]
    /\ UNCHANGED <<boardOf, admin, lockPort, bulk, phys, books, opener, late, tracks, reports,
                   closer, reading, stops, calls>>

\* Variant: the first answer ends the monitor, whatever it says.
FirstAnswerEnds(k) ==
    /\ monitor[k].seen # "undefined" /\ k \notin SlowBoards
    /\ monitor' = [monitor EXCEPT ![k] = Unwatched]
    /\ reports' = reports \cup {[board |-> k, isClosed |-> monitor[k].seen = "CLOSED"]}
    /\ UNCHANGED <<boardOf, admin, lockPort, bulk, phys, books, opener, late, tracks, closer,
                   reading, stops, calls, trouble>>

\* The answer arrives before the next poll: switchMap drops any other.  A closed lock is
\* reported and the monitor ends (take(1)).
PollAnswered(k) ==
    /\ monitor[k].seen # "undefined" /\ k \notin SlowBoards
    /\ IF monitor[k].seen = "CLOSED"
       THEN /\ monitor' = [monitor EXCEPT ![k] = Unwatched]
            /\ reports' = reports \cup {[board |-> k, isClosed |-> TRUE]}
       ELSE /\ monitor' = [monitor EXCEPT ![k].seen = "undefined"]
            /\ UNCHANGED reports
    /\ UNCHANGED <<boardOf, admin, lockPort, bulk, phys, books, opener, late, tracks, closer,
                   reading, stops, calls, trouble>>

\* After an hour the monitor gives up.
MonitorTimeout(k) ==
    /\ monitor[k].bin # NoBin /\ Troubled("timeout")
    /\ monitor' = [monitor EXCEPT ![k] = Unwatched]
    /\ reports' = reports \cup {[board |-> k, isClosed |-> FALSE]}
    /\ UNCHANGED <<boardOf, admin, lockPort, bulk, phys, books, opener, late, tracks, closer,
                   reading, stops, calls>>

\* The bridge restarts: monitors are in memory only.
BridgeRestarts ==
    /\ \E k \in Boards : monitor[k].bin # NoBin
    /\ Troubled("restart")
    /\ monitor' = [k \in Boards |-> Unwatched]
    /\ UNCHANGED <<boardOf, admin, lockPort, bulk, phys, books, opener, late, tracks, reports,
                   closer, reading, stops, calls>>

\* Somebody shuts the drawer.
ShutDrawer(b) ==
    /\ phys[b] = "open"
    /\ phys' = [phys EXCEPT ![b] = "closed"]
    /\ UNCHANGED <<boardOf, admin, lockPort, bulk, books, opener, late, monitor, tracks,
                   reports, closer, reading, stops, calls, trouble>>

-----------------------------------------------------------------------------
(* BinService.close, on TRACKING_STATUS.                                    *)

LoadForClose(k) ==
    /\ closer[k].pc = "idle"
    /\ \E m \in reports :
          /\ m.board = k
          /\ reports' = reports \ {m}
          /\ closer' = [closer EXCEPT ![k] =
                 [pc |-> "loaded", loaded |-> books[FirstBin(k)], isClosed |-> m.isClosed]]
    /\ UNCHANGED <<boardOf, admin, lockPort, bulk, phys, books, opener, late, monitor, tracks,
                   reading, stops, calls, trouble>>

\* Variant: isClosed is taken for its opposite.
WithReport(loaded, isClosed) == [loaded EXCEPT !.isLocked = ~isClosed]

\* The new state of the bin.
Reporting(loaded, isClosed) == [loaded EXCEPT !.isLocked = isClosed]

\* The state is flushed if it changed; STOP_READING is due in two seconds.
SaveClosed(k) ==
    /\ closer[k].pc = "loaded"
    /\ LET b == FirstBin(k)
           new == Reporting(closer[k].loaded, closer[k].isClosed)
       IN  /\ books' = IF new = closer[k].loaded THEN books ELSE [books EXCEPT ![b] = new]
           /\ stops' = stops \cup {b}
    /\ closer' = [closer EXCEPT ![k] = NotClosing]
    /\ UNCHANGED <<boardOf, admin, lockPort, bulk, phys, opener, late, monitor, tracks,
                   reports, reading, calls, trouble>>

StopReadingDue(b) ==
    /\ b \in stops
    /\ stops' = stops \ {b} /\ reading' = reading \ {b}
    /\ UNCHANGED <<boardOf, admin, lockPort, bulk, phys, books, opener, late, monitor, tracks,
                   reports, closer, calls, trouble>>

LockNext ==
    \/ OpenCabinet \/ SaveCabinet \/ BridgeRestarts
    \/ \E b \in Bins :
          \/ OpenBin(b) \/ OpenSucceeds(b) \/ OpenRefused(b) \/ OpenTimesOut(b)
          \/ LateOpen(b) \/ AskForTracking(b) \/ SaveOpened(b) \/ Track(b)
          \/ ShutDrawer(b) \/ StopReadingDue(b)
          \/ LoadForSet(b) \/ SaveSet(b)
    \/ \E k \in Boards : \/ PollLock(k) \/ PollAnswered(k) \/ MonitorTimeout(k)
                         \/ LoadForClose(k) \/ SaveClosed(k)

LockSpec == LockInit /\ [][LockNext]_lockVars

(* The bridge polls every second, a board that is not slow answers some poll *)
(* before the next one, and MQTT delivers what was not lost.  Of a slow      *)
(* board nothing is assumed: all its answers come too late.                  *)
LockFairness ==
    \A k \in Boards : /\ WF_lockVars(PollLock(k)) /\ WF_lockVars(PollAnswered(k))
                      /\ WF_lockVars(LoadForClose(k)) /\ WF_lockVars(SaveClosed(k))

-----------------------------------------------------------------------------
(* Types.                                                                   *)
LockTypeOK ==
    /\ boardOf \in [Bins -> Boards]
    /\ phys \in [Bins -> {"open", "closed"}]
    /\ books \in [Bins -> BinBooks]
    /\ opener \in [Bins -> [pc : {"idle", "calling", "tracking", "saving"},
                            loaded : BinBooks, tries : 0..MaxRetries]]
    /\ monitor \in [Boards -> [bin : Bins \cup {NoBin}, seen : LockStatus]]
    /\ closer \in [Boards -> [pc : {"idle", "loaded"}, loaded : BinBooks,
                              isClosed : BOOLEAN]]
    /\ reports \subseteq [board : Boards, isClosed : BOOLEAN]
    /\ UNION {late, tracks, reading, stops} \subseteq Bins
    /\ bulk \in [opened : SUBSET Bins, loaded : [Bins -> BinBooks]]
    /\ admin \in [Bins -> [pc : {"idle", "activate", "deactivate"}, loaded : BinBooks]]
    /\ calls \in 0..MaxCalls /\ trouble \subseteq Trouble

\* An open lock is watched until it is closed.  What can break it: two bins on one
\* board, an answer that is late, refused or another call's, a lost TRACKING, a
\* restart of the bridge, an hour, or openCabinetBins.
OpenIsWatched ==
    trouble \cap {"shared board", "late", "refused", "garbled", "lost", "restart",
                  "timeout", "bulk"} = {} =>
        \A b \in Bins : phys[b] = "open" => Opening(b) \/ Watched(b)

\* The books do not call an open lock locked.  They may while it is being opened,
\* and after any of the troubles that end the watch too early, or an activation that has
\* set what it loaded before the opening.
LockedMeansClosed ==
    trouble \cap {"shared board", "late", "refused", "garbled", "bulk", "reopened",
                  "crossed"} = {} =>
        \A b \in Bins : books[b].isLocked /\ phys[b] = "open" =>
            Opening(b) \/ (Reported(b) /\ monitor[boardOf[b]].bin # b)

\* When nothing is under way for a closed lock, the books call it locked: no save
\* of open() undoes the report of the close, unless the drawer was shut and reported
\* before open() had saved, or an activation has set what it loaded before the close.
ClosedIsBooked ==
    trouble \cap {"shared board", "lost", "restart", "timeout", "overtaken", "late",
                  "refused", "reopened", "crossed"} = {} =>
        \A b \in Bins :
            phys[b] = "closed" /\ ~Opening(b) /\ ~Watched(b) /\ ~Reported(b) =>
                books[b].isLocked

\* The load cells of a watched bin are being read, unless it was opened again within
\* the two seconds that a STOP_READING waits, another bin of the board was closed, or the
\* START_READING was lost.
ReadWhileWatched ==
    trouble \cap {"reopened", "shared board", "unread"} = {} =>
        \A b \in Bins : Watched(b) => b \in reading

(* An open lock is attended to: it is watched by the bridge until it closes, *)
(* and the load cells behind it are read as long, through every order of     *)
(* opens, polls, messages and delayed stops, but for the troubles named.     *)
OpenIsAttended == OpenIsWatched /\ ReadWhileWatched

(* The books follow the lock: at rest they say locked when it is closed and  *)
(* never while it is open, although open(), close(), activate() and          *)
(* deactivate() write the whole state from what they read before an await,   *)
(* but for the troubles named; one of them is that an activation sets back   *)
(* what an opening or a close wrote between its read and its write.          *)
BooksFollowLock == LockedMeansClosed /\ ClosedIsBooked

(* A lock that is shut while the bridge watches it is booked as locked in    *)
(* the end, or opened again, if the board answers some poll before the next  *)
(* one is sent (a slow board never does, and nothing is booked), and unless  *)
(* some trouble comes in between.                                            *)
ShutIsBooked ==
    \A b \in Bins :
        (/\ phys[b] = "closed" /\ monitor[boardOf[b]].bin = b
         /\ boardOf[b] \notin SlowBoards /\ trouble = {})
            ~> (books[b].isLocked \/ phys[b] = "open" \/ trouble # {})

=============================================================================
