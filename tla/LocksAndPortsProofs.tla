------------------------ MODULE LocksAndPortsProofs ------------------------
(***************************************************************************)
(* Proofs about the lock boards and the serial ports.  LockBoard, for any  *)
(* bins, boards, locks and calls, and any number and order of troubles: an *)
(* open lock is attended to, and the books follow the lock, unless one of  *)
(* the troubles came that the properties name.  An opening is a token that *)
(* goes from one stage to the next (OneStage); what each stage knows of    *)
(* the lock is the rest of the invariant.  PortDiscovery: for every set of *)
(* paths, any configuration of the filters, and devices that come and go   *)
(* at any moment, what is open is known as connected.                      *)
(***************************************************************************)
EXTENDS MCLocksAndPorts, FiniteSetTheorems, SequenceTheorems, TLAPS

-----------------------------------------------------------------------------
(* The locks.                                                                *)

\* None of these has happened.
Without(kinds) == trouble \cap kinds = {}

Own == {"shared board", "reopened"}
Unwatching == {"shared board", "late", "refused", "garbled", "lost", "restart", "timeout", "bulk"}
Misleading == {"shared board", "late", "refused", "garbled", "bulk", "reopened", "crossed"}
Unbooked == {"shared board", "lost", "restart", "timeout", "overtaken", "late", "refused", "reopened",
             "crossed"}

ReportsOf(k) == {m \in reports : m.board = k}
Calling(b) == opener[b].pc \in {"calling", "tracking"}

\* What the troubles on record stand for.
OwnBoards == Without({"shared board"}) => \A b, c \in Bins : boardOf[b] = boardOf[c] => b = c
TroubleHolds ==
    /\ OwnBoards
    /\ late # {} => "late" \in trouble
    /\ bulk # NoBulk => "bulk" \in trouble
    /\ ~BoardAnswers => late = {} /\ \A b \in Bins : phys[b] = "closed"
    /\ \A b \in bulk.opened : bulk.loaded[b].isLocked

\* Monitors, reports and closes are about bins of their boards.
BoardHolds(k) ==
    /\ monitor[k].bin = NoBin => monitor[k].seen = "undefined"
    /\ monitor[k].bin # NoBin => boardOf[monitor[k].bin] = k
    /\ ReportsOf(k) # {} \/ closer[k].pc = "loaded" => \E b \in Bins : boardOf[b] = k

\* An opening becomes a message, a monitor, a report, a close and a stop, one after
\* the other.
OneStage(b) ==
    LET k == boardOf[b]
    IN  /\ Calling(b) => ~Watched(b) /\ ~Reported(b) /\ b \notin stops
        /\ b \in tracks => monitor[k].bin # b /\ ~Reported(b) /\ b \notin stops
        /\ monitor[k].bin = b => ~Reported(b) /\ b \notin stops
        /\ ReportsOf(k) # {} => closer[k].pc = "idle" /\ b \notin stops
        /\ closer[k].pc = "loaded" => b \notin stops
        /\ \A m, n \in ReportsOf(k) : m = n
        /\ (opener[b].pc = "tracking" \/ Watched(b)) /\ Without({"unread"}) => b \in reading

\* An open lock is watched, or soon will be.
StaysWatched(b) ==
    LET k == boardOf[b]
    IN  phys[b] = "open" =>
            /\ Opening(b) \/ Watched(b)
            /\ opener[b].pc = "saving" => Watched(b)
            /\ monitor[k].bin = b /\ monitor[k].seen = "CLOSED" =>
                   opener[b].pc = "tracking" \/ b \in tracks

\* Who says closed tells the truth, and open() knows what the books say.
ToldTruly(b) ==
    LET k == boardOf[b]
    IN  /\ phys[b] = "open" =>
            /\ books[b].isLocked => Opening(b)
            /\ opener[b].pc = "saving" /\ ~opener[b].loaded.isLocked => ~books[b].isLocked
            /\ monitor[k].bin = b => monitor[k].seen # "CLOSED"
            /\ \A m \in ReportsOf(k) : ~m.isClosed
            /\ closer[k].pc = "loaded" => ~closer[k].isClosed
        /\ Calling(b) => opener[b].loaded.isLocked = books[b].isLocked

\* What the books do not call locked is watched or reported as closed.
SoonBooked(b) ==
    LET k == boardOf[b]
    IN  /\ ~books[b].isLocked => Watched(b) \/ Reported(b)
        /\ \A m \in ReportsOf(k) : m.isClosed
        /\ closer[k].pc = "loaded" =>
               closer[k].isClosed /\ (closer[k].loaded.isLocked => books[b].isLocked)

BinHolds(b) ==
    /\ Without(Own) => OneStage(b)
    /\ Without(Unwatching) => StaysWatched(b)
    /\ Without(Misleading) => ToldTruly(b)
    /\ Without(Unbooked) => SoonBooked(b)

OpenerState == [pc : {"idle", "calling", "tracking", "saving"}, loaded : BinBooks,
                tries : 0..MaxRetries]
MonitorState == [bin : Bins \cup {NoBin}, seen : LockStatus]
CloserState == [pc : {"idle", "loaded"}, loaded : BinBooks, isClosed : BOOLEAN]
AdminState == [pc : {"idle", "activate", "deactivate"}, loaded : BinBooks]
BulkState == [opened : SUBSET Bins, loaded : [Bins -> BinBooks]]
Report == [board : Boards, isClosed : BOOLEAN]

\* The types, variable by variable.
LockTypes ==
    /\ boardOf \in [Bins -> Boards] /\ phys \in [Bins -> {"open", "closed"}]
    /\ books \in [Bins -> BinBooks] /\ opener \in [Bins -> OpenerState]
    /\ monitor \in [Boards -> MonitorState] /\ closer \in [Boards -> CloserState]
    /\ admin \in [Bins -> AdminState] /\ bulk \in BulkState /\ reports \subseteq Report
    /\ late \subseteq Bins /\ tracks \subseteq Bins
    /\ reading \subseteq Bins /\ stops \subseteq Bins
    /\ calls \in 0..MaxCalls /\ trouble \subseteq Trouble

LockInv == /\ LockTypes /\ TroubleHolds
           /\ (\A k \in Boards : BoardHolds(k)) /\ (\A b \in Bins : BinHolds(b))
-----------------------------------------------------------------------------
LEMMA LockTypeParts == LockTypes => LockTypeOK
BY DEF LockTypes, LockTypeOK, OpenerState, MonitorState, CloserState, BulkState, AdminState, Report

\* Nothing about bin b and its board changes.
SameBin(b) ==
    LET k == boardOf[b]
    IN  /\ phys'[b] = phys[b] /\ books'[b] = books[b] /\ opener'[b] = opener[b]
        /\ monitor'[k] = monitor[k] /\ closer'[k] = closer[k] /\ ReportsOf(k)' = ReportsOf(k)
        /\ (b \in tracks' <=> b \in tracks) /\ (b \in stops' <=> b \in stops)
        /\ (b \in reading => b \in reading')

\* Troubles stay on record.
Grows == boardOf' = boardOf /\ trouble \subseteq trouble'

LEMMA WithoutGrows ==
    ASSUME Grows
    PROVE  \A kinds : Without(kinds)' => Without(kinds)
BY DEF Without, Grows

LEMMA TroubledFacts ==
    ASSUME NEW kind \in Trouble, Troubled(kind), LockTypes
    PROVE  /\ trouble \subseteq trouble' /\ trouble' \subseteq Trouble
           /\ \A kinds : kind \in kinds => ~Without(kinds)'
BY DEF Troubled, Without, LockTypes

LEMMA KindFacts ==
    /\ \A kinds \in {Own, Unwatching, Misleading, Unbooked} : "shared board" \in kinds
    /\ Own \cup Unwatching \cup Misleading \cup Unbooked \subseteq Trouble
BY DEF Own, Unwatching, Misleading, Unbooked, Trouble

LEMMA SameHolds ==
    ASSUME Grows, NEW b \in Bins, BinHolds(b), SameBin(b)
    PROVE  BinHolds(b)'
<1> DEFINE k == boardOf[b]
<1>1. /\ \A kinds : Without(kinds)' => Without(kinds)
      /\ boardOf' = boardOf
  BY WithoutGrows DEF Grows
<1>2. /\ (Watched(b)' <=> Watched(b)) /\ (Reported(b)' <=> Reported(b))
      /\ (Calling(b)' <=> Calling(b)) /\ (Opening(b)' <=> Opening(b))
  <2>1. (\E m \in reports : m.board = k) <=> ReportsOf(k) # {}
    BY DEF ReportsOf
  <2>2. (\E m \in reports' : m.board = k) <=> ReportsOf(k)' # {}
    BY <1>1 DEF ReportsOf
  <2>3. ReportsOf(k)' = ReportsOf(k) /\ boardOf'[b] = k
    BY <1>1 DEF SameBin
  <2>4. Reported(b)' <=> Reported(b)
    BY <1>1, <2>1, <2>2, <2>3 DEF SameBin, Reported
  <2> QED
    BY <1>1, <2>4 DEF SameBin, Watched, Calling, Opening
<1>3. OneStage(b) => OneStage(b)'
  BY <1>1, <1>2 DEF SameBin, OneStage, Own
<1>4. StaysWatched(b) => StaysWatched(b)'
  BY <1>1, <1>2 DEF SameBin, StaysWatched
<1>5. ToldTruly(b) => ToldTruly(b)'
  BY <1>1, <1>2 DEF SameBin, ToldTruly
<1>6. SoonBooked(b) => SoonBooked(b)'
  BY <1>1, <1>2 DEF SameBin, SoonBooked
<1> QED
  BY <1>1, <1>3, <1>4, <1>5, <1>6 DEF BinHolds

\* A step about bin b: when boards are shared there is nothing to show.
LEMMA OneBin ==
    ASSUME Grows, OwnBoards, \A c \in Bins : BinHolds(c), NEW b \in Bins,
           \A c \in Bins : boardOf[c] # boardOf[b] => SameBin(c),
           Without({"shared board"})' => BinHolds(b)'
    PROVE  \A c \in Bins : BinHolds(c)'
<1> SUFFICES ASSUME NEW c \in Bins PROVE BinHolds(c)'
  OBVIOUS
<1>1. CASE ~Without({"shared board"})'
  <2>1. \A kinds \in {Own, Unwatching, Misleading, Unbooked} : ~Without(kinds)'
    BY <1>1, KindFacts DEF Without
  <2> QED
    BY <2>1 DEF BinHolds
<1>2. CASE Without({"shared board"})'
  <2>1. Without({"shared board"})
    BY <1>2, WithoutGrows
  <2>2. CASE c = b
    BY <1>2, <2>2
  <2>3. CASE c # b
    BY <2>1, <2>3, SameHolds DEF OwnBoards
  <2> QED
    BY <2>2, <2>3
<1> QED
  BY <1>1, <1>2
-----------------------------------------------------------------------------
(* What the board hears and says                                           *)

LEMMA LockIdFacts ==
    ASSUME NEW b \in Bins
    PROVE  LockOf[b] \in 1..LockCount /\ ProtocolLockId(LockOf[b]) + 1 = LockOf[b]
BY LockAssumption, ProtocolAssumption DEF ProtocolLockId

\* One lock takes one message of a kind.
LEMMA OneMessage ==
    ASSUME NEW command, NEW number, NEW lock
    PROVE  CreateMessages(command, number, <<lock>>) = <<CreateMessage(command, number, lock)>>
<1>1. <<lock>> # <<>> /\ DOMAIN <<lock>> = {1} /\ <<lock>>[1] = lock
  OBVIOUS
<1>2. CreateMessages(command, number, <<lock>>)
        = [i \in {1} |-> CreateMessage(command, number, lock)]
  BY <1>1 DEF CreateMessages
<1> QED
  BY <1>2

LEMMA PairFacts ==
    ASSUME NEW x, NEW y
    PROVE  LET xy == <<x>> \o <<y>>
           IN  DOMAIN xy = {1, 2} /\ xy[1] = x /\ xy[2] = y
<1>1. <<x>> \in Seq({x, y}) /\ <<y>> \in Seq({x, y})
  OBVIOUS
<1>2. <<x>> \o <<y>> \in Seq({x, y}) /\ Len(<<x>> \o <<y>>) = 2
  BY <1>1
<1>3. (<<x>> \o <<y>>)[1] = x /\ (<<x>> \o <<y>>)[2] = y
  BY <1>1
<1> QED
  BY <1>2, <1>3

\* An opening reaches the locks with that number on the same board.
LEMMA OpensOwnBoard ==
    ASSUME LockTypes, NEW b \in Bins
    PROVE  OpenedBy(OpenLock(b)) = {c \in Bins : boardOf[c] = boardOf[b] /\ LockOf[c] = LockOf[b]}
<1> DEFINE n == BoardNumber[boardOf[b]]
           open == CreateMessage("OPEN_LOCK", n, LockOf[b])
           ask == CreateMessage("GET_STATUS", n, LockOf[b])
<1>1. DOMAIN OpenLock(b) = {1, 2} /\ OpenLock(b)[1] = open /\ OpenLock(b)[2] = ask
  <2>1. OpenLock(b) = CreateMessages("OPEN_LOCK", n, <<LockOf[b]>>)
                          \o CreateMessages("GET_STATUS", n, <<LockOf[b]>>)
    BY DEF OpenLock, Written
  <2>2. OpenLock(b) = <<open>> \o <<ask>>
    BY <2>1, OneMessage
  <2> QED
    BY <2>2, PairFacts
<1>2. /\ open.command = "OPEN_LOCK" /\ open.device = n /\ open.lock = ProtocolLockId(LockOf[b])
      /\ ask.command = "GET_STATUS"
  BY DEF CreateMessage
<1> HIDE DEF open, ask
<1>4. \A c \in Bins : (\E i \in DOMAIN OpenLock(b) :
                          /\ OpenLock(b)[i].command = "OPEN_LOCK"
                          /\ OpenLock(b)[i].device = BoardNumber[boardOf[c]]
                          /\ OpenLock(b)[i].lock + 1 = LockOf[c])
                      <=> n = BoardNumber[boardOf[c]] /\ LockOf[b] = LockOf[c]
  BY <1>1, <1>2, LockIdFacts
<1>5. \A c \in Bins : n = BoardNumber[boardOf[c]] <=> boardOf[c] = boardOf[b]
  BY LockAssumption DEF LockTypes
<1> QED
  BY <1>4, <1>5 DEF OpenedBy

\* What calls is on the same board, and it is the bin alone if no board is shared.
LEMMA OpenFacts ==
    ASSUME LockTypes, OwnBoards, NEW b \in Bins, LocksOpen(OpenedBy(OpenLock(b)))
    PROVE  /\ phys' \in [Bins -> {"open", "closed"}]
           /\ \A c \in Bins : boardOf[c] # boardOf[b] => phys'[c] = phys[c]
           /\ phys'[b] = "open"
BY OpensOwnBoard DEF LocksOpen, LockTypes

\* The frame of a board has the status of every lock where the code looks for it.
LEMMA FrameFacts ==
    ASSUME NEW lock \in 1..LockCount, NEW closed
    PROVE  /\ HasStatus(BoardFrame(closed), lock)
           /\ ReadsClosed(BoardFrame(closed), lock) <=> lock \in closed
<1> DEFINE i == lock - 1
<1>1. /\ LockCount \in Nat /\ lock \in Nat /\ lock >= 1 /\ lock <= LockCount
  BY ProtocolAssumption
<1>2. /\ i \div 8 \in Nat /\ i % 8 \in 0..7 /\ 8 * (i \div 8) + (i % 8) = i
      /\ i \div 8 <= (LockCount - 1) \div 8
  BY <1>1
<1>3. StatusByte(lock) = 4 + i \div 8 /\ StatusBit(lock) = i % 8
  BY DEF StatusByte, StatusBit
<1>4. StatusByte(lock) \in 0..(4 + (LockCount - 1) \div 8)
  BY <1>1, <1>2, <1>3
<1>5. BoardFrame(closed)[StatusByte(lock)] =
        {bit \in 0..7 : StatusByte(lock) >= 4 /\ 8 * (StatusByte(lock) - 4) + bit + 1 \in closed}
  BY <1>4 DEF BoardFrame
<1>6. StatusByte(lock) >= 4 /\ 8 * (StatusByte(lock) - 4) + StatusBit(lock) + 1 = lock
  BY <1>1, <1>2, <1>3
<1>7. HasStatus(BoardFrame(closed), lock)
  BY <1>4 DEF HasStatus, BoardFrame
<1> QED
  BY <1>2, <1>3, <1>5, <1>6, <1>7 DEF ReadsClosed

\* A board of one bin that is asked for its lock, and answers itself, says how it is.
LEMMA PollTells ==
    ASSUME LockTypes, NEW b \in Bins, \A c \in Bins : boardOf[c] = boardOf[b] => c = b,
           IsLockClosed(Response(BoardNumber[boardOf[b]], <<LockOf[b]>>,
                                 BoardReply(boardOf[b])).lockStatuses)
    PROVE  phys[b] = "closed"
<1> DEFINE k == boardOf[b]
           l == LockOf[b]
           reply == BoardReply(k)
           parsed == ParseResponse(BoardNumber[k], <<l>>, reply)
<1>1. Range(<<l>>) = {l} /\ <<l>> # <<>>
  BY DEF Range
<1>2. reply.valid /\ reply.device = BoardNumber[k] /\ reply.opened = {}
      /\ reply.bytes = BoardFrame(ClosedOn(k))
  BY DEF BoardReply
<1> HIDE DEF reply
<1>3. parsed.lockStatuses = [m \in {l} |-> IF m \in ClosedOn(k) THEN "CLOSED" ELSE "OPENED"]
  <2>1. l \in 1..LockCount
    BY LockIdFacts
  <2>2. {a \in AskedLocks(<<l>>) : HasStatus(reply.bytes, a)} = {l}
    BY <1>1, <1>2, <2>1, FrameFacts DEF AskedLocks
  <2>3. ReadsClosed(reply.bytes, l) <=> l \in ClosedOn(k)
    BY <1>2, <2>1, FrameFacts
  <2> QED
    BY <1>2, <2>2, <2>3 DEF ParseResponse
<1>4. Response(BoardNumber[k], <<l>>, reply).lockStatuses = FilterStatus(<<l>>, parsed.lockStatuses)
  BY DEF Response, ParseResponse
<1> HIDE DEF parsed
<1>5. FilterStatus(<<l>>, parsed.lockStatuses)
        = [m \in {l} |-> IF m \in ClosedOn(k) THEN "CLOSED" ELSE "OPENED"]
  BY <1>1, <1>3 DEF FilterStatus
<1>6. l \in ClosedOn(k)
  BY <1>4, <1>5 DEF IsLockClosed, reply
<1>7. PICK c \in Bins : boardOf[c] = k /\ phys[c] = "closed"
  BY <1>6 DEF ClosedOn
<1> QED
  BY <1>7
-----------------------------------------------------------------------------
(* The steps of BinService.open                                            *)

LEMMA InvFacts ==
    ASSUME LockInv, NEW b \in Bins
    PROVE  /\ LockTypes /\ OwnBoards /\ TroubleHolds /\ boardOf[b] \in Boards
           /\ opener[b] \in OpenerState /\ books[b] \in BinBooks /\ phys[b] \in {"open", "closed"}
           /\ monitor[boardOf[b]] \in MonitorState /\ closer[boardOf[b]] \in CloserState
           /\ BinHolds(b) /\ BoardHolds(boardOf[b])
BY DEF LockInv, LockTypes, TroubleHolds

\* A step that leaves boards, messages, bulk and late calls alone.
LEMMA QuietTrouble ==
    ASSUME TroubleHolds, Grows,
           \/ UNCHANGED <<lockPort, bulk, late, phys>>
           \/ UNCHANGED <<lockPort, bulk, late>> /\ BoardAnswers
    PROVE  TroubleHolds'
<1>1. OwnBoards'
  BY WithoutGrows DEF TroubleHolds, OwnBoards, Grows
<1> QED
  BY <1>1 DEF TroubleHolds, Grows, BoardAnswers

LEMMA QuietBoards ==
    ASSUME \A k \in Boards : BoardHolds(k), Grows, UNCHANGED <<monitor, closer, reports>>
    PROVE  \A k \in Boards : BoardHolds(k)'
BY DEF BoardHolds, Grows, ReportsOf

LEMMA AllHolds ==
    ASSUME LockInv, Grows, LockTypes', TroubleHolds', \A k \in Boards : BoardHolds(k)',
           NEW b \in Bins, \A c \in Bins : boardOf[c] # boardOf[b] => SameBin(c),
           Without({"shared board"})' => BinHolds(b)'
    PROVE  LockInv'
<1>1. \A c \in Bins : BinHolds(c)'
  BY OneBin DEF LockInv, TroubleHolds
<1> QED
  BY <1>1 DEF LockInv

LEMMA OpenBinInv ==
    ASSUME LockInv, NEW b \in Bins, OpenBin(b)
    PROVE  LockInv'
<1> DEFINE k == boardOf[b]
           new == [pc |-> "calling", loaded |-> books[b], tries |-> 0]
           Busy == b \in stops \/ Watched(b) \/ Reported(b)
<1>1. /\ opener[b].pc = "idle" /\ opener' = [opener EXCEPT ![b] = new]
      /\ calls < MaxCalls /\ calls' = calls + 1
      /\ UNCHANGED <<boardOf, admin, lockPort, bulk, phys, books, late, monitor, tracks, reports,
                     closer, reading, stops>>
  BY DEF OpenBin
<1>2. Grows /\ trouble' \subseteq Trouble /\ (Busy => ~Without(Own)')
  <2>1. IF Busy THEN Troubled("reopened") ELSE UNCHANGED trouble
    BY DEF OpenBin
  <2>2. "reopened" \in Trouble /\ "reopened" \in Own
    BY DEF Trouble, Own
  <2> QED
    BY <1>1, <2>1, <2>2, TroubledFacts, InvFacts DEF Grows, LockTypes
<1>3. new \in OpenerState /\ new.pc = "calling" /\ new.loaded = books[b]
  BY LockAssumption, InvFacts DEF OpenerState
<1> HIDE DEF new
<1>4. LockTypes' /\ opener'[b] = new
  BY <1>1, <1>2, <1>3, LockAssumption, InvFacts DEF LockTypes
<1>5. TroubleHolds' /\ \A j \in Boards : BoardHolds(j)'
  BY <1>1, <1>2, InvFacts, QuietTrouble, QuietBoards DEF LockInv
<1>6. \A c \in Bins : boardOf[c] # boardOf[b] => SameBin(c)
  BY <1>1, InvFacts DEF SameBin, ReportsOf, LockTypes
<1>7. BinHolds(b)'
  <2>1. \A kinds : Without(kinds)' => Without(kinds)
    BY <1>2, WithoutGrows
  <2>2. ASSUME ~Busy PROVE OneStage(b)'
    <3>1. ReportsOf(k) = {} /\ closer[k].pc = "idle"
      BY <2>2, InvFacts DEF Reported, ReportsOf, CloserState
    <3> QED
      BY <1>1, <1>3, <1>4, <2>2, <3>1 DEF OneStage, Calling, Watched, Reported, ReportsOf
  <2>3. StaysWatched(b) => StaysWatched(b)'
    BY <1>1, <1>3, <1>4 DEF StaysWatched, Watched, Opening
  <2>4. ToldTruly(b) => ToldTruly(b)'
    BY <1>1, <1>3, <1>4 DEF ToldTruly, Calling, Opening, ReportsOf
  <2>5. SoonBooked(b) => SoonBooked(b)'
    BY <1>1 DEF SoonBooked, Watched, Reported, ReportsOf
  <2> QED
    BY <1>2, <2>1, <2>2, <2>3, <2>4, <2>5, InvFacts DEF BinHolds
<1> QED
  BY <1>2, <1>4, <1>5, <1>6, <1>7, AllHolds

LEMMA KindParts ==
    /\ Without(Own) => Without({"shared board"})
    /\ Without(Unwatching) => Without({"shared board"})
    /\ Without(Misleading) => Without(Own)
    /\ Without(Unbooked) => Without(Own)
BY DEF Without, Own, Unwatching, Misleading, Unbooked

\* The troubles that end most of what is known.
LEMMA WorstKinds ==
    \A kind \in {"late", "refused"} :
        kind \in Trouble /\ kind \in Unwatching /\ kind \in Misleading /\ kind \in Unbooked
BY DEF Trouble, Unwatching, Misleading, Unbooked

LEMMA OpenSucceedsInv ==
    ASSUME LockInv, NEW b \in Bins, OpenSucceeds(b)
    PROVE  LockInv'
<1> DEFINE k == boardOf[b]
           new == [opener[b] EXCEPT !.pc = "tracking"]
<1>1. /\ opener[b].pc = "calling" /\ BoardAnswers
      /\ LocksOpen(OpenedBy(OpenLock(b))) \/ phys' = phys
      /\ opener' = [opener EXCEPT ![b] = new]
      /\ \/ reading' = reading \cup {b} /\ UNCHANGED trouble
         \/ UNCHANGED reading /\ Troubled("unread")
      /\ UNCHANGED <<boardOf, admin, lockPort, bulk, books, late, monitor, tracks, reports,
                     closer, stops, calls>>
  BY DEF OpenSucceeds
<1>2. /\ Grows /\ trouble' \subseteq Trouble /\ reading \subseteq reading'
      /\ b \in reading' \/ ~Without({"unread"})'
  <2>1. "unread" \in Trouble
    BY DEF Trouble
  <2> QED
    BY <1>1, <2>1, TroubledFacts, InvFacts DEF Grows, LockTypes
<1>3. new \in OpenerState /\ new.pc = "tracking" /\ new.loaded = opener[b].loaded
  BY InvFacts DEF OpenerState
<1> HIDE DEF new
<1>4. LockTypes' /\ opener'[b] = new
  BY <1>1, <1>2, <1>3, InvFacts, OpenFacts DEF LockTypes
<1>5. TroubleHolds' /\ \A j \in Boards : BoardHolds(j)'
  BY <1>1, <1>2, InvFacts, QuietTrouble, QuietBoards DEF LockInv
<1>6. \A c \in Bins : boardOf[c] # boardOf[b] => SameBin(c)
  BY <1>1, <1>2, InvFacts, OpenFacts DEF SameBin, ReportsOf, LockTypes
<1>7. BinHolds(b)'
  <2>1. \A kinds : Without(kinds)' => Without(kinds)
    BY <1>2, WithoutGrows
  <2>2. OneStage(b) => OneStage(b)'
    BY <1>1, <1>2, <1>3, <1>4 DEF OneStage, Calling, Watched, Reported, ReportsOf
  <2>3. StaysWatched(b)'
    BY <1>1, <1>3, <1>4 DEF StaysWatched, Watched, Opening
  <2>4. OneStage(b) /\ ToldTruly(b) => ToldTruly(b)'
    <3> SUFFICES ASSUME OneStage(b), ToldTruly(b) PROVE ToldTruly(b)'
      OBVIOUS
    <3>1. monitor[k].bin # b /\ ReportsOf(k) = {} /\ closer[k].pc # "loaded"
      BY <1>1 DEF OneStage, Calling, Watched, Reported, ReportsOf
    <3> QED
      BY <1>1, <1>3, <1>4, <3>1 DEF ToldTruly, Calling, Opening, ReportsOf
  <2>5. SoonBooked(b) => SoonBooked(b)'
    BY <1>1 DEF SoonBooked, Watched, Reported, ReportsOf
  <2> QED
    BY <2>1, <2>2, <2>3, <2>4, <2>5, KindParts, InvFacts DEF BinHolds
<1> QED
  BY <1>2, <1>4, <1>5, <1>6, <1>7, AllHolds

LEMMA OpenRefusedInv ==
    ASSUME LockInv, NEW b \in Bins, OpenRefused(b)
    PROVE  LockInv'
<1> DEFINE k == boardOf[b]
           counted == Incremented(opener[b].loaded)
           saved == IF Exceeded(counted) THEN MarkFailed(counted) ELSE counted
<1>1. /\ opener[b].pc = "calling" /\ BoardAnswers /\ Troubled("refused")
      /\ LocksOpen(OpenedBy(OpenLock(b))) \/ phys' = phys
      /\ books' = [books EXCEPT ![b] = saved] /\ opener' = [opener EXCEPT ![b] = NotOpening]
      /\ UNCHANGED <<boardOf, admin, lockPort, bulk, late, monitor, tracks, reports, closer,
                     reading, stops, calls>>
  BY DEF OpenRefused
<1>2. /\ Grows /\ trouble' \subseteq Trouble
      /\ ~Without(Unwatching)' /\ ~Without(Misleading)' /\ ~Without(Unbooked)'
  BY <1>1, TroubledFacts, WorstKinds, InvFacts DEF Grows
<1>3. saved \in BinBooks
  <2>1. counted \in BinBooks
    BY InvFacts DEF Incremented, Exceeded, LockMaxAttempts, OpenerState, BinBooks
  <2> QED
    BY <2>1 DEF MarkFailed, BinBooks
<1>4. NotOpening \in OpenerState /\ NotOpening.pc = "idle"
  BY LockAssumption DEF NotOpening, OpenerState, NewBooks, BinBooks, LockMaxAttempts
<1> HIDE DEF saved, counted
<1>5. LockTypes' /\ opener'[b] = NotOpening
  BY <1>1, <1>2, <1>3, <1>4, InvFacts, OpenFacts DEF LockTypes
<1>6. TroubleHolds' /\ \A j \in Boards : BoardHolds(j)'
  BY <1>1, <1>2, InvFacts, QuietTrouble, QuietBoards DEF LockInv
<1>7. \A c \in Bins : boardOf[c] # boardOf[b] => SameBin(c)
  BY <1>1, InvFacts, OpenFacts DEF SameBin, ReportsOf, LockTypes
<1>8. OneStage(b) => OneStage(b)'
  BY <1>1, <1>4, <1>5 DEF OneStage, Calling, Watched, Reported, ReportsOf
<1>9. BinHolds(b)'
  BY <1>2, <1>8, WithoutGrows, InvFacts DEF BinHolds
<1> QED
  BY <1>2, <1>5, <1>6, <1>7, <1>9, AllHolds

LEMMA OpenTimesOutInv ==
    ASSUME LockInv, NEW b \in Bins, OpenTimesOut(b)
    PROVE  LockInv'
<1> DEFINE k == boardOf[b]
           new == IF opener[b].tries < MaxRetries
                  THEN [opener[b] EXCEPT !.tries = @ + 1] ELSE NotOpening
<1>0. opener' = [opener EXCEPT ![b] = new]
  <2>1. CASE opener[b].tries < MaxRetries
    BY <2>1 DEF OpenTimesOut
  <2>2. CASE ~(opener[b].tries < MaxRetries)
    BY <2>2 DEF OpenTimesOut
  <2> QED
    BY <2>1, <2>2
<1> HIDE DEF new
<1>1. /\ opener[b].pc = "calling" /\ opener' = [opener EXCEPT ![b] = new]
      /\ UNCHANGED <<boardOf, admin, lockPort, bulk, phys, books, monitor, tracks, reports,
                     closer, reading, stops, calls>>
  BY <1>0 DEF OpenTimesOut
<1>2. \/ BoardAnswers /\ Troubled("late") /\ late' = late \cup {b}
      \/ ~BoardAnswers /\ UNCHANGED <<late, trouble>>
  BY DEF OpenTimesOut
<1>3. Grows /\ trouble' \subseteq Trouble /\ late' \subseteq Bins
  BY <1>1, <1>2, TroubledFacts, WorstKinds, InvFacts DEF Grows, LockTypes
<1>4. new \in OpenerState /\ (new.pc = "idle" \/ (new.pc = "calling" /\ new.loaded = opener[b].loaded))
  <2>1. NotOpening \in OpenerState /\ NotOpening.pc = "idle"
    BY LockAssumption DEF NotOpening, OpenerState, NewBooks, BinBooks, LockMaxAttempts
  <2>2. opener[b].tries < MaxRetries => [opener[b] EXCEPT !.tries = @ + 1] \in OpenerState
    BY LockAssumption, InvFacts DEF OpenerState
  <2> QED
    BY <1>1, <2>1, <2>2, InvFacts DEF OpenerState, new
<1>5. LockTypes' /\ opener'[b] = new
  BY <1>1, <1>3, <1>4, InvFacts DEF LockTypes
<1>6. TroubleHolds'
  <2>1. OwnBoards'
    BY <1>3, WithoutGrows, InvFacts DEF OwnBoards, Grows
  <2>2. late' # {} => "late" \in trouble'
    BY <1>2, InvFacts DEF TroubleHolds, Troubled
  <2> QED
    BY <1>1, <1>2, <1>3, <2>1, <2>2, InvFacts DEF TroubleHolds, Grows, BoardAnswers
<1>7. \A j \in Boards : BoardHolds(j)'
  BY <1>1, <1>3, QuietBoards DEF LockInv
<1>8. \A c \in Bins : boardOf[c] # boardOf[b] => SameBin(c)
  BY <1>1, InvFacts DEF SameBin, ReportsOf, LockTypes
<1>9. OneStage(b) => OneStage(b)'
  BY <1>1, <1>4, <1>5 DEF OneStage, Calling, Watched, Reported, ReportsOf
<1>10. BinHolds(b)'
  <2>1. CASE Troubled("late")
    BY <1>3, <1>9, <2>1, TroubledFacts, WorstKinds, WithoutGrows, InvFacts DEF BinHolds
  <2>2. CASE ~BoardAnswers
    <3>1. phys'[b] = "closed"
      BY <1>1, <2>2, InvFacts DEF TroubleHolds
    <3>2. StaysWatched(b)'
      BY <3>1 DEF StaysWatched
    <3>3. ToldTruly(b) => ToldTruly(b)'
      BY <1>1, <1>4, <1>5, <3>1 DEF ToldTruly, Calling
    <3>4. SoonBooked(b) => SoonBooked(b)'
      BY <1>1 DEF SoonBooked, Watched, Reported, ReportsOf
    <3> QED
      BY <1>3, <1>9, <3>2, <3>3, <3>4, WithoutGrows, InvFacts DEF BinHolds
  <2> QED
    BY <1>2, <2>1, <2>2
<1> QED
  BY <1>3, <1>5, <1>6, <1>7, <1>8, <1>10, AllHolds

LEMMA LateOpenInv ==
    ASSUME LockInv, NEW b \in Bins, LateOpen(b)
    PROVE  LockInv'
<1>1. /\ b \in late /\ late' = late \ {b} /\ LocksOpen(OpenedBy(OpenLock(b)))
      /\ UNCHANGED <<boardOf, admin, lockPort, bulk, books, opener, monitor, tracks, reports,
                     closer, reading, stops, calls, trouble>>
  BY DEF LateOpen
<1>2. Grows /\ BoardAnswers /\ "late" \in trouble'
  BY <1>1, InvFacts DEF Grows, TroubleHolds
<1>3. LockTypes'
  BY <1>1, InvFacts, OpenFacts DEF LockTypes
<1>4. TroubleHolds'
  <2>1. OwnBoards'
    BY <1>2, WithoutGrows, InvFacts DEF OwnBoards, Grows
  <2> QED
    BY <1>1, <1>2, <2>1, InvFacts DEF TroubleHolds, BoardAnswers
<1>5. \A j \in Boards : BoardHolds(j)'
  BY <1>1, <1>2, QuietBoards DEF LockInv
<1>6. \A c \in Bins : boardOf[c] # boardOf[b] => SameBin(c)
  BY <1>1, InvFacts, OpenFacts DEF SameBin, ReportsOf
<1>7. OneStage(b) => OneStage(b)'
  BY <1>2, WithoutGrows, <1>1 DEF OneStage, Calling, Watched, Reported, ReportsOf
<1>8. ~Without(Unwatching)' /\ ~Without(Misleading)' /\ ~Without(Unbooked)'
  BY <1>2, WorstKinds DEF Without
<1>9. BinHolds(b)'
  BY <1>2, <1>7, <1>8, WithoutGrows, InvFacts DEF BinHolds
<1> QED
  BY <1>2, <1>3, <1>4, <1>5, <1>6, <1>9, AllHolds

LEMMA AskForTrackingInv ==
    ASSUME LockInv, NEW b \in Bins, AskForTracking(b)
    PROVE  LockInv'
<1> DEFINE k == boardOf[b]
           new == [opener[b] EXCEPT !.pc = "saving"]
<1>1. /\ opener[b].pc = "tracking" /\ opener' = [opener EXCEPT ![b] = new]
      /\ UNCHANGED <<boardOf, admin, lockPort, bulk, phys, books, late, monitor, reports, closer,
                     reading, stops, calls>>
  BY DEF AskForTracking
<1>2. \/ tracks' = tracks \cup {b} /\ trouble' = trouble
      \/ Troubled("lost") /\ tracks' = tracks
  BY DEF AskForTracking
<1>3. "lost" \in Trouble /\ "lost" \in Unwatching /\ "lost" \in Unbooked
  BY DEF Trouble, Unwatching, Unbooked
<1>4. /\ Grows /\ trouble' \subseteq Trouble /\ tracks' \subseteq Bins
      /\ b \in tracks' \/ (~Without(Unwatching)' /\ ~Without(Unbooked)')
  BY <1>1, <1>2, <1>3, TroubledFacts, InvFacts DEF Grows, LockTypes
<1>5. new \in OpenerState /\ new.pc = "saving" /\ new.loaded = opener[b].loaded
  BY InvFacts DEF OpenerState
<1> HIDE DEF new
<1>6. LockTypes' /\ opener'[b] = new
  BY <1>1, <1>4, <1>5, InvFacts DEF LockTypes
<1>7. TroubleHolds' /\ \A j \in Boards : BoardHolds(j)'
  BY <1>1, <1>4, InvFacts, QuietTrouble, QuietBoards DEF LockInv
<1>8. \A c \in Bins : boardOf[c] # boardOf[b] => SameBin(c)
  BY <1>1, <1>2, InvFacts DEF SameBin, ReportsOf, LockTypes
<1>9. BinHolds(b)'
  <2>1. \A kinds : Without(kinds)' => Without(kinds)
    BY <1>4, WithoutGrows
  <2>2. OneStage(b) => OneStage(b)'
    <3> SUFFICES ASSUME OneStage(b) PROVE OneStage(b)'
      OBVIOUS
    <3>1. ~Watched(b) /\ ~Reported(b) /\ b \notin stops /\ (Without({"unread"}) => b \in reading)
      BY <1>1 DEF OneStage, Calling
    <3>2. ReportsOf(k) = {} /\ closer[k].pc = "idle"
      BY <3>1, InvFacts DEF Reported, ReportsOf, CloserState
    <3> QED
      BY <2>1, <1>1, <1>5, <1>6, <3>1, <3>2 DEF OneStage, Calling, Watched, Reported, ReportsOf
  <2>3. b \in tracks' => StaysWatched(b)'
    BY <1>1, <1>5, <1>6 DEF StaysWatched, Watched, Opening
  <2>4. ToldTruly(b) => ToldTruly(b)'
    BY <1>1, <1>5, <1>6 DEF ToldTruly, Calling, Opening, ReportsOf
  <2>5. b \in tracks' /\ SoonBooked(b) => SoonBooked(b)'
    BY <1>1 DEF SoonBooked, Watched, Reported, ReportsOf
  <2> QED
    BY <1>4, <2>1, <2>2, <2>3, <2>4, <2>5, InvFacts DEF BinHolds
<1> QED
  BY <1>4, <1>6, <1>7, <1>8, <1>9, AllHolds

\* A state of a bin keeps its type, and says what was reported.
LEMMA ReportingFacts ==
    ASSUME NEW s \in BinBooks, NEW isClosed \in BOOLEAN
    PROVE  Reporting(s, isClosed) \in BinBooks /\ Reporting(s, isClosed).isLocked = isClosed
BY DEF Reporting, BinBooks

LEMMA NewBooksFacts ==
    /\ NewBooks \in BinBooks
    /\ [NewBooks EXCEPT !.isLocked = FALSE] \in BinBooks
    /\ ~[NewBooks EXCEPT !.isLocked = FALSE].isLocked
<1>1. NewBooks \in BinBooks
  BY DEF NewBooks, BinBooks, LockMaxAttempts
<1>2. FALSE \in BOOLEAN
  OBVIOUS
<1>3. [NewBooks EXCEPT !.isLocked = FALSE] = Reporting(NewBooks, FALSE)
  BY Zenon DEF Reporting
<1>4. Reporting(NewBooks, FALSE) \in BinBooks /\ Reporting(NewBooks, FALSE).isLocked = FALSE
  BY <1>1, <1>2, ReportingFacts, Zenon
<1> QED
  BY <1>1, <1>3, <1>4, Zenon

LEMMA SaveOpenedInv ==
    ASSUME LockInv, NEW b \in Bins, SaveOpened(b)
    PROVE  LockInv'
<1> DEFINE k == boardOf[b]
           new == [NewBooks EXCEPT !.isLocked = FALSE]
           Missed == /\ k \notin {boardOf[c] : c \in tracks}
                     /\ monitor[k].bin # b /\ "lost" \notin trouble
<1>1. /\ opener[b].pc = "saving" /\ opener' = [opener EXCEPT ![b] = NotOpening]
      /\ books' = IF new = opener[b].loaded THEN books ELSE [books EXCEPT ![b] = new]
      /\ IF Missed THEN Troubled("overtaken") ELSE UNCHANGED trouble
      /\ UNCHANGED <<boardOf, admin, lockPort, bulk, phys, late, monitor, tracks, reports,
                     closer, reading, stops, calls>>
  BY DEF SaveOpened
<1>2. "overtaken" \in Trouble /\ "overtaken" \in Unbooked /\ "lost" \in Unbooked
  BY DEF Trouble, Unbooked
<1>3. Grows /\ trouble' \subseteq Trouble /\ (Missed => ~Without(Unbooked)')
  BY <1>1, <1>2, TroubledFacts, InvFacts DEF Grows, LockTypes
<1>4. new \in BinBooks /\ ~new.isLocked
  BY NewBooksFacts, Zenon
<1>5. NotOpening \in OpenerState /\ NotOpening.pc = "idle"
  BY LockAssumption DEF NotOpening, OpenerState, NewBooks, BinBooks, LockMaxAttempts
<1> HIDE DEF new
<1>6. /\ LockTypes' /\ opener'[b] = NotOpening
      /\ books'[b] = new \/ (books'[b] = books[b] /\ opener[b].loaded = new)
  BY <1>1, <1>3, <1>4, <1>5, InvFacts DEF LockTypes
<1>7. TroubleHolds' /\ \A j \in Boards : BoardHolds(j)'
  BY <1>1, <1>3, InvFacts, QuietTrouble, QuietBoards DEF LockInv
<1>8. \A c \in Bins : boardOf[c] # boardOf[b] => SameBin(c)
  BY <1>1, InvFacts DEF SameBin, ReportsOf, LockTypes
<1>9. ASSUME Without({"shared board"})' PROVE BinHolds(b)'
  <2>1. \A kinds : Without(kinds)' => Without(kinds)
    BY <1>3, WithoutGrows
  <2>2. OneStage(b) => OneStage(b)'
    BY <2>1, <1>1, <1>5, <1>6 DEF OneStage, Calling, Watched, Reported, ReportsOf
  <2>3. StaysWatched(b) => StaysWatched(b)'
    BY <1>1, <1>5, <1>6 DEF StaysWatched, Watched, Opening
  <2>4. ToldTruly(b) => ToldTruly(b)'
    BY <1>1, <1>4, <1>5, <1>6 DEF ToldTruly, Calling, Opening, ReportsOf
  <2>5. ASSUME Without(Unbooked)', OneStage(b), SoonBooked(b) PROVE SoonBooked(b)'
    <3>1. ~Missed /\ "lost" \notin trouble
      BY <1>2, <1>3, <2>1, <2>5 DEF Without
    <3>2. b \in tracks \/ monitor[k].bin = b
      <4>1. \A c \in Bins : boardOf[c] = k => c = b
        BY <1>9, <2>1, InvFacts DEF OwnBoards
      <4> QED
        BY <3>1, <4>1, InvFacts DEF LockTypes
    <3>3. Watched(b)' /\ closer[k].pc # "loaded"
      BY <1>1, <2>5, <3>2 DEF Watched, Reported, OneStage
    <3> QED
      BY <1>1, <2>5, <3>3 DEF SoonBooked, ReportsOf
  <2> QED
    BY <2>1, <2>2, <2>3, <2>4, <2>5, KindParts, InvFacts DEF BinHolds
<1> QED
  BY <1>3, <1>6, <1>7, <1>8, <1>9, AllHolds

LEMMA MarkFacts ==
    ASSUME NEW s \in BinBooks
    PROVE  /\ MarkFailed(s) \in BinBooks /\ MarkFailed(s).isLocked = s.isLocked
           /\ MarkAlive(s) \in BinBooks /\ MarkAlive(s).isLocked = s.isLocked
<1>1. MarkFailed(s) \in BinBooks /\ MarkFailed(s).isLocked = s.isLocked
  BY DEF MarkFailed, BinBooks
<1>2. 0 \in 0..LockMaxAttempts
  BY DEF LockMaxAttempts
<1>3. MarkAlive(s) \in BinBooks
  BY <1>2 DEF MarkAlive, BinBooks
<1>4. MarkAlive(s).isLocked = s.isLocked
  BY <1>2 DEF MarkAlive, BinBooks
<1> QED
  BY <1>1, <1>3, <1>4, Zenon

\* The copies that activate and deactivate hold are no part of what is known.
LEMMA LoadForSetInv ==
    ASSUME LockInv, NEW b \in Bins, LoadForSet(b)
    PROVE  LockInv'
<1>1. PICK pc \in {"activate", "deactivate"} :
          admin' = [admin EXCEPT ![b] = [pc |-> pc, loaded |-> books[b]]]
  BY DEF LoadForSet
<1>2. /\ calls < MaxCalls /\ calls' = calls + 1
      /\ UNCHANGED <<boardOf, lockPort, bulk, phys, books, opener, late, monitor, tracks,
                     reports, closer, reading, stops, trouble>>
  BY DEF LoadForSet
<1>3. Grows
  BY <1>2 DEF Grows
<1>4. [pc |-> pc, loaded |-> books[b]] \in AdminState
  BY InvFacts DEF AdminState
<1>5. LockTypes'
  BY <1>1, <1>2, <1>4, LockAssumption, InvFacts DEF LockTypes
<1>6. TroubleHolds' /\ \A j \in Boards : BoardHolds(j)'
  BY <1>2, <1>3, InvFacts, QuietTrouble, QuietBoards DEF LockInv
<1>7. \A c \in Bins : SameBin(c)
  BY <1>2 DEF SameBin, ReportsOf
<1>8. BinHolds(b)'
  BY <1>3, <1>7, SameHolds, InvFacts
<1> QED
  BY <1>3, <1>5, <1>6, <1>7, <1>8, AllHolds

\* activate and deactivate leave the lock of the books alone, or the trouble is on record.
LEMMA SaveSetInv ==
    ASSUME LockInv, NEW b \in Bins, SaveSet(b)
    PROVE  LockInv'
<1> DEFINE new == IF admin[b].pc = "activate" THEN MarkAlive(admin[b].loaded)
                                              ELSE MarkFailed(admin[b].loaded)
           Crossed == admin[b].loaded.isLocked # books[b].isLocked
<1>1. /\ books' = [books EXCEPT ![b] = new] /\ admin' = [admin EXCEPT ![b] = NotSetting]
      /\ IF Crossed THEN Troubled("crossed") ELSE UNCHANGED trouble
      /\ UNCHANGED <<boardOf, lockPort, bulk, phys, opener, late, monitor, tracks,
                     reports, closer, reading, stops, calls>>
  BY DEF SaveSet
<1>2. "crossed" \in Trouble /\ "crossed" \in Misleading /\ "crossed" \in Unbooked
  BY DEF Trouble, Misleading, Unbooked
<1>3. /\ Grows /\ trouble' \subseteq Trouble
      /\ Crossed => ~Without(Misleading)' /\ ~Without(Unbooked)'
  BY <1>1, <1>2, TroubledFacts, InvFacts DEF Grows, LockTypes
<1>4. admin[b].loaded \in BinBooks /\ NotSetting \in AdminState
  BY NewBooksFacts, InvFacts DEF LockTypes, AdminState, NotSetting
<1>5. new \in BinBooks /\ (~Crossed => new.isLocked = books[b].isLocked)
  BY <1>4, MarkFacts
<1> HIDE DEF new, Crossed
<1>6. LockTypes' /\ books'[b] = new
  BY <1>1, <1>3, <1>4, <1>5, InvFacts DEF LockTypes
<1>7. TroubleHolds' /\ \A j \in Boards : BoardHolds(j)'
  BY <1>1, <1>3, InvFacts, QuietTrouble, QuietBoards DEF LockInv
<1>8. \A c \in Bins : boardOf[c] # boardOf[b] => SameBin(c)
  BY <1>1, InvFacts DEF SameBin, ReportsOf, LockTypes
<1>9. BinHolds(b)'
  <2>1. \A kinds : Without(kinds)' => Without(kinds)
    BY <1>3, WithoutGrows
  <2>2. OneStage(b) => OneStage(b)'
    BY <1>1, <2>1 DEF OneStage, Calling, Watched, Reported, ReportsOf
  <2>3. StaysWatched(b) => StaysWatched(b)'
    BY <1>1 DEF StaysWatched, Watched, Opening
  <2>4. ~Crossed /\ ToldTruly(b) => ToldTruly(b)'
    BY <1>1, <1>5, <1>6 DEF ToldTruly, Calling, Opening, ReportsOf
  <2>5. ~Crossed /\ SoonBooked(b) => SoonBooked(b)'
    BY <1>1, <1>5, <1>6 DEF SoonBooked, Watched, Reported, ReportsOf
  <2> QED
    BY <1>3, <2>1, <2>2, <2>3, <2>4, <2>5, InvFacts DEF BinHolds
<1> QED
  BY <1>3, <1>6, <1>7, <1>8, <1>9, AllHolds

LEMMA ShutDrawerInv ==
    ASSUME LockInv, NEW b \in Bins, ShutDrawer(b)
    PROVE  LockInv'
<1>1. /\ phys' = [phys EXCEPT ![b] = "closed"]
      /\ UNCHANGED <<boardOf, admin, lockPort, bulk, books, opener, late, monitor, tracks,
                     reports, closer, reading, stops, calls, trouble>>
  BY DEF ShutDrawer
<1>2. Grows
  BY <1>1 DEF Grows
<1>3. LockTypes' /\ phys'[b] = "closed"
  BY <1>1, InvFacts DEF LockTypes
<1>4. TroubleHolds'
  <2>1. OwnBoards'
    BY <1>2, WithoutGrows, InvFacts DEF OwnBoards, Grows
  <2>2. ~BoardAnswers => \A c \in Bins : phys'[c] = "closed"
    BY <1>1, InvFacts DEF TroubleHolds, LockTypes
  <2> QED
    BY <1>1, <1>2, <2>1, <2>2, InvFacts DEF TroubleHolds, BoardAnswers
<1>5. \A j \in Boards : BoardHolds(j)'
  BY <1>1, <1>2, QuietBoards DEF LockInv
<1>6. \A c \in Bins : boardOf[c] # boardOf[b] => SameBin(c)
  BY <1>1, InvFacts DEF SameBin, ReportsOf, LockTypes
<1>7. BinHolds(b)'
  <2>1. OneStage(b) => OneStage(b)'
    BY <1>2, WithoutGrows, <1>1 DEF OneStage, Calling, Watched, Reported, ReportsOf
  <2>2. StaysWatched(b)'
    BY <1>3 DEF StaysWatched
  <2>3. ToldTruly(b) => ToldTruly(b)'
    BY <1>1, <1>3 DEF ToldTruly, Calling
  <2>4. SoonBooked(b) => SoonBooked(b)'
    BY <1>1 DEF SoonBooked, Watched, Reported, ReportsOf
  <2> QED
    BY <1>2, <2>1, <2>2, <2>3, <2>4, WithoutGrows, InvFacts DEF BinHolds
<1> QED
  BY <1>2, <1>3, <1>4, <1>5, <1>6, <1>7, AllHolds

LEMMA StopReadingDueInv ==
    ASSUME LockInv, NEW b \in Bins, StopReadingDue(b)
    PROVE  LockInv'
<1>1. /\ b \in stops /\ stops' = stops \ {b} /\ reading' = reading \ {b}
      /\ UNCHANGED <<boardOf, admin, lockPort, bulk, phys, books, opener, late, monitor, tracks,
                     reports, closer, calls, trouble>>
  BY DEF StopReadingDue
<1>2. Grows
  BY <1>1 DEF Grows
<1>3. LockTypes'
  BY <1>1, InvFacts DEF LockTypes
<1>4. TroubleHolds' /\ \A j \in Boards : BoardHolds(j)'
  BY <1>1, <1>2, InvFacts, QuietTrouble, QuietBoards DEF LockInv
<1>5. \A c \in Bins : boardOf[c] # boardOf[b] => SameBin(c)
  BY <1>1, InvFacts DEF SameBin, ReportsOf, LockTypes
<1>6. BinHolds(b)'
  <2>1. OneStage(b) => OneStage(b)'
    BY <1>1 DEF OneStage, Calling, Watched, Reported, ReportsOf
  <2>2. StaysWatched(b) => StaysWatched(b)'
    BY <1>1 DEF StaysWatched, Watched, Opening
  <2>3. ToldTruly(b) => ToldTruly(b)'
    BY <1>1 DEF ToldTruly, Calling, Opening, ReportsOf
  <2>4. SoonBooked(b) => SoonBooked(b)'
    BY <1>1 DEF SoonBooked, Watched, Reported, ReportsOf
  <2> QED
    BY <1>2, <2>1, <2>2, <2>3, <2>4, WithoutGrows, InvFacts DEF BinHolds
<1> QED
  BY <1>2, <1>3, <1>4, <1>5, <1>6, AllHolds
-----------------------------------------------------------------------------
(* The bridge                                                              *)

LEMMA TrackInv ==
    ASSUME LockInv, NEW b \in Bins, Track(b)
    PROVE  LockInv'
<1> DEFINE k == boardOf[b]
           new == [bin |-> b, seen |-> "undefined"]
<1>1. /\ b \in tracks /\ tracks' = tracks \ {b} /\ monitor' = [monitor EXCEPT ![k] = new]
      /\ UNCHANGED <<boardOf, admin, lockPort, bulk, phys, books, opener, late, reports, closer,
                     reading, stops, calls, trouble>>
  BY DEF Track
<1>2. Grows
  BY <1>1 DEF Grows
<1>3. new \in MonitorState /\ new.bin = b /\ new.seen = "undefined"
  BY DEF MonitorState, LockStatus
<1> HIDE DEF new
<1>4. LockTypes' /\ monitor'[k] = new
  BY <1>1, <1>3, InvFacts DEF LockTypes
<1>5. TroubleHolds'
  BY <1>1, <1>2, InvFacts, QuietTrouble
<1>6. ASSUME NEW j \in Boards PROVE BoardHolds(j)'
  <2>1. CASE j = k
    BY <1>1, <1>3, <1>4, <2>1, InvFacts DEF BoardHolds, ReportsOf
  <2>2. CASE j # k
    <3>1. monitor'[j] = monitor[j] /\ BoardHolds(j)
      BY <1>1, <2>2, InvFacts DEF LockInv, LockTypes
    <3> QED
      BY <1>1, <3>1 DEF BoardHolds, ReportsOf
  <2> QED
    BY <2>1, <2>2
<1>7. \A c \in Bins : boardOf[c] # boardOf[b] => SameBin(c)
  BY <1>1, InvFacts DEF SameBin, ReportsOf, LockTypes
<1>8. BinHolds(b)'
  <2>1. Watched(b) /\ Watched(b)'
    BY <1>1, <1>3, <1>4 DEF Watched
  <2>2. OneStage(b) => OneStage(b)'
    BY <1>1, <1>2, <1>3, <1>4, <2>1, WithoutGrows DEF OneStage, Calling, Reported, ReportsOf
  <2>3. StaysWatched(b) => StaysWatched(b)'
    BY <1>1, <1>3, <1>4, <2>1 DEF StaysWatched, Opening
  <2>4. ToldTruly(b) => ToldTruly(b)'
    BY <1>1, <1>3, <1>4 DEF ToldTruly, Calling, Opening, ReportsOf
  <2>5. SoonBooked(b) => SoonBooked(b)'
    BY <1>1, <2>1 DEF SoonBooked, ReportsOf
  <2> QED
    BY <1>2, <2>2, <2>3, <2>4, <2>5, WithoutGrows, InvFacts DEF BinHolds
<1> QED
  BY <1>2, <1>4, <1>5, <1>6, <1>7, <1>8, AllHolds

LEMMA PollLockInv ==
    ASSUME LockInv, NEW k \in Boards, PollLock(k)
    PROVE  LockInv'
<1>0. monitor[k] \in MonitorState /\ BoardHolds(k) /\ monitor[k].bin # NoBin
  BY DEF LockInv, LockTypes, PollLock
<1>b. PICK b \in Bins : b = monitor[k].bin /\ boardOf[b] = k
  BY <1>0 DEF BoardHolds, MonitorState
<1> DEFINE Says(reply) == IF IsLockClosed(Response(BoardNumber[k], <<LockOf[b]>>, reply).lockStatuses)
                          THEN "CLOSED" ELSE "OPENED"
<1>1. PICK reply \in {BoardReply(j) : j \in Boards} \cup {StrangeReply} :
        /\ IF reply # BoardReply(k) THEN Troubled("garbled") ELSE UNCHANGED trouble
        /\ monitor' = [monitor EXCEPT ![k].seen = Says(reply)]
  BY <1>b DEF PollLock
<1> DEFINE new == [monitor[k] EXCEPT !.seen = Says(reply)]
<1>2. /\ BoardAnswers /\ monitor' = [monitor EXCEPT ![k] = new]
      /\ UNCHANGED <<boardOf, admin, lockPort, bulk, phys, books, opener, late, tracks, reports, closer,
                     reading, stops, calls>>
  BY <1>1 DEF PollLock
<1>5. "garbled" \in Trouble /\ "garbled" \in Unwatching /\ "garbled" \in Misleading
  BY DEF Trouble, Unwatching, Misleading
<1>6. /\ Grows /\ trouble' \subseteq Trouble
      /\ reply = BoardReply(k) \/ (~Without(Unwatching)' /\ ~Without(Misleading)')
  BY <1>1, <1>2, <1>b, <1>5, TroubledFacts, InvFacts DEF Grows, LockTypes
<1>7. new \in MonitorState /\ new.bin = b /\ new.seen = Says(reply)
  BY <1>0, <1>b DEF MonitorState, LockStatus
<1>8. Without({"shared board"})' /\ reply = BoardReply(k) /\ Says(reply) = "CLOSED" =>
        phys[b] = "closed"
  BY <1>b, <1>6, WithoutGrows, PollTells, InvFacts DEF OwnBoards
<1> HIDE DEF new
<1>9. LockTypes' /\ monitor'[k] = new
  BY <1>2, <1>b, <1>6, <1>7, InvFacts DEF LockTypes
<1>10. TroubleHolds'
  BY <1>2, <1>b, <1>6, InvFacts, QuietTrouble
<1>11. ASSUME NEW j \in Boards PROVE BoardHolds(j)'
  <2>1. CASE j = k
    BY <1>2, <1>0, <1>b, <1>7, <1>9, <2>1 DEF BoardHolds, ReportsOf
  <2>2. CASE j # k
    <3>1. monitor'[j] = monitor[j] /\ BoardHolds(j)
      BY <1>2, <1>b, <2>2, InvFacts DEF LockInv, LockTypes
    <3> QED
      BY <1>2, <3>1 DEF BoardHolds, ReportsOf
  <2> QED
    BY <2>1, <2>2
<1>12. \A c \in Bins : boardOf[c] # boardOf[b] => SameBin(c)
  BY <1>2, <1>b, InvFacts DEF SameBin, ReportsOf, LockTypes
<1>13. ASSUME Without({"shared board"})' PROVE BinHolds(b)'
  <2>1. monitor[k].bin = b /\ monitor'[k].bin = b
    BY <1>b, <1>7, <1>9
  <2>2. OneStage(b) => OneStage(b)'
    BY <1>6, WithoutGrows, <1>2, <1>b, <2>1 DEF OneStage, Calling, Watched, Reported, ReportsOf
  <2>3. reply = BoardReply(k) /\ StaysWatched(b) => StaysWatched(b)'
    BY <1>2, <1>b, <1>7, <1>8, <1>9, <1>13, <2>1 DEF StaysWatched, Watched, Opening
  <2>4. reply = BoardReply(k) /\ ToldTruly(b) => ToldTruly(b)'
    BY <1>2, <1>b, <1>7, <1>8, <1>9, <1>13, <2>1 DEF ToldTruly, Calling, Opening, ReportsOf
  <2>5. SoonBooked(b) => SoonBooked(b)'
    BY <1>2, <1>b, <2>1 DEF SoonBooked, Watched, Reported, ReportsOf
  <2> QED
    BY <1>b, <1>6, <2>2, <2>3, <2>4, <2>5, WithoutGrows, InvFacts DEF BinHolds
<1> QED
  BY <1>b, <1>6, <1>9, <1>10, <1>11, <1>12, <1>13, AllHolds

LEMMA PollAnsweredInv ==
    ASSUME LockInv, NEW k \in Boards, PollAnswered(k)
    PROVE  LockInv'
<1>2. monitor[k] \in MonitorState /\ BoardHolds(k) /\ monitor[k].seen # "undefined"
  BY DEF LockInv, LockTypes, PollAnswered
<1>3. PICK b \in Bins : b = monitor[k].bin /\ boardOf[b] = k /\ b # NoBin
  BY <1>2 DEF BoardHolds, MonitorState
<1> DEFINE closed == monitor[k].seen = "CLOSED"
           new == IF closed THEN Unwatched ELSE [monitor[k] EXCEPT !.seen = "undefined"]
           report == [board |-> k, isClosed |-> TRUE]
<1>1. /\ monitor[k].seen # "undefined" /\ monitor' = [monitor EXCEPT ![k] = new]
      /\ reports' = IF closed THEN reports \cup {report} ELSE reports
      /\ UNCHANGED <<boardOf, admin, lockPort, bulk, phys, books, opener, late, tracks, closer,
                     reading, stops, calls, trouble>>
  <2>1. CASE closed
    BY <2>1 DEF PollAnswered
  <2>2. CASE ~closed
    BY <2>2 DEF PollAnswered
  <2> QED
    BY <2>1, <2>2
<1>4. Grows
  BY <1>1 DEF Grows
<1>5. /\ new \in MonitorState /\ new.seen = "undefined"
      /\ new.bin = IF closed THEN NoBin ELSE b
  BY <1>2, <1>3 DEF MonitorState, LockStatus, Unwatched
<1>6. report \in Report /\ report.board = k /\ report.isClosed
  BY Zenon DEF Report
<1>7. ReportsOf(k)' = (IF closed THEN ReportsOf(k) \cup {report} ELSE ReportsOf(k))
      /\ \A j \in Boards : j # k => ReportsOf(j)' = ReportsOf(j)
  BY <1>1, <1>6 DEF ReportsOf
<1> HIDE DEF new, report
<1>8. LockTypes' /\ monitor'[k] = new
  BY <1>1, <1>3, <1>5, <1>6, InvFacts DEF LockTypes
<1>9. TroubleHolds'
  BY <1>1, <1>3, <1>4, InvFacts, QuietTrouble
<1>10. ASSUME NEW j \in Boards PROVE BoardHolds(j)'
  <2>1. CASE j = k
    BY <1>1, <1>3, <1>5, <1>8, <2>1 DEF BoardHolds
  <2>2. CASE j # k
    <3>1. monitor'[j] = monitor[j] /\ BoardHolds(j)
      BY <1>1, <1>3, <2>2, InvFacts DEF LockInv, LockTypes
    <3> QED
      BY <1>1, <1>7, <2>2, <3>1 DEF BoardHolds
  <2> QED
    BY <2>1, <2>2
<1>11. ASSUME NEW c \in Bins, boardOf[c] # k PROVE SameBin(c)
  <2>1. boardOf[c] \in Boards /\ monitor'[boardOf[c]] = monitor[boardOf[c]]
    BY <1>1, <1>3, <1>11, InvFacts DEF LockTypes
  <2>2. ReportsOf(boardOf[c])' = ReportsOf(boardOf[c])
    BY <1>1, <1>7, <1>11, <2>1 DEF ReportsOf
  <2> QED
    BY <1>1, <2>1, <2>2 DEF SameBin
<1>12. BinHolds(b)'
  <2>1. monitor[k].bin = b /\ boardOf'[b] = k /\ Watched(b)
    BY <1>1, <1>3 DEF Watched
  <2>2. /\ Reported(b) <=> ReportsOf(k) # {} \/ closer[k].pc = "loaded"
        /\ Reported(b)' <=> ReportsOf(k)' # {} \/ closer[k].pc = "loaded"
    BY <1>1, <1>3, <2>1 DEF Reported, ReportsOf
  <2>3. Watched(b)' <=> ~closed \/ b \in tracks
    BY <1>1, <1>3, <1>5, <1>8, <2>1 DEF Watched
  <2>4. closer[k].pc # "loaded" => closer[k].pc = "idle"
    BY <1>3, InvFacts DEF CloserState
  <2>5. boardOf'[b] = k /\ closer' = closer /\ ReportsOf(boardOf[b])' = ReportsOf(k)'
    BY <1>1, <2>1 DEF ReportsOf
  <2>6. OneStage(b) => OneStage(b)'
    BY <1>4, WithoutGrows, <1>1, <1>3, <1>5, <1>6, <1>7, <1>8, <2>1, <2>2, <2>3, <2>4, <2>5 DEF OneStage, Calling
  <2>7. StaysWatched(b) => StaysWatched(b)'
    BY <1>1, <1>3, <1>5, <1>8, <2>1, <2>3 DEF StaysWatched, Opening
  <2>8. ToldTruly(b) => ToldTruly(b)'
    BY <1>1, <1>3, <1>5, <1>7, <1>8, <2>1, <2>5 DEF ToldTruly, Opening, Calling
  <2>9. SoonBooked(b) => SoonBooked(b)'
    BY <1>1, <1>3, <1>6, <1>7, <2>1, <2>2, <2>3, <2>5 DEF SoonBooked
  <2> QED
    BY <1>3, <1>4, <2>6, <2>7, <2>8, <2>9, WithoutGrows, InvFacts DEF BinHolds
<1> QED
  BY <1>3, <1>4, <1>8, <1>9, <1>10, <1>11, <1>12, AllHolds

LEMMA MonitorTimeoutInv ==
    ASSUME LockInv, NEW k \in Boards, MonitorTimeout(k)
    PROVE  LockInv'
<1>2. monitor[k] \in MonitorState /\ BoardHolds(k) /\ monitor[k].bin # NoBin
  BY DEF LockInv, LockTypes, MonitorTimeout
<1>3. PICK b \in Bins : b = monitor[k].bin /\ boardOf[b] = k
  BY <1>2 DEF BoardHolds, MonitorState
<1> DEFINE report == [board |-> k, isClosed |-> FALSE]
<1>1. /\ Troubled("timeout") /\ monitor' = [monitor EXCEPT ![k] = Unwatched]
      /\ reports' = reports \cup {report}
      /\ UNCHANGED <<boardOf, admin, lockPort, bulk, phys, books, opener, late, tracks, closer,
                     reading, stops, calls>>
  BY DEF MonitorTimeout
<1>4. Grows /\ trouble' \subseteq Trouble /\ ~Without(Unwatching)' /\ ~Without(Unbooked)'
  <2>1. "timeout" \in Trouble /\ "timeout" \in Unwatching /\ "timeout" \in Unbooked
    BY DEF Trouble, Unwatching, Unbooked
  <2> QED
    BY <1>1, <1>3, <2>1, TroubledFacts, InvFacts DEF Grows
<1>5. Unwatched \in MonitorState /\ Unwatched.seen = "undefined" /\ Unwatched.bin = NoBin
  BY DEF MonitorState, LockStatus, Unwatched
<1>6. report \in Report /\ report.board = k /\ report.isClosed = FALSE
  BY Zenon DEF Report
<1>7. ReportsOf(k)' = ReportsOf(k) \cup {report}
      /\ \A j \in Boards : j # k => ReportsOf(j)' = ReportsOf(j)
  BY <1>1, <1>6 DEF ReportsOf
<1> HIDE DEF report
<1>8. LockTypes' /\ monitor'[k] = Unwatched
  BY <1>1, <1>3, <1>4, <1>5, <1>6, InvFacts DEF LockTypes
<1>9. TroubleHolds'
  BY <1>1, <1>3, <1>4, InvFacts, QuietTrouble
<1>10. ASSUME NEW j \in Boards PROVE BoardHolds(j)'
  <2>1. CASE j = k
    BY <1>1, <1>3, <1>5, <1>8, <2>1 DEF BoardHolds
  <2>2. CASE j # k
    <3>1. monitor'[j] = monitor[j] /\ BoardHolds(j)
      BY <1>1, <1>3, <2>2, InvFacts DEF LockInv, LockTypes
    <3> QED
      BY <1>1, <1>7, <2>2, <3>1 DEF BoardHolds
  <2> QED
    BY <2>1, <2>2
<1>11. ASSUME NEW c \in Bins, boardOf[c] # k PROVE SameBin(c)
  <2>1. boardOf[c] \in Boards /\ monitor'[boardOf[c]] = monitor[boardOf[c]]
    BY <1>1, <1>3, <1>11, InvFacts DEF LockTypes
  <2>2. ReportsOf(boardOf[c])' = ReportsOf(boardOf[c])
    BY <1>1, <1>7, <1>11, <2>1 DEF ReportsOf
  <2> QED
    BY <1>1, <2>1, <2>2 DEF SameBin
<1>12. BinHolds(b)'
  <2>1. monitor[k].bin = b /\ boardOf'[b] = k /\ Watched(b) /\ b # NoBin
    BY <1>1, <1>2, <1>3 DEF Watched
  <2>2. /\ Reported(b) <=> ReportsOf(k) # {} \/ closer[k].pc = "loaded"
        /\ Reported(b)' <=> ReportsOf(k)' # {} \/ closer[k].pc = "loaded"
    BY <1>1, <1>3, <2>1 DEF Reported, ReportsOf
  <2>3. Watched(b)' <=> b \in tracks
    BY <1>1, <1>3, <1>5, <1>8, <2>1 DEF Watched
  <2>4. closer[k].pc # "loaded" => closer[k].pc = "idle"
    BY <1>3, InvFacts DEF CloserState
  <2>5. boardOf'[b] = k /\ closer' = closer /\ ReportsOf(boardOf[b])' = ReportsOf(k)'
    BY <1>1, <2>1 DEF ReportsOf
  <2>6. OneStage(b) => OneStage(b)'
    BY <1>1, <1>3, <1>5, <1>6, <1>7, <1>8, <2>1, <2>2, <2>3, <2>4, <2>5 DEF OneStage, Calling
  <2>8. ToldTruly(b) => ToldTruly(b)'
    BY <1>1, <1>3, <1>5, <1>6, <1>7, <1>8, <2>1, <2>5 DEF ToldTruly, Opening, Calling
  <2> QED
    BY <1>3, <1>4, <2>6, <2>8, WithoutGrows, InvFacts DEF BinHolds
<1> QED
  BY <1>3, <1>4, <1>8, <1>9, <1>10, <1>11, <1>12, AllHolds

LEMMA BridgeRestartsInv ==
    ASSUME LockInv, BridgeRestarts
    PROVE  LockInv'
<1>1. /\ Troubled("restart") /\ monitor' = [k \in Boards |-> Unwatched]
      /\ UNCHANGED <<boardOf, admin, lockPort, bulk, phys, books, opener, late, tracks, reports,
                     closer, reading, stops, calls>>
  BY DEF BridgeRestarts
<1>2. LockTypes /\ TroubleHolds
  BY DEF LockInv
<1>3. Grows /\ trouble' \subseteq Trouble /\ ~Without(Unwatching)' /\ ~Without(Unbooked)'
  <2>1. "restart" \in Trouble /\ "restart" \in Unwatching /\ "restart" \in Unbooked
    BY DEF Trouble, Unwatching, Unbooked
  <2> QED
    BY <1>1, <1>2, <2>1, TroubledFacts DEF Grows
<1>4. Unwatched \in MonitorState /\ Unwatched.seen = "undefined" /\ Unwatched.bin = NoBin
  BY DEF MonitorState, LockStatus, Unwatched
<1>5. LockTypes' /\ \A k \in Boards : monitor'[k] = Unwatched
  BY <1>1, <1>2, <1>3, <1>4 DEF LockTypes
<1>6. TroubleHolds'
  BY <1>1, <1>2, <1>3, QuietTrouble
<1>7. ASSUME NEW k \in Boards PROVE BoardHolds(k)'
  <2>1. BoardHolds(k) /\ monitor'[k] = Unwatched
    BY <1>5 DEF LockInv
  <2> QED
    BY <1>1, <1>4, <2>1 DEF BoardHolds, ReportsOf
<1>8. ASSUME NEW b \in Bins PROVE BinHolds(b)'
  <2>1. monitor'[boardOf[b]] = Unwatched /\ NoBin # b
    BY <1>5, LockAssumption, InvFacts
  <2>2. OneStage(b) => OneStage(b)'
    BY <1>3, WithoutGrows, <1>1, <1>4, <2>1 DEF OneStage, Calling, Watched, Reported, ReportsOf
  <2>3. ToldTruly(b) => ToldTruly(b)'
    BY <1>1, <1>4, <2>1 DEF ToldTruly, Calling, Opening, ReportsOf
  <2> QED
    BY <1>3, <2>2, <2>3, WithoutGrows, InvFacts DEF BinHolds
<1> QED
  BY <1>5, <1>6, <1>7, <1>8 DEF LockInv
-----------------------------------------------------------------------------
(* The steps of BinService.close                                           *)

\* When no board is shared, the first bin of a board is its bin.
LEMMA FirstBinFacts ==
    ASSUME NEW k \in Boards, NEW b \in Bins, boardOf[b] = k
    PROVE  /\ FirstBin(k) \in Bins /\ boardOf[FirstBin(k)] = k
           /\ OwnBoards /\ Without({"shared board"}) => FirstBin(k) = b
<1>1. FirstBin(k) \in Bins /\ boardOf[FirstBin(k)] = k
  BY DEF FirstBin
<1> QED
  BY <1>1 DEF OwnBoards

LEMMA LoadForCloseInv ==
    ASSUME LockInv, NEW k \in Boards, LoadForClose(k)
    PROVE  LockInv'
<1>1. PICK m \in reports :
        /\ m.board = k /\ reports' = reports \ {m}
        /\ closer' = [closer EXCEPT ![k] =
               [pc |-> "loaded", loaded |-> books[FirstBin(k)], isClosed |-> m.isClosed]]
  BY DEF LoadForClose
<1> DEFINE new == [pc |-> "loaded", loaded |-> books[FirstBin(k)], isClosed |-> m.isClosed]
<1>2. /\ closer[k].pc = "idle" /\ closer' = [closer EXCEPT ![k] = new]
      /\ UNCHANGED <<boardOf, admin, lockPort, bulk, phys, books, opener, late, monitor, tracks,
                     reading, stops, calls, trouble>>
  BY <1>1 DEF LoadForClose
<1>3. LockTypes /\ TroubleHolds /\ OwnBoards
  BY DEF LockInv, TroubleHolds
<1>4. PICK b \in Bins : boardOf[b] = k
  <2>1. m \in ReportsOf(k) /\ BoardHolds(k)
    BY <1>1 DEF ReportsOf, LockInv
  <2> QED
    BY <2>1 DEF BoardHolds
<1>5. Grows
  BY <1>2 DEF Grows
<1>6. /\ new \in CloserState /\ new.pc = "loaded" /\ new.isClosed = m.isClosed
      /\ new.loaded = books[FirstBin(k)]
  <2>1. books[FirstBin(k)] \in BinBooks
    BY <1>3, <1>4, FirstBinFacts DEF LockTypes
  <2>2. m.isClosed \in BOOLEAN
    BY <1>3 DEF LockTypes, Report
  <2> QED
    BY <2>1, <2>2, Zenon DEF CloserState
<1> HIDE DEF new
<1>7. LockTypes' /\ closer'[k] = new
  BY <1>1, <1>2, <1>3, <1>6 DEF LockTypes
<1>8. TroubleHolds'
  BY <1>2, <1>3, <1>5, QuietTrouble
<1>9. m \in ReportsOf(k) /\ ReportsOf(k)' = ReportsOf(k) \ {m}
      /\ \A j \in Boards : j # k => ReportsOf(j)' = ReportsOf(j)
  BY <1>1 DEF ReportsOf
<1>10. ASSUME NEW j \in Boards PROVE BoardHolds(j)'
  <2>1. CASE j = k
    BY <1>2, <1>4, <2>1 DEF LockInv, BoardHolds
  <2>2. CASE j # k
    <3>1. closer'[j] = closer[j] /\ BoardHolds(j)
      BY <1>2, <1>3, <2>2 DEF LockInv, LockTypes
    <3> QED
      BY <1>2, <1>9, <2>2, <3>1 DEF BoardHolds
  <2> QED
    BY <2>1, <2>2
<1>11. ASSUME NEW c \in Bins, boardOf[c] # k PROVE SameBin(c)
  <2>1. boardOf[c] \in Boards /\ closer'[boardOf[c]] = closer[boardOf[c]]
    BY <1>2, <1>3, <1>11 DEF LockTypes
  <2>2. ReportsOf(boardOf[c])' = ReportsOf(boardOf[c])
    BY <1>2, <1>9, <1>11, <2>1 DEF ReportsOf
  <2> QED
    BY <1>2, <2>1, <2>2 DEF SameBin
<1>12. ASSUME Without({"shared board"})' PROVE BinHolds(b)'
  <2>1. FirstBin(k) = b
    BY <1>3, <1>4, <1>5, <1>12, WithoutGrows, FirstBinFacts
  <2>2. Reported(b) /\ Reported(b)'
    BY <1>1, <1>2, <1>4, <1>6, <1>7 DEF Reported
  <2>3. boardOf'[b] = k /\ ReportsOf(boardOf[b])' = ReportsOf(k)' /\ (Watched(b)' <=> Watched(b))
    BY <1>2, <1>4 DEF ReportsOf, Watched
  <2>4. OneStage(b) => OneStage(b)'
    BY <1>2, <1>4, <1>5, <1>6, <1>7, <1>9, <2>2, <2>3, WithoutGrows DEF OneStage, Calling
  <2>5. StaysWatched(b) => StaysWatched(b)'
    BY <1>2, <2>3 DEF StaysWatched, Opening
  <2>6. ToldTruly(b) => ToldTruly(b)'
    BY <1>2, <1>4, <1>6, <1>7, <1>9, <2>3 DEF ToldTruly, Opening, Calling
  <2>7. SoonBooked(b) => SoonBooked(b)'
    BY <1>2, <1>4, <1>6, <1>7, <1>9, <2>1, <2>2, <2>3 DEF SoonBooked
  <2> QED
    BY <1>5, <2>4, <2>5, <2>6, <2>7, WithoutGrows, InvFacts DEF BinHolds
<1> QED
  BY <1>4, <1>5, <1>7, <1>8, <1>10, <1>11, <1>12, AllHolds

LEMMA SaveClosedInv ==
    ASSUME LockInv, NEW k \in Boards, SaveClosed(k)
    PROVE  LockInv'
<1> DEFINE f == FirstBin(k)
           new == Reporting(closer[k].loaded, closer[k].isClosed)
<1>1. /\ closer[k].pc = "loaded" /\ closer' = [closer EXCEPT ![k] = NotClosing]
      /\ books' = IF new = closer[k].loaded THEN books ELSE [books EXCEPT ![f] = new]
      /\ stops' = stops \cup {f}
      /\ UNCHANGED <<boardOf, admin, lockPort, bulk, phys, opener, late, monitor, tracks,
                     reports, reading, calls, trouble>>
  BY DEF SaveClosed
<1>2. LockTypes /\ TroubleHolds /\ OwnBoards
  BY DEF LockInv, TroubleHolds
<1>3. PICK b \in Bins : boardOf[b] = k
  <2>1. BoardHolds(k)
    BY DEF LockInv
  <2> QED
    BY <1>1, <2>1 DEF BoardHolds
<1>4. Grows
  BY <1>1 DEF Grows
<1>5. closer[k].loaded \in BinBooks /\ closer[k].isClosed \in BOOLEAN
  BY <1>2 DEF LockTypes, CloserState
<1>6. new \in BinBooks /\ new.isLocked = closer[k].isClosed
  BY <1>5, ReportingFacts
<1>7. NotClosing \in CloserState /\ NotClosing.pc = "idle"
  BY NewBooksFacts DEF NotClosing, CloserState
<1>8. f \in Bins /\ boardOf[f] = k
  BY <1>3, FirstBinFacts
<1> HIDE DEF new, f
<1>9. LockTypes' /\ closer'[k] = NotClosing
  BY <1>1, <1>2, <1>6, <1>7, <1>8 DEF LockTypes
<1>10. TroubleHolds'
  BY <1>1, <1>2, <1>4, QuietTrouble
<1>11. ASSUME NEW j \in Boards PROVE BoardHolds(j)'
  <2>1. (closer'[j] = closer[j] \/ closer'[j].pc = "idle") /\ BoardHolds(j)
    BY <1>1, <1>2, <1>7, <1>9 DEF LockInv, LockTypes
  <2> QED
    BY <1>1, <2>1 DEF BoardHolds, ReportsOf
<1>12. ASSUME NEW c \in Bins, boardOf[c] # k PROVE SameBin(c)
  <2>1. closer'[boardOf[c]] = closer[boardOf[c]] /\ books'[c] = books[c]
    BY <1>1, <1>2, <1>8, <1>12 DEF LockTypes
  <2> QED
    BY <1>1, <1>8, <1>12, <2>1 DEF SameBin, ReportsOf
<1>13. ASSUME Without({"shared board"})' PROVE BinHolds(b)'
  <2>1. f = b
    BY <1>2, <1>3, <1>4, <1>13, WithoutGrows, FirstBinFacts DEF f
  <2>2. Reported(b) /\ boardOf'[b] = k /\ ReportsOf(boardOf[b])' = ReportsOf(k)
    BY <1>1, <1>3 DEF Reported, ReportsOf
  <2>3. (Watched(b)' <=> Watched(b)) /\ (Reported(b)' <=> ReportsOf(k) # {})
    BY <1>1, <1>3, <1>7, <1>9 DEF Watched, Reported, ReportsOf
  <2>4. \/ books'[b] = new
        \/ books'[b] = books[b] /\ closer[k].loaded = new
    BY <1>1, <1>2, <2>1 DEF LockTypes
  <2>5. OneStage(b) => OneStage(b)' /\ ~Calling(b) /\ ReportsOf(k) = {}
    BY <1>1, <1>3, <1>4, <1>7, <1>9, <2>2, <2>3, WithoutGrows DEF OneStage, Calling
  <2>6. StaysWatched(b) => StaysWatched(b)'
    BY <1>1, <2>3 DEF StaysWatched, Opening
  <2>7. OneStage(b) /\ ToldTruly(b) => ToldTruly(b)'
    <3> SUFFICES ASSUME OneStage(b), ToldTruly(b) PROVE ToldTruly(b)'
      OBVIOUS
    <3>1. phys[b] = "open" => closer[k].isClosed = FALSE
      BY <1>1, <1>3, <1>5 DEF ToldTruly
    <3>2. phys[b] = "open" => new.isLocked = FALSE
      BY <1>6, <3>1
    <3> QED
      BY <1>1, <1>3, <1>7, <1>9, <2>2, <2>4, <2>5, <3>2 DEF ToldTruly, Opening, Calling
  <2>8. OneStage(b) /\ SoonBooked(b) => SoonBooked(b)'
    <3> SUFFICES ASSUME OneStage(b), SoonBooked(b) PROVE SoonBooked(b)'
      OBVIOUS
    <3>1. closer[k].isClosed = TRUE /\ (closer[k].loaded.isLocked => books[b].isLocked)
      BY <1>1, <1>3, <1>5 DEF SoonBooked
    <3>2. new.isLocked = TRUE
      BY <1>6, <3>1
    <3>3. books'[b].isLocked
      BY <2>4, <3>1, <3>2
    <3> QED
      BY <1>1, <1>3, <1>7, <1>9, <2>2, <2>5, <3>3 DEF SoonBooked
  <2> QED
    BY <1>4, <2>5, <2>6, <2>7, <2>8, WithoutGrows, KindParts, InvFacts DEF BinHolds
<1> QED
  BY <1>3, <1>4, <1>9, <1>10, <1>11, <1>12, <1>13, AllHolds
-----------------------------------------------------------------------------
(* openCabinetBins                                                         *)

LEMMA OpenCabinetInv ==
    ASSUME LockInv, OpenCabinet
    PROVE  LockInv'
<1>1. PICK those \in SUBSET {b \in Bins : books[b].isLocked} :
        /\ LocksOpen(UNION {OpenedBy(OpenLock(b)) : b \in those})
        /\ bulk' = [opened |-> those, loaded |-> books]
  BY DEF OpenCabinet
<1>2. /\ calls < MaxCalls /\ calls' = calls + 1 /\ BoardAnswers /\ Troubled("bulk")
      /\ UNCHANGED <<boardOf, admin, lockPort, books, opener, late, monitor, tracks, reports,
                     closer, reading, stops>>
  BY DEF OpenCabinet
<1>3. LockTypes /\ TroubleHolds
  BY DEF LockInv
<1>4. "bulk" \in Trouble /\ "bulk" \in Unwatching /\ "bulk" \in Misleading
  BY DEF Trouble, Unwatching, Misleading
<1>5. /\ Grows /\ trouble' \subseteq Trouble /\ "bulk" \in trouble'
      /\ ~Without(Unwatching)' /\ ~Without(Misleading)'
  BY <1>2, <1>3, <1>4, TroubledFacts DEF Grows, Troubled
<1>6. bulk' \in BulkState /\ bulk'.opened = those /\ bulk'.loaded = books
  BY <1>1, <1>3 DEF BulkState, LockTypes
<1>7. phys' \in [Bins -> {"open", "closed"}]
  BY <1>1, <1>3 DEF LocksOpen, LockTypes
<1>8. LockTypes'
  BY <1>2, <1>3, <1>5, <1>6, <1>7, LockAssumption DEF LockTypes
<1>9. TroubleHolds'
  <2>1. OwnBoards'
    BY <1>3, <1>5, WithoutGrows DEF TroubleHolds, OwnBoards, Grows
  <2>2. \A b \in bulk'.opened : bulk'.loaded[b].isLocked
    BY <1>6
  <2> QED
    BY <1>2, <1>3, <1>5, <2>1, <2>2 DEF TroubleHolds, BoardAnswers, Grows
<1>10. \A j \in Boards : BoardHolds(j)'
  BY <1>2, <1>5, QuietBoards DEF LockInv
<1>11. ASSUME NEW b \in Bins PROVE BinHolds(b)'
  <2>1. OneStage(b) => OneStage(b)'
    BY <1>5, WithoutGrows, <1>2 DEF OneStage, Calling, Watched, Reported, ReportsOf
  <2>2. SoonBooked(b) => SoonBooked(b)'
    BY <1>2 DEF SoonBooked, Watched, Reported, ReportsOf
  <2> QED
    BY <1>5, <2>1, <2>2, WithoutGrows, InvFacts DEF BinHolds
<1> QED
  BY <1>8, <1>9, <1>10, <1>11 DEF LockInv

LEMMA SaveCabinetInv ==
    ASSUME LockInv, SaveCabinet
    PROVE  LockInv'
<1> DEFINE alive == {b \in Bins : \E c \in bulk.opened : b = FirstBin(boardOf[c])}
<1>1. /\ bulk # NoBulk /\ bulk' = NoBulk
      /\ books' = [b \in Bins |-> IF b \in alive THEN MarkAlive(bulk.loaded[b]) ELSE books[b]]
      /\ UNCHANGED <<boardOf, admin, lockPort, phys, opener, late, monitor, tracks, reports,
                     closer, reading, stops, calls, trouble>>
  BY DEF SaveCabinet
<1>2. LockTypes /\ TroubleHolds /\ "bulk" \in trouble
  BY <1>1 DEF LockInv, TroubleHolds
<1>3. Grows /\ ~Without(Unwatching)' /\ ~Without(Misleading)'
  <2>1. "bulk" \in Unwatching /\ "bulk" \in Misleading
    BY DEF Unwatching, Misleading
  <2> QED
    BY <1>1, <1>2, <2>1 DEF Grows, Without
<1>4. ASSUME NEW b \in Bins
      PROVE  bulk.loaded[b] \in BinBooks /\ MarkAlive(bulk.loaded[b]) \in BinBooks
             /\ MarkAlive(bulk.loaded[b]).isLocked = bulk.loaded[b].isLocked
  <2>1. bulk.loaded[b] \in BinBooks
    BY <1>2 DEF LockTypes, BulkState
  <2> QED
    BY <2>1, MarkFacts
<1>5. ASSUME Without({"shared board"})', NEW b \in alive PROVE bulk.loaded[b].isLocked
  <2>1. PICK c \in bulk.opened : b = FirstBin(boardOf[c])
    OBVIOUS
  <2>2. c \in Bins /\ boardOf[c] \in Boards
    BY <1>2 DEF LockTypes, BulkState
  <2>3. FirstBin(boardOf[c]) = c
    BY <1>2, <1>3, <1>5, <2>2, FirstBinFacts, WithoutGrows DEF TroubleHolds
  <2> QED
    BY <1>2, <2>1, <2>3 DEF TroubleHolds
<1> HIDE DEF alive
<1>6. NoBulk \in BulkState /\ NoBulk.opened = {}
  BY NewBooksFacts DEF NoBulk, BulkState
<1>7. LockTypes'
  BY <1>1, <1>2, <1>4, <1>6 DEF LockTypes
<1>8. TroubleHolds'
  <2>1. OwnBoards'
    BY <1>2, <1>3, WithoutGrows DEF TroubleHolds, OwnBoards, Grows
  <2> QED
    BY <1>1, <1>2, <1>6, <2>1 DEF TroubleHolds, BoardAnswers
<1>9. \A j \in Boards : BoardHolds(j)'
  BY <1>1, <1>3, QuietBoards DEF LockInv
<1>10. ASSUME NEW b \in Bins PROVE BinHolds(b)'
  <2>1. OneStage(b) => OneStage(b)'
    BY <1>3, WithoutGrows, <1>1 DEF OneStage, Calling, Watched, Reported, ReportsOf
  <2>2. Without({"shared board"})' /\ books[b].isLocked => books'[b].isLocked
    BY <1>1, <1>4, <1>5
  <2>3. Without({"shared board"})' /\ SoonBooked(b) => SoonBooked(b)'
    BY <1>1, <2>2 DEF SoonBooked, Watched, Reported, ReportsOf
  <2>4. Without(Unbooked)' => Without({"shared board"})'
    BY DEF Without, Unbooked
  <2> QED
    BY <1>3, <2>1, <2>3, <2>4, WithoutGrows, InvFacts DEF BinHolds
<1> QED
  BY <1>7, <1>8, <1>9, <1>10 DEF LockInv
-----------------------------------------------------------------------------
LEMMA LockInitInv == LockInit => LockInv
<1> SUFFICES ASSUME LockInit PROVE LockInv
  OBVIOUS
<1>1. NotOpening \in OpenerState /\ NotOpening.pc = "idle"
  BY LockAssumption, NewBooksFacts DEF NotOpening, OpenerState
<1>2. NotClosing \in CloserState /\ NotClosing.pc = "idle"
  BY NewBooksFacts DEF NotClosing, CloserState
<1>3. Unwatched \in MonitorState /\ Unwatched.seen = "undefined" /\ Unwatched.bin = NoBin
  BY DEF MonitorState, LockStatus, Unwatched
<1>4. NoBulk \in BulkState /\ NoBulk.opened = {}
  BY NewBooksFacts DEF NoBulk, BulkState
<1>5. NewBooks \in BinBooks /\ NewBooks.isLocked
  BY NewBooksFacts DEF NewBooks
<1>6. LockTypes
  <2>1. boardOf \in [Bins -> Boards] /\ phys \in [Bins -> {"open", "closed"}]
    BY LockAssumption DEF LockInit
  <2>2. books \in [Bins -> BinBooks] /\ opener \in [Bins -> OpenerState]
    BY <1>1, <1>5 DEF LockInit
  <2>3. monitor \in [Boards -> MonitorState] /\ closer \in [Boards -> CloserState]
    BY <1>2, <1>3 DEF LockInit
  <2>4. calls \in 0..MaxCalls
    <3>1. MaxCalls \in Nat
      BY LockAssumption
    <3>2. calls = 0
      BY DEF LockInit
    <3> QED
      BY <3>1, <3>2
  <2>5. trouble \subseteq Trouble
    <3>1. trouble = {"shared board"} \/ trouble = {}
      BY DEF LockInit
    <3> QED
      BY <3>1 DEF Trouble
  <2>6. admin \in [Bins -> AdminState]
    <3>1. NotSetting \in AdminState
      BY NewBooksFacts DEF NotSetting, AdminState
    <3> QED
      BY <3>1 DEF LockInit
  <2> QED
    BY <1>4, <2>1, <2>2, <2>3, <2>4, <2>5, <2>6 DEF LockInit, LockTypes
<1>7. TroubleHolds
  BY <1>4 DEF LockInit, TroubleHolds, OwnBoards, Without
<1>8. \A k \in Boards : BoardHolds(k)
  BY <1>2, <1>3 DEF LockInit, BoardHolds, ReportsOf
<1>9. ASSUME NEW b \in Bins PROVE BinHolds(b)
  <2>1. /\ opener[b] = NotOpening /\ books[b] = NewBooks /\ phys[b] = "closed"
        /\ monitor[boardOf[b]] = Unwatched /\ closer[boardOf[b]] = NotClosing
        /\ ReportsOf(boardOf[b]) = {} /\ tracks = {} /\ stops = {} /\ NoBin # b
    BY <1>6, LockAssumption DEF LockInit, LockTypes, ReportsOf
  <2>2. ~Watched(b) /\ ~Calling(b)
    BY <1>1, <1>3, <2>1 DEF Watched, Calling
  <2>3. OneStage(b)
    BY <1>1, <1>2, <1>3, <2>1, <2>2 DEF OneStage
  <2>4. StaysWatched(b)
    BY <2>1 DEF StaysWatched
  <2>5. ToldTruly(b)
    BY <2>1, <2>2 DEF ToldTruly
  <2>6. SoonBooked(b)
    BY <1>2, <1>5, <2>1 DEF SoonBooked
  <2> QED
    BY <2>3, <2>4, <2>5, <2>6 DEF BinHolds
<1> QED
  BY <1>6, <1>7, <1>8, <1>9 DEF LockInv

LEMMA NextInv ==
    ASSUME LockInv, [LockNext]_lockVars
    PROVE  LockInv'
<1>1. CASE OpenCabinet
  BY <1>1, OpenCabinetInv
<1>2. CASE SaveCabinet
  BY <1>2, SaveCabinetInv
<1>3. CASE BridgeRestarts
  BY <1>3, BridgeRestartsInv
<1>4. ASSUME NEW b \in Bins,
             \/ OpenBin(b) \/ OpenSucceeds(b) \/ OpenRefused(b) \/ OpenTimesOut(b)
             \/ LateOpen(b) \/ AskForTracking(b) \/ SaveOpened(b) \/ Track(b)
             \/ ShutDrawer(b) \/ StopReadingDue(b)
             \/ LoadForSet(b) \/ SaveSet(b)
      PROVE  LockInv'
  BY <1>4, OpenBinInv, OpenSucceedsInv, OpenRefusedInv, OpenTimesOutInv, LateOpenInv,
     AskForTrackingInv, SaveOpenedInv, TrackInv, ShutDrawerInv, StopReadingDueInv,
     LoadForSetInv, SaveSetInv
<1>5. ASSUME NEW k \in Boards,
             \/ PollLock(k) \/ PollAnswered(k) \/ MonitorTimeout(k)
             \/ LoadForClose(k) \/ SaveClosed(k)
      PROVE  LockInv'
  BY <1>5, PollLockInv, PollAnsweredInv, MonitorTimeoutInv, LoadForCloseInv, SaveClosedInv
<1>6. CASE UNCHANGED lockVars
  <2>1. UNCHANGED <<boardOf, admin, lockPort, phys, books, opener, late, monitor, tracks, reports,
                    closer, bulk, reading, stops, calls, trouble>>
    BY <1>6 DEF lockVars
  <2>2. Grows
    BY <2>1 DEF Grows
  <2>3. LockTypes'
    BY <2>1 DEF LockInv, LockTypes
  <2>4. TroubleHolds' /\ \A j \in Boards : BoardHolds(j)'
    BY <2>1, <2>2, QuietTrouble, QuietBoards DEF LockInv
  <2>5. ASSUME NEW b \in Bins PROVE BinHolds(b)'
    BY <2>1, <2>2, SameHolds, InvFacts DEF SameBin, ReportsOf
  <2> QED
    BY <2>3, <2>4, <2>5 DEF LockInv
<1> QED
  BY <1>1, <1>2, <1>3, <1>4, <1>5, <1>6 DEF LockNext

LEMMA LockInvariance == LockSpec => []LockInv
<1>1. LockInv /\ [LockNext]_lockVars => LockInv'
  BY NextInv
<1> QED
  BY LockInitInv, <1>1, PTL DEF LockSpec
-----------------------------------------------------------------------------
\* What the code keeps of a lock, a bin and the watch of them are values of their
\* types, for any number of bins, boards and troubles.
THEOREM LockTypeCorrect == LockSpec => []LockTypeOK
<1>1. LockInv => LockTypeOK
  BY LockTypeParts DEF LockInv
<1> QED
  BY <1>1, LockInvariance, PTL

\* LockMonitoringService and BinService: an open lock is being opened, its tracking is on
\* the way or it is polled, and its load cells are read as long, whatever the order of
\* calls, polls, reports and delayed stops, unless a trouble came that OpenIsAttended names.
THEOREM LocksAreAttended == LockSpec => []OpenIsAttended
<1>1. LockInv => OpenIsWatched
  BY InvFacts DEF LockInv, BinHolds, StaysWatched, OpenIsWatched, Without, Unwatching
<1>2. LockInv => ReadWhileWatched
  <2>1. ASSUME LockInv, Without({"reopened", "shared board", "unread"}), NEW b \in Bins, Watched(b)
        PROVE  b \in reading
    <3>1. Without(Own) /\ Without({"unread"})
      BY <2>1 DEF Without, Own
    <3> QED
      BY <2>1, <3>1, InvFacts DEF BinHolds, OneStage
  <2> QED
    BY <2>1 DEF ReadWhileWatched, Without
<1>3. LockInv => OpenIsAttended
  BY <1>1, <1>2 DEF OpenIsAttended
<1> QED
  BY <1>3, LockInvariance, PTL

\* BinService.open and close each write the whole state of a bin from what they read before
\* an await: the books say locked of no open lock, and at rest they do of every closed one,
\* unless a trouble came that LockedMeansClosed or ClosedIsBooked names.
THEOREM BooksAreTrue == LockSpec => []BooksFollowLock
<1>1. LockInv => LockedMeansClosed
  <2> SUFFICES ASSUME LockInv, Without(Misleading), NEW b \in Bins,
                      books[b].isLocked, phys[b] = "open"
               PROVE  Opening(b) \/ (Reported(b) /\ monitor[boardOf[b]].bin # b)
    BY DEF LockedMeansClosed, Without, Misleading
  <2> QED
    BY InvFacts DEF BinHolds, ToldTruly
<1>2. LockInv => ClosedIsBooked
  BY InvFacts DEF LockInv, BinHolds, SoonBooked, ClosedIsBooked, Without, Unbooked
<1>3. LockInv => BooksFollowLock
  BY <1>1, <1>2 DEF BooksFollowLock
<1> QED
  BY <1>3, LockInvariance, PTL

-----------------------------------------------------------------------------
(* Discovery.                                                                *)

\* The openings of one path do not overlap unless they are on record as doubled, and
\* what is open is not being opened.
OneOpening ==
    \A p \in Paths \ doubled : openings[p] <= 1 /\ (p \in opened => openings[p] = 0)

\* The types, set by set.
PortSetsOK ==
    /\ plugged \subseteq Paths /\ available \subseteq Paths /\ connected \subseteq Paths
    /\ listing \subseteq Paths /\ opened \subseteq Paths /\ unseen \subseteq Paths
    /\ doubled \subseteq Paths

CountersOK ==
    /\ timers \in [Paths -> Nat] /\ openings \in [Paths -> Nat] /\ closings \in [Paths -> Nat]
    /\ scanning \in BOOLEAN /\ changes \in 0..Changes /\ troubles \in 0..Troubles

DiscInv == PortSetsOK /\ CountersOK /\ OpenIsTracked /\ OneOpening

-----------------------------------------------------------------------------
LEMMA DiscTypeParts == DiscTypeOK <=> PortSetsOK /\ CountersOK
<1>1. UNION {plugged, available, connected, listing, opened, unseen, doubled} \subseteq Paths
          <=> PortSetsOK
  BY DEF PortSetsOK
<1>2. {timers, openings, closings} \subseteq [Paths -> Nat]
          <=> /\ timers \in [Paths -> Nat] /\ openings \in [Paths -> Nat]
              /\ closings \in [Paths -> Nat]
  OBVIOUS
<1> QED
  BY <1>1, <1>2 DEF DiscTypeOK, CountersOK

\* The filters only leave ports out.
LEMMA FilteredAreWatched ==
    ASSUME PortSetsOK
    PROVE  FilterPorts(ListPorts) \subseteq Paths
BY DEF FilterPorts, ListPorts, PortSetsOK

LEMMA BoundsFact == Changes \in Nat /\ Troubles \in Nat
BY DiscoveryAssumption

LEMMA DiscInitInv == ASSUME DiscInit PROVE DiscInv
<1>1. PortSetsOK
  BY DEF DiscInit, PortSetsOK
<1>2. CountersOK
  <2>1. [p \in Paths |-> 0] \in [Paths -> Nat]
    OBVIOUS
  <2>2. timers = [p \in Paths |-> 0] /\ openings = timers /\ closings = timers
    BY DEF DiscInit
  <2>3. changes = 0 /\ troubles = 0 /\ scanning \in BOOLEAN
    BY DEF DiscInit
  <2>4. changes \in 0..Changes /\ troubles \in 0..Troubles
    BY <2>3, BoundsFact
  <2> QED
    BY <2>1, <2>2, <2>3, <2>4 DEF CountersOK
<1>3. OpenIsTracked /\ OneOpening
  BY DEF DiscInit, OpenIsTracked, OneOpening
<1> QED
  BY <1>1, <1>2, <1>3 DEF DiscInv

-----------------------------------------------------------------------------
(* What happens to one path.                                                 *)

LEMMA PlugInv ==
    ASSUME DiscInv, NEW p \in Paths, PlugOut(p) \/ PlugIn(p)
    PROVE  DiscInv'
<1> USE DEF DiscInv
<1>1. CASE PlugOut(p)
  <2>1. PortSetsOK' /\ CountersOK'
    BY <1>1, BoundsFact DEF PlugOut, PortSetsOK, CountersOK
  <2>2. OpenIsTracked' /\ OneOpening'
    BY <1>1 DEF PlugOut, OpenIsTracked, OneOpening
  <2> QED
    BY <2>1, <2>2
<1>2. CASE PlugIn(p)
  <2>1. PortSetsOK' /\ CountersOK'
    BY <1>2, BoundsFact DEF PlugIn, PortSetsOK, CountersOK
  <2>2. OpenIsTracked' /\ OneOpening'
    BY <1>2 DEF PlugIn, OpenIsTracked, OneOpening
  <2> QED
    BY <2>1, <2>2
<1> QED
  BY <1>1, <1>2

\* A path that is open already is tracked at once; another one is being opened now.
LEMMA ConnectStartsInv ==
    ASSUME DiscInv, NEW p \in Paths, ConnectStarts(p)
    PROVE  DiscInv'
<1> USE DEF DiscInv
<1>1. timers[p] \in Nat \ {0} /\ openings[p] \in Nat /\ closings[p] \in Nat
  BY DEF ConnectStarts, CountersOK
<1>2. PortSetsOK' /\ CountersOK'
  BY <1>1 DEF ConnectStarts, PortSetsOK, CountersOK, Tracked
<1>3. CASE p \in opened \ doubled
  <2>1. OneOpening'
    BY <1>3 DEF ConnectStarts, OneOpening, CountersOK, PortSetsOK
  <2>2. OpenIsTracked'
    BY <1>1, <1>3 DEF ConnectStarts, OpenIsTracked, CountersOK, Tracked
  <2> QED
    BY <1>2, <2>1, <2>2
<1>4. CASE p \notin opened \ doubled
  <2>1. openings' = [openings EXCEPT ![p] = @ + 1] /\ connected' = connected
    BY <1>4 DEF ConnectStarts
  <2>2. OneOpening'
    BY <1>1, <1>4, <2>1 DEF ConnectStarts, OneOpening, CountersOK
  <2>3. OpenIsTracked'
    BY <1>1, <2>1 DEF ConnectStarts, OpenIsTracked, CountersOK
  <2> QED
    BY <1>2, <2>2, <2>3
<1> QED
  BY <1>3, <1>4

\* An opening that ends was the only one of its path, or the path is doubled.
LEMMA ConnectEndsInv ==
    ASSUME DiscInv, NEW p \in Paths, ConnectSucceeds(p) \/ ConnectFails(p)
    PROVE  DiscInv'
<1> USE DEF DiscInv
<1>1. timers[p] \in Nat /\ openings[p] \in Nat \ {0} /\ closings[p] \in Nat
  BY DEF ConnectSucceeds, ConnectFails, CountersOK
<1>2. CASE ConnectSucceeds(p)
  <2>1. PortSetsOK' /\ CountersOK'
    BY <1>1, <1>2 DEF ConnectSucceeds, PortSetsOK, CountersOK, Tracked
  <2>2. OneOpening'
    BY <1>1, <1>2 DEF ConnectSucceeds, OneOpening, CountersOK
  <2>3. OpenIsTracked'
    BY <1>1, <1>2 DEF ConnectSucceeds, OpenIsTracked, CountersOK, Tracked
  <2> QED
    BY <2>1, <2>2, <2>3
<1>3. CASE ConnectFails(p)
  <2>1. PortSetsOK' /\ CountersOK'
    BY <1>1, <1>3, BoundsFact DEF ConnectFails, PortSetsOK, CountersOK
  <2>2. OneOpening'
    BY <1>1, <1>3 DEF ConnectFails, OneOpening, CountersOK
  <2>3. OpenIsTracked'
    BY <1>1, <1>3 DEF ConnectFails, OpenIsTracked, OneOpening, CountersOK
  <2> QED
    BY <2>1, <2>2, <2>3
<1> QED
  BY <1>2, <1>3

LEMMA CloseEndsInv ==
    ASSUME DiscInv, NEW p \in Paths, CloseEnds(p)
    PROVE  DiscInv'
<1> USE DEF DiscInv
<1>1. closings[p] \in Nat \ {0}
  BY DEF CloseEnds, CountersOK
<1>2. PortSetsOK' /\ CountersOK'
  BY <1>1 DEF CloseEnds, PortSetsOK, CountersOK
<1>3. OneOpening'
  BY DEF CloseEnds, OneOpening
<1>4. OpenIsTracked'
  BY <1>1 DEF CloseEnds, OpenIsTracked, CountersOK
<1> QED
  BY <1>2, <1>3, <1>4

-----------------------------------------------------------------------------
(* The scans.                                                                *)

\* What a scan adds is about to be opened; what it no longer lists is dropped.
LEMMA ScanEndsInv == ASSUME DiscInv, ScanEnds PROVE DiscInv'
<1> USE DEF DiscInv
<1>1. PortSetsOK' /\ CountersOK'
  <2>1. PortSetsOK'
    BY DEF ScanEnds, PortSetsOK
  <2>2. timers' \in [Paths -> Nat]
    BY DEF ScanEnds, CountersOK
  <2>3. closings' \in [Paths -> Nat]
    BY DEF ScanEnds, CountersOK
  <2> QED
    BY <2>1, <2>2, <2>3 DEF ScanEnds, CountersOK
<1>2. OneOpening'
  BY DEF ScanEnds, OneOpening
<1>3. connected' \subseteq available'
  BY DEF ScanEnds, OpenIsTracked
<1>4. ASSUME NEW p \in (opened \cap available)' \ doubled',
             (timers[p] + openings[p] + closings[p] = 0)'
      PROVE  p \in connected'
  <2>1. p \in opened /\ p \in listing /\ p \notin doubled /\ p \in Paths
    BY <1>4 DEF ScanEnds, PortSetsOK
  <2>2. timers'[p] = IF p \in listing \ available THEN timers[p] + 1 ELSE timers[p]
    BY <2>1 DEF ScanEnds
  <2>3. timers[p] \in Nat /\ openings[p] \in Nat /\ closings[p] \in Nat
    BY <2>1 DEF CountersOK
  <2>4. closings'[p] = closings[p] /\ openings'[p] = openings[p]
    BY <2>1 DEF ScanEnds
  <2>5. p \in available /\ timers[p] + openings[p] + closings[p] = 0
    BY <1>4, <2>1, <2>2, <2>3, <2>4
  <2> QED
    BY <2>1, <2>5 DEF ScanEnds, OpenIsTracked
<1>5. OpenIsTracked'
  BY <1>3, <1>4 DEF OpenIsTracked
<1> QED
  BY <1>1, <1>2, <1>5

LEMMA ScanInv ==
    ASSUME DiscInv, ScanStarts \/ ScanFails
    PROVE  DiscInv'
<1> USE DEF DiscInv
<1>1. FilterPorts(ListPorts) \subseteq Paths
  BY FilteredAreWatched
<1>2. PortSetsOK' /\ CountersOK'
  <2>1. CASE ScanStarts
    BY <1>1, <2>1 DEF ScanStarts, PortSetsOK, CountersOK
  <2>2. CASE ScanFails
    <3>1. PortSetsOK'
      BY <2>2 DEF ScanFails, PortSetsOK
    <3>2. troubles' \in 0..Troubles
      BY <2>2, BoundsFact DEF ScanFails, CountersOK
    <3> QED
      BY <2>2, <3>1, <3>2 DEF ScanFails, CountersOK
  <2> QED
    BY <2>1, <2>2
<1>3. OpenIsTracked' /\ OneOpening'
  BY DEF ScanStarts, ScanFails, OpenIsTracked, OneOpening
<1> QED
  BY <1>2, <1>3

LEMMA StepInv ==
    ASSUME DiscInv, [DiscNext]_discVars
    PROVE  DiscInv'
<1>1. CASE ScanStarts \/ ScanFails
  BY <1>1, ScanInv
<1>2. CASE ScanEnds
  BY <1>2, ScanEndsInv
<1>3. ASSUME NEW p \in Paths, PlugOut(p) \/ PlugIn(p) PROVE DiscInv'
  BY <1>3, PlugInv
<1>4. ASSUME NEW p \in Paths, ConnectStarts(p) PROVE DiscInv'
  BY <1>4, ConnectStartsInv
<1>5. ASSUME NEW p \in Paths, ConnectSucceeds(p) \/ ConnectFails(p) PROVE DiscInv'
  BY <1>5, ConnectEndsInv
<1>6. ASSUME NEW p \in Paths, CloseEnds(p) PROVE DiscInv'
  BY <1>6, CloseEndsInv
<1>7. CASE UNCHANGED discVars
  BY <1>7 DEF discVars, DiscInv, PortSetsOK, CountersOK, OpenIsTracked, OneOpening
<1> QED
  BY <1>1, <1>2, <1>3, <1>4, <1>5, <1>6, <1>7 DEF DiscNext

-----------------------------------------------------------------------------
(* However many devices there are and in whatever order scans, delays,       *)
(* openings and closings end, the types of PortDiscoveryService's books hold.*)
THEOREM PortTypeCorrect ==
    DiscSpec => []DiscTypeOK
<1>1. DiscInit => DiscInv
  BY DiscInitInv
<1>2. DiscInv /\ [DiscNext]_discVars => DiscInv'
  BY StepInv
<1>3. DiscInv => DiscTypeOK
  BY DiscTypeParts DEF DiscInv
<1> QED
  BY <1>1, <1>2, <1>3, PTL DEF DiscSpec

(* _connectedPorts$ knows every port that this process holds open once its   *)
(* delay, opening and closing are over, and only ports of the last scan, so  *)
(* that a removal closes it: unless a path was opened twice at a time.       *)
THEOREM OpenPortsTracked ==
    DiscSpec => []OpenIsTracked
<1>1. DiscInit => DiscInv
  BY DiscInitInv
<1>2. DiscInv /\ [DiscNext]_discVars => DiscInv'
  BY StepInv
<1>3. DiscInv => OpenIsTracked
  BY DEF DiscInv
<1> QED
  BY <1>1, <1>2, <1>3, PTL DEF DiscSpec

-----------------------------------------------------------------------------
(* The two parts beside each other.                                          *)

LEMMA PartsBesideStep ==
    ASSUME LockInv, DiscInv, [LocksRun \/ PortsRun]_locksAndPortsVars
    PROVE  LockInv' /\ DiscInv'
<1>1. [LockNext]_lockVars
  BY DEF LocksRun, PortsRun, locksAndPortsVars
<1>2. [DiscNext]_discVars
  BY DEF LocksRun, PortsRun, locksAndPortsVars
<1>3. LockInv'
  BY <1>1, NextInv
<1>4. DiscInv'
  BY <1>2, StepInv
<1> QED
  BY <1>3, <1>4

\* The locks, and the discovery of ports beside them: every variable of either keeps its
\* type, whichever of them runs.
THEOREM LocksAndPortsTypeCorrect == LocksAndPortsSpec => []LocksAndPortsTypeOK
<1>1. LocksAndPortsInit => LockInv /\ DiscInv
  BY LockInitInv, DiscInitInv DEF LocksAndPortsInit
<1>2. LockInv /\ DiscInv /\ [LocksRun \/ PortsRun]_locksAndPortsVars => (LockInv /\ DiscInv)'
  BY PartsBesideStep
<1>3. LockInv /\ DiscInv => LocksAndPortsTypeOK
  BY LockTypeParts, DiscTypeParts DEF LocksAndPortsTypeOK, LockInv, DiscInv
<1> QED
  BY <1>1, <1>2, <1>3, PTL DEF LocksAndPortsSpec
=============================================================================
