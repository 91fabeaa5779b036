---------------------------- MODULE LockProtocol ----------------------------
(* How the hardware bridge talks to a control unit: the messages of the CU   *)
(* protocol, and what ControlUnitLockService makes of the replies.  Bytes    *)
(* that never change are left out; a reply is what its fields say.           *)
EXTENDS Integers, Sequences, Functions

CONSTANTS LockCount  \* locks of a board, 48 in the code

ASSUME ProtocolAssumption == LockCount \in Nat \ {0}

DefaultLockIds == [i \in 1..LockCount |-> i]

\* createMessage: locks are counted from 0 on the line; an id that is out of range is
\* taken for the nearest lock, and a status is asked of the board as a whole.
ProtocolLockId(lock) ==
    IF lock < 1 THEN 0 ELSE IF lock > LockCount THEN LockCount - 1 ELSE lock - 1

CreateMessage(command, device, lock) ==
    [command |-> command, device |-> device, lock |-> ProtocolLockId(lock)]

\* createMessages: a message for each lock.  Without ids a status takes one message
\* and an opening is for every lock of the board.
CreateMessages(command, device, locks) ==
    LET asked == IF locks # <<>> THEN locks
                 ELSE IF command = "GET_STATUS" THEN <<0>> ELSE DefaultLockIds
    IN  [i \in DOMAIN asked |-> CreateMessage(command, device, asked[i])]

\* A request without ids is about every lock of the board.
AskedLocks(locks) == IF locks = <<>> THEN 1..LockCount ELSE Range(locks)

\* A longer reply has a bit for every lock: bit (lockId - 1) % 8 of byte 4 + (lockId - 1) / 8,
\* counted from 0.  A byte is the set of its bits that are 1.
StatusByte(lock) == 4 + (lock - 1) \div 8
StatusBit(lock) == (lock - 1) % 8
HasStatus(bytes, lock) == StatusByte(lock) \in DOMAIN bytes
ReadsClosed(bytes, lock) == StatusBit(lock) \in bytes[StatusByte(lock)]

\* The reply whose bits say that these locks are closed.  A board is taken to send what
\* the code reads, from byte 4 on; the comment above parseResponse has a length there and
\* the statuses behind it, and no board is in the repository to tell which is right.
BoardFrame(closed) ==
    [byte \in 0..(4 + (LockCount - 1) \div 8) |->
        {bit \in 0..7 : byte >= 4 /\ 8 * (byte - 4) + bit + 1 \in closed}]

\* parseResponse: a reply that is too short, no CU reply, or of another board says
\* nothing; one of six bytes is about the lock that was opened.
ParseResponse(device, locks, reply) ==
    LET success == reply.valid /\ reply.device = device
    IN  [isSuccess |-> success,
         lockStatuses |->
            IF ~success THEN <<>>
            ELSE IF reply.opened # {} THEN [l \in reply.opened |-> "OPENED"]
            ELSE [l \in {a \in AskedLocks(locks) : HasStatus(reply.bytes, a)} |->
                     IF ReadsClosed(reply.bytes, l) THEN "CLOSED" ELSE "OPENED"]]

\* _filterStatus: a status for every lock that was asked for, if only "undefined".
FilterStatus(locks, statuses) ==
    IF locks = <<>> THEN statuses
    ELSE [l \in Range(locks) |-> IF l \in DOMAIN statuses THEN statuses[l] ELSE "undefined"]

\* _handleMultipleRequest: an opening asks for the status as well ...
Written(command, device, locks) ==
    CreateMessages(command, device, locks) \o
    (IF command = "OPEN_LOCK" THEN CreateMessages("GET_STATUS", device, locks) ELSE <<>>)

\* ... and one reply is read, whatever was asked.
Response(device, locks, reply) ==
    LET parsed == ParseResponse(device, locks, reply)
    IN  [parsed EXCEPT !.lockStatuses = FilterStatus(locks, @)]
=============================================================================
