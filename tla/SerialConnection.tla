-------------------------- MODULE SerialConnection --------------------------
(* The connections of one serial path in SerialPortAdapter                  *)
(* (libs/serialport): opening with retries, the callbacks that outlive a    *)
(* connection, and onData(), which hands the next buffered datum to the     *)
(* oldest waiting request.  Paths share nothing, so one path is enough.     *)
(* A connection object replaced in the map goes on with what it had         *)
(* started: conn keeps every object that was ever made.                     *)
EXTENDS Naturals, Sequences, FiniteSets

CONSTANTS Requests,      \* calls that write a message and wait for its answer
          Listeners,     \* callbacks of onDataStream
          MaxConns,      \* bound: connection objects made for the path
          MaxAttempts,   \* options.maxReconnectAttempts
          BufferSize,    \* bufferStrategy.size, in bytes
          MaxBuffer,     \* bufferStrategy.maxBufferSize, in bytes
          Options,       \* the options of the path
          MaxFaults,     \* bound: things that go wrong
          End            \* the byte that ends an answer

ASSUME SerialAssumption ==
    /\ End \notin Requests
    /\ {MaxConns, MaxAttempts, BufferSize, MaxBuffer} \subseteq Nat \ {0}
    /\ MaxFaults \in Nat

VARIABLES conn,          \* connection objects by number
          made,          \* how many objects exist
          current,       \* the object in _connections, 0 for none
          persistent,    \* _persistentDataCallbacks
          options,       \* reconnectStrategy and bufferStrategy of the path
          destroyed,     \* _isDestroyed
          closing,       \* close() awaits port.close()
          device,        \* the object whose port holds the device, 0 for none
          line,          \* bytes the device has sent and the parser not seen
          asks,          \* the requests
          interrupted,   \* history: open or close met a connecting object
          disturbed,     \* history: answers and requests got out of step
          faults         \* how many things went wrong

serialVars == <<conn, made, current, persistent, options, destroyed, closing,
                device, line, asks, interrupted, disturbed, faults>>

ConnIds == 1..MaxConns
\* 'exponential' differs from 'retry' in its delays alone.
ReconnectStrategy == {"retry", "interval"}
BufferType == {"none", "time", "size", "delimiter", "combined"}
Byte == Requests \cup {End}

SerialOptions == [reconnect : ReconnectStrategy, buffer : BufferType]
Connection == [port : {"none", "opening", "open", "shut"}, isOpen : BOOLEAN,
               connecting : BOOLEAN, tries : 0..MaxAttempts,
               opener : {"attempt", "sleep", "ended"}, listening : BOOLEAN,
               callbacks : SUBSET Listeners, raw : Seq(Byte), timer : BOOLEAN,
               queue : Seq(Seq(Byte)), resolvers : Seq(Requests),
               rejecters : SUBSET Requests]
AskState == [pc : {"idle", "written", "waiting", "answered", "timeout", "error"},
             got : Seq(Byte), askew : BOOLEAN]

Unmade == [port |-> "none", isOpen |-> FALSE, connecting |-> FALSE, tries |-> 0,
           opener |-> "ended", listening |-> FALSE, callbacks |-> {},
           raw |-> <<>>, timer |-> FALSE, queue |-> <<>>, resolvers |-> <<>>,
           rejecters |-> {}]

\* What the device answers: two bytes, so that the line can split an answer.
Answer(r) == <<r, End>>

SerialInit ==
    /\ conn = [c \in ConnIds |-> Unmade]
    /\ made = 0 /\ current = 0 /\ device = 0
    /\ persistent = {} /\ options \in Options \cap SerialOptions
    /\ destroyed = FALSE /\ closing = FALSE /\ line = <<>>
    /\ asks = [r \in Requests |-> [pc |-> "idle", got |-> <<>>, askew |-> FALSE]]
    /\ interrupted = FALSE /\ disturbed = FALSE /\ faults = 0

\* One of the bounded number of faults.
Fault == faults < MaxFaults /\ faults' = faults + 1

Connecting(c) == c # 0 /\ conn[c].opener # "ended"

\* _attemptPortOpen up to port.open(); a fresh port gets its listeners.
Attempting(k) == [k EXCEPT !.port = "opening", !.connecting = TRUE,
                           !.opener = "attempt", !.listening = TRUE]

\* _restorePersistentCallbacks: what listened to the path listens to the new object.
Restored(k) == [k EXCEPT !.callbacks = persistent]

\* open() of a path that is not open: the new object replaces the old one.
PortOpen ==
    /\ ~(current # 0 /\ conn[current].isOpen)
    /\ made < MaxConns
    /\ LET fresh == Restored(Unmade)
       IN  conn' = [conn EXCEPT ![made + 1] =
                        IF destroyed THEN fresh ELSE Attempting(fresh)]
    /\ made' = made + 1
    /\ current' = made + 1
    /\ interrupted' = (interrupted \/ Connecting(current))
    /\ UNCHANGED <<persistent, options, destroyed, closing, device, line, asks, disturbed,
                   faults>>

\* port.open() reports success: the 'open' event, then the callback.
PortOpened(c) ==
    /\ conn[c].opener = "attempt" /\ device = 0
    /\ device' = c
    /\ conn' = [conn EXCEPT ![c] =
           IF @.listening
           THEN [@ EXCEPT !.port = "open", !.opener = "ended",
                          !.isOpen = TRUE, !.connecting = FALSE]
           ELSE [@ EXCEPT !.port = "open", !.opener = "ended"]]
    /\ UNCHANGED <<made, current, persistent, options, destroyed, closing, line,
                   asks, interrupted, disturbed, faults>>

\* The callback of port.open() with an error.
OpenFailed(k) == [k EXCEPT !.port = "shut", !.connecting = FALSE]

\* port.open() reports an error: the last attempt of a blocking strategy gives
\* up, the others sleep; 'interval' never gives up.
PortOpenFailed(c) ==
    /\ Fault
    /\ conn[c].opener = "attempt"
    /\ LET more == options.reconnect = "interval" \/ conn[c].tries + 1 < MaxAttempts
           tries == IF options.reconnect = "interval" THEN conn[c].tries
                    ELSE conn[c].tries + 1
       IN  conn' = [conn EXCEPT ![c] =
               [OpenFailed(@) EXCEPT !.tries = tries,
                                     !.opener = IF more THEN "sleep" ELSE "ended"]]
    /\ UNCHANGED <<made, current, persistent, options, destroyed, closing, device,
                   line, asks, interrupted, disturbed>>

\* The sleep between two attempts ends.
PortRetry(c) ==
    /\ conn[c].opener = "sleep"
    /\ conn' = [conn EXCEPT ![c] =
           IF destroyed THEN [@ EXCEPT !.opener = "ended"] ELSE Attempting(@)]
    /\ UNCHANGED <<made, current, persistent, options, destroyed, closing, device,
                   line, asks, interrupted, disturbed, faults>>

\* _cleanupConnection: the map entry goes, the persistent callbacks stay.
Cleaned(k) == [k EXCEPT !.listening = FALSE, !.callbacks = {}, !.timer = FALSE,
                        !.queue = <<>>, !.resolvers = <<>>, !.rejecters = {}]

\* Variant: an open port is forgotten like one that is not open.
ForgetAny ==
    /\ current # 0 /\ ~closing
    /\ conn' = [conn EXCEPT ![current] = Cleaned(@)]
    /\ current' = 0
    /\ interrupted' = (interrupted \/ Connecting(current))
    /\ UNCHANGED <<made, persistent, options, destroyed, closing, device, line,
                   asks, disturbed, faults>>

\* close() of a path whose port is not open.
PortForget ==
    /\ current # 0 /\ ~closing /\ conn[current].port # "open"
    /\ conn' = [conn EXCEPT ![current] = Cleaned(@)]
    /\ current' = 0
    /\ interrupted' = (interrupted \/ Connecting(current))
    /\ UNCHANGED <<made, persistent, options, destroyed, closing, device, line,
                   asks, disturbed, faults>>

\* close() of an open port: port.close() is awaited ...
PortClose ==
    /\ current # 0 /\ ~closing /\ conn[current].port = "open"
    /\ closing' = TRUE
    /\ conn' = [conn EXCEPT ![current].timer = FALSE]
    /\ UNCHANGED <<made, current, persistent, options, destroyed, device, line,
                   asks, interrupted, disturbed, faults>>

\* ... and succeeds: the 'close' event, then _cleanupConnection.
PortClosed ==
    /\ closing /\ current # 0
    /\ closing' = FALSE
    /\ conn' = [conn EXCEPT ![current] =
                   Cleaned([@ EXCEPT !.port = "shut", !.isOpen = FALSE])]
    /\ device' = IF device = current THEN 0 ELSE device
    /\ line' = IF device = current THEN <<>> ELSE line
    /\ current' = 0
    /\ UNCHANGED <<made, persistent, options, destroyed, asks, interrupted, disturbed,
                   faults>>

\* ... or fails: the connection stays as it is.
PortCloseFailed ==
    /\ Fault
    /\ closing /\ closing' = FALSE
    /\ UNCHANGED <<conn, made, current, persistent, options, destroyed, device,
                   line, asks, interrupted, disturbed>>

\* The device is unplugged: the 'close' event of the port that held it.
Unplugged ==
    /\ Fault
    /\ device # 0 /\ ~closing
    /\ conn' = [conn EXCEPT ![device].port = "shut",
                            ![device].isOpen = @ /\ ~conn[device].listening]
    /\ device' = 0 /\ line' = <<>>
    /\ disturbed' = TRUE
    /\ UNCHANGED <<made, current, persistent, options, destroyed, closing, asks,
                   interrupted>>

\* onModuleDestroy; the closes of dispose() are PortClose and PortForget.
Destroy ==
    /\ Fault
    /\ ~destroyed /\ destroyed' = TRUE
    /\ UNCHANGED <<conn, made, current, persistent, options, closing, device, line,
                   asks, interrupted, disturbed>>

DisposeCallbacks ==
    /\ destroyed /\ current = 0 /\ persistent # {}
    /\ persistent' = {}
    /\ UNCHANGED <<conn, made, current, options, destroyed, closing, device, line,
                   asks, interrupted, disturbed, faults>>

\* onDataStream and the function it returns.
Subscribe(l) ==
    /\ l \notin persistent /\ ~destroyed
    /\ persistent' = persistent \cup {l}
    /\ conn' = IF current = 0 THEN conn
               ELSE [conn EXCEPT ![current].callbacks = @ \cup {l}]
    /\ UNCHANGED <<made, current, options, destroyed, closing, device, line, asks,
                   interrupted, disturbed, faults>>

Unsubscribe(l) ==
    /\ l \in persistent
    /\ persistent' = persistent \ {l}
    /\ conn' = IF current = 0 THEN conn
               ELSE [conn EXCEPT ![current].callbacks = @ \ {l}]
    /\ UNCHANGED <<made, current, options, destroyed, closing, device, line, asks,
                   interrupted, disturbed, faults>>

-----------------------------------------------------------------------------
(* Requests: write(), then onData().                                        *)

Pending == {r \in Requests : asks[r].pc \in {"written", "waiting"}}

\* write(); the device answers at once or not at all.  Two requests at a time,
\* or one before the last answer is consumed, are out of step from here on.
WriteRequest(r) ==
    /\ asks[r].pc = "idle"
    /\ current # 0 /\ conn[current].port = "open"
    /\ asks' = [asks EXCEPT ![r].pc = "written"]
    /\ \/ line' = line \o Answer(r) /\ UNCHANGED faults
       \/ line' = line /\ Fault
    /\ disturbed' = (disturbed \/ Pending # {} \/ line # <<>> \/ line' = line)
    /\ UNCHANGED <<conn, made, current, persistent, options, destroyed, closing,
                   device, interrupted>>

Answered(a, datum, skew) == [a EXCEPT !.pc = "answered", !.got = datum, !.askew = skew]

\* onData(): a queued datum at once, or a place in the queue of resolvers.
OnData(r) ==
    /\ asks[r].pc = "written"
    /\ \/ /\ current = 0
          /\ asks' = [asks EXCEPT ![r].pc = "error"]
          /\ disturbed' = TRUE
          /\ UNCHANGED conn
       \/ /\ current # 0 /\ conn[current].queue # <<>>
          /\ asks' = [asks EXCEPT ![r] = Answered(@, Head(conn[current].queue), disturbed)]
          /\ conn' = [conn EXCEPT ![current].queue = Tail(@)]
          /\ UNCHANGED disturbed
       \/ /\ current # 0 /\ conn[current].queue = <<>>
          /\ asks' = [asks EXCEPT ![r].pc = "waiting"]
          /\ conn' = [conn EXCEPT ![current].resolvers = Append(@, r),
                                  ![current].rejecters = @ \cup {r}]
          /\ UNCHANGED disturbed
    /\ UNCHANGED <<made, current, persistent, options, destroyed, closing, device,
                   line, interrupted, faults>>

\* The 30 s timeout looks for functions that are no longer in the arrays: the
\* request fails and its place in the queue of resolvers stays.
RequestTimeout(r) ==
    /\ Fault
    /\ asks[r].pc = "waiting"
    /\ asks' = [asks EXCEPT ![r].pc = "timeout"]
    /\ disturbed' = TRUE
    /\ UNCHANGED <<conn, made, current, persistent, options, destroyed, closing,
                   device, line, interrupted>>

\* An 'error' event rejects every waiting request and leaves the resolvers.
PortError ==
    /\ Fault
    /\ device # 0 /\ conn[device].listening /\ conn[device].rejecters # {}
    /\ LET failed == {r \in conn[device].rejecters : asks[r].pc = "waiting"}
       IN  /\ asks' = [r \in Requests |->
                          IF r \in failed THEN [asks[r] EXCEPT !.pc = "error"] ELSE asks[r]]
           /\ disturbed' = (disturbed \/ failed # {})
    /\ conn' = [conn EXCEPT ![device].rejecters = {}]
    /\ UNCHANGED <<made, current, persistent, options, destroyed, closing, device,
                   line, interrupted>>

-----------------------------------------------------------------------------
(* Data: the parser's 'data' event and _processBufferStrategy.              *)

\* Variant: the resolvers are served before the data is queued.
EmittedLate(k, data) ==
    LET n == IF Len(k.queue) < Len(k.resolvers) THEN Len(k.queue) ELSE Len(k.resolvers)
    IN  [k EXCEPT !.queue = SubSeq(@, n + 1, Len(@)) \o data,
                  !.resolvers = SubSeq(@, n + 1, Len(@))]

\* _emitBufferedData of several data in a row: the oldest resolvers get the
\* oldest data, what is left over stays in its queue.
Emitted(k, data) ==
    LET q == k.queue \o data
        n == IF Len(q) < Len(k.resolvers) THEN Len(q) ELSE Len(k.resolvers)
    IN  [k EXCEPT !.queue = SubSeq(q, n + 1, Len(q)),
                  !.resolvers = SubSeq(@, n + 1, Len(@))]

\* What the resolvers that fire do to their requests; one that timed out or was
\* rejected before takes its datum with it.
Delivered(k, data, skew) ==
    LET q == k.queue \o data
        turns(r) == {i \in 1..Len(k.resolvers) : i <= Len(q) /\ k.resolvers[i] = r}
    IN  [r \in Requests |->
            IF asks[r].pc = "waiting" /\ turns(r) # {}
            THEN Answered(asks[r], q[CHOOSE i \in turns(r) : TRUE], skew)
            ELSE asks[r]]

\* The pieces between delimiters, and what follows the last one.
Ends(s) == {i \in 1..Len(s) : s[i] = End}

\* Variant: what was emitted stays in the buffer.
AfterNothing(s) == s

After(s) == IF Ends(s) = {} THEN s
            ELSE SubSeq(s, 1 + CHOOSE i \in Ends(s) : \A j \in Ends(s) : j <= i, Len(s))

\* Where the piece before the delimiter at i starts.
PieceStart(s, i) ==
    IF \E j \in Ends(s) : j < i
    THEN 1 + CHOOSE j \in Ends(s) : j < i /\ \A k \in Ends(s) : k < i => k <= j
    ELSE 1

\* The n-th smallest number of a set.
Nth(set, n) == CHOOSE i \in set : Cardinality({j \in set : j <= i}) = n

Pieces(s) ==
    LET full == {i \in Ends(s) : PieceStart(s, i) < i}
        piece(i) == SubSeq(s, PieceStart(s, i), i - 1)
    IN  [n \in 1..Cardinality(full) |-> piece(Nth(full, n))]

\* _processBufferStrategy: what a chunk emits, keeps, and whether it (re)starts
\* the timer.
Buffering(k, chunk) ==
    LET all == k.raw \o chunk
        step(emit, raw, timer) == [emit |-> emit, raw |-> raw, timer |-> timer]
    IN  CASE options.buffer = "none" -> step(<<chunk>>, k.raw, k.timer)
          [] options.buffer = "time" -> step(<<>>, all, TRUE)
          [] options.buffer = "size" -> IF Len(all) >= BufferSize
                                        THEN step(<<all>>, <<>>, k.timer)
                                        ELSE step(<<>>, all, k.timer)
          [] options.buffer = "delimiter" -> IF Len(all) > MaxBuffer
                                             THEN step(<<>>, <<>>, k.timer)
                                             ELSE step(Pieces(all), After(all), k.timer)
          [] options.buffer = "combined" -> IF Len(all) >= BufferSize
                                            THEN step(<<all>>, <<>>, k.timer)
                                            ELSE step(<<>>, all, TRUE)

\* Part of an answer alone, where the strategy passes it on as it is.
OutOfStep(n) ==
    \/ disturbed \/ device # current
    \/ /\ line[n] # End
       /\ \/ options.buffer \in {"none", "time", "combined"}
          \/ options.buffer = "size" /\ Len(conn[device].raw) + n >= BufferSize

\* A chunk of n bytes reaches the port that holds the device.
DataArrives(n) ==
    /\ device # 0 /\ n \in 1..Len(line)
    /\ LET chunk == SubSeq(line, 1, n)
           b == Buffering(conn[device], chunk)
       IN  IF conn[device].listening
           THEN /\ conn' = [conn EXCEPT ![device] =
                       [Emitted(@, b.emit) EXCEPT !.raw = b.raw, !.timer = b.timer]]
                /\ asks' = Delivered(conn[device], b.emit, OutOfStep(n))
           ELSE UNCHANGED <<conn, asks>>
    /\ line' = SubSeq(line, n + 1, Len(line))
    /\ disturbed' = OutOfStep(n)
    /\ UNCHANGED <<made, current, persistent, options, destroyed, closing, device,
                   interrupted, faults>>

\* The buffer timer of 'time' and 'combined'.
BufferTimeout(c) ==
    /\ conn[c].timer
    /\ LET data == IF conn[c].raw = <<>> THEN <<>> ELSE <<conn[c].raw>>
       IN  /\ conn' = [conn EXCEPT ![c] =
                  [Emitted(@, data) EXCEPT !.raw = <<>>, !.timer = FALSE]]
           /\ asks' = Delivered(conn[c], data, disturbed)
    /\ UNCHANGED <<made, current, persistent, options, destroyed, closing, device,
                   line, interrupted, disturbed, faults>>

-----------------------------------------------------------------------------
SerialNext ==
    \/ PortOpen \/ PortForget \/ PortClose \/ PortClosed \/ PortCloseFailed
    \/ Unplugged \/ Destroy \/ DisposeCallbacks \/ PortError
    \/ \E c \in ConnIds : PortOpened(c) \/ PortOpenFailed(c) \/ PortRetry(c)
                          \/ BufferTimeout(c)
    \/ \E l \in Listeners : Subscribe(l) \/ Unsubscribe(l)
    \/ \E r \in Requests : WriteRequest(r) \/ OnData(r) \/ RequestTimeout(r)
    \/ \E n \in 1..2 * Cardinality(Requests) : DataArrives(n)

SerialSpec == SerialInit /\ [][SerialNext]_serialVars

-----------------------------------------------------------------------------
(* Types: one record per connection object and per request.                 *)
SerialTypeOK ==
    /\ conn \in [ConnIds -> Connection]
    /\ made \in 0..MaxConns /\ current \in 0..made /\ device \in 0..made
    /\ persistent \subseteq Listeners
    /\ options \in SerialOptions
    /\ {destroyed, closing, interrupted, disturbed} \subseteq BOOLEAN
    /\ line \in Seq(Byte) /\ faults \in 0..MaxFaults
    /\ asks \in [Requests -> AskState]

\* A request that gets an answer gets its own and all of it, as long as requests come
\* one at a time and none timed out or was rejected before: onData() pairs answers with
\* requests by their order alone.
AnswerIsMine ==
    \A r \in Requests : asks[r].pc = "answered" /\ ~asks[r].askew =>
        asks[r].got = IF options.buffer = "delimiter" THEN <<r>> ELSE Answer(r)

\* Nobody waits for data while data is queued: _emitBufferedData and onData()
\* never leave both queues filled.
NoIdleData ==
    \A c \in ConnIds : conn[c].queue # <<>> => conn[c].resolvers = <<>>

\* The callbacks of the path are those of its connection, however often it was
\* reopened: _restorePersistentCallbacks and onDataStream agree.
ListenersSurvive == current # 0 => conn[current].callbacks = persistent

\* The device is held by the connection of the map, so that close() can release it,
\* unless open or close met an object that was still connecting: that one goes on and
\* its port belongs to nobody.
DeviceNotOrphaned == device \in {0, current} \/ interrupted

(* A request that is answered in step gets its own answer and all of it: one *)
(* at a time on the path, and none before it was rejected, ran out of time   *)
(* or was split by the buffering. Out of step, answers are paired by order   *)
(* alone and nothing is promised. In any state, no request waits beside data *)
(* that is queued for it, every callback of the path is one of the           *)
(* connection in the map, and that connection is the one that holds the      *)
(* device, unless an open or a close met an object that was still            *)
(* connecting. A close or a reopening does lose the requests that wait:      *)
(* their resolvers go with the old object, and only the time limit ends      *)
(* them.                                                                     *)
RequestsServed == AnswerIsMine /\ NoIdleData /\ ListenersSurvive /\ DeviceNotOrphaned
=============================================================================
