# node-pc: a verification development

TLA+ models, TLC runs and TLAPS proofs for the back end of a tool cabinet: bins
with electric locks and weighing platforms ("loadcells"), from which users issue,
return and replenish items. All paths below are relative to the repository.

## 1. The system

Four NestJS processes and a set of libraries share one MongoDB database and one
MQTT broker:

| process | what it does |
|---|---|
| `apps/inventory` | REST and WebSocket API: plans transactions, administers bins and loadcells |
| `apps/process-worker` | walks a transaction through its steps, keeps the quantities of the loadcells |
| `apps/hardware-bridge` | serial ports: lock boards, loadcells; card reader, fingerprint scanner |
| `apps/sync-worker` | copies master data from a cloud server |

They interact in four ways:

- **MQTT at QoS 0**: at most once, kept for nobody who is away
  (`libs/framework/src/publisher/mqtt/mqtt.publisher.ts`). Every hand-over between
  two handlers of the worker is such a message, also when both run in the worker.
- **TCP request/response** with a time limit and retries, worker and inventory to
  hardware bridge (`.../publisher/tcp/tcp.publisher.ts`), for the locks.
- **MongoDB documents**, read into an entity, changed after some `await`s, and
  flushed: only fields that differ from what was loaded are written, an embedded
  object (`bin.state`, `loadcell.liveReading`) as a whole.
- **Hardware**: a door closed by the user, a weight on a platform.

No process keeps a lock on a document, and there is no transaction of the database.
Node interleaves handlers at every `await`.

### Components, their state, their operations

| component | state | operations | what makes it correct |
|---|---|---|---|
| transaction engine (`process-worker/.../transaction`) | `transactions` (status, currentStepId, lastError), `transaction_events`, `_activePollingLockStatusLoops`, `bins.state` | START, BIN.OPENED, BIN.CLOSED, STEP_SUCCESS, STEP_ERROR, FORCE_NEXT_STEP, TRANSACTION_COMPLETED/FAILED; poll cycle; retries of OPEN | steps taken in order, each settled once; COMPLETED only when all are settled; one handler at a time drives a transaction; it ends |
| quantity check (`quantity-checking.service.ts`) | reads loadcells and earlier events | comparison with the plan, messages to the operator, events | valid iff every change is what was planned; no change is reported twice or without a message |
| histories (`transaction.service.ts`) | `issue_histories`, damage quantities, `bins.state.isDamaged` | on success of an ISSUE or RETURN step | a total is lessened once by what a return brought, although the function throws half way; damage is counted where it came back |
| live quantities (`process-worker/.../loadcell`) | `loadcells`: liveReading (weight, pendingChange), availableQuantity | WEIGHT_CALCULATED; two commits by the transaction | no change is lost or counted twice; nothing stays pending once the bin is locked |
| planning (`inventory/.../item`) | transactions, reads all stock | issue, return, replenish; force request | never plans more than there is; one step per bin; everything the user may touch is tracked |
| bins and locks (`inventory/.../bin`) | `bins.state` | open, close, activate, deactivate | the stored state is that of the lock |
| loadcell administration | `loadcells` | calibrate, unassign, activate | quantity and weight are reset together |
| WebSocket gateway | rooms, start/stop of readings | join, leave, disconnect | a loadcell is read as long as somebody looks |
| lock monitoring (`hardware-bridge/.../culock`) | monitors per board, one status stream | track, poll, auto-close | every open bin is watched; its closing is reported once |
| loadcell bridge (`hardware-bridge/.../loadcell`) | subscriptions | START_READING, STOP_READING, heartbeat, discovery | what is asked for is read; lost devices are reported |
| loadcells (`libs/loadcells`) | ports, active set, device states | start, stop, hot-plug, polling | polling follows the active set over reconnections |
| lock boards (`libs/control-unit-lock`) | one serial port per board | open, status; CU and SCU encodings | an answer goes to its request; ids survive encoding |
| serial ports (`libs/serialport`) | port pool | open, retry, monitor | a port is opened once, reopened after loss |
| card reader, fingerprint (`hardware-bridge`, `libs/fingerprint-scanner`) | device handle | scan, reconnect | scanning resumes after unplugging |
| sync worker | master data | paging, upsert | every page once; local state is not overwritten |
| authentication (`inventory/.../auth`) | `_signatureMap` with its timers | scan of a card, PIN, expiry | a signature decides one login; no login without one where a tablet asks for it |
| ids, cache, users, roles, settings | - | plumbing | ids are unique |

What is hard to test, line by line, is the list `hazards` in `PROJECT.json`: stale
entities, hand-overs by messages that may be lost, overlapping poll cycles, restarts
that forget watched locks, force requests at any moment, steps that throw half way,
and three writers that commit the same pending change.

## 2. Modules

| module | models | state: |
|---|---|---|
| `TransactionWorker` | the engine: `transaction.controller.ts`, `quantity-checking.controller.ts`, `transaction.service.ts`, the watching part of `quantity-checking.service.ts`; with the operator's requests and the doors | done |
| `TransactionLifecycle` | the abstract promise of the engine | done |
| `TransactionWorkerProofs` | its inductive invariants: what was settled, who drives a transaction, and that the engine implements `TransactionLifecycle` | done |
| `LoadcellQuantity` | one loadcell: `loadcell.service.ts` and the two commits of `transaction.service.ts` | done |
| `StepPlanning` | the planning of an issue, a return, a replenishment: `issue-item.service.ts`, `return-item.service.ts`, `replenish-item.service.ts` and their queries | done for weighed items, and the refusal of items a bin only lists |
| `ItemListing` | the lists of items a user picks requests from: the aggregations of the three item repositories | done |
| `BinListing` | the bins on the screen: `bin.service.ts` compartments and details | done |
| `QuantityCheck` | the verdict on a step: `_validateChange`, `_calculateFinalStepResult` | done for weighed items |
| `PlanAndCheck` | both composed: a plan, a user, a verdict at every bin | done |
| `PlanAndCheckProofs` | plans add up and fit, a valid step touched nothing else, an honest step is valid, lists and plans agree | done |
| `LockProtocol` | the messages of a control unit and what a reply says, bit by bit of its statuses: `cu.protocol.ts`, `control-unit-lock.service.ts` (operators only) | done for the CU protocol |
| `LockBoard` | opening, watching and booking of locks: `bin.service.ts`, `lock-tracking.service.ts`, the calls between them | done |
| `PortDiscovery` | the scans that find serial ports: `port-discovery.service.ts` | done |
| `SerialConnection` | one serial path: `serialport.adapter.ts` | done |
| `LoadcellBus` | rooms, requests to read, polling, ports: `ws.gateway.ts`, `loadcell-bridge.service.ts`, `loadcells.service.ts`, `libs/loadcells` discovery and adapters | done |
| `LoadcellHealth` | heartbeats and hooks: `loadcells-monitoring.service.ts` | done |
| `LoadcellRegistry` | the documents of loadcells: calibrate, unassign, provisioning | done |
| `IssueHistory` | what `handleStepSuccess` does to the history of a user and an item, to damage and to bins | done for loadcells |
| `CloudSync` | the copying of a collection: `sync-worker.service.ts`, `mapper.ts` | done |
| `Snowflake` | the generator of ids | done |
| `CardReader` | `libs/hid` and `card-scan.service.ts` | done |
| `ScannerProcess` | `fingerprint-process.service.ts` and the verification that restarts it | done |
| `CardLogin` | login by card and PIN: `auth.service.ts`, `auth-card.controller.ts` | done |
| `LocksAndPortsProofs` | theorems about `LockBoard` and `PortDiscovery`, alone and beside each other | done |
| `BooksProofs` | theorems about `LoadcellQuantity` and `IssueHistory` | done |
| `HardwareProofs` | theorems about `ScannerProcess`, `LoadcellHealth`, `LoadcellBus`, `CardReader` and `SerialConnection` | done |
| `InventoryProofs` | theorems about `CloudSync`, `CardLogin`, `Snowflake` and `LoadcellRegistry` | done |
| `PartsProofs` | that each of the ten parts of `MCParts` keeps its promise beside the others | done |
| `SumTheorems` | sums over finite sets: the lemmas that plans, lists and histories need | done |
| `MCTransactionWorker`, `MCLoadcellQuantity`, `MCPlanAndCheck`, `MCLocksAndPorts`, `MCParts` | small instances for TLC | done |

### TransactionWorker

A handler is a frame in `run[h]`: its program counter, its transaction, and what it
has read (the transaction entity, the bin's state). One action is the code between
two awaits. The first action of a handler (`On...`) takes the message and reads the
document, later actions use the copy, and `Flush` writes the fields that differ from
what was loaded - so a stale entity overwrites exactly what the code overwrites.

| action | code |
|---|---|
| `CreateAndStart` | `createAndStartTransaction` of the inventory service |
| `OnStart`, `BeginProcessing` | `process` |
| `ExecuteStep`, `FailTransaction` | `_executeStep` up to the lock, `_failTransaction` |
| `LockOpens`, `LockFails`, `GiveUp`, `ReportOpenFailure` | `_attemptToOpenLockWithRetry`, `_handleLockOpenFailure`, `handleStepFail` |
| `TriggerReading`, `AnnounceOpened` | the rest of `_executeStep` |
| `OnBinOpened`, `ArmPolling` | `handleBinOpened`, `_startPolling` |
| `PollTick`, `PollSees...`, `AnnounceClosed` | one cycle of the interval |
| `OnBinClosed`, `CheckQuantities` | `handleBinClosed` and its outcome |
| `OnStepSuccess`, `RecordHistory`, `Advance` | `handleStepSuccess`, `_advanceToNextStep`, `_completeTransaction` |
| `OnStepError`, `OnErrorAnnounced` | `handleStepFail` and the error on the screen |
| `OnForceNext`, `OnForceEnd` | `forceNextStep` |
| `OnEnded` | `handleTxComplete`, `handleTxError` |
| `CloseDoor`, `Answer`, `Lose`, `Crash` | user, operator, broker, restart |

Two things may **upset** a transaction: a poll cycle that starts while its previous one, or
the BIN.CLOSED that this sent, is still under way (`PollTick`; the interval does not wait), and
a force request that no error asked for (`Answer`; the request is forwarded unchecked). Nothing
in the code prevents either, and after either one the transaction may be driven twice: two
checks of a step, two credits. The history variable `upset` holds the transactions it
happened to (`Upsets`). What the engine promises in spite of it, that no step is jumped and each
credit rests on a check, is stated of all transactions; that one thing drives a transaction
and each step is settled once is stated of those that were not upset, whatever happens to
the others. `Unruly` bounds which transactions may be upset; all of `Txs` is the program.

Abstractions, and why they keep the behaviour:

- Messages are a bag: any order of delivery. A client's messages are ordered by the
  broker, but the handlers they start are not, so the model has what can happen and more.
- A publish belongs to the write just before it. A crash between the two is a crash
  after it together with a lost message, which `Crash` includes.
- A step id is the index of the step; the ids embed it. A plan visits a bin once
  (`_groupPlanByBin`), so that a message about a bin names its step.
- What the comparison of quantities finds is a choice of `CheckQuantities` (two
  results; whether anything was taken). A history is a count per step.
- The history of an issued item that is not consumable throws at `getRequired(event.bin)`
  (`transaction.service.ts:510`): quantity checking inserts its events without the column that
  the bin of an event is read from (`HistoryThrows`). The model says so and lets the handler end.
- Every step is about a bin with loadcells. Requests for unweighed items do not get past
  the planner (section "StepPlanning"), so that the loadcell id 'N/A' of their steps, which
  the commit of a step could not parse, does not reach the engine.
- The screen is not in the repository. It shows a popup on STEP_ERROR without a step
  and sends one of the two force requests, as the API describes.
- A lock board that answers nothing makes a poll cycle see nothing. An answer without any
  status counts as "all closed", because the code asks for `every` of an empty list
  (`PollSeesNoStatus`), whatever the door does.
- The end of a transaction stops the reading of all its bins, also of one that another
  transaction has open; `stopped` keeps the steps it did this to.

### TransactionLifecycle

The promise: steps are entered in the order of the plan, one at a time; each is
settled once - credited, or skipped by the operator - before the next is entered; an
outcome is given once, for good, after the last step is settled or when the operator
abandons the transaction. `TransactionWorker!Refinement` maps the engine to it: `at`
is `currentStepId`, the verdict of a step comes from how often its history was
processed and whether it was skipped, the outcome is the terminal status. Of a transaction that
was upset nothing is promised (outcome "upset"); the promise to the others stands.

### LoadcellQuantity

A weighing (the handler of WEIGHT_CALCULATED) loads the loadcell, awaits its bin, and
writes; two of them may overlap (`Slots`). The transaction opens and closes the bin
and commits: once after a successful step, once when it is over. Weights are in
hundredths of a unit weight, and `Rounded` is the code's rounding with its dead zone.
A forced end commits nothing and stops no reading (`StepEnds` to `idle`).

`Apart` says that the transaction's writes and the changes of the lock do not overlap
with a weighing (which takes milliseconds). It is an assumption about timing that the
code does not enforce: the run `loadcell_backup` drops it. A weighing that starts
after the lock was locked again sees a change of weight that nobody adds to the books;
the code does so on purpose (the weight is the new reference) and the history variable
`ignored` adds these changes up.

Loadcells that are provisioned on their first message are in `LoadcellRegistry`; the
weights of those that are not calibrated only set `currentWeight` and are not modelled.

### StepPlanning, QuantityCheck, PlanAndCheck

The three planning services run the same loop: take the loadcells of the requested item
in some order, give each as much of the request as it has room for, remember the rest of
its bin as "keep track of", throw if something is left over. `StepPlanning` has one
action per round (`Allocate`), one for the end of a request (`FinishItem`, which takes
the allocated loadcells off the tracking lists) and one for every way to throw
(`Refuse`: nothing is planned). What differs between the services is in five operators:

| operator | ISSUE | RETURN | REPLENISH |
|---|---|---|---|
| `Room` | available quantity | what the user took from there | calibrated - available |
| `Reachable` | requested bins that are neither failed nor damaged | bins of the history | all bins but failed and damaged ones |
| `ComesBefore` | bins the user knows first | - | least stocked first, by share |
| `TrackedAtFirst` | everything in the bin; throws for a loadcell without item | loadcells with an item | everything in the bin |
| `AllocatedIds` | of this request | of all requests | of this request |

A step per bin (`_groupPlanByBin` and its two sisters) is a view of the plan:
`EntriesIn`, `PlannedIn`, `KeepTrack`. Which of several loadcells of equal priority
comes first is open, as the database leaves it open.

`QuantityCheck` is the comparison without state: `Passes` is one round of the loop of
`_calculateFinalStepResult`, `Conforms` is `_validateChange`. `PlanAndCheck` composes
them: `UseBin` is a user who leaves the open bin with any quantities, and the verdict of
`handleBinClosed`. Nobody else touches the cabinet between plan and step, and all
loadcells are calibrated; a history is kept per loadcell, and its loadcells still have
the item they had.

A bin may also *list* items that are not weighed (`Listed`, the `items[]` of the cloud).
`findNormalItemsForIssue` looks for them by fields that the documents do not have, so it
finds none, and a request for such an item is refused; a weighed item requested at a bin
that lists any of the requested items is refused with it (`StepPlanning!Refuse`).

Not in these modules: the messages to the operator and the transaction events. Four
peculiarities of that code: the message of a missing loadcell is dropped by the `continue`
at `quantity-checking.service.ts:210`; `output.isValid` of an event is that of the step so
far; `_groupReturnPlanByBin` marks every returned item as weighed
(`return-item.service.ts:251`), so that the return of any other item is invalid; and an
`ISSUE` whose bin has a loadcell without item is refused by an exception.

### ItemListing, BinListing

Operators over the cabinet of `StepPlanning`. `ItemListing` is what the three lists of items
say: a row per item and bin with its quantities and flags, and `Offered`, the requests such a
row lets a user make. `BinListing` is what the screen says of bins: the status of a
compartment and, computed again by another query, of a bin and its items. `ListsAgree`
relates lists, compartments, details and plans, and names where the code makes them differ:

- the plan looks neither at expiry dates nor at the room of a bin as a whole, so that
  `Offered` is sufficient for a plan and not necessary;
- an item that a bin only lists is offered and never issued;
- the details of a bin of type LOADCELL leave out its `items[]`;
- a compartment below its minimum or above its maximum counts as good, and an empty bin
  without loadcells as unavailable (`every` of nothing).

### LockBoard, LockProtocol

Three programs meet at a lock. Actions of inventory: `OpenBin`, `OpenSucceeds`,
`OpenRefused`, `OpenTimesOut`, `LateOpen`, `AskForTracking`, `SaveOpened` (`BinService.open`
between its awaits, with the retries of the TCP publisher), `OpenCabinet`, `SaveCabinet`,
`LoadForSet`, `SaveSet` (activate and deactivate), `LoadForClose`, `SaveClosed`,
`StopReadingDue`. Actions of the bridge: `Track`,
`PollLock`, `PollAnswered`, `MonitorTimeout`, `BridgeRestarts`. The user is `ShutDrawer`.

`books` is `BinEntity.state`, an embedded object that is written as a whole from the entity
that was loaded (`opener[b].loaded`, `closer[k].loaded`, `admin[b].loaded`): the write-back of a
stale copy is the hazard `BooksFollowLock` is about. An activation that sets back what an
opening or a close wrote between its read and its write is the trouble "crossed". Monitors are
per board, as in the code. `OpenSucceeds` does not look at the status in the answer, as
`_isFailOpenCU` does not: the lock may have stayed shut, and the START_READING that follows may
be lost ("unread"). Every answer of a board in `SlowBoards` comes after the next poll was sent;
`switchMap` drops it, and the lock is watched for an hour and never booked.

`LockProtocol` translates a request into the messages on the line (lock ids are counted from
0 there and cut off at the ends) and a reply into statuses, from the byte and the bit where the
code reads them (`StatusByte`, `StatusBit`). A reply of another board, or none, has no statuses,
and "no status" counts as closed; `PollLock` may get such a reply because requests to one port
share their answers (`SerialConnection`). Headers and checksums are abstracted to whether the
reply is one of this board (`valid`, `device`). One divergence is only noted: the comment at
`cu.protocol.ts:63-67` puts the length of the data at byte 4 and the statuses behind it, and line
106 reads the first statuses from byte 4, so that it would take the length for eight locks.
Which of the two a real board sends is not in the repository; the model takes it to send what the
code reads (`BoardFrame`). `_detectPorts` takes every port that opens for a control unit, and the first of
them is used, whether a board is behind it or not (`PortScans`).

`trouble` records which of the named troubles happened; each safety property lists the ones
it does not survive. `MaxTrouble = 1` gives every single
trouble with every schedule; two at once are excused by either.

### SerialConnection, PortDiscovery

`SerialConnection` is one path of the adapter. `conn` keeps every connection object that was ever
made for the path, because an object that is replaced in the map goes on with the attempts, timers
and callbacks it started. A request writes and then calls `onData`, which takes the first datum
that comes: `AnswerIsMine` (of `RequestsServed`) speaks of requests that are answered in step. Once
requests and answers got out of step (`askew`) they are paired by order alone, and nothing is
promised: a time-out, an unanswered or a second request in between is what gets
them out of step for good - a resolver that timed out stays in its queue. A piece of an answer
puts them out of step, too, where the strategy passes it on: always without a buffer, when the
timer may run out, and when `size` is reached before the answer ends. A close and a reopening
drop the resolvers of the requests that wait, which only their time limit ends. An open or a
close that meets an object still connecting (`interrupted`) leaves a port that belongs to nobody.

`PortDiscovery` compares each scan with the one before. A device that goes and comes back
between two scans, and one whose opening failed, is not tried again (`unseen`): this is what
`PluggedIsOpened` has to except. Openings of one path that overlap are in `doubled`.
`disconnectFromPort`, `monitorConnectionStates` and the statistics have no callers in the
applications and are not modelled. `PortMonitoringService` never starts: its configuration is
private with `enabled: false`.

### LoadcellBus, LoadcellHealth

`LoadcellBus` composes a screen that joins and leaves rooms, the START/STOP messages, the
active set and polling of the bridge, and the ports with their discovery, errors and
recovery. Requests are not counted, STOP_READING is for everybody, a START for a loadcell that
was not discovered yet is skipped, and `data.room` of a socket stays after it left the room:
`upset` records these, and `PollingFollowsRooms` says that nothing else breaks the relation.
Of the recovery: a failed recovery is not tried again and a port that closes silently stays
"connected" (`unplugged`). Automatic discovery asks the addresses 1 to 3 of a port. A port that
cannot be opened for the test, or whose cell does not answer in time, is not found; a run that
finds none starts again every 30 seconds and does not look whether the bridge runs by then
("late"), or whether another run is under way ("overlap"): it closes what it tested, and
`ConnectedIsOpen` excepts both.

`LoadcellHealth` runs call by call. `onDeviceDiscovery` only ever reports a device as online,
so that `_handleDeviceDisconnection` is not reached; losses are found by the periodic check
alone. `untold` marks devices whose books were reset without a word to the hooks.

### LoadcellRegistry, IssueHistory

Both are several documents written one after the other by one request. In `LoadcellRegistry`
`Write` is one write of a flush (inserts, updates, deletions, in MikroORM's order), requests
overlap, and `DiesInFlush` stops one half way. An update writes only the fields that the request
changed (`Fields`, `Changed`, `Updated`), so that an overlapping request keeps what it wrote to
the others; `isCalibrated` stands for the embedded `state`, which is written whole. A source
block without a bin is refused. What the properties except, because the code
does not check it: a target that is no free loadcell but a block of an item (`sacrificed`),
requests that overlap (`rivals`). `_calculateLoadcellQuantity` floors net / (net / max) and may
lose one unit to the division (`Calculated`). `calibrate` marks the bin as locked whatever its
door does. `_handleSwapLoadcell` is never called.

In `IssueHistory` a job is one successful step. Both history functions read the bin or the
loadcell of an event, and both columns are missing from the events that quantity checking
inserts, so both throw: an issue at its first event that took something, before anything is
changed (`RecordIssue`), and a return at its first event that counts, after the total was
lessened and before any location is (`ReadEvent`). The caller settles all its parts and goes on,
and the lessened total stays dirty in the EntityManager that the parts share: whichever flush
comes next writes it, that of the damage (`FlushDamage`), or of the next step (`Advance`). What
is left for the model to say is therefore not that histories are right - the locations never
change, and the total is short of the other events - but what does reach the database:
`TotalsAreCredited`, once per return, and `DamageIsCounted`. This rests on an assumption about
MikroORM: that an entity is read from the columns its properties declare (`binId`,
`loadcellId`), which the raw inserts do not fill. The histories themselves are what the
database held before (`Loans`).
`raced` marks that a job read what another was about to write, which nothing in the code
excludes, and `cut` that the process died in a job; both are exceptions of both properties.

### CloudSync, Snowflake, CardReader, ScannerProcess

`CloudSync`: an empty body or a page without rows ends a sync, and the call answers true all the same
(`EndOfList`, with `empty` set): `SyncedIsComplete` then promises the pages before that one, and
all pages to a call that saw the last. A user
without `siteIds` fails the page for all users, two syncs that overlap may store an older
version over a newer one (`crossed`), and nothing is ever deleted.

`Snowflake`: with `MaxSequence` and `Machines` for the widths of the fields. When the sequence
overflows the id is built from the timestamp of before, with sequence 0; a clock that is set
back repeats timestamps; before the epoch `BigInt` throws.

`CardReader`: a reader that is there at the start is opened before anybody listens and is
never heard; after a device error it stays connected in the books and nothing reconnects;
every key report repeats the keys that are still down. The properties except these three.
`CardScannedEvent.getChannel` throws (`card-scan.event.ts:16`), so that a scan ends in the
log; the model ends at the hand-over to the service.

`ScannerProcess`: the observable hands out its child before anybody subscribed, so that every
start fails over `undefined.pid` after a child was spawned. A program that ends by itself
with an error starts two restart timers, and the second one ends a healthy child; one that
ends under the flag of an earlier stop is not replaced; shutdown schedules a restart.
`ScannerKept` is what remains true.

### CardLogin

`loginByCard` asks one tablet of every cluster of the user, with an await for each, whether it
wants a PIN. A cluster that does gets a signature, which is in the map and whose ten seconds run
at once, while the answers go out together at the end. When no cluster asks, the user is logged
in on every screen; a failed query and a cluster without a tablet count as not asking (`lenient`
records, since the scan, which clusters need not ask). `loginByPin` takes the number from any
tablet (it does not ask which one the number was sent to) and uses a signature up, also with a
wrong PIN, but only after an await: requests for one signature that cross in it (`crossing`) are
each decided, which is the one exception of `DecidesOnce`. The scans come from `onCardScanned`
or from the endpoint for tests, which does the same; in this repository only the latter gets
through (`CardReader`, above). A tablet does not move to another cluster.

## 3. Runs

Bounds are CONSTANTS, named `Max...`, and appear as guards of the environment
(answers, lost messages, restarts, openings) or cap a message or a counter
(`MaxCopies`, `MaxResults`). All runs say `CHECK_DEADLOCK FALSE`: transactions end,
a lost message may stop one for good, after the last bounded event nothing is left to
do, and a plan that is refused or carried out is over.

| run | question | bounds |
|---|---|---|
| `worker_lifecycle` | does one thing at a time drive a transaction, is every step settled once, is the popup about the current step, is a watched bin read, does the engine implement `TransactionLifecycle`? | 2 transactions sharing a bin, one tracked item, 2 handlers, 2 attempts, 1 lost message, 1 restart, 1 answer; nothing upset |
| `worker_schedules` | with overlapping poll cycles and force requests at any time: is no step jumped, COMPLETED only said of settled steps, every checked bin opened, every correction about a step, does every credit rest on a check of its own? | 1 transaction of 2 steps that may be upset, 2 handlers, 2 results per step, 1 answer |
| `worker_progress` | does a transaction that nothing disturbs end, or strand at a tracked step and nowhere else? | 3 steps, an item tracked at the second, 3 attempts, 3 answers; nothing lost, restarted or upset |
| `worker_forced_skip` | violation: a forced skip leaves no trace | 3 steps, 2 answers |
| `worker_force_blocked` | violation: forcing does not help a transaction that stopped in PROCESSING | 2 steps, an item tracked at the second, 1 answer |
| `loadcell_books` | do books and scale agree, is every pending change committed once? | 2 weighings at a time, 4 weights, bin opened twice |
| `loadcell_backup` | violation: the back-up commit adds a change that was committed already | 2 weighings, bin opened once |
| `plan_check` | does every plan add up and fit, does a valid step leave everything else alone, is a user who follows the plan told so, do lists and plans agree? | 5 loadcells, 3 bins, 2 items; 1 or 2 requests of 1 or 2 units; quantities 0 to 2 |
| `locks_ports` | is an open lock watched and read, do the books follow it, is a lock that was shut booked; is a port that is plugged in opened and tracked? | 2 bins on 1 or 2 boards, one of them slow, locks 47 and 48, 2 calls, 1 trouble, 1 retry; 3 paths, 3 changes, 1 trouble |
| `parts` | do the ten parts with a state of their own keep their promises? (see below) | per part, see below |
| `plan_stock` | violation: two requests for one item share the units | as above |
| `plan_tracking` | violation: a planned loadcell is on the tracking list of its own step | as above |

Why the bounds suffice: an error of the engine needs two actors with copies of one transaction,
and two handler slots give every pair; two steps have a first, a last and a successor, and the
third step of `worker_progress` an inner one. Two attempts at a lock show the retry and the last
attempt, three the code's own number. A second restart or lost message finds the system in a
state that one already reaches: nothing of the process survives. The weights lie on both sides
of both thresholds of the rounding. Handlers are symmetric, and symmetry is used by the two
passing runs of the engine that check safety only.

`Unruly` says which transactions may be polled over a poll or forced without being asked. In
`worker_lifecycle` and `worker_progress` none may, which leaves the state space to losses,
restarts and answers; in `worker_schedules` the only one may. That a transaction which is not
upset keeps its promise beside one that is, whatever they share, is proved (section 4): the
theorems hold for any `Unruly`.

`EventuallyEnds` promises as much as the code does and no more: a step whose tracked item was
taken strands its transaction for good (`Stranded`, the violation `worker_force_blocked`), a
lost message, a restart and an upset may do so, too (`Undisturbed`). What it does rule out is that
a transaction hangs for any other reason: between handlers, on a lock that fails, after any
answer.

The cabinet of `plan_check` has an item in two bins and beside another item, and a bin
with a loadcell that has no item; a request can thus be split over bins, two requests
can meet in one bin, and a step can have something to track or nothing. One unit more or
less than planned is in reach of every loadcell of which more than one unit can be
issued; the failed bin is one that a split would have used.

`PlanSound` (the part that a plan fits the stock) and `HonestUserPasses` are about requests
for different items: for two requests of one item they do not hold (`plan_stock`).
`HonestUserPasses` is further restricted to steps about one item and without unassigned
loadcells for ISSUE and REPLENISH (`PlainStep`); for RETURN it holds without that. The
restriction is exactly what their tracking lists need, and `plan_tracking` shows the case
outside it.

`locks_ports` and `parts` check several modules in one run each. The modules share no
variable; `part` chooses in the initial state which of them runs, and the others keep one of
their initial states. The state space is the sum of those of the parts, never their product,
and every part is explored as completely as alone. The parts of `MCParts` and their bounds:

| part | module | properties | bounds |
|---|---|---|---|
| serial | `SerialConnection` | `RequestsServed` | 2 requests, 2 connection objects, 2 attempts, 1 fault, three ways to buffer |
| bus | `LoadcellBus` | `PortsInOrder`, `PollingFollowsRooms` | 2 loadcells on one of 2 ports, 2 screens, 2 discovery runs, 2 mishaps |
| health | `LoadcellHealth` | `HealthIsTold` | 2 devices, time-out and interval of 2 in 7 units of time, 2 calls |
| registry | `LoadcellRegistry` | `RegistrySound` | 2 loadcells, 2 items, 3 requests, 2 at a time |
| history | `IssueHistory` | `TotalsAreCredited`, `DamageIsCounted` | 3 steps on 3 places, 2 items, 1 crash |
| sync | `CloudSync` | `SyncedIsComplete`, `UsersHaveSites` | 2 rows on 2 pages, 2 versions, 2 syncs |
| ids | `Snowflake` | `UniqueIds` | 4 ids per millisecond, 4 milliseconds, 1 setback |
| reader | `CardReader` | `ScansHeard` | 2 digits, 4 keys, 2 hitches, 2 timers |
| scanner | `ScannerProcess` | `ScannerKept` | 4 programs, 2 calls |
| login | `CardLogin` | `LoginsDecided` | 1 user of 2 clusters with a tablet each, 1 scan and 2 logins at a time, 2 signatures, 2 upsets |

They suffice for the same reason as above: what the properties are about takes two actors
(requests, screens, administrators, steps, syncs, restarts), one fault, and a resource with
one place more than the first actor needs. The locks 47 and 48 are the last two of a board,
where an id that is off by one is cut off and hits the neighbour.

### Fairness

`FairSpec` of `TransactionWorker`: Node runs every continuation, timer and message
(weak fairness of the handlers and of delivery), a user closes an open door, an
operator answers a popup. Strong fairness of `PollSeesClosed`: a poll cycle may go
unanswered, but not all of them for ever. No fairness makes a lock open: if it never
does, the operator's answer is what ends the transaction. `FairSpec` of
`LoadcellQuantity`: continuations run and the hardware keeps reporting; nobody has to
open or close the bin or to end a step.

`LocksAndPortsSpec`: the bridge polls, and of a board that is not in `SlowBoards` some poll is
answered before the next one is sent. Of a slow board nothing is assumed: `switchMap` drops
every answer, the fairness of `PollAnswered` says nothing as the action is never enabled, and
`ShutIsBooked` excepts its locks. MQTT delivers what was not lost, continuations run; a scan
answers within its period and an opening ends. Nobody has to open or shut a lock, or plug a
device in. `PartsSpec` has no fairness: its properties are safety properties.

### What the violations show

1. `worker_forced_skip`: the API says that the audit trail reflects a forced skip.
   `forceNextStep` writes neither an event nor a mark; `lastError` keeps only the
   latest error, and a transaction whose last step succeeds is COMPLETED.
2. `worker_force_blocked`: the API says that forcing keeps a transaction from being
   blocked. What was taken of an item that is no consumable makes the history of the step throw
   (`transaction.service.ts:510`) after its quantities were found right; the transaction
   stays PROCESSING, and `forceNextStep` looks only for AWAITING_CORRECTION.
3. `loadcell_backup`: the commit of `transaction.service.ts` is called a back-up for a
   loadcell that stopped before it committed. It adds what it has read without looking
   whether it is still pending; a weight handled in between has committed the same
   change, which is then counted twice.
4. `plan_stock`: the comment says that the complete request is validated. The loadcells
   of a request are filtered by item, and the available quantity is read once; two
   requests for one item, say from two bins, are each checked against the full stock.
5. `plan_tracking`: the comment says that the *other* items of the bin are tracked. The
   ids of the allocated loadcells start anew for each item, so that the second item of a
   bin tracks the loadcell of the first: its step plans a change and forbids it, and only
   the operator's force request ends it. The return service collects the ids correctly.

## 4. Proofs

All theorems hold for every value of the constants that satisfies the ASSUMEs.

**TransactionWorkerProofs** (from `PlanAssumption` and `ParameterAssumption`). None of
the safety invariants is inductive: what a handler does next depends on the copy it
holds. `IInv` therefore says the same of every copy of a transaction (`EntityOK`: the
document and every handler's entity are at a step that was *reached*, all steps before
it settled), of every message (`MessageOK`: its step was reached, its bin visited), of
the watched steps (`PollInv`) and of every handler (`FrameOK`: what its program
counter stands for has been done). The histories only grow, so what was settled,
visited or reached stays so (`Growth`), and an old copy remains true of the past even
when it is stale: that is why the invariants survive every schedule. `Preserve`
collects what a step has to show of what it writes, and every action has its lemma.
From `Invariance`: `TypeCorrect`, `StepsSettledInOrder`, `CompletionIsSound`,
`NoFailedTransaction`, `OpenedFirst`, `CorrectionIsNamed`.

**TransactionWorkerProofs**, second part (from the same assumptions, for any `Unruly`). `DInv` adds
to `IInv` who acts next for each transaction that was not upset, `Driven(t)`: `Exclusive` (one
handler, or one message, or the popup, or the watch on the lock with one cycle of it),
`DriverHolds` (the driver knows the transaction as it is stored, and is about its current step)
and `Books` (what was checked, credited or skipped, step by step). An action is an instance of
one of the ways a driver changes hands, each a lemma: it goes on, stops, hands over to a message
or to the watch, takes up a message, or a message fades, appears or is passed on. Where a
transaction becomes upset its `Driven` is given up, and the others are shown not to notice. From
`DrivenInvariance`: `DriversAreOne`, `StepsSettledOnce`, `PopupIsAboutCurrentStep`, and
`EngineRefines`: initial states map to initial states and every step of the engine is a step of
`TransactionLifecycle` or leaves its variables alone (`NextRefines`, one lemma for every action
that moves the promise). `WatchedIsRead` needs one more invariant, `RInv`: from the moment a bin
is announced as opened until its lock is watched no more (`Attended`), its loadcells are read,
or the end of another transaction stopped them (`Kept`). It holds of plans that share bins, too.

**SumTheorems** (no assumptions). The model writes sums as the folds of the community modules,
which add up in an order that nobody knows, and there is no induction over data here. The way
round it: a sum over a finite set is the entry of a table over its subsets (`SumIsTable`,
`SumTableUnique`), and what holds of every such sum holds because there would be a smallest
subset for which it fails (`SmallestSet`, from the library's well-founded order of finite sets).
From it: the sum of a set with one element more, of two sets, of a larger set, of the same set
counted otherwise (`SumReindex`), and after one value has changed (`SumChange`).

**BooksProofs**, first part (from `QuantityAssumption`). `BooksKept`: under `Apart`,
for any weights, any number of overlapping weighings and openings, available +
pending + ignored is the rounded weight. The invariant has to say what the entity of
an unfinished weighing is worth: while the bin is unlocked, only weight and pending
have changed since it was loaded, and it agreed with the scale; while it is locked,
available + pending is that of the document, and its pending change is still there or
was committed as a whole.

Second part (from `HistoryAssumption`: finitely many jobs and places, and a step that returned
something damaged returned it somewhere). The properties speak of the end, when no job is under
way; on the way, `HistoryInv` says that a total is what was issued, less what is credited, *plus
what the jobs under way still have to take off it* (`Credited`, a sum over jobs), and the same of
what came back damaged (`Counted`). `JobOK` says how far a job has read from where it is: the event at
which it threw is the first that counts, and a changed total is only held after it. That a write
does what it should takes `Unraced`: an entity that was changed is fresh, and no other job holds
one of the same item or loadcell. All three flushes are one lemma (`FlushKeeps`). From
`HistoryInvariance`: `HistoryTypeCorrect`, `TotalsCredited` and `DamageIsReported`, for any number of
steps, places, events, histories and quantities.

**PlanAndCheckProofs** (from `PlanningAssumption` and `QuantitiesAssumption`).
`PlanTypeCorrect`, and `ValidStepsAreClean`: for every cabinet, stock, history and list of
requests, a step judged valid changed no loadcell of its bin that was not planned. The
verdict only looks at the tracking lists, so the invariant has to say what these lists
cover while they are filtered request by request: every loadcell with an item beside a
planned one is on the list of that entry or planned itself (`Covered`), and the ids that
are filtered out were planned (`TriedInv`). Both hold although the lists are too long in
the case of `plan_tracking`: they are never too short. `VerdictInv` says that verdicts
are only given to complete plans.
`PlansAreSound`: while a request is filled, what is planned of its item and what is still needed
is what was asked for so far (`AddedUp`, where `Due` sums over the requests that were reached);
an entry takes no more than its loadcell has room for (`EntriesOK`), and distinct items have
distinct loadcells, so that an entry is all that is planned of one (`Once`, from
`EarlierOrTried`).
`HonestUsersPass`: no entry tracks what is planned of its own item (`TracksOK`), and a verdict
still follows from the quantities (`Judged`), which only change at bins without one. The sum of
what is planned at a loadcell is then its one entry, and the check compares with just that.
`ListsTellOneStory`: a request that is not filled yet took all there was on every loadcell it
tried (`Emptied`), so that one the lists offer is filled before the candidates run out; and the
rows of a bin add up to the bin because the load cells of different items are disjoint. The proof
needed that the cabinet is finite and that an entry of `items[]` names an item, which
`PlanningAssumption` now says, and it did without an exception that the property had made for
duplicates in `items[]`.

**LocksAndPortsProofs**, the locks (from `LockAssumption` and `ProtocolAssumption`; every board has its
number). An opening is a token that goes from one stage to the next - a call, a message to
track, a monitor, a report, a close, a delayed stop - and `OneStage` says that it is in one of
them. What a stage knows of the lock is the rest: `StaysWatched` (an open lock is being opened
or watched), `ToldTruly` (who says closed tells the truth, and `open()` knows what the books
say), `SoonBooked` (what the books do not call locked is watched or was reported closed). Each
holds as long as its own list of troubles has not happened, and `TroubleHolds` says what the
troubles on record stand for. An activation under way is one more copy of the books, harmless
unless it is "crossed". From it `LocksAreAttended` and `BooksAreTrue`, for any bins and
boards and any number of troubles. The reading of the loadcells turned out to need fewer
excuses than it had: `ReadWhileWatched` holds of every watched bin, open or not.
`OpenPortsTracked` (from `DiscoveryAssumption`): for
every set of paths, any filters and devices that come and go at any moment, an open port is on the
discovery's list once its delay, opening and closing are over. `OpenIsTracked` alone is not
inductive: an opening that fails is over, too, and adds nothing. `OneOpening` says that the
openings of one path do not overlap and that an open path is not being opened, unless the path is
on record in `doubled`.
`LocksAndPortsTypeCorrect` is the type of the composition that the run checks.

**HardwareProofs** (from the assumptions of its modules).
`ScannerIsKept`: at most one program runs, and one that ended is replaced. That an error finds
the flag of a stop and schedules nothing is sound because of `FlagHasRestart`: while no program
runs, the flag is only up when a restart sleeps; and a restart may be refused because what
starts has a child (`StartHasChild`). `RunsIsRead` gives the one program.
`SilenceIsHeard`: the next check comes within an interval (`CheckIsDue`), a device that is
silent was checked in time (`CheckComesInTime`), and what was reported lost is remembered until
the device is heard or forgotten (`LostIsRemembered`).
`PortsStayInOrder`: one discovery run at a time (`OneRun`), which tests no port once the bridge
runs (`QuietBefore`, `TestedBefore`), and a port without callbacks at every step between its
closing and its opening (`UnheardOnTheWay`). The proof showed two schedules that the model
had left out, and the code has: a port that cannot be opened for the test, and a run that is
late. `PollingIsWatched`: what is polled is active (`PolledIsActive`) and a socket is in the
room it says (`OneRoom`).
`ScansAreHeard`: who may still find the reader finds it for the first time (`FoundOnce`), it
is told of or listened to once (`HeardOnce`, `FoundIsOpen`), and the line that was read is the
card that was typed, as long as no report repeated a key (`TextIsCard`); with lemmas on where
`split()` ends a line.
`RequestsAreServed`: for every way of reconnecting and of buffering, any sizes of the buffers and
any number of requests, listeners, connection objects and faults. The ports (`PortInv`) come
first: the connection in the map is open exactly when its port is and when it holds the device
(`CurrentOK`), and the objects that left the map open nothing unless they were `interrupted`. As
long as nothing is `disturbed`, one request at a time is pending, and its answer is in one place
(`Coming`): on the line, whole or after its first byte (`OnLine`), in the buffer or dropped
(`Held`), or in the queue (`Queued`); a timer runs over a whole answer only, and with no request
pending everything is empty (`NothingLeft`). That the pieces between delimiters are a sequence at
all takes a count of the members of a set, proved by way of the smallest one (`SmallestNumber`,
`NthNumber`: the library's well-founded order of finite sets instead of induction).

**InventoryProofs** (from the assumptions of its modules).
`SitesBeforeUsers`: a stored user refers to sites that are stored, with calls that overlap and
writes that fail half way; the invariant only needs that the sites of a page are there once its
rows are written (`SitesFirst`). `SyncIsComplete`: a call that answers true has copied what the
cloud had when it started. It takes the calls one at a time (`OneAtATime`, up to `crossed`),
versions that only grow (`NothingNewer`), what the page in hand has (`PageHeld`) and that the
pages before it are in the local database (`PagesDone`). A call that an answer without rows ended
has copied the pages before that answer.
`LoginsAreDecided`: a number that was not drawn is nobody's (`UnmadeIsFree`), one request holds
a signature or has decided it (`OneHolder`), whose entry is gone by then (`UsedUp`), and a scan
knows every cluster of its user: still to ask, asked, or let in (`ScanKnows`).
`IdsAreUnique`: the last pair of time and sequence is the largest (`LastIsLargest`), and
`DecodeFindsParts` is arithmetic for every width of the fields.
`RegistryIsSound`: what holds whatever overlaps is about single documents (`CellOK`), about what
a request still means to write (`RequestOK`: it writes the item a document has, and deletes none
but what was sacrificed) and about the items (`ItemsKept`). Where the hardware is takes a request
alone, up to `rivals`: what it read is still so (`Midway`), a weight under way is of hardware
without a document (`OneProvision`), and two documents with one hardware only stand there while
one of them is `Outdated`, that is, still to be written or deleted by the request (`NoTwins`);
after a flush cut short, only the existence of a document is left.

**PartsProofs** (from the assumptions of all parts). Seen from one part, a step of `PartsSpec` is
one of its own or a stutter, so that a behaviour of all parts is a behaviour of each
specification (`BridgePartsRun`, `DatabasePartsRun`). With the theorems above:
`PartsTypeCorrect`, and `PartsKeepTheirPromises` for all that the run `parts` checks.

**What is proved and what is model-checked.** Every invariant that a run checks is a theorem, and so
is the refinement. Four properties are only model-checked: `EventuallyEnds`, `PendingCommitted`,
`ShutIsBooked` and `PluggedIsOpened` are liveness under fairness, which the provers do not reach
(nor ENABLED). Induction over data and RECURSIVE operators are out of their reach, too; no module
has the latter, and for the sums the former was not needed.

## 5. Limits

`OneDriver`, `SettledOnce`, `PopupAboutCurrentStep`, `ReadingWhileWatched` and the refinement
say nothing of a transaction that was upset, and the code lets one be upset at any time; what
then remains is checked by `worker_schedules`. `ReadingWhileWatched` excepts steps whose reading
the end of another transaction stopped (`stopped`). A lock whose open answer was lost may be
left open and unwatched when the engine gives up (`LockFails`, `GiveUp`); no property of the
engine says it is not, and `OpenIsAttended` names it as the trouble "late". Nothing is promised
of the books of a lock on a slow board.

Properties of the hardware side name exceptions (`trouble`, `upset`, `unseen`, `raced`,
`rivals`, `crossed`, `excused`...). Each is a history variable, never read by an action
except to count it, and each names a way in which the code, and not the model, gives up the
promise; section 2 says where.

Not modelled:

- Users, roles, items, cabinets, settings, and the logins other than by card and PIN:
  single requests, without a state that outlives them.
- Texts, messages to the operator, and the transaction events (their fields only matter
  where they make a handler throw, which `TransactionWorker` and `IssueHistory` have).
- The SCU protocol of lock boards: nothing registers a port for it. Headers and checksums of
  the CU protocol, and the bytes of the loadcells.
- The commands, contexts and hooks of the fingerprint program: a command is refused before it
  reaches them, and the module is not loaded by the bridge.
- `PortMonitoringService`, the legacy allocation and listing of issues, and
  `_validateChangeLegacy`: dead code.
- Change streams of the sync worker, which only log; scripts, images and notes.

The components' notes in `PROJECT.json` say the rest, part by part.

## 6. Plan

Done: the engine, quantities, planning, listings and verdict; locks, ports, loadcells, their
documents, histories, sync, ids, card reader, login and scanner program. Left, in this order:

1. `TransactionWorker` composed with `LockBoard`: the worker opens locks by the same bridge
   and writes `bins.state`, too; with plans that share a bin with an administrator.
2. A second user whose plan and steps come between the plan and the steps of the first. The
   code reserves nothing, so that the property has to be about what the verdict notices.
3. Items in bins without loadcells in `QuantityCheck` and `IssueHistory`.
