------------------------- MODULE TransactionWorker -------------------------
(***************************************************************************)
(* The engine of apps/process-worker that walks a transaction (ISSUE,      *)
(* RETURN or REPLENISH) through its execution steps: open the lock of the  *)
(* step's bin, watch the lock until the bin is closed again, compare the   *)
(* quantities with the plan, credit the step and go on to the next one.    *)
(*                                                                         *)
(* The engine is a set of asynchronous handlers over one MongoDB document  *)
(* per transaction and one MQTT broker (QoS 0).  Handlers run              *)
(* concurrently: every await is a point where another handler may run, so  *)
(* a handler is a frame in `run` with a program counter, and what it has   *)
(* read (the entity held by its entity manager) is a copy that may be      *)
(* stale by the time it is used.                                           *)
(*                                                                         *)
(* A step id is the index of the step in the plan (the code's ids embed    *)
(* that index); 0 stands for "no step".  The plan of a transaction visits  *)
(* each bin once, so BIN messages name their bin by the step that uses it. *)
(* Only bins with loadcells are planned: requests of NORMAL items never    *)
(* pass the planner, so the load cell id 'N/A' of their steps, which the   *)
(* commit of a step could not parse, does not reach the engine.            *)
(*                                                                         *)
(* Two things may upset a transaction, and nothing in the code prevents    *)
(* them: a lock poll that starts while the answer to the one before, or    *)
(* the BIN.CLOSED it sent, is still under way, and a force request that no *)
(* error asked for.  The history variable `upset` holds the transactions   *)
(* they happened to: some properties are about the others.                 *)
(***************************************************************************)
EXTENDS Naturals, Sequences, FiniteSets

CONSTANTS
  Txs,           \* transactions
  Bins,          \* bins, each with one lock
  Plan,          \* Plan[t]: the bins transaction t visits, in order
  MaxStep,       \* an upper bound of the lengths of the plans
  Tracked,       \* Tracked[t]: steps that issue an item that is not consumable
  Handlers,      \* slots for handlers in progress (bound on concurrency)
  MaxAttempts,   \* EXECUTION_CONFIG.MAX_LOCK_OPEN_ATTEMPTS
  NoTx,          \* the transaction of an idle slot
  Unruly,        \* bound: transactions that may be upset; Txs is the real program
  MaxCopies,     \* bound: BIN.CLOSED messages of one step in flight
  MaxResults,    \* bound: results recorded for one step
  MaxAnswers,    \* bound: operator answers
  MaxLost,       \* bound: messages lost by the broker
  MaxCrashes     \* bound: worker restarts

\* The plans: one step per bin, at least one step (createAndStartTransaction
\* reads executionSteps[0]; _groupPlanByBin makes one step per bin).
ASSUME PlanAssumption ==
  /\ MaxStep \in Nat
  /\ Plan \in [Txs -> Seq(Bins)]
  /\ \A t \in Txs :
       /\ Len(Plan[t]) \in 1..MaxStep
       /\ \A i, j \in 1..Len(Plan[t]) : Plan[t][i] = Plan[t][j] => i = j

ASSUME ParameterAssumption ==
  /\ Unruly \subseteq Txs
  /\ Tracked \in [Txs -> SUBSET Nat]
  /\ NoTx \notin Txs
  /\ MaxAttempts \in Nat \ {0}
  /\ {MaxCopies, MaxResults, MaxAnswers, MaxLost, MaxCrashes} \subseteq Nat

VARIABLES
  tx,       \* transactions collection: status, currentStepId, lastError.stepId
  bins,     \* state of each document of the bins collection
  door,     \* the physical door of each bin
  net,      \* copies of each MQTT message in flight
  run,      \* the handler running in each slot
  poll,     \* _activePollingLockStatusLoops: the step watched, per transaction
  results,  \* results inserted into transaction_events, per step
  taken,    \* steps with a recorded event whose quantity decreased
  credited, \* times a step's history was processed
  reading,  \* bins whose loadcells the hardware bridge reads
  popup,    \* a STEP_ERROR popup is open on the operator's screen
  opened,   \* history: steps whose lock the worker opened
  skipped,  \* history: steps the worker skipped because their bin had failed
  forced,   \* history: steps the operator skipped
  stopped,  \* history: steps whose reading the end of another transaction stopped
  upset,    \* history: transactions polled over a poll, or forced without being asked
  answers, lost, crashes  \* counters behind the bounds

vars == <<tx, bins, door, net, run, poll, results, taken, credited, reading,
          popup, opened, skipped, forced, stopped, upset, answers, lost, crashes>>
-----------------------------------------------------------------------------
StepsOf(t) == 1..Len(Plan[t])
BinOf(t, s) == Plan[t][s]
StepIds == 0..MaxStep

Status == {"NONE", "PENDING", "PROCESSING", "AWAITING_CORRECTION", "COMPLETED",
           "COMPLETED_WITH_ERROR", "FAILED"}
Terminal == {"COMPLETED", "COMPLETED_WITH_ERROR", "FAILED"}

\* A transaction document, as far as the engine writes it.
Document == [status : Status, currentStepId : StepIds, lastError : StepIds]
NoDocument == [status |-> "NONE", currentStepId |-> 0, lastError |-> 0]

\* The state of a bin; `attempted` says that failedOpenAttempts is not 0.
BinState == [isFailed : BOOLEAN, isLocked : BOOLEAN, attempted : BOOLEAN]
LockedBin == [isFailed |-> FALSE, isLocked |-> TRUE, attempted |-> FALSE]

\* FORCE_NEXT carries isNextRequestItem = true, FORCE_END carries false.
MessageType == {"START", "BIN_OPENED", "BIN_CLOSED", "STEP_SUCCESS", "STEP_ERROR",
                "FORCE_NEXT", "FORCE_END", "TRANSACTION_COMPLETED", "TRANSACTION_FAILED"}
Message == [type : MessageType, tx : Txs, step : StepIds]
Msg(type, t, s) == [type |-> type, tx |-> t, step |-> s]

\* Where a handler stands: the work it does when it is next scheduled.
Pc == {"idle", "start", "execute", "open", "giveUp", "stepFail", "trigger",
       "announce", "arm", "poll", "closed", "check", "history", "advance"}

\* A handler: the step it is about, the transaction entity and the bin
\* state its entity manager holds, the lock attempt it is at, and whether
\* it serves a forced step.
Frame == [pc : Pc, tx : Txs \cup {NoTx}, step : StepIds, entity : Document,
          bin : BinState, attempt : Nat, isForced : BOOLEAN]
Idle == [pc |-> "idle", tx |-> NoTx, step |-> 0, entity |-> NoDocument,
         bin |-> LockedBin, attempt |-> 0, isForced |-> FALSE]
Begin(pc, t, s, e) == [Idle EXCEPT !.pc = pc, !.tx = t, !.step = s, !.entity = e]

\* em.flush() of a transaction: of a managed entity only the fields that differ from what was
\* loaded are written, over whatever the document holds by then.
Changed(loaded, entity, stored) == IF entity = loaded THEN stored ELSE entity
Flush(loaded, entity, stored) ==
  [status        |-> Changed(loaded.status, entity.status, stored.status),
   currentStepId |-> Changed(loaded.currentStepId, entity.currentStepId, stored.currentStepId),
   lastError     |-> Changed(loaded.lastError, entity.lastError, stored.lastError)]

IsIdle(h) == run[h].pc = "idle"
At(h, pc) == run[h].pc = pc
End(h) == run' = [run EXCEPT ![h] = Idle]
Goto(h, pc) == run' = [run EXCEPT ![h].pc = pc]

\* The broker: publish(..., {async: true}) and the delivery of a message.
InFlight(m) == net[m] > 0
Send(m) == net' = [net EXCEPT ![m] = @ + 1]
\* Variant: QoS 1, a message may be delivered again.
Redeliver(m) == InFlight(m) /\ net' \in {net, [net EXCEPT ![m] = @ - 1]}

Receive(m) == InFlight(m) /\ net' = [net EXCEPT ![m] = @ - 1]
ReceiveAndSend(m, n) == InFlight(m) /\ net' = [net EXCEPT ![m] = @ - 1, ![n] = @ + 1]

-----------------------------------------------------------------------------
Init ==
  /\ tx = [t \in Txs |-> NoDocument]
  /\ bins \in [Bins -> {LockedBin, [LockedBin EXCEPT !.isFailed = TRUE]}]
  /\ door = [b \in Bins |-> "closed"]
  /\ net = [m \in Message |-> 0]
  /\ run = [h \in Handlers |-> Idle]
  /\ poll = [t \in Txs |-> 0]
  /\ results = [t \in Txs |-> [s \in StepIds |-> 0]]
  /\ taken = [t \in Txs |-> {}]
  /\ credited = [t \in Txs |-> [s \in StepIds |-> 0]]
  /\ reading = {}
  /\ popup = [t \in Txs |-> FALSE]
  /\ opened = [t \in Txs |-> {}]
  /\ skipped = [t \in Txs |-> {}]
  /\ forced = [t \in Txs |-> {}]
  /\ stopped = [t \in Txs |-> {}]
  /\ upset = {}
  /\ answers = 0 /\ lost = 0 /\ crashes = 0

\* What most handlers leave alone, by component.
bounds == <<upset, answers, lost, crashes>>
locks == <<bins, door>>
records == <<results, taken, credited>>
history == <<opened, skipped, forced>>
weighing == <<reading, stopped>>
-----------------------------------------------------------------------------
(* Starting a transaction                                                  *)

\* Variant: the stored transaction is at no step.
StartAtNoStep == 0

\* createAndStartTransaction: currentStepId is that of executionSteps[0].
FirstStep == 1

\* The inventory service stores the planned transaction and publishes START.
CreateAndStart(t) ==
  /\ tx[t].status = "NONE"
  /\ tx' = [tx EXCEPT ![t].status = "PENDING", ![t].currentStepId = FirstStep]
  /\ Send(Msg("START", t, 0))
  /\ UNCHANGED <<locks, run, poll, records, weighing, popup, history, bounds>>

OnStart(h, t) ==
  /\ IsIdle(h)
  /\ Receive(Msg("START", t, 0))
  /\ run' = [run EXCEPT ![h] = Begin("start", t, 0, tx[t])]
  /\ UNCHANGED <<tx, locks, poll, records, weighing, popup, history, bounds>>

BeginProcessing(h) ==
  LET t == run[h].tx
      processing == [run[h].entity EXCEPT !.status = "PROCESSING"]
  IN  /\ At(h, "start")
      /\ tx' = [tx EXCEPT ![t] = Flush(run[h].entity, processing, @)]
      /\ run' = [run EXCEPT ![h].pc = "execute", ![h].entity = processing]
      /\ UNCHANGED <<locks, net, poll, records, weighing, popup, history, bounds>>
-----------------------------------------------------------------------------
(* Executing a step: opening the lock of its bin                           *)

\* _failTransaction: the entity's current step is not in the plan.
FailTransaction(h, t) ==
  LET failed == [run[h].entity EXCEPT !.status = "FAILED", !.lastError = 0]
  IN  /\ tx' = [tx EXCEPT ![t] = Flush(run[h].entity, failed, @)]
      /\ Send(Msg("TRANSACTION_FAILED", t, 0))
      /\ End(h)
      /\ UNCHANGED skipped

\* Variant: the step of a failed bin is left without handleStepSuccess.
SkipToNextStep == "advance"

SkipFailedBin == "history"

\* A step whose bin has failed counts as done without opening anything:
\* _executeStep calls handleStepSuccess, with the same entity manager.
ExecuteStep(h) ==
  LET t == run[h].tx
      s == run[h].entity.currentStepId
      enter(pc) == [run[h] EXCEPT !.pc = pc, !.step = s]
  IN  /\ At(h, "execute")
      /\ IF s \notin StepsOf(t) THEN FailTransaction(h, t)
         ELSE LET bin == bins[BinOf(t, s)]
              IN /\ UNCHANGED <<tx, net>>
                 /\ IF bin.isFailed
                    THEN /\ skipped' = [skipped EXCEPT ![t] = @ \cup {s}]
                         /\ run' = [run EXCEPT ![h] = enter(SkipFailedBin)]
                    ELSE /\ run' = [run EXCEPT ![h] = [enter("open") EXCEPT
                                              !.bin = bin, !.attempt = 1]]
                         /\ UNCHANGED skipped
      /\ UNCHANGED <<locks, poll, records, weighing, popup, opened, forced, bounds>>

\* A flush of a bin whose state changed writes the whole embedded state, from
\* the copy the entity manager holds.
FlushBin(h, state) ==
  LET b == BinOf(run[h].tx, run[h].step)
  IN  bins' = [bins EXCEPT ![b] = Changed(run[h].bin, state, @)]

\* Variant: the realtime services are never triggered.
NeverTrigger == "announce"

\* _triggerRealtimeServices comes before BIN.OPENED.
AfterOpening == "trigger"

\* The open command is answered by "every requested lock is open".
LockOpens(h) ==
  LET t == run[h].tx
      b == BinOf(t, run[h].step)
      state == [run[h].bin EXCEPT !.isLocked = FALSE, !.attempted = FALSE]
  IN  /\ At(h, "open")
      /\ door' = [door EXCEPT ![b] = "open"]
      /\ FlushBin(h, state)
      /\ opened' = [opened EXCEPT ![t] = @ \cup {run[h].step}]
      /\ run' = [run EXCEPT ![h].bin = state,
                            ![h].pc = AfterOpening]
      /\ UNCHANGED <<tx, net, poll, records, weighing, popup, skipped, forced, bounds>>

\* Variant: after the last failed attempt the step goes on as if it were open.
GoOnUnopened(attempt) == IF attempt < MaxAttempts THEN "open" ELSE "announce"

\* The loop of _attemptToOpenLockWithRetry.
AfterFailure(attempt) == IF attempt < MaxAttempts THEN "open" ELSE "giveUp"

\* No success answer: the lock stayed shut, or opened and the answer was lost.
LockFails(h) ==
  LET b == BinOf(run[h].tx, run[h].step)
      state == [run[h].bin EXCEPT !.attempted = TRUE]
  IN  /\ At(h, "open")
      /\ \E d \in {door[b], "open"} : door' = [door EXCEPT ![b] = d]
      /\ bins' = [bins EXCEPT ![b] = state]
      /\ run' = [run EXCEPT ![h].bin = state,
           ![h].attempt = IF @ < MaxAttempts THEN @ + 1 ELSE @,
           ![h].pc = AfterFailure(run[h].attempt)]
      /\ UNCHANGED <<tx, net, poll, records, weighing, popup, history, bounds>>

GiveUp(h) ==
  LET state == [run[h].bin EXCEPT !.isFailed = TRUE]
  IN  /\ At(h, "giveUp")
      /\ FlushBin(h, state)
      /\ run' = [run EXCEPT ![h].pc = "stepFail", ![h].bin = state]
      /\ UNCHANGED <<tx, door, net, poll, records, weighing, popup, history, bounds>>

\* Variant: the failed step is not recorded.
FailStepUnnamed(t, s) == tx' = [tx EXCEPT ![t].status = "AWAITING_CORRECTION"]

\* handleStepFail: two fields are written, whatever the transaction's status,
\* and the error is announced without a step id.
FailStep(t, s) ==
  tx' = [tx EXCEPT ![t].status = "AWAITING_CORRECTION", ![t].lastError = s]

ReportOpenFailure(h) ==
  LET t == run[h].tx
  IN  /\ At(h, "stepFail")
      /\ FailStep(t, run[h].entity.currentStepId)
      /\ Send(Msg("STEP_ERROR", t, 0))
      /\ End(h)
      /\ UNCHANGED <<locks, poll, records, weighing, popup, history, bounds>>

TriggerReading(h) ==
  /\ At(h, "trigger")
  /\ reading' = reading \cup {BinOf(run[h].tx, run[h].step)}
  /\ stopped' = [stopped EXCEPT ![run[h].tx] = @ \ {run[h].step}]
  /\ Goto(h, "announce")
  /\ UNCHANGED <<tx, locks, net, poll, records, popup, history, bounds>>

AnnounceOpened(h) ==
  /\ At(h, "announce")
  /\ Send(Msg("BIN_OPENED", run[h].tx, run[h].step))
  /\ End(h)
  /\ UNCHANGED <<tx, locks, poll, records, weighing, popup, history, bounds>>
-----------------------------------------------------------------------------
(* Watching the lock of the open bin                                       *)

\* Variant: the loop goes on although the bin is closed.
KeepPolling(t) == poll' = poll

StopPolling(t) == poll' = [poll EXCEPT ![t] = 0]

\* Variant: bin and step are compared the wrong way round.
IsAnother(h) == run[h].step # run[h].entity.currentStepId

\* Does the message's bin belong to the current step of the entity?
IsCurrent(h) == run[h].step = run[h].entity.currentStepId

\* handleBinOpened stops the previous loop before it reads the transaction.
OnBinOpened(h, t, s) ==
  /\ IsIdle(h)
  /\ Receive(Msg("BIN_OPENED", t, s))
  /\ StopPolling(t)
  /\ run' = [run EXCEPT ![h] = Begin("arm", t, s, tx[t])]
  /\ UNCHANGED <<tx, locks, records, weighing, popup, history, bounds>>

ArmPolling(h) ==
  /\ At(h, "arm")
  /\ poll' = [poll EXCEPT ![run[h].tx] = IF IsCurrent(h) THEN run[h].step ELSE @]
  /\ End(h)
  /\ UNCHANGED <<tx, locks, net, records, weighing, popup, history, bounds>>

\* A cycle of the loop, or the BIN.CLOSED it sent, is under way.
Watched(t) ==
  \/ \E h \in Handlers : run[h].tx = t /\ run[h].pc \in {"poll", "closed"}
  \/ \E s \in StepIds : InFlight(Msg("BIN_CLOSED", t, s))

\* Something happens to t that upsets it, if it is a disorder.
Upsets(t, disorder) ==
  /\ disorder => t \in Unruly
  /\ upset' = IF disorder THEN upset \cup {t} ELSE upset

\* setInterval starts a cycle whether or not the previous one has ended.
PollTick(h, t) ==
  /\ IsIdle(h)
  /\ poll[t] # 0
  /\ Upsets(t, Watched(t))
  /\ run' = [run EXCEPT ![h] = Begin("poll", t, poll[t], NoDocument)]
  /\ UNCHANGED <<tx, locks, net, poll, records, weighing, popup, history, answers, lost, crashes>>

PollSeesClosed(h) ==
  /\ At(h, "poll")
  /\ door[BinOf(run[h].tx, run[h].step)] = "closed"
  /\ Goto(h, "closed")
  /\ UNCHANGED <<tx, locks, net, poll, records, weighing, popup, history, bounds>>

\* The board answers without the status of the lock: every of no statuses is
\* "closed", whatever the door.
PollSeesNoStatus(h) ==
  /\ At(h, "poll")
  /\ Goto(h, "closed")
  /\ UNCHANGED <<tx, locks, net, poll, records, weighing, popup, history, bounds>>

\* The lock is open, or the lock board did not answer.
PollSeesNothing(h) ==
  /\ At(h, "poll")
  /\ End(h)
  /\ UNCHANGED <<tx, locks, net, poll, records, weighing, popup, history, bounds>>

AnnounceClosed(h) ==
  LET t == run[h].tx
      m == Msg("BIN_CLOSED", t, run[h].step)
  IN  /\ At(h, "closed")
      /\ net[m] < MaxCopies
      /\ bins' = [bins EXCEPT ![BinOf(t, run[h].step)].isLocked = TRUE]
      /\ Send(m)
      /\ End(h)
      /\ UNCHANGED <<tx, door, poll, records, weighing, popup, history, bounds>>
-----------------------------------------------------------------------------
(* Checking the quantities of a step whose bin was closed                  *)

OnBinClosed(h, t, s) ==
  /\ IsIdle(h)
  /\ Receive(Msg("BIN_CLOSED", t, s))
  /\ StopPolling(t)
  /\ run' = [run EXCEPT ![h] = Begin("check", t, s, tx[t])]
  /\ UNCHANGED <<tx, locks, records, weighing, popup, history, bounds>>

\* The quantities match the plan or not, and something was taken or not; an
\* issue step that matches did take its items.
Outcomes(t, s) == {o \in [ok : BOOLEAN, took : BOOLEAN] :
                     o.ok /\ s \in Tracked[t] => o.took}

CheckQuantities(h) ==
  LET t == run[h].tx
      s == run[h].step
  IN  /\ At(h, "check")
      /\ IF ~IsCurrent(h) THEN UNCHANGED <<net, results, taken>>
         ELSE /\ results[t][s] < MaxResults
              /\ results' = [results EXCEPT ![t][s] = @ + 1]
              /\ \E o \in Outcomes(t, s) :
                   /\ taken' = IF o.took THEN [taken EXCEPT ![t] = @ \cup {s}] ELSE taken
                   /\ Send(Msg(IF o.ok THEN "STEP_SUCCESS" ELSE "STEP_ERROR", t, s))
      /\ End(h)
      /\ UNCHANGED <<tx, locks, poll, credited, weighing, popup, history, bounds>>
-----------------------------------------------------------------------------
(* Finishing a step                                                        *)

OnStepSuccess(h, t, s) ==
  /\ IsIdle(h)
  /\ Receive(Msg("STEP_SUCCESS", t, s))
  /\ run' = [run EXCEPT ![h] = Begin("history", t, s, tx[t])]
  /\ UNCHANGED <<tx, locks, poll, records, weighing, popup, history, bounds>>

\* The events of a step carry no bin, so that the history of an issued item
\* that is not consumable throws (RefHelper.getRequired) and the handler ends.
HistoryThrows(t, s) == s \in Tracked[t] /\ s \in taken[t]

RecordHistory(h) ==
  LET t == run[h].tx
      s == run[h].step
  IN  /\ At(h, "history")
      /\ IF HistoryThrows(t, s)
         THEN End(h) /\ UNCHANGED credited
         ELSE /\ credited' = [credited EXCEPT ![t][s] = @ + 1]
              /\ Goto(h, "advance")
      /\ UNCHANGED <<tx, locks, net, poll, results, taken, weighing, popup, history, bounds>>

\* Variant: the index of the completed step, without the + 1.
SameStep(s) == s

NextStep(s) == s + 1

\* Variant: <= for < in the comparison with executionSteps.length.
HasNextOrLast(t, s) == s \in StepsOf(t)

HasNext(t, s) == NextStep(s) \in StepsOf(t)

\* Variant: the step after the transaction's current one, not after the one
\* that was completed.
AtCurrentStep(h) == run[h].entity.currentStepId

CompletedStep(h) == run[h].step

\* Variant: a forced end counts as a clean one.
AlwaysCompleted(isError) == "COMPLETED"

FinalStatus(isError) == IF isError THEN "COMPLETED_WITH_ERROR" ELSE "COMPLETED"

Advance(h) ==
  LET t == run[h].tx
      s == CompletedStep(h)
      entity == IF HasNext(t, s)
                THEN [run[h].entity EXCEPT !.currentStepId = NextStep(s)]
                ELSE [run[h].entity EXCEPT !.status = FinalStatus(run[h].isForced)]
  IN  /\ At(h, "advance")
      /\ tx' = [tx EXCEPT ![t] = Flush(run[h].entity, entity, @)]
      /\ IF HasNext(t, s)
         THEN /\ run' = [run EXCEPT ![h] = [Idle EXCEPT
                            !.pc = "execute", !.tx = t, !.entity = entity]]
              /\ UNCHANGED net
         ELSE Send(Msg("TRANSACTION_COMPLETED", t, 0)) /\ End(h)
      /\ UNCHANGED <<locks, poll, records, weighing, popup, history, bounds>>

OnStepError(t, s) ==
  /\ s # 0
  /\ ReceiveAndSend(Msg("STEP_ERROR", t, s), Msg("STEP_ERROR", t, 0))
  /\ FailStep(t, s)
  /\ UNCHANGED <<locks, run, poll, records, weighing, popup, history, bounds>>

\* The announcement of an error reaches the operator's screen; the worker, who
\* receives it too, throws before it writes anything (no errors to join).
OnErrorAnnounced(t) ==
  /\ Receive(Msg("STEP_ERROR", t, 0))
  /\ popup' = [popup EXCEPT ![t] = TRUE]
  /\ UNCHANGED <<tx, locks, run, poll, records, weighing, history, bounds>>

\* forceNextStep looks for the transaction with status AWAITING_CORRECTION,
\* and goes on after the step of its last error.
OnForceNext(h, t) ==
  LET s == tx[t].lastError
  IN  /\ IsIdle(h)
      /\ Receive(Msg("FORCE_NEXT", t, 0))
      /\ IF tx[t].status # "AWAITING_CORRECTION" THEN UNCHANGED <<tx, run, forced>>
         ELSE IF s = 0
         THEN /\ tx' = [tx EXCEPT ![t].status = "COMPLETED_WITH_ERROR"]
              /\ UNCHANGED <<run, forced>>
         ELSE /\ run' = [run EXCEPT ![h] =
                            [Begin("advance", t, s, tx[t]) EXCEPT !.isForced = TRUE]]
              /\ forced' = [forced EXCEPT ![t] = @ \cup {s}]
              /\ UNCHANGED tx
      /\ UNCHANGED <<locks, poll, records, weighing, popup, opened, skipped, bounds>>

OnForceEnd(t) ==
  /\ Receive(Msg("FORCE_END", t, 0))
  /\ tx' = [tx EXCEPT ![t].status =
             IF @ = "AWAITING_CORRECTION" THEN "COMPLETED_WITH_ERROR" ELSE @]
  /\ UNCHANGED <<locks, run, poll, records, weighing, popup, history, bounds>>

\* _stopRealtimeServices for every step of the plan, whoever else has the bin read.
StopReadingAll(t) ==
  LET all == {BinOf(t, s) : s \in StepsOf(t)}
  IN  /\ reading' = reading \ all
      /\ stopped' = [u \in Txs |-> IF u = t THEN stopped[u]
                                   ELSE stopped[u] \cup {s \in StepsOf(u) : BinOf(u, s) \in all}]

\* handleTxComplete and handleTxError: whatever another transaction still watches,
\* the reading of all bins of the plan stops.
OnEnded(t) ==
  /\ \E type \in {"TRANSACTION_COMPLETED", "TRANSACTION_FAILED"} : Receive(Msg(type, t, 0))
  /\ StopReadingAll(t)
  /\ UNCHANGED <<tx, locks, run, poll, records, popup, history, bounds>>
-----------------------------------------------------------------------------
(* The environment: the user, the operator, the broker, restarts           *)

CloseDoor(b) ==
  /\ door[b] = "open"
  /\ door' = [door EXCEPT ![b] = "closed"]
  /\ UNCHANGED <<tx, bins, net, run, poll, records, weighing, popup, history, bounds>>

\* The inventory service forwards a force request without looking at the
\* transaction; the popup is closed.
Answer(t, type) ==
  /\ answers < MaxAnswers
  /\ tx[t].status # "NONE"
  /\ Upsets(t, ~popup[t])
  /\ answers' = answers + 1
  /\ popup' = [popup EXCEPT ![t] = FALSE]
  /\ Send(Msg(type, t, 0))
  /\ UNCHANGED <<tx, locks, run, poll, records, weighing, history, lost, crashes>>

\* QoS 0: a message may be lost.
Lose(m) ==
  /\ lost < MaxLost
  /\ Receive(m)
  /\ lost' = lost + 1
  /\ UNCHANGED <<tx, locks, run, poll, records, weighing, popup, history, upset, answers, crashes>>

\* The worker restarts: its handlers and its polling loops are gone, and the
\* broker keeps nothing for a client that is away.
Crash ==
  /\ crashes < MaxCrashes
  /\ crashes' = crashes + 1
  /\ run' = [h \in Handlers |-> Idle]
  /\ poll' = [t \in Txs |-> 0]
  /\ net' \in {net, [m \in Message |-> 0]}
  /\ UNCHANGED <<tx, locks, records, weighing, popup, history, upset, answers, lost>>

Forces == {"FORCE_NEXT", "FORCE_END"}

\* One step of the handler in slot h.
HandlerStep(h) ==
  \/ BeginProcessing(h) \/ ExecuteStep(h)
  \/ LockOpens(h) \/ LockFails(h) \/ GiveUp(h) \/ ReportOpenFailure(h)
  \/ TriggerReading(h) \/ AnnounceOpened(h) \/ ArmPolling(h)
  \/ PollSeesClosed(h) \/ PollSeesNoStatus(h) \/ PollSeesNothing(h) \/ AnnounceClosed(h)
  \/ CheckQuantities(h) \/ RecordHistory(h) \/ Advance(h)

\* A message of transaction t that starts a handler in slot h.
Dispatch(h, t) ==
  \/ OnStart(h, t) \/ OnForceNext(h, t)
  \/ \E s \in StepsOf(t) : \/ OnBinOpened(h, t, s)
                           \/ OnBinClosed(h, t, s)
                           \/ OnStepSuccess(h, t, s)

\* A message of transaction t handled in one step.
HandleAtOnce(t) ==
  \/ \E s \in StepsOf(t) : OnStepError(t, s)
  \/ OnErrorAnnounced(t) \/ OnForceEnd(t) \/ OnEnded(t)

Next ==
  \/ \E t \in Txs : CreateAndStart(t) \/ HandleAtOnce(t)
  \/ \E h \in Handlers : HandlerStep(h)
  \/ \E h \in Handlers, t \in Txs : Dispatch(h, t) \/ PollTick(h, t)
  \/ \E b \in Bins : CloseDoor(b)
  \/ \E t \in Txs, type \in Forces : Answer(t, type)
  \/ \E m \in Message : Lose(m)
  \/ Crash

Spec == Init /\ [][Next]_vars

\* Node runs every pending continuation, timer and message; the user closes an
\* open bin, the operator answers a popup, and the lock board answers a cycle
\* now and then (strong fairness: a cycle may fail, not all of them).
Fairness ==
  /\ \A h \in Handlers : /\ WF_vars(HandlerStep(h))
                         /\ SF_vars(PollSeesClosed(h))
  /\ \A t \in Txs : /\ WF_vars(CreateAndStart(t))
                    /\ WF_vars(HandleAtOnce(t))
                    /\ WF_vars(\E h \in Handlers : Dispatch(h, t))
                    /\ WF_vars(\E h \in Handlers : PollTick(h, t))
                    /\ WF_vars(popup[t] /\ \E type \in Forces : Answer(t, type))
  /\ \A b \in Bins : WF_vars(CloseDoor(b))

FairSpec == Spec /\ Fairness
-----------------------------------------------------------------------------
(* Properties of every execution                                           *)

\* Every variable has its type.
TypeOK ==
  /\ tx \in [Txs -> Document]
  /\ bins \in [Bins -> BinState]
  /\ door \in [Bins -> {"open", "closed"}]
  /\ net \in [Message -> Nat]
  /\ run \in [Handlers -> Frame]
  /\ poll \in [Txs -> StepIds]
  /\ results \in [Txs -> [StepIds -> Nat]]
  /\ taken \in [Txs -> SUBSET StepIds]
  /\ credited \in [Txs -> [StepIds -> Nat]]
  /\ reading \subseteq Bins
  /\ popup \in [Txs -> BOOLEAN]
  /\ opened \in [Txs -> SUBSET StepIds]
  /\ skipped \in [Txs -> SUBSET StepIds]
  /\ forced \in [Txs -> SUBSET StepIds]
  /\ stopped \in [Txs -> SUBSET StepIds]
  /\ upset \subseteq Txs
  /\ answers \in Nat /\ lost \in Nat /\ crashes \in Nat

\* A step is settled when its history was processed or the operator skipped it.
Settled(t, s) == credited[t][s] > 0 \/ s \in forced[t]

\* However messages are lost, repeated or late and entities stale, the engine
\* never gets to a step before all the steps before it were settled.
NoStepJumped ==
  \A t \in Txs : \A s \in StepsOf(t) : s < tx[t].currentStepId => Settled(t, s)

\* _completeTransaction reports COMPLETED only when every step was settled.
CompletedIsSettled ==
  \A t \in Txs : tx[t].status = "COMPLETED" => \A s \in StepsOf(t) : Settled(t, s)

\* _failTransaction is dead code: no schedule makes the engine look for a step
\* that is not in the plan.
NeverFailed == \A t \in Txs : tx[t].status # "FAILED"

\* No quantity is recorded and no history processed for a step whose bin was
\* neither opened by the worker nor skipped as failed.
OpenedBeforeChecked ==
  \A t \in Txs : \A s \in StepsOf(t) :
    results[t][s] > 0 \/ credited[t][s] > 0 => s \in opened[t] \cup skipped[t]

\* However often a step is settled, each of its credits rests on a check of its
\* quantities of its own.
CreditsAreChecked ==
  \A t \in Txs : \A s \in StepsOf(t) \ skipped[t] : credited[t][s] <= results[t][s]

\* A transaction that waits for the operator names the step to go on from, so
\* that forceNextStep never falls through to ending the transaction.
CorrectionNamesStep ==
  \A t \in Txs : tx[t].status = "AWAITING_CORRECTION" => tx[t].lastError \in StepsOf(t)
-----------------------------------------------------------------------------
(* Properties of the transactions that nothing upset                       *)

DriverTypes == MessageType \ {"BIN_CLOSED", "TRANSACTION_COMPLETED", "TRANSACTION_FAILED"}

\* What may make the transaction move: a handler, a message, the watch on the
\* lock (the loop, a cycle of it or the message it sends), the open popup.
Drivers(t) ==
  {<<"handler", h>> : h \in {g \in Handlers : run[g].tx = t /\ run[g].pc \notin {"poll", "closed"}}}
  \cup {<<"message", m>> : m \in {n \in Message : n.tx = t /\ n.type \in DriverTypes /\ InFlight(n)}}
  \cup {<<"watch", t>> : x \in {y \in {t} : poll[t] # 0 \/ Watched(t)}}
  \cup {<<"popup", t>> : x \in {y \in {t} : popup[t]}}

\* The handlers hand a transaction over from one to the next: at most one thing
\* drives it, so no two handlers work on stale copies of each other's entity.
\* Nothing that upsets another transaction changes that.
OneDriver ==
  \A t \in Txs \ upset : /\ \A x, y \in Drivers(t) : x = y
                         /\ \A m \in Message : m.tx = t => net[m] <= 1

\* A step is checked at most once and settled in one way only.
SettledOnce ==
  \A t \in Txs \ upset : \A s \in StepsOf(t) :
    /\ results[t][s] <= 1
    /\ credited[t][s] <= 1
    /\ credited[t][s] > 0 => s \notin forced[t]

\* The operator is only asked about the step the transaction is at.
PopupAboutCurrentStep ==
  \A t \in Txs \ upset : popup[t] => tx[t].lastError = tx[t].currentStepId

\* As long as a lock is watched its bin is read, unless another transaction that
\* visits the bin ended after the reading began.
ReadingWhileWatched ==
  \A t \in Txs \ upset :
    poll[t] # 0 /\ poll[t] \notin stopped[t] => BinOf(t, poll[t]) \in reading

\* Nothing drives a transaction any more that is not over: what was taken at its
\* step has a history that throws.
Stranded(t) == Drivers(t) = {} /\ HistoryThrows(t, tx[t].currentStepId)

\* Neither was it upset, nor was a message lost or the worker restarted.
Undisturbed(t) == t \notin upset /\ lost = 0 /\ crashes = 0

\* A transaction that was created comes to an end, whichever locks fail and whatever
\* the operator answers, as long as it is undisturbed; or it is stranded.
EventuallyEnds ==
  \A t \in Txs : tx[t].status = "PENDING"
                  ~> tx[t].status \in Terminal \/ Stranded(t) \/ ~Undisturbed(t)
-----------------------------------------------------------------------------
(* What the documentation says of a forced step                            *)

\* processing-item.controller.ts: the audit trail reflects the forced skip.  Of a
\* completed transaction, its status, its last error or an event recorded for
\* the step shows that the operator skipped the step.
ForcedSkipIsVisible ==
  \A t \in Txs : \A s \in forced[t] :
    tx[t].status = "COMPLETED" => tx[t].lastError = s \/ results[t][s] > 0

\* processing-item.controller.ts: forcing prevents the entire transaction from
\* being blocked.  When nothing but the operator's request drives it, the
\* request ends the transaction or makes it go on.
ForceUnblocks ==
  \A t \in Txs :
    Drivers(t) = {<<"message", Msg("FORCE_NEXT", t, 0)>>}
      ~> \/ tx[t].status \in Terminal
         \/ \E h \in Handlers : run[h].tx = t /\ run[h].isForced
-----------------------------------------------------------------------------
\* The promise of the engine, and how its state maps to it: of a transaction that
\* was upset it shows that and no more.
StepAt(t) == IF t \in upset THEN 0 ELSE tx[t].currentStepId

Verdict(t, s) ==
  CASE t \in upset -> "none"
    [] t \notin upset /\ credited[t][s] = 0 /\ s \notin forced[t] -> "none"
    [] t \notin upset /\ credited[t][s] = 1 /\ s \notin forced[t] -> "credited"
    [] t \notin upset /\ credited[t][s] = 0 /\ s \in forced[t] -> "skipped"
    [] OTHER -> "twice"

Outcome(t) == IF t \in upset THEN "upset"
              ELSE IF tx[t].status \in Terminal THEN tx[t].status ELSE "running"

Lifecycle == INSTANCE TransactionLifecycle WITH
  Steps <- [t \in Txs |-> Len(Plan[t])],
  at <- [t \in Txs |-> StepAt(t)],
  verdict <- [t \in Txs |-> [s \in StepIds |-> Verdict(t, s)]],
  outcome <- [t \in Txs |-> Outcome(t)]

Refinement == Lifecycle!Spec
=============================================================================
