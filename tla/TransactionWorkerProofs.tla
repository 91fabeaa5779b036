---------------------- MODULE TransactionWorkerProofs ----------------------
(***************************************************************************)
(* Proofs about TransactionWorker, for all plans, numbers of transactions, *)
(* handlers, lost messages and restarts.                                   *)
(*                                                                         *)
(* First of every transaction: whatever messages are lost, repeated or late*)
(* and however stale the entities are, whether lock polls overlap or force *)
(* requests come unasked, the engine gets to no step before the steps      *)
(* before it were settled (IInv).                                          *)
(*                                                                         *)
(* Then of the transactions that were not upset, whatever upsets others:   *)
(* one thing at a time drives a transaction, every step is settled once,   *)
(* the engine implements the promise of TransactionLifecycle, and the load *)
(* cells of a bin are read for as long as its lock is watched, unless the  *)
(* end of another transaction stopped that.                                *)
(*                                                                         *)
(* That invariant is DInv: a transaction has at most one driver            *)
(* (Exclusive), the driver knows the transaction as it is stored           *)
(* (DriverHolds), and the books agree with the step it is at (Books).  An  *)
(* action is an instance of one of the ways in which a driver changes      *)
(* hands, each a lemma: it goes on, stops, hands over to a message or to   *)
(* the watch, takes up a message, or a message fades, appears or is passed *)
(* on.                                                                     *)
(***************************************************************************)
EXTENDS TransactionWorker, TLAPS

\* The engine may work on step s: it is in the plan, and all steps before it
\* were settled.
Reached(t, s) ==
  /\ s \in StepsOf(t)
  /\ \A r \in StepsOf(t) : r < s => Settled(t, r)

\* The lock of the step's bin was opened, or the bin was found failed.
Visited(t, s) == s \in opened[t] \cup skipped[t]

AllSettled(t) == \A s \in StepsOf(t) : Settled(t, s)

\* What holds of every copy of a transaction, stored or in a handler.
EntityOK(t, e) ==
  /\ e.status \notin {"NONE", "FAILED"}
  /\ Reached(t, e.currentStepId)
  /\ e.lastError # 0 => Reached(t, e.lastError)
  /\ e.status = "AWAITING_CORRECTION" => e.lastError # 0
  /\ e.status = "COMPLETED" => AllSettled(t)

Created(t) == tx[t].status # "NONE"

DocumentInv ==
  \A t \in Txs : IF Created(t) THEN EntityOK(t, tx[t])
                ELSE tx[t].currentStepId = 0 /\ tx[t].lastError = 0

\* A message is about a created transaction; if it names a step, the step was
\* reached and its bin visited.
MessageOK(m) ==
  /\ Created(m.tx)
  /\ m.type \in {"BIN_OPENED", "BIN_CLOSED", "STEP_SUCCESS"} \/ m.step # 0
       => Reached(m.tx, m.step) /\ Visited(m.tx, m.step)

MessageInv == \A m \in Message : InFlight(m) => MessageOK(m)

PollInv == \A t \in Txs :
  poll[t] # 0 => Created(t) /\ Reached(t, poll[t]) /\ Visited(t, poll[t])

FrameOK(f) ==
  f.pc # "idle" =>
    /\ f.tx \in Txs
    /\ Created(f.tx)
    /\ f.pc \notin {"poll", "closed"} => EntityOK(f.tx, f.entity)
    /\ f.pc \notin {"start", "execute"} => Reached(f.tx, f.step)
    /\ f.pc \in {"trigger", "announce", "arm", "poll", "closed", "check", "history"}
         => Visited(f.tx, f.step)
    /\ f.pc = "advance" => Settled(f.tx, f.step)

FrameInv == \A h \in Handlers : FrameOK(run[h])

IInv == /\ TypeOK /\ DocumentInv /\ MessageInv /\ PollInv /\ FrameInv
        /\ OpenedBeforeChecked
-----------------------------------------------------------------------------
(* Facts about the plan and the frames                                     *)

\* The steps of a plan are step ids, and their bins are bins.
LEMMA StepFacts ==
  ASSUME NEW t \in Txs, NEW s \in StepsOf(t)
  PROVE  /\ s \in StepIds /\ s \in Nat /\ s # 0
         /\ BinOf(t, s) \in Bins
<1>1. Len(Plan[t]) \in 1..MaxStep /\ MaxStep \in Nat /\ Plan[t] \in Seq(Bins)
  BY PlanAssumption
<1>2. s \in 1..Len(Plan[t])
  BY DEF StepsOf
<1> QED
  BY <1>1, <1>2 DEF StepIds, BinOf

\* What is settled, visited or reached stays so when the history grows.
Grows ==
  \A t \in Txs : /\ \A s \in StepIds : credited'[t][s] >= credited[t][s]
                /\ forced[t] \subseteq forced'[t]
                /\ opened[t] \subseteq opened'[t]
                /\ skipped[t] \subseteq skipped'[t]

LEMMA Growth ==
  ASSUME TypeOK, TypeOK', Grows, NEW t \in Txs
  PROVE  /\ \A s \in StepIds : Settled(t, s) => Settled(t, s)'
         /\ \A s : Visited(t, s) => Visited(t, s)'
         /\ \A s : Reached(t, s) => Reached(t, s)'
         /\ AllSettled(t) => AllSettled(t)'
         /\ \A e : EntityOK(t, e) => EntityOK(t, e)'
<1>1. \A s \in StepIds : Settled(t, s) => Settled(t, s)'
  BY DEF Settled, Grows, TypeOK
<1>2. \A s : Visited(t, s) => Visited(t, s)'
  BY DEF Visited, Grows
<1>3. \A s \in StepsOf(t) : s \in StepIds
  BY StepFacts
<1>4. \A s : Reached(t, s) => Reached(t, s)'
  BY <1>1, <1>3 DEF Reached, StepsOf
<1>5. AllSettled(t) => AllSettled(t)'
  BY <1>1, <1>3 DEF AllSettled, StepsOf
<1>6. \A e : EntityOK(t, e) => EntityOK(t, e)'
  BY <1>4, <1>5 DEF EntityOK
<1> QED
  BY <1>1, <1>2, <1>4, <1>5, <1>6

\* A frame that was fine stays fine, as long as transactions stay created.
LEMMA FrameGrowth ==
  ASSUME TypeOK, TypeOK', Grows, NEW f \in Frame, FrameOK(f),
         \A t \in Txs : Created(t) => Created(t)'
  PROVE  FrameOK(f)'
<1>1. CASE f.pc = "idle"
  BY <1>1 DEF FrameOK
<1>2. CASE f.pc # "idle"
  <2>1. f.tx \in Txs
    BY <1>2 DEF FrameOK
  <2>2. f.step \in StepIds
    BY DEF Frame
  <2> QED
    BY <1>2, <2>1, <2>2, Growth DEF FrameOK
<1> QED
  BY <1>1, <1>2

\* The invariant is preserved by a step that only adds to the history, whose
\* writes of transactions, messages sent, steps watched, frames and records
\* are as they should be.
Writes == \A t \in Txs : tx'[t] = tx[t] \/ (Created(t)' /\ EntityOK(t, tx[t])')
Sends == \A m \in Message : net'[m] > net[m] => MessageOK(m)'
Watches == \A t \in Txs : poll'[t] # 0 /\ poll'[t] # poll[t]
             => Created(t)' /\ Reached(t, poll[t])' /\ Visited(t, poll[t])'
Runs == \A h \in Handlers : run'[h] # run[h] => FrameOK(run[h])'
Records == \A t \in Txs : \A s \in StepsOf(t) :
             results'[t][s] # results[t][s] \/ credited'[t][s] # credited[t][s]
               => Visited(t, s)'

LEMMA Preserve ==
  ASSUME IInv, TypeOK', Grows, Writes, Sends, Watches, Runs, Records
  PROVE  IInv'
<1> USE DEF IInv
<1>1. \A t \in Txs : Created(t) => Created(t)'
  BY DEF Writes, Created
<1>2. DocumentInv'
  <2> SUFFICES ASSUME NEW t \in Txs
               PROVE  (IF Created(t) THEN EntityOK(t, tx[t])
                       ELSE tx[t].currentStepId = 0 /\ tx[t].lastError = 0)'
    BY DEF DocumentInv
  <2>1. CASE tx'[t] = tx[t]
    <3>1. PICK e : e = tx[t]
      OBVIOUS
    <3>2. EntityOK(t, e) => EntityOK(t, e)'
      BY Growth
    <3>3. EntityOK(t, tx[t]) => EntityOK(t, tx[t])'
      BY <2>1, <3>1, <3>2 DEF EntityOK, Reached, AllSettled, Settled
    <3> QED
      BY <2>1, <3>3 DEF DocumentInv, Created
  <2>2. CASE Created(t)' /\ EntityOK(t, tx[t])'
    BY <2>2 DEF Created
  <2> QED
    BY <2>1, <2>2 DEF Writes
<1>3. MessageInv'
  <2> SUFFICES ASSUME NEW m \in Message, InFlight(m)'
               PROVE  MessageOK(m)'
    BY DEF MessageInv
  <2>1. CASE net'[m] > net[m]
    BY <2>1 DEF Sends
  <2>2. CASE ~(net'[m] > net[m])
    <3>1. InFlight(m)
      BY <2>2 DEF InFlight, TypeOK
    <3>2. MessageOK(m) /\ m.tx \in Txs
      BY <3>1 DEF MessageInv, Message
    <3> QED
      BY <1>1, <3>2, Growth DEF MessageOK
  <2> QED
    BY <2>1, <2>2
<1>4. PollInv'
  BY <1>1, Growth DEF PollInv, Watches
<1>5. FrameInv'
  <2> SUFFICES ASSUME NEW h \in Handlers
               PROVE  FrameOK(run[h])'
    BY DEF FrameInv
  <2>1. CASE run'[h] = run[h]
    <3>1. run[h] \in Frame /\ FrameOK(run[h])
      BY DEF TypeOK, FrameInv
    <3>2. PICK f \in Frame : f = run[h]
      BY <3>1
    <3>3. FrameOK(f)'
      BY <1>1, <3>1, <3>2, FrameGrowth
    <3> QED
      BY <2>1, <3>2, <3>3
  <2> QED
    BY <2>1 DEF Runs
<1>6. OpenedBeforeChecked'
  <2> SUFFICES ASSUME NEW t \in Txs, NEW s \in StepsOf(t),
                      (results[t][s] > 0 \/ credited[t][s] > 0)'
               PROVE  Visited(t, s)'
    BY DEF OpenedBeforeChecked, Visited, StepsOf
  <2> QED
    BY Growth DEF OpenedBeforeChecked, Visited, Records
<1> QED
  BY <1>2, <1>3, <1>4, <1>5, <1>6

\* Most handlers leave the history and the records alone.
LEMMA Quiet ==
  ASSUME TypeOK, UNCHANGED <<records, history>>
  PROVE  Grows /\ Records
BY DEF Grows, Records, records, history, TypeOK

\* A frame begun for a transaction that was read is fine; so is an idle one.
LEMMA IdleFrame == Idle \in Frame /\ FrameOK(Idle)
<1>1. 0 \in StepIds
  BY PlanAssumption DEF StepIds
<1>2. NoDocument \in Document /\ LockedBin \in BinState
  BY <1>1 DEF NoDocument, Document, Status, LockedBin, BinState
<1>3. Idle \in Frame
  BY <1>1, <1>2 DEF Idle, Frame, Pc
<1>4. FrameOK(Idle)
  BY DEF Idle, FrameOK
<1> QED
  BY <1>3, <1>4

LEMMA BeginFrame ==
  ASSUME NEW pc \in Pc, NEW t \in Txs, NEW s \in StepIds, NEW e \in Document
  PROVE  Begin(pc, t, s, e) \in Frame
BY IdleFrame DEF Begin, Frame

\* What sending and receiving do to the messages in flight.
LEMMA SendFacts ==
  ASSUME TypeOK, NEW m \in Message, Send(m)
  PROVE  /\ net' \in [Message -> Nat]
         /\ MessageOK(m)' => Sends
BY DEF TypeOK, Send, Sends

LEMMA ReceiveFacts ==
  ASSUME IInv, NEW m \in Message, Receive(m)
  PROVE  MessageOK(m) /\ net' \in [Message -> Nat] /\ Sends
BY DEF IInv, TypeOK, MessageInv, Receive, InFlight, Sends

\* What writing one transaction, or one frame, does.
LEMMA WriteFacts ==
  ASSUME TypeOK, NEW t \in Txs, NEW d \in Document, tx' = [tx EXCEPT ![t] = d]
  PROVE  tx' \in [Txs -> Document] /\ (EntityOK(t, d)' => Writes)
BY DEF TypeOK, Writes, Created, EntityOK

LEMMA RunFacts ==
  ASSUME TypeOK, NEW h \in Handlers, NEW f \in Frame, run' = [run EXCEPT ![h] = f]
  PROVE  run' \in [Handlers -> Frame] /\ (FrameOK(f)' => Runs)
BY DEF TypeOK, Runs

LEMMA EndFacts ==
  ASSUME TypeOK, NEW h \in Handlers, End(h)
  PROVE  run' \in [Handlers -> Frame] /\ Runs
<1>1. FrameOK(Idle)'
  BY DEF FrameOK, Idle
<1> QED
  BY <1>1, IdleFrame, RunFacts DEF End

\* The messages are messages.
LEMMA MsgFacts ==
  ASSUME NEW type \in MessageType, NEW t \in Txs, NEW s \in StepIds
  PROVE  /\ Msg(type, t, s) \in Message
         /\ Msg(type, t, s).type = type /\ Msg(type, t, s).tx = t /\ Msg(type, t, s).step = s
BY DEF Msg, Message

\* The frame in slot h, while it is at work.
LEMMA AtFacts ==
  ASSUME IInv, NEW h \in Handlers, NEW pc \in Pc \ {"idle"}, At(h, pc)
  PROVE  /\ run[h] \in Frame /\ FrameOK(run[h]) /\ run[h].pc = pc
         /\ run[h].tx \in Txs /\ run[h].step \in StepIds /\ Created(run[h].tx)
         /\ tx[run[h].tx] \in Document /\ EntityOK(run[h].tx, tx[run[h].tx])
BY DEF IInv, TypeOK, FrameInv, FrameOK, Frame, At, DocumentInv

LEMMA ZeroFacts == 0 \in StepIds /\ MaxStep \in Nat
BY PlanAssumption DEF StepIds
\* A flush leaves a fine document, if the entity is fine and its lastError
\* was not assigned.
LEMMA FlushFacts ==
  ASSUME NEW t \in Txs, NEW loaded \in Document, NEW entity \in Document,
         NEW stored \in Document, EntityOK(t, entity), EntityOK(t, stored),
         entity.lastError = loaded.lastError,
         entity.status # loaded.status => entity.status # "AWAITING_CORRECTION"
  PROVE  /\ Flush(loaded, entity, stored) \in Document
         /\ EntityOK(t, Flush(loaded, entity, stored))
<1> DEFINE d == Flush(loaded, entity, stored)
<1>1. /\ d \in Document
      /\ d.status = Changed(loaded.status, entity.status, stored.status)
      /\ d.currentStepId = Changed(loaded.currentStepId, entity.currentStepId, stored.currentStepId)
      /\ d.lastError = stored.lastError
  BY DEF Flush, Changed, Document
<1> HIDE DEF d
<1>2. EntityOK(t, d)
  BY <1>1 DEF EntityOK, Changed
<1> QED
  BY <1>1, <1>2 DEF d
-----------------------------------------------------------------------------
(* The actions                                                             *)

LEMMA InitInv == Init => IInv
<1> SUFFICES ASSUME Init PROVE IInv
  OBVIOUS
<1>1. TypeOK
  <2>1. 0 \in StepIds
    BY PlanAssumption DEF StepIds
  <2>2. tx \in [Txs -> Document]
    BY <2>1 DEF Init, NoDocument, Document, Status
  <2>3. bins \in [Bins -> BinState]
    <3>1. LockedBin \in BinState /\ [LockedBin EXCEPT !.isFailed = TRUE] \in BinState
      BY DEF BinState, LockedBin
    <3> QED
      BY <3>1 DEF Init
  <2>4. run \in [Handlers -> Frame]
    BY IdleFrame DEF Init
  <2> QED
    BY <2>1, <2>2, <2>3, <2>4 DEF Init, TypeOK
<1>2. DocumentInv /\ MessageInv /\ PollInv /\ OpenedBeforeChecked
  BY StepFacts DEF Init, DocumentInv, Created, NoDocument, MessageInv, InFlight, PollInv,
         OpenedBeforeChecked
<1>3. FrameInv
  BY IdleFrame DEF Init, FrameInv
<1> QED
  BY <1>1, <1>2, <1>3 DEF IInv

LEMMA CreateAndStartInv ==
  ASSUME IInv, NEW t \in Txs, CreateAndStart(t)
  PROVE  IInv'
<1> DEFINE m == Msg("START", t, 0)
<1>1. m \in Message /\ m.tx = t /\ m.step = 0 /\ m.type = "START"
  BY ZeroFacts, MsgFacts DEF MessageType
<1>2. 1 \in StepsOf(t)
  BY PlanAssumption DEF StepsOf
<1>3. PICK d \in Document : /\ tx' = [tx EXCEPT ![t] = d] /\ d.status = "PENDING"
                             /\ d.currentStepId = 1 /\ d.lastError = tx[t].lastError
  <2> DEFINE e == [tx[t] EXCEPT !.status = "PENDING", !.currentStepId = 1]
  <2>1. tx' = [tx EXCEPT ![t] = e] /\ e \in Document
    BY <1>2, StepFacts DEF CreateAndStart, IInv, TypeOK, Document, Status, FirstStep
  <2> QED
    BY <2>1 DEF IInv, TypeOK, Document
<1>4. Grows /\ Records /\ Watches /\ Runs
  BY Quiet DEF CreateAndStart, IInv, Watches, Runs
<1>5. TypeOK'
  BY <1>1, <1>3, SendFacts, WriteFacts
     DEF CreateAndStart, IInv, TypeOK, locks, records, history, bounds, weighing
<1>6. EntityOK(t, d)'
  BY <1>2, <1>3, StepFacts
     DEF CreateAndStart, IInv, DocumentInv, Created, EntityOK, Reached, StepsOf
<1>7. Writes /\ Sends
  BY <1>1, <1>3, <1>6, WriteFacts, SendFacts
     DEF CreateAndStart, IInv, TypeOK, MessageOK, Created
<1> QED
  BY <1>4, <1>5, <1>7, Preserve

\* A handler that begins with a fresh copy of the transaction of a message.
LEMMA BeginFacts ==
  ASSUME IInv, TypeOK', Grows, NEW h \in Handlers, NEW t \in Txs, NEW s \in StepIds,
         NEW pc \in Pc, pc \in {"start", "arm", "check", "history"},
         run' = [run EXCEPT ![h] = Begin(pc, t, s, tx[t])],
         tx' = tx, Created(t), pc # "start" => Reached(t, s) /\ Visited(t, s)
  PROVE  Runs
<1>1. tx[t] \in Document /\ EntityOK(t, tx[t])
  BY DEF IInv, TypeOK, DocumentInv
<1>2. PICK f \in Frame : f = Begin(pc, t, s, tx[t])
  BY <1>1, BeginFrame
<1>3. f.pc = pc /\ f.tx = t /\ f.step = s /\ f.entity = tx[t]
  BY <1>2 DEF Begin, Idle
<1>4. FrameOK(f)
  BY <1>1, <1>3 DEF FrameOK
<1>5. FrameOK(f)'
  BY <1>4, FrameGrowth DEF IInv, Created
<1> QED
  BY <1>2, <1>5, RunFacts DEF IInv

LEMMA OnStartInv ==
  ASSUME IInv, NEW h \in Handlers, NEW t \in Txs, OnStart(h, t)
  PROVE  IInv'
<1> DEFINE m == Msg("START", t, 0)
<1>1. m \in Message /\ m.tx = t /\ Receive(m)
  BY ZeroFacts, MsgFacts DEF MessageType, OnStart
<1>2. MessageOK(m) /\ net' \in [Message -> Nat] /\ Sends
  BY <1>1, ReceiveFacts
<1>3. TypeOK'
  BY <1>2, BeginFrame, ZeroFacts, RunFacts
     DEF OnStart, IInv, TypeOK, Pc, locks, records, history, bounds, weighing
<1>4. Grows /\ Records /\ Writes /\ Watches
  BY Quiet DEF OnStart, IInv, Writes, Watches
<1>5. Runs
  BY <1>1, <1>2, <1>3, <1>4, ZeroFacts, BeginFacts DEF OnStart, MessageOK, Pc
<1> QED
  BY <1>2, <1>3, <1>4, <1>5, Preserve

LEMMA BeginProcessingInv ==
  ASSUME IInv, NEW h \in Handlers, BeginProcessing(h)
  PROVE  IInv'
<1> DEFINE t == run[h].tx
<1>1. /\ run[h] \in Frame /\ FrameOK(run[h]) /\ run[h].pc = "start"
      /\ t \in Txs /\ Created(t) /\ tx[t] \in Document /\ EntityOK(t, tx[t])
  BY AtFacts DEF BeginProcessing, Pc
<1> DEFINE e == [run[h].entity EXCEPT !.status = "PROCESSING"]
           d == Flush(run[h].entity, e, tx[t])
           f == [run[h] EXCEPT !.pc = "execute", !.entity = e]
<1>2. /\ e \in Document /\ run[h].entity \in Document /\ e.status = "PROCESSING"
      /\ e.currentStepId = run[h].entity.currentStepId /\ e.lastError = run[h].entity.lastError
  BY <1>1 DEF Frame, Document, Status
<1>3. f \in Frame /\ f.pc = "execute" /\ f.tx = t /\ f.entity = e
  BY <1>1, <1>2 DEF Frame, Pc
<1>4. EntityOK(t, e) /\ d \in Document /\ EntityOK(t, d) /\ FrameOK(f)
  <2> HIDE DEF e, f
  <2>1. EntityOK(t, e)
    BY <1>1, <1>2 DEF FrameOK, EntityOK
  <2> QED
    BY <1>1, <1>2, <1>3, <2>1, FlushFacts DEF FrameOK
<1>5. tx' = [tx EXCEPT ![t] = d] /\ run' = [run EXCEPT ![h] = f]
  BY DEF BeginProcessing
<1> HIDE DEF d, f
<1>6. TypeOK'
  <2>1. tx' \in [Txs -> Document] /\ run' \in [Handlers -> Frame]
    BY <1>1, <1>3, <1>4, <1>5, WriteFacts, RunFacts DEF IInv
  <2> QED
    BY <2>1 DEF BeginProcessing, IInv, TypeOK, locks, records, history, bounds, weighing
<1>7. Grows /\ Records /\ Sends /\ Watches
  BY Quiet DEF BeginProcessing, IInv, TypeOK, Sends, Watches
<1>8. Writes
  BY <1>1, <1>4, <1>5, <1>6, <1>7, WriteFacts, Growth DEF IInv
<1>9. \A u \in Txs : Created(u) => Created(u)'
  BY <1>8 DEF Writes, Created
<1>10. Runs
  BY <1>3, <1>4, <1>5, <1>6, <1>7, <1>9, RunFacts, FrameGrowth DEF IInv
<1> QED
  BY <1>6, <1>7, <1>8, <1>10, Preserve

\* A handler that goes on within the same step, with the same entity.
LEMMA GoOnFacts ==
  ASSUME IInv, TypeOK', Grows, Writes, NEW h \in Handlers,
         NEW g \in Frame, FrameOK(g), g.pc \notin {"idle", "start", "execute", "poll", "closed"},
         NEW f \in Frame, f.tx = g.tx, f.step = g.step, f.entity = g.entity,
         f.pc \in {"trigger", "announce", "arm", "check", "history"} => Visited(g.tx, g.step)',
         f.pc = "advance" => Settled(g.tx, g.step)',
         f.pc \notin {"poll", "closed"},
         run' = [run EXCEPT ![h] = f]
  PROVE  Runs
<1>1. g.tx \in Txs /\ Created(g.tx) /\ EntityOK(g.tx, g.entity) /\ Reached(g.tx, g.step)
  BY DEF FrameOK
<1>2. EntityOK(g.tx, g.entity)' /\ Reached(g.tx, g.step)'
  BY <1>1, Growth DEF IInv
<1>3. Created(g.tx)'
  BY <1>1 DEF Writes, Created
<1>4. FrameOK(f)'
  BY <1>1, <1>2, <1>3 DEF FrameOK
<1> QED
  BY <1>4, RunFacts DEF IInv

LEMMA LockOpensInv ==
  ASSUME IInv, NEW h \in Handlers, LockOpens(h)
  PROVE  IInv'
<1>1. PICK g \in Frame : /\ g = run[h] /\ FrameOK(g) /\ g.pc = "open"
                         /\ g.tx \in Txs /\ g.step \in StepIds
  BY AtFacts DEF LockOpens, Pc
<1> DEFINE b == BinOf(g.tx, g.step)
           state == [g.bin EXCEPT !.isLocked = FALSE, !.attempted = FALSE]
           f == [g EXCEPT !.bin = state, !.pc = AfterOpening]
<1>2. g.bin \in BinState /\ state \in BinState
  BY DEF Frame, BinState
<1>3. AfterOpening \in {"trigger", "announce"}
  BY DEF AfterOpening
<1>4. f \in Frame /\ f.pc \in {"trigger", "announce"} /\ f.tx = g.tx /\ f.step = g.step
      /\ f.entity = g.entity
  BY <1>2, <1>3 DEF Frame, Pc
<1>5. /\ run' = [run EXCEPT ![h] = f]
      /\ opened' = [opened EXCEPT ![g.tx] = @ \cup {g.step}]
      /\ bins' = [bins EXCEPT ![b] = Changed(g.bin, state, @)]
  BY <1>1 DEF LockOpens, FlushBin
<1> HIDE DEF f, state
<1>6. TypeOK'
  <2>1. run' \in [Handlers -> Frame]
    BY <1>4, <1>5, RunFacts DEF IInv
  <2>2. bins' \in [Bins -> BinState]
    BY <1>2, <1>5 DEF IInv, TypeOK, Changed
  <2>3. opened' \in [Txs -> SUBSET StepIds]
    BY <1>1, <1>5 DEF IInv, TypeOK
  <2>4. door' \in [Bins -> {"open", "closed"}]
    BY DEF LockOpens, IInv, TypeOK
  <2> QED
    BY <2>1, <2>2, <2>3, <2>4 DEF LockOpens, IInv, TypeOK, records, bounds, weighing
<1>7. Grows /\ Records /\ Writes /\ Sends /\ Watches
  BY <1>5 DEF LockOpens, IInv, TypeOK, Grows, Records, Writes, Sends, Watches, records
<1>8. Visited(g.tx, g.step)'
  BY <1>1, <1>5 DEF IInv, TypeOK, Visited
<1>9. Runs
  BY <1>1, <1>4, <1>5, <1>6, <1>7, <1>8, GoOnFacts
<1> QED
  BY <1>6, <1>7, <1>9, Preserve

LEMMA LockFailsInv ==
  ASSUME IInv, NEW h \in Handlers, LockFails(h)
  PROVE  IInv'
<1>1. PICK g \in Frame : /\ g = run[h] /\ FrameOK(g) /\ g.pc = "open"
                         /\ g.tx \in Txs /\ g.step \in StepIds
  BY AtFacts DEF LockFails, Pc
<1> DEFINE b == BinOf(g.tx, g.step)
           state == [g.bin EXCEPT !.attempted = TRUE]
           n == IF g.attempt < MaxAttempts THEN g.attempt + 1 ELSE g.attempt
           f == [g EXCEPT !.bin = state, !.attempt = n, !.pc = AfterFailure(g.attempt)]
<1>2. state \in BinState /\ n \in Nat
  <2>1. g.attempt \in Nat /\ g.bin \in BinState
    BY DEF Frame
  <2>2. state \in BinState
    BY <2>1 DEF BinState
  <2>3. n \in Nat
    BY <2>1
  <2> QED
    BY <2>2, <2>3
<1>3. AfterFailure(g.attempt) \in {"open", "giveUp"}
  BY DEF AfterFailure
<1>4. f \in Frame /\ f.pc \in {"open", "giveUp"} /\ f.tx = g.tx /\ f.step = g.step
      /\ f.entity = g.entity
  <2> HIDE DEF n, state
  <2> QED
    BY <1>2, <1>3 DEF Frame, Pc
<1>5. /\ run' = [run EXCEPT ![h] = f]
      /\ bins' = [bins EXCEPT ![b] = state]
  BY <1>1 DEF LockFails
<1> HIDE DEF f, state
<1>6. TypeOK'
  <2>1. run' \in [Handlers -> Frame]
    BY <1>4, <1>5, RunFacts DEF IInv
  <2>2. bins' \in [Bins -> BinState]
    BY <1>2, <1>5 DEF IInv, TypeOK
  <2>3. door' \in [Bins -> {"open", "closed"}]
    <3>1. PICK d \in {door[b], "open"} : door' = [door EXCEPT ![b] = d]
      BY <1>1 DEF LockFails
    <3> QED
      BY <3>1 DEF IInv, TypeOK
  <2> QED
    BY <2>1, <2>2, <2>3 DEF LockFails, IInv, TypeOK, records, history, bounds, weighing
<1>7. Grows /\ Records /\ Writes /\ Sends /\ Watches
  BY Quiet DEF LockFails, IInv, TypeOK, Writes, Sends, Watches
<1>8. Runs
  BY <1>1, <1>4, <1>5, <1>6, <1>7, GoOnFacts
<1> QED
  BY <1>6, <1>7, <1>8, Preserve

LEMMA GiveUpInv ==
  ASSUME IInv, NEW h \in Handlers, GiveUp(h)
  PROVE  IInv'
<1>1. PICK g \in Frame : g = run[h] /\ FrameOK(g) /\ g.pc = "giveUp"
  BY AtFacts DEF GiveUp, Pc
<1> DEFINE b == BinOf(g.tx, g.step)
           state == [g.bin EXCEPT !.isFailed = TRUE]
           f == [g EXCEPT !.pc = "stepFail", !.bin = state]
<1>2. state \in BinState
  BY DEF Frame, BinState
<1>3. f \in Frame /\ f.pc = "stepFail" /\ f.tx = g.tx /\ f.step = g.step /\ f.entity = g.entity
  BY <1>2 DEF Frame, Pc
<1>4. /\ run' = [run EXCEPT ![h] = f]
      /\ bins' = [bins EXCEPT ![b] = Changed(g.bin, state, @)]
  BY <1>1 DEF GiveUp, FlushBin
<1> HIDE DEF f, state
<1>5. TypeOK'
  <2>1. run' \in [Handlers -> Frame]
    BY <1>3, <1>4, RunFacts DEF IInv
  <2>2. bins' \in [Bins -> BinState]
    BY <1>2, <1>4 DEF IInv, TypeOK, Changed
  <2> QED
    BY <2>1, <2>2 DEF GiveUp, IInv, TypeOK, records, history, bounds, weighing
<1>6. Grows /\ Records /\ Writes /\ Sends /\ Watches
  BY Quiet DEF GiveUp, IInv, TypeOK, Writes, Sends, Watches
<1>7. Runs
  BY <1>1, <1>3, <1>4, <1>5, <1>6, GoOnFacts
<1> QED
  BY <1>5, <1>6, <1>7, Preserve

\* handleStepFail writes a step that was reached.
LEMMA FailFacts ==
  ASSUME IInv, NEW t \in Txs, NEW s \in StepIds, Created(t), Reached(t, s), s # 0,
         FailStep(t, s), TypeOK', Grows
  PROVE  Writes
<1> DEFINE d == [tx[t] EXCEPT !.status = "AWAITING_CORRECTION", !.lastError = s]
<1>1. tx[t] \in Document /\ EntityOK(t, tx[t])
  BY DEF IInv, TypeOK, DocumentInv
<1>2. /\ d \in Document /\ d.status = "AWAITING_CORRECTION" /\ d.lastError = s
      /\ d.currentStepId = tx[t].currentStepId
  BY <1>1 DEF Document, Status
<1>3. tx' = [tx EXCEPT ![t] = d]
  BY DEF FailStep, IInv, TypeOK
<1> HIDE DEF d
<1>4. PICK e \in Document : e = d /\ EntityOK(t, e)
  BY <1>1, <1>2 DEF EntityOK
<1>5. EntityOK(t, e)'
  BY <1>4, Growth DEF IInv
<1> QED
  BY <1>3, <1>4, <1>5, WriteFacts DEF IInv

LEMMA FailType ==
  ASSUME TypeOK, NEW t \in Txs, NEW s \in StepIds, FailStep(t, s)
  PROVE  tx' \in [Txs -> Document]
<1> DEFINE d == [tx[t] EXCEPT !.status = "AWAITING_CORRECTION", !.lastError = s]
<1>1. d \in Document
  <2>1. tx[t] \in Document
    BY DEF TypeOK
  <2> QED
    BY <2>1 DEF Document, Status
<1>2. tx' = [tx EXCEPT ![t] = d]
  BY DEF FailStep, TypeOK
<1> HIDE DEF d
<1> QED
  BY <1>1, <1>2, WriteFacts

LEMMA ReportOpenFailureInv ==
  ASSUME IInv, NEW h \in Handlers, ReportOpenFailure(h)
  PROVE  IInv'
<1>1. PICK g \in Frame : /\ g = run[h] /\ FrameOK(g) /\ g.pc = "stepFail"
                         /\ g.tx \in Txs /\ Created(g.tx)
  BY AtFacts DEF ReportOpenFailure, Pc
<1> DEFINE s == g.entity.currentStepId
           m == Msg("STEP_ERROR", g.tx, 0)
<1>2. Reached(g.tx, s)
  BY <1>1 DEF FrameOK, EntityOK
<1>3. s \in StepIds /\ s # 0
  BY <1>1, <1>2, StepFacts DEF Reached
<1>4. FailStep(g.tx, s) /\ Send(m) /\ End(h)
  BY <1>1 DEF ReportOpenFailure
<1>5. m \in Message /\ m.tx = g.tx /\ m.step = 0 /\ m.type = "STEP_ERROR"
  BY <1>1, ZeroFacts, MsgFacts DEF MessageType
<1> HIDE DEF s, m
<1>6. TypeOK'
  <2>1. tx' \in [Txs -> Document] /\ run' \in [Handlers -> Frame] /\ net' \in [Message -> Nat]
    BY <1>1, <1>3, <1>4, <1>5, FailType, EndFacts, SendFacts DEF IInv
  <2> QED
    BY <2>1 DEF ReportOpenFailure, IInv, TypeOK, locks, records, history, bounds, weighing
<1>7. Grows /\ Records /\ Watches /\ Runs
  BY <1>4, Quiet, EndFacts DEF ReportOpenFailure, IInv, Watches
<1>8. Writes
  BY <1>1, <1>2, <1>3, <1>4, <1>6, <1>7, FailFacts
<1>9. Sends
  <2>1. Created(g.tx)'
    BY <1>1, <1>8 DEF Writes, Created
  <2>2. MessageOK(m)'
    BY <1>5, <2>1 DEF MessageOK
  <2> QED
    BY <1>4, <1>5, <2>2, SendFacts DEF IInv
<1> QED
  BY <1>6, <1>7, <1>8, <1>9, Preserve

LEMMA TriggerReadingInv ==
  ASSUME IInv, NEW h \in Handlers, TriggerReading(h)
  PROVE  IInv'
<1>1. PICK g \in Frame : /\ g = run[h] /\ FrameOK(g) /\ g.pc = "trigger" /\ g.tx \in Txs
  BY AtFacts DEF TriggerReading, Pc
<1> DEFINE f == [g EXCEPT !.pc = "announce"]
<1>2. /\ f \in Frame /\ f.pc = "announce" /\ f.tx = g.tx /\ f.step = g.step
      /\ f.entity = g.entity
  BY DEF Frame, Pc
<1>3. run' = [run EXCEPT ![h] = f]
  BY <1>1 DEF TriggerReading, Goto
<1> HIDE DEF f
<1>4. Reached(g.tx, g.step) /\ Visited(g.tx, g.step)
  BY <1>1 DEF FrameOK
<1>5. BinOf(g.tx, g.step) \in Bins
  BY <1>1, <1>4, StepFacts DEF Reached
<1>6. TypeOK'
  <2>1. run' \in [Handlers -> Frame]
    BY <1>2, <1>3, RunFacts DEF IInv
  <2>2. reading' \subseteq Bins
    BY <1>1, <1>5 DEF TriggerReading, IInv, TypeOK
  <2>3. stopped' \in [Txs -> SUBSET StepIds]
    BY DEF TriggerReading, IInv, TypeOK
  <2> QED
    BY <2>1, <2>2, <2>3 DEF TriggerReading, IInv, TypeOK, locks, records, history, bounds, weighing
<1>7. Grows /\ Records /\ Writes /\ Sends /\ Watches
  BY Quiet DEF TriggerReading, IInv, TypeOK, Writes, Sends, Watches
<1>8. Runs
  BY <1>1, <1>2, <1>3, <1>4, <1>6, <1>7, GoOnFacts, Growth DEF IInv
<1> QED
  BY <1>6, <1>7, <1>8, Preserve

LEMMA AnnounceOpenedInv ==
  ASSUME IInv, NEW h \in Handlers, AnnounceOpened(h)
  PROVE  IInv'
<1>1. PICK g \in Frame : /\ g = run[h] /\ FrameOK(g) /\ g.pc = "announce"
                         /\ g.tx \in Txs /\ g.step \in StepIds /\ Created(g.tx)
  BY AtFacts DEF AnnounceOpened, Pc
<1> DEFINE m == Msg("BIN_OPENED", g.tx, g.step)
<1>2. m \in Message /\ m.tx = g.tx /\ m.step = g.step
  BY <1>1, MsgFacts DEF MessageType
<1>3. Send(m) /\ End(h)
  BY <1>1 DEF AnnounceOpened
<1> HIDE DEF m
<1>4. TypeOK'
  <2>1. run' \in [Handlers -> Frame] /\ net' \in [Message -> Nat]
    BY <1>2, <1>3, EndFacts, SendFacts DEF IInv
  <2> QED
    BY <2>1 DEF AnnounceOpened, IInv, TypeOK, locks, records, history, bounds, weighing
<1>5. Grows /\ Records /\ Writes /\ Watches /\ Runs
  BY <1>3, Quiet, EndFacts DEF AnnounceOpened, IInv, Writes, Watches
<1>6. Sends
  <2>1. Reached(g.tx, g.step)' /\ Visited(g.tx, g.step)' /\ Created(g.tx)'
    BY <1>1, <1>4, <1>5, Growth DEF IInv, FrameOK, Writes, Created
  <2>2. MessageOK(m)'
    BY <1>2, <2>1 DEF MessageOK
  <2> QED
    BY <1>2, <1>3, <2>2, SendFacts DEF IInv
<1> QED
  BY <1>4, <1>5, <1>6, Preserve

\* Handlers that begin with a message about a step that was reached.
LEMMA OnStepMessageInv ==
  ASSUME IInv, NEW h \in Handlers, NEW t \in Txs, NEW s \in StepsOf(t),
         OnBinOpened(h, t, s) \/ OnBinClosed(h, t, s) \/ OnStepSuccess(h, t, s)
  PROVE  IInv'
<1>1. PICK type \in {"BIN_OPENED", "BIN_CLOSED", "STEP_SUCCESS"}, pc \in {"arm", "check", "history"} :
        /\ Receive(Msg(type, t, s))
        /\ run' = [run EXCEPT ![h] = Begin(pc, t, s, tx[t])]
        /\ poll' \in {poll, [poll EXCEPT ![t] = 0]}
        /\ UNCHANGED <<tx, locks, records, weighing, popup, history, bounds>>
  BY DEF OnBinOpened, OnBinClosed, OnStepSuccess, StopPolling
<1> DEFINE m == Msg(type, t, s)
<1>2. s \in StepIds
  BY StepFacts
<1>3. m \in Message /\ m.tx = t /\ m.step = s /\ m.type = type
  BY <1>2, MsgFacts DEF MessageType
<1>4. Receive(m)
  BY <1>1
<1> HIDE DEF m
<1>5. MessageOK(m) /\ net' \in [Message -> Nat] /\ Sends
  BY <1>3, <1>4, ReceiveFacts
<1>6. Created(t) /\ Reached(t, s) /\ Visited(t, s)
  BY <1>3, <1>5 DEF MessageOK
<1>7. pc \in Pc /\ tx[t] \in Document
  BY DEF Pc, IInv, TypeOK
<1>8. TypeOK'
  <2>1. run' \in [Handlers -> Frame]
    BY <1>1, <1>2, <1>7, BeginFrame, RunFacts DEF IInv
  <2>2. poll' \in [Txs -> StepIds]
    BY <1>1, ZeroFacts DEF IInv, TypeOK
  <2> QED
    BY <1>1, <1>5, <2>1, <2>2 DEF IInv, TypeOK, locks, records, history, bounds, weighing
<1>9. Grows /\ Records /\ Writes
  BY <1>1, Quiet DEF IInv, Writes
<1>10. Watches
  BY <1>1 DEF IInv, TypeOK, Watches
<1>11. Runs
  BY <1>1, <1>2, <1>6, <1>7, <1>8, <1>9, BeginFacts
<1> QED
  BY <1>5, <1>8, <1>9, <1>10, <1>11, Preserve

LEMMA ArmPollingInv ==
  ASSUME IInv, NEW h \in Handlers, ArmPolling(h)
  PROVE  IInv'
<1>1. PICK g \in Frame : /\ g = run[h] /\ FrameOK(g) /\ g.pc = "arm"
                         /\ g.tx \in Txs /\ g.step \in StepIds
  BY AtFacts DEF ArmPolling, Pc
<1>2. /\ poll' \in {poll, [poll EXCEPT ![g.tx] = g.step]}
      /\ End(h)
  BY <1>1 DEF ArmPolling, IInv, TypeOK
<1>3. TypeOK'
  <2>1. run' \in [Handlers -> Frame] /\ poll' \in [Txs -> StepIds]
    BY <1>1, <1>2, EndFacts DEF IInv, TypeOK
  <2> QED
    BY <2>1 DEF ArmPolling, IInv, TypeOK, locks, records, history, bounds, weighing
<1>4. Grows /\ Records /\ Writes /\ Sends /\ Runs
  BY <1>2, Quiet, EndFacts DEF ArmPolling, IInv, TypeOK, Writes, Sends
<1>5. Created(g.tx)' /\ Reached(g.tx, g.step)' /\ Visited(g.tx, g.step)'
  BY <1>1, <1>3, <1>4, Growth DEF IInv, FrameOK, Writes, Created
<1>6. Watches
  <2> SUFFICES ASSUME NEW t \in Txs, poll'[t] # 0, poll'[t] # poll[t]
               PROVE  Created(t)' /\ Reached(t, poll[t])' /\ Visited(t, poll[t])'
    BY DEF Watches
  <2>1. t = g.tx /\ poll'[t] = g.step
    BY <1>1, <1>2 DEF IInv, TypeOK
  <2> QED
    BY <1>5, <2>1
<1> QED
  BY <1>3, <1>4, <1>6, Preserve

LEMMA PollTickInv ==
  ASSUME IInv, NEW h \in Handlers, NEW t \in Txs, PollTick(h, t)
  PROVE  IInv'
<1>1. PICK s \in StepIds : s = poll[t] /\ Reached(t, s) /\ Visited(t, s) /\ Created(t)
  BY DEF PollTick, IInv, TypeOK, PollInv
<1>2. NoDocument \in Document
  BY ZeroFacts DEF NoDocument, Document, Status
<1>3. PICK f \in Frame : f = Begin("poll", t, s, NoDocument)
  BY <1>1, <1>2, BeginFrame DEF Pc
<1>4. f.pc = "poll" /\ f.tx = t /\ f.step = s
  BY <1>3 DEF Begin, Idle
<1>5. run' = [run EXCEPT ![h] = f]
  BY <1>1, <1>3 DEF PollTick
<1>6. TypeOK'
  <2>1. run' \in [Handlers -> Frame]
    BY <1>5, RunFacts DEF IInv
  <2> QED
    BY <2>1 DEF PollTick, Upsets, IInv, TypeOK, locks, records, history, bounds, weighing
<1>7. Grows /\ Records /\ Writes /\ Sends /\ Watches
  BY Quiet DEF PollTick, IInv, TypeOK, Writes, Sends, Watches
<1>8. FrameOK(f)'
  <2>1. Reached(t, s)' /\ Visited(t, s)' /\ Created(t)'
    BY <1>1, <1>6, <1>7, Growth DEF IInv, Writes, Created
  <2> QED
    BY <1>4, <2>1 DEF FrameOK
<1>9. Runs
  BY <1>5, <1>8, RunFacts DEF IInv
<1> QED
  BY <1>6, <1>7, <1>9, Preserve

LEMMA PollSeesClosedInv ==
  ASSUME IInv, NEW h \in Handlers, PollSeesClosed(h) \/ PollSeesNoStatus(h)
  PROVE  IInv'
<1>1. PICK g \in Frame : /\ g = run[h] /\ FrameOK(g) /\ g.pc = "poll"
  BY AtFacts DEF PollSeesClosed, PollSeesNoStatus, Pc
<1> DEFINE f == [g EXCEPT !.pc = "closed"]
<1>2. f \in Frame /\ f.pc = "closed" /\ f.tx = g.tx /\ f.step = g.step
  BY DEF Frame, Pc
<1>3. run' = [run EXCEPT ![h] = f]
  BY <1>1 DEF PollSeesClosed, PollSeesNoStatus, Goto
<1> HIDE DEF f
<1>4. TypeOK'
  <2>1. run' \in [Handlers -> Frame]
    BY <1>2, <1>3, RunFacts DEF IInv
  <2> QED
    BY <2>1 DEF PollSeesClosed, PollSeesNoStatus, IInv, TypeOK, locks, records, history, bounds, weighing
<1>5. Grows /\ Records /\ Writes /\ Sends /\ Watches
  BY Quiet DEF PollSeesClosed, PollSeesNoStatus, IInv, TypeOK, Writes, Sends, Watches
<1>6. PICK x \in Frame : x = f /\ FrameOK(x)
  BY <1>1, <1>2 DEF FrameOK
<1>7. \A u \in Txs : Created(u) => Created(u)'
  BY DEF PollSeesClosed, PollSeesNoStatus, Created
<1>8. Runs
  BY <1>3, <1>4, <1>5, <1>6, <1>7, FrameGrowth, RunFacts DEF IInv
<1> QED
  BY <1>4, <1>5, <1>8, Preserve

LEMMA PollSeesNothingInv ==
  ASSUME IInv, NEW h \in Handlers, PollSeesNothing(h)
  PROVE  IInv'
<1>1. run' \in [Handlers -> Frame] /\ Runs
  BY EndFacts DEF PollSeesNothing, IInv
<1>2. TypeOK'
  BY <1>1 DEF PollSeesNothing, IInv, TypeOK, locks, records, history, bounds, weighing
<1>3. Grows /\ Records /\ Writes /\ Sends /\ Watches
  BY Quiet DEF PollSeesNothing, IInv, TypeOK, Writes, Sends, Watches
<1> QED
  BY <1>1, <1>2, <1>3, Preserve

LEMMA AnnounceClosedInv ==
  ASSUME IInv, NEW h \in Handlers, AnnounceClosed(h)
  PROVE  IInv'
<1>1. PICK g \in Frame : /\ g = run[h] /\ FrameOK(g) /\ g.pc = "closed"
                         /\ g.tx \in Txs /\ g.step \in StepIds /\ Created(g.tx)
  BY AtFacts DEF AnnounceClosed, Pc
<1> DEFINE m == Msg("BIN_CLOSED", g.tx, g.step)
<1>2. m \in Message /\ m.tx = g.tx /\ m.step = g.step
  BY <1>1, MsgFacts DEF MessageType
<1>3. Send(m) /\ End(h)
  BY <1>1 DEF AnnounceClosed
<1> HIDE DEF m
<1>4. TypeOK'
  <2>1. run' \in [Handlers -> Frame] /\ net' \in [Message -> Nat]
    BY <1>2, <1>3, EndFacts, SendFacts DEF IInv
  <2>2. bins' \in [Bins -> BinState]
    <3> DEFINE b == BinOf(run[h].tx, run[h].step)
               d == [bins[b] EXCEPT !.isLocked = TRUE]
    <3>1. bins' = [bins EXCEPT ![b] = d]
      BY DEF AnnounceClosed, IInv, TypeOK
    <3>2. b \in Bins => d \in BinState
      <4>1. b \in Bins => bins[b] \in BinState
        BY DEF IInv, TypeOK
      <4> QED
        BY <4>1 DEF BinState
    <3> HIDE DEF b, d
    <3> QED
      BY <3>1, <3>2 DEF IInv, TypeOK
  <2> QED
    BY <2>1, <2>2 DEF AnnounceClosed, IInv, TypeOK, records, history, bounds, weighing
<1>5. Grows /\ Records /\ Writes /\ Watches /\ Runs
  BY <1>3, Quiet, EndFacts DEF AnnounceClosed, IInv, Writes, Watches
<1>6. Sends
  <2>1. Reached(g.tx, g.step)' /\ Visited(g.tx, g.step)' /\ Created(g.tx)'
    BY <1>1, <1>4, <1>5, Growth DEF IInv, FrameOK, Writes, Created
  <2>2. MessageOK(m)'
    BY <1>2, <2>1 DEF MessageOK
  <2> QED
    BY <1>2, <1>3, <2>2, SendFacts DEF IInv
<1> QED
  BY <1>4, <1>5, <1>6, Preserve

LEMMA CheckQuantitiesInv ==
  ASSUME IInv, NEW h \in Handlers, CheckQuantities(h)
  PROVE  IInv'
<1>1. PICK g \in Frame : /\ g = run[h] /\ FrameOK(g) /\ g.pc = "check"
                         /\ g.tx \in Txs /\ g.step \in StepIds /\ Created(g.tx)
  BY AtFacts DEF CheckQuantities, Pc
<1>2. Reached(g.tx, g.step) /\ Visited(g.tx, g.step)
  BY <1>1 DEF FrameOK
<1>3. End(h)
  BY DEF CheckQuantities
<1>4. run' \in [Handlers -> Frame] /\ Runs
  BY <1>3, EndFacts DEF IInv
<1>5. CASE UNCHANGED <<net, results, taken>>
  <2>1. TypeOK'
    BY <1>4, <1>5 DEF CheckQuantities, IInv, TypeOK, locks, history, bounds, weighing
  <2>2. Grows /\ Records /\ Writes /\ Sends /\ Watches
    BY <1>5, Quiet DEF CheckQuantities, IInv, TypeOK, Writes, Sends, Watches, records
  <2> QED
    BY <1>4, <2>1, <2>2, Preserve
<1>6. CASE ~UNCHANGED <<net, results, taken>>
  <2>1. PICK type \in {"STEP_SUCCESS", "STEP_ERROR"} :
          /\ results' = [results EXCEPT ![g.tx][g.step] = @ + 1]
          /\ taken' \in {taken, [taken EXCEPT ![g.tx] = @ \cup {g.step}]}
          /\ Send(Msg(type, g.tx, g.step))
    BY <1>1, <1>6 DEF CheckQuantities
  <2> DEFINE m == Msg(type, g.tx, g.step)
  <2>2. m \in Message /\ m.tx = g.tx /\ m.step = g.step
    BY <1>1, MsgFacts DEF MessageType
  <2>3. Send(m)
    BY <2>1
  <2> HIDE DEF m
  <2>4. TypeOK'
    <3>1. net' \in [Message -> Nat]
      BY <2>2, <2>3, SendFacts DEF IInv
    <3>2. results' \in [Txs -> [StepIds -> Nat]]
      BY <1>1, <2>1 DEF IInv, TypeOK
    <3>3. taken' \in [Txs -> SUBSET StepIds]
      <4>1. taken \in [Txs -> SUBSET StepIds]
        BY DEF IInv, TypeOK
      <4>2. [taken EXCEPT ![g.tx] = @ \cup {g.step}] \in [Txs -> SUBSET StepIds]
        BY <1>1, <4>1
      <4> QED
        BY <2>1, <4>1, <4>2
    <3> QED
      BY <1>4, <3>1, <3>2, <3>3 DEF CheckQuantities, IInv, TypeOK, locks, history, bounds, weighing
  <2>5. Grows /\ Writes /\ Watches
    BY DEF CheckQuantities, IInv, TypeOK, Grows, Writes, Watches, history
  <2>6. Reached(g.tx, g.step)' /\ Visited(g.tx, g.step)' /\ Created(g.tx)'
    BY <1>1, <1>2, <2>4, <2>5, Growth DEF IInv, Writes, Created
  <2>7. Sends
    BY <2>2, <2>3, <2>6, SendFacts DEF IInv, MessageOK
  <2>8. Records
    <3> SUFFICES ASSUME NEW t \in Txs, NEW s \in StepsOf(t),
                        results'[t][s] # results[t][s] \/ credited'[t][s] # credited[t][s]
                 PROVE  Visited(t, s)'
      BY DEF Records
    <3>1. t = g.tx /\ s = g.step
      BY <1>1, <2>1, StepFacts DEF CheckQuantities, IInv, TypeOK
    <3> QED
      BY <2>6, <3>1
  <2> QED
    BY <1>4, <2>4, <2>5, <2>7, <2>8, Preserve
<1> QED
  BY <1>5, <1>6

LEMMA RecordHistoryInv ==
  ASSUME IInv, NEW h \in Handlers, RecordHistory(h)
  PROVE  IInv'
<1>1. PICK g \in Frame : /\ g = run[h] /\ FrameOK(g) /\ g.pc = "history"
                         /\ g.tx \in Txs /\ g.step \in StepIds
  BY AtFacts DEF RecordHistory, Pc
<1>2. Reached(g.tx, g.step) /\ Visited(g.tx, g.step)
  BY <1>1 DEF FrameOK
<1>3. CASE End(h) /\ UNCHANGED credited
  <2>1. run' \in [Handlers -> Frame] /\ Runs
    BY <1>3, EndFacts DEF IInv
  <2>2. TypeOK'
    BY <1>3, <2>1 DEF RecordHistory, IInv, TypeOK, locks, history, bounds, weighing
  <2>3. Grows /\ Records /\ Writes /\ Sends /\ Watches
    BY <1>3, Quiet DEF RecordHistory, IInv, TypeOK, Writes, Sends, Watches, records
  <2> QED
    BY <2>1, <2>2, <2>3, Preserve
<1>4. CASE credited' = [credited EXCEPT ![g.tx][g.step] = @ + 1] /\ Goto(h, "advance")
  <2> DEFINE f == [g EXCEPT !.pc = "advance"]
  <2>1. /\ f \in Frame /\ f.pc = "advance" /\ f.tx = g.tx /\ f.step = g.step
        /\ f.entity = g.entity
    BY DEF Frame, Pc
  <2>2. run' = [run EXCEPT ![h] = f]
    BY <1>1, <1>4 DEF Goto
  <2> HIDE DEF f
  <2>3. TypeOK'
    <3>1. run' \in [Handlers -> Frame]
      BY <2>1, <2>2, RunFacts DEF IInv
    <3>2. credited' \in [Txs -> [StepIds -> Nat]]
      BY <1>1, <1>4 DEF IInv, TypeOK
    <3> QED
      BY <3>1, <3>2 DEF RecordHistory, IInv, TypeOK, locks, history, bounds, weighing
  <2>4. Grows
    BY <1>1, <1>4 DEF RecordHistory, IInv, TypeOK, Grows, history
  <2>5. Writes /\ Sends /\ Watches
    BY DEF RecordHistory, IInv, TypeOK, Writes, Sends, Watches
  <2>6. Settled(g.tx, g.step)' /\ Visited(g.tx, g.step)'
    BY <1>1, <1>2, <1>4, <2>3, <2>4, Growth DEF IInv, TypeOK, Settled
  <2>7. Records
    <3> SUFFICES ASSUME NEW t \in Txs, NEW s \in StepsOf(t),
                        results'[t][s] # results[t][s] \/ credited'[t][s] # credited[t][s]
                 PROVE  Visited(t, s)'
      BY DEF Records
    <3>1. t = g.tx /\ s = g.step
      BY <1>1, <1>4, StepFacts DEF RecordHistory, IInv, TypeOK
    <3> QED
      BY <2>6, <3>1
  <2>8. Runs
    BY <1>1, <2>1, <2>2, <2>3, <2>4, <2>5, <2>6, GoOnFacts
  <2> QED
    BY <2>3, <2>4, <2>5, <2>7, <2>8, Preserve
<1> QED
  BY <1>1, <1>3, <1>4 DEF RecordHistory

\* The step after a settled step was reached; after the last one, all are settled.
LEMMA NextStepFacts ==
  ASSUME NEW t \in Txs, NEW s, Reached(t, s), Settled(t, s)
  PROVE  /\ HasNext(t, s) => NextStep(s) \in StepIds /\ Reached(t, NextStep(s))
         /\ ~HasNext(t, s) => AllSettled(t)
<1>1. Len(Plan[t]) \in Nat /\ s \in 1..Len(Plan[t])
  BY PlanAssumption DEF Reached, StepsOf
<1>2. ASSUME HasNext(t, s)
      PROVE  NextStep(s) \in StepIds /\ Reached(t, NextStep(s))
  <2>1. s + 1 \in StepsOf(t)
    BY <1>2 DEF HasNext, NextStep
  <2>2. \A r \in StepsOf(t) : r < s + 1 => r < s \/ r = s
    BY <1>1 DEF StepsOf
  <2> QED
    BY <2>1, <2>2, StepFacts DEF Reached, NextStep
<1>3. ASSUME ~HasNext(t, s)
      PROVE  AllSettled(t)
  <2>1. \A r \in StepsOf(t) : r < s \/ r = s
    BY <1>1, <1>3 DEF StepsOf, HasNext, NextStep
  <2> QED
    BY <2>1 DEF Reached, AllSettled
<1> QED
  BY <1>2, <1>3

\* What Advance writes into its copy of the transaction.
LEMMA AdvancedEntity ==
  ASSUME NEW t \in Txs, NEW s, Reached(t, s), Settled(t, s),
         NEW e \in Document, EntityOK(t, e), NEW isForced \in BOOLEAN
  PROVE  LET d == IF HasNext(t, s) THEN [e EXCEPT !.currentStepId = NextStep(s)]
                  ELSE [e EXCEPT !.status = FinalStatus(isForced)]
         IN  /\ d \in Document /\ EntityOK(t, d) /\ d.lastError = e.lastError
             /\ d.status # e.status => d.status # "AWAITING_CORRECTION"
<1>1. CASE HasNext(t, s)
  <2> DEFINE d == [e EXCEPT !.currentStepId = NextStep(s)]
  <2>1. NextStep(s) \in StepIds /\ Reached(t, NextStep(s))
    BY <1>1, NextStepFacts
  <2>2. /\ d \in Document /\ d.lastError = e.lastError /\ d.status = e.status
        /\ d.currentStepId = NextStep(s)
    BY <2>1 DEF Document
  <2> HIDE DEF d
  <2>3. EntityOK(t, d)
    BY <2>1, <2>2 DEF EntityOK
  <2> QED
    BY <1>1, <2>2, <2>3 DEF d
<1>2. CASE ~HasNext(t, s)
  <2> DEFINE d == [e EXCEPT !.status = FinalStatus(isForced)]
  <2>1. AllSettled(t)
    BY <1>2, NextStepFacts
  <2>2. FinalStatus(isForced) \in {"COMPLETED", "COMPLETED_WITH_ERROR"}
    BY DEF FinalStatus
  <2>3. /\ d \in Document /\ d.lastError = e.lastError /\ d.status = FinalStatus(isForced)
        /\ d.currentStepId = e.currentStepId
    BY <2>2 DEF Document, Status
  <2> HIDE DEF d
  <2>4. EntityOK(t, d)
    BY <2>1, <2>2, <2>3 DEF EntityOK
  <2> QED
    BY <1>2, <2>2, <2>3, <2>4 DEF d
<1> QED
  BY <1>1, <1>2

LEMMA AdvanceInv ==
  ASSUME IInv, NEW h \in Handlers, Advance(h)
  PROVE  IInv'
<1>1. PICK g \in Frame : /\ g = run[h] /\ FrameOK(g) /\ g.pc = "advance"
                         /\ g.tx \in Txs /\ Created(g.tx)
                         /\ tx[g.tx] \in Document /\ EntityOK(g.tx, tx[g.tx])
  BY AtFacts DEF Advance, Pc
<1> DEFINE t == g.tx
           s == g.step
<1>2. PICK e : e = IF HasNext(t, s) THEN [g.entity EXCEPT !.currentStepId = NextStep(s)]
                   ELSE [g.entity EXCEPT !.status = FinalStatus(g.isForced)]
  OBVIOUS
<1>3. /\ g.entity \in Document /\ g.isForced \in BOOLEAN
      /\ EntityOK(t, g.entity) /\ Reached(t, s) /\ Settled(t, s)
  BY <1>1 DEF FrameOK, Frame
<1>4. /\ e \in Document /\ EntityOK(t, e) /\ e.lastError = g.entity.lastError
      /\ e.status # g.entity.status => e.status # "AWAITING_CORRECTION"
  BY <1>1, <1>2, <1>3, AdvancedEntity
<1>5. PICK d \in Document : d = Flush(g.entity, e, tx[t]) /\ EntityOK(t, d)
  BY <1>1, <1>3, <1>4, FlushFacts
<1>6. /\ tx' = [tx EXCEPT ![t] = d]
      /\ IF HasNext(t, s)
         THEN /\ run' = [run EXCEPT ![h] = [Idle EXCEPT !.pc = "execute", !.tx = t, !.entity = e]]
              /\ UNCHANGED net
         ELSE Send(Msg("TRANSACTION_COMPLETED", t, 0)) /\ End(h)
  BY <1>1, <1>2, <1>5 DEF Advance, CompletedStep
<1> DEFINE f == [Idle EXCEPT !.pc = "execute", !.tx = t, !.entity = e]
           m == Msg("TRANSACTION_COMPLETED", t, 0)
<1>7. f \in Frame /\ f.pc = "execute" /\ f.tx = t /\ f.entity = e
  BY <1>1, <1>4, IdleFrame DEF Idle, Frame, Pc
<1>8. m \in Message /\ m.tx = t /\ m.step = 0 /\ m.type = "TRANSACTION_COMPLETED"
  BY <1>1, ZeroFacts, MsgFacts DEF MessageType
<1>9. \/ run' = [run EXCEPT ![h] = f] /\ UNCHANGED net
      \/ Send(m) /\ End(h)
  BY <1>6
<1> HIDE DEF f, m
<1>10. TypeOK'
  <2>1. tx' \in [Txs -> Document]
    BY <1>1, <1>6, WriteFacts DEF IInv
  <2>2. run' \in [Handlers -> Frame] /\ net' \in [Message -> Nat]
    BY <1>7, <1>8, <1>9, RunFacts, EndFacts, SendFacts DEF IInv, TypeOK
  <2> QED
    BY <2>1, <2>2 DEF Advance, IInv, TypeOK, locks, records, history, bounds, weighing
<1>11. Grows /\ Records /\ Watches
  BY Quiet DEF Advance, IInv, Watches
<1>12. EntityOK(t, d)' /\ EntityOK(t, e)'
  BY <1>1, <1>4, <1>5, <1>10, <1>11, Growth DEF IInv
<1>13. Writes
  BY <1>1, <1>6, <1>12, WriteFacts DEF IInv
<1>14. Created(t)'
  BY <1>1, <1>13 DEF Writes, Created
<1>15. FrameOK(f)' /\ MessageOK(m)'
  BY <1>1, <1>7, <1>8, <1>12, <1>14 DEF FrameOK, MessageOK
<1>16. Runs /\ Sends
  BY <1>7, <1>8, <1>9, <1>15, RunFacts, EndFacts, SendFacts DEF IInv, TypeOK, Sends
<1> QED
  BY <1>10, <1>11, <1>13, <1>16, Preserve

LEMMA ExecuteStepInv ==
  ASSUME IInv, NEW h \in Handlers, ExecuteStep(h)
  PROVE  IInv'
<1>1. PICK g \in Frame : /\ g = run[h] /\ FrameOK(g) /\ g.pc = "execute" /\ g.tx \in Txs
  BY AtFacts DEF ExecuteStep, Pc
<1> DEFINE t == g.tx
           s == g.entity.currentStepId
           enter(pc) == [g EXCEPT !.pc = pc, !.step = s]
<1>2. Created(t) /\ EntityOK(t, g.entity) /\ Reached(t, s) /\ s \in StepsOf(t)
  BY <1>1 DEF FrameOK, EntityOK, Reached
<1>3. s \in StepIds /\ BinOf(t, s) \in Bins /\ bins[BinOf(t, s)] \in BinState
  BY <1>1, <1>2, StepFacts DEF IInv, TypeOK
<1>4. PICK b \in BinState : b = bins[BinOf(t, s)]
  BY <1>3
<1>5. /\ UNCHANGED <<tx, net>>
      /\ \/ /\ skipped' = [skipped EXCEPT ![t] = @ \cup {s}]
            /\ run' = [run EXCEPT ![h] = enter("history")]
         \/ /\ run' = [run EXCEPT ![h] = [enter("open") EXCEPT !.bin = b, !.attempt = 1]]
            /\ UNCHANGED skipped
  BY <1>1, <1>2, <1>4 DEF ExecuteStep, SkipFailedBin
<1>6. PICK f \in Frame : /\ f.tx = t /\ f.step = s /\ f.entity = g.entity
                         /\ run' = [run EXCEPT ![h] = f]
                         /\ \/ f.pc = "history" /\ skipped' = [skipped EXCEPT ![t] = @ \cup {s}]
                            \/ f.pc = "open" /\ UNCHANGED skipped
  <2>1. CASE /\ skipped' = [skipped EXCEPT ![t] = @ \cup {s}]
             /\ run' = [run EXCEPT ![h] = enter("history")]
    <3>1. /\ enter("history") \in Frame /\ enter("history").tx = t
          /\ enter("history").step = s /\ enter("history").entity = g.entity
          /\ enter("history").pc = "history"
      BY <1>3 DEF Frame, Pc
    <3> QED
      BY <2>1, <3>1
  <2>2. CASE /\ run' = [run EXCEPT ![h] = [enter("open") EXCEPT !.bin = b, !.attempt = 1]]
             /\ UNCHANGED skipped
    <3> DEFINE f == [enter("open") EXCEPT !.bin = b, !.attempt = 1]
    <3>1. f \in Frame /\ f.tx = t /\ f.step = s /\ f.entity = g.entity /\ f.pc = "open"
      BY <1>3 DEF Frame, Pc
    <3> HIDE DEF f
    <3> QED
      BY <2>2, <3>1 DEF f
  <2> QED
    BY <1>5, <2>1, <2>2
<1>7. TypeOK'
  <2>1. run' \in [Handlers -> Frame]
    BY <1>6, RunFacts DEF IInv
  <2>2. skipped' \in [Txs -> SUBSET StepIds]
    <3>1. skipped \in [Txs -> SUBSET StepIds]
      BY DEF IInv, TypeOK
    <3>2. [skipped EXCEPT ![t] = @ \cup {s}] \in [Txs -> SUBSET StepIds]
      BY <1>1, <1>3, <3>1
    <3> QED
      BY <1>6, <3>1, <3>2
  <2> QED
    BY <1>5, <2>1, <2>2 DEF ExecuteStep, IInv, TypeOK, locks, records, bounds, weighing
<1>8. Grows
  <2>1. \A u \in Txs : skipped[u] \subseteq skipped'[u]
    BY <1>6 DEF IInv, TypeOK
  <2> QED
    BY <2>1 DEF ExecuteStep, IInv, TypeOK, Grows, records
<1>9. Records /\ Writes /\ Sends /\ Watches
  BY <1>5 DEF ExecuteStep, IInv, TypeOK, Records, Writes, Sends, Watches, records
<1>10. FrameOK(f)'
  <2>1. EntityOK(t, g.entity)' /\ Reached(t, s)' /\ Created(t)'
    BY <1>1, <1>2, <1>7, <1>8, <1>9, Growth DEF IInv, Writes, Created
  <2>2. f.pc = "history" => Visited(t, s)'
    BY <1>1, <1>6 DEF IInv, TypeOK, Visited
  <2> QED
    BY <1>1, <1>6, <2>1, <2>2 DEF FrameOK
<1>11. Runs
  BY <1>6, <1>10, RunFacts DEF IInv
<1> QED
  BY <1>7, <1>8, <1>9, <1>11, Preserve

LEMMA ReceiveAndSendFacts ==
  ASSUME IInv, NEW m \in Message, NEW n \in Message, m # n, ReceiveAndSend(m, n)
  PROVE  /\ MessageOK(m) /\ net' \in [Message -> Nat]
         /\ MessageOK(n)' => Sends
<1>1. net \in [Message -> Nat] /\ net[m] > 0
  BY DEF IInv, TypeOK, ReceiveAndSend, InFlight
<1>2. net' = [net EXCEPT ![m] = net[m] - 1, ![n] = net[n] + 1]
  BY DEF ReceiveAndSend
<1>3. MessageOK(m)
  BY <1>1 DEF IInv, MessageInv, InFlight
<1>4. net' \in [Message -> Nat]
  BY <1>1, <1>2
<1>5. \A x \in Message : net'[x] > net[x] => x = n
  BY <1>1, <1>2
<1> QED
  BY <1>3, <1>4, <1>5 DEF Sends

LEMMA OnStepErrorInv ==
  ASSUME IInv, NEW t \in Txs, NEW s \in StepsOf(t), OnStepError(t, s)
  PROVE  IInv'
<1> DEFINE m == Msg("STEP_ERROR", t, s)
           n == Msg("STEP_ERROR", t, 0)
<1>1. s \in StepIds /\ s # 0
  BY StepFacts
<1>2. /\ m \in Message /\ m.tx = t /\ m.step = s
      /\ n \in Message /\ n.tx = t /\ n.step = 0 /\ n.type = "STEP_ERROR"
  BY <1>1, ZeroFacts, MsgFacts DEF MessageType
<1>3. ReceiveAndSend(m, n) /\ FailStep(t, s)
  BY DEF OnStepError
<1> HIDE DEF m, n
<1>4. MessageOK(m) /\ net' \in [Message -> Nat] /\ (MessageOK(n)' => Sends)
  BY <1>1, <1>2, <1>3, ReceiveAndSendFacts
<1>5. Created(t) /\ Reached(t, s)
  BY <1>1, <1>2, <1>4 DEF MessageOK
<1>6. TypeOK'
  <2>1. tx' \in [Txs -> Document]
    BY <1>1, <1>3, FailType DEF IInv
  <2> QED
    BY <1>4, <2>1 DEF OnStepError, IInv, TypeOK, locks, records, history, bounds, weighing
<1>7. Grows /\ Records /\ Watches /\ Runs
  BY Quiet DEF OnStepError, IInv, Watches, Runs
<1>8. Writes
  BY <1>1, <1>3, <1>5, <1>6, <1>7, FailFacts
<1>9. Sends
  BY <1>2, <1>4, <1>5, <1>8 DEF MessageOK, Writes, Created
<1> QED
  BY <1>6, <1>7, <1>8, <1>9, Preserve

LEMMA OnErrorAnnouncedInv ==
  ASSUME IInv, NEW t \in Txs, OnErrorAnnounced(t)
  PROVE  IInv'
<1>1. Msg("STEP_ERROR", t, 0) \in Message
  BY ZeroFacts, MsgFacts DEF MessageType
<1>2. net' \in [Message -> Nat] /\ Sends
  BY <1>1, ReceiveFacts DEF OnErrorAnnounced
<1>3. TypeOK'
  BY <1>2 DEF OnErrorAnnounced, IInv, TypeOK, locks, records, history, bounds, weighing
<1>4. Grows /\ Records /\ Writes /\ Watches /\ Runs
  BY Quiet DEF OnErrorAnnounced, IInv, Writes, Watches, Runs
<1> QED
  BY <1>2, <1>3, <1>4, Preserve

\* forceNextStep goes on after the step of the last error, which was reached and
\* is now settled by the operator.
LEMMA OnForceNextInv ==
  ASSUME IInv, NEW h \in Handlers, NEW t \in Txs, OnForceNext(h, t)
  PROVE  IInv'
<1> DEFINE m == Msg("FORCE_NEXT", t, 0)
<1>1. m \in Message /\ m.tx = t /\ Receive(m)
  BY ZeroFacts, MsgFacts DEF MessageType, OnForceNext
<1>2. MessageOK(m) /\ net' \in [Message -> Nat] /\ Sends
  BY <1>1, ReceiveFacts
<1>3. PICK e \in Document : e = tx[t] /\ EntityOK(t, e)
  BY <1>1, <1>2 DEF IInv, TypeOK, DocumentInv, MessageOK
<1>4. Created(t)
  BY <1>1, <1>2 DEF MessageOK
<1>5. CASE UNCHANGED <<tx, run, forced>>
  <2>1. TypeOK'
    BY <1>2, <1>5 DEF OnForceNext, IInv, TypeOK, locks, records, bounds, weighing
  <2>2. Grows /\ Records /\ Writes /\ Watches /\ Runs
    BY <1>5, Quiet DEF OnForceNext, IInv, Writes, Watches, Runs, history
  <2> QED
    BY <1>2, <2>1, <2>2, Preserve
<1>6. CASE ~UNCHANGED <<tx, run, forced>>
  <2> DEFINE s == e.lastError
  <2>1. e.status = "AWAITING_CORRECTION"
    BY <1>3, <1>6 DEF OnForceNext
  <2>2. s # 0 /\ Reached(t, s) /\ s \in StepIds
    BY <1>3, <2>1 DEF EntityOK, Document
  <2>3. PICK f : f = [Begin("advance", t, s, e) EXCEPT !.isForced = TRUE]
    OBVIOUS
  <2>4. f \in Frame /\ f.pc = "advance" /\ f.tx = t /\ f.step = s /\ f.entity = e
    <3>1. Begin("advance", t, s, e) \in Frame
      BY <2>2, BeginFrame DEF Pc
    <3>2. /\ Begin("advance", t, s, e).pc = "advance" /\ Begin("advance", t, s, e).tx = t
          /\ Begin("advance", t, s, e).step = s /\ Begin("advance", t, s, e).entity = e
      BY DEF Begin, Idle
    <3> QED
      BY <2>3, <3>1, <3>2 DEF Frame
  <2>5. /\ run' = [run EXCEPT ![h] = f]
        /\ forced' = [forced EXCEPT ![t] = @ \cup {s}]
        /\ UNCHANGED tx
    BY <1>3, <2>1, <2>2, <2>3 DEF OnForceNext
  <2>6. TypeOK'
    <3>1. run' \in [Handlers -> Frame]
      BY <2>4, <2>5, RunFacts DEF IInv
    <3>2. forced' \in [Txs -> SUBSET StepIds]
      <4>1. forced \in [Txs -> SUBSET StepIds]
        BY DEF IInv, TypeOK
      <4> QED
        BY <2>2, <2>5, <4>1
    <3> QED
      BY <1>2, <2>5, <3>1, <3>2 DEF OnForceNext, IInv, TypeOK, locks, records, bounds, weighing
  <2>7. Grows
    BY <2>5 DEF OnForceNext, IInv, TypeOK, Grows, records
  <2>8. Records /\ Writes /\ Watches
    BY <2>5 DEF OnForceNext, Records, Writes, Watches, records
  <2>9. FrameOK(f)'
    <3>1. EntityOK(t, e)' /\ Reached(t, s)' /\ Created(t)'
      BY <1>3, <1>4, <2>2, <2>5, <2>6, <2>7, Growth DEF IInv, Created
    <3>2. Settled(t, s)'
      BY <2>5 DEF IInv, TypeOK, Settled
    <3> QED
      BY <2>4, <3>1, <3>2 DEF FrameOK
  <2>10. Runs
    BY <2>4, <2>5, <2>9, RunFacts DEF IInv
  <2> QED
    BY <1>2, <2>6, <2>7, <2>8, <2>10, Preserve
<1> QED
  BY <1>5, <1>6

LEMMA OnForceEndInv ==
  ASSUME IInv, NEW t \in Txs, OnForceEnd(t)
  PROVE  IInv'
<1> DEFINE m == Msg("FORCE_END", t, 0)
           d == [tx[t] EXCEPT !.status = IF @ = "AWAITING_CORRECTION"
                                         THEN "COMPLETED_WITH_ERROR" ELSE @]
<1>1. m \in Message /\ m.tx = t /\ Receive(m)
  BY ZeroFacts, MsgFacts DEF MessageType, OnForceEnd
<1>2. MessageOK(m) /\ net' \in [Message -> Nat] /\ Sends
  BY <1>1, ReceiveFacts
<1>3. tx[t] \in Document /\ EntityOK(t, tx[t]) /\ Created(t)
  BY <1>1, <1>2 DEF IInv, TypeOK, DocumentInv, MessageOK
<1>4. tx' = [tx EXCEPT ![t] = d]
  BY DEF OnForceEnd, IInv, TypeOK
<1>5. PICK e \in Document : e = d /\ EntityOK(t, e)
  <2>1. /\ d \in Document /\ d.currentStepId = tx[t].currentStepId
        /\ d.lastError = tx[t].lastError
        /\ d.status \in {tx[t].status, "COMPLETED_WITH_ERROR"}
    BY <1>3 DEF Document, Status
  <2> HIDE DEF d
  <2>2. EntityOK(t, d)
    BY <1>3, <2>1 DEF EntityOK
  <2> QED
    BY <2>1, <2>2
<1> HIDE DEF d
<1>6. TypeOK'
  <2>1. tx' \in [Txs -> Document]
    BY <1>4, <1>5, WriteFacts DEF IInv
  <2> QED
    BY <1>2, <2>1 DEF OnForceEnd, IInv, TypeOK, locks, records, history, bounds, weighing
<1>7. Grows /\ Records /\ Watches /\ Runs
  BY Quiet DEF OnForceEnd, IInv, Watches, Runs
<1>8. Writes
  BY <1>4, <1>5, <1>6, <1>7, Growth, WriteFacts DEF IInv
<1> QED
  BY <1>2, <1>6, <1>7, <1>8, Preserve

LEMMA OnEndedInv ==
  ASSUME IInv, NEW t \in Txs, OnEnded(t)
  PROVE  IInv'
<1>1. PICK type \in {"TRANSACTION_COMPLETED", "TRANSACTION_FAILED"} : Receive(Msg(type, t, 0))
  BY DEF OnEnded, StopReadingAll
<1>2. Msg(type, t, 0) \in Message
  BY ZeroFacts, MsgFacts DEF MessageType
<1>3. net' \in [Message -> Nat] /\ Sends
  BY <1>1, <1>2, ReceiveFacts
<1>4. TypeOK'
  <2>1. reading' \subseteq Bins
    BY DEF OnEnded, StopReadingAll, IInv, TypeOK
  <2>2. stopped' \in [Txs -> SUBSET StepIds]
    <3>1. \A u \in Txs : StepsOf(u) \subseteq StepIds
      BY StepFacts
    <3>2. stopped \in [Txs -> SUBSET StepIds]
      BY DEF IInv, TypeOK
    <3> QED
      BY <3>1, <3>2 DEF OnEnded, StopReadingAll
  <2> QED
    BY <1>3, <2>1, <2>2 DEF OnEnded, IInv, TypeOK, locks, records, history, bounds
<1>5. Grows /\ Records /\ Writes /\ Watches /\ Runs
  BY Quiet DEF OnEnded, StopReadingAll, IInv, Writes, Watches, Runs
<1> QED
  BY <1>3, <1>4, <1>5, Preserve
-----------------------------------------------------------------------------
(* The environment                                                         *)

LEMMA CloseDoorInv ==
  ASSUME IInv, NEW b \in Bins, CloseDoor(b)
  PROVE  IInv'
<1>1. TypeOK'
  BY DEF CloseDoor, IInv, TypeOK, records, history, bounds, weighing
<1>2. Grows /\ Records /\ Writes /\ Sends /\ Watches /\ Runs
  BY Quiet DEF CloseDoor, IInv, TypeOK, Writes, Sends, Watches, Runs
<1> QED
  BY <1>1, <1>2, Preserve

LEMMA AnswerInv ==
  ASSUME IInv, NEW t \in Txs, NEW type \in Forces, Answer(t, type)
  PROVE  IInv'
<1> DEFINE m == Msg(type, t, 0)
<1>1. /\ m \in Message /\ m.tx = t /\ m.step = 0
      /\ m.type \notin {"BIN_OPENED", "BIN_CLOSED", "STEP_SUCCESS"}
  BY ZeroFacts, MsgFacts DEF MessageType, Forces
<1>2. Send(m) /\ Created(t)
  BY DEF Answer, Created
<1> HIDE DEF m
<1>3. TypeOK'
  BY <1>1, <1>2, SendFacts DEF Answer, Upsets, IInv, TypeOK, locks, records, history, weighing
<1>4. Grows /\ Records /\ Writes /\ Watches /\ Runs
  BY Quiet DEF Answer, IInv, Writes, Watches, Runs
<1>5. Sends
  BY <1>1, <1>2, SendFacts DEF Answer, IInv, MessageOK, Created
<1> QED
  BY <1>3, <1>4, <1>5, Preserve

LEMMA LoseInv ==
  ASSUME IInv, NEW m \in Message, Lose(m)
  PROVE  IInv'
<1>1. net' \in [Message -> Nat] /\ Sends
  BY ReceiveFacts DEF Lose
<1>2. TypeOK'
  BY <1>1 DEF Lose, IInv, TypeOK, locks, records, history, weighing
<1>3. Grows /\ Records /\ Writes /\ Watches /\ Runs
  BY Quiet DEF Lose, IInv, Writes, Watches, Runs
<1> QED
  BY <1>1, <1>2, <1>3, Preserve

LEMMA CrashInv ==
  ASSUME IInv, Crash
  PROVE  IInv'
<1>1. net' \in [Message -> Nat] /\ Sends
  BY DEF Crash, IInv, TypeOK, Sends
<1>2. TypeOK'
  BY <1>1, IdleFrame, ZeroFacts DEF Crash, IInv, TypeOK, locks, records, history, weighing
<1>3. Grows /\ Records /\ Writes
  BY Quiet DEF Crash, IInv, Writes
<1>4. Watches
  BY DEF Crash, Watches
<1>5. Runs
  BY DEF Crash, Runs, FrameOK, Idle
<1> QED
  BY <1>1, <1>2, <1>3, <1>4, <1>5, Preserve
-----------------------------------------------------------------------------
(* The theorems                                                            *)

LEMMA StutterInv ==
  ASSUME IInv, UNCHANGED vars
  PROVE  IInv'
<1>1. TypeOK'
  BY DEF vars, IInv, TypeOK
<1>2. Grows /\ Records /\ Writes /\ Sends /\ Watches /\ Runs
  BY Quiet DEF vars, records, history, IInv, TypeOK, Writes, Sends, Watches, Runs
<1> QED
  BY <1>1, <1>2, Preserve

LEMMA NextInv == IInv /\ [Next]_vars => IInv'
<1> SUFFICES ASSUME IInv, [Next]_vars PROVE IInv'
  OBVIOUS
<1>1. CASE UNCHANGED vars
  BY <1>1, StutterInv
<1>2. ASSUME NEW t \in Txs, CreateAndStart(t) \/ HandleAtOnce(t)
      PROVE  IInv'
  BY <1>2, CreateAndStartInv, OnStepErrorInv, OnErrorAnnouncedInv, OnForceEndInv, OnEndedInv
     DEF HandleAtOnce
<1>3. ASSUME NEW h \in Handlers, HandlerStep(h)
      PROVE  IInv'
  BY <1>3, BeginProcessingInv, ExecuteStepInv, LockOpensInv, LockFailsInv, GiveUpInv,
     ReportOpenFailureInv, TriggerReadingInv, AnnounceOpenedInv, ArmPollingInv,
     PollSeesClosedInv, PollSeesNothingInv, AnnounceClosedInv, CheckQuantitiesInv,
     RecordHistoryInv, AdvanceInv
     DEF HandlerStep
<1>4. ASSUME NEW h \in Handlers, NEW t \in Txs, Dispatch(h, t) \/ PollTick(h, t)
      PROVE  IInv'
  BY <1>4, OnStartInv, OnForceNextInv, OnStepMessageInv, PollTickInv DEF Dispatch
<1>5. ASSUME NEW b \in Bins, CloseDoor(b)
      PROVE  IInv'
  BY <1>5, CloseDoorInv
<1>6. ASSUME NEW t \in Txs, NEW type \in Forces, Answer(t, type)
      PROVE  IInv'
  BY <1>6, AnswerInv
<1>7. ASSUME NEW m \in Message, Lose(m)
      PROVE  IInv'
  BY <1>7, LoseInv
<1>8. CASE Crash
  BY <1>8, CrashInv
<1> QED
  BY <1>1, <1>2, <1>3, <1>4, <1>5, <1>6, <1>7, <1>8 DEF Next

\* The engine keeps its invariant: every copy of a transaction, stored or held
\* by a handler, is at a step all of whose predecessors were settled.
THEOREM Invariance == Spec => []IInv
<1>1. Init => IInv
  BY InitInv
<1>2. IInv /\ [Next]_vars => IInv'
  BY NextInv
<1> QED
  BY <1>1, <1>2, PTL DEF Spec

\* All variables of the engine keep their types.
THEOREM TypeCorrect == Spec => []TypeOK
<1>1. IInv => TypeOK
  BY DEF IInv
<1> QED
  BY <1>1, Invariance, PTL

\* The engine gets to no step before the steps before it were settled, for
\* every plan and whatever messages are lost, repeated or late.
THEOREM StepsSettledInOrder == Spec => []NoStepJumped
<1>1. IInv => NoStepJumped
  <2> SUFFICES ASSUME IInv, NEW t \in Txs, NEW s \in StepsOf(t), s < tx[t].currentStepId
               PROVE  Settled(t, s)
    BY DEF NoStepJumped
  <2>1. CASE Created(t)
    BY <2>1 DEF IInv, DocumentInv, EntityOK, Reached
  <2>2. CASE ~Created(t)
    BY <2>2, StepFacts DEF IInv, DocumentInv
  <2> QED
    BY <2>1, <2>2
<1> QED
  BY <1>1, Invariance, PTL

\* A transaction is reported COMPLETED only when all its steps were settled.
THEOREM CompletionIsSound == Spec => []CompletedIsSettled
<1>1. IInv => CompletedIsSettled
  <2> SUFFICES ASSUME IInv, NEW t \in Txs, tx[t].status = "COMPLETED"
               PROVE  AllSettled(t)
    BY DEF CompletedIsSettled, AllSettled
  <2> QED
    BY DEF IInv, DocumentInv, Created, EntityOK
<1> QED
  BY <1>1, Invariance, PTL

\* _failTransaction is never reached: the step an entity is at is in the plan.
THEOREM NoFailedTransaction == Spec => []NeverFailed
<1>1. IInv => NeverFailed
  BY DEF IInv, DocumentInv, Created, EntityOK, NeverFailed
<1> QED
  BY <1>1, Invariance, PTL

\* No quantity is recorded and no history processed for a bin that the worker
\* neither opened nor skipped as failed.
THEOREM OpenedFirst == Spec => []OpenedBeforeChecked
<1>1. IInv => OpenedBeforeChecked
  BY DEF IInv
<1> QED
  BY <1>1, Invariance, PTL

\* A transaction that waits for the operator names the step to go on from.
THEOREM CorrectionIsNamed == Spec => []CorrectionNamesStep
<1>1. IInv => CorrectionNamesStep
  <2> SUFFICES ASSUME IInv, NEW t \in Txs, tx[t].status = "AWAITING_CORRECTION"
               PROVE  tx[t].lastError \in StepsOf(t)
    BY DEF CorrectionNamesStep
  <2> QED
    BY DEF IInv, DocumentInv, Created, EntityOK, Reached
<1> QED
  BY <1>1, Invariance, PTL

-----------------------------------------------------------------------------
(* Who drives a transaction.                                                 *)

Ends == {"TRANSACTION_COMPLETED", "TRANSACTION_FAILED"}
Polling == {"poll", "closed"}

Running(t) == tx[t].status \notin Terminal
Current(t) == tx[t].currentStepId

\* The messages that make a transaction move.
Mail(t) == {m \in Message : m.tx = t /\ m.type \notin Ends /\ InFlight(m)}

\* Nothing has settled the current step; nor has its bin been checked.
Unsettled(t) == credited[t][Current(t)] = 0 /\ Current(t) \notin forced[t]
Untouched(t) == Unsettled(t) /\ results[t][Current(t)] = 0

Corrected(t) == tx[t].status = "AWAITING_CORRECTION" /\ tx[t].lastError = Current(t)

\* A handler has a fresh copy of the transaction and is about its current step, which
\* it settles after the last check of its bin.
FrameHolds(f, t) ==
  /\ Running(t)
  /\ f.pc \notin Polling => f.entity = tx[t]
  /\ f.pc \notin {"start", "execute"} => f.step = Current(t)
  /\ f.pc \notin {"history", "advance"} => Untouched(t)
  /\ f.pc = "history" => Unsettled(t)
  /\ f.pc # "advance" => ~f.isForced
  /\ f.pc = "advance" =>
       IF f.isForced THEN credited[t][Current(t)] = 0 /\ Current(t) \in forced[t]
       ELSE credited[t][Current(t)] = 1 /\ Current(t) \notin forced[t]

\* A message is about the current step, and what it reports is news.
MailHolds(m, t) ==
  /\ Running(t) /\ Unsettled(t)
  /\ m.type \in {"BIN_OPENED", "BIN_CLOSED", "STEP_SUCCESS"} \/ m.step # 0
       => m.step = Current(t)
  /\ m.type \in {"START", "BIN_OPENED", "BIN_CLOSED"} => Untouched(t)
  /\ m.type \in Forces \/ (m.type = "STEP_ERROR" /\ m.step = 0) => Corrected(t)

WatchHolds(t) == Running(t) /\ poll[t] = Current(t) /\ Untouched(t)
PopupHolds(t) == Running(t) /\ Unsettled(t) /\ Corrected(t)

\* One handler, or one message, or the popup, or the watch on the lock, which is the
\* loop together with one cycle of it or one message.
Exclusive(t) ==
  /\ \A g, h \in Handlers : run[g].tx = t /\ run[h].tx = t => g = h
  /\ \A h \in Handlers : run[h].tx = t =>
       Mail(t) = {} /\ ~popup[t] /\ (poll[t] # 0 => run[h].pc \in Polling)
  /\ \A m, n \in Mail(t) : m = n
  /\ \A m \in Mail(t) : ~popup[t] /\ (poll[t] # 0 => m.type = "BIN_CLOSED")
  /\ popup[t] => poll[t] = 0
  /\ \A m \in Message : m.tx = t => net[m] <= 1

DriverHolds(t) ==
  /\ \A h \in Handlers : run[h].tx = t => FrameHolds(run[h], t)
  /\ \A m \in Mail(t) : MailHolds(m, t)
  /\ poll[t] # 0 => WatchHolds(t)
  /\ popup[t] => PopupHolds(t)
  /\ \A m \in Message : m.tx = t /\ m.type \in Ends /\ InFlight(m) => ~Running(t)

\* Every step is checked and settled once, and none beyond the current one is.
Books(t) ==
  \A s \in StepsOf(t) :
    /\ results[t][s] <= 1 /\ credited[t][s] <= 1
    /\ credited[t][s] > 0 => s \notin forced[t]
    /\ s > Current(t) => results[t][s] = 0 /\ credited[t][s] = 0 /\ s \notin forced[t]

Driven(t) == Exclusive(t) /\ DriverHolds(t) /\ Books(t)

IdleSlots == \A h \in Handlers : run[h].pc = "idle" => run[h] = Idle

DInv == IInv /\ IdleSlots /\ \A t \in Txs \ upset : Driven(t)

\* A step keeps the engine's invariant, and what was upset stays so.
Legal == IInv' /\ upset \subseteq upset'
-----------------------------------------------------------------------------
(* What a step changes of a transaction                                    *)

\* Nothing of transaction u changes.
Same(u) ==
  /\ tx'[u] = tx[u] /\ poll'[u] = poll[u] /\ popup'[u] = popup[u]
  /\ results'[u] = results[u] /\ credited'[u] = credited[u] /\ forced'[u] = forced[u]
  /\ \A h \in Handlers : run[h].tx = u \/ run'[h].tx = u => run'[h] = run[h]
  /\ \A m \in Message : m.tx = u => net'[m] = net[m]

\* What the documents and books of transaction u say does not change.
SameBooks(u) ==
  tx'[u] = tx[u] /\ results'[u] = results[u] /\ credited'[u] = credited[u] /\ forced'[u] = forced[u]

LEMMA SameDriven ==
  ASSUME NEW u \in Txs, Driven(u), Same(u)
  PROVE  Driven(u)'
<1>1. Mail(u)' = Mail(u)
  BY DEF Same, Mail, InFlight
<1>2. Current(u)' = Current(u) /\ (Running(u)' <=> Running(u))
  BY DEF Same, Current, Running
<1>3. (Unsettled(u)' <=> Unsettled(u)) /\ (Untouched(u)' <=> Untouched(u))
      /\ (Corrected(u)' <=> Corrected(u))
  BY <1>2 DEF Same, Unsettled, Untouched, Corrected
<1>4. Exclusive(u)'
  BY <1>1 DEF Same, Driven, Exclusive
<1>5. DriverHolds(u)'
  <2>1. \A h \in Handlers : run'[h].tx = u => FrameHolds(run[h], u)'
    <3> SUFFICES ASSUME NEW h \in Handlers, run'[h].tx = u
                 PROVE  FrameHolds(run[h], u)'
      OBVIOUS
    <3>1. run'[h] = run[h] /\ FrameHolds(run[h], u)
      BY DEF Same, Driven, DriverHolds
    <3> QED
      BY <1>2, <1>3, <3>1 DEF FrameHolds, Same
  <2>2. \A m \in Mail(u)' : MailHolds(m, u)'
    BY <1>1, <1>2, <1>3 DEF Driven, DriverHolds, MailHolds
  <2>3. (poll[u] # 0 => WatchHolds(u))' /\ (popup[u] => PopupHolds(u))'
    BY <1>2, <1>3 DEF Driven, DriverHolds, WatchHolds, PopupHolds, Same
  <2>4. \A m \in Message : m.tx = u /\ m.type \in Ends /\ InFlight(m)' => ~Running(u)'
    BY <1>2 DEF Driven, DriverHolds, Same, InFlight
  <2> QED
    BY <2>1, <2>2, <2>3, <2>4 DEF DriverHolds
<1>6. Books(u)'
  BY <1>2 DEF Driven, Books, Same, StepsOf
<1> QED
  BY <1>4, <1>5, <1>6 DEF Driven

LEMMA SameNothing ==
  ASSUME NEW t \in Txs, Books(t), SameBooks(t)
  PROVE  Books(t)'
BY DEF Books, SameBooks, Current, StepsOf

\* A step about transaction t.
LEMMA OneTransaction ==
  ASSUME DInv, Legal, IdleSlots', NEW t \in Txs, t \notin upset' => Driven(t)',
         \A u \in Txs \ {t} : Same(u)
  PROVE  DInv'
BY SameDriven DEF DInv, Legal
-----------------------------------------------------------------------------
(* The ways in which what drives a transaction changes hands               *)

\* A transaction that a handler drives is driven by nothing else.
LEMMA HandlerAlone ==
  ASSUME DInv, NEW h \in Handlers, NEW t \in Txs \ upset, run[h].tx = t
  PROVE  /\ \A g \in Handlers : run[g].tx = t => g = h
         /\ Mail(t) = {} /\ ~popup[t] /\ (poll[t] # 0 => run[h].pc \in Polling /\ WatchHolds(t))
         /\ FrameHolds(run[h], t) /\ Books(t) /\ Running(t)
         /\ \A m \in Message : m.tx = t => net[m] = 0
<1>1. Driven(t)
  BY DEF DInv
<1>2. \A g \in Handlers : run[g].tx = t => g = h
  BY <1>1 DEF Driven, Exclusive
<1>3. Mail(t) = {} /\ ~popup[t] /\ (poll[t] # 0 => run[h].pc \in Polling /\ WatchHolds(t))
  BY <1>1 DEF Driven, Exclusive, DriverHolds
<1>4. FrameHolds(run[h], t) /\ Books(t)
  BY <1>1 DEF Driven, DriverHolds
<1>5. Running(t)
  BY <1>4 DEF FrameHolds
<1>6. ASSUME NEW m \in Message, m.tx = t PROVE net[m] = 0
  <2>1. ~InFlight(m)
    BY <1>1, <1>3, <1>5, <1>6 DEF Driven, DriverHolds, Mail
  <2> QED
    BY <2>1 DEF DInv, IInv, TypeOK, InFlight
<1> QED
  BY <1>2, <1>3, <1>4, <1>5, <1>6

\* A transaction that a message drives is driven by nothing else, but for the watch
\* that a BIN_CLOSED belongs to.
LEMMA MessageAlone ==
  ASSUME DInv, NEW m \in Message, InFlight(m), m.type \notin Ends, m.tx \notin upset
  PROVE  LET t == m.tx
         IN  /\ t \in Txs /\ \A g \in Handlers : run[g].tx # t
             /\ Mail(t) = {m} /\ ~popup[t]
             /\ poll[t] # 0 => m.type = "BIN_CLOSED" /\ WatchHolds(t)
             /\ MailHolds(m, t) /\ Books(t) /\ Running(t)
             /\ net[m] = 1 /\ \A n \in Message \ {m} : n.tx = t => net[n] = 0
<1> DEFINE t == m.tx
<1>1. t \in Txs /\ Driven(t)
  BY DEF DInv, Message
<1>2. m \in Mail(t)
  BY DEF Mail
<1>3. /\ \A g \in Handlers : run[g].tx # t
      /\ Mail(t) = {m} /\ ~popup[t]
      /\ poll[t] # 0 => m.type = "BIN_CLOSED" /\ WatchHolds(t)
  BY <1>1, <1>2 DEF Driven, Exclusive, DriverHolds
<1>4. MailHolds(m, t) /\ Books(t)
  BY <1>1, <1>2 DEF Driven, DriverHolds
<1>5. Running(t)
  BY <1>4 DEF MailHolds
<1>6. net[m] = 1
  BY <1>1 DEF Driven, Exclusive, InFlight, DInv, IInv, TypeOK
<1>7. ASSUME NEW n \in Message \ {m}, n.tx = t PROVE net[n] = 0
  <2>1. ~InFlight(n)
    BY <1>1, <1>3, <1>5, <1>7 DEF Driven, DriverHolds, Mail
  <2> QED
    BY <2>1 DEF DInv, IInv, TypeOK, InFlight
<1> QED
  BY <1>1, <1>3, <1>4, <1>5, <1>6, <1>7
\* The step is about transaction t: of the others nothing is written.
Elsewhere(t) ==
  /\ \A u \in Txs \ {t} : /\ tx'[u] = tx[u] /\ poll'[u] = poll[u] /\ popup'[u] = popup[u]
                          /\ results'[u] = results[u] /\ credited'[u] = credited[u]
                          /\ forced'[u] = forced[u]
  /\ \A m \in Message : m.tx # t => net'[m] = net[m]

LEMMA ElsewhereSame ==
  ASSUME IInv, NEW t \in Txs, Elsewhere(t),
         \/ run' = run
         \/ \E h \in Handlers, f \in Frame : /\ run[h].tx \in {t, NoTx} /\ f.tx \in {t, NoTx}
                                            /\ run' = [run EXCEPT ![h] = f]
  PROVE  \A u \in Txs \ {t} : Same(u)
BY ParameterAssumption DEF Elsewhere, Same, IInv, TypeOK

LEMMA IdleFacts ==
  ASSUME DInv, NEW h \in Handlers, IsIdle(h)
  PROVE  run[h] = Idle /\ run[h].tx = NoTx /\ Idle \in Frame
<1>1. run[h] = Idle
  BY DEF DInv, IdleSlots, IsIdle
<1>2. Idle.tx = NoTx
  BY DEF Idle
<1> QED
  BY <1>1, <1>2, IdleFrame

\* The slots stay as they should when one frame is written.
LEMMA SlotFacts ==
  ASSUME DInv, NEW h \in Handlers, NEW f \in Frame, f.pc # "idle" \/ f = Idle,
         run' = [run EXCEPT ![h] = f]
  PROVE  IdleSlots'
BY DEF DInv, IdleSlots, IInv, TypeOK

\* The handler of t goes on.
LEMMA GoesOn ==
  ASSUME DInv, Legal, NEW t \in Txs \ upset, NEW h \in Handlers, run[h].tx = t, Elsewhere(t),
         NEW f \in Frame, f.tx = t, f.pc # "idle", run' = [run EXCEPT ![h] = f],
         UNCHANGED <<net, popup>>, poll'[t] = poll[t],
         run[h].pc \in Polling => f.pc \in Polling,
         FrameHolds(f, t)', poll[t] # 0 => WatchHolds(t)', Books(t)'
  PROVE  DInv'
<1>1. \A u \in Txs \ {t} : Same(u)
  BY ElsewhereSame DEF DInv
<1>2. IdleSlots'
  BY SlotFacts
<1>3. /\ \A g \in Handlers : run'[g].tx = t => g = h
      /\ run'[h] = f
  BY HandlerAlone DEF DInv, IInv, TypeOK
<1>4. \A m \in Message : m.tx = t => net'[m] = 0
  BY HandlerAlone
<1>5. Mail(t)' = {}
  BY <1>4 DEF Mail, InFlight
<1>6. Exclusive(t)'
  BY <1>3, <1>4, <1>5, HandlerAlone DEF Exclusive
<1>7. DriverHolds(t)'
  BY <1>3, <1>4, <1>5, HandlerAlone DEF DriverHolds, InFlight
<1> QED
  BY <1>1, <1>2, <1>6, <1>7, OneTransaction DEF Driven

\* A handler of t that ends leaves none.
LEMMA SlotEnds ==
  ASSUME DInv, NEW t \in Txs \ upset, NEW h \in Handlers, run[h].tx = t, End(h)
  PROVE  \A g \in Handlers : run'[g].tx # t
<1>1. \A g \in Handlers : run[g].tx = t => g = h
  BY HandlerAlone
<1>2. Idle.tx # t
  BY ParameterAssumption DEF Idle
<1> QED
  BY <1>1, <1>2 DEF End, DInv, IInv, TypeOK

\* The handler of t ends; nothing drives t any more, but for the loop that watches
\* its lock.
LEMMA Stops ==
  ASSUME DInv, Legal, NEW t \in Txs \ upset, NEW h \in Handlers, run[h].tx = t, Elsewhere(t),
         End(h), UNCHANGED <<net, popup>>, poll'[t] # 0 => WatchHolds(t)', Books(t)'
  PROVE  DInv'
<1>1. \A u \in Txs \ {t} : Same(u)
  BY IdleFrame, ElsewhereSame DEF DInv, End, Idle
<1>2. IdleSlots'
  BY SlotFacts, IdleFrame DEF End
<1>3. \A g \in Handlers : run'[g].tx # t
  BY SlotEnds
<1>4. \A m \in Message : m.tx = t => net'[m] = 0
  BY HandlerAlone
<1>5. Mail(t)' = {}
  BY <1>4 DEF Mail, InFlight
<1>6. Exclusive(t)' /\ DriverHolds(t)'
  BY <1>3, <1>4, <1>5, HandlerAlone DEF Exclusive, DriverHolds, InFlight
<1> QED
  BY <1>1, <1>2, <1>6, OneTransaction DEF Driven

\* The handler of t ends with a message, which drives t from then on, or tells that t
\* has ended.
LEMMA HandsOver ==
  ASSUME DInv, Legal, NEW t \in Txs \ upset, NEW h \in Handlers, run[h].tx = t, Elsewhere(t),
         NEW m \in Message, m.tx = t, End(h), Send(m), UNCHANGED popup,
         m.type \in Ends => ~Running(t)', m.type \notin Ends => MailHolds(m, t)',
         poll'[t] # 0 => m.type = "BIN_CLOSED" /\ WatchHolds(t)', Books(t)'
  PROVE  DInv'
<1>1. \A u \in Txs \ {t} : Same(u)
  BY IdleFrame, ElsewhereSame DEF DInv, End, Idle
<1>2. IdleSlots'
  BY SlotFacts, IdleFrame DEF End
<1>3. \A g \in Handlers : run'[g].tx # t
  BY SlotEnds
<1>4. net'[m] = 1 /\ \A n \in Message : n.tx = t /\ n # m => net'[n] = 0
  <2>1. net \in [Message -> Nat]
    BY DEF DInv, IInv, TypeOK
  <2>2. \A n \in Message : n.tx = t => net[n] = 0
    BY HandlerAlone
  <2> QED
    BY <2>1, <2>2 DEF Send
<1>5. Mail(t)' \subseteq {m} /\ (m.type \in Ends => Mail(t)' = {})
  BY <1>4 DEF Mail, InFlight
<1>6. Exclusive(t)' /\ DriverHolds(t)'
  <2>1. ~popup'[t]
    BY HandlerAlone
  <2>2. \A n \in Message : n.tx = t => net'[n] <= 1
    BY <1>4
  <2>3. Exclusive(t)'
    BY <1>3, <1>5, <2>1, <2>2 DEF Exclusive
  <2>4. DriverHolds(t)'
    BY <1>3, <1>4, <1>5, <2>1 DEF DriverHolds, InFlight
  <2> QED
    BY <2>3, <2>4
<1> QED
  BY <1>1, <1>2, <1>6, OneTransaction DEF Driven

\* A message that drives t starts a handler.
LEMMA TakesUp ==
  ASSUME DInv, Legal, NEW m \in Message, NEW t \in Txs \ upset, m.tx = t, m.type \notin Ends,
         Receive(m), Elsewhere(t), NEW h \in Handlers, IsIdle(h),
         NEW f \in Frame, f.tx = t, f.pc # "idle", run' = [run EXCEPT ![h] = f],
         UNCHANGED popup, poll'[t] = 0, FrameHolds(f, t)', Books(t)'
  PROVE  DInv'
<1>1. \A u \in Txs \ {t} : Same(u)
  BY IdleFacts, ElsewhereSame DEF DInv
<1>2. IdleSlots'
  BY SlotFacts
<1>3. InFlight(m)
  BY DEF Receive
<1>4. run'[h] = f /\ \A g \in Handlers : run'[g].tx = t => g = h
  BY <1>3, MessageAlone DEF DInv, IInv, TypeOK
<1>5. \A n \in Message : n.tx = t => net'[n] = 0
  BY <1>3, MessageAlone DEF Receive, DInv, IInv, TypeOK
<1>6. Mail(t)' = {} /\ ~popup'[t]
  BY <1>3, <1>5, MessageAlone DEF Mail, InFlight
<1>7. Exclusive(t)'
  BY <1>4, <1>5, <1>6 DEF Exclusive
<1>8. DriverHolds(t)'
  BY <1>4, <1>5, <1>6 DEF DriverHolds, InFlight
<1> QED
  BY <1>1, <1>2, <1>7, <1>8, OneTransaction DEF Driven

\* A message that drives t is used up: nothing drives t any more, but the popup, or the
\* loop that watches its lock.
LEMMA UsedUp ==
  ASSUME DInv, Legal, NEW m \in Message, NEW t \in Txs \ upset, m.tx = t, m.type \notin Ends,
         Receive(m), Elsewhere(t), UNCHANGED run,
         poll'[t] # 0 => ~popup'[t] /\ WatchHolds(t)', popup'[t] => PopupHolds(t)', Books(t)'
  PROVE  DInv'
<1>1. \A u \in Txs \ {t} : Same(u)
  BY ElsewhereSame DEF DInv
<1>2. IdleSlots' /\ InFlight(m)
  BY DEF DInv, IdleSlots, Receive
<1>3. \A g \in Handlers : run'[g].tx # t
  BY <1>2, MessageAlone
<1>4. \A n \in Message : n.tx = t => net'[n] = 0
  BY <1>2, MessageAlone DEF Receive, DInv, IInv, TypeOK
<1>5. Mail(t)' = {}
  BY <1>4 DEF Mail, InFlight
<1>6. Exclusive(t)' /\ DriverHolds(t)'
  BY <1>3, <1>4, <1>5 DEF Exclusive, DriverHolds, InFlight
<1> QED
  BY <1>1, <1>2, <1>6, OneTransaction DEF Driven

\* A message is lost, or used up for nothing.
LEMMA Fades ==
  ASSUME DInv, Legal, NEW m \in Message, m.tx \notin upset, Receive(m),
         UNCHANGED <<tx, run, poll, popup, results, credited, forced>>
  PROVE  DInv'
<1> DEFINE t == m.tx
<1>1. t \in Txs /\ Driven(t)
  BY DEF DInv, Message
<1>2. net \in [Message -> Nat] /\ net' = [net EXCEPT ![m] = net[m] - 1] /\ net[m] > 0
  BY DEF DInv, IInv, TypeOK, Receive, InFlight
<1>3. \A n \in Message : net'[n] <= net[n] /\ (n.tx # t => net'[n] = net[n])
  BY <1>2
<1> HIDE DEF t
<1>4. \A u \in Txs \ {t} : Same(u)
  BY <1>3 DEF Same
<1>5. \A n \in Message : InFlight(n)' => InFlight(n)
  BY <1>2, <1>3 DEF InFlight
<1>6. Mail(t)' \subseteq Mail(t)
  BY <1>5 DEF Mail
<1>7. Current(t)' = Current(t) /\ (Running(t)' <=> Running(t))
      /\ (Unsettled(t)' <=> Unsettled(t)) /\ (Untouched(t)' <=> Untouched(t))
      /\ (Corrected(t)' <=> Corrected(t))
  BY DEF Current, Running, Unsettled, Untouched, Corrected
<1>8. Exclusive(t)'
  <2>1. \A n \in Message : n.tx = t => net'[n] <= 1
    BY <1>1, <1>2, <1>3 DEF Driven, Exclusive
  <2> QED
    BY <1>1, <1>6, <2>1 DEF Driven, Exclusive
<1>9. DriverHolds(t)'
  <2>1. \A g \in Handlers : run'[g].tx = t => FrameHolds(run[g], t)'
    BY <1>1, <1>7 DEF Driven, DriverHolds, FrameHolds
  <2>2. \A n \in Mail(t)' : MailHolds(n, t)'
    BY <1>1, <1>6, <1>7 DEF Driven, DriverHolds, MailHolds
  <2>3. (poll[t] # 0 => WatchHolds(t))' /\ (popup[t] => PopupHolds(t))'
    BY <1>1, <1>7 DEF Driven, DriverHolds, WatchHolds, PopupHolds
  <2>4. \A n \in Message : n.tx = t /\ n.type \in Ends /\ InFlight(n)' => ~Running(t)'
    BY <1>1, <1>5, <1>7 DEF Driven, DriverHolds
  <2> QED
    BY <2>1, <2>2, <2>3, <2>4 DEF DriverHolds
<1>10. Books(t)' /\ IdleSlots'
  BY <1>1, <1>7 DEF Driven, Books, StepsOf, DInv, IdleSlots
<1> QED
  BY <1>1, <1>4, <1>8, <1>9, <1>10, OneTransaction DEF Driven

\* Nothing drives t.
Still(t) ==
  /\ \A g \in Handlers : run[g].tx # t
  /\ \A n \in Message : n.tx = t => net[n] = 0

\* A message is sent about a transaction that nothing drives any more.
LEMMA Appears ==
  ASSUME DInv, Legal, NEW t \in Txs, NEW m \in Message, m.tx = t, m.type \notin Ends,
         Still(t), Send(m), UNCHANGED run, Elsewhere(t), ~popup'[t], poll'[t] = 0,
         MailHolds(m, t)', Books(t)'
  PROVE  DInv'
<1>1. \A u \in Txs \ {t} : Same(u)
  BY ElsewhereSame DEF DInv
<1>2. net'[m] = 1 /\ \A n \in Message : n.tx = t /\ n # m => net'[n] = 0
  <2>1. net \in [Message -> Nat]
    BY DEF DInv, IInv, TypeOK
  <2> QED
    BY <2>1 DEF Send, Still
<1>3. Mail(t)' \subseteq {m}
  BY <1>2 DEF Mail, InFlight
<1>4. \A n \in Message : n.tx = t => net'[n] <= 1
  BY <1>2
<1>5. Exclusive(t)'
  BY <1>3, <1>4 DEF Exclusive, Still
<1>6. DriverHolds(t)'
  BY <1>2, <1>3 DEF DriverHolds, InFlight, Still
<1>7. IdleSlots'
  BY DEF DInv, IdleSlots
<1> QED
  BY <1>1, <1>5, <1>6, <1>7, OneTransaction DEF Driven

\* One message takes the place of another.
LEMMA PassesOn ==
  ASSUME DInv, Legal, NEW t \in Txs \ upset, NEW m \in Message, NEW n \in Message,
         m.tx = t, n.tx = t,
         m.type \notin Ends \cup {"BIN_CLOSED"}, n.type \notin Ends, m # n, ReceiveAndSend(m, n),
         UNCHANGED <<run, poll, popup>>, Elsewhere(t), MailHolds(n, t)', Books(t)'
  PROVE  DInv'
<1>1. \A u \in Txs \ {t} : Same(u)
  BY ElsewhereSame DEF DInv
<1>2. InFlight(m)
  BY DEF ReceiveAndSend
<1>3. /\ \A g \in Handlers : run[g].tx # t
      /\ ~popup[t] /\ poll[t] = 0
      /\ net[m] = 1 /\ \A x \in Message \ {m} : x.tx = t => net[x] = 0
  BY <1>2, MessageAlone
<1>4. net'[n] = 1 /\ \A x \in Message : x.tx = t /\ x # n => net'[x] = 0
  <2>1. net \in [Message -> Nat]
    BY DEF DInv, IInv, TypeOK
  <2>2. net' = [net EXCEPT ![m] = net[m] - 1, ![n] = net[n] + 1]
    BY DEF ReceiveAndSend
  <2> QED
    BY <1>3, <2>1, <2>2
<1>5. Mail(t)' \subseteq {n}
  BY <1>4 DEF Mail, InFlight
<1>6. \A x \in Message : x.tx = t => net'[x] <= 1
  BY <1>4
<1>7. Exclusive(t)'
  BY <1>3, <1>5, <1>6 DEF Exclusive
<1>8. DriverHolds(t)'
  BY <1>3, <1>4, <1>5 DEF DriverHolds, InFlight
<1>9. IdleSlots'
  BY DEF DInv, IdleSlots
<1> QED
  BY <1>1, <1>7, <1>8, <1>9, OneTransaction DEF Driven
-----------------------------------------------------------------------------
(* The actions of the environment                                          *)

LEMMA LoseDriven ==
  ASSUME DInv, Legal, NEW m \in Message, m.tx \notin upset, Lose(m)
  PROVE  DInv'
BY Fades DEF Lose, records, history

LEMMA OnEndedDriven ==
  ASSUME DInv, Legal, NEW t \in Txs \ upset, OnEnded(t)
  PROVE  DInv'
<1>1. PICK type \in Ends : Receive(Msg(type, t, 0))
  BY DEF OnEnded, Ends
<1>2. PICK m \in Message : m = Msg(type, t, 0) /\ m.tx = t
  BY ZeroFacts, MsgFacts DEF MessageType, Ends
<1> QED
  BY <1>1, <1>2, Fades DEF OnEnded, records, history

\* A step that writes nothing that drives a transaction.
LEMMA NothingDriven ==
  ASSUME DInv, Legal, UNCHANGED <<tx, run, poll, popup, results, credited, forced, net>>
  PROVE  DInv'
<1>1. \A u \in Txs : Same(u)
  BY DEF Same
<1>2. IdleSlots'
  BY DEF DInv, IdleSlots
<1> QED
  BY <1>1, <1>2, SameDriven DEF DInv, Legal

LEMMA CrashDriven ==
  ASSUME DInv, Legal, Crash
  PROVE  DInv'
<1>1. \A h \in Handlers : run'[h] = Idle
  BY DEF Crash
<1>2. IdleSlots'
  BY <1>1 DEF IdleSlots
<1>3. UNCHANGED <<tx, popup, results, credited, forced>>
  BY DEF Crash, records, history
<1>4. net \in [Message -> Nat] /\ \A n \in Message : net'[n] \in {0, net[n]}
  BY DEF Crash, DInv, IInv, TypeOK
<1>5. ASSUME NEW t \in Txs \ upset PROVE Driven(t)'
  <2>1. Driven(t)
    BY DEF DInv
  <2>2. (\A h \in Handlers : run'[h].tx # t) /\ poll'[t] = 0
    BY <1>1, ParameterAssumption DEF Idle, Crash
  <2>3. \A n \in Message : InFlight(n)' => InFlight(n)
    BY <1>4 DEF InFlight
  <2>4. Mail(t)' \subseteq Mail(t)
    BY <2>3 DEF Mail
  <2>5. Current(t)' = Current(t) /\ (Running(t)' <=> Running(t))
        /\ (Unsettled(t)' <=> Unsettled(t)) /\ (Untouched(t)' <=> Untouched(t))
        /\ (Corrected(t)' <=> Corrected(t))
    BY <1>3 DEF Current, Running, Unsettled, Untouched, Corrected
  <2>6. \A n \in Message : n.tx = t => net'[n] <= 1
    BY <1>4, <2>1 DEF Driven, Exclusive
  <2>7. Exclusive(t)'
    BY <1>3, <2>1, <2>2, <2>4, <2>6 DEF Driven, Exclusive
  <2>8. DriverHolds(t)'
    <3>1. \A n \in Mail(t)' : MailHolds(n, t)'
      BY <2>1, <2>4, <2>5 DEF Driven, DriverHolds, MailHolds
    <3>2. (popup[t] => PopupHolds(t))'
      BY <1>3, <2>1, <2>5 DEF Driven, DriverHolds, PopupHolds
    <3>3. \A n \in Message : n.tx = t /\ n.type \in Ends /\ InFlight(n)' => ~Running(t)'
      BY <2>1, <2>3, <2>5 DEF Driven, DriverHolds
    <3> QED
      BY <2>2, <3>1, <3>2, <3>3 DEF DriverHolds
  <2>9. Books(t)'
    BY <1>3, <2>1, <2>5 DEF Driven, Books, StepsOf
  <2> QED
    BY <2>7, <2>8, <2>9 DEF Driven
<1> QED
  BY <1>2, <1>5 DEF DInv, Legal

\* The operator answers once: nothing drives a transaction whose popup is open.
LEMMA AnswerDriven ==
  ASSUME DInv, Legal, NEW t \in Txs, t \notin upset', NEW type \in Forces, Answer(t, type)
  PROVE  DInv'
<1> DEFINE m == Msg(type, t, 0)
<1>1. m \in Message /\ m.tx = t /\ m.type = type /\ m.step = 0
      /\ m.type \notin Ends /\ type \notin {"BIN_OPENED", "BIN_CLOSED", "STEP_SUCCESS", "START", "STEP_ERROR"}
  BY ZeroFacts, MsgFacts DEF MessageType, Forces, Ends
<1>2. Send(m) /\ UNCHANGED <<tx, run, poll, results, credited, forced>>
      /\ popup[t] /\ popup' = [popup EXCEPT ![t] = FALSE]
  BY DEF Answer, Upsets, records, history
<1> HIDE DEF m
<1>3. Driven(t) /\ PopupHolds(t) /\ poll[t] = 0
  BY <1>2 DEF DInv, Legal, Driven, Exclusive, DriverHolds
<1>4. Still(t)
  <2>1. (\A g \in Handlers : run[g].tx # t) /\ Mail(t) = {}
    BY <1>2, <1>3 DEF Driven, Exclusive
  <2>2. \A n \in Message : n.tx = t => ~InFlight(n)
    BY <1>3, <2>1 DEF Driven, DriverHolds, PopupHolds, Mail
  <2> QED
    BY <2>1, <2>2 DEF Still, InFlight, DInv, IInv, TypeOK
<1>5. Elsewhere(t) /\ ~popup'[t] /\ poll'[t] = 0
  BY <1>1, <1>2, <1>3 DEF Elsewhere, DInv, IInv, TypeOK, Send
<1>6. MailHolds(m, t)'
  BY <1>1, <1>2, <1>3 DEF MailHolds, PopupHolds, Corrected, Running, Unsettled, Current
<1>7. Books(t)'
  BY <1>2, <1>3, SameNothing DEF Driven, SameBooks
<1> QED
  BY <1>1, <1>2, <1>4, <1>5, <1>6, <1>7, Appears
-----------------------------------------------------------------------------
(* A message is taken up                                                   *)

LEMMA SameFacts ==
  ASSUME NEW t \in Txs, SameBooks(t)
  PROVE  /\ Current(t)' = Current(t) /\ (Running(t)' <=> Running(t))
         /\ (Unsettled(t)' <=> Unsettled(t)) /\ (Untouched(t)' <=> Untouched(t))
         /\ (Corrected(t)' <=> Corrected(t))
BY DEF SameBooks, Current, Running, Unsettled, Untouched, Corrected

\* The handler that begins with a fresh copy of the transaction.
LEMMA BeginHolds ==
  ASSUME DInv, NEW t \in Txs, SameBooks(t), NEW s \in StepIds, Running(t), Unsettled(t),
         NEW pc \in {"start", "arm", "check", "history"},
         pc = "start" \/ s = Current(t), pc # "history" => Untouched(t),
         NEW f, f = Begin(pc, t, s, tx[t])
  PROVE  f \in Frame /\ f.tx = t /\ f.pc # "idle" /\ FrameHolds(f, t)'
<1>1. tx[t] \in Document /\ pc \in Pc
  BY DEF DInv, IInv, TypeOK, Pc
<1>2. f \in Frame
  BY <1>1, BeginFrame
<1>3. f.tx = t /\ f.pc = pc /\ f.step = s /\ f.entity = tx[t] /\ f.isForced = FALSE
  BY DEF Begin, Idle
<1>4. FrameHolds(f, t)'
  BY <1>3, SameFacts DEF FrameHolds, Polling, SameBooks
<1> QED
  BY <1>2, <1>3, <1>4

LEMMA OnStartDriven ==
  ASSUME DInv, Legal, NEW h \in Handlers, NEW t \in Txs \ upset, OnStart(h, t)
  PROVE  DInv'
<1> DEFINE m == Msg("START", t, 0)
<1>1. m \in Message /\ m.tx = t /\ m.type = "START" /\ m.type \notin Ends
  BY ZeroFacts, MsgFacts DEF MessageType, Ends
<1>2. /\ IsIdle(h) /\ Receive(m) /\ run' = [run EXCEPT ![h] = Begin("start", t, 0, tx[t])]
      /\ UNCHANGED <<tx, poll, popup, results, credited, forced>>
  BY DEF OnStart, records, history
<1> HIDE DEF m
<1>3. InFlight(m)
  BY <1>2 DEF Receive
<1>4. MailHolds(m, t) /\ Books(t) /\ poll[t] = 0
  BY <1>1, <1>3, MessageAlone
<1>5. Running(t) /\ Untouched(t) /\ Unsettled(t)
  BY <1>1, <1>4 DEF MailHolds
<1>6. SameBooks(t) /\ Elsewhere(t)
  BY <1>1, <1>2 DEF SameBooks, Elsewhere, Receive, DInv, IInv, TypeOK
<1>7. PICK f : f = Begin("start", t, 0, tx[t])
  OBVIOUS
<1>8. f \in Frame /\ f.tx = t /\ f.pc # "idle" /\ FrameHolds(f, t)'
  BY <1>5, <1>6, <1>7, BeginHolds, ZeroFacts
<1>9. Books(t)' /\ poll'[t] = 0
  BY <1>2, <1>4, <1>6, SameNothing
<1> QED
  BY <1>1, <1>2, <1>6, <1>7, <1>8, <1>9, TakesUp

\* BIN_OPENED, BIN_CLOSED and STEP_SUCCESS are about the step the transaction is at.
LEMMA OnStepMessageDriven ==
  ASSUME DInv, Legal, NEW h \in Handlers, NEW t \in Txs \ upset, NEW s \in StepsOf(t),
         OnBinOpened(h, t, s) \/ OnBinClosed(h, t, s) \/ OnStepSuccess(h, t, s)
  PROVE  DInv'
<1>1. PICK type \in {"BIN_OPENED", "BIN_CLOSED", "STEP_SUCCESS"}, pc \in {"arm", "check", "history"} :
        /\ IsIdle(h) /\ Receive(Msg(type, t, s))
        /\ run' = [run EXCEPT ![h] = Begin(pc, t, s, tx[t])]
        /\ pc = "history" => type = "STEP_SUCCESS"
        /\ type = "STEP_SUCCESS" => pc = "history" /\ poll' = poll
        /\ type # "STEP_SUCCESS" => poll' = [poll EXCEPT ![t] = 0]
        /\ UNCHANGED <<tx, popup, results, credited, forced>>
  BY DEF OnBinOpened, OnBinClosed, OnStepSuccess, StopPolling, records, history
<1> DEFINE m == Msg(type, t, s)
<1>2. m \in Message /\ m.tx = t /\ m.step = s /\ m.type = type /\ m.type \notin Ends /\ s \in StepIds
  BY StepFacts, MsgFacts DEF MessageType, Ends
<1>3. Receive(m) /\ InFlight(m)
  BY <1>1 DEF Receive
<1> HIDE DEF m
<1>4. MailHolds(m, t) /\ Books(t) /\ (poll[t] # 0 => m.type = "BIN_CLOSED")
  BY <1>2, <1>3, MessageAlone
<1>5. Running(t) /\ Unsettled(t) /\ s = Current(t) /\ (pc # "history" => Untouched(t))
  BY <1>1, <1>2, <1>4 DEF MailHolds
<1>6. poll \in [Txs -> StepIds]
  BY DEF DInv, IInv, TypeOK
<1>7. poll'[t] = 0
  BY <1>1, <1>2, <1>4, <1>6
<1>8. SameBooks(t) /\ Elsewhere(t)
  <2>1. \A u \in Txs \ {t} : poll'[u] = poll[u]
    BY <1>1, <1>6
  <2>2. \A x \in Message : x.tx # t => net'[x] = net[x]
    BY <1>2, <1>3 DEF Receive, DInv, IInv, TypeOK
  <2> QED
    BY <1>1, <2>1, <2>2 DEF SameBooks, Elsewhere
<1>9. PICK f : f = Begin(pc, t, s, tx[t])
  OBVIOUS
<1>10. f \in Frame /\ f.tx = t /\ f.pc # "idle" /\ FrameHolds(f, t)'
  BY <1>2, <1>5, <1>8, <1>9, BeginHolds
<1>11. Books(t)'
  BY <1>4, <1>8, SameNothing
<1> QED
  BY <1>1, <1>2, <1>3, <1>7, <1>8, <1>9, <1>10, <1>11, TakesUp

\* forceNextStep finds the transaction at the step the operator was asked about, which
\* was not credited; the operator skips it.
LEMMA OnForceNextDriven ==
  ASSUME DInv, Legal, NEW h \in Handlers, NEW t \in Txs \ upset, OnForceNext(h, t)
  PROVE  DInv'
<1> DEFINE m == Msg("FORCE_NEXT", t, 0)
           s == Current(t)
<1>1. m \in Message /\ m.tx = t /\ m.type = "FORCE_NEXT" /\ m.type \in Forces \ Ends
  BY ZeroFacts, MsgFacts DEF MessageType, Forces, Ends
<1>2. Receive(m) /\ InFlight(m)
  BY DEF OnForceNext, Receive
<1>3. MailHolds(m, t) /\ Books(t) /\ poll[t] = 0
  BY <1>1, <1>2, MessageAlone
<1>4. Running(t) /\ Unsettled(t) /\ Corrected(t)
  BY <1>1, <1>3 DEF MailHolds
<1>5. tx[t] \in Document /\ s \in StepsOf(t) /\ s \in StepIds /\ s # 0
  <2>1. EntityOK(t, tx[t]) /\ tx[t] \in Document
    BY <1>4 DEF DInv, IInv, TypeOK, DocumentInv, Created, Corrected
  <2> QED
    BY <2>1, StepFacts DEF EntityOK, Reached, Current
<1>6. PICK f : f = [Begin("advance", t, s, tx[t]) EXCEPT !.isForced = TRUE]
  OBVIOUS
<1>7. f \in Frame /\ f.tx = t /\ f.pc = "advance" /\ f.step = s /\ f.entity = tx[t] /\ f.isForced
  <2>1. Begin("advance", t, s, tx[t]) \in Frame
    BY <1>5, BeginFrame DEF Pc
  <2>2. /\ Begin("advance", t, s, tx[t]).pc = "advance" /\ Begin("advance", t, s, tx[t]).tx = t
        /\ Begin("advance", t, s, tx[t]).step = s /\ Begin("advance", t, s, tx[t]).entity = tx[t]
    BY DEF Begin, Idle
  <2> QED
    BY <1>6, <2>1, <2>2 DEF Frame
<1>8. /\ IsIdle(h) /\ run' = [run EXCEPT ![h] = f] /\ forced' = [forced EXCEPT ![t] = @ \cup {s}]
      /\ UNCHANGED <<tx, poll, popup, results, credited>>
  BY <1>4, <1>5, <1>6 DEF OnForceNext, Corrected, Current, records
<1> HIDE DEF m
<1>9. forced'[t] = forced[t] \cup {s} /\ \A u \in Txs \ {t} : forced'[u] = forced[u]
  BY <1>8 DEF DInv, IInv, TypeOK
<1>10. Elsewhere(t)
  BY <1>1, <1>2, <1>8, <1>9 DEF Elsewhere, Receive, DInv, IInv, TypeOK
<1>11. FrameHolds(f, t)'
  BY <1>4, <1>7, <1>8, <1>9 DEF FrameHolds, Polling, Running, Unsettled, Current
<1>12. Books(t)'
  <2> SUFFICES ASSUME NEW r \in StepsOf(t)
               PROVE  /\ results[t][r] <= 1 /\ credited[t][r] <= 1
                      /\ credited[t][r] > 0 => r \notin forced'[t]
                      /\ r > s => results[t][r] = 0 /\ credited[t][r] = 0 /\ r \notin forced'[t]
    BY <1>8 DEF Books, StepsOf, Current
  <2>1. /\ results[t][r] <= 1 /\ credited[t][r] <= 1
        /\ credited[t][r] > 0 => r \notin forced[t]
        /\ r > s => results[t][r] = 0 /\ credited[t][r] = 0 /\ r \notin forced[t]
    BY <1>3 DEF Books
  <2>2. r = s => credited[t][r] = 0
    BY <1>4 DEF Unsettled
  <2>3. s \in Nat /\ r \in Nat
    BY <1>5, StepFacts
  <2> QED
    BY <1>9, <2>1, <2>2, <2>3
<1> QED
  BY <1>1, <1>2, <1>3, <1>7, <1>8, <1>10, <1>11, <1>12, TakesUp

LEMMA OnForceEndDriven ==
  ASSUME DInv, Legal, NEW t \in Txs \ upset, OnForceEnd(t)
  PROVE  DInv'
<1> DEFINE m == Msg("FORCE_END", t, 0)
<1>1. m \in Message /\ m.tx = t /\ m.type = "FORCE_END" /\ m.type \notin Ends
  BY ZeroFacts, MsgFacts DEF MessageType, Ends
<1>2. Receive(m) /\ InFlight(m) /\ UNCHANGED <<run, poll, popup, results, credited, forced>>
  BY DEF OnForceEnd, Receive, records, history
<1> HIDE DEF m
<1>3. Books(t) /\ poll[t] = 0 /\ ~popup[t]
  BY <1>1, <1>2, MessageAlone
<1>4. Current(t)' = Current(t) /\ \A u \in Txs \ {t} : tx'[u] = tx[u]
  BY DEF OnForceEnd, Current, DInv, IInv, TypeOK, Document
<1>5. Elsewhere(t)
  BY <1>1, <1>2, <1>4 DEF Elsewhere, Receive, DInv, IInv, TypeOK
<1>6. Books(t)'
  BY <1>2, <1>3, <1>4 DEF Books, StepsOf
<1> QED
  BY <1>1, <1>2, <1>3, <1>5, <1>6, UsedUp

LEMMA OnErrorAnnouncedDriven ==
  ASSUME DInv, Legal, NEW t \in Txs \ upset, OnErrorAnnounced(t)
  PROVE  DInv'
<1> DEFINE m == Msg("STEP_ERROR", t, 0)
<1>1. m \in Message /\ m.tx = t /\ m.type = "STEP_ERROR" /\ m.step = 0 /\ m.type \notin Ends
  BY ZeroFacts, MsgFacts DEF MessageType, Ends
<1>2. Receive(m) /\ InFlight(m) /\ UNCHANGED <<tx, run, poll, results, credited, forced>>
  BY DEF OnErrorAnnounced, Receive, records, history
<1> HIDE DEF m
<1>3. MailHolds(m, t) /\ Books(t) /\ poll[t] = 0
  BY <1>1, <1>2, MessageAlone
<1>4. SameBooks(t) /\ \A u \in Txs \ {t} : popup'[u] = popup[u]
  BY <1>2 DEF SameBooks, OnErrorAnnounced, DInv, IInv, TypeOK
<1>5. Elsewhere(t)
  BY <1>1, <1>2, <1>4 DEF Elsewhere, Receive, DInv, IInv, TypeOK
<1>6. PopupHolds(t)' /\ Books(t)'
  BY <1>1, <1>3, <1>4, SameFacts, SameNothing DEF MailHolds, PopupHolds
<1> QED
  BY <1>1, <1>2, <1>3, <1>5, <1>6, UsedUp

\* What handleStepFail leaves of the transaction.
LEMMA FailedStep ==
  ASSUME DInv, NEW t \in Txs, FailStep(t, Current(t)), Unsettled(t), Books(t),
         UNCHANGED <<results, credited, forced>>
  PROVE  /\ Current(t)' = Current(t) /\ Running(t)' /\ Unsettled(t)' /\ Corrected(t)' /\ Books(t)'
         /\ \A u \in Txs \ {t} : tx'[u] = tx[u]
<1>1. tx \in [Txs -> Document]
  BY DEF DInv, IInv, TypeOK
<1>2. /\ tx'[t].status = "AWAITING_CORRECTION" /\ tx'[t].lastError = Current(t)
      /\ tx'[t].currentStepId = tx[t].currentStepId /\ \A u \in Txs \ {t} : tx'[u] = tx[u]
  BY <1>1 DEF FailStep, Document
<1>3. Current(t)' = Current(t) /\ Running(t)' /\ Unsettled(t)' /\ Corrected(t)'
  BY <1>2 DEF Current, Running, Terminal, Unsettled, Corrected
<1> QED
  BY <1>2, <1>3 DEF Books, StepsOf

LEMMA OnStepErrorDriven ==
  ASSUME DInv, Legal, NEW t \in Txs \ upset, NEW s \in StepsOf(t), OnStepError(t, s)
  PROVE  DInv'
<1> DEFINE m == Msg("STEP_ERROR", t, s)
           n == Msg("STEP_ERROR", t, 0)
<1>1. /\ m \in Message /\ m.tx = t /\ m.type = "STEP_ERROR" /\ m.step = s /\ s # 0
      /\ n \in Message /\ n.tx = t /\ n.type = "STEP_ERROR" /\ n.step = 0
  BY ZeroFacts, StepFacts, MsgFacts DEF MessageType
<1>2. /\ ReceiveAndSend(m, n) /\ InFlight(m) /\ FailStep(t, s)
      /\ UNCHANGED <<run, poll, popup, results, credited, forced>>
  BY DEF OnStepError, ReceiveAndSend, records, history
<1> HIDE DEF m, n
<1>3. m.type \notin Ends \cup {"BIN_CLOSED"} /\ n.type \notin Ends /\ m # n
  BY <1>1 DEF Ends
<1>4. MailHolds(m, t) /\ Books(t)
  BY <1>1, <1>2, <1>3, MessageAlone
<1>5. s = Current(t) /\ Unsettled(t)
  BY <1>1, <1>4 DEF MailHolds
<1>6. /\ Running(t)' /\ Unsettled(t)' /\ Corrected(t)' /\ Books(t)'
      /\ \A u \in Txs \ {t} : tx'[u] = tx[u]
  BY <1>2, <1>4, <1>5, FailedStep
<1>7. MailHolds(n, t)'
  BY <1>1, <1>6 DEF MailHolds
<1>8. Elsewhere(t)
  <2>1. net \in [Message -> Nat] /\ net' = [net EXCEPT ![m] = net[m] - 1, ![n] = net[n] + 1]
    BY <1>2 DEF ReceiveAndSend, DInv, IInv, TypeOK
  <2>2. \A x \in Message : x.tx # t => net'[x] = net[x]
    BY <1>1, <2>1
  <2> QED
    BY <1>2, <1>6, <2>2 DEF Elsewhere
<1> QED
  BY <1>1, <1>2, <1>3, <1>6, <1>7, <1>8, PassesOn
-----------------------------------------------------------------------------
(* A transaction starts; a cycle of the loop starts                        *)

LEMMA CreateAndStartDriven ==
  ASSUME DInv, Legal, NEW t \in Txs \ upset, CreateAndStart(t)
  PROVE  DInv'
<1> DEFINE m == Msg("START", t, 0)
<1>1. m \in Message /\ m.tx = t /\ m.type = "START" /\ m.step = 0 /\ m.type \notin Ends
      /\ m.type \notin Forces
  BY ZeroFacts, MsgFacts DEF MessageType, Ends, Forces
<1>2. Send(m) /\ UNCHANGED <<run, poll, popup, results, credited, forced>>
  BY DEF CreateAndStart, records, history
<1> HIDE DEF m
<1>3. ~Created(t) /\ Current(t) = 0 /\ Driven(t)
  BY DEF CreateAndStart, Created, Current, DInv, IInv, DocumentInv
<1>4. Still(t)
  <2>1. ASSUME NEW g \in Handlers PROVE run[g].tx # t
    <3>1. run[g].pc = "idle" => run[g].tx = NoTx
      BY DEF DInv, IdleSlots, Idle
    <3>2. FrameOK(run[g])
      BY DEF DInv, IInv, FrameInv
    <3> QED
      BY <1>3, <3>1, <3>2, ParameterAssumption DEF FrameOK
  <2>2. ASSUME NEW n \in Message, n.tx = t PROVE net[n] = 0
    <3>1. ~InFlight(n)
      BY <1>3, <2>2 DEF DInv, IInv, MessageInv, MessageOK
    <3> QED
      BY <3>1 DEF DInv, IInv, TypeOK, InFlight
  <2> QED
    BY <2>1, <2>2 DEF Still
<1>5. ~popup[t] /\ poll[t] = 0
  <2>1. ~Corrected(t)
    BY <1>3 DEF Corrected, Created
  <2> QED
    BY <1>3, <2>1 DEF Driven, DriverHolds, PopupHolds, DInv, IInv, PollInv
<1>6. tx \in [Txs -> Document]
  BY DEF DInv, IInv, TypeOK
<1>7. Current(t)' = 1 /\ Running(t)' /\ \A u \in Txs \ {t} : tx'[u] = tx[u]
  BY <1>6 DEF CreateAndStart, Current, Running, Terminal, FirstStep, Document
<1>8. \A s \in StepsOf(t) : results[t][s] = 0 /\ credited[t][s] = 0 /\ s \notin forced[t]
  <2>1. \A s \in StepsOf(t) : s > Current(t)
    BY <1>3, StepFacts
  <2> QED
    BY <1>3, <2>1 DEF Driven, Books
<1>9. 1 \in StepsOf(t)
  BY PlanAssumption DEF StepsOf
<1>10. Books(t)'
  BY <1>2, <1>8 DEF Books, StepsOf
<1>11. MailHolds(m, t)'
  BY <1>1, <1>2, <1>7, <1>8, <1>9 DEF MailHolds, Unsettled, Untouched
<1>12. Elsewhere(t)
  BY <1>1, <1>2, <1>7 DEF Elsewhere, Send, DInv, IInv, TypeOK
<1> QED
  BY <1>1, <1>2, <1>4, <1>5, <1>10, <1>11, <1>12, Appears

\* A cycle starts when the previous one has ended and its message was handled.
LEMMA PollTickDriven ==
  ASSUME DInv, Legal, NEW h \in Handlers, NEW t \in Txs, t \notin upset', PollTick(h, t)
  PROVE  DInv'
<1>1. /\ IsIdle(h) /\ poll[t] # 0 /\ ~Watched(t)
      /\ UNCHANGED <<tx, poll, popup, results, credited, forced, net>>
  BY DEF PollTick, Upsets, records, history
<1>2. Driven(t) /\ WatchHolds(t)
  BY <1>1 DEF DInv, Legal, Driven, DriverHolds
<1>3. \A g \in Handlers : run[g].tx # t
  BY <1>1, <1>2 DEF Driven, Exclusive, Watched, Polling
<1>4. Mail(t) = {}
  <2> SUFFICES ASSUME NEW m \in Mail(t) PROVE FALSE
    OBVIOUS
  <2>1. m \in Message /\ m.tx = t /\ m.type = "BIN_CLOSED" /\ InFlight(m)
    BY <1>1, <1>2 DEF Driven, Exclusive, Mail
  <2>2. m = Msg("BIN_CLOSED", t, m.step) /\ m.step \in StepIds
    BY <2>1 DEF Message, Msg
  <2> QED
    BY <1>1, <2>1, <2>2 DEF Watched
<1>5. PICK s \in StepIds : s = poll[t] /\ s = Current(t)
  BY <1>2 DEF WatchHolds, DInv, IInv, TypeOK
<1>6. NoDocument \in Document
  BY ZeroFacts DEF NoDocument, Document, Status
<1>7. PICK f \in Frame : f = Begin("poll", t, s, NoDocument)
  BY <1>6, BeginFrame DEF Pc
<1>8. f.pc = "poll" /\ f.tx = t /\ f.step = s /\ ~f.isForced
  BY <1>7 DEF Begin, Idle
<1>9. run' = [run EXCEPT ![h] = f]
  BY <1>5, <1>7 DEF PollTick
<1>10. \A u \in Txs \ {t} : Same(u)
  BY <1>1, <1>8, <1>9, IdleFacts, ElsewhereSame DEF Elsewhere, DInv
<1>11. IdleSlots'
  BY <1>8, <1>9, SlotFacts
<1>12. SameBooks(t)
  BY <1>1 DEF SameBooks
<1>13. WatchHolds(t)' /\ FrameHolds(f, t)' /\ Books(t)'
  BY <1>1, <1>2, <1>5, <1>8, <1>12, SameFacts, SameNothing
     DEF WatchHolds, FrameHolds, Polling, Driven
<1>14. run'[h] = f /\ \A g \in Handlers : run'[g].tx = t => g = h
  BY <1>3, <1>9 DEF DInv, IInv, TypeOK
<1>15. Mail(t)' = {} /\ ~popup'[t]
  BY <1>1, <1>2, <1>4 DEF Mail, InFlight, Driven, Exclusive
<1>16. Exclusive(t)'
  BY <1>1, <1>2, <1>8, <1>14, <1>15 DEF Driven, Exclusive, Polling
<1>17. DriverHolds(t)'
  <2>1. \A n \in Message : n.tx = t /\ n.type \in Ends /\ InFlight(n)' => ~Running(t)'
    BY <1>1, <1>2, <1>12, SameFacts DEF Driven, DriverHolds, InFlight
  <2> QED
    BY <1>13, <1>14, <1>15, <2>1 DEF DriverHolds
<1> QED
  BY <1>10, <1>11, <1>13, <1>16, <1>17, OneTransaction DEF Driven
-----------------------------------------------------------------------------
(* The steps of a handler                                                  *)

\* A handler at work, and the transaction that it alone drives.
LEMMA WorkFacts ==
  ASSUME DInv, NEW h \in Handlers, run[h].tx \notin upset, NEW pc \in Pc \ {"idle"}, At(h, pc)
  PROVE  LET t == run[h].tx
         IN  /\ run[h] \in Frame /\ run[h].pc = pc /\ t \in Txs /\ tx[t] \in Document
             /\ FrameHolds(run[h], t) /\ Running(t) /\ Books(t) /\ Mail(t) = {} /\ ~popup[t]
             /\ pc \notin Polling => poll[t] = 0 /\ run[h].entity = tx[t]
             /\ pc \notin {"start", "execute"} => run[h].step = Current(t)
             /\ pc \notin {"history", "advance"} => Untouched(t)
             /\ poll[t] # 0 => WatchHolds(t)
             /\ Current(t) \in StepsOf(t) /\ Current(t) \in StepIds /\ Current(t) # 0
<1>1. run[h] \in Frame /\ run[h].pc = pc /\ run[h].tx \in Txs /\ tx[run[h].tx] \in Document
      /\ EntityOK(run[h].tx, tx[run[h].tx])
  BY AtFacts DEF DInv
<1>2. PICK t \in Txs : t = run[h].tx
  BY <1>1
<1>3. /\ FrameHolds(run[h], t) /\ Running(t) /\ Books(t) /\ Mail(t) = {} /\ ~popup[t]
      /\ poll[t] # 0 => pc \in Polling /\ WatchHolds(t)
  BY <1>1, <1>2, HandlerAlone
<1>4. Current(t) \in StepsOf(t) /\ Current(t) \in StepIds /\ Current(t) # 0
  BY <1>1, <1>2, StepFacts DEF EntityOK, Reached, Current
<1>5. /\ pc \notin Polling => run[h].entity = tx[t]
      /\ pc \notin {"start", "execute"} => run[h].step = Current(t)
      /\ pc \notin {"history", "advance"} => Untouched(t)
  BY <1>1, <1>3 DEF FrameHolds
<1> QED
  BY <1>1, <1>2, <1>3, <1>4, <1>5

\* A flush of a fresh entity leaves the entity.
LEMMA FreshFlush ==
  ASSUME NEW stored \in Document, NEW entity \in Document
  PROVE  Flush(stored, entity, stored) = entity
BY DEF Flush, Changed, Document

LEMMA BeginProcessingDriven ==
  ASSUME DInv, Legal, NEW h \in Handlers, run[h].tx \notin upset, BeginProcessing(h)
  PROVE  DInv'
<1>1. PICK g \in Frame, t \in Txs, d \in Document :
        /\ g = run[h] /\ g.pc = "start" /\ t = g.tx /\ d = tx[t] /\ g.entity = d
        /\ FrameHolds(g, t) /\ Running(t) /\ Books(t) /\ Untouched(t) /\ poll[t] = 0
  BY WorkFacts DEF BeginProcessing, Pc, Polling
<1> DEFINE e == [d EXCEPT !.status = "PROCESSING"]
           f == [g EXCEPT !.pc = "execute", !.entity = e]
<1>2. e \in Document /\ e.status = "PROCESSING" /\ e.currentStepId = d.currentStepId
  BY DEF Document, Status
<1>3. f \in Frame /\ f.pc = "execute" /\ f.tx = t /\ f.entity = e /\ f.isForced = g.isForced
  BY <1>1, <1>2 DEF Frame, Pc
<1>4. tx' = [tx EXCEPT ![t] = Flush(d, e, d)] /\ run' = [run EXCEPT ![h] = f]
      /\ UNCHANGED <<net, poll, popup, results, credited, forced>>
  BY <1>1 DEF BeginProcessing, DInv, IInv, TypeOK, records, history
<1>5. tx' = [tx EXCEPT ![t] = e]
  BY <1>2, <1>4, FreshFlush
<1> HIDE DEF e, f
<1>6. tx'[t] = e /\ \A u \in Txs \ {t} : tx'[u] = tx[u]
  BY <1>5 DEF DInv, IInv, TypeOK
<1>7. Current(t)' = Current(t) /\ Running(t)' /\ Untouched(t)'
  BY <1>1, <1>2, <1>4, <1>6 DEF Current, Running, Terminal, Untouched, Unsettled
<1>8. Elsewhere(t)
  BY <1>4, <1>6 DEF Elsewhere
<1>9. FrameHolds(f, t)'
  BY <1>1, <1>3, <1>6, <1>7 DEF FrameHolds
<1>10. Books(t)'
  BY <1>1, <1>4, <1>7 DEF Books, StepsOf
<1> QED
  BY <1>1, <1>3, <1>4, <1>8, <1>9, <1>10, GoesOn DEF Polling

\* A handler goes on with the same step and writes nothing that drives a transaction.
LEMMA StaysOnStep ==
  ASSUME DInv, Legal, NEW h \in Handlers, NEW g \in Frame, g = run[h], g.tx \in Txs \ upset,
         NEW f \in Frame, f.tx = g.tx, f.isForced = g.isForced,
         FrameHolds(f, g.tx), f.pc # "idle", g.pc \in Polling => f.pc \in Polling,
         run' = [run EXCEPT ![h] = f],
         UNCHANGED <<tx, net, poll, popup, results, credited, forced>>
  PROVE  DInv'
<1>1. PICK t \in Txs : t = g.tx
  OBVIOUS
<1>2. Elsewhere(t) /\ SameBooks(t)
  BY DEF Elsewhere, SameBooks
<1>3. Books(t) /\ (poll[t] # 0 => WatchHolds(t))
  BY <1>1, HandlerAlone
<1>4. Books(t)' /\ (poll[t] # 0 => WatchHolds(t)')
  BY <1>2, <1>3, SameFacts, SameNothing DEF WatchHolds
<1>5. FrameHolds(f, t)'
  BY <1>1, <1>2, SameFacts DEF FrameHolds, SameBooks
<1> QED
  BY <1>1, <1>2, <1>4, <1>5, GoesOn

LEMMA LockOpensDriven ==
  ASSUME DInv, Legal, NEW h \in Handlers, run[h].tx \notin upset, LockOpens(h)
  PROVE  DInv'
<1>1. PICK g \in Frame : g = run[h] /\ g.pc = "open" /\ g.tx \in Txs /\ FrameHolds(g, g.tx)
  BY WorkFacts DEF LockOpens, Pc
<1> DEFINE b == BinOf(g.tx, g.step)
           state == [g.bin EXCEPT !.isLocked = FALSE, !.attempted = FALSE]
           f == [g EXCEPT !.bin = state, !.pc = AfterOpening]
<1>2. state \in BinState /\ AfterOpening \in {"trigger", "announce"}
  BY DEF Frame, BinState, AfterOpening
<1>3. f \in Frame /\ f.pc \in {"trigger", "announce"} /\ f.tx = g.tx /\ f.step = g.step
      /\ f.entity = g.entity /\ f.isForced = g.isForced
  BY <1>2 DEF Frame, Pc
<1>4. run' = [run EXCEPT ![h] = f] /\ UNCHANGED <<tx, net, poll, popup, results, credited, forced>>
  BY <1>1 DEF LockOpens, records
<1> HIDE DEF f
<1>5. FrameHolds(f, g.tx)
  BY <1>1, <1>3 DEF FrameHolds, Polling
<1> QED
  BY <1>1, <1>3, <1>4, <1>5, StaysOnStep DEF Polling

LEMMA LockFailsDriven ==
  ASSUME DInv, Legal, NEW h \in Handlers, run[h].tx \notin upset, LockFails(h)
  PROVE  DInv'
<1>1. PICK g \in Frame : g = run[h] /\ g.pc = "open" /\ g.tx \in Txs /\ FrameHolds(g, g.tx)
  BY WorkFacts DEF LockFails, Pc
<1> DEFINE state == [g.bin EXCEPT !.attempted = TRUE]
           n == IF g.attempt < MaxAttempts THEN g.attempt + 1 ELSE g.attempt
           f == [g EXCEPT !.bin = state, !.attempt = n, !.pc = AfterFailure(g.attempt)]
<1>2. state \in BinState /\ AfterFailure(g.attempt) \in {"open", "giveUp"}
  BY DEF Frame, BinState, AfterFailure
<1>3. n \in Nat
  BY DEF Frame
<1>4. f \in Frame /\ f.pc \in {"open", "giveUp"} /\ f.tx = g.tx /\ f.step = g.step
      /\ f.entity = g.entity /\ f.isForced = g.isForced
  <2> HIDE DEF n, state
  <2> QED
    BY <1>2, <1>3 DEF Frame, Pc
<1>5. run' = [run EXCEPT ![h] = f] /\ UNCHANGED <<tx, net, poll, popup, results, credited, forced>>
  BY <1>1 DEF LockFails, records, history
<1> HIDE DEF f
<1>6. FrameHolds(f, g.tx)
  BY <1>1, <1>4 DEF FrameHolds, Polling
<1> QED
  BY <1>1, <1>4, <1>5, <1>6, StaysOnStep DEF Polling

LEMMA GiveUpDriven ==
  ASSUME DInv, Legal, NEW h \in Handlers, run[h].tx \notin upset, GiveUp(h)
  PROVE  DInv'
<1>1. PICK g \in Frame : g = run[h] /\ g.pc = "giveUp" /\ g.tx \in Txs /\ FrameHolds(g, g.tx)
  BY WorkFacts DEF GiveUp, Pc
<1> DEFINE state == [g.bin EXCEPT !.isFailed = TRUE]
           f == [g EXCEPT !.pc = "stepFail", !.bin = state]
<1>2. state \in BinState
  BY DEF Frame, BinState
<1>3. f \in Frame /\ f.pc = "stepFail" /\ f.tx = g.tx /\ f.step = g.step /\ f.entity = g.entity
      /\ f.isForced = g.isForced
  BY <1>2 DEF Frame, Pc
<1>4. run' = [run EXCEPT ![h] = f] /\ UNCHANGED <<tx, net, poll, popup, results, credited, forced>>
  BY <1>1 DEF GiveUp, records, history
<1> HIDE DEF f
<1>5. FrameHolds(f, g.tx)
  BY <1>1, <1>3 DEF FrameHolds, Polling
<1> QED
  BY <1>1, <1>3, <1>4, <1>5, StaysOnStep DEF Polling

\* The steps that only move the program counter.
LEMMA GotoDriven ==
  ASSUME DInv, Legal, NEW h \in Handlers, run[h].tx \notin upset, TriggerReading(h) \/ PollSeesClosed(h) \/ PollSeesNoStatus(h)
  PROVE  DInv'
<1>1. PICK pc \in {"trigger", "poll"}, to \in {"announce", "closed"} :
        /\ At(h, pc) /\ Goto(h, to) /\ (pc \in Polling <=> to \in Polling)
        /\ UNCHANGED <<tx, net, poll, popup, results, credited, forced>>
  BY DEF TriggerReading, PollSeesClosed, PollSeesNoStatus, records, history, Polling
<1>2. PICK g \in Frame : g = run[h] /\ g.pc = pc /\ g.tx \in Txs /\ FrameHolds(g, g.tx)
  BY <1>1, WorkFacts DEF Pc
<1> DEFINE f == [g EXCEPT !.pc = to]
<1>3. f \in Frame /\ f.pc = to /\ f.tx = g.tx /\ f.step = g.step /\ f.entity = g.entity
      /\ f.isForced = g.isForced
  BY <1>2 DEF Frame, Pc
<1>4. run' = [run EXCEPT ![h] = f]
  BY <1>1, <1>2 DEF Goto
<1> HIDE DEF f
<1>5. FrameHolds(f, g.tx)
  BY <1>1, <1>2, <1>3 DEF FrameHolds, Polling
<1> QED
  BY <1>1, <1>2, <1>3, <1>4, <1>5, StaysOnStep DEF Polling

\* The entity is fresh: the step that is executed is the transaction's.
LEMMA ExecuteStepDriven ==
  ASSUME DInv, Legal, NEW h \in Handlers, run[h].tx \notin upset, ExecuteStep(h)
  PROVE  DInv'
<1>1. PICK g \in Frame, t \in Txs : /\ g = run[h] /\ g.pc = "execute" /\ t = g.tx /\ FrameHolds(g, t)
                                    /\ g.entity = tx[t] /\ Current(t) \in StepsOf(t)
                                    /\ Current(t) \in StepIds /\ Untouched(t)
  BY WorkFacts DEF ExecuteStep, Pc, Polling
<1> DEFINE s == Current(t)
           enter(pc) == [g EXCEPT !.pc = pc, !.step = s]
<1>2. BinOf(t, s) \in Bins /\ bins[BinOf(t, s)] \in BinState
  BY <1>1, StepFacts DEF DInv, IInv, TypeOK
<1>3. PICK b \in BinState : b = bins[BinOf(t, s)]
  BY <1>2
<1>4. /\ UNCHANGED <<tx, net, poll, popup, results, credited, forced>>
      /\ \/ run' = [run EXCEPT ![h] = enter("history")]
         \/ run' = [run EXCEPT ![h] = [enter("open") EXCEPT !.bin = b, !.attempt = 1]]
  BY <1>1, <1>3 DEF ExecuteStep, SkipFailedBin, records, Current
<1>5. PICK f \in Frame : /\ f.tx = t /\ f.step = s /\ f.entity = tx[t] /\ f.isForced = g.isForced
                         /\ f.pc \in {"history", "open"} /\ run' = [run EXCEPT ![h] = f]
  <2>1. CASE run' = [run EXCEPT ![h] = enter("history")]
    <3>1. enter("history") \in Frame /\ enter("history").tx = t /\ enter("history").step = s
          /\ enter("history").entity = tx[t] /\ enter("history").isForced = g.isForced
          /\ enter("history").pc = "history"
      BY <1>1 DEF Frame, Pc
    <3> QED
      BY <2>1, <3>1
  <2>2. CASE run' = [run EXCEPT ![h] = [enter("open") EXCEPT !.bin = b, !.attempt = 1]]
    <3> DEFINE f == [enter("open") EXCEPT !.bin = b, !.attempt = 1]
    <3>1. f \in Frame /\ f.tx = t /\ f.step = s /\ f.entity = tx[t] /\ f.isForced = g.isForced
          /\ f.pc = "open"
      BY <1>1 DEF Frame, Pc
    <3> HIDE DEF f
    <3> QED
      BY <2>2, <3>1 DEF f
  <2> QED
    BY <1>4, <2>1, <2>2
<1>6. FrameHolds(f, t)
  BY <1>1, <1>5 DEF FrameHolds, Untouched
<1>7. /\ f.pc # "idle" /\ g.pc \notin Polling
      /\ g \in Frame /\ g = run[h] /\ g.tx \in Txs /\ f.tx = g.tx /\ f.isForced = g.isForced
  BY <1>1, <1>5 DEF Polling
<1>8. FrameHolds(f, g.tx)
  BY <1>1, <1>6
<1> HIDE DEF s, enter
<1> QED
  BY <1>4, <1>5, <1>7, <1>8, StaysOnStep

\* The cycle ends; the loop goes on.
LEMMA PollSeesNothingDriven ==
  ASSUME DInv, Legal, NEW h \in Handlers, run[h].tx \notin upset, PollSeesNothing(h)
  PROVE  DInv'
<1>1. PICK t \in Txs : t = run[h].tx /\ Books(t) /\ (poll[t] # 0 => WatchHolds(t))
  BY WorkFacts DEF PollSeesNothing, Pc
<1>2. End(h) /\ UNCHANGED <<tx, net, poll, popup, results, credited, forced>>
  BY DEF PollSeesNothing, records, history
<1>3. Elsewhere(t) /\ SameBooks(t)
  BY <1>2 DEF Elsewhere, SameBooks
<1>4. Books(t)' /\ (poll'[t] # 0 => WatchHolds(t)')
  BY <1>1, <1>2, <1>3, SameFacts, SameNothing DEF WatchHolds
<1> QED
  BY <1>1, <1>2, <1>3, <1>4, Stops

\* The loop watches the current step, which was not checked yet.
LEMMA ArmPollingDriven ==
  ASSUME DInv, Legal, NEW h \in Handlers, run[h].tx \notin upset, ArmPolling(h)
  PROVE  DInv'
<1>1. PICK t \in Txs : /\ t = run[h].tx /\ Books(t) /\ Running(t) /\ Untouched(t)
                       /\ run[h].step = Current(t) /\ run[h].entity = tx[t]
  BY WorkFacts DEF ArmPolling, Pc, Polling
<1>2. End(h) /\ UNCHANGED <<tx, net, popup, results, credited, forced>>
      /\ poll' = [poll EXCEPT ![t] = Current(t)]
  BY <1>1 DEF ArmPolling, IsCurrent, Current, records, history
<1>3. poll'[t] = Current(t) /\ \A u \in Txs \ {t} : poll'[u] = poll[u]
  BY <1>2 DEF DInv, IInv, TypeOK
<1>4. Elsewhere(t) /\ SameBooks(t)
  BY <1>2, <1>3 DEF Elsewhere, SameBooks
<1>5. Books(t)' /\ WatchHolds(t)'
  BY <1>1, <1>3, <1>4, SameFacts, SameNothing DEF WatchHolds
<1> QED
  BY <1>1, <1>2, <1>4, <1>5, Stops

LEMMA AnnounceOpenedDriven ==
  ASSUME DInv, Legal, NEW h \in Handlers, run[h].tx \notin upset, AnnounceOpened(h)
  PROVE  DInv'
<1>1. PICK t \in Txs, s \in StepIds :
        /\ t = run[h].tx /\ s = run[h].step /\ Books(t) /\ Running(t) /\ Untouched(t)
        /\ s = Current(t) /\ poll[t] = 0
  BY WorkFacts DEF AnnounceOpened, Pc, Polling
<1> DEFINE m == Msg("BIN_OPENED", t, s)
<1>2. m \in Message /\ m.tx = t /\ m.type = "BIN_OPENED" /\ m.step = s /\ m.type \notin Ends \cup Forces
  BY MsgFacts DEF MessageType, Ends, Forces
<1>3. Send(m) /\ End(h) /\ UNCHANGED <<tx, poll, popup, results, credited, forced>>
  BY <1>1 DEF AnnounceOpened, records, history
<1> HIDE DEF m
<1>4. Elsewhere(t) /\ SameBooks(t)
  BY <1>2, <1>3 DEF Elsewhere, SameBooks, Send, DInv, IInv, TypeOK
<1>5. Books(t)' /\ MailHolds(m, t)'
  BY <1>1, <1>2, <1>4, SameFacts, SameNothing DEF MailHolds, Untouched
<1> QED
  BY <1>1, <1>2, <1>3, <1>4, <1>5, HandsOver

LEMMA AnnounceClosedDriven ==
  ASSUME DInv, Legal, NEW h \in Handlers, run[h].tx \notin upset, AnnounceClosed(h)
  PROVE  DInv'
<1>1. PICK t \in Txs, s \in StepIds :
        /\ t = run[h].tx /\ s = run[h].step /\ Books(t) /\ Running(t) /\ Untouched(t)
        /\ s = Current(t) /\ (poll[t] # 0 => WatchHolds(t))
  BY WorkFacts DEF AnnounceClosed, Pc
<1> DEFINE m == Msg("BIN_CLOSED", t, s)
<1>2. m \in Message /\ m.tx = t /\ m.type = "BIN_CLOSED" /\ m.step = s /\ m.type \notin Ends \cup Forces
  BY MsgFacts DEF MessageType, Ends, Forces
<1>3. Send(m) /\ End(h) /\ UNCHANGED <<tx, poll, popup, results, credited, forced>>
  BY <1>1 DEF AnnounceClosed, records, history
<1> HIDE DEF m
<1>4. Elsewhere(t) /\ SameBooks(t)
  BY <1>2, <1>3 DEF Elsewhere, SameBooks, Send, DInv, IInv, TypeOK
<1>5. Books(t)' /\ MailHolds(m, t)'
  BY <1>1, <1>2, <1>4, SameFacts, SameNothing DEF MailHolds, Untouched
<1>6. poll'[t] # 0 => m.type = "BIN_CLOSED" /\ WatchHolds(t)'
  BY <1>1, <1>2, <1>3, <1>4, SameFacts DEF WatchHolds
<1> QED
  BY <1>1, <1>2, <1>3, <1>4, <1>5, <1>6, HandsOver

LEMMA ReportOpenFailureDriven ==
  ASSUME DInv, Legal, NEW h \in Handlers, run[h].tx \notin upset, ReportOpenFailure(h)
  PROVE  DInv'
<1>1. PICK t \in Txs : /\ t = run[h].tx /\ Books(t) /\ Running(t) /\ Untouched(t)
                       /\ run[h].entity = tx[t] /\ poll[t] = 0
  BY WorkFacts DEF ReportOpenFailure, Pc, Polling
<1> DEFINE m == Msg("STEP_ERROR", t, 0)
<1>2. m \in Message /\ m.tx = t /\ m.type = "STEP_ERROR" /\ m.step = 0 /\ m.type \notin Ends
  BY ZeroFacts, MsgFacts DEF MessageType, Ends
<1>3. /\ Send(m) /\ End(h) /\ FailStep(t, Current(t))
      /\ UNCHANGED <<poll, popup, results, credited, forced>>
  BY <1>1 DEF ReportOpenFailure, Current, records, history
<1> HIDE DEF m
<1>4. /\ Running(t)' /\ Unsettled(t)' /\ Corrected(t)' /\ Books(t)'
      /\ \A u \in Txs \ {t} : tx'[u] = tx[u]
  BY <1>1, <1>3, FailedStep DEF Untouched
<1>5. Elsewhere(t)
  BY <1>2, <1>3, <1>4 DEF Elsewhere, Send, DInv, IInv, TypeOK
<1>6. MailHolds(m, t)'
  BY <1>2, <1>4 DEF MailHolds
<1> QED
  BY <1>1, <1>2, <1>3, <1>4, <1>5, <1>6, HandsOver

\* The first check of the current step is recorded.
LEMMA CheckQuantitiesDriven ==
  ASSUME DInv, Legal, NEW h \in Handlers, run[h].tx \notin upset, CheckQuantities(h)
  PROVE  DInv'
<1>1. PICK t \in Txs, s \in StepIds :
        /\ t = run[h].tx /\ s = run[h].step /\ Books(t) /\ Running(t) /\ Untouched(t)
        /\ s = Current(t) /\ s \in StepsOf(t) /\ poll[t] = 0 /\ run[h].entity = tx[t]
  BY WorkFacts DEF CheckQuantities, Pc, Polling
<1>2. PICK type \in {"STEP_SUCCESS", "STEP_ERROR"} :
        /\ results' = [results EXCEPT ![t][s] = @ + 1] /\ Send(Msg(type, t, s)) /\ End(h)
        /\ UNCHANGED <<tx, poll, popup, credited, forced>>
  BY <1>1 DEF CheckQuantities, IsCurrent, Current, history
<1> DEFINE m == Msg(type, t, s)
<1>3. m \in Message /\ m.tx = t /\ m.type = type /\ m.step = s /\ m.type \notin Ends \cup Forces
  BY MsgFacts DEF MessageType, Ends, Forces
<1>4. Send(m)
  BY <1>2
<1> HIDE DEF m
<1>5. /\ results'[t][s] = 1 /\ \A r \in StepIds \ {s} : results'[t][r] = results[t][r]
      /\ \A u \in Txs \ {t} : results'[u] = results[u]
  BY <1>1, <1>2 DEF Untouched, DInv, IInv, TypeOK
<1>6. Current(t)' = Current(t) /\ Running(t)' /\ Unsettled(t)'
  BY <1>1, <1>2 DEF Current, Running, Untouched, Unsettled
<1>7. Books(t)'
  <2> SUFFICES ASSUME NEW r \in StepsOf(t)
               PROVE  /\ results'[t][r] <= 1 /\ credited[t][r] <= 1
                      /\ credited[t][r] > 0 => r \notin forced[t]
                      /\ r > s => results'[t][r] = 0 /\ credited[t][r] = 0 /\ r \notin forced[t]
    BY <1>1, <1>2, <1>6 DEF Books, StepsOf
  <2>1. /\ results[t][r] <= 1 /\ credited[t][r] <= 1
        /\ credited[t][r] > 0 => r \notin forced[t]
        /\ r > s => results[t][r] = 0 /\ credited[t][r] = 0 /\ r \notin forced[t]
    BY <1>1 DEF Books
  <2>2. r \in StepIds /\ r \in Nat /\ s \in Nat
    BY <1>1, StepFacts
  <2> QED
    BY <1>5, <2>1, <2>2
<1>8. Elsewhere(t)
  BY <1>2, <1>3, <1>4, <1>5 DEF Elsewhere, Send, DInv, IInv, TypeOK
<1>9. MailHolds(m, t)'
  BY <1>1, <1>3, <1>6, StepFacts DEF MailHolds
<1> QED
  BY <1>1, <1>2, <1>3, <1>4, <1>7, <1>8, <1>9, HandsOver

\* The history of the current step is processed once.
LEMMA RecordHistoryDriven ==
  ASSUME DInv, Legal, NEW h \in Handlers, run[h].tx \notin upset, RecordHistory(h)
  PROVE  DInv'
<1>1. PICK g \in Frame, t \in Txs, s \in StepIds :
        /\ g = run[h] /\ g.pc = "history" /\ t = g.tx /\ s = g.step /\ Books(t) /\ Running(t)
        /\ FrameHolds(g, t) /\ s = Current(t) /\ s \in StepsOf(t) /\ poll[t] = 0
  BY WorkFacts DEF RecordHistory, Pc, Polling
<1>2. UNCHANGED <<tx, net, poll, popup, results, forced>>
  BY DEF RecordHistory, history
<1>3. CASE End(h) /\ UNCHANGED credited
  <2>1. Elsewhere(t) /\ SameBooks(t)
    BY <1>2, <1>3 DEF Elsewhere, SameBooks
  <2>2. Books(t)'
    BY <1>1, <2>1, SameNothing
  <2> QED
    BY <1>1, <1>2, <1>3, <2>1, <2>2, Stops
<1>4. CASE credited' = [credited EXCEPT ![t][s] = @ + 1] /\ Goto(h, "advance")
  <2> DEFINE f == [g EXCEPT !.pc = "advance"]
  <2>1. /\ f \in Frame /\ f.pc = "advance" /\ f.tx = t /\ f.step = s
        /\ f.entity = g.entity /\ f.isForced = g.isForced
    BY <1>1 DEF Frame, Pc
  <2>2. run' = [run EXCEPT ![h] = f]
    BY <1>1, <1>4 DEF Goto
  <2> HIDE DEF f
  <2>3. credited[t][s] = 0 /\ s \notin forced[t] /\ ~g.isForced /\ g.entity = tx[t]
    BY <1>1 DEF FrameHolds, Unsettled, Polling
  <2>4. /\ credited'[t][s] = 1 /\ \A r \in StepIds \ {s} : credited'[t][r] = credited[t][r]
        /\ \A u \in Txs \ {t} : credited'[u] = credited[u]
    BY <1>1, <1>4, <2>3 DEF DInv, IInv, TypeOK
  <2>5. Current(t)' = s /\ Running(t)'
    BY <1>1, <1>2 DEF Current, Running
  <2>6. FrameHolds(f, t)'
    <3>1. ~f.isForced
      BY <2>1, <2>3
    <3> QED
      BY <1>1, <1>2, <2>1, <2>3, <2>4, <2>5, <3>1 DEF FrameHolds, Polling
  <2>7. Books(t)'
    <3> SUFFICES ASSUME NEW r \in StepsOf(t)
                 PROVE  /\ results[t][r] <= 1 /\ credited'[t][r] <= 1
                        /\ credited'[t][r] > 0 => r \notin forced[t]
                        /\ r > s => results[t][r] = 0 /\ credited'[t][r] = 0 /\ r \notin forced[t]
      BY <1>2, <2>5 DEF Books, StepsOf
    <3>1. /\ results[t][r] <= 1 /\ credited[t][r] <= 1
          /\ credited[t][r] > 0 => r \notin forced[t]
          /\ r > s => results[t][r] = 0 /\ credited[t][r] = 0 /\ r \notin forced[t]
      BY <1>1 DEF Books
    <3>2. r \in StepIds /\ r \in Nat /\ s \in Nat
      BY <1>1, StepFacts
    <3> QED
      BY <2>3, <2>4, <3>1, <3>2
  <2>8. Elsewhere(t)
    BY <1>2, <2>4 DEF Elsewhere
  <2> QED
    BY <1>1, <1>2, <2>1, <2>2, <2>6, <2>7, <2>8, GoesOn DEF Polling
<1> QED
  BY <1>1, <1>3, <1>4 DEF RecordHistory

\* After a settled step comes the next one, which nothing has touched, or the end.
LEMMA AdvanceDriven ==
  ASSUME DInv, Legal, NEW h \in Handlers, run[h].tx \notin upset, Advance(h)
  PROVE  DInv'
<1>1. PICK g \in Frame, t \in Txs, s \in StepIds, e \in Document :
        /\ g = run[h] /\ g.pc = "advance" /\ t = g.tx /\ s = g.step /\ Books(t) /\ Running(t)
        /\ s = Current(t) /\ s \in StepsOf(t) /\ poll[t] = 0 /\ e = tx[t] /\ g.entity = e
  BY WorkFacts DEF Advance, Pc, Polling
<1>2. UNCHANGED <<poll, popup, results, credited, forced>>
  BY DEF Advance, records, history
<1>3. CASE HasNext(t, s)
  <2> DEFINE d == [e EXCEPT !.currentStepId = NextStep(s)]
             f == [Idle EXCEPT !.pc = "execute", !.tx = t, !.entity = d]
  <2>1. NextStep(s) \in StepsOf(t) /\ NextStep(s) \in StepIds /\ NextStep(s) > s
    BY <1>1, <1>3, StepFacts DEF HasNext, NextStep
  <2>2. d \in Document /\ d.currentStepId = NextStep(s) /\ d.status = e.status
    BY <2>1 DEF Document
  <2>3. f \in Frame /\ f.pc = "execute" /\ f.tx = t /\ f.entity = d /\ f.isForced = FALSE
    BY <2>2, IdleFrame DEF Idle, Frame, Pc
  <2>4. tx' = [tx EXCEPT ![t] = Flush(e, d, e)] /\ run' = [run EXCEPT ![h] = f] /\ UNCHANGED net
    BY <1>1, <1>3 DEF Advance, CompletedStep, DInv, IInv, TypeOK
  <2>5. tx' = [tx EXCEPT ![t] = d]
    BY <2>2, <2>4, FreshFlush
  <2> HIDE DEF d, f
  <2>6. tx'[t] = d /\ \A u \in Txs \ {t} : tx'[u] = tx[u]
    BY <2>5 DEF DInv, IInv, TypeOK
  <2>7. Current(t)' = NextStep(s) /\ Running(t)'
    BY <1>1, <2>2, <2>6 DEF Current, Running
  <2>8. Untouched(t)'
    BY <1>1, <1>2, <2>1, <2>7 DEF Untouched, Unsettled, Books
  <2>9. Books(t)'
    <3> SUFFICES ASSUME NEW r \in StepsOf(t)
                 PROVE  /\ results[t][r] <= 1 /\ credited[t][r] <= 1
                        /\ credited[t][r] > 0 => r \notin forced[t]
                        /\ r > NextStep(s) => /\ results[t][r] = 0 /\ credited[t][r] = 0
                                              /\ r \notin forced[t]
      BY <1>2, <2>7 DEF Books, StepsOf
    <3>1. r \in Nat /\ s \in Nat /\ NextStep(s) \in Nat
      BY <1>1, <2>1, StepFacts
    <3>2. r > NextStep(s) => r > s
      BY <2>1, <3>1
    <3> QED
      BY <1>1, <3>2 DEF Books
  <2>10. FrameHolds(f, t)'
    BY <2>3, <2>6, <2>7, <2>8 DEF FrameHolds
  <2>11. Elsewhere(t)
    BY <1>2, <2>4, <2>6 DEF Elsewhere
  <2> QED
    BY <1>1, <1>2, <2>3, <2>4, <2>9, <2>10, <2>11, GoesOn DEF Polling
<1>4. CASE ~HasNext(t, s)
  <2> DEFINE d == [e EXCEPT !.status = FinalStatus(g.isForced)]
             m == Msg("TRANSACTION_COMPLETED", t, 0)
  <2>1. FinalStatus(g.isForced) \in Terminal \cap Status
    BY DEF FinalStatus, Terminal, Status
  <2>2. d \in Document /\ d.currentStepId = e.currentStepId /\ d.status \in Terminal
    BY <2>1 DEF Document
  <2>3. m \in Message /\ m.tx = t /\ m.type \in Ends
    BY ZeroFacts, MsgFacts DEF MessageType, Ends
  <2>4. tx' = [tx EXCEPT ![t] = Flush(e, d, e)] /\ Send(m) /\ End(h)
    BY <1>1, <1>4 DEF Advance, CompletedStep, DInv, IInv, TypeOK
  <2>5. tx' = [tx EXCEPT ![t] = d]
    BY <2>2, <2>4, FreshFlush
  <2> HIDE DEF d, m
  <2>6. tx'[t] = d /\ \A u \in Txs \ {t} : tx'[u] = tx[u]
    BY <2>5 DEF DInv, IInv, TypeOK
  <2>7. Current(t)' = Current(t) /\ ~Running(t)'
    BY <1>1, <2>2, <2>6 DEF Current, Running
  <2>8. Books(t)'
    BY <1>1, <1>2, <2>7 DEF Books, StepsOf
  <2>9. Elsewhere(t)
    BY <1>2, <2>3, <2>4, <2>6 DEF Elsewhere, Send, DInv, IInv, TypeOK
  <2> QED
    BY <1>1, <1>2, <2>3, <2>4, <2>7, <2>8, <2>9, HandsOver
<1> QED
  BY <1>3, <1>4
-----------------------------------------------------------------------------
(* What a step about one transaction leaves of the others, whether or not  *)
(* the transaction was upset                                               *)

Touches(t) == IdleSlots' /\ \A u \in Txs \ {t} : Same(u)

\* Slot h alone is written; its handler ends, or is one of transaction t.
WritesFrame(h, t) == /\ \A g \in Handlers \ {h} : run'[g] = run[g]
                     /\ run'[h] = Idle \/ (run'[h].tx = t /\ run'[h].pc # "idle")

LEMMA TouchFacts ==
  ASSUME DInv, Legal, NEW t \in Txs, Elsewhere(t),
         run' = run \/ \E h \in Handlers : run[h].tx \in {t, NoTx} /\ WritesFrame(h, t)
  PROVE  Touches(t)
<1>1. CASE run' = run
  BY <1>1 DEF Elsewhere, Same, DInv, IdleSlots, Touches
<1>2. ASSUME NEW h \in Handlers, run[h].tx \in {t, NoTx}, WritesFrame(h, t)
      PROVE  Touches(t)
  <2>1. Idle.tx = NoTx
    BY DEF Idle
  <2>2. ASSUME NEW g \in Handlers, run'[g].pc = "idle" PROVE run'[g] = Idle
    BY <1>2, <2>2 DEF DInv, IdleSlots, WritesFrame
  <2>3. ASSUME NEW u \in Txs \ {t}, NEW g \in Handlers, run[g].tx = u \/ run'[g].tx = u
        PROVE  run'[g] = run[g]
    BY <1>2, <2>1, <2>3, ParameterAssumption DEF WritesFrame
  <2> QED
    BY <2>2, <2>3 DEF Elsewhere, Same, IdleSlots, Touches
<1> QED
  BY <1>1, <1>2

\* The frame that a handler writes: it ends, or goes on with its transaction.
LEMMA HandlerFrame ==
  ASSUME DInv, Legal, NEW h \in Handlers, HandlerStep(h)
  PROVE  WritesFrame(h, run[h].tx)
<1>1. run \in [Handlers -> Frame] /\ run' \in [Handlers -> Frame]
  BY DEF DInv, IInv, Legal, TypeOK
<1>2. PICK f \in Frame : f = run[h]
  BY <1>1
<1>3. SUFFICES ASSUME f.pc # "idle"
               PROVE  WritesFrame(h, f.tx)
  <2>1. f.pc # "idle"
    BY <1>2 DEF HandlerStep, BeginProcessing, ExecuteStep, LockOpens, LockFails, GiveUp,
         ReportOpenFailure, TriggerReading, AnnounceOpened, ArmPolling, PollSeesClosed,
         PollSeesNoStatus, PollSeesNothing, AnnounceClosed, CheckQuantities, RecordHistory,
         Advance, At
  <2> QED
    BY <1>2, <2>1
<1>4. ASSUME End(h) PROVE WritesFrame(h, f.tx)
  BY <1>1, <1>4 DEF End, WritesFrame
<1>5. ASSUME NEW pc \in Pc \ {"idle"}, Goto(h, pc) PROVE WritesFrame(h, f.tx)
  BY <1>1, <1>2, <1>5 DEF Goto, WritesFrame, Frame
<1>6. CASE BeginProcessing(h)
  BY <1>1, <1>2, <1>6 DEF BeginProcessing, WritesFrame, Frame
<1>7. CASE ExecuteStep(h)
  <2>1. CASE f.entity.currentStepId \notin StepsOf(f.tx)
    BY <1>2, <1>4, <1>7, <2>1 DEF ExecuteStep, FailTransaction
  <2>2. CASE f.entity.currentStepId \in StepsOf(f.tx)
    <3> DEFINE s == f.entity.currentStepId
               skip == [f EXCEPT !.pc = "history", !.step = s]
               open == [[f EXCEPT !.pc = "open", !.step = s] EXCEPT
                          !.bin = bins[BinOf(f.tx, s)], !.attempt = 1]
    <3>1. skip.tx = f.tx /\ skip.pc # "idle" /\ open.tx = f.tx /\ open.pc # "idle"
      BY DEF Frame
    <3>2. run' = [run EXCEPT ![h] = skip] \/ run' = [run EXCEPT ![h] = open]
      BY <1>2, <1>7, <2>2 DEF ExecuteStep, SkipFailedBin
    <3> HIDE DEF skip, open
    <3> QED
      BY <1>1, <3>1, <3>2 DEF WritesFrame
  <2> QED
    BY <2>1, <2>2
<1>8. CASE LockOpens(h)
  BY <1>1, <1>2, <1>8 DEF LockOpens, AfterOpening, WritesFrame, Frame
<1>9. CASE LockFails(h)
  BY <1>1, <1>2, <1>9 DEF LockFails, AfterFailure, WritesFrame, Frame
<1>10. CASE GiveUp(h)
  BY <1>1, <1>2, <1>10 DEF GiveUp, WritesFrame, Frame
<1>11. CASE ReportOpenFailure(h)
  BY <1>2, <1>4, <1>5, <1>11 DEF ReportOpenFailure, Pc
<1>12. CASE TriggerReading(h)
  BY <1>2, <1>4, <1>5, <1>12 DEF TriggerReading, Pc
<1>13. CASE AnnounceOpened(h)
  BY <1>2, <1>4, <1>5, <1>13 DEF AnnounceOpened, Pc
<1>14. CASE ArmPolling(h)
  BY <1>2, <1>4, <1>5, <1>14 DEF ArmPolling, Pc
<1>15. CASE PollSeesClosed(h)
  BY <1>2, <1>4, <1>5, <1>15 DEF PollSeesClosed, Pc
<1>16. CASE PollSeesNoStatus(h)
  BY <1>2, <1>4, <1>5, <1>16 DEF PollSeesNoStatus, Pc
<1>17. CASE PollSeesNothing(h)
  BY <1>2, <1>4, <1>5, <1>17 DEF PollSeesNothing, Pc
<1>18. CASE AnnounceClosed(h)
  BY <1>2, <1>4, <1>5, <1>18 DEF AnnounceClosed, Pc
<1>19. CASE CheckQuantities(h)
  BY <1>2, <1>4, <1>5, <1>19 DEF CheckQuantities, Pc
<1>20. CASE RecordHistory(h)
  BY <1>2, <1>4, <1>5, <1>20 DEF RecordHistory, Pc
<1>21. CASE Advance(h)
  <2>1. CASE HasNext(f.tx, f.step)
    BY <1>1, <1>2, <1>21, <2>1 DEF Advance, CompletedStep, WritesFrame, Idle
  <2>2. CASE ~HasNext(f.tx, f.step)
    BY <1>2, <1>4, <1>21, <2>2 DEF Advance, CompletedStep
  <2> QED
    BY <2>1, <2>2
<1> QED
  BY <1>2, <1>6, <1>7, <1>8, <1>9, <1>10, <1>11, <1>12, <1>13, <1>14, <1>15, <1>16, <1>17, <1>18, <1>19, <1>20, <1>21 DEF HandlerStep

\* A handler writes no document, record, watch or message of another transaction.
LEMMA HandlerElsewhere ==
  ASSUME DInv, Legal, NEW h \in Handlers, HandlerStep(h)
  PROVE  Elsewhere(run[h].tx)
<1>1. PICK t : t = run[h].tx
  OBVIOUS
<1>2. /\ tx \in [Txs -> Document] /\ net \in [Message -> Nat] /\ poll \in [Txs -> StepIds]
      /\ results \in [Txs -> [StepIds -> Nat]] /\ credited \in [Txs -> [StepIds -> Nat]]
  BY DEF DInv, IInv, TypeOK
<1>3. ASSUME NEW type, NEW s, Send(Msg(type, t, s))
      PROVE  \A m \in Message : m.tx # t => net'[m] = net[m]
  BY <1>2, <1>3 DEF Send, Msg
<1>4. CASE BeginProcessing(h)
  BY <1>1, <1>2, <1>3, <1>4 DEF BeginProcessing, Elsewhere, records, history
<1>5. CASE ExecuteStep(h)
  BY <1>1, <1>2, <1>3, <1>5 DEF ExecuteStep, FailTransaction, Elsewhere, records, history
<1>6. CASE LockOpens(h)
  BY <1>1, <1>2, <1>3, <1>6 DEF LockOpens, Elsewhere, records, history
<1>7. CASE LockFails(h)
  BY <1>1, <1>2, <1>3, <1>7 DEF LockFails, Elsewhere, records, history
<1>8. CASE GiveUp(h)
  BY <1>1, <1>2, <1>3, <1>8 DEF GiveUp, Elsewhere, records, history
<1>9. CASE ReportOpenFailure(h)
  BY <1>1, <1>2, <1>3, <1>9 DEF ReportOpenFailure, FailStep, Elsewhere, records, history
<1>10. CASE TriggerReading(h)
  BY <1>1, <1>2, <1>3, <1>10 DEF TriggerReading, Elsewhere, records, history
<1>11. CASE AnnounceOpened(h)
  BY <1>1, <1>2, <1>3, <1>11 DEF AnnounceOpened, Elsewhere, records, history
<1>12. CASE ArmPolling(h)
  BY <1>1, <1>2, <1>3, <1>12 DEF ArmPolling, Elsewhere, records, history
<1>13. CASE PollSeesClosed(h)
  BY <1>1, <1>2, <1>3, <1>13 DEF PollSeesClosed, Elsewhere, records, history
<1>14. CASE PollSeesNoStatus(h)
  BY <1>1, <1>2, <1>3, <1>14 DEF PollSeesNoStatus, Elsewhere, records, history
<1>15. CASE PollSeesNothing(h)
  BY <1>1, <1>2, <1>3, <1>15 DEF PollSeesNothing, Elsewhere, records, history
<1>16. CASE AnnounceClosed(h)
  BY <1>1, <1>2, <1>3, <1>16 DEF AnnounceClosed, Elsewhere, records, history
<1>17. CASE CheckQuantities(h)
  BY <1>1, <1>2, <1>3, <1>17 DEF CheckQuantities, Elsewhere, records, history
<1>18. CASE RecordHistory(h)
  BY <1>1, <1>2, <1>3, <1>18 DEF RecordHistory, Elsewhere, records, history
<1>19. CASE Advance(h)
  BY <1>1, <1>2, <1>3, <1>19 DEF Advance, Elsewhere, records, history
<1> QED
  BY <1>1, <1>4, <1>5, <1>6, <1>7, <1>8, <1>9, <1>10, <1>11, <1>12, <1>13, <1>14, <1>15, <1>16, <1>17, <1>18, <1>19 DEF HandlerStep

LEMMA HandlerTouches ==
  ASSUME DInv, Legal, NEW h \in Handlers, HandlerStep(h)
  PROVE  run[h].tx \in Txs /\ Touches(run[h].tx) /\ UNCHANGED upset
<1>1. run[h].pc \in Pc \ {"idle"}
  BY DEF HandlerStep, BeginProcessing, ExecuteStep, LockOpens, LockFails, GiveUp,
         ReportOpenFailure, TriggerReading, AnnounceOpened, ArmPolling, PollSeesClosed,
         PollSeesNoStatus, PollSeesNothing, AnnounceClosed, CheckQuantities, RecordHistory,
         Advance, At, Pc
<1>2. run[h].tx \in Txs
  BY <1>1, AtFacts DEF DInv, At
<1>3. WritesFrame(h, run[h].tx)
  BY HandlerFrame
<1>4. Touches(run[h].tx)
  BY <1>2, <1>3, HandlerElsewhere, TouchFacts
<1>5. UNCHANGED upset
  BY DEF HandlerStep, BeginProcessing, ExecuteStep, LockOpens, LockFails, GiveUp,
         ReportOpenFailure, TriggerReading, AnnounceOpened, ArmPolling, PollSeesClosed,
         PollSeesNoStatus, PollSeesNothing, AnnounceClosed, CheckQuantities, RecordHistory,
         Advance, bounds
<1> QED
  BY <1>2, <1>4, <1>5

\* A message that is received, and one that is sent in its place.
LEMMA MailElsewhere ==
  ASSUME DInv, NEW t \in Txs, NEW m \in Message, m.tx = t,
         \/ Receive(m) \/ Send(m)
         \/ \E n \in Message : n.tx = t /\ ReceiveAndSend(m, n)
  PROVE  \A x \in Message : x.tx # t => net'[x] = net[x]
BY DEF DInv, IInv, TypeOK, Receive, Send, ReceiveAndSend

LEMMA DispatchTouches ==
  ASSUME DInv, Legal, NEW h \in Handlers, NEW t \in Txs, Dispatch(h, t)
  PROVE  Touches(t) /\ UNCHANGED upset
<1>1. PICK type \in MessageType, s \in StepIds : Receive(Msg(type, t, s))
  BY ZeroFacts, StepFacts DEF Dispatch, OnStart, OnForceNext, OnBinOpened, OnBinClosed,
     OnStepSuccess, MessageType
<1>2. \A x \in Message : x.tx # t => net'[x] = net[x]
  BY <1>1, MsgFacts, MailElsewhere
<1>3. IsIdle(h) /\ UNCHANGED upset
  BY DEF Dispatch, OnStart, OnForceNext, OnBinOpened, OnBinClosed, OnStepSuccess, bounds
<1>4. /\ tx \in [Txs -> Document] /\ poll \in [Txs -> StepIds] /\ forced \in [Txs -> SUBSET StepIds]
      /\ run \in [Handlers -> Frame]  /\ run' \in [Handlers -> Frame]
  BY DEF DInv, IInv, Legal, TypeOK
<1>5. Elsewhere(t)
  <2>1. CASE OnForceNext(h, t)
    BY <1>2, <1>4, <2>1 DEF OnForceNext, Elsewhere, records
  <2>2. CASE OnStart(h, t)
    BY <1>2, <2>2 DEF OnStart, Elsewhere, records, history
  <2>3. ASSUME NEW r \in StepsOf(t),
               OnBinOpened(h, t, r) \/ OnBinClosed(h, t, r) \/ OnStepSuccess(h, t, r)
        PROVE  Elsewhere(t)
    BY <1>2, <1>4, <2>3 DEF OnBinOpened, OnBinClosed, OnStepSuccess, StopPolling, Elsewhere,
       records, history
  <2> QED
    BY <2>1, <2>2, <2>3 DEF Dispatch
<1>6. ASSUME NEW f, f.tx = t, f.pc # "idle", run' = [run EXCEPT ![h] = f]
      PROVE  WritesFrame(h, t)
  BY <1>4, <1>6 DEF WritesFrame
<1>7. run' = run \/ WritesFrame(h, t)
  <2>1. CASE OnForceNext(h, t)
    <3> DEFINE f == [Begin("advance", t, tx[t].lastError, tx[t]) EXCEPT !.isForced = TRUE]
    <3>1. f.tx = t /\ f.pc # "idle"
      BY DEF Begin, Idle
    <3>2. run' = run \/ run' = [run EXCEPT ![h] = f]
      BY <2>1 DEF OnForceNext
    <3> QED
      BY <1>6, <3>1, <3>2
  <2>2. ASSUME NEW pc \in {"start", "arm", "check", "history"}, NEW q,
               run' = [run EXCEPT ![h] = Begin(pc, t, q, tx[t])]
        PROVE  WritesFrame(h, t)
    <3>1. Begin(pc, t, q, tx[t]).tx = t /\ Begin(pc, t, q, tx[t]).pc # "idle"
      BY DEF Begin, Idle
    <3> QED
      BY <1>6, <2>2, <3>1
  <2> QED
    BY <2>1, <2>2 DEF Dispatch, OnStart, OnBinOpened, OnBinClosed, OnStepSuccess
<1> QED
  BY <1>3, <1>5, <1>7, IdleFacts, TouchFacts

LEMMA PollTickTouches ==
  ASSUME DInv, Legal, NEW h \in Handlers, NEW t \in Txs, PollTick(h, t)
  PROVE  Touches(t)
<1>1. WritesFrame(h, t)
  BY DEF Begin, Idle, PollTick, WritesFrame, DInv, IInv, TypeOK
<1>2. Elsewhere(t)
  BY DEF PollTick, Elsewhere, records, history
<1> QED
  BY <1>1, <1>2, IdleFacts, TouchFacts DEF PollTick

LEMMA AtOnceTouches ==
  ASSUME DInv, Legal, NEW t \in Txs, CreateAndStart(t) \/ HandleAtOnce(t)
  PROVE  Touches(t) /\ UNCHANGED upset
<1>1. run' = run /\ UNCHANGED upset
  BY DEF CreateAndStart, HandleAtOnce, OnStepError, OnErrorAnnounced, OnForceEnd, OnEnded, bounds
<1>2. /\ tx \in [Txs -> Document] /\ popup \in [Txs -> BOOLEAN]
      /\ \A type \in MessageType : \A s \in StepIds :
           Msg(type, t, s) \in Message /\ Msg(type, t, s).tx = t
  BY MsgFacts DEF DInv, IInv, TypeOK
<1>3. CASE CreateAndStart(t)
  <2>1. Send(Msg("START", t, 0))
    BY <1>3 DEF CreateAndStart
  <2>2. \A x \in Message : x.tx # t => net'[x] = net[x]
    BY <1>2, <2>1, ZeroFacts, MailElsewhere DEF MessageType
  <2>3. Elsewhere(t)
    BY <1>2, <1>3, <2>2 DEF CreateAndStart, Elsewhere, records, history
  <2> QED
    BY <1>1, <2>3, TouchFacts
<1>4. ASSUME NEW s \in StepsOf(t), OnStepError(t, s)
      PROVE  Touches(t)
  <2>1. ReceiveAndSend(Msg("STEP_ERROR", t, s), Msg("STEP_ERROR", t, 0))
    BY <1>4 DEF OnStepError
  <2>2. \A x \in Message : x.tx # t => net'[x] = net[x]
    BY <1>2, <2>1, ZeroFacts, StepFacts, MailElsewhere DEF MessageType
  <2>3. Elsewhere(t)
    BY <1>2, <1>4, <2>2 DEF OnStepError, FailStep, Elsewhere, records, history
  <2> QED
    BY <1>1, <2>3, TouchFacts
<1>5. CASE OnErrorAnnounced(t) \/ OnForceEnd(t) \/ OnEnded(t)
  <2>1. PICK type \in MessageType : Receive(Msg(type, t, 0))
    BY <1>5 DEF OnErrorAnnounced, OnForceEnd, OnEnded, MessageType
  <2>2. \A x \in Message : x.tx # t => net'[x] = net[x]
    BY <1>2, <2>1, ZeroFacts, MailElsewhere
  <2>3. Elsewhere(t)
    BY <1>2, <1>5, <2>2 DEF OnErrorAnnounced, OnForceEnd, OnEnded, Elsewhere, records, history
  <2> QED
    BY <1>1, <2>3, TouchFacts
<1> QED
  BY <1>1, <1>3, <1>4, <1>5 DEF HandleAtOnce

LEMMA AnswerTouches ==
  ASSUME DInv, Legal, NEW t \in Txs, NEW type \in Forces, Answer(t, type)
  PROVE  Touches(t)
<1>1. Msg(type, t, 0) \in Message /\ Msg(type, t, 0).tx = t /\ Send(Msg(type, t, 0))
  BY ZeroFacts, MsgFacts DEF MessageType, Forces, Answer
<1>2. \A x \in Message : x.tx # t => net'[x] = net[x]
  BY <1>1, MailElsewhere
<1>3. Elsewhere(t) /\ run' = run
  BY <1>2 DEF Answer, Elsewhere, records, history, DInv, IInv, TypeOK
<1> QED
  BY <1>3, TouchFacts

LEMMA LoseTouches ==
  ASSUME DInv, Legal, NEW m \in Message, Lose(m)
  PROVE  m.tx \in Txs /\ Touches(m.tx) /\ UNCHANGED upset
<1>1. m.tx \in Txs /\ Receive(m) /\ run' = run /\ UNCHANGED upset
  BY DEF Message, Lose
<1>2. \A x \in Message : x.tx # m.tx => net'[x] = net[x]
  BY <1>1, MailElsewhere
<1>3. Elsewhere(m.tx)
  BY <1>2 DEF Lose, Elsewhere, records, history
<1> QED
  BY <1>1, <1>3, TouchFacts

\* Of a transaction that was upset the invariant says nothing; what is written of it
\* leaves the others as they are.
LEMMA TouchedDriven ==
  ASSUME DInv, Legal, NEW t \in Txs, t \in upset', Touches(t)
  PROVE  DInv'
BY OneTransaction DEF Touches
-----------------------------------------------------------------------------
(* The theorems                                                            *)

LEMMA InitDriven == Init => DInv
<1> SUFFICES ASSUME Init PROVE DInv
  OBVIOUS
<1>1. IdleSlots
  BY DEF Init, IdleSlots
<1>2. ASSUME NEW t \in Txs PROVE Driven(t)
  <2>1. (\A h \in Handlers : run[h].tx # t) /\ poll[t] = 0 /\ ~popup[t]
    BY ParameterAssumption DEF Init, Idle
  <2>2. \A m \in Message : net[m] = 0
    BY DEF Init
  <2>3. Mail(t) = {}
    BY <2>2 DEF Mail, InFlight
  <2>4. Exclusive(t) /\ DriverHolds(t)
    BY <2>1, <2>2, <2>3 DEF Exclusive, DriverHolds, InFlight
  <2>5. Books(t)
    BY StepFacts DEF Init, Books
  <2> QED
    BY <2>4, <2>5 DEF Driven
<1> QED
  BY <1>1, <1>2, InitInv DEF DInv

\* What was upset stays so.
LEMMA NextUpset ==
  ASSUME [Next]_vars
  PROVE  upset \subseteq upset'
<1>1. CASE UNCHANGED vars
  BY <1>1 DEF vars
<1>2. ASSUME NEW h \in Handlers, HandlerStep(h) PROVE UNCHANGED upset
  BY <1>2 DEF HandlerStep, BeginProcessing, ExecuteStep, LockOpens, LockFails, GiveUp,
     ReportOpenFailure, TriggerReading, AnnounceOpened, ArmPolling, PollSeesClosed,
     PollSeesNoStatus, PollSeesNothing, AnnounceClosed, CheckQuantities, RecordHistory,
     Advance, bounds
<1>3. ASSUME NEW t \in Txs, CreateAndStart(t) \/ HandleAtOnce(t) PROVE UNCHANGED upset
  BY <1>3 DEF CreateAndStart, HandleAtOnce, OnStepError, OnErrorAnnounced, OnForceEnd, OnEnded,
     bounds
<1>4. ASSUME NEW h \in Handlers, NEW t \in Txs, Dispatch(h, t) PROVE UNCHANGED upset
  BY <1>4 DEF Dispatch, OnStart, OnForceNext, OnBinOpened, OnBinClosed, OnStepSuccess, bounds
<1>5. ASSUME NEW h \in Handlers, NEW t \in Txs, PollTick(h, t) PROVE upset \subseteq upset'
  BY <1>5 DEF PollTick, Upsets
<1>6. ASSUME NEW t \in Txs, NEW type \in Forces, Answer(t, type) PROVE upset \subseteq upset'
  BY <1>6 DEF Answer, Upsets
<1>7. ASSUME NEW b \in Bins, CloseDoor(b) PROVE UNCHANGED upset
  BY <1>7 DEF CloseDoor, bounds
<1>8. ASSUME NEW m \in Message, Lose(m) PROVE UNCHANGED upset
  BY <1>8 DEF Lose
<1>9. CASE Crash
  BY <1>9 DEF Crash
<1> QED
  BY <1>1, <1>2, <1>3, <1>4, <1>5, <1>6, <1>7, <1>8, <1>9 DEF Next

LEMMA NextDriven ==
  ASSUME DInv, [Next]_vars
  PROVE  DInv'
<1>1. Legal
  BY NextInv, NextUpset DEF DInv, Legal
<1>2. CASE UNCHANGED vars
  BY <1>1, <1>2, NothingDriven DEF vars
<1>3. ASSUME NEW t \in Txs, CreateAndStart(t) \/ HandleAtOnce(t)
      PROVE  DInv'
  <2>1. CASE t \in upset
    BY <1>1, <1>3, <2>1, AtOnceTouches, TouchedDriven
  <2>2. CASE t \notin upset
    BY <1>1, <1>3, <2>2, CreateAndStartDriven, OnStepErrorDriven, OnErrorAnnouncedDriven,
       OnForceEndDriven, OnEndedDriven DEF HandleAtOnce
  <2> QED
    BY <2>1, <2>2
<1>4. ASSUME NEW h \in Handlers, HandlerStep(h)
      PROVE  DInv'
  <2>1. CASE run[h].tx \in upset
    BY <1>1, <1>4, <2>1, HandlerTouches, TouchedDriven
  <2>2. CASE run[h].tx \notin upset
    BY <1>1, <1>4, <2>2, BeginProcessingDriven, ExecuteStepDriven, LockOpensDriven,
       LockFailsDriven, GiveUpDriven, ReportOpenFailureDriven, GotoDriven, AnnounceOpenedDriven,
       ArmPollingDriven, PollSeesNothingDriven, AnnounceClosedDriven, CheckQuantitiesDriven,
       RecordHistoryDriven, AdvanceDriven DEF HandlerStep
  <2> QED
    BY <2>1, <2>2
<1>5. ASSUME NEW h \in Handlers, NEW t \in Txs, Dispatch(h, t)
      PROVE  DInv'
  <2>1. CASE t \in upset
    BY <1>1, <1>5, <2>1, DispatchTouches, TouchedDriven
  <2>2. CASE t \notin upset
    BY <1>1, <1>5, <2>2, OnStartDriven, OnForceNextDriven, OnStepMessageDriven DEF Dispatch
  <2> QED
    BY <2>1, <2>2
<1>6. ASSUME NEW h \in Handlers, NEW t \in Txs, PollTick(h, t)
      PROVE  DInv'
  BY <1>1, <1>6, PollTickDriven, PollTickTouches, TouchedDriven
<1>7. ASSUME NEW b \in Bins, CloseDoor(b)
      PROVE  DInv'
  BY <1>1, <1>7, NothingDriven DEF CloseDoor, records, history
<1>8. ASSUME NEW t \in Txs, NEW type \in Forces, Answer(t, type)
      PROVE  DInv'
  BY <1>1, <1>8, AnswerDriven, AnswerTouches, TouchedDriven
<1>9. ASSUME NEW m \in Message, Lose(m)
      PROVE  DInv'
  BY <1>1, <1>9, LoseDriven, LoseTouches, TouchedDriven
<1>10. CASE Crash
  BY <1>1, <1>10, CrashDriven
<1> QED
  BY <1>2, <1>3, <1>4, <1>5, <1>6, <1>7, <1>8, <1>9, <1>10 DEF Next

\* What drives a transaction that was not upset is handed over from one to the next,
\* always about its current step.
THEOREM DrivenInvariance == Spec => []DInv
<1>1. Init => DInv
  BY InitDriven
<1>2. DInv /\ [Next]_vars => DInv'
  BY NextDriven
<1> QED
  BY <1>1, <1>2, PTL DEF Spec

\* At most one thing drives a transaction that was not upset, whatever is lost, whenever
\* the worker restarts and whatever upsets another transaction: no two handlers work on
\* stale copies of each other's entity.
THEOREM DriversAreOne == Spec => []OneDriver
<1>1. DInv => OneDriver
  <2> SUFFICES ASSUME DInv, NEW t \in Txs \ upset
               PROVE  /\ \A x, y \in Drivers(t) : x = y
                      /\ \A m \in Message : m.tx = t => net[m] <= 1
    BY DEF OneDriver
  <2>1. Exclusive(t)
    BY DEF DInv, Driven
  <2> DEFINE H == {g \in Handlers : run[g].tx = t /\ run[g].pc \notin {"poll", "closed"}}
             M == {n \in Message : n.tx = t /\ n.type \in DriverTypes /\ InFlight(n)}
             W == poll[t] # 0 \/ Watched(t)
  <2>2. M \subseteq Mail(t) /\ \A m \in M : m.type # "BIN_CLOSED"
    BY DEF Mail, DriverTypes, Ends
  <2>3. H # {} => M = {} /\ ~popup[t] /\ ~W
    <3> SUFFICES ASSUME NEW h \in H PROVE M = {} /\ ~popup[t] /\ ~W
      OBVIOUS
    <3>1. Mail(t) = {} /\ ~popup[t] /\ poll[t] = 0
      BY <2>1 DEF Exclusive, Polling
    <3>2. \A g \in Handlers : run[g].tx = t => g = h
      BY <2>1 DEF Exclusive
    <3>3. ASSUME NEW s \in StepIds PROVE ~InFlight(Msg("BIN_CLOSED", t, s))
      BY <3>1, MsgFacts DEF Mail, MessageType, Ends
    <3> QED
      BY <2>2, <3>1, <3>2, <3>3 DEF Watched
  <2>4. M # {} => ~popup[t] /\ ~W
    <3> SUFFICES ASSUME NEW m \in M PROVE ~popup[t] /\ ~W
      OBVIOUS
    <3>1. m \in Mail(t) /\ m.type # "BIN_CLOSED"
      BY <2>2
    <3>2. ~popup[t] /\ poll[t] = 0 /\ \A g \in Handlers : run[g].tx # t
      BY <2>1, <3>1 DEF Exclusive
    <3>3. ASSUME NEW s \in StepIds PROVE ~InFlight(Msg("BIN_CLOSED", t, s))
      <4>1. Msg("BIN_CLOSED", t, s) # m
        BY <3>1, MsgFacts DEF MessageType
      <4> QED
        BY <2>1, <3>1, <4>1, MsgFacts DEF Exclusive, Mail, MessageType, Ends
    <3> QED
      BY <3>2, <3>3 DEF Watched
  <2>5. popup[t] => ~W
    <3>1. popup[t] => poll[t] = 0 /\ (\A g \in Handlers : run[g].tx # t) /\ Mail(t) = {}
      BY <2>1 DEF Exclusive
    <3>2. ASSUME Mail(t) = {}, NEW s \in StepIds PROVE ~InFlight(Msg("BIN_CLOSED", t, s))
      BY <3>2, MsgFacts DEF Mail, MessageType, Ends
    <3> QED
      BY <3>1, <3>2 DEF Watched
  <2>6. (\A g, h \in H : g = h) /\ \A m, n \in M : m = n
    BY <2>1, <2>2 DEF Exclusive
  <2>7. Drivers(t) = {<<"handler", h>> : h \in H} \cup {<<"message", m>> : m \in M}
                     \cup {<<"watch", t>> : x \in {y \in {t} : W}}
                     \cup {<<"popup", t>> : x \in {y \in {t} : popup[t]}}
    BY DEF Drivers
  <2> HIDE DEF H, M, W
  <2>8. \A x, y \in Drivers(t) : x = y
    BY <2>3, <2>4, <2>5, <2>6, <2>7
  <2> QED
    BY <2>1, <2>8 DEF Exclusive
<1> QED
  BY <1>1, DrivenInvariance, PTL

\* A step of a transaction that was not upset is checked at most once, its history
\* processed at most once, and never for a step that the operator skipped.
THEOREM StepsSettledOnce == Spec => []SettledOnce
<1>1. DInv => SettledOnce
  BY DEF DInv, Driven, Books, SettledOnce
<1> QED
  BY <1>1, DrivenInvariance, PTL

\* The popup on the operator's screen is about the step that a transaction is at, unless
\* it was upset.
THEOREM PopupIsAboutCurrentStep == Spec => []PopupAboutCurrentStep
<1>1. DInv => PopupAboutCurrentStep
  BY DEF DInv, Driven, DriverHolds, PopupHolds, Corrected, Current, PopupAboutCurrentStep
<1> QED
  BY <1>1, DrivenInvariance, PTL
-----------------------------------------------------------------------------
(* The engine keeps the promise of TransactionLifecycle                    *)

\* Of transaction t nothing changes that the promise is about.
Steady(t) ==
  /\ StepAt(t)' = StepAt(t) /\ Outcome(t)' = Outcome(t)
  /\ \A s \in StepIds : Verdict(t, s)' = Verdict(t, s)

LEMMA SteadyVerdict ==
  ASSUME NEW t \in Txs, credited'[t] = credited[t], forced'[t] = forced[t], UNCHANGED upset
  PROVE  \A s \in StepIds : Verdict(t, s)' = Verdict(t, s)
BY DEF Verdict

LEMMA AllSteady ==
  ASSUME \A t \in Txs : Steady(t)
  PROVE  UNCHANGED Lifecycle!lifecycleVars
<1>1. [t \in Txs |-> StepAt(t)'] = [t \in Txs |-> StepAt(t)]
  BY DEF Steady
<1>2. [t \in Txs |-> [s \in StepIds |-> Verdict(t, s)']] = [t \in Txs |-> [s \in StepIds |-> Verdict(t, s)]]
  BY DEF Steady
<1>3. [t \in Txs |-> Outcome(t)'] = [t \in Txs |-> Outcome(t)]
  BY DEF Steady
<1> QED
  BY <1>1, <1>2, <1>3 DEF Lifecycle!lifecycleVars

\* The documents are left alone, and so are the verdicts.
LEMMA Unwritten ==
  ASSUME UNCHANGED <<tx, credited, forced, upset>>
  PROVE  UNCHANGED Lifecycle!lifecycleVars
BY AllSteady DEF Steady, StepAt, Outcome, Verdict

\* A step about a transaction that was upset.
LEMMA TouchedSteady ==
  ASSUME NEW t \in upset, UNCHANGED upset, Touches(t)
  PROVE  UNCHANGED Lifecycle!lifecycleVars
<1>1. Steady(t)
  BY DEF Steady, StepAt, Outcome, Verdict
<1>2. \A u \in Txs \ {t} : Steady(u)
  BY DEF Touches, Same, Steady, StepAt, Outcome, Verdict
<1> QED
  BY <1>1, <1>2, AllSteady

\* A step that upsets a transaction writes nothing else that the promise is about.
LEMMA UpsetRefines ==
  ASSUME NEW t \in Txs, NEW disorder \in BOOLEAN, Upsets(t, disorder),
         UNCHANGED <<tx, credited, forced>>
  PROVE  UNCHANGED Lifecycle!lifecycleVars \/ Lifecycle!Upset(t)
<1>1. CASE ~disorder \/ t \in upset
  <2>1. UNCHANGED upset
    BY <1>1 DEF Upsets
  <2> QED
    BY <2>1, Unwritten
<1>2. CASE disorder /\ t \notin upset
  <2>1. upset' = upset \cup {t}
    BY <1>2 DEF Upsets
  <2>2. StepAt(t)' = 0 /\ Outcome(t)' = "upset" /\ \A s \in StepIds : Verdict(t, s)' = "none"
    BY <2>1 DEF StepAt, Outcome, Verdict
  <2>3. \A u \in Txs \ {t} : Steady(u)
    BY <2>1 DEF Steady, StepAt, Outcome, Verdict
  <2>4. [u \in Txs |-> StepAt(u)'] = [[u \in Txs |-> StepAt(u)] EXCEPT ![t] = 0]
    BY <2>2, <2>3 DEF Steady
  <2>5. [u \in Txs |-> [s \in StepIds |-> Verdict(u, s)']]
          = [[u \in Txs |-> [s \in StepIds |-> Verdict(u, s)]] EXCEPT ![t] = [s \in StepIds |-> "none"]]
    <3>1. [s \in StepIds |-> Verdict(t, s)'] = [s \in StepIds |-> "none"]
      BY <2>2
    <3>2. \A u \in Txs \ {t} : [s \in StepIds |-> Verdict(u, s)'] = [s \in StepIds |-> Verdict(u, s)]
      BY <2>3 DEF Steady
    <3> QED
      BY <3>1, <3>2
  <2>6. [u \in Txs |-> Outcome(u)'] = [[u \in Txs |-> Outcome(u)] EXCEPT ![t] = "upset"]
    BY <2>2, <2>3 DEF Steady
  <2> QED
    BY <2>4, <2>5, <2>6 DEF Lifecycle!Upset, StepIds
<1> QED
  BY <1>1, <1>2

\* The verdicts of the settled and the unsettled steps.
LEMMA VerdictFacts ==
  ASSUME DInv, NEW t \in Txs \ upset, NEW s \in StepIds
  PROVE  /\ Verdict(t, s) = "none" <=> credited[t][s] = 0 /\ s \notin forced[t]
         /\ credited[t][s] = 1 /\ s \notin forced[t] => Verdict(t, s) = "credited"
         /\ credited[t][s] = 0 /\ s \in forced[t] => Verdict(t, s) = "skipped"
<1>1. credited[t][s] \in Nat
  BY DEF DInv, IInv, TypeOK
<1> QED
  BY <1>1 DEF Verdict

LEMMA InitRefines == Init => Lifecycle!LifecycleInit
<1> SUFFICES ASSUME Init PROVE Lifecycle!LifecycleInit
  OBVIOUS
<1>1. \A t \in Txs : StepAt(t) = 0
  BY DEF Init, NoDocument, StepAt
<1>2. \A t \in Txs : \A s \in StepIds : Verdict(t, s) = "none"
  BY DEF Init, Verdict
<1>3. \A t \in Txs : Outcome(t) = "running"
  BY DEF Init, NoDocument, Outcome, Terminal
<1> QED
  BY <1>1, <1>2, <1>3 DEF Lifecycle!LifecycleInit, StepIds

LEMMA CreateRefines ==
  ASSUME DInv, NEW t \in Txs \ upset, CreateAndStart(t)
  PROVE  Lifecycle!Create(t)
<1>1. tx \in [Txs -> Document] /\ UNCHANGED <<credited, forced, upset>>
  BY DEF DInv, IInv, TypeOK, CreateAndStart, records, history, bounds
<1>2. tx[t].currentStepId = 0 /\ tx[t].status = "NONE"
  BY DEF DInv, IInv, DocumentInv, Created, CreateAndStart
<1>3. /\ tx'[t].currentStepId = 1 /\ tx'[t].status = "PENDING"
      /\ \A u \in Txs \ {t} : tx'[u] = tx[u]
  BY <1>1 DEF CreateAndStart, FirstStep, Document
<1>4. [u \in Txs |-> StepAt(u)'] = [[u \in Txs |-> StepAt(u)] EXCEPT ![t] = 1]
  BY <1>1, <1>3 DEF StepAt
<1>5. [u \in Txs |-> [s \in StepIds |-> Verdict(u, s)']] = [u \in Txs |-> [s \in StepIds |-> Verdict(u, s)]]
  BY <1>1, SteadyVerdict
<1>6. [u \in Txs |-> Outcome(u)'] = [u \in Txs |-> Outcome(u)]
  BY <1>1, <1>2, <1>3 DEF Outcome, Terminal
<1>7. StepAt(t) = 0 /\ Outcome(t) = "running"
  BY <1>2 DEF StepAt, Outcome, Terminal
<1> QED
  BY <1>4, <1>5, <1>6, <1>7 DEF Lifecycle!Create

\* A settled step gets its verdict while the transaction is at it.
LEMMA SettleRefines ==
  ASSUME DInv, NEW t \in Txs \ upset, NEW s \in StepIds, s = Current(t), s # 0, Running(t),
         Unsettled(t), NEW how \in {"credited", "skipped"}, UNCHANGED <<tx, upset>>,
         Verdict(t, s)' = how,
         \A u \in Txs : \A r \in StepIds : u # t \/ r # s => Verdict(u, r)' = Verdict(u, r)
  PROVE  Lifecycle!Settle(t, how)
<1>1. Verdict(t, s) = "none"
  BY VerdictFacts DEF Unsettled
<1>2. Outcome(t) = "running" /\ s = StepAt(t)
  BY DEF Running, Outcome, StepAt, Current
<1>3. [u \in Txs |-> [r \in StepIds |-> Verdict(u, r)']]
        = [[u \in Txs |-> [r \in StepIds |-> Verdict(u, r)]] EXCEPT ![t][s] = how]
  <2>1. \A u \in Txs \ {t} : [r \in StepIds |-> Verdict(u, r)'] = [r \in StepIds |-> Verdict(u, r)]
    OBVIOUS
  <2>2. [r \in StepIds |-> Verdict(t, r)']
          = [[r \in StepIds |-> Verdict(t, r)] EXCEPT ![s] = how]
    OBVIOUS
  <2>3. PICK V : V = [u \in Txs |-> [r \in StepIds |-> Verdict(u, r)]]
    OBVIOUS
  <2>4. PICK W : W = [u \in Txs |-> [r \in StepIds |-> Verdict(u, r)']]
    OBVIOUS
  <2>5. W[t] = [V[t] EXCEPT ![s] = how] /\ \A u \in Txs \ {t} : W[u] = V[u]
    BY <2>1, <2>2, <2>3, <2>4
  <2>6. V = [u \in Txs |-> V[u]] /\ W = [u \in Txs |-> W[u]]
    BY <2>3, <2>4
  <2>7. W = [V EXCEPT ![t][s] = how]
    BY <2>5, <2>6
  <2> QED
    BY <2>3, <2>4, <2>7
<1>4. [u \in Txs |-> Outcome(u)'] = [u \in Txs |-> Outcome(u)]
  BY DEF Outcome
<1>5. [u \in Txs |-> StepAt(u)'] = [u \in Txs |-> StepAt(u)]
  BY DEF StepAt
<1> QED
  BY <1>1, <1>2, <1>3, <1>4, <1>5 DEF Lifecycle!Settle

LEMMA RecordHistoryRefines ==
  ASSUME DInv, NEW h \in Handlers, run[h].tx \notin upset, RecordHistory(h)
  PROVE  UNCHANGED Lifecycle!lifecycleVars \/ \E t \in Txs : Lifecycle!Settle(t, "credited")
<1>1. PICK t \in Txs, s \in StepIds :
        /\ t = run[h].tx /\ s = run[h].step /\ Running(t) /\ FrameHolds(run[h], t)
        /\ run[h].pc = "history" /\ s = Current(t) /\ s # 0
  BY WorkFacts DEF RecordHistory, Pc
<1>2. UNCHANGED <<tx, forced, upset>> /\ credited \in [Txs -> [StepIds -> Nat]]
  BY DEF RecordHistory, history, bounds, DInv, IInv, TypeOK
<1>3. CASE UNCHANGED credited
  BY <1>2, <1>3, Unwritten
<1>4. CASE credited' = [credited EXCEPT ![t][s] = @ + 1]
  <2>1. Unsettled(t)
    BY <1>1 DEF FrameHolds
  <2>2. Verdict(t, s)' = "credited"
    <3>1. credited'[t][s] = 1 /\ s \notin forced'[t]
      BY <1>1, <1>2, <1>4, <2>1 DEF Unsettled
    <3> QED
      BY <1>1, <1>2, <3>1 DEF Verdict
  <2>3. \A u \in Txs : \A r \in StepIds : u # t \/ r # s => Verdict(u, r)' = Verdict(u, r)
    BY <1>2, <1>4 DEF Verdict
  <2> QED
    BY <1>1, <1>2, <2>1, <2>2, <2>3, SettleRefines
<1> QED
  BY <1>1, <1>3, <1>4 DEF RecordHistory

\* The message with which the operator goes on finds the step unsettled.
LEMMA ForceFacts ==
  ASSUME DInv, NEW t \in Txs \ upset, NEW type \in Forces, Receive(Msg(type, t, 0))
  PROVE  /\ Running(t) /\ Unsettled(t) /\ Corrected(t)
         /\ Current(t) \in StepIds /\ Current(t) # 0
<1> DEFINE m == Msg(type, t, 0)
<1>1. m \in Message /\ m.tx = t /\ m.type = type /\ m.type \in Forces \ Ends
  BY ZeroFacts, MsgFacts DEF MessageType, Forces, Ends
<1>2. InFlight(m)
  BY DEF Receive
<1> HIDE DEF m
<1>3. MailHolds(m, t)
  BY <1>1, <1>2, MessageAlone
<1>4. Running(t) /\ Unsettled(t) /\ Corrected(t)
  BY <1>1, <1>3 DEF MailHolds
<1>5. EntityOK(t, tx[t])
  BY <1>4 DEF DInv, IInv, DocumentInv, Created, Corrected
<1> QED
  BY <1>4, <1>5, StepFacts DEF EntityOK, Reached, Current

LEMMA ForceNextRefines ==
  ASSUME DInv, NEW h \in Handlers, NEW t \in Txs \ upset, OnForceNext(h, t)
  PROVE  Lifecycle!Settle(t, "skipped")
<1>1. /\ Running(t) /\ Unsettled(t) /\ Corrected(t)
      /\ Current(t) \in StepIds /\ Current(t) # 0
  BY ForceFacts DEF OnForceNext, Forces
<1>2. forced' = [forced EXCEPT ![t] = @ \cup {Current(t)}] /\ UNCHANGED <<tx, credited, upset>>
  BY <1>1 DEF OnForceNext, Corrected, records, bounds
<1>3. forced'[t] = forced[t] \cup {Current(t)} /\ \A u \in Txs \ {t} : forced'[u] = forced[u]
  BY <1>2 DEF DInv, IInv, TypeOK
<1>4. PICK s \in StepIds : s = Current(t)
  BY <1>1
<1>5. Verdict(t, s)' = "skipped"
  BY <1>1, <1>2, <1>3, <1>4 DEF Unsettled, Verdict
<1>6. \A u \in Txs : \A r \in StepIds : u # t \/ r # s => Verdict(u, r)' = Verdict(u, r)
  BY <1>2, <1>3, <1>4 DEF Verdict
<1> QED
  BY <1>1, <1>2, <1>4, <1>5, <1>6, SettleRefines

LEMMA ForceEndRefines ==
  ASSUME DInv, NEW t \in Txs \ upset, OnForceEnd(t)
  PROVE  Lifecycle!Abandon(t)
<1>1. /\ Running(t) /\ Unsettled(t) /\ Corrected(t)
      /\ Current(t) \in StepIds /\ Current(t) # 0
  BY ForceFacts DEF OnForceEnd, Forces
<1>2. UNCHANGED <<credited, forced, upset>> /\ tx \in [Txs -> Document]
  BY DEF OnForceEnd, records, history, bounds, DInv, IInv, TypeOK
<1>3. /\ tx'[t].status = "COMPLETED_WITH_ERROR" /\ tx'[t].currentStepId = tx[t].currentStepId
      /\ \A u \in Txs \ {t} : tx'[u] = tx[u]
  BY <1>1, <1>2 DEF OnForceEnd, Corrected, Document
<1>4. [u \in Txs |-> StepAt(u)'] = [u \in Txs |-> StepAt(u)]
  BY <1>2, <1>3 DEF StepAt
<1>5. [u \in Txs |-> [s \in StepIds |-> Verdict(u, s)']] = [u \in Txs |-> [s \in StepIds |-> Verdict(u, s)]]
  BY <1>2, SteadyVerdict
<1>6. [u \in Txs |-> Outcome(u)'] = [[u \in Txs |-> Outcome(u)] EXCEPT ![t] = "COMPLETED_WITH_ERROR"]
  BY <1>2, <1>3 DEF Outcome, Terminal
<1>7. Verdict(t, Current(t)) = "none" /\ Outcome(t) = "running" /\ StepAt(t) = Current(t)
  BY <1>1, VerdictFacts DEF Unsettled, Running, Outcome, StepAt, Current
<1> QED
  BY <1>1, <1>4, <1>5, <1>6, <1>7 DEF Lifecycle!Abandon

\* A settled step is left for the next one, or for the outcome that tells how it was settled.
LEMMA AdvanceRefines ==
  ASSUME DInv, NEW h \in Handlers, run[h].tx \notin upset, Advance(h)
  PROVE  \E t \in Txs : Lifecycle!Enter(t) \/ Lifecycle!Finish(t)
<1>1. PICK g \in Frame, t \in Txs \ upset, s \in StepIds, e \in Document :
        /\ g = run[h] /\ g.pc = "advance" /\ t = g.tx /\ s = g.step /\ Running(t)
        /\ FrameHolds(g, t) /\ s = Current(t) /\ s \in StepsOf(t) /\ e = tx[t] /\ g.entity = e
  BY WorkFacts DEF Advance, Pc, Polling
<1>2. UNCHANGED <<credited, forced, upset>> /\ tx \in [Txs -> Document]
  BY DEF Advance, records, history, bounds, DInv, IInv, TypeOK
<1>3. IF g.isForced THEN Verdict(t, s) = "skipped" ELSE Verdict(t, s) = "credited"
  BY <1>1, VerdictFacts DEF FrameHolds
<1>4. [u \in Txs |-> [r \in StepIds |-> Verdict(u, r)']] = [u \in Txs |-> [r \in StepIds |-> Verdict(u, r)]]
  BY <1>2, SteadyVerdict
<1>5. Outcome(t) = "running" /\ s = StepAt(t) /\ s # 0
  BY <1>1, StepFacts DEF Running, Outcome, StepAt, Current
<1>6. Len(Plan[t]) \in Nat /\ s \in Nat /\ s <= Len(Plan[t])
      /\ (HasNext(t, s) <=> s < Len(Plan[t])) /\ NextStep(s) = s + 1
  BY <1>1, PlanAssumption, StepFacts DEF HasNext, NextStep, StepsOf
<1>7. CASE HasNext(t, s)
  <2> DEFINE d == [e EXCEPT !.currentStepId = NextStep(s)]
  <2>1. NextStep(s) \in StepIds
    BY <1>1, <1>7, StepFacts DEF HasNext
  <2>2. d \in Document /\ d.currentStepId = s + 1 /\ d.status = e.status
    BY <1>6, <2>1 DEF Document
  <2>3. tx' = [tx EXCEPT ![t] = Flush(e, d, e)]
    BY <1>1, <1>7 DEF Advance, CompletedStep, DInv, IInv, TypeOK
  <2>4. tx' = [tx EXCEPT ![t] = d]
    BY <2>2, <2>3, FreshFlush
  <2> HIDE DEF d
  <2>5. tx'[t] = d /\ \A u \in Txs \ {t} : tx'[u] = tx[u]
    BY <1>2, <2>4
  <2>6. [u \in Txs |-> StepAt(u)'] = [[u \in Txs |-> StepAt(u)] EXCEPT ![t] = @ + 1]
    <3>1. StepAt(t)' = s + 1
      BY <1>1, <1>2, <2>2, <2>5 DEF StepAt
    <3>2. \A u \in Txs \ {t} : StepAt(u)' = StepAt(u)
      BY <1>2, <2>5 DEF StepAt
    <3> QED
      BY <1>5, <3>1, <3>2
  <2>7. [u \in Txs |-> Outcome(u)'] = [u \in Txs |-> Outcome(u)]
    BY <1>1, <1>2, <2>2, <2>5 DEF Outcome
  <2>8. Lifecycle!Enter(t)
    BY <1>3, <1>4, <1>5, <1>6, <1>7, <2>6, <2>7 DEF Lifecycle!Enter
  <2> QED
    BY <1>1, <2>8
<1>8. CASE ~HasNext(t, s)
  <2> DEFINE d == [e EXCEPT !.status = FinalStatus(g.isForced)]
  <2>1. FinalStatus(g.isForced) \in Terminal \cap Status
    BY DEF FinalStatus, Terminal, Status
  <2>2. d \in Document /\ d.currentStepId = e.currentStepId /\ d.status = FinalStatus(g.isForced)
    BY <2>1 DEF Document
  <2>3. tx' = [tx EXCEPT ![t] = Flush(e, d, e)]
    BY <1>1, <1>8 DEF Advance, CompletedStep, DInv, IInv, TypeOK
  <2>4. tx' = [tx EXCEPT ![t] = d]
    BY <2>2, <2>3, FreshFlush
  <2> HIDE DEF d
  <2>5. tx'[t] = d /\ \A u \in Txs \ {t} : tx'[u] = tx[u]
    BY <1>2, <2>4
  <2>6. [u \in Txs |-> StepAt(u)'] = [u \in Txs |-> StepAt(u)]
    BY <1>1, <1>2, <2>2, <2>5 DEF StepAt
  <2>7. FinalStatus(g.isForced) = IF Verdict(t, s) = "credited" THEN "COMPLETED"
                                  ELSE "COMPLETED_WITH_ERROR"
    BY <1>3 DEF FinalStatus
  <2>8. Outcome(t)' = IF Verdict(t, s) = "credited" THEN "COMPLETED" ELSE "COMPLETED_WITH_ERROR"
    BY <1>1, <1>2, <2>1, <2>2, <2>5, <2>7 DEF Outcome
  <2>9. [u \in Txs |-> Outcome(u)']
          = [[u \in Txs |-> Outcome(u)] EXCEPT
               ![t] = IF Verdict(t, s) = "credited" THEN "COMPLETED" ELSE "COMPLETED_WITH_ERROR"]
    <3>1. \A u \in Txs \ {t} : Outcome(u)' = Outcome(u)
      BY <1>2, <2>5 DEF Outcome
    <3> QED
      BY <2>8, <3>1
  <2>10. s = Len(Plan[t]) /\ Verdict(t, s) # "none"
    BY <1>3, <1>6, <1>8
  <2>11. Lifecycle!Finish(t)
    BY <1>4, <1>5, <2>6, <2>9, <2>10 DEF Lifecycle!Finish
  <2> QED
    BY <1>1, <2>11
<1> QED
  BY <1>7, <1>8

\* handleStepFail writes a transaction that is running, and leaves it at its step.
LEMMA FailRefines ==
  ASSUME DInv, NEW t \in Txs, Running(t), Unsettled(t), Books(t), FailStep(t, Current(t)),
         UNCHANGED <<results, credited, forced, upset>>
  PROVE  UNCHANGED Lifecycle!lifecycleVars
<1>1. Current(t)' = Current(t) /\ Running(t)' /\ \A u \in Txs \ {t} : tx'[u] = tx[u]
  BY FailedStep
<1>2. \A u \in Txs : Steady(u)
  BY <1>1, SteadyVerdict DEF Steady, StepAt, Outcome, Running, Current
<1> QED
  BY <1>2, AllSteady

\* The steps of a handler but the ones that settle a step or leave it.
LEMMA OtherSteps ==
  ASSUME DInv, NEW h \in Handlers, run[h].tx \notin upset,
         \/ BeginProcessing(h) \/ ExecuteStep(h) \/ ReportOpenFailure(h)
         \/ LockOpens(h) \/ LockFails(h) \/ GiveUp(h) \/ TriggerReading(h) \/ AnnounceOpened(h)
         \/ ArmPolling(h) \/ PollSeesClosed(h) \/ PollSeesNoStatus(h) \/ PollSeesNothing(h)
         \/ AnnounceClosed(h) \/ CheckQuantities(h)
  PROVE  UNCHANGED Lifecycle!lifecycleVars
<1>1. CASE BeginProcessing(h)
  <2>1. PICK t \in Txs, d \in Document :
          /\ t = run[h].tx /\ d = tx[t] /\ run[h].entity = d /\ Running(t)
    BY <1>1, WorkFacts DEF BeginProcessing, Pc, Polling
  <2> DEFINE e == [d EXCEPT !.status = "PROCESSING"]
  <2>2. e \in Document /\ e.status = "PROCESSING" /\ e.currentStepId = d.currentStepId
    BY DEF Document, Status
  <2>3. tx' = [tx EXCEPT ![t] = Flush(d, e, d)] /\ UNCHANGED <<credited, forced, upset>>
    BY <1>1, <2>1 DEF BeginProcessing, DInv, IInv, TypeOK, records, history, bounds
  <2>4. tx' = [tx EXCEPT ![t] = e]
    BY <2>2, <2>3, FreshFlush
  <2> HIDE DEF e
  <2>5. tx'[t] = e /\ \A u \in Txs \ {t} : tx'[u] = tx[u]
    BY <2>4 DEF DInv, IInv, TypeOK
  <2>6. \A u \in Txs : Steady(u)
    BY <2>1, <2>2, <2>3, <2>5, SteadyVerdict DEF Steady, StepAt, Outcome, Running, Terminal
  <2> QED
    BY <2>6, AllSteady
<1>2. CASE ExecuteStep(h)
  <2>1. run[h].entity.currentStepId \in StepsOf(run[h].tx)
    BY <1>2, WorkFacts DEF ExecuteStep, Pc, Polling, Current
  <2> QED
    BY <1>2, <2>1, Unwritten DEF ExecuteStep, records, bounds
<1>3. CASE ReportOpenFailure(h)
  <2>1. PICK t \in Txs : /\ t = run[h].tx /\ Books(t) /\ Running(t) /\ Untouched(t)
                         /\ run[h].entity = tx[t]
    BY <1>3, WorkFacts DEF ReportOpenFailure, Pc, Polling
  <2>2. FailStep(t, Current(t)) /\ UNCHANGED <<results, credited, forced, upset>>
    BY <1>3, <2>1 DEF ReportOpenFailure, Current, records, history, bounds
  <2> QED
    BY <2>1, <2>2, FailRefines DEF Untouched
<1>4. ASSUME LockOpens(h) \/ LockFails(h) \/ GiveUp(h) \/ TriggerReading(h) \/ AnnounceOpened(h)
             \/ ArmPolling(h) \/ PollSeesClosed(h) \/ PollSeesNoStatus(h) \/ PollSeesNothing(h)
             \/ AnnounceClosed(h) \/ CheckQuantities(h)
      PROVE  UNCHANGED Lifecycle!lifecycleVars
  BY <1>4, Unwritten DEF LockOpens, LockFails, GiveUp, TriggerReading, AnnounceOpened, ArmPolling,
     PollSeesClosed, PollSeesNoStatus, PollSeesNothing, AnnounceClosed, CheckQuantities, records,
     history, bounds
<1> QED
  BY <1>1, <1>2, <1>3, <1>4

LEMMA StepErrorRefines ==
  ASSUME DInv, NEW t \in Txs \ upset, NEW s \in StepsOf(t), OnStepError(t, s)
  PROVE  UNCHANGED Lifecycle!lifecycleVars
<1> DEFINE m == Msg("STEP_ERROR", t, s)
<1>1. m \in Message /\ m.tx = t /\ m.type = "STEP_ERROR" /\ m.step = s /\ s # 0 /\ m.type \notin Ends
  BY StepFacts, MsgFacts DEF MessageType, Ends
<1>2. InFlight(m) /\ FailStep(t, s) /\ UNCHANGED <<results, credited, forced, upset>>
  BY DEF OnStepError, ReceiveAndSend, records, history, bounds
<1> HIDE DEF m
<1>3. MailHolds(m, t) /\ Books(t)
  BY <1>1, <1>2, MessageAlone
<1>4. Running(t) /\ Unsettled(t) /\ s = Current(t)
  BY <1>1, <1>3 DEF MailHolds
<1> QED
  BY <1>2, <1>3, <1>4, FailRefines

LEMMA NextRefines ==
  ASSUME DInv, [Next]_vars
  PROVE  [Lifecycle!LifecycleNext]_(Lifecycle!lifecycleVars)
<1>1. Legal
  BY NextInv, NextUpset DEF DInv, Legal
<1>2. CASE UNCHANGED vars
  BY <1>2, Unwritten DEF vars
<1>3. ASSUME NEW t \in Txs, CreateAndStart(t) \/ HandleAtOnce(t)
      PROVE  [Lifecycle!LifecycleNext]_(Lifecycle!lifecycleVars)
  <2>1. CASE t \in upset
    BY <1>1, <1>3, <2>1, AtOnceTouches, TouchedSteady
  <2>2. CASE t \notin upset /\ CreateAndStart(t)
    BY <2>2, CreateRefines DEF Lifecycle!LifecycleNext
  <2>3. CASE t \notin upset /\ OnForceEnd(t)
    BY <2>3, ForceEndRefines DEF Lifecycle!LifecycleNext
  <2>4. CASE OnErrorAnnounced(t) \/ OnEnded(t)
    BY <2>4, Unwritten DEF OnErrorAnnounced, OnEnded, records, history, bounds
  <2> QED
    BY <1>3, <2>1, <2>2, <2>3, <2>4, StepErrorRefines DEF HandleAtOnce
<1>4. ASSUME NEW h \in Handlers, HandlerStep(h)
      PROVE  [Lifecycle!LifecycleNext]_(Lifecycle!lifecycleVars)
  <2>1. CASE run[h].tx \in upset
    BY <1>1, <1>4, <2>1, HandlerTouches, TouchedSteady
  <2>2. CASE run[h].tx \notin upset /\ RecordHistory(h)
    BY <2>2, RecordHistoryRefines DEF Lifecycle!LifecycleNext
  <2>3. CASE run[h].tx \notin upset /\ Advance(h)
    BY <2>3, AdvanceRefines DEF Lifecycle!LifecycleNext
  <2> QED
    BY <1>4, <2>1, <2>2, <2>3, OtherSteps DEF HandlerStep
<1>5. ASSUME NEW h \in Handlers, NEW t \in Txs, Dispatch(h, t)
      PROVE  [Lifecycle!LifecycleNext]_(Lifecycle!lifecycleVars)
  <2>1. CASE t \in upset
    BY <1>1, <1>5, <2>1, DispatchTouches, TouchedSteady
  <2>2. CASE t \notin upset /\ OnForceNext(h, t)
    BY <2>2, ForceNextRefines DEF Lifecycle!LifecycleNext
  <2>3. CASE OnStart(h, t) \/ \E s \in StepsOf(t) : OnBinOpened(h, t, s) \/ OnBinClosed(h, t, s)
                                                   \/ OnStepSuccess(h, t, s)
    BY <2>3, Unwritten DEF OnStart, OnBinOpened, OnBinClosed, OnStepSuccess, records, history, bounds
  <2> QED
    BY <1>5, <2>1, <2>2, <2>3 DEF Dispatch
<1>6. ASSUME NEW h \in Handlers, NEW t \in Txs, PollTick(h, t)
      PROVE  [Lifecycle!LifecycleNext]_(Lifecycle!lifecycleVars)
  <2>1. PICK disorder \in BOOLEAN : disorder = Watched(t)
    BY DEF Watched
  <2>2. Upsets(t, disorder) /\ UNCHANGED <<tx, credited, forced>>
    BY <1>6, <2>1 DEF PollTick, Upsets, records, history
  <2> QED
    BY <2>2, UpsetRefines DEF Lifecycle!LifecycleNext
<1>7. ASSUME NEW t \in Txs, NEW type \in Forces, Answer(t, type)
      PROVE  [Lifecycle!LifecycleNext]_(Lifecycle!lifecycleVars)
  <2>1. PICK disorder \in BOOLEAN : disorder = ~popup[t]
    OBVIOUS
  <2>2. Upsets(t, disorder) /\ UNCHANGED <<tx, credited, forced>>
    BY <1>7, <2>1 DEF Answer, Upsets, records, history
  <2> QED
    BY <2>2, UpsetRefines DEF Lifecycle!LifecycleNext
<1>8. ASSUME \/ \E b \in Bins : CloseDoor(b)
             \/ \E m \in Message : Lose(m)
             \/ Crash
      PROVE  [Lifecycle!LifecycleNext]_(Lifecycle!lifecycleVars)
  BY <1>8, Unwritten DEF CloseDoor, Lose, Crash, records, history, bounds
<1> QED
  BY <1>2, <1>3, <1>4, <1>5, <1>6, <1>7, <1>8 DEF Next

\* The engine implements TransactionLifecycle: every step is entered in order, settled
\* once while the transaction is at it, and the outcome is given once, until the
\* transaction is upset; nothing of that changes when another one is.
THEOREM EngineRefines == Spec => Refinement
<1>1. Init => Lifecycle!LifecycleInit
  BY InitRefines
<1>2. DInv /\ [Next]_vars => [Lifecycle!LifecycleNext]_(Lifecycle!lifecycleVars)
  BY NextRefines
<1> QED
  BY <1>1, <1>2, DrivenInvariance, PTL DEF Spec, Refinement, Lifecycle!Spec
-----------------------------------------------------------------------------
(* The bin whose lock is watched is read                                   *)

\* The lock of the current step was opened, and it is watched or about to be.
Attended(t) ==
  \/ poll[t] # 0
  \/ \E m \in Message : m.tx = t /\ m.type = "BIN_OPENED" /\ InFlight(m)
  \/ \E h \in Handlers : run[h].tx = t /\ run[h].pc \in {"announce", "arm"}

\* The bin of the current step is read, or the end of another transaction stopped that.
Kept(t) == BinOf(t, Current(t)) \in reading \/ Current(t) \in stopped[t]

RInv == DInv /\ \A t \in Txs \ upset : Attended(t) => Kept(t)

LEMMA AttendedRuns ==
  ASSUME DInv, NEW t \in Txs \ upset, Attended(t)
  PROVE  Running(t) /\ Current(t) \in StepsOf(t)
<1>1. Driven(t)
  BY DEF DInv
<1>2. Running(t)
  <2>1. CASE poll[t] # 0
    BY <1>1, <2>1 DEF Driven, DriverHolds, WatchHolds
  <2>2. ASSUME NEW m \in Message, m.tx = t, m.type = "BIN_OPENED", InFlight(m)
        PROVE  Running(t)
    BY <2>2, MessageAlone DEF Ends
  <2>3. ASSUME NEW h \in Handlers, run[h].tx = t
        PROVE  Running(t)
    BY <2>3, HandlerAlone
  <2> QED
    BY <2>1, <2>2, <2>3 DEF Attended
<1>3. Created(t)
  <2>1. CASE poll[t] # 0
    BY <2>1 DEF DInv, IInv, PollInv
  <2>2. ASSUME NEW m \in Message, m.tx = t, InFlight(m)
        PROVE  Created(t)
    BY <2>2 DEF DInv, IInv, MessageInv, MessageOK
  <2>3. ASSUME NEW h \in Handlers, run[h].tx = t, run[h].pc \in {"announce", "arm"}
        PROVE  Created(t)
    BY <2>3 DEF DInv, IInv, FrameInv, FrameOK
  <2> QED
    BY <2>1, <2>2, <2>3 DEF Attended
<1> QED
  BY <1>2, <1>3 DEF DInv, IInv, DocumentInv, EntityOK, Reached, Current

\* A step after which nothing is attended that was not before, nor forgotten.
Calm ==
  /\ \A t \in Txs : poll'[t] # 0 => poll'[t] = poll[t]
  /\ \A m \in Message : m.type = "BIN_OPENED" => net'[m] <= net[m]
  /\ \A h \in Handlers : run'[h].pc \in {"announce", "arm"} => run'[h] = run[h]
  /\ UNCHANGED weighing
  /\ \A t \in Txs \ upset' : Current(t)' = Current(t)

LEMMA CalmAttends ==
  ASSUME IInv, IInv', Calm, NEW t \in Txs, Attended(t)'
  PROVE  Attended(t)
<1>1. ASSUME NEW m \in Message, m.type = "BIN_OPENED", InFlight(m)'
      PROVE  InFlight(m)
  BY <1>1 DEF Calm, InFlight, IInv, TypeOK
<1> QED
  BY <1>1 DEF Calm, Attended

LEMMA CalmReads ==
  ASSUME RInv, DInv', Legal, Calm
  PROVE  RInv'
<1>1. ASSUME NEW t \in Txs \ upset', Attended(t)' PROVE Kept(t)'
  <2>1. t \notin upset /\ Attended(t)
    BY <1>1, CalmAttends DEF RInv, DInv, Legal
  <2>2. Current(t)' = Current(t) /\ reading' = reading /\ stopped' = stopped
    BY <1>1 DEF Calm, weighing
  <2> QED
    BY <2>1, <2>2 DEF RInv, Kept
<1> QED
  BY <1>1 DEF RInv

\* One handler moves, one message comes or goes, one loop stops.
LEMMA CalmStep ==
  ASSUME IInv, UNCHANGED weighing, \A t \in Txs \ upset' : Current(t)' = Current(t),
         \/ run' = run
         \/ \E h \in Handlers : \E f :
                run' = [run EXCEPT ![h] = f] /\ f.pc \notin {"announce", "arm"},
         \/ net' = net
         \/ \E m \in Message : Receive(m)
         \/ \E m \in Message : m.type # "BIN_OPENED" /\ Send(m)
         \/ \E m, n \in Message : n.type # "BIN_OPENED" /\ ReceiveAndSend(m, n),
         poll' = poll \/ \E t \in Txs : poll' = [poll EXCEPT ![t] = 0]
  PROVE  Calm
<1>1. net \in [Message -> Nat] /\ poll \in [Txs -> StepIds] /\ run \in [Handlers -> Frame]
  BY DEF IInv, TypeOK
<1>2. \A m \in Message : m.type = "BIN_OPENED" => net'[m] <= net[m]
  <2>1. CASE net' = net
    BY <1>1, <2>1
  <2>2. ASSUME NEW m \in Message, Receive(m)
        PROVE  \A n \in Message : net'[n] <= net[n]
    BY <1>1, <2>2 DEF Receive, InFlight
  <2>3. ASSUME NEW m \in Message, m.type # "BIN_OPENED", Send(m)
        PROVE  \A n \in Message : n.type = "BIN_OPENED" => net'[n] <= net[n]
    BY <1>1, <2>3 DEF Send
  <2>4. ASSUME NEW m \in Message, NEW n \in Message, n.type # "BIN_OPENED", ReceiveAndSend(m, n)
        PROVE  \A x \in Message : x.type = "BIN_OPENED" => net'[x] <= net[x]
    BY <1>1, <2>4 DEF ReceiveAndSend, InFlight
  <2> QED
    BY <2>1, <2>2, <2>3, <2>4
<1>3. \A t \in Txs : poll'[t] # 0 => poll'[t] = poll[t]
  BY <1>1
<1>4. \A h \in Handlers : run'[h].pc \in {"announce", "arm"} => run'[h] = run[h]
  BY <1>1
<1> QED
  BY <1>2, <1>3, <1>4 DEF Calm

\* Where the promise leaves the step alone, so does the engine.
LEMMA SameStepAt ==
  ASSUME UNCHANGED upset,
         \/ UNCHANGED Lifecycle!lifecycleVars
         \/ \E t \in Txs : Lifecycle!Finish(t) \/ Lifecycle!Abandon(t)
         \/ \E t \in Txs : \E how \in {"credited", "skipped"} : Lifecycle!Settle(t, how)
  PROVE  \A t \in Txs \ upset' : Current(t)' = Current(t)
<1>1. [t \in Txs |-> StepAt(t)'] = [t \in Txs |-> StepAt(t)]
  BY DEF Lifecycle!lifecycleVars, Lifecycle!Finish, Lifecycle!Abandon, Lifecycle!Settle
<1>2. \A t \in Txs : StepAt(t)' = StepAt(t)
  BY <1>1
<1> QED
  BY <1>2 DEF StepAt, Current

LEMMA HandlerCalm ==
  ASSUME DInv, NEW h \in Handlers, run[h].tx \notin upset,
         \/ BeginProcessing(h) \/ ExecuteStep(h) \/ LockFails(h) \/ GiveUp(h)
         \/ ReportOpenFailure(h) \/ PollSeesClosed(h) \/ PollSeesNoStatus(h)
         \/ PollSeesNothing(h) \/ AnnounceClosed(h) \/ CheckQuantities(h) \/ RecordHistory(h)
  PROVE  Calm
<1> DEFINE Moves == \E f : run' = [run EXCEPT ![h] = f] /\ f.pc \notin {"announce", "arm"}
           Mailed == net' = net \/ \E m \in Message : m.type # "BIN_OPENED" /\ Send(m)
<1>1. run[h] \in Frame /\ Idle.pc = "idle"
  BY DEF DInv, IInv, TypeOK, Idle
<1>2. \A t \in Txs \ upset' : Current(t)' = Current(t)
  <2>1. UNCHANGED upset
    BY DEF BeginProcessing, ExecuteStep, LockFails, GiveUp, ReportOpenFailure, PollSeesClosed,
       PollSeesNoStatus, PollSeesNothing, AnnounceClosed, CheckQuantities, RecordHistory, bounds
  <2> QED
    BY <2>1, OtherSteps, RecordHistoryRefines, SameStepAt
<1>3. End(h) => Moves
  BY <1>1 DEF End
<1>4. \A pc \in Pc : Goto(h, pc) /\ pc \notin {"announce", "arm"} => Moves
  <2> SUFFICES ASSUME NEW pc \in Pc, Goto(h, pc), pc \notin {"announce", "arm"} PROVE Moves
    OBVIOUS
  <2>1. PICK f : f = [run[h] EXCEPT !.pc = pc]
    OBVIOUS
  <2>2. f.pc = pc /\ run' = [run EXCEPT ![h] = f]
    BY <1>1, <2>1 DEF Goto, Frame
  <2> QED
    BY <2>2
<1>5. Moves /\ Mailed /\ UNCHANGED <<poll, weighing>>
  <2>1. CASE BeginProcessing(h)
    <3>1. PICK f : f = [run[h] EXCEPT !.pc = "execute",
                                      !.entity = [run[h].entity EXCEPT !.status = "PROCESSING"]]
      OBVIOUS
    <3>2. f.pc = "execute" /\ run' = [run EXCEPT ![h] = f]
      BY <1>1, <2>1, <3>1 DEF BeginProcessing, Frame
    <3> QED
      BY <2>1, <3>2 DEF BeginProcessing
  <2>2. CASE ExecuteStep(h)
    <3>1. run[h].entity.currentStepId \in StepsOf(run[h].tx)
      BY <2>2, WorkFacts DEF ExecuteStep, Pc, Polling, Current
    <3>2. PICK pc \in {"history", "open"} : \E b, n :
            \/ run' = [run EXCEPT ![h] = [run[h] EXCEPT !.pc = pc, !.step = run[h].entity.currentStepId]]
            \/ run' = [run EXCEPT ![h] = [[run[h] EXCEPT !.pc = pc, !.step = run[h].entity.currentStepId]
                                          EXCEPT !.bin = b, !.attempt = n]]
      BY <2>2, <3>1 DEF ExecuteStep, SkipFailedBin
    <3>3. PICK b, n :
            \/ run' = [run EXCEPT ![h] = [run[h] EXCEPT !.pc = pc, !.step = run[h].entity.currentStepId]]
            \/ run' = [run EXCEPT ![h] = [[run[h] EXCEPT !.pc = pc, !.step = run[h].entity.currentStepId]
                                          EXCEPT !.bin = b, !.attempt = n]]
      BY <3>2
    <3>4. Moves
      <4>1. PICK f : /\ run' = [run EXCEPT ![h] = f]
                     /\ \/ f = [run[h] EXCEPT !.pc = pc, !.step = run[h].entity.currentStepId]
                        \/ f = [[run[h] EXCEPT !.pc = pc, !.step = run[h].entity.currentStepId]
                                EXCEPT !.bin = b, !.attempt = n]
        BY <3>3
      <4>2. f.pc = pc
        BY <1>1, <4>1 DEF Frame
      <4> QED
        BY <4>1, <4>2
    <3> QED
      BY <2>2, <3>1, <3>4 DEF ExecuteStep
  <2>3. CASE LockFails(h)
    <3>1. PICK f : f = [run[h] EXCEPT !.bin = [run[h].bin EXCEPT !.attempted = TRUE],
                          !.attempt = IF @ < MaxAttempts THEN @ + 1 ELSE @,
                          !.pc = AfterFailure(run[h].attempt)]
      OBVIOUS
    <3>2. f.pc = AfterFailure(run[h].attempt) /\ run' = [run EXCEPT ![h] = f]
      BY <1>1, <2>3, <3>1 DEF LockFails, Frame
    <3> QED
      BY <2>3, <3>2 DEF LockFails, AfterFailure
  <2>4. CASE GiveUp(h)
    <3>1. PICK f : f = [run[h] EXCEPT !.pc = "stepFail", !.bin = [run[h].bin EXCEPT !.isFailed = TRUE]]
      OBVIOUS
    <3>2. f.pc = "stepFail" /\ run' = [run EXCEPT ![h] = f]
      BY <1>1, <2>4, <3>1 DEF GiveUp, Frame
    <3> QED
      BY <2>4, <3>2 DEF GiveUp
  <2>5. CASE ReportOpenFailure(h)
    <3>1. run[h].tx \in Txs
      BY <2>5, WorkFacts DEF ReportOpenFailure, Pc
    <3> QED
      BY <1>3, <2>5, <3>1, ZeroFacts, MsgFacts DEF ReportOpenFailure, MessageType
  <2>6. CASE PollSeesClosed(h) \/ PollSeesNoStatus(h)
    BY <1>4, <2>6 DEF PollSeesClosed, PollSeesNoStatus, Pc
  <2>7. CASE PollSeesNothing(h)
    BY <1>3, <2>7 DEF PollSeesNothing
  <2>8. CASE AnnounceClosed(h)
    <3>1. run[h].tx \in Txs /\ run[h].step \in StepIds
      BY <1>1, <2>8, WorkFacts DEF AnnounceClosed, Pc, Frame
    <3> QED
      BY <1>3, <2>8, <3>1, MsgFacts DEF AnnounceClosed, MessageType
  <2>9. CASE CheckQuantities(h)
    <3>1. run[h].tx \in Txs /\ run[h].step \in StepIds
      BY <1>1, <2>9, WorkFacts DEF CheckQuantities, Pc, Frame
    <3>2. net' = net \/ \E type \in {"STEP_SUCCESS", "STEP_ERROR"} : Send(Msg(type, run[h].tx, run[h].step))
      BY <2>9 DEF CheckQuantities
    <3>3. Mailed
      BY <3>1, <3>2, MsgFacts DEF MessageType
    <3> QED
      BY <1>3, <2>9, <3>3 DEF CheckQuantities
  <2>10. CASE RecordHistory(h)
    BY <1>3, <1>4, <2>10 DEF RecordHistory, Pc
  <2> QED
    BY <2>1, <2>2, <2>3, <2>4, <2>5, <2>6, <2>7, <2>8, <2>9, <2>10
<1> QED
  BY <1>2, <1>5, CalmStep DEF DInv

\* The handlers that begin, and the messages handled at once.
LEMMA MessageCalm ==
  ASSUME DInv, NEW t \in Txs \ upset,
         \/ OnErrorAnnounced(t) \/ OnForceEnd(t)
         \/ \E s \in StepsOf(t) : OnStepError(t, s)
         \/ \E h \in Handlers : \/ OnStart(h, t) \/ OnForceNext(h, t)
                                \/ \E s \in StepsOf(t) : OnBinClosed(h, t, s) \/ OnStepSuccess(h, t, s)
  PROVE  Calm
<1> DEFINE Moves == \/ run' = run
                    \/ \E h \in Handlers : \E f :
                           run' = [run EXCEPT ![h] = f] /\ f.pc \notin {"announce", "arm"}
           Mailed == \/ net' = net
                     \/ \E m \in Message : Receive(m)
                     \/ \E m, n \in Message : n.type # "BIN_OPENED" /\ ReceiveAndSend(m, n)
           Stilled == poll' = poll \/ poll' = [poll EXCEPT ![t] = 0]
<1>1. \A pc, s, e : Begin(pc, t, s, e).pc = pc
  BY DEF Begin, Idle
<1>2. \A type \in MessageType, s \in StepIds : Msg(type, t, s) \in Message /\ Msg(type, t, s).type = type
  BY MsgFacts
<1>3. 0 \in StepIds /\ StepsOf(t) \subseteq StepIds
  BY ZeroFacts, StepFacts
<1>4. CASE OnErrorAnnounced(t) \/ OnForceEnd(t)
  <2>1. Moves /\ Mailed /\ Stilled /\ UNCHANGED weighing
    BY <1>2, <1>3, <1>4 DEF OnErrorAnnounced, OnForceEnd, MessageType
  <2>2. \A u \in Txs \ upset' : Current(u)' = Current(u)
    <3>1. UNCHANGED upset
      BY <1>4 DEF OnErrorAnnounced, OnForceEnd, bounds
    <3> QED
      BY <1>4, <3>1, ForceEndRefines, Unwritten, SameStepAt DEF OnErrorAnnounced, records, history
  <2> QED
    BY <2>1, <2>2, CalmStep DEF DInv
<1>5. ASSUME NEW s \in StepsOf(t), OnStepError(t, s) PROVE Calm
  <2>1. Moves /\ Mailed /\ Stilled /\ UNCHANGED weighing
    BY <1>2, <1>3, <1>5 DEF OnStepError, MessageType
  <2>2. \A u \in Txs \ upset' : Current(u)' = Current(u)
    BY <1>5, StepErrorRefines, SameStepAt DEF OnStepError, bounds
  <2> QED
    BY <2>1, <2>2, CalmStep DEF DInv
<1>6. ASSUME NEW h \in Handlers, OnForceNext(h, t) PROVE Calm
  <2>1. \A u \in Txs \ upset' : Current(u)' = Current(u)
    BY <1>6, ForceNextRefines, SameStepAt DEF OnForceNext, bounds
  <2>2. Mailed /\ Stilled /\ UNCHANGED weighing
    BY <1>2, <1>3, <1>6 DEF OnForceNext, MessageType
  <2>3. Moves
    <3>1. \A f : f = [Begin("advance", t, tx[t].lastError, tx[t]) EXCEPT !.isForced = TRUE]
                 => f.pc = "advance"
      BY DEF Begin, Idle
    <3>2. \/ run' = run
          \/ run' = [run EXCEPT ![h] = [Begin("advance", t, tx[t].lastError, tx[t]) EXCEPT !.isForced = TRUE]]
      BY <1>6 DEF OnForceNext
    <3> QED
      BY <3>1, <3>2
  <2> QED
    BY <2>1, <2>2, <2>3, CalmStep DEF DInv
<1>7. ASSUME NEW h \in Handlers,
             \/ OnStart(h, t)
             \/ \E s \in StepsOf(t) : OnBinClosed(h, t, s) \/ OnStepSuccess(h, t, s)
      PROVE  Calm
  <2>1. UNCHANGED <<tx, credited, forced>> /\ Mailed /\ Stilled /\ UNCHANGED weighing
    BY <1>2, <1>3, <1>7 DEF OnStart, OnBinClosed, OnStepSuccess, StopPolling,
       MessageType, records, history
  <2>2. \A u \in Txs \ upset' : Current(u)' = Current(u)
    BY <2>1 DEF Current
  <2>3. PICK pc \in {"start", "check", "history"} : \E s, e :
          run' = [run EXCEPT ![h] = Begin(pc, t, s, e)]
    BY <1>7 DEF OnStart, OnBinClosed, OnStepSuccess
  <2>4. Moves
    <3>1. PICK f : (\E s, e : f = Begin(pc, t, s, e)) /\ run' = [run EXCEPT ![h] = f]
      BY <2>3
    <3>2. f.pc = pc
      BY <1>1, <3>1
    <3> QED
      BY <3>1, <3>2
  <2> QED
    BY <2>1, <2>2, <2>4, CalmStep DEF DInv
<1> QED
  BY <1>4, <1>5, <1>6, <1>7

LEMMA PollTickCalm ==
  ASSUME DInv, NEW h \in Handlers, NEW t \in Txs, PollTick(h, t)
  PROVE  Calm
<1>1. PICK f : f = Begin("poll", t, poll[t], NoDocument)
  OBVIOUS
<1>2. f.pc = "poll" /\ run' = [run EXCEPT ![h] = f]
  BY <1>1 DEF Begin, Idle, PollTick
<1>3. UNCHANGED <<tx, net, poll, weighing>>
  BY DEF PollTick
<1> QED
  BY <1>2, <1>3, CalmStep DEF DInv, Current

\* The steps of the environment.
LEMMA EnvironmentCalm ==
  ASSUME DInv,
         \/ UNCHANGED vars \/ Crash
         \/ \E b \in Bins : CloseDoor(b)
         \/ \E t \in Txs, type \in Forces : Answer(t, type)
         \/ \E m \in Message : Lose(m)
  PROVE  Calm
<1>1. UNCHANGED <<tx, weighing>>
  BY DEF vars, Crash, CloseDoor, Answer, Lose, weighing
<1>2. \A u \in Txs : Current(u)' = Current(u)
  BY <1>1 DEF Current
<1>3. CASE Crash
  <2>1. net \in [Message -> Nat] /\ \A m \in Message : net'[m] \in {0, net[m]}
    BY <1>3 DEF Crash, DInv, IInv, TypeOK
  <2>2. (\A h \in Handlers : run'[h].pc = "idle") /\ \A u \in Txs : poll'[u] = 0
    BY <1>3 DEF Crash, Idle
  <2> QED
    BY <1>1, <1>2, <2>1, <2>2 DEF Calm
<1>4. ASSUME NEW t \in Txs, NEW type \in Forces, Answer(t, type) PROVE Calm
  <2>1. Msg(type, t, 0) \in Message /\ Msg(type, t, 0).type # "BIN_OPENED"
    BY ZeroFacts, MsgFacts DEF MessageType, Forces
  <2>2. Send(Msg(type, t, 0)) /\ UNCHANGED <<run, poll>>
    BY <1>4 DEF Answer
  <2> QED
    BY <1>1, <1>2, <2>1, <2>2, CalmStep DEF DInv
<1>5. CASE UNCHANGED vars \/ (\E b \in Bins : CloseDoor(b)) \/ \E m \in Message : Lose(m)
  <2>1. UNCHANGED <<run, poll>> /\ (net' = net \/ \E m \in Message : Receive(m))
    BY <1>5 DEF vars, CloseDoor, Lose
  <2> QED
    BY <1>1, <1>2, <2>1, CalmStep DEF DInv
<1> QED
  BY <1>3, <1>4, <1>5

\* A step about transaction t: the others are attended as before.
LEMMA OthersRead ==
  ASSUME RInv, DInv', Legal, NEW t \in Txs, \A u \in Txs \ {t} : Same(u), reading \subseteq reading',
         \A u \in Txs \ {t} : stopped'[u] = stopped[u],
         t \notin upset' /\ Attended(t)' => Kept(t)'
  PROVE  RInv'
<1>1. ASSUME NEW u \in Txs \ {t}, u \notin upset', Attended(u)' PROVE Kept(u)'
  <2>1. Attended(u)
    BY <1>1 DEF Same, Attended, InFlight
  <2>2. Kept(u)
    BY <1>1, <2>1 DEF RInv, Legal
  <2> QED
    BY <2>2 DEF Kept, Same, Current
<1> QED
  BY <1>1 DEF RInv

\* A handler whose transaction is attended at its current step goes on.
LEMMA SameOthers ==
  ASSUME DInv, NEW h \in Handlers, NEW t \in Txs, run[h].tx = t, NEW f \in Frame,
         f.tx \in {t, NoTx}, run' = [run EXCEPT ![h] = f], Elsewhere(t)
  PROVE  \A u \in Txs \ {t} : Same(u)
BY ElsewhereSame DEF DInv

\* A step is not attended yet when its lock has opened: the reading begins first.
LEMMA LockOpensReads ==
  ASSUME RInv, DInv', Legal, NEW h \in Handlers, run[h].tx \notin upset, LockOpens(h)
  PROVE  RInv'
<1>1. PICK g \in Frame, t \in Txs : /\ g = run[h] /\ g.pc = "open" /\ t = g.tx /\ Mail(t) = {}
                                    /\ poll[t] = 0 /\ t \notin upset
  BY WorkFacts DEF RInv, LockOpens, Pc, Polling
<1> DEFINE state == [g.bin EXCEPT !.isLocked = FALSE, !.attempted = FALSE]
           f == [g EXCEPT !.bin = state, !.pc = "trigger"]
<1>2. state \in BinState
  BY DEF Frame, BinState
<1>3. f \in Frame /\ f.pc = "trigger" /\ f.tx = t
  BY <1>1, <1>2 DEF Frame, Pc
<1>4. run' = [run EXCEPT ![h] = f]
      /\ UNCHANGED <<tx, net, poll, popup, results, credited, forced, reading, stopped>>
  BY <1>1 DEF LockOpens, AfterOpening, records, weighing
<1> HIDE DEF f
<1>5. \A u \in Txs \ {t} : Same(u)
  BY <1>1, <1>3, <1>4, SameOthers DEF RInv, Elsewhere
<1>6. ~Attended(t)'
  <2>1. \A g1 \in Handlers : run[g1].tx = t => g1 = h
    BY <1>1, HandlerAlone DEF RInv
  <2>2. \A m \in Message : m.tx = t /\ m.type = "BIN_OPENED" => ~InFlight(m)'
    BY <1>1, <1>4 DEF Mail, Ends, InFlight
  <2>3. \A g1 \in Handlers : run'[g1] = IF g1 = h THEN f ELSE run[g1]
    BY <1>4 DEF RInv, DInv, IInv, TypeOK
  <2> QED
    BY <1>1, <1>3, <1>4, <2>1, <2>2, <2>3 DEF Attended
<1> QED
  BY <1>4, <1>5, <1>6, OthersRead

LEMMA TriggerReads ==
  ASSUME RInv, DInv', Legal, NEW h \in Handlers, run[h].tx \notin upset, TriggerReading(h)
  PROVE  RInv'
<1>1. PICK g \in Frame, t \in Txs : g = run[h] /\ t = g.tx /\ g.step = Current(t)
  BY WorkFacts DEF RInv, TriggerReading, Pc, Polling
<1> DEFINE f == [g EXCEPT !.pc = "announce"]
<1>2. f \in Frame /\ f.tx = t
  BY <1>1 DEF Frame, Pc
<1>3. run' = [run EXCEPT ![h] = f] /\ reading' = reading \cup {BinOf(t, Current(t))}
      /\ UNCHANGED <<tx, net, poll, popup, results, credited, forced>>
  BY <1>1 DEF TriggerReading, Goto, records, history
<1> HIDE DEF f
<1>4. \A u \in Txs \ {t} : Same(u)
  BY <1>1, <1>2, <1>3, SameOthers DEF RInv, Elsewhere
<1>5. Kept(t)'
  BY <1>3 DEF Kept, Current
<1>6. \A u \in Txs \ {t} : stopped'[u] = stopped[u]
  BY <1>1 DEF TriggerReading, RInv, DInv, IInv, TypeOK
<1> QED
  BY <1>3, <1>4, <1>5, <1>6, OthersRead

\* The lock of an attended transaction goes on being attended.
LEMMA PassesAttention ==
  ASSUME RInv, DInv', Legal, NEW t \in Txs \ upset, \A u \in Txs \ {t} : Same(u), Attended(t),
         UNCHANGED <<tx, weighing>>
  PROVE  RInv'
BY OthersRead DEF RInv, Kept, Current, weighing

LEMMA HandsAttention ==
  ASSUME RInv, DInv', Legal, NEW h \in Handlers, run[h].tx \notin upset,
         AnnounceOpened(h) \/ ArmPolling(h)
  PROVE  RInv'
<1>1. PICK t \in Txs \ upset, s \in StepIds : /\ t = run[h].tx /\ s = run[h].step
                                      /\ run[h].pc \in {"announce", "arm"}
  <2>1. AnnounceOpened(h) => run[h].tx \in Txs /\ run[h].pc = "announce" /\ run[h] \in Frame
    BY WorkFacts DEF RInv, AnnounceOpened, Pc
  <2>2. ArmPolling(h) => run[h].tx \in Txs /\ run[h].pc = "arm" /\ run[h] \in Frame
    BY WorkFacts DEF RInv, ArmPolling, Pc
  <2> QED
    BY <2>1, <2>2 DEF Frame
<1>2. Attended(t)
  BY <1>1 DEF Attended
<1>3. Msg("BIN_OPENED", t, s) \in Message /\ Msg("BIN_OPENED", t, s).tx = t
  BY MsgFacts DEF MessageType
<1>4. End(h) /\ UNCHANGED <<tx, popup, results, credited, forced, weighing>>
  BY DEF AnnounceOpened, ArmPolling, records, history
<1>5. /\ \A m \in Message : m.tx # t => net'[m] = net[m]
      /\ \A u \in Txs \ {t} : poll'[u] = poll[u]
  BY <1>1, <1>3 DEF AnnounceOpened, ArmPolling, Send, RInv, DInv, IInv, TypeOK
<1>6. \A u \in Txs \ {t} : Same(u)
  BY <1>1, <1>4, <1>5, IdleFrame, SameOthers DEF RInv, Elsewhere, End, Idle
<1> QED
  BY <1>2, <1>4, <1>6, PassesAttention

LEMMA BinOpenedReads ==
  ASSUME RInv, DInv', Legal, NEW h \in Handlers, NEW t \in Txs \ upset, NEW s \in StepsOf(t),
         OnBinOpened(h, t, s)
  PROVE  RInv'
<1> DEFINE m == Msg("BIN_OPENED", t, s)
<1>1. m \in Message /\ m.tx = t /\ m.type = "BIN_OPENED" /\ s \in StepIds
  BY StepFacts, MsgFacts DEF MessageType
<1>2. /\ IsIdle(h) /\ Receive(m) /\ InFlight(m) /\ run' = [run EXCEPT ![h] = Begin("arm", t, s, tx[t])]
      /\ poll' = [poll EXCEPT ![t] = 0]
      /\ UNCHANGED <<tx, popup, results, credited, forced, weighing>>
  BY DEF OnBinOpened, StopPolling, Receive, records, history
<1> HIDE DEF m
<1>3. Attended(t)
  BY <1>1, <1>2 DEF Attended
<1>4. Elsewhere(t)
  BY <1>1, <1>2 DEF Elsewhere, Receive, RInv, DInv, IInv, TypeOK
<1>5. PICK f \in Frame : f = Begin("arm", t, s, tx[t])
  BY <1>1, BeginFrame DEF Pc, RInv, DInv, IInv, TypeOK
<1>6. f.tx = t
  BY <1>5 DEF Begin, Idle
<1>7. \A u \in Txs \ {t} : Same(u)
  BY <1>2, <1>4, <1>5, <1>6, IdleFacts, ElsewhereSame DEF RInv, DInv
<1> QED
  BY <1>2, <1>3, <1>7, PassesAttention

\* After the step before it, a step is not attended yet.
LEMMA AdvanceReads ==
  ASSUME RInv, DInv', Legal, NEW h \in Handlers, run[h].tx \notin upset, Advance(h)
  PROVE  RInv'
<1>1. PICK t \in Txs \ upset : t = run[h].tx /\ Mail(t) = {} /\ poll[t] = 0
  BY WorkFacts DEF RInv, Advance, Pc, Polling
<1> DEFINE m == Msg("TRANSACTION_COMPLETED", t, 0)
<1>2. m \in Message /\ m.tx = t /\ m.type # "BIN_OPENED"
  BY ZeroFacts, MsgFacts DEF MessageType
<1>3. PICK f : /\ run' = [run EXCEPT ![h] = f]
               /\ f = Idle \/ \E e : f = [Idle EXCEPT !.pc = "execute", !.tx = t, !.entity = e]
  BY <1>1 DEF Advance, End
<1>4. f.tx \in {t, NoTx} /\ f.pc \notin {"announce", "arm"}
  <2>1. CASE f = Idle
    BY <2>1 DEF Idle
  <2>2. ASSUME NEW e, f = [Idle EXCEPT !.pc = "execute", !.tx = t, !.entity = e]
        PROVE  f.tx = t /\ f.pc = "execute"
    BY <2>2 DEF Idle
  <2> QED
    BY <1>3, <2>1, <2>2
<1>5. (net' = net \/ Send(m)) /\ UNCHANGED <<poll, popup, results, credited, forced, reading, stopped>>
      /\ \A u \in Txs \ {t} : tx'[u] = tx[u]
  BY <1>1 DEF Advance, records, history, weighing, RInv, DInv, IInv, TypeOK
<1> HIDE DEF m
<1>6. \A x \in Message : x.tx # t \/ x.type = "BIN_OPENED" => net'[x] = net[x]
  BY <1>2, <1>5 DEF Send, RInv, DInv, IInv, TypeOK
<1>7. \A g \in Handlers : run[g].tx = t => g = h
  BY <1>1, HandlerAlone DEF RInv
<1>8. \A u \in Txs \ {t} : Same(u)
  <2>1. run \in [Handlers -> Frame] /\ NoTx \notin Txs
    BY ParameterAssumption DEF RInv, DInv, IInv, TypeOK
  <2>2. \A g \in Handlers : run'[g] = IF g = h THEN f ELSE run[g]
    BY <1>3, <2>1
  <2>3. ASSUME NEW u \in Txs \ {t}
        PROVE  \A g \in Handlers : run[g].tx = u \/ run'[g].tx = u => run'[g] = run[g]
    BY <1>1, <1>4, <2>1, <2>2
  <2>4. \A u \in Txs \ {t} : \A x \in Message : x.tx = u => net'[x] = net[x]
    BY <1>6
  <2> QED
    BY <1>5, <2>3, <2>4 DEF Same
<1>9. ~Attended(t)'
  <2>1. \A x \in Message : x.tx = t /\ x.type = "BIN_OPENED" => ~InFlight(x)'
    BY <1>1, <1>6 DEF Mail, InFlight, Ends
  <2>2. \A g \in Handlers : run'[g].tx = t => run'[g].pc \notin {"announce", "arm"}
    BY <1>3, <1>4, <1>7 DEF RInv, DInv, IInv, TypeOK
  <2> QED
    BY <1>1, <1>5, <2>1, <2>2 DEF Attended
<1> QED
  BY <1>5, <1>8, <1>9, OthersRead

LEMMA CreateReads ==
  ASSUME RInv, DInv', Legal, NEW t \in Txs \ upset, CreateAndStart(t)
  PROVE  RInv'
<1> DEFINE m == Msg("START", t, 0)
<1>1. m \in Message /\ m.tx = t /\ m.type # "BIN_OPENED"
  BY ZeroFacts, MsgFacts DEF MessageType
<1>2. /\ Send(m) /\ UNCHANGED <<run, poll, popup, results, credited, forced, reading, stopped>>
      /\ \A u \in Txs \ {t} : tx'[u] = tx[u]
  BY DEF CreateAndStart, records, history, weighing, RInv, DInv, IInv, TypeOK
<1> HIDE DEF m
<1>3. \A x \in Message : x # m => net'[x] = net[x]
  BY <1>1, <1>2 DEF Send, RInv, DInv, IInv, TypeOK
<1>4. \A u \in Txs \ {t} : Same(u)
  BY <1>1, <1>2, <1>3 DEF Same
<1>5. ~Attended(t)
  BY AttendedRuns DEF CreateAndStart, RInv, DInv, IInv, DocumentInv, Created, StepsOf, Current
<1>6. ~Attended(t)'
  BY <1>1, <1>2, <1>3, <1>5 DEF Attended, InFlight
<1> QED
  BY <1>2, <1>4, <1>6, OthersRead

\* The end of a transaction stops the reading of the bins of its plan, for whomever.
LEMMA EndedReads ==
  ASSUME RInv, DInv', Legal, NEW t \in Txs, OnEnded(t)
  PROVE  RInv'
<1>1. PICK m \in Message : m.tx = t /\ m.type \in Ends /\ Receive(m) /\ InFlight(m)
  <2>1. PICK type \in Ends : Receive(Msg(type, t, 0))
    BY DEF OnEnded, Ends
  <2>2. Msg(type, t, 0) \in Message /\ Msg(type, t, 0).tx = t /\ Msg(type, t, 0).type = type
    BY ZeroFacts, MsgFacts DEF MessageType, Ends
  <2> QED
    BY <2>1, <2>2 DEF Receive
<1> DEFINE all == {BinOf(t, s) : s \in StepsOf(t)}
<1>2. /\ reading' = reading \ all
      /\ \A u \in Txs \ {t} : stopped'[u] = stopped[u] \cup {s \in StepsOf(u) : BinOf(u, s) \in all}
      /\ UNCHANGED <<tx, run, poll, upset>>
  BY DEF OnEnded, StopReadingAll, bounds
<1> HIDE DEF all
<1>3. \A n \in Message : InFlight(n)' => InFlight(n)
  BY <1>1 DEF Receive, InFlight, RInv, DInv, IInv, TypeOK
<1>4. t \notin upset => ~Running(t)
  BY <1>1 DEF RInv, DInv, Driven, DriverHolds
<1>5. ASSUME NEW u \in Txs \ upset', Attended(u)' PROVE Kept(u)'
  <2>1. u \in Txs \ upset /\ Attended(u)
    BY <1>2, <1>3, <1>5 DEF Attended
  <2>2. Running(u) /\ Current(u) \in StepsOf(u) /\ Kept(u)
    BY <2>1, AttendedRuns DEF RInv
  <2>3. u # t
    BY <1>4, <2>1, <2>2
  <2>4. stopped'[u] = stopped[u] \cup {s \in StepsOf(u) : BinOf(u, s) \in all}
    BY <1>2, <2>3
  <2>5. Current(u)' = Current(u)
    BY <1>2 DEF Current
  <2>6. CASE BinOf(u, Current(u)) \in all
    BY <2>2, <2>4, <2>5, <2>6 DEF Kept
  <2>7. CASE BinOf(u, Current(u)) \notin all
    BY <1>2, <2>2, <2>4, <2>5, <2>7 DEF Kept
  <2> QED
    BY <2>6, <2>7
<1> QED
  BY <1>5 DEF RInv

\* A step about a transaction that was upset, but for its end, stops no reading.
LEMMA TouchedReads ==
  ASSUME RInv, DInv', Legal, NEW t \in Txs, t \in upset', Touches(t), reading \subseteq reading',
         \A u \in Txs \ {t} : stopped'[u] = stopped[u]
  PROVE  RInv'
BY OthersRead DEF Touches

LEMMA HandlerWeighing ==
  ASSUME DInv, NEW h \in Handlers, HandlerStep(h)
  PROVE  reading \subseteq reading' /\ \A u \in Txs \ {run[h].tx} : stopped'[u] = stopped[u]
<1>1. CASE TriggerReading(h)
  BY <1>1 DEF TriggerReading, DInv, IInv, TypeOK
<1>2. CASE ~TriggerReading(h)
  BY <1>2 DEF HandlerStep, BeginProcessing, ExecuteStep, LockOpens, LockFails, GiveUp,
     ReportOpenFailure, AnnounceOpened, ArmPolling, PollSeesClosed, PollSeesNoStatus,
     PollSeesNothing, AnnounceClosed, CheckQuantities, RecordHistory, Advance, weighing
<1> QED
  BY <1>1, <1>2

LEMMA NextReads ==
  ASSUME RInv, [Next]_vars
  PROVE  RInv'
<1>1. DInv /\ DInv' /\ Legal
  BY NextDriven, NextInv, NextUpset DEF RInv, DInv, Legal
<1>2. CASE UNCHANGED vars
  BY <1>1, <1>2, EnvironmentCalm, CalmReads
<1>3. ASSUME NEW t \in Txs, CreateAndStart(t) \/ HandleAtOnce(t)
      PROVE  RInv'
  <2>1. CASE OnEnded(t)
    BY <1>1, <2>1, EndedReads
  <2>2. CASE t \in upset /\ ~OnEnded(t)
    <3>1. reading' = reading /\ stopped' = stopped
      BY <1>3, <2>2 DEF CreateAndStart, HandleAtOnce, OnStepError, OnErrorAnnounced, OnForceEnd,
         weighing
    <3> QED
      BY <1>1, <1>3, <2>2, <3>1, AtOnceTouches, TouchedReads
  <2>3. CASE t \notin upset /\ ~OnEnded(t)
    BY <1>1, <1>3, <2>3, CreateReads, MessageCalm, CalmReads DEF HandleAtOnce
  <2> QED
    BY <2>1, <2>2, <2>3
<1>4. ASSUME NEW h \in Handlers, HandlerStep(h)
      PROVE  RInv'
  <2>1. CASE run[h].tx \in upset
    BY <1>1, <1>4, <2>1, HandlerTouches, HandlerWeighing, TouchedReads
  <2>2. CASE run[h].tx \notin upset
    BY <1>1, <1>4, <2>2, HandlerCalm, CalmReads, LockOpensReads, TriggerReads, HandsAttention,
       AdvanceReads DEF HandlerStep
  <2> QED
    BY <2>1, <2>2
<1>5. ASSUME NEW h \in Handlers, NEW t \in Txs, Dispatch(h, t)
      PROVE  RInv'
  <2>1. CASE t \in upset
    <3>1. reading' = reading /\ stopped' = stopped
      BY <1>5 DEF Dispatch, OnStart, OnForceNext, OnBinOpened, OnBinClosed, OnStepSuccess, weighing
    <3> QED
      BY <1>1, <1>5, <2>1, <3>1, DispatchTouches, TouchedReads
  <2>2. CASE t \notin upset
    BY <1>1, <1>5, <2>2, MessageCalm, CalmReads, BinOpenedReads DEF Dispatch
  <2> QED
    BY <2>1, <2>2
<1>6. ASSUME NEW h \in Handlers, NEW t \in Txs, PollTick(h, t)
      PROVE  RInv'
  BY <1>1, <1>6, PollTickCalm, CalmReads
<1>7. ASSUME \/ \E b \in Bins : CloseDoor(b)
             \/ \E t \in Txs, type \in Forces : Answer(t, type)
             \/ \E m \in Message : Lose(m)
             \/ Crash
      PROVE  RInv'
  BY <1>1, <1>7, EnvironmentCalm, CalmReads
<1> QED
  BY <1>2, <1>3, <1>4, <1>5, <1>6, <1>7 DEF Next

\* The loadcells of a bin whose lock is watched are read, unless the end of another
\* transaction stopped that, or its own transaction was upset.
THEOREM WatchedIsRead == Spec => []ReadingWhileWatched
<1>1. Init => RInv
  <2> SUFFICES ASSUME Init PROVE RInv
    OBVIOUS
  <2>1. DInv
    BY InitDriven
  <2>2. \A t \in Txs : ~Attended(t)
    BY DEF Init, Attended, Idle, InFlight
  <2> QED
    BY <2>1, <2>2 DEF RInv
<1>2. RInv /\ [Next]_vars => RInv'
  BY NextReads
<1>3. RInv => ReadingWhileWatched
  <2> SUFFICES ASSUME RInv, NEW t \in Txs \ upset, poll[t] # 0, poll[t] \notin stopped[t]
               PROVE  BinOf(t, poll[t]) \in reading
    BY DEF ReadingWhileWatched
  <2>1. poll[t] = Current(t)
    BY DEF RInv, DInv, Driven, DriverHolds, WatchHolds
  <2>2. Kept(t)
    BY DEF RInv, Attended
  <2> QED
    BY <2>1, <2>2 DEF Kept
<1> QED
  BY <1>1, <1>2, <1>3, PTL DEF Spec
=============================================================================
