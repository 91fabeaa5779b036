-------------------------- MODULE LoadcellQuantity --------------------------
(***************************************************************************)
(* The quantity of one calibrated loadcell, as apps/process-worker keeps   *)
(* it: `available` is the quantity on the books, `pending` the change seen *)
(* since the bin was opened, `weight` the last weight handled.  Every      *)
(* weight the hardware reports is handled by LoadcellService; while the    *)
(* bin is unlocked it adds to `pending`, once the bin is locked it commits *)
(* `pending` to `available`.  TransactionService commits too, after a      *)
(* successful step and when the transaction is over.                       *)
(*                                                                         *)
(* All of them read the document, await, and write; a weighing holds an    *)
(* entity whose liveReading is written as a whole.                         *)
(***************************************************************************)
EXTENDS Integers

CONSTANTS
  Weights,   \* net weights the hardware reports, in hundredths of a unit weight
  Slots,     \* slots for weighings in progress (bound on concurrency)
  Apart,     \* the transaction's writes do not overlap with weighings
  MaxOpens   \* bound: how often the bin is opened

ASSUME QuantityAssumption ==
  /\ Weights \subseteq Int
  /\ Apart \in BOOLEAN
  /\ MaxOpens \in Nat

VARIABLES
  cell,      \* the loadcell document: weight, pending, available
  locked,    \* bin.state.isLocked
  reading,   \* the hardware bridge reports this loadcell
  weighing,  \* the weighing handled in each slot
  phase,     \* where the transaction that uses the bin stands
  toCommit,  \* the pendingChange that the transaction's commit has read
  opens,     \* how often the bin was opened
  ignored    \* history: changes of weight first seen while the bin was locked

vars == <<cell, locked, reading, weighing, phase, toCommit, opens, ignored>>
-----------------------------------------------------------------------------
\* _calculateRoundedQuantity: Math.round(q - 0.3) above zero, else
\* Math.round(q + 0.29), of q in hundredths; Math.round(x) is floor(x + 0.5).
Rounded(w) == IF w > 0 THEN (w + 20) \div 100 ELSE (w + 79) \div 100

Cell == [weight : Int, pending : Int, available : Int]
Phase == {"idle", "open", "closed", "stepRead", "stepWrite", "settled", "endRead", "endWrite"}

\* A weighing: the weight reported, the entity loaded, the lock state read.
Weighing == [pc : {"idle", "loaded", "unlocked", "locked"}, weight : Int, entity : Cell]
NoCell == [weight |-> 0, pending |-> 0, available |-> 0]
NoWeighing == [pc |-> "idle", weight |-> 0, entity |-> NoCell]

Busy == \E h \in Slots : weighing[h].pc # "idle"
Committing == phase \in {"stepWrite", "endWrite"}

\* em.flush(): liveReading (weight and pending) is written as a whole if it
\* differs from what was loaded, availableQuantity on its own.
Flush(loaded, entity, stored) ==
  LET liveReading(c) == <<c.weight, c.pending>>
      live == IF liveReading(entity) = liveReading(loaded) THEN stored ELSE entity
  IN  [weight |-> live.weight, pending |-> live.pending,
       available |-> IF entity.available = loaded.available
                     THEN stored.available ELSE entity.available]

Init ==
  /\ \E w \in Weights : cell = [weight |-> w, pending |-> 0, available |-> Rounded(w)]
  /\ locked = TRUE
  /\ reading = FALSE
  /\ weighing = [h \in Slots |-> NoWeighing]
  /\ phase = "idle"
  /\ toCommit = 0
  /\ opens = 0
  /\ ignored = 0
-----------------------------------------------------------------------------
(* LoadcellService: the handler of WEIGHT_CALCULATED                       *)

OnWeighCalculated(h, w) ==
  /\ reading
  /\ Apart => ~Committing
  /\ weighing[h].pc = "idle"
  /\ weighing' = [weighing EXCEPT ![h] = [pc |-> "loaded", weight |-> w, entity |-> cell]]
  /\ UNCHANGED <<cell, locked, reading, phase, toCommit, opens, ignored>>

\* em.populate(loadcell, ['bin']).
PopulateBin(h) ==
  /\ weighing[h].pc = "loaded"
  /\ weighing' = [weighing EXCEPT ![h].pc = IF locked THEN "locked" ELSE "unlocked"]
  /\ UNCHANGED <<cell, locked, reading, phase, toCommit, opens, ignored>>

\* Variant: the change is taken from the stored weight, not from the loaded one.
PendingFromStored(e, w) == e.pending + Rounded(w) - Rounded(cell.weight)

PendingAfter(e, w) == e.pending + Rounded(w) - Rounded(e.weight)

UpdateUnlocked(h) ==
  LET e == weighing[h].entity
      w == weighing[h].weight
      entity == [e EXCEPT !.weight = w, !.pending = PendingAfter(e, w)]
  IN  /\ weighing[h].pc = "unlocked"
      /\ cell' = Flush(e, entity, cell)
      /\ weighing' = [weighing EXCEPT ![h] = NoWeighing]
      /\ UNCHANGED <<locked, reading, phase, toCommit, opens, ignored>>

\* Variant: the weight is taken over, the pending change is left for later.
CommittedLater(e, w) == [weight |-> w, pending |-> e.pending, available |-> e.available]

\* _handleLockedBinUpdate of LoadcellService.
Committed(e, w) == [weight |-> w, pending |-> 0, available |-> e.available + e.pending]

UpdateLocked(h) ==
  LET e == weighing[h].entity
  IN  /\ weighing[h].pc = "locked"
      /\ cell' = Flush(e, Committed(e, weighing[h].weight), cell)
      /\ ignored' = ignored + Rounded(cell'.weight) - Rounded(cell.weight)
      /\ weighing' = [weighing EXCEPT ![h] = NoWeighing]
      /\ UNCHANGED <<locked, reading, phase, toCommit, opens>>
-----------------------------------------------------------------------------
(* The transaction that uses the bin                                       *)

\* The lock opens, and the realtime services are triggered.
OpenBin ==
  /\ phase = "idle" /\ opens < MaxOpens
  /\ Apart => ~Busy
  /\ opens' = opens + 1
  /\ locked' = FALSE /\ reading' = TRUE /\ phase' = "open"
  /\ UNCHANGED <<cell, weighing, toCommit, ignored>>

\* The lock polling finds the lock closed.
CloseBin ==
  /\ phase = "open"
  /\ Apart => ~Busy
  /\ locked' = TRUE /\ phase' = "closed"
  /\ UNCHANGED <<cell, reading, weighing, toCommit, opens, ignored>>

\* The step succeeds; or it fails and the operator skips it, or ends the
\* transaction, which commits nothing and leaves the loadcell being read.
StepEnds ==
  /\ phase = "closed"
  /\ phase' \in {"stepRead", "settled", "idle"}
  /\ UNCHANGED <<cell, locked, reading, weighing, toCommit, opens, ignored>>

\* handleTxComplete: stop reading, then commit.
CompleteTransaction ==
  /\ phase = "settled"
  /\ reading' = FALSE /\ phase' = "endRead"
  /\ UNCHANGED <<cell, locked, weighing, toCommit, opens, ignored>>

\* _handleLockedBinUpdateByStep, _handleLockedBinUpdate: em.find ...
CommitReads ==
  /\ phase \in {"stepRead", "endRead"}
  /\ Apart => ~Busy
  /\ toCommit' = cell.pending
  /\ phase' = IF phase = "stepRead" THEN "stepWrite" ELSE "endWrite"
  /\ UNCHANGED <<cell, locked, reading, weighing, opens, ignored>>

Increment(c, p) == [weight |-> c.weight, pending |-> 0, available |-> c.available + p]

\* ... and bulkWrite of the changes that are not 0.
CommitWrites ==
  /\ Committing
  /\ cell' = IF toCommit = 0 THEN cell ELSE Increment(cell, toCommit)
  /\ phase' = IF phase = "stepWrite" THEN "settled" ELSE "idle"
  /\ toCommit' = 0
  /\ UNCHANGED <<locked, reading, weighing, opens, ignored>>

Weigh(h) == PopulateBin(h) \/ UpdateUnlocked(h) \/ UpdateLocked(h)
Commit == CommitReads \/ CommitWrites

Next ==
  \/ \E h \in Slots, w \in Weights : OnWeighCalculated(h, w)
  \/ \E h \in Slots : Weigh(h)
  \/ OpenBin \/ CloseBin \/ StepEnds \/ CompleteTransaction
  \/ Commit

Spec == Init /\ [][Next]_vars

\* Node runs every continuation, and the hardware reports again and again; the
\* user may leave the bin open, the operator a popup unanswered, and other steps
\* of the transaction may take for ever.
FairSpec ==
  /\ Spec
  /\ WF_vars(Commit)
  /\ \A h \in Slots : WF_vars(Weigh(h))
  /\ WF_vars(\E h \in Slots, w \in Weights : OnWeighCalculated(h, w))
-----------------------------------------------------------------------------
TypeOK ==
  /\ cell \in Cell
  /\ locked \in BOOLEAN
  /\ reading \in BOOLEAN
  /\ weighing \in [Slots -> Weighing]
  /\ phase \in Phase
  /\ toCommit \in Int
  /\ opens \in Nat
  /\ ignored \in Int

\* The books agree with the scale, up to what was ignored while the bin was
\* locked: overlapping weighings count no change twice and lose none, and
\* neither do the three places that commit the pending change.
BooksMatchScale ==
  Apart => cell.available + cell.pending + ignored = Rounded(cell.weight)

\* A change seen while the bin was open does not stay pending once it is locked,
\* whether the step succeeds, fails or is ended by the operator.
PendingCommitted == locked /\ cell.pending # 0 ~> cell.pending = 0 \/ ~locked

\* transaction.service.ts calls its commit a back-up for a loadcell that stopped
\* before it committed: what the back-up commits is still pending.
BackUpCommitsPending ==
  [][CommitWrites /\ toCommit # 0 => cell.pending = toCommit]_vars
=============================================================================
