----------------------------- MODULE BooksProofs -----------------------------
(***************************************************************************)
(* The books that process-worker keeps of what is where.  LoadcellQuantity:*)
(* the books of a loadcell agree with its scale, for all weights, any      *)
(* number of overlapping weighings and of openings, as long as the         *)
(* transaction's writes are apart from the weighings.  IssueHistory: a     *)
(* return is credited once, and what came back damaged is counted, though  *)
(* the one function throws and another has to write, for any number of     *)
(* steps, places, events and quantities, as long as no two jobs race over  *)
(* a document and the process lives.                                       *)
(***************************************************************************)
EXTENDS LoadcellQuantity, IssueHistory, SumTheorems, SequenceTheorems, TLAPS

-----------------------------------------------------------------------------
(* The books of a loadcell.                                                  *)

CellTotal(c) == c.available + c.pending

\* A weighing of an unlocked bin: nothing but pending and weight has changed
\* since its entity was loaded, and the entity agreed with the scale.
UnlockedOK(e) ==
  /\ e.available = cell.available
  /\ CellTotal(e) + ignored = Rounded(e.weight)

\* A weighing of a locked bin: the pending change it has loaded was not
\* committed since, or was committed as a whole.
LockedOK(e) ==
  /\ CellTotal(e) = CellTotal(cell)
  /\ cell.pending = e.pending \/ cell.pending = 0

WeighingOK(x) ==
  /\ x.pc = "unlocked" => ~locked
  /\ x.pc = "locked" => locked
  /\ x.pc # "idle" => IF locked THEN LockedOK(x.entity) ELSE UnlockedOK(x.entity)

WeighingInv == \A h \in Slots : WeighingOK(weighing[h])

CommitInv == Committing => ~Busy /\ toCommit = cell.pending

CellBooks == CellTotal(cell) + ignored = Rounded(cell.weight)

IInv == TypeOK /\ WeighingInv /\ CommitInv /\ CellBooks

LEMMA RoundedInt ==
  ASSUME NEW w \in Int
  PROVE  Rounded(w) \in Int
BY DEF Rounded

LEMMA InitInv == Apart /\ Init => IInv
<1> SUFFICES ASSUME Init PROVE IInv
  OBVIOUS
<1>1. PICK w \in Weights : cell = [weight |-> w, pending |-> 0, available |-> Rounded(w)]
  BY DEF Init
<1>2. w \in Int /\ Rounded(w) \in Int
  BY RoundedInt, QuantityAssumption
<1>3. cell \in Cell /\ CellBooks
  <2> DEFINE c == [weight |-> w, pending |-> 0, available |-> Rounded(w)]
  <2>1. c \in Cell /\ c.weight = w /\ c.pending = 0 /\ c.available = Rounded(w)
    BY <1>2 DEF Cell
  <2>2. cell = c /\ ignored = 0
    BY <1>1 DEF Init
  <2> HIDE DEF c
  <2> QED
    BY <1>2, <2>1, <2>2 DEF CellBooks, CellTotal
<1>4. NoWeighing \in Weighing /\ NoWeighing.pc = "idle"
  BY DEF NoWeighing, Weighing, NoCell, Cell
<1>5. TypeOK
  <2>1. weighing \in [Slots -> Weighing]
    BY <1>4 DEF Init
  <2>2. locked \in BOOLEAN /\ reading \in BOOLEAN /\ phase \in Phase
    BY DEF Init, Phase
  <2>3. toCommit \in Int /\ opens \in Nat /\ ignored \in Int
    BY DEF Init
  <2> QED
    BY <1>3, <2>1, <2>2, <2>3 DEF TypeOK
<1>6. WeighingInv /\ CommitInv
  BY <1>4 DEF Init, WeighingInv, WeighingOK, CommitInv, Committing
<1> QED
  BY <1>3, <1>5, <1>6 DEF IInv

\* em.flush() of what a weighing computes.
LEMMA FlushFacts ==
  ASSUME NEW e \in Cell, NEW d \in Cell, NEW c \in Cell
  PROVE  /\ Flush(e, d, c) \in Cell
         /\ Flush(e, d, c).available = IF d.available = e.available THEN c.available ELSE d.available
         /\ Flush(e, d, c).pending = IF d.weight = e.weight /\ d.pending = e.pending
                                     THEN c.pending ELSE d.pending
         /\ Flush(e, d, c).weight = IF d.weight = e.weight /\ d.pending = e.pending
                                    THEN c.weight ELSE d.weight
BY DEF Flush, Cell

LEMMA OnWeighCalculatedInv ==
  ASSUME Apart, IInv, NEW h \in Slots, NEW w \in Weights, OnWeighCalculated(h, w)
  PROVE  IInv'
<1>1. PICK x \in Weighing : /\ x = [pc |-> "loaded", weight |-> w, entity |-> cell]
                           /\ x.pc = "loaded" /\ x.entity = cell
  <2> DEFINE x == [pc |-> "loaded", weight |-> w, entity |-> cell]
  <2>1. x \in Weighing /\ x.pc = "loaded" /\ x.entity = cell
    BY QuantityAssumption DEF Weighing, IInv, TypeOK
  <2> QED
    BY <2>1
<1>2. weighing' = [weighing EXCEPT ![h] = x]
  BY <1>1 DEF OnWeighCalculated
<1>3. TypeOK'
  BY <1>1, <1>2 DEF OnWeighCalculated, IInv, TypeOK
<1>4. ~Committing' /\ CommitInv'
  BY DEF OnWeighCalculated, CommitInv, Committing
<1>5. WeighingInv'
  <2> SUFFICES ASSUME NEW k \in Slots
               PROVE  WeighingOK(weighing[k])'
    BY DEF WeighingInv
  <2>5. PICK y \in Weighing : y = weighing[k] /\ WeighingOK(y)
    BY DEF IInv, TypeOK, WeighingInv
  <2>1. CASE k = h
    <3>1. weighing'[k] = x
      BY <1>2, <2>1 DEF IInv, TypeOK
    <3>2. WeighingOK(x)'
      <4>1. x.pc = "loaded" /\ x.entity = cell'
        BY <1>1 DEF OnWeighCalculated
      <4>2. CellTotal(cell') + ignored' = Rounded(cell'.weight)
        BY DEF OnWeighCalculated, IInv, CellBooks
      <4> QED
        BY <4>1, <4>2 DEF WeighingOK, UnlockedOK, LockedOK
    <3> QED
      BY <3>1, <3>2
  <2>2. CASE k # h
    <3>1. weighing'[k] = y
      BY <1>2, <2>5, <2>2 DEF IInv, TypeOK
    <3>2. WeighingOK(y)'
      BY <2>5 DEF OnWeighCalculated, WeighingOK, UnlockedOK, LockedOK
    <3> QED
      BY <3>1, <3>2
  <2> QED
    BY <2>1, <2>2
<1>6. CellBooks'
  BY DEF OnWeighCalculated, IInv, CellBooks
<1> QED
  BY <1>3, <1>4, <1>5, <1>6 DEF IInv

LEMMA PopulateBinInv ==
  ASSUME Apart, IInv, NEW h \in Slots, PopulateBin(h)
  PROVE  IInv'
<1>1. PICK x \in Weighing : x = weighing[h] /\ x.pc = "loaded" /\ WeighingOK(x)
  BY DEF PopulateBin, IInv, TypeOK, WeighingInv
<1>2. PICK n \in Weighing : /\ n = [x EXCEPT !.pc = IF locked THEN "locked" ELSE "unlocked"]
                           /\ n.entity = x.entity
                           /\ n.pc = IF locked THEN "locked" ELSE "unlocked"
  <2> DEFINE n == [x EXCEPT !.pc = IF locked THEN "locked" ELSE "unlocked"]
  <2>1. n \in Weighing /\ n.entity = x.entity /\ n.pc = IF locked THEN "locked" ELSE "unlocked"
    BY DEF Weighing
  <2> QED
    BY <2>1
<1>3. weighing' = [weighing EXCEPT ![h] = n]
  BY <1>1, <1>2 DEF PopulateBin
<1>4. TypeOK'
  BY <1>2, <1>3 DEF PopulateBin, IInv, TypeOK
<1>5. WeighingInv'
  <2> SUFFICES ASSUME NEW k \in Slots
               PROVE  WeighingOK(weighing[k])'
    BY DEF WeighingInv
  <2>5. PICK y \in Weighing : y = weighing[k] /\ WeighingOK(y)
    BY DEF IInv, TypeOK, WeighingInv
  <2>1. CASE k = h
    <3>1. weighing'[k] = n
      BY <1>3, <2>1 DEF IInv, TypeOK
    <3>2. WeighingOK(n)'
      BY <1>1, <1>2 DEF PopulateBin, WeighingOK, UnlockedOK, LockedOK
    <3> QED
      BY <3>1, <3>2
  <2>2. CASE k # h
    <3>1. weighing'[k] = y
      BY <1>3, <2>5, <2>2 DEF IInv, TypeOK
    <3>2. WeighingOK(y)'
      BY <2>5 DEF PopulateBin, WeighingOK, UnlockedOK, LockedOK
    <3> QED
      BY <3>1, <3>2
  <2> QED
    BY <2>1, <2>2
<1>6. CommitInv'
  <2>1. Busy
    BY DEF PopulateBin, Busy
  <2> QED
    BY <2>1 DEF PopulateBin, IInv, CommitInv, Committing
<1>7. CellBooks'
  BY DEF PopulateBin, IInv, CellBooks
<1> QED
  BY <1>4, <1>5, <1>6, <1>7 DEF IInv

LEMMA UpdateUnlockedInv ==
  ASSUME Apart, IInv, NEW h \in Slots, UpdateUnlocked(h)
  PROVE  IInv'
<1>1. PICK x \in Weighing : x = weighing[h] /\ x.pc = "unlocked"
  BY DEF UpdateUnlocked, IInv, TypeOK
<1>2. ~locked /\ UnlockedOK(x.entity)
  BY <1>1 DEF IInv, WeighingInv, WeighingOK
<1>3. PICK c \in Cell : c = cell
  BY DEF IInv, TypeOK
<1> DEFINE e == x.entity
           w == x.weight
           p == PendingAfter(e, w)
           d == [e EXCEPT !.weight = w, !.pending = p]
<1>4. e \in Cell /\ w \in Int /\ e.weight \in Int /\ e.pending \in Int /\ e.available \in Int
  BY DEF Weighing, Cell
<1>5. Rounded(w) \in Int /\ Rounded(e.weight) \in Int
  BY <1>4, RoundedInt
<1>6. /\ d \in Cell /\ d.weight = w /\ d.available = e.available
      /\ d.pending = e.pending + Rounded(w) - Rounded(e.weight)
  <2>1. p \in Int /\ p = e.pending + Rounded(w) - Rounded(e.weight)
    BY <1>4, <1>5 DEF PendingAfter
  <2> HIDE DEF p, w, e
  <2>2. d \in Cell /\ d.weight = w /\ d.available = e.available /\ d.pending = p
    BY <1>4, <2>1 DEF Cell
  <2> QED
    BY <2>1, <2>2
<1>7. cell' = Flush(e, d, c)
  BY <1>1, <1>3 DEF UpdateUnlocked
<1> HIDE DEF d
<1>8. PICK n \in Cell : /\ n = cell' /\ n.available = c.available
                        /\ CellTotal(n) + ignored = Rounded(n.weight)
  <2> DEFINE n == Flush(e, d, c)
  <2>1. n \in Cell /\ n.available = c.available
    BY <1>4, <1>6, FlushFacts
  <2>2. CellTotal(n) + ignored = Rounded(n.weight)
    <3>1. CASE d.weight = e.weight /\ d.pending = e.pending
      <4>1. n.pending = c.pending /\ n.weight = c.weight
        BY <1>4, <1>6, <3>1, FlushFacts
      <4> QED
        BY <1>3, <2>1, <4>1 DEF IInv, CellBooks, CellTotal
    <3>2. CASE ~(d.weight = e.weight /\ d.pending = e.pending)
      <4>1. n.pending = d.pending /\ n.weight = w
        BY <1>4, <1>6, <3>2, FlushFacts
      <4>2. e.available = c.available /\ e.available + e.pending + ignored = Rounded(e.weight)
        BY <1>2, <1>3 DEF UnlockedOK, CellTotal
      <4>3. c.available \in Int /\ ignored \in Int
        BY <1>3 DEF Cell, IInv, TypeOK
      <4> HIDE DEF e, w, n
      <4> QED
        BY <1>4, <1>5, <1>6, <2>1, <4>1, <4>2, <4>3 DEF CellTotal
    <3> QED
      BY <3>1, <3>2
  <2> QED
    BY <1>7, <2>1, <2>2
<1>9. TypeOK'
  <2>1. NoWeighing \in Weighing
    BY DEF NoWeighing, Weighing, NoCell, Cell
  <2> QED
    BY <1>8, <2>1 DEF UpdateUnlocked, IInv, TypeOK
<1>10. WeighingInv'
  <2> SUFFICES ASSUME NEW k \in Slots
               PROVE  WeighingOK(weighing[k])'
    BY DEF WeighingInv
  <2>5. PICK y \in Weighing : y = weighing[k] /\ WeighingOK(y)
    BY DEF IInv, TypeOK, WeighingInv
  <2>1. ~locked' /\ ignored' = ignored
    BY <1>2 DEF UpdateUnlocked
  <2>2. CASE k = h
    <3>1. weighing'[k] = NoWeighing
      BY <2>2 DEF UpdateUnlocked, IInv, TypeOK
    <3> QED
      BY <3>1 DEF WeighingOK, NoWeighing
  <2>3. CASE k # h
    <3>1. weighing'[k] = y
      BY <2>5, <2>3 DEF UpdateUnlocked, IInv, TypeOK
    <3>2. WeighingOK(y)'
      BY <1>2, <1>3, <1>8, <2>5, <2>1 DEF WeighingOK, UnlockedOK
    <3> QED
      BY <3>1, <3>2
  <2> QED
    BY <2>2, <2>3
<1>11. CommitInv'
  <2>1. Busy
    BY <1>1 DEF Busy
  <2> QED
    BY <2>1 DEF UpdateUnlocked, IInv, CommitInv, Committing
<1>12. CellBooks'
  BY <1>8 DEF UpdateUnlocked, CellBooks
<1> QED
  BY <1>9, <1>10, <1>11, <1>12 DEF IInv

LEMMA UpdateLockedInv ==
  ASSUME Apart, IInv, NEW h \in Slots, UpdateLocked(h)
  PROVE  IInv'
<1>1. PICK x \in Weighing : x = weighing[h] /\ x.pc = "locked"
  BY DEF UpdateLocked, IInv, TypeOK
<1>2. locked /\ LockedOK(x.entity)
  BY <1>1 DEF IInv, WeighingInv, WeighingOK
<1>3. PICK c \in Cell : c = cell
  BY DEF IInv, TypeOK
<1> DEFINE e == x.entity
           d == Committed(e, x.weight)
<1>4. /\ e \in Cell /\ x.weight \in Int /\ e.weight \in Int /\ e.pending \in Int
      /\ e.available \in Int /\ c.available \in Int /\ c.pending \in Int /\ c.weight \in Int
  BY DEF Weighing, Cell
<1>5. /\ d \in Cell /\ d.pending = 0 /\ d.available = e.available + e.pending
  BY <1>4 DEF Cell, Committed
<1>6. cell' = Flush(e, d, c)
  BY <1>1, <1>3 DEF UpdateLocked
<1> HIDE DEF d
<1>7. /\ e.available + e.pending = c.available + c.pending
      /\ c.pending = e.pending \/ c.pending = 0
  BY <1>2, <1>3 DEF LockedOK, CellTotal
<1>8. PICK n \in Cell : n = cell' /\ CellTotal(n) = CellTotal(c) /\ n.pending = 0
  <2> DEFINE n == Flush(e, d, c)
  <2>1. /\ n \in Cell
        /\ n.available = IF d.available = e.available THEN c.available ELSE d.available
        /\ n.pending = IF d.weight = e.weight /\ d.pending = e.pending THEN c.pending ELSE d.pending
    BY <1>4, <1>5, FlushFacts
  <2> HIDE DEF n, e
  <2>2. n.available + n.pending = c.available + c.pending /\ n.pending = 0
    BY <1>4, <1>5, <1>7, <2>1
  <2> QED
    BY <1>6, <2>1, <2>2 DEF CellTotal, n
<1>9. PICK i \in Int : i = ignored' /\ i = ignored + Rounded(n.weight) - Rounded(c.weight)
  <2>1. Rounded(n.weight) \in Int /\ Rounded(c.weight) \in Int /\ ignored \in Int
    BY RoundedInt DEF Cell, IInv, TypeOK
  <2> QED
    BY <1>3, <1>8, <2>1 DEF UpdateLocked
<1>10. TypeOK'
  <2>1. NoWeighing \in Weighing
    BY DEF NoWeighing, Weighing, NoCell, Cell
  <2> QED
    BY <1>8, <1>9, <2>1 DEF UpdateLocked, IInv, TypeOK
<1>11. WeighingInv'
  <2> SUFFICES ASSUME NEW k \in Slots
               PROVE  WeighingOK(weighing[k])'
    BY DEF WeighingInv
  <2>5. PICK y \in Weighing : y = weighing[k] /\ WeighingOK(y)
    BY DEF IInv, TypeOK, WeighingInv
  <2>1. locked'
    BY <1>2 DEF UpdateLocked
  <2>2. CASE k = h
    <3>1. weighing'[k] = NoWeighing
      BY <2>2 DEF UpdateLocked, IInv, TypeOK
    <3> QED
      BY <3>1 DEF WeighingOK, NoWeighing
  <2>3. CASE k # h
    <3>1. weighing'[k] = y
      BY <2>5, <2>3 DEF UpdateLocked, IInv, TypeOK
    <3>2. y.pc # "idle" => CellTotal(y.entity) = CellTotal(c)
      BY <1>2, <1>3, <2>5 DEF WeighingOK, LockedOK
    <3>3. WeighingOK(y)'
      BY <1>2, <1>8, <2>5, <2>1, <3>2 DEF WeighingOK, LockedOK
    <3> QED
      BY <3>1, <3>3
  <2> QED
    BY <2>2, <2>3
<1>12. CommitInv'
  <2>1. Busy
    BY <1>1 DEF Busy
  <2> QED
    BY <2>1 DEF UpdateLocked, IInv, CommitInv, Committing
<1>13. CellBooks'
  <2>1. CellTotal(c) + ignored = Rounded(c.weight)
    BY <1>3 DEF IInv, CellBooks
  <2>2. CellTotal(c) \in Int /\ ignored \in Int /\ Rounded(n.weight) \in Int /\ Rounded(c.weight) \in Int
    BY <1>4, RoundedInt DEF CellTotal, Cell, IInv, TypeOK
  <2>3. CellTotal(n) + i = Rounded(n.weight)
    BY <1>8, <1>9, <2>1, <2>2
  <2> QED
    BY <1>8, <1>9, <2>3 DEF CellBooks
<1> QED
  BY <1>10, <1>11, <1>12, <1>13 DEF IInv

\* The steps of the transaction that touch neither the books nor a weighing.
LEMMA TransactionInv ==
  ASSUME Apart, IInv, OpenBin \/ CloseBin \/ StepEnds \/ CompleteTransaction \/ CommitReads
  PROVE  IInv'
<1>1. TypeOK'
  <2>1. cell.pending \in Int
    BY DEF IInv, TypeOK, Cell
  <2>2. CASE CommitReads
    BY <2>1, <2>2 DEF IInv, TypeOK, Phase, CommitReads
  <2>3. CASE OpenBin
    <3>1. opens' \in Nat
      BY <2>3 DEF IInv, TypeOK, OpenBin
    <3> QED
      BY <2>3, <3>1 DEF IInv, TypeOK, Phase, OpenBin
  <2>4. CASE CloseBin \/ StepEnds \/ CompleteTransaction
    BY <2>4 DEF IInv, TypeOK, Phase, CloseBin, StepEnds, CompleteTransaction
  <2> QED
    BY <2>2, <2>3, <2>4
<1>2. UNCHANGED <<cell, ignored, weighing>>
  BY DEF OpenBin, CloseBin, StepEnds, CompleteTransaction, CommitReads
<1>3. CellBooks'
  BY <1>2 DEF IInv, CellBooks
<1>4. WeighingInv'
  <2>1. CASE UNCHANGED locked
    BY <1>2, <2>1 DEF IInv, WeighingInv, WeighingOK, UnlockedOK, LockedOK
  <2>2. CASE ~Busy
    BY <1>2, <2>2 DEF WeighingInv, WeighingOK, Busy
  <2> QED
    BY <2>1, <2>2 DEF OpenBin, CloseBin, StepEnds, CompleteTransaction, CommitReads
<1>5. CommitInv'
  <2>1. CASE CommitReads
    BY <2>1 DEF CommitReads, CommitInv, Busy
  <2>2. CASE ~CommitReads
    BY <2>2 DEF OpenBin, CloseBin, StepEnds, CompleteTransaction, CommitInv, Committing
  <2> QED
    BY <2>1, <2>2
<1> QED
  BY <1>1, <1>3, <1>4, <1>5 DEF IInv

\* The write of the transaction's commit.
LEMMA IncrementFacts ==
  ASSUME NEW c \in Cell, NEW p \in Int
  PROVE  /\ Increment(c, p) \in Cell
         /\ Increment(c, p).available = c.available + p
         /\ Increment(c, p).pending = 0
         /\ Increment(c, p).weight = c.weight
<1>1. c.weight \in Int /\ c.available + p \in Int
  BY DEF Cell
<1> QED
  BY <1>1 DEF Increment, Cell

LEMMA CommitWritesInv ==
  ASSUME Apart, IInv, CommitWrites
  PROVE  IInv'
<1>1. ~Busy /\ toCommit = cell.pending
  BY DEF CommitWrites, IInv, CommitInv
<1>2. PICK c \in Cell : c = cell
  BY DEF IInv, TypeOK
<1>3. /\ c.pending \in Int /\ c.available \in Int /\ c.weight \in Int
  BY DEF Cell
<1>4. PICK n \in Cell : n = cell' /\ CellTotal(n) = CellTotal(c) /\ n.weight = c.weight
  <2>1. CASE c.pending = 0
    BY <1>1, <1>2, <2>1 DEF CommitWrites
  <2>2. CASE c.pending # 0
    <3> DEFINE n == Increment(c, c.pending)
    <3>1. /\ n \in Cell /\ n.available = c.available + c.pending /\ n.pending = 0
          /\ n.weight = c.weight
      BY <1>3, IncrementFacts
    <3>2. cell' = n
      BY <1>1, <1>2, <2>2 DEF CommitWrites
    <3> HIDE DEF n
    <3> QED
      BY <1>3, <3>1, <3>2 DEF CellTotal
  <2> QED
    BY <2>1, <2>2
<1>5. TypeOK'
  BY <1>4 DEF CommitWrites, IInv, TypeOK, Phase
<1>6. WeighingInv'
  BY <1>1 DEF CommitWrites, WeighingInv, WeighingOK, Busy
<1>7. CommitInv'
  BY DEF CommitWrites, CommitInv, Committing
<1>8. CellBooks'
  BY <1>2, <1>4 DEF CommitWrites, IInv, CellBooks
<1> QED
  BY <1>5, <1>6, <1>7, <1>8 DEF IInv

LEMMA NextInv ==
  ASSUME Apart, IInv, [Next]_vars
  PROVE  IInv'
<1>1. CASE UNCHANGED vars
  BY <1>1 DEF vars, IInv, TypeOK, WeighingInv, WeighingOK, UnlockedOK, LockedOK, CommitInv, Committing,
              Busy, CellBooks
<1>2. CASE \E h \in Slots, w \in Weights : OnWeighCalculated(h, w)
  BY <1>2, OnWeighCalculatedInv
<1>3. CASE \E h \in Slots : Weigh(h)
  BY <1>3, PopulateBinInv, UpdateUnlockedInv, UpdateLockedInv DEF Weigh
<1>4. CASE OpenBin \/ CloseBin \/ StepEnds \/ CompleteTransaction \/ Commit
  BY <1>4, TransactionInv, CommitWritesInv DEF Commit
<1> QED
  BY <1>1, <1>2, <1>3, <1>4 DEF Next

\* Apart from the transaction's writes, overlapping weighings and the commits
\* keep the books in agreement with the scale.
THEOREM BooksKept == Spec => []BooksMatchScale
<1>1. CASE Apart
  <2>1. Init => IInv
    BY <1>1, InitInv
  <2>2. IInv /\ [Next]_vars => IInv'
    BY <1>1, NextInv
  <2>3. IInv => BooksMatchScale
    BY DEF IInv, CellBooks, CellTotal, BooksMatchScale, TypeOK, Cell
  <2> QED
    BY <2>1, <2>2, <2>3, PTL DEF Spec
<1>2. CASE ~Apart
  <2>1. BooksMatchScale
    BY <1>2 DEF BooksMatchScale
  <2> QED
    BY <2>1, PTL
<1> QED
  BY <1>1, <1>2

-----------------------------------------------------------------------------
(* The issue histories.  The invariant: a total lacks what is credited, but  *)
(* for what the jobs under way have still to write; a job that holds a       *)
(* changed entity read what is there now, and no other holds the same.       *)

IsReturn(j) == work[j].type = "RETURN"

\* How far a job is tells what it has read.
JobOK(j) ==
    /\ job[j].event \in DOMAIN work[j].events
    /\ job[j].pc = "idle" => job[j].event = 1
    /\ job[j].pc = "idle" <=> report[j].pc = "idle"
    /\ job[j].dirty => /\ IsReturn(j) /\ job[j].pc = "settled" /\ job[j].event \in Counting(j)
    /\ IsReturn(j) /\ (job[j].pc = "read" \/ job[j].dirty) =>
           \A n \in Counting(j) : job[j].event <= n
    /\ report[j].dirty \subseteq Hurt(j)
    /\ report[j].dirty # {} => report[j].pc \in {"mark", "flush"}
    /\ report[j].pc \in {"find", "mark", "flush"} => IsReturn(j)

\* Without a race a changed entity is fresh, and nobody else holds it.
Unraced ==
    ~raced =>
      /\ \A j \in Jobs : job[j].dirty =>
             /\ job[j].entity = total[Taken(j)] - Event(j).quantity
             /\ \A k \in Jobs \ {j} : job[k].dirty => Taken(k) # Taken(j)
      /\ \A j \in Jobs : \A p \in report[j].dirty :
             /\ report[j].found[p] = damage[p]
             /\ \A k \in Jobs \ {j} : p \notin report[k].dirty

\* What a job has still to take off a total.
Uncredited(j, item) == IF job[j].pc = "read" \/ job[j].dirty THEN Credit(j, item) ELSE 0
UncreditedOf(item) == [j \in Jobs |-> Uncredited(j, item)]
Credited ==
    ~raced /\ ~cut => \A item \in Kinds :
        total[item] = Issued(item) - credited[item] + SumOver(UncreditedOf(item), Jobs)

\* What a step brought back damaged and is not counted yet.
Single == \A j \in Jobs : job[j].pc # "idle" => OnePlaceEach(j)
Uncounted(j, p) ==
    IF (report[j].pc = "find" /\ p \in work[j].damaged) \/ p \in report[j].dirty
    THEN DamageIn(j, p) ELSE 0
UncountedAt(p) == [j \in Jobs |-> Uncounted(j, p)]
Unmarked(j) == report[j].pc \in {"find", "mark"}
Counted ==
    ~raced /\ ~cut /\ Single => \A p \in Places :
      /\ broken[p] = damage[p] + SumOver(UncountedAt(p), Jobs)
      /\ p \in damagedBins => broken[p] > 0
      /\ broken[p] > 0 => p \in damagedBins \/ \E j \in Jobs : Unmarked(j) /\ p \in Hurt(j)
      /\ \A j \in Jobs : Unmarked(j) /\ p \in Hurt(j) => broken[p] > 0

HistoryInv ==
    HistoryTypeOK /\ (\A j \in Jobs : JobOK(j)) /\ Unraced /\ Credited /\ Counted

-----------------------------------------------------------------------------
At1 == [at : Places, quantity : Nat]

LEMMA WorkFacts ==
    ASSUME HistoryTypeOK, NEW j \in Jobs
    PROVE  /\ work[j].type \in {"ISSUE", "RETURN"} /\ work[j].damaged \subseteq Places
           /\ work[j].events \in Seq(At1) /\ Len(work[j].events) \in Nat /\ Len(work[j].events) >= 1
           /\ DOMAIN work[j].events = 1..Len(work[j].events)
           /\ \A i \in DOMAIN work[j].events : /\ work[j].events[i].at \in Places
                                               /\ ItemAt[work[j].events[i].at] \in Kinds
                                               /\ work[j].events[i].quantity \in Nat
           /\ \A p \in work[j].damaged : \E i \in DOMAIN work[j].events : work[j].events[i].at = p
<1>1. work \in Worklists /\ work \in [Jobs -> Work]
  BY HistoryAssumption DEF HistoryTypeOK
<1>2. work[j] \in Work
  BY <1>1
<1>3. /\ work[j].type \in {"ISSUE", "RETURN"} /\ work[j].damaged \subseteq Places
      /\ work[j].events \in Seq(At1) /\ work[j].events # <<>>
  BY <1>2 DEF Work, At1
<1>4. PICK ev \in Seq(At1) : ev = work[j].events
  BY <1>3
<1>5. /\ Len(ev) \in Nat /\ Len(ev) >= 1 /\ DOMAIN ev = 1..Len(ev)
      /\ \A i \in DOMAIN ev : ev[i] \in At1
  BY <1>3, <1>4
<1>6. \A i \in DOMAIN ev : ev[i].at \in Places /\ ItemAt[ev[i].at] \in Kinds /\ ev[i].quantity \in Nat
  BY <1>5 DEF At1, Kinds
<1> QED
  BY <1>1, <1>3, <1>4, <1>5, <1>6, HistoryAssumption

\* What the quantities of some events of a step add up to.
LEMMA BroughtNat ==
    ASSUME HistoryTypeOK, NEW j \in Jobs, NEW E, E \subseteq DOMAIN work[j].events
    PROVE  /\ Brought(j, E) \in Nat
           /\ \A i \in E : E = {i} => Brought(j, E) = work[j].events[i].quantity
<1>1. PICK ev \in Seq(At1) : ev = work[j].events
  BY WorkFacts
<1>2. DOMAIN ev = 1..Len(ev) /\ Len(ev) \in Nat /\ \A i \in DOMAIN ev : ev[i] \in At1
  OBVIOUS
<1>3. IsFiniteSet(E)
  <2>1. IsFiniteSet(DOMAIN ev)
    BY <1>2, FS_Interval
  <2> QED
    BY <1>1, <2>1, FS_Subset
<1>4. \A i \in E : QuantityOf(ev, E)[i] = ev[i].quantity /\ ev[i].quantity \in Nat
  BY <1>1, <1>2 DEF QuantityOf, At1
<1>5. Brought(j, E) = SumOver(QuantityOf(ev, E), E)
  <2>1. Brought(j, E) = Quantity(work[j].events, E)
    BY DEF Brought, Quantity
  <2> QED
    BY <1>1, <2>1, QuantityAre
<1>6. SumOver(QuantityOf(ev, E), E) \in Nat
  BY <1>3, <1>4, SumNat
<1>7. ASSUME NEW i \in E, E = {i} PROVE SumOver(QuantityOf(ev, E), E) = ev[i].quantity
  <2> DEFINE f == QuantityOf(ev, E)
  <2>1. f[i] = ev[i].quantity /\ \A n \in E : f[n] \in Int
    BY <1>4
  <2> HIDE DEF f
  <2>2. SumOver(f, E) = f[i] + SumOver(f, E \ {i})
    BY <1>3, <2>1, SumTake
  <2>3. E \ {i} = {}
    BY <1>7
  <2>4. SumOver(f, E \ {i}) = 0
    BY <2>3, SumEmpty, Zenon
  <2>5. f[i] \in Int
    BY <2>1
  <2>6. SumOver(f, E) = f[i]
    BY <2>2, <2>4, <2>5
  <2> QED
    BY <2>1, <2>6 DEF f
<1> QED
  BY <1>1, <1>5, <1>6, <1>7

\* The smallest of a set of numbers is one of them.
LEMMA MinOf ==
    ASSUME NEW S, S \subseteq Nat, S # {}
    PROVE  Min(S) \in S /\ \A k \in S : Min(S) <= k
<1>1. \E m \in S : \A k \in S : m <= k
  BY SmallestNumber
<1> QED
  BY <1>1 DEF Min

LEMMA IssuedIs == \A item : Issued(item) = SumOver(locations, At(item))
BY DEF Issued, OnLoan, SumOver

LEMMA IssuedNat ==
    ASSUME HistoryTypeOK, NEW item
    PROVE  Issued(item) \in Nat
<1>1. At(item) \subseteq Places /\ IsFiniteSet(At(item))
  BY HistoryAssumption, FS_Subset DEF At
<1>2. \A p \in At(item) : locations[p] \in Nat
  BY <1>1, HistoryAssumption DEF HistoryTypeOK
<1> QED
  BY <1>1, <1>2, IssuedIs, SumNat

\* What a return takes off is a quantity of one of its events.
LEMMA CreditFacts ==
    ASSUME HistoryTypeOK, NEW j \in Jobs, NEW item
    PROVE  /\ Credit(j, item) \in Nat /\ Counting(j) \subseteq DOMAIN work[j].events
           /\ Uncredited(j, item) \in Nat
           /\ Counting(j) = {} => Credit(j, item) = 0
           /\ ~IsReturn(j) => Credit(j, item) = 0
           /\ IsReturn(j) => \A n \in Counting(j) : (\A m \in Counting(j) : n <= m) =>
                  Credit(j, item) = IF ItemAt[work[j].events[n].at] = item
                                    THEN work[j].events[n].quantity ELSE 0
<1>1. /\ Counting(j) \subseteq DOMAIN work[j].events /\ Counting(j) \subseteq Nat
      /\ \A i \in DOMAIN work[j].events : work[j].events[i].quantity \in Nat
  BY WorkFacts DEF Counting
<1>2. Counting(j) # {} => Min(Counting(j)) \in Counting(j) /\ \A k \in Counting(j) : Min(Counting(j)) <= k
  BY <1>1, MinOf
<1>3. \A n \in Counting(j) : (\A m \in Counting(j) : n <= m) => n = Min(Counting(j))
  BY <1>1, <1>2
<1>4. Credit(j, item) \in Nat
  BY <1>1, <1>2 DEF Credit
<1>5. \A i \in DOMAIN work[j].events : i \in EventsOf(j, item) <=> ItemAt[work[j].events[i].at] = item
  BY DEF EventsOf
<1> QED
  BY <1>1, <1>2, <1>3, <1>4, <1>5 DEF Credit, Uncredited, IsReturn

\* What a step does not change of the work stays so.
LEMMA SameWork ==
    ASSUME UNCHANGED <<work, locations>>
    PROVE  \A item : Issued(item)' = Issued(item)
BY DEF Issued

LEMMA SameJob ==
    ASSUME UNCHANGED <<work, locations>>, NEW j \in Jobs
    PROVE  /\ Counting(j)' = Counting(j) /\ \A item : Credit(j, item)' = Credit(j, item)
           /\ Hurt(j)' = Hurt(j) /\ \A p : DamageIn(j, p)' = DamageIn(j, p)
           /\ OnePlaceEach(j)' <=> OnePlaceEach(j)
           /\ IsReturn(j)' <=> IsReturn(j)
<1>1. Counting(j)' = Counting(j)
  BY SameWork DEF Counting
<1>2. \A item : EventsOf(j, item)' = EventsOf(j, item)
  BY DEF EventsOf
<1>3. \A item : Credit(j, item)' = Credit(j, item)
  BY <1>1, <1>2 DEF Credit
<1>4. \A p : DamageIn(j, p)' = DamageIn(j, p)
  BY <1>2 DEF DamageIn
<1>5. Hurt(j)' = Hurt(j)
  BY <1>4 DEF Hurt
<1>6. (OnePlaceEach(j)' <=> OnePlaceEach(j)) /\ (IsReturn(j)' <=> IsReturn(j))
  BY DEF OnePlaceEach, IsReturn
<1> QED
  BY <1>1, <1>3, <1>4, <1>5, <1>6

\* What came back damaged to a place.
LEMMA DamageFacts ==
    ASSUME HistoryTypeOK, NEW j \in Jobs
    PROVE  /\ Hurt(j) \subseteq work[j].damaged /\ work[j].damaged \subseteq Places
           /\ \A p \in work[j].damaged : DamageIn(j, p) \in Nat /\ (p \in Hurt(j) <=> DamageIn(j, p) > 0)
           /\ \A p \in Places : OnePlaceEach(j) /\ p \in work[j].damaged =>
                  Brought(j, {i \in DOMAIN work[j].events : work[j].events[i].at = p}) = DamageIn(j, p)
<1>1. work[j].damaged \subseteq Places /\ Hurt(j) \subseteq work[j].damaged
  BY WorkFacts DEF Hurt
<1>2. ASSUME NEW p \in work[j].damaged
      PROVE  /\ DamageIn(j, p) \in Nat
             /\ OnePlaceEach(j) =>
                  Brought(j, {i \in DOMAIN work[j].events : work[j].events[i].at = p}) = DamageIn(j, p)
  <2> DEFINE E == EventsOf(j, ItemAt[p])
             at == {i \in DOMAIN work[j].events : work[j].events[i].at = p}
  <2>1. E \subseteq DOMAIN work[j].events /\ E \subseteq Nat /\ at \subseteq E /\ at # {}
    BY WorkFacts DEF EventsOf
  <2>2. Min(E) \in E
    BY <2>1, MinOf
  <2>3. DamageIn(j, p) = work[j].events[Min(E)].quantity
    BY DEF DamageIn
  <2>4. ASSUME OnePlaceEach(j) PROVE at = {Min(E)}
    <3>1. \A m, n \in E : m = n
      BY <2>4 DEF OnePlaceEach, EventsOf
    <3> HIDE DEF E, at
    <3> QED
      BY <2>1, <2>2, <3>1
  <2>5. OnePlaceEach(j) => Brought(j, at) = work[j].events[Min(E)].quantity
    <3> HIDE DEF E, at
    <3> QED
      BY <2>1, <2>4, BroughtNat
  <2> QED
    BY <2>1, <2>2, <2>3, <2>5, WorkFacts
<1> QED
  BY <1>1, <1>2 DEF Hurt

LEMMA UncountedFacts ==
    ASSUME HistoryTypeOK, NEW j \in Jobs, JobOK(j), NEW p \in Places
    PROVE  Uncounted(j, p) \in Nat
BY DamageFacts DEF Uncounted, JobOK

-----------------------------------------------------------------------------
(* One job changes what is still to be credited, or counted.                 *)

LEMMA UncreditedChange ==
    ASSUME HistoryTypeOK, HistoryTypeOK', NEW j \in Jobs, UNCHANGED <<work, locations>>,
           \A k \in Jobs \ {j} : job'[k] = job[k], NEW item \in Kinds
    PROVE  /\ SumOver(UncreditedOf(item), Jobs) \in Int /\ SumOver(UncreditedOf(item)', Jobs) \in Int
           /\ Uncredited(j, item) \in Nat /\ Uncredited(j, item)' \in Nat
           /\ SumOver(UncreditedOf(item)', Jobs)
                = SumOver(UncreditedOf(item), Jobs) - Uncredited(j, item) + Uncredited(j, item)'
<1>1. \A k \in Jobs : /\ UncreditedOf(item)[k] = Uncredited(k, item)
                      /\ UncreditedOf(item)'[k] = Uncredited(k, item)'
  BY DEF UncreditedOf
<1>2. \A k \in Jobs : Uncredited(k, item) \in Nat
  BY CreditFacts
<1>3. \A k \in Jobs \ {j} : Uncredited(k, item)' = Uncredited(k, item)
  BY SameJob DEF Uncredited
<1>4. Uncredited(j, item)' \in Nat
  BY CreditFacts, SameJob DEF Uncredited
<1>5. SumOver(UncreditedOf(item)', Jobs)
        = SumOver(UncreditedOf(item), Jobs) - UncreditedOf(item)[j] + UncreditedOf(item)'[j]
  BY <1>1, <1>2, <1>3, <1>4, HistoryAssumption, SumChange
<1>6. SumOver(UncreditedOf(item), Jobs) \in Int /\ SumOver(UncreditedOf(item)', Jobs) \in Int
  BY <1>1, <1>2, <1>3, <1>4, HistoryAssumption, SumInt
<1> QED
  BY <1>1, <1>2, <1>4, <1>5, <1>6

LEMMA UncountedChange ==
    ASSUME HistoryTypeOK, \A k \in Jobs : JobOK(k), NEW j \in Jobs, UNCHANGED <<work, locations>>,
           \A k \in Jobs \ {j} : report'[k] = report[k], NEW p \in Places,
           Uncounted(j, p)' \in Nat
    PROVE  /\ SumOver(UncountedAt(p), Jobs) \in Int /\ SumOver(UncountedAt(p)', Jobs) \in Int
           /\ Uncounted(j, p) \in Nat
           /\ SumOver(UncountedAt(p)', Jobs)
                = SumOver(UncountedAt(p), Jobs) - Uncounted(j, p) + Uncounted(j, p)'
<1>1. \A k \in Jobs : /\ UncountedAt(p)[k] = Uncounted(k, p)
                      /\ UncountedAt(p)'[k] = Uncounted(k, p)'
  BY DEF UncountedAt
<1>2. \A k \in Jobs : Uncounted(k, p) \in Nat
  BY UncountedFacts
<1>3. \A k \in Jobs \ {j} : Uncounted(k, p)' = Uncounted(k, p)
  BY SameJob DEF Uncounted
<1>4. SumOver(UncountedAt(p)', Jobs)
        = SumOver(UncountedAt(p), Jobs) - UncountedAt(p)[j] + UncountedAt(p)'[j]
  BY <1>1, <1>2, <1>3, HistoryAssumption, SumChange
<1>5. SumOver(UncountedAt(p), Jobs) \in Int /\ SumOver(UncountedAt(p)', Jobs) \in Int
  BY <1>1, <1>2, <1>3, HistoryAssumption, SumInt
<1> QED
  BY <1>1, <1>2, <1>4, <1>5

-----------------------------------------------------------------------------
(* The start.                                                                *)

LEMMA HistoryStarts ==
    ASSUME HistoryInit
    PROVE  HistoryInv
<1>1. Nothing \in [Places -> Nat] /\ NoReport \in Report /\ NoReport.pc = "idle" /\ NoReport.dirty = {}
  BY DEF Nothing, NoReport, Report
<1>2. \A j \in Jobs : /\ job[j].pc = "idle" /\ job[j].event = 1 /\ ~job[j].dirty
                      /\ report[j].pc = "idle" /\ report[j].dirty = {}
  BY <1>1 DEF HistoryInit
<1>3. work \in Worklists /\ locations \in Loans /\ locations \in [Places -> Nat]
  BY HistoryAssumption DEF HistoryInit
<1>4. \A item : Issued(item) \in Nat
  <2> SUFFICES ASSUME NEW item PROVE Issued(item) \in Nat
    OBVIOUS
  <2>1. At(item) \subseteq Places /\ IsFiniteSet(At(item))
    BY HistoryAssumption, FS_Subset DEF At
  <2> QED
    BY <1>3, <2>1, IssuedIs, SumNat
<1>5. HistoryTypeOK
  <2>1. job \in [Jobs -> Job]
    BY DEF HistoryInit, Job
  <2>2. report \in [Jobs -> Report] /\ damage \in [Places -> Nat] /\ broken \in [Places -> Nat]
    BY <1>1 DEF HistoryInit
  <2>3. total \in [Kinds -> Int] /\ credited \in [Kinds -> Nat]
    BY <1>4 DEF HistoryInit
  <2> QED
    BY <1>3, <2>1, <2>2, <2>3 DEF HistoryTypeOK, HistoryInit
<1>6. \A j \in Jobs : JobOK(j)
  BY <1>2, <1>5, WorkFacts DEF JobOK
<1>7. Unraced
  BY <1>2 DEF Unraced
<1>8. Credited
  <2>1. ASSUME NEW item \in Kinds PROVE SumOver(UncreditedOf(item), Jobs) = 0
    <3>1. \A j \in Jobs : UncreditedOf(item)[j] = 0
      BY <1>2 DEF UncreditedOf, Uncredited
    <3> QED
      BY <3>1, HistoryAssumption, SumZero
  <2> QED
    BY <1>4, <2>1 DEF Credited, HistoryInit
<1>9. Counted
  <2>1. ASSUME NEW p \in Places PROVE SumOver(UncountedAt(p), Jobs) = 0
    <3>1. \A j \in Jobs : UncountedAt(p)[j] = 0
      BY <1>2 DEF UncountedAt, Uncounted
    <3> QED
      BY <3>1, HistoryAssumption, SumZero
  <2>2. damagedBins = {} /\ \A p \in Places : damage[p] = 0 /\ broken[p] = 0
    BY DEF HistoryInit, Nothing
  <2> QED
    BY <1>2, <2>1, <2>2 DEF Counted, Unmarked
<1> QED
  BY <1>5, <1>6, <1>7, <1>8, <1>9 DEF HistoryInv

-----------------------------------------------------------------------------
(* What a step of one job leaves alone.                                      *)

\* Another job is where it was.
LEMMA OtherJob ==
    ASSUME UNCHANGED <<work, locations>>, NEW k \in Jobs, JobOK(k),
           job'[k] = job[k], report'[k] = report[k]
    PROVE  JobOK(k)' /\ Event(k)' = Event(k) /\ Taken(k)' = Taken(k)
BY SameJob DEF JobOK, Event, Taken

LEMMA OneJob ==
    ASSUME HistoryInv, UNCHANGED <<work, locations>>, NEW j \in Jobs, JobOK(j)',
           \A k \in Jobs \ {j} : job'[k] = job[k] /\ report'[k] = report[k]
    PROVE  \A k \in Jobs : JobOK(k)'
BY OtherJob DEF HistoryInv

\* The damage is as it was.
LEMMA QuietDamage ==
    ASSUME HistoryInv, UNCHANGED <<work, locations, report, damage, damagedBins, broken, cut>>,
           raced => raced', \A k \in Jobs : job'[k].pc = "idle" <=> job[k].pc = "idle"
    PROVE  Counted'
<1> SUFFICES ASSUME ~raced', ~cut', Single' PROVE Counted'
  BY DEF Counted
<1>1. ~raced /\ ~cut /\ Single
  BY SameJob DEF Single
<1>2. \A p \in Places : UncountedAt(p)' = UncountedAt(p)
  BY SameJob DEF UncountedAt, Uncounted
<1>3. \A k \in Jobs : Hurt(k)' = Hurt(k) /\ (Unmarked(k)' <=> Unmarked(k))
  BY SameJob DEF Unmarked
<1> QED
  BY <1>1, <1>2, <1>3 DEF Counted, HistoryInv

\* And so are the totals.
LEMMA QuietTotals ==
    ASSUME HistoryInv, UNCHANGED <<work, locations, total, credited, cut>>, raced => raced',
           \A k \in Jobs : \A item \in Kinds : Uncredited(k, item)' = Uncredited(k, item)
    PROVE  Credited'
<1> SUFFICES ASSUME ~raced', ~cut' PROVE Credited'
  BY DEF Credited
<1>1. \A item \in Kinds : UncreditedOf(item)' = UncreditedOf(item)
  BY DEF UncreditedOf
<1>2. \A item : Issued(item)' = Issued(item)
  BY SameWork
<1> QED
  BY <1>1, <1>2 DEF Credited, HistoryInv

LEMMA SameCredit ==
    ASSUME UNCHANGED <<work, locations>>, NEW k \in Jobs, job'[k] = job[k]
    PROVE  \A item : Uncredited(k, item)' = Uncredited(k, item)
BY SameJob DEF Uncredited

-----------------------------------------------------------------------------
(* A step that succeeds.                                                     *)

LEMMA StepSucceedsInv ==
    ASSUME HistoryInv, NEW j \in Jobs, StepSucceeds(j)
    PROVE  HistoryInv'
<1>1. /\ HistoryTypeOK /\ (\A k \in Jobs : JobOK(k)) /\ Unraced /\ Credited /\ Counted
      /\ job[j].pc = "idle" /\ report[j].pc = "idle" /\ JobOK(j)
  BY DEF HistoryInv, StepSucceeds, JobOK
<1>2. UNCHANGED <<work, locations, total, damage, damagedBins, raced, cut>>
  BY DEF StepSucceeds
<1>3. ~job[j].dirty /\ report[j].dirty = {} /\ job[j].event = 1
  BY <1>1 DEF JobOK
<1>4. /\ job' \in [Jobs -> Job] /\ \A k \in Jobs \ {j} : job'[k] = job[k]
      /\ job'[j].pc = "read" /\ job'[j].event = 1 /\ ~job'[j].dirty
  <2>1. job[j] \in Job /\ job \in [Jobs -> Job]
    BY <1>1 DEF HistoryTypeOK
  <2>2. [job[j] EXCEPT !.pc = "read"] \in Job
    BY <2>1 DEF Job
  <2>3. job' = [job EXCEPT ![j] = [job[j] EXCEPT !.pc = "read"]]
    BY DEF StepSucceeds
  <2> QED
    BY <1>3, <2>1, <2>2, <2>3 DEF Job
<1>5. /\ report' \in [Jobs -> Report] /\ \A k \in Jobs \ {j} : report'[k] = report[k]
      /\ report'[j].pc = IF IsReturn(j) /\ work[j].damaged # {} THEN "find" ELSE "done"
      /\ report'[j].dirty = {}
  <2> DEFINE to == IF IsReturn(j) /\ work[j].damaged # {} THEN "find" ELSE "done"
  <2>1. report[j] \in Report /\ report \in [Jobs -> Report] /\ to \in {"find", "done"}
    BY <1>1 DEF HistoryTypeOK
  <2>2. report' = [report EXCEPT ![j].pc = to]
    BY DEF StepSucceeds, IsReturn
  <2> HIDE DEF to
  <2>3. /\ [report[j] EXCEPT !.pc = to] \in Report /\ [report[j] EXCEPT !.pc = to].pc = to
        /\ [report[j] EXCEPT !.pc = to].dirty = {}
    BY <1>3, <2>1 DEF Report
  <2>4. report' = [report EXCEPT ![j] = [report[j] EXCEPT !.pc = to]]
    BY <2>2
  <2> QED
    BY <2>1, <2>3, <2>4 DEF to
<1>6. \A item \in Kinds : /\ Brought(j, EventsOf(j, item)) \in Nat
                          /\ Credit(j, item) \in Nat
  BY <1>1, BroughtNat, CreditFacts DEF EventsOf
<1>7. credited' \in [Kinds -> Nat] /\ \A item \in Kinds : credited'[item] = credited[item] + Credit(j, item)
  BY <1>1, <1>6 DEF HistoryTypeOK, StepSucceeds
<1>8. /\ broken' \in [Places -> Nat]
      /\ \A p \in Places : broken'[p] >= broken[p]
      /\ \A p \in Places : broken'[p] =
             IF IsReturn(j) /\ p \in work[j].damaged
             THEN broken[p] + Brought(j, {i \in DOMAIN work[j].events : work[j].events[i].at = p})
             ELSE broken[p]
  <2>1. \A p \in Places : Brought(j, {i \in DOMAIN work[j].events : work[j].events[i].at = p}) \in Nat
    BY <1>1, BroughtNat
  <2>2. \A p \in Places : broken[p] \in Nat
    BY <1>1 DEF HistoryTypeOK
  <2> QED
    BY <2>1, <2>2 DEF StepSucceeds, IsReturn
<1>9. HistoryTypeOK'
  BY <1>1, <1>2, <1>4, <1>5, <1>7, <1>8 DEF HistoryTypeOK
<1>10. JobOK(j)'
  <2>1. 1 \in DOMAIN work[j].events /\ \A n \in Counting(j) : 1 <= n
    BY <1>1, WorkFacts, CreditFacts
  <2> QED
    BY <1>2, <1>4, <1>5, <2>1, SameJob DEF JobOK
<1>11. \A k \in Jobs : JobOK(k)'
  BY <1>2, <1>4, <1>5, <1>10, OneJob
<1>12. Unraced'
  <2>1. \A k \in Jobs \ {j} : Event(k)' = Event(k) /\ Taken(k)' = Taken(k)
    BY <1>1, <1>2, <1>4, <1>5, OtherJob
  <2> QED
    BY <1>1, <1>2, <1>3, <1>4, <1>5, <2>1 DEF Unraced
<1>13. Credited'
  <2> SUFFICES ASSUME ~raced', ~cut', NEW item \in Kinds
               PROVE  total'[item] = Issued(item)' - credited'[item] + SumOver(UncreditedOf(item)', Jobs)
    BY DEF Credited
  <2>1. /\ SumOver(UncreditedOf(item), Jobs) \in Int /\ SumOver(UncreditedOf(item)', Jobs) \in Int
        /\ SumOver(UncreditedOf(item)', Jobs)
             = SumOver(UncreditedOf(item), Jobs) - Uncredited(j, item) + Uncredited(j, item)'
    BY <1>1, <1>2, <1>4, <1>9, UncreditedChange
  <2>2. Uncredited(j, item) = 0
    BY <1>1, <1>3 DEF Uncredited
  <2>3. Uncredited(j, item)' = Credit(j, item)
    BY <1>2, <1>4, SameJob DEF Uncredited
  <2>4. total[item] = Issued(item) - credited[item] + SumOver(UncreditedOf(item), Jobs)
    BY <1>1, <1>2 DEF Credited
  <2>5. Issued(item)' = Issued(item) /\ Issued(item) \in Nat /\ credited[item] \in Nat /\ total[item] \in Int
    BY <1>1, <1>2, SameWork, IssuedNat DEF HistoryTypeOK
  <2> QED
    BY <1>2, <1>6, <1>7, <2>1, <2>2, <2>3, <2>4, <2>5
<1>14. Counted'
  <2> SUFFICES ASSUME ~raced', ~cut', Single', NEW p \in Places
               PROVE  /\ broken'[p] = damage'[p] + SumOver(UncountedAt(p)', Jobs)
                      /\ p \in damagedBins' => broken'[p] > 0
                      /\ broken'[p] > 0 =>
                             p \in damagedBins' \/ \E k \in Jobs : Unmarked(k)' /\ p \in Hurt(k)'
                      /\ \A k \in Jobs : Unmarked(k)' /\ p \in Hurt(k)' => broken'[p] > 0
    BY DEF Counted
  <2>1. Single /\ OnePlaceEach(j)
    BY <1>1, <1>2, <1>4, SameJob DEF Single
  <2>2. \A k \in Jobs : Hurt(k)' = Hurt(k)
    BY <1>2, SameJob
  <2>3. /\ Unmarked(j)' <=> IsReturn(j) /\ work[j].damaged # {}
        /\ \A k \in Jobs \ {j} : Unmarked(k)' <=> Unmarked(k)
    BY <1>5 DEF Unmarked
  <2>4. /\ ~Unmarked(j)
        /\ broken[p] = damage[p] + SumOver(UncountedAt(p), Jobs)
        /\ p \in damagedBins => broken[p] > 0
        /\ broken[p] > 0 => p \in damagedBins \/ \E k \in Jobs : Unmarked(k) /\ p \in Hurt(k)
        /\ \A k \in Jobs : Unmarked(k) /\ p \in Hurt(k) => broken[p] > 0
    BY <1>1, <1>2, <2>1 DEF Counted, Unmarked
  <2>5. /\ broken[p] \in Nat /\ damage[p] \in Nat /\ broken'[p] >= broken[p] /\ broken'[p] \in Nat
        /\ work[j].damaged \subseteq Places /\ Hurt(j) \subseteq work[j].damaged
        /\ \A q \in work[j].damaged : DamageIn(j, q) \in Nat /\ (q \in Hurt(j) <=> DamageIn(j, q) > 0)
    BY <1>1, <1>8, DamageFacts DEF HistoryTypeOK
  <2>6. broken'[p] = IF IsReturn(j) /\ p \in work[j].damaged THEN broken[p] + DamageIn(j, p) ELSE broken[p]
    BY <1>1, <1>8, <2>1, DamageFacts
  <2>7. Uncounted(j, p)' = IF IsReturn(j) /\ p \in work[j].damaged THEN DamageIn(j, p) ELSE 0
    BY <1>2, <1>5, SameJob DEF Uncounted
  <2>8. Uncounted(j, p) = 0
    BY <1>1, <1>3 DEF Uncounted
  <2>9. /\ SumOver(UncountedAt(p), Jobs) \in Int /\ SumOver(UncountedAt(p)', Jobs) \in Int
        /\ SumOver(UncountedAt(p)', Jobs)
             = SumOver(UncountedAt(p), Jobs) - Uncounted(j, p) + Uncounted(j, p)'
    BY <1>1, <1>2, <1>5, <2>5, <2>7, UncountedChange
  <2>10. broken'[p] = damage'[p] + SumOver(UncountedAt(p)', Jobs)
    BY <1>2, <2>4, <2>5, <2>6, <2>7, <2>8, <2>9
  <2>11. broken'[p] > 0 => p \in damagedBins' \/ \E k \in Jobs : Unmarked(k)' /\ p \in Hurt(k)'
    <3>1. CASE broken[p] > 0
      BY <1>2, <2>2, <2>3, <2>4, <3>1
    <3>2. CASE ~(broken[p] > 0)
      <4>1. ASSUME broken'[p] > 0 PROVE Unmarked(j)' /\ p \in Hurt(j)'
        BY <2>2, <2>3, <2>5, <2>6, <3>2, <4>1
      <4> QED
        BY <4>1
    <3> QED
      BY <3>1, <3>2
  <2>12. \A k \in Jobs : Unmarked(k)' /\ p \in Hurt(k)' => broken'[p] > 0
    <3>1. \A k \in Jobs \ {j} : Unmarked(k)' /\ p \in Hurt(k)' => broken'[p] > 0
      BY <2>2, <2>3, <2>4, <2>5
    <3>2. Unmarked(j)' /\ p \in Hurt(j)' => broken'[p] > 0
      BY <2>2, <2>3, <2>5, <2>6
    <3> QED
      BY <3>1, <3>2
  <2> QED
    BY <1>2, <2>4, <2>5, <2>10, <2>11, <2>12
<1> QED
  BY <1>9, <1>11, <1>12, <1>13, <1>14 DEF HistoryInv

-----------------------------------------------------------------------------
(* The events of a step.                                                     *)

LEMMA RecordIssueInv ==
    ASSUME HistoryInv, NEW j \in Jobs, RecordIssue(j)
    PROVE  HistoryInv'
<1>1. /\ HistoryTypeOK /\ (\A k \in Jobs : JobOK(k)) /\ Unraced /\ job[j].pc = "read" /\ JobOK(j)
      /\ ~IsReturn(j) /\ ~job[j].dirty
  BY DEF HistoryInv, RecordIssue, IsReturn, JobOK
<1>2. UNCHANGED <<work, locations, total, report, damage, damagedBins, credited, broken,
                  raced, cut>>
  BY DEF RecordIssue
<1>3. /\ job' \in [Jobs -> Job] /\ \A k \in Jobs \ {j} : job'[k] = job[k]
      /\ job'[j].pc \in {"done", "settled"} /\ job'[j].event = job[j].event /\ ~job'[j].dirty
  <2> DEFINE to == IF \E i \in DOMAIN work[j].events : work[j].events[i].quantity > 0
                   THEN "done" ELSE "settled"
  <2>1. job[j] \in Job /\ job \in [Jobs -> Job] /\ to \in {"done", "settled"}
    BY <1>1 DEF HistoryTypeOK
  <2>2. job' = [job EXCEPT ![j].pc = to]
    BY DEF RecordIssue
  <2> HIDE DEF to
  <2>3. /\ [job[j] EXCEPT !.pc = to] \in Job /\ [job[j] EXCEPT !.pc = to].pc = to
        /\ [job[j] EXCEPT !.pc = to].event = job[j].event
        /\ [job[j] EXCEPT !.pc = to].dirty = job[j].dirty
    BY <2>1 DEF Job
  <2>4. job' = [job EXCEPT ![j] = [job[j] EXCEPT !.pc = to]]
    BY <2>2
  <2> QED
    BY <1>1, <2>1, <2>3, <2>4
<1>4. HistoryTypeOK'
  BY <1>1, <1>2, <1>3 DEF HistoryTypeOK
<1>5. JobOK(j)'
  BY <1>1, <1>2, <1>3, SameJob DEF JobOK
<1>6. \A k \in Jobs : JobOK(k)'
  BY <1>2, <1>3, <1>5, OneJob
<1>7. Unraced'
  <2>1. \A k \in Jobs \ {j} : Event(k)' = Event(k) /\ Taken(k)' = Taken(k)
    BY <1>1, <1>2, <1>3, OtherJob
  <2> QED
    BY <1>1, <1>2, <1>3, <2>1 DEF Unraced
<1>8. Credited'
  <2>1. \A item \in Kinds : Uncredited(j, item)' = Uncredited(j, item)
    BY <1>1, <1>2, <1>3, CreditFacts DEF Uncredited
  <2>2. \A k \in Jobs : \A item \in Kinds : Uncredited(k, item)' = Uncredited(k, item)
    BY <1>2, <1>3, <2>1, SameCredit
  <2> QED
    BY <1>2, <2>2, QuietTotals
<1>9. Counted'
  BY <1>1, <1>2, <1>3, QuietDamage
<1> QED
  BY <1>4, <1>6, <1>7, <1>8, <1>9 DEF HistoryInv

LEMMA ReadEventInv ==
    ASSUME HistoryInv, NEW j \in Jobs, ReadEvent(j)
    PROVE  HistoryInv'
<1>1. /\ HistoryTypeOK /\ (\A k \in Jobs : JobOK(k)) /\ Unraced /\ job[j].pc = "read" /\ JobOK(j)
      /\ IsReturn(j) /\ job[j].event \in Counting(j) /\ ~job[j].dirty
  BY DEF HistoryInv, ReadEvent, IsReturn, JobOK
<1>2. UNCHANGED <<work, locations, total, report, damage, damagedBins, credited, broken, cut>>
  BY DEF ReadEvent
<1>3. /\ raced' \in BOOLEAN /\ (raced => raced')
      /\ ~raced' => \A k \in Jobs \ {j} : job[k].dirty => Taken(k) # Taken(j)
  BY <1>1 DEF ReadEvent, HistoryTypeOK
<1>4. /\ job' \in [Jobs -> Job] /\ \A k \in Jobs \ {j} : job'[k] = job[k]
      /\ job'[j].pc = "settled" /\ job'[j].event = job[j].event /\ job'[j].dirty
      /\ job'[j].entity = total[Taken(j)] - Event(j).quantity
  <2> DEFINE left == total[Taken(j)] - Event(j).quantity
             read == [job[j] EXCEPT !.pc = "settled", !.dirty = TRUE, !.entity = left]
  <2>1. job[j] \in Job /\ job \in [Jobs -> Job]
    BY <1>1 DEF HistoryTypeOK
  <2>2. left \in Int
    <3>1. Taken(j) \in Kinds /\ Event(j).quantity \in Nat
      BY <1>1, WorkFacts DEF JobOK, Taken, Event
    <3> QED
      BY <1>1, <3>1 DEF HistoryTypeOK
  <2>3. job' = [job EXCEPT ![j] = read]
    BY DEF ReadEvent
  <2> HIDE DEF left
  <2>4. /\ read \in Job /\ read.pc = "settled" /\ read.dirty /\ read.entity = left
        /\ read.event = job[j].event
    BY <2>1, <2>2 DEF Job
  <2> HIDE DEF read
  <2> QED
    BY <2>1, <2>3, <2>4 DEF left
<1>5. HistoryTypeOK'
  BY <1>1, <1>2, <1>3, <1>4 DEF HistoryTypeOK
<1>6. JobOK(j)'
  BY <1>1, <1>2, <1>4, SameJob DEF JobOK
<1>7. \A k \in Jobs : JobOK(k)'
  BY <1>2, <1>4, <1>6, OneJob
<1>8. Unraced'
  <2>1. \A k \in Jobs \ {j} : Event(k)' = Event(k) /\ Taken(k)' = Taken(k)
    BY <1>1, <1>2, <1>4, OtherJob
  <2>2. Event(j)' = Event(j) /\ Taken(j)' = Taken(j)
    BY <1>2, <1>4 DEF Event, Taken
  <2> QED
    BY <1>1, <1>2, <1>3, <1>4, <2>1, <2>2 DEF Unraced
<1>9. Credited'
  <2>1. \A item \in Kinds : Uncredited(j, item)' = Uncredited(j, item)
    BY <1>1, <1>2, <1>4, SameJob DEF Uncredited
  <2>2. \A k \in Jobs : \A item \in Kinds : Uncredited(k, item)' = Uncredited(k, item)
    BY <1>2, <1>4, <2>1, SameCredit
  <2> QED
    BY <1>2, <1>3, <2>2, QuietTotals
<1>10. Counted'
  BY <1>1, <1>2, <1>3, <1>4, QuietDamage
<1> QED
  BY <1>5, <1>7, <1>8, <1>9, <1>10 DEF HistoryInv

LEMMA SkipEventInv ==
    ASSUME HistoryInv, NEW j \in Jobs, SkipEvent(j)
    PROVE  HistoryInv'
<1>1. /\ HistoryTypeOK /\ (\A k \in Jobs : JobOK(k)) /\ Unraced /\ job[j].pc = "read" /\ JobOK(j)
      /\ IsReturn(j) /\ job[j].event \notin Counting(j) /\ ~job[j].dirty
      /\ job[j].event < Len(work[j].events)
  BY DEF HistoryInv, SkipEvent, IsReturn, JobOK
<1>2. UNCHANGED <<work, locations, total, report, damage, damagedBins, credited, broken,
                  raced, cut>>
  BY DEF SkipEvent
<1>3. /\ job' \in [Jobs -> Job] /\ \A k \in Jobs \ {j} : job'[k] = job[k]
      /\ job'[j].pc = "read" /\ job'[j].event = job[j].event + 1 /\ ~job'[j].dirty
  <2>1. job[j] \in Job /\ job \in [Jobs -> Job]
    BY <1>1 DEF HistoryTypeOK
  <2>2. [job[j] EXCEPT !.event = @ + 1] \in Job
    BY <2>1 DEF Job
  <2>3. job' = [job EXCEPT ![j] = [job[j] EXCEPT !.event = @ + 1]]
    BY DEF SkipEvent
  <2> QED
    BY <1>1, <2>1, <2>2, <2>3 DEF Job
<1>4. HistoryTypeOK'
  BY <1>1, <1>2, <1>3 DEF HistoryTypeOK
<1>5. JobOK(j)'
  <2>1. /\ job[j].event \in 1..Len(work[j].events) /\ Len(work[j].events) \in Nat
        /\ DOMAIN work[j].events = 1..Len(work[j].events)
    BY <1>1, WorkFacts DEF JobOK
  <2>2. job[j].event + 1 \in DOMAIN work[j].events
    BY <1>1, <2>1
  <2>3. \A n \in Counting(j) : job[j].event + 1 <= n
    <3>1. Counting(j) \subseteq 1..Len(work[j].events)
      BY <1>1, <2>1, CreditFacts
    <3>2. \A n \in Counting(j) : job[j].event <= n /\ n # job[j].event
      BY <1>1 DEF JobOK
    <3> QED
      BY <2>1, <3>1, <3>2
  <2> QED
    BY <1>1, <1>2, <1>3, <2>2, <2>3, SameJob DEF JobOK
<1>6. \A k \in Jobs : JobOK(k)'
  BY <1>2, <1>3, <1>5, OneJob
<1>7. Unraced'
  <2>1. \A k \in Jobs \ {j} : Event(k)' = Event(k) /\ Taken(k)' = Taken(k)
    BY <1>1, <1>2, <1>3, OtherJob
  <2> QED
    BY <1>1, <1>2, <1>3, <2>1 DEF Unraced
<1>8. Credited'
  <2>1. \A item \in Kinds : Uncredited(j, item)' = Uncredited(j, item)
    BY <1>1, <1>2, <1>3, SameJob DEF Uncredited
  <2>2. \A k \in Jobs : \A item \in Kinds : Uncredited(k, item)' = Uncredited(k, item)
    BY <1>2, <1>3, <2>1, SameCredit
  <2> QED
    BY <1>2, <2>2, QuietTotals
<1>9. Counted'
  BY <1>1, <1>2, <1>3, QuietDamage
<1> QED
  BY <1>4, <1>6, <1>7, <1>8, <1>9 DEF HistoryInv

-----------------------------------------------------------------------------
(* A flush.                                                                  *)

\* A job flushes: what it read is still to be credited only if it reads on.
FlushStep(j) ==
    /\ EmFlush(j)
    /\ UNCHANGED <<work, locations, damagedBins, credited, broken, raced, cut>>
    /\ job' \in [Jobs -> Job] /\ report' \in [Jobs -> Report]
    /\ \A k \in Jobs \ {j} : job'[k] = job[k] /\ report'[k] = report[k]
    /\ job'[j].event = job[j].event /\ ~job'[j].dirty /\ report'[j].dirty = {}
    /\ job[j].pc # "idle" /\ job'[j].pc # "idle" /\ report'[j].pc # "idle"
    /\ job'[j].pc = "read" => job[j].pc = "read"
    /\ job[j].pc = "read" => job'[j].pc = "read" \/ Counting(j) = {}
    /\ report'[j].pc = report[j].pc \/ (report[j].pc = "flush" /\ report'[j].pc = "done")

LEMMA FlushKeeps ==
    ASSUME HistoryInv, NEW j \in Jobs, FlushStep(j)
    PROVE  HistoryInv'
<1>1. /\ HistoryTypeOK /\ (\A k \in Jobs : JobOK(k)) /\ Unraced /\ Credited /\ Counted /\ JobOK(j)
  BY DEF HistoryInv
<1>2. UNCHANGED <<work, locations, damagedBins, credited, broken, raced, cut>>
  BY DEF FlushStep
<1>3. \A k \in Jobs \ {j} : job'[k] = job[k] /\ report'[k] = report[k]
  BY DEF FlushStep
<1>4. /\ total' = IF job[j].dirty THEN [total EXCEPT ![Taken(j)] = job[j].entity] ELSE total
      /\ damage' = [p \in Places |-> IF p \in report[j].dirty THEN DamagedThen(j, p) ELSE damage[p]]
  BY DEF FlushStep, EmFlush
<1>5. \A k \in Jobs : Taken(k) \in Kinds /\ Event(k).quantity \in Nat
  BY <1>1, WorkFacts DEF JobOK, Taken, Event
<1>6. \A p \in report[j].dirty : /\ p \in Places /\ p \in work[j].damaged /\ p \in Hurt(j)
                                 /\ DamageIn(j, p) \in Nat
                                 /\ report[j].found[p] \in Nat /\ report[j].pc \in {"mark", "flush"}
  BY <1>1, DamageFacts DEF JobOK, HistoryTypeOK, Report
<1>7. HistoryTypeOK'
  <2>1. total' \in [Kinds -> Int]
    BY <1>1, <1>4, <1>5 DEF HistoryTypeOK, Job
  <2>2. damage' \in [Places -> Nat]
    BY <1>1, <1>4, <1>6 DEF HistoryTypeOK, DamagedThen
  <2> QED
    BY <1>1, <1>2, <2>1, <2>2 DEF HistoryTypeOK, FlushStep
<1>8. JobOK(j)'
  BY <1>1, <1>2, SameJob DEF JobOK, FlushStep
<1>9. \A k \in Jobs : JobOK(k)'
  BY <1>2, <1>3, <1>8, OneJob
<1>10. Unraced'
  <2> SUFFICES ASSUME ~raced' PROVE Unraced'
    BY DEF Unraced
  <2>1. \A k \in Jobs \ {j} : Event(k)' = Event(k) /\ Taken(k)' = Taken(k)
    BY <1>1, <1>2, <1>3, OtherJob
  <2>2. ~raced
    BY <1>2
  <2>3. \A k \in Jobs \ {j} : job[k].dirty => total'[Taken(k)] = total[Taken(k)]
    BY <1>1, <1>4, <1>5, <2>2 DEF Unraced, HistoryTypeOK
  <2>4. \A k \in Jobs \ {j} : \A p \in report[k].dirty : p \in Places /\ damage'[p] = damage[p]
    <3>1. \A k \in Jobs : report[k].dirty \subseteq Places
      BY <1>1, DamageFacts DEF HistoryTypeOK, Report
    <3>2. \A k \in Jobs \ {j} : \A p \in report[k].dirty : p \notin report[j].dirty
      BY <1>1, <2>2 DEF Unraced
    <3> QED
      BY <1>4, <3>1, <3>2
  <2>5. ~job'[j].dirty /\ report'[j].dirty = {}
    BY DEF FlushStep
  <2>6. \A k \in Jobs : job'[k].dirty =>
             /\ job'[k].entity = total'[Taken(k)'] - Event(k)'.quantity
             /\ \A l \in Jobs \ {k} : job'[l].dirty => Taken(l)' # Taken(k)'
    BY <1>1, <1>3, <2>1, <2>2, <2>3, <2>5 DEF Unraced
  <2>7. \A k \in Jobs : \A p \in report'[k].dirty :
             /\ report'[k].found[p] = damage'[p]
             /\ \A l \in Jobs \ {k} : p \notin report'[l].dirty
    BY <1>1, <1>3, <2>2, <2>4, <2>5 DEF Unraced
  <2> QED
    BY <2>6, <2>7 DEF Unraced
<1>11. Credited'
  <2> SUFFICES ASSUME ~raced', ~cut', NEW item \in Kinds
               PROVE  total'[item] = Issued(item)' - credited'[item] + SumOver(UncreditedOf(item)', Jobs)
    BY DEF Credited
  <2>1. /\ SumOver(UncreditedOf(item), Jobs) \in Int /\ SumOver(UncreditedOf(item)', Jobs) \in Int
        /\ Uncredited(j, item) \in Nat /\ Uncredited(j, item)' \in Nat
        /\ SumOver(UncreditedOf(item)', Jobs)
             = SumOver(UncreditedOf(item), Jobs) - Uncredited(j, item) + Uncredited(j, item)'
    BY <1>1, <1>2, <1>3, <1>7, UncreditedChange
  <2>2. total[item] = Issued(item) - credited[item] + SumOver(UncreditedOf(item), Jobs)
    BY <1>1, <1>2 DEF Credited
  <2>3. Issued(item)' = Issued(item) /\ Issued(item) \in Nat /\ credited[item] \in Nat /\ total[item] \in Int
    BY <1>1, <1>2, SameWork, IssuedNat DEF HistoryTypeOK
  <2>4. total'[item] = total[item] - Uncredited(j, item) + Uncredited(j, item)'
    <3>1. CASE job[j].dirty
      <4>1. /\ IsReturn(j) /\ job[j].pc = "settled" /\ job[j].event \in Counting(j)
            /\ \A n \in Counting(j) : job[j].event <= n
        BY <1>1, <3>1 DEF JobOK
      <4>2. Credit(j, item) = IF Taken(j) = item THEN Event(j).quantity ELSE 0
        BY <1>1, <4>1, CreditFacts DEF Taken, Event
      <4>3. Uncredited(j, item) = Credit(j, item) /\ Uncredited(j, item)' = 0
        BY <3>1, <4>1 DEF Uncredited, FlushStep
      <4>4. job[j].entity = total[Taken(j)] - Event(j).quantity
        BY <1>1, <1>2, <3>1 DEF Unraced
      <4>5. total'[item] = IF Taken(j) = item THEN job[j].entity ELSE total[item]
        BY <1>1, <1>4, <1>5, <3>1 DEF HistoryTypeOK
      <4>6. total[item] \in Int /\ Event(j).quantity \in Nat
        BY <1>5, <2>3
      <4> QED
        BY <4>2, <4>3, <4>4, <4>5, <4>6
    <3>2. CASE ~job[j].dirty
      <4>1. Credit(j, item) = 0 \/ (job'[j].pc = "read" <=> job[j].pc = "read")
        BY <1>1, CreditFacts DEF FlushStep
      <4>2. Credit(j, item)' = Credit(j, item)
        BY <1>2, SameJob
      <4>3. Uncredited(j, item)' = Uncredited(j, item)
        BY <3>2, <4>1, <4>2 DEF Uncredited, FlushStep
      <4> QED
        BY <1>4, <2>1, <2>3, <3>2, <4>3
    <3> QED
      BY <3>1, <3>2
  <2> QED
    BY <1>2, <2>1, <2>2, <2>3, <2>4
<1>12. Counted'
  <2> SUFFICES ASSUME ~raced', ~cut', Single', NEW p \in Places
               PROVE  /\ broken'[p] = damage'[p] + SumOver(UncountedAt(p)', Jobs)
                      /\ p \in damagedBins' => broken'[p] > 0
                      /\ broken'[p] > 0 =>
                             p \in damagedBins' \/ \E k \in Jobs : Unmarked(k)' /\ p \in Hurt(k)'
                      /\ \A k \in Jobs : Unmarked(k)' /\ p \in Hurt(k)' => broken'[p] > 0
    BY DEF Counted
  <2>1. Single
    BY <1>2, <1>3, SameJob DEF Single, FlushStep
  <2>2. /\ broken[p] = damage[p] + SumOver(UncountedAt(p), Jobs)
        /\ p \in damagedBins => broken[p] > 0
        /\ broken[p] > 0 => p \in damagedBins \/ \E k \in Jobs : Unmarked(k) /\ p \in Hurt(k)
        /\ \A k \in Jobs : Unmarked(k) /\ p \in Hurt(k) => broken[p] > 0
    BY <1>1, <1>2, <2>1 DEF Counted
  <2>3. \A k \in Jobs : Hurt(k)' = Hurt(k) /\ (Unmarked(k)' <=> Unmarked(k))
    BY <1>2, <1>3, SameJob DEF Unmarked, FlushStep
  <2>4. Uncounted(j, p)' = IF report[j].pc = "find" /\ p \in work[j].damaged THEN DamageIn(j, p) ELSE 0
    BY <1>2, SameJob DEF Uncounted, FlushStep
  <2>5. Uncounted(j, p)' \in Nat
    BY <1>1, <2>4, DamageFacts
  <2>6. /\ SumOver(UncountedAt(p), Jobs) \in Int /\ SumOver(UncountedAt(p)', Jobs) \in Int
        /\ Uncounted(j, p) \in Nat
        /\ SumOver(UncountedAt(p)', Jobs)
             = SumOver(UncountedAt(p), Jobs) - Uncounted(j, p) + Uncounted(j, p)'
    BY <1>1, <1>2, <1>3, <2>5, UncountedChange
  <2>7. damage'[p] = damage[p] + Uncounted(j, p) - Uncounted(j, p)'
    <3>1. damage[p] \in Nat
      BY <1>1 DEF HistoryTypeOK
    <3>2. CASE p \in report[j].dirty
      <4>1. Uncounted(j, p) = DamageIn(j, p) /\ Uncounted(j, p)' = 0
        BY <1>6, <2>4, <3>2 DEF Uncounted
      <4>2. damage'[p] = damage[p] + DamageIn(j, p)
        BY <1>1, <1>2, <1>4, <3>2 DEF Unraced, DamagedThen
      <4> QED
        BY <1>6, <3>1, <3>2, <4>1, <4>2
    <3>3. CASE p \notin report[j].dirty
      BY <1>4, <2>4, <2>6, <3>1, <3>3 DEF Uncounted
    <3> QED
      BY <3>2, <3>3
  <2>8. damage[p] \in Nat
    BY <1>1 DEF HistoryTypeOK
  <2> QED
    BY <1>2, <2>2, <2>3, <2>5, <2>6, <2>7, <2>8
<1> QED
  BY <1>7, <1>9, <1>10, <1>11, <1>12 DEF HistoryInv

LEMMA FlushesKeep ==
    ASSUME HistoryInv, NEW j \in Jobs, SkipLastEvent(j) \/ FlushDamage(j) \/ Advance(j)
    PROVE  HistoryInv'
<1>1. /\ HistoryTypeOK /\ JobOK(j) /\ job[j] \in Job /\ job \in [Jobs -> Job]
      /\ report[j] \in Report /\ report \in [Jobs -> Report]
  BY DEF HistoryInv, HistoryTypeOK
<1>2. CASE SkipLastEvent(j)
  <2>1. [job[j] EXCEPT !.pc = "settled", !.dirty = FALSE] \in Job
    BY <1>1 DEF Job
  <2>2. [report[j] EXCEPT !.dirty = {}] \in Report
    BY <1>1 DEF Report
  <2>3. /\ job' = [job EXCEPT ![j] = [job[j] EXCEPT !.pc = "settled", !.dirty = FALSE]]
        /\ report' = [report EXCEPT ![j] = [report[j] EXCEPT !.dirty = {}]]
    BY <1>2 DEF SkipLastEvent
  <2>4. /\ job' \in [Jobs -> Job] /\ report' \in [Jobs -> Report]
        /\ \A k \in Jobs \ {j} : job'[k] = job[k] /\ report'[k] = report[k]
        /\ job'[j].pc = "settled" /\ job'[j].event = job[j].event /\ ~job'[j].dirty
        /\ report'[j].pc = report[j].pc /\ report'[j].dirty = {}
    BY <1>1, <2>1, <2>2, <2>3 DEF Job, Report
  <2>5. Counting(j) = {}
    <3>1. Counting(j) \subseteq 1..Len(work[j].events) /\ Len(work[j].events) \in Nat
      BY <1>1, WorkFacts, CreditFacts
    <3>2. \A n \in Counting(j) : Len(work[j].events) <= n /\ n # Len(work[j].events)
      BY <1>1, <1>2 DEF JobOK, SkipLastEvent, IsReturn
    <3> QED
      BY <3>1, <3>2
  <2>6. job[j].pc # "idle" /\ report[j].pc # "idle"
    BY <1>1, <1>2 DEF SkipLastEvent, JobOK
  <2>7. FlushStep(j)
    BY <1>2, <2>4, <2>5, <2>6 DEF FlushStep, SkipLastEvent
  <2> QED
    BY <2>7, FlushKeeps
<1>3. CASE FlushDamage(j)
  <2>1. [job[j] EXCEPT !.dirty = FALSE] \in Job
    BY <1>1 DEF Job
  <2>2. [report[j] EXCEPT !.pc = "done", !.dirty = {}] \in Report
    BY <1>1 DEF Report
  <2>3. /\ job' = [job EXCEPT ![j] = [job[j] EXCEPT !.dirty = FALSE]]
        /\ report' = [report EXCEPT ![j] = [report[j] EXCEPT !.pc = "done", !.dirty = {}]]
    BY <1>3 DEF FlushDamage
  <2>4. /\ job' \in [Jobs -> Job] /\ report' \in [Jobs -> Report]
        /\ \A k \in Jobs \ {j} : job'[k] = job[k] /\ report'[k] = report[k]
        /\ job'[j].pc = job[j].pc /\ job'[j].event = job[j].event /\ ~job'[j].dirty
        /\ report'[j].pc = "done" /\ report'[j].dirty = {}
    BY <1>1, <2>1, <2>2, <2>3 DEF Job, Report
  <2>5. job[j].pc # "idle" /\ report[j].pc = "flush"
    BY <1>1, <1>3 DEF FlushDamage, JobOK
  <2>6. FlushStep(j)
    BY <1>3, <2>4, <2>5 DEF FlushStep, FlushDamage
  <2> QED
    BY <2>6, FlushKeeps
<1>4. CASE Advance(j)
  <2>1. [job[j] EXCEPT !.pc = "done", !.dirty = FALSE] \in Job
    BY <1>1 DEF Job
  <2>2. [report[j] EXCEPT !.dirty = {}] \in Report
    BY <1>1 DEF Report
  <2>3. /\ job' = [job EXCEPT ![j] = [job[j] EXCEPT !.pc = "done", !.dirty = FALSE]]
        /\ report' = [report EXCEPT ![j] = [report[j] EXCEPT !.dirty = {}]]
    BY <1>4 DEF Advance
  <2>4. /\ job' \in [Jobs -> Job] /\ report' \in [Jobs -> Report]
        /\ \A k \in Jobs \ {j} : job'[k] = job[k] /\ report'[k] = report[k]
        /\ job'[j].pc = "done" /\ job'[j].event = job[j].event /\ ~job'[j].dirty
        /\ report'[j].pc = report[j].pc /\ report'[j].dirty = {}
    BY <1>1, <2>1, <2>2, <2>3 DEF Job, Report
  <2>5. job[j].pc = "settled" /\ report[j].pc = "done"
    BY <1>4 DEF Advance
  <2>6. FlushStep(j)
    BY <1>4, <2>4, <2>5 DEF FlushStep, Advance
  <2> QED
    BY <2>6, FlushKeeps
<1> QED
  BY <1>2, <1>3, <1>4

-----------------------------------------------------------------------------
(* The damage part, and the death of the process.                            *)

LEMMA FindDamageInv ==
    ASSUME HistoryInv, NEW j \in Jobs, FindDamage(j)
    PROVE  HistoryInv'
<1>1. /\ HistoryTypeOK /\ (\A k \in Jobs : JobOK(k)) /\ Unraced /\ Counted /\ JobOK(j)
      /\ report[j].pc = "find" /\ report[j].dirty = {} /\ IsReturn(j) /\ job[j].pc # "idle"
      /\ Hurt(j) \subseteq Places
  BY DamageFacts DEF HistoryInv, FindDamage, JobOK
<1>2. UNCHANGED <<work, locations, total, job, damage, damagedBins, credited, broken, cut>>
  BY DEF FindDamage
<1>3. /\ raced' \in BOOLEAN /\ (raced => raced')
      /\ ~raced' => \A k \in Jobs \ {j} : report[k].dirty \cap Hurt(j) = {}
  BY <1>1 DEF FindDamage, HistoryTypeOK
<1>4. /\ report' \in [Jobs -> Report] /\ \A k \in Jobs \ {j} : report'[k] = report[k]
      /\ report'[j].pc = IF Hurt(j) = {} THEN "flush" ELSE "mark"
      /\ report'[j].found = damage /\ report'[j].dirty = Hurt(j)
  <2> DEFINE to == IF Hurt(j) = {} THEN "flush" ELSE "mark"
             loaded == [pc |-> to, found |-> damage, dirty |-> Hurt(j)]
  <2>1. report \in [Jobs -> Report] /\ damage \in [Places -> Nat] /\ to \in {"flush", "mark"}
    BY <1>1 DEF HistoryTypeOK
  <2>2. report' = [report EXCEPT ![j] = loaded]
    BY DEF FindDamage
  <2>3. loaded \in Report
    BY <1>1, <2>1 DEF Report
  <2> QED
    BY <2>1, <2>2, <2>3
<1>5. HistoryTypeOK'
  BY <1>1, <1>2, <1>3, <1>4 DEF HistoryTypeOK
<1>6. JobOK(j)'
  <2>1. report'[j].pc \in {"flush", "mark"}
    BY <1>4
  <2> QED
    BY <1>1, <1>2, <1>4, <2>1, SameJob DEF JobOK
<1>7. \A k \in Jobs : JobOK(k)'
  BY <1>2, <1>4, <1>6, OneJob
<1>8. Unraced'
  <2>1. \A k \in Jobs : Event(k)' = Event(k) /\ Taken(k)' = Taken(k)
    BY <1>2 DEF Event, Taken
  <2> SUFFICES ASSUME ~raced' PROVE Unraced'
    BY DEF Unraced
  <2>2. \A k \in Jobs : \A p \in report'[k].dirty :
             /\ report'[k].found[p] = damage'[p]
             /\ \A l \in Jobs \ {k} : p \notin report'[l].dirty
    BY <1>1, <1>2, <1>3, <1>4 DEF Unraced
  <2> QED
    BY <1>1, <1>2, <1>3, <2>1, <2>2 DEF Unraced
<1>9. Credited'
  BY <1>2, <1>3, SameCredit, QuietTotals
<1>10. Counted'
  <2> SUFFICES ASSUME ~raced', ~cut', Single' PROVE Counted'
    BY DEF Counted
  <2>1. ~raced /\ ~cut /\ Single
    BY <1>2, <1>3, SameJob DEF Single
  <2>2. \A p \in Places : UncountedAt(p)' = UncountedAt(p)
    <3> SUFFICES ASSUME NEW p \in Places PROVE UncountedAt(p)' = UncountedAt(p)
      OBVIOUS
    <3>1. \A k \in Jobs \ {j} : Uncounted(k, p)' = Uncounted(k, p)
      BY <1>2, <1>4, SameJob DEF Uncounted
    <3>2. Uncounted(j, p) = IF p \in work[j].damaged THEN DamageIn(j, p) ELSE 0
      BY <1>1 DEF Uncounted
    <3>3. Uncounted(j, p)' = IF p \in Hurt(j) THEN DamageIn(j, p) ELSE 0
      BY <1>2, <1>4, SameJob DEF Uncounted
    <3>4. Uncounted(j, p)' = Uncounted(j, p)
      BY <1>1, <3>2, <3>3, DamageFacts
    <3> QED
      BY <3>1, <3>4 DEF UncountedAt
  <2>3. \A k \in Jobs : Hurt(k)' = Hurt(k)
    BY <1>2, SameJob
  <2>4. \A k \in Jobs : \A p \in Hurt(k) : Unmarked(k)' <=> Unmarked(k)
    BY <1>1, <1>4 DEF Unmarked
  <2> QED
    BY <1>1, <1>2, <2>1, <2>2, <2>3, <2>4 DEF Counted
<1> QED
  BY <1>5, <1>7, <1>8, <1>9, <1>10 DEF HistoryInv

LEMMA MarkBinsInv ==
    ASSUME HistoryInv, NEW j \in Jobs, MarkBins(j)
    PROVE  HistoryInv'
<1>1. /\ HistoryTypeOK /\ (\A k \in Jobs : JobOK(k)) /\ Unraced /\ Counted /\ JobOK(j)
      /\ report[j].pc = "mark" /\ IsReturn(j) /\ job[j].pc # "idle" /\ Hurt(j) \subseteq Places
  BY DamageFacts DEF HistoryInv, MarkBins, JobOK
<1>2. /\ UNCHANGED <<work, locations, total, job, damage, credited, broken, raced, cut>>
      /\ damagedBins' = damagedBins \cup Hurt(j)
  BY DEF MarkBins
<1>3. /\ report' \in [Jobs -> Report] /\ \A k \in Jobs \ {j} : report'[k] = report[k]
      /\ report'[j].pc = "flush" /\ report'[j].found = report[j].found
      /\ report'[j].dirty = report[j].dirty
  <2>1. report[j] \in Report /\ report \in [Jobs -> Report]
    BY <1>1 DEF HistoryTypeOK
  <2>2. [report[j] EXCEPT !.pc = "flush"] \in Report
    BY <2>1 DEF Report
  <2>3. report' = [report EXCEPT ![j] = [report[j] EXCEPT !.pc = "flush"]]
    BY DEF MarkBins
  <2> QED
    BY <2>1, <2>2, <2>3 DEF Report
<1>4. HistoryTypeOK'
  BY <1>1, <1>2, <1>3 DEF HistoryTypeOK
<1>5. JobOK(j)'
  BY <1>1, <1>2, <1>3, SameJob DEF JobOK
<1>6. \A k \in Jobs : JobOK(k)'
  BY <1>2, <1>3, <1>5, OneJob
<1>7. Unraced'
  <2>1. \A k \in Jobs : Event(k)' = Event(k) /\ Taken(k)' = Taken(k)
    BY <1>2 DEF Event, Taken
  <2>2. \A k \in Jobs : report'[k].found = report[k].found /\ report'[k].dirty = report[k].dirty
    BY <1>3
  <2> QED
    BY <1>1, <1>2, <2>1, <2>2 DEF Unraced
<1>8. Credited'
  BY <1>2, SameCredit, QuietTotals
<1>9. Counted'
  <2> SUFFICES ASSUME ~raced', ~cut', Single', NEW p \in Places
               PROVE  /\ broken'[p] = damage'[p] + SumOver(UncountedAt(p)', Jobs)
                      /\ p \in damagedBins' => broken'[p] > 0
                      /\ broken'[p] > 0 =>
                             p \in damagedBins' \/ \E k \in Jobs : Unmarked(k)' /\ p \in Hurt(k)'
                      /\ \A k \in Jobs : Unmarked(k)' /\ p \in Hurt(k)' => broken'[p] > 0
    BY DEF Counted
  <2>1. Single
    BY <1>2, SameJob DEF Single
  <2>2. /\ broken[p] = damage[p] + SumOver(UncountedAt(p), Jobs)
        /\ p \in damagedBins => broken[p] > 0
        /\ broken[p] > 0 => p \in damagedBins \/ \E k \in Jobs : Unmarked(k) /\ p \in Hurt(k)
        /\ \A k \in Jobs : Unmarked(k) /\ p \in Hurt(k) => broken[p] > 0
    BY <1>1, <1>2, <2>1 DEF Counted
  <2>3. \A k \in Jobs : Hurt(k)' = Hurt(k)
    BY <1>2, SameJob
  <2>4. UncountedAt(p)' = UncountedAt(p)
    <3>1. \A k \in Jobs \ {j} : Uncounted(k, p)' = Uncounted(k, p)
      BY <1>2, <1>3, SameJob DEF Uncounted
    <3>2. Uncounted(j, p)' = Uncounted(j, p)
      BY <1>1, <1>2, <1>3, SameJob DEF Uncounted
    <3> QED
      BY <3>1, <3>2 DEF UncountedAt
  <2>5. /\ Unmarked(j) /\ ~Unmarked(j)'
        /\ \A k \in Jobs \ {j} : Unmarked(k)' <=> Unmarked(k)
    BY <1>1, <1>3 DEF Unmarked
  <2> QED
    BY <1>2, <2>2, <2>3, <2>4, <2>5
<1> QED
  BY <1>4, <1>6, <1>7, <1>8, <1>9 DEF HistoryInv

LEMMA WorkerDiesInv ==
    ASSUME HistoryInv, WorkerDies
    PROVE  HistoryInv'
<1>1. HistoryTypeOK /\ (\A k \in Jobs : JobOK(k))
  BY DEF HistoryInv
<1>2. /\ UNCHANGED <<work, locations, total, damage, damagedBins, credited, broken, raced>>
      /\ cut' = TRUE
  BY DEF WorkerDies
<1>3. ASSUME NEW k \in Jobs
      PROVE  /\ job'[k] \in Job /\ report'[k] \in Report
             /\ ~job'[k].dirty /\ report'[k].dirty = {}
             /\ job'[k].event = job[k].event
             /\ job'[k].pc # "read" /\ report'[k].pc \in {"idle", "done"}
             /\ job'[k].pc = "idle" <=> job[k].pc = "idle"
             /\ report'[k].pc = "idle" <=> report[k].pc = "idle"
  <2>1. job[k] \in Job /\ report[k] \in Report /\ JobOK(k)
    BY <1>1 DEF HistoryTypeOK
  <2>2. /\ job'[k] = IF job[k].pc = "idle" THEN job[k]
                     ELSE [job[k] EXCEPT !.pc = "done", !.dirty = FALSE]
        /\ report'[k] = IF report[k].pc = "idle" THEN report[k]
                        ELSE [report[k] EXCEPT !.pc = "done", !.dirty = {}]
    BY DEF WorkerDies
  <2>3. job[k].pc = "idle" => ~job[k].dirty
    BY <2>1 DEF JobOK
  <2>4. report[k].pc = "idle" => report[k].dirty = {}
    BY <2>1 DEF JobOK
  <2>5. CASE job[k].pc = "idle"
    BY <2>1, <2>2, <2>3, <2>4, <2>5 DEF JobOK
  <2>6. CASE job[k].pc # "idle"
    <3>1. report[k].pc # "idle"
      BY <2>1, <2>6 DEF JobOK
    <3> QED
      BY <2>1, <2>2, <2>6, <3>1 DEF Job, Report
  <2> QED
    BY <2>5, <2>6
<1>4. HistoryTypeOK'
  <2>1. job' = [k \in Jobs |-> job'[k]] /\ report' = [k \in Jobs |-> report'[k]]
    BY DEF WorkerDies
  <2>2. job' \in [Jobs -> Job] /\ report' \in [Jobs -> Report]
    BY <1>3, <2>1
  <2> QED
    BY <1>1, <1>2, <2>2 DEF HistoryTypeOK
<1>5. ASSUME NEW k \in Jobs PROVE JobOK(k)'
  BY <1>1, <1>2, <1>3, SameJob DEF JobOK
<1>6. Unraced' /\ Credited' /\ Counted'
  BY <1>2, <1>3 DEF Unraced, Credited, Counted
<1> QED
  BY <1>4, <1>5, <1>6 DEF HistoryInv

LEMMA HistoryStepInv ==
    ASSUME HistoryInv, [HistoryNext]_historyVars
    PROVE  HistoryInv'
<1>1. CASE UNCHANGED historyVars
  <2>1. UNCHANGED <<work, locations, total, job, report, damage, damagedBins, credited,
                    broken, raced, cut>>
    BY <1>1 DEF historyVars
  <2>2. HistoryTypeOK' /\ \A k \in Jobs : JobOK(k)'
    <3>1. \A k \in Jobs : JobOK(k)'
      BY <2>1, OtherJob DEF HistoryInv
    <3> QED
      BY <2>1, <3>1 DEF HistoryInv, HistoryTypeOK
  <2>3. Unraced'
    <3>1. \A k \in Jobs : Event(k)' = Event(k) /\ Taken(k)' = Taken(k)
      BY <2>1 DEF Event, Taken
    <3> QED
      BY <2>1, <3>1 DEF HistoryInv, Unraced
  <2>4. Credited' /\ Counted'
    BY <2>1, SameCredit, QuietTotals, QuietDamage
  <2> QED
    BY <2>2, <2>3, <2>4 DEF HistoryInv
<1>2. CASE HistoryNext
  BY <1>2, StepSucceedsInv, RecordIssueInv, ReadEventInv, SkipEventInv, FlushesKeep, FindDamageInv,
     MarkBinsInv, WorkerDiesInv DEF HistoryNext
<1> QED
  BY <1>1, <1>2

-----------------------------------------------------------------------------
\* The invariant of the histories, for any steps, histories, places and jobs.
THEOREM HistoryInvariance == HistorySpec => []HistoryInv
<1>1. HistoryInit => HistoryInv
  BY HistoryStarts
<1>2. HistoryInv /\ [HistoryNext]_historyVars => HistoryInv'
  BY HistoryStepInv
<1> QED
  BY <1>1, <1>2, PTL DEF HistorySpec

\* The types of what the jobs read, hold and write.
THEOREM HistoryTypeCorrect == HistorySpec => []HistoryTypeOK
<1>1. HistoryInv => HistoryTypeOK
  BY DEF HistoryInv
<1> QED
  BY <1>1, HistoryInvariance, PTL

\* Once no job is under way, the total of a history lacks the first counting event of each
\* return (transaction.service 639-655, written by 617 or the flush of the next step).
THEOREM TotalsCredited == HistorySpec => []TotalsAreCredited
<1>1. HistoryInv => TotalsAreCredited
  <2> SUFFICES ASSUME HistoryInv, AtRest, ~raced, ~cut, NEW item \in Kinds
               PROVE  total[item] = Issued(item) - credited[item]
    BY DEF TotalsAreCredited
  <2>1. HistoryTypeOK /\ Credited /\ \A j \in Jobs : JobOK(j)
    BY DEF HistoryInv
  <2>2. \A j \in Jobs : UncreditedOf(item)[j] = 0
    BY <2>1 DEF UncreditedOf, Uncredited, AtRest, JobOK
  <2>3. SumOver(UncreditedOf(item), Jobs) = 0
    BY <2>2, HistoryAssumption, SumZero
  <2>4. Issued(item) \in Nat /\ credited[item] \in Nat
    BY <2>1, IssuedNat DEF HistoryTypeOK
  <2> QED
    BY <2>1, <2>3, <2>4 DEF Credited
<1> QED
  BY <1>1, HistoryInvariance, PTL

\* What came back damaged is counted and its bins are marked once its jobs are over.
THEOREM DamageIsReported == HistorySpec => []DamageIsCounted
<1>1. HistoryInv => DamageIsCounted
  <2> SUFFICES ASSUME HistoryInv, AtRest, ~raced, ~cut,
                      \A j \in Jobs : job[j].pc = "done" => OnePlaceEach(j)
               PROVE  damage = broken /\ damagedBins = {p \in Places : broken[p] > 0}
    BY DEF DamageIsCounted
  <2>1. HistoryTypeOK /\ Counted /\ \A j \in Jobs : JobOK(j)
    BY DEF HistoryInv
  <2>2. Single
    BY DEF Single, AtRest
  <2>3. \A j \in Jobs : report[j].dirty = {} /\ ~Unmarked(j) /\ report[j].pc # "find"
    BY <2>1 DEF AtRest, JobOK, Unmarked
  <2>4. ASSUME NEW p \in Places PROVE damage[p] = broken[p] /\ (p \in damagedBins <=> broken[p] > 0)
    <3>1. \A j \in Jobs : UncountedAt(p)[j] = 0
      BY <2>3 DEF UncountedAt, Uncounted
    <3>2. SumOver(UncountedAt(p), Jobs) = 0
      BY <3>1, HistoryAssumption, SumZero
    <3> QED
      BY <2>1, <2>2, <2>3, <3>2 DEF Counted, HistoryTypeOK
  <2> QED
    BY <2>1, <2>4 DEF HistoryTypeOK
<1> QED
  BY <1>1, HistoryInvariance, PTL
=============================================================================
