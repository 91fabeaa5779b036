------------------------- MODULE PlanAndCheckProofs -------------------------
(***************************************************************************)
(* For every cabinet, stock, history and list of requests.  IInv: the      *)
(* tracking lists of a plan cover everything in its bins that is not       *)
(* planned itself, so that a step is judged valid only if nothing else was *)
(* touched.  PortionsInv: the portions of a plan add up to what was asked  *)
(* for, and fit.  HonestInv: a step that was done as planned is valid.     *)
(* ListInv: what the lists offer is never refused.                         *)
(***************************************************************************)
EXTENDS PlanAndCheck, BinListing, SumTheorems, SequenceTheorems, TLAPS

AllPlanned == {plan[k].loadcell : k \in DOMAIN plan}

\* The loadcells to account for at the bin of an entry.
Around(k) == FinalLoadcells(BinOf[plan[k].loadcell])

\* Whatever is beside an entry of the plan is tracked by it or planned.
Covered == \A k \in DOMAIN plan : \A l \in Around(k) :
             l \in plan[k].track \/ l \in AllPlanned

TriedInv == status = "planning" => tried \subseteq AllPlanned

\* Nothing is judged before the plan is complete.
VerdictInv == status # "planned" => \A b \in Bins : verdict[b] = "none"

IInv == PlanStateOK /\ Covered /\ TriedInv /\ VerdictInv /\ NothingElseTouched
-----------------------------------------------------------------------------
(* The helpers of the plan                                                 *)

\* A requested quantity is a positive number.
LEMMA RequestFacts ==
  ASSUME PlanStateOK, NEW k \in DOMAIN requests
  PROVE  requests[k].quantity \in Nat
<1>1. requests \in Seq(Request)
  BY DEF PlanStateOK
<1>2. requests[k] \in Request
  BY <1>1
<1> QED
  BY <1>2 DEF Request

\* Never more than needed is allocated.
LEMMA PortionFacts ==
  ASSUME PlanStateOK, NEW l \in Loadcells
  PROVE  Portion(l) \in Nat /\ Portion(l) <= needed /\ Remaining(l) \in Nat
<1>1. Calibrated[l] \in Nat /\ stock[l] \in Nat /\ history[l] \in Nat /\ needed \in Nat
  BY PlanningAssumption DEF PlanStateOK
<1>2. Room(l) \in Nat
  BY <1>1 DEF Room
<1> QED
  BY <1>1, <1>2 DEF Portion, Remaining

\* Taking loadcells off the lists changes the lists only.
LEMMA UntrackedFacts ==
  ASSUME PlanStateOK, NEW ids
  PROVE  /\ Untracked(ids) \in Seq(Planned)
         /\ DOMAIN Untracked(ids) = DOMAIN plan
         /\ \A k \in DOMAIN plan : /\ Untracked(ids)[k].loadcell = plan[k].loadcell
                                   /\ Untracked(ids)[k].track = plan[k].track \ ids
<1>1. plan \in Seq(Planned) /\ DOMAIN plan = 1..Len(plan) /\ Len(plan) \in Nat
  BY DEF PlanStateOK
<1>2. \A k \in DOMAIN plan : plan[k] \in Planned
  BY <1>1
<1>3. \A k \in DOMAIN plan : /\ [plan[k] EXCEPT !.track = @ \ ids] \in Planned
                             /\ [plan[k] EXCEPT !.track = @ \ ids].loadcell = plan[k].loadcell
                             /\ [plan[k] EXCEPT !.track = @ \ ids].track = plan[k].track \ ids
  BY <1>2 DEF Planned
<1>4. Untracked(ids) \in [1..Len(plan) -> Planned]
  BY <1>1, <1>3 DEF Untracked
<1>5. Untracked(ids) \in Seq(Planned)
  BY <1>1, <1>4, SeqDef
<1> QED
  BY <1>3, <1>5 DEF Untracked

\* A new entry at the end of the plan leaves the others alone.
LEMMA AppendFacts ==
  ASSUME PlanStateOK, NEW e \in Planned
  PROVE  /\ Append(plan, e) \in Seq(Planned)
         /\ DOMAIN Append(plan, e) = DOMAIN plan \cup {Len(plan) + 1}
         /\ \A k \in DOMAIN plan : Append(plan, e)[k] = plan[k]
         /\ Append(plan, e)[Len(plan) + 1] = e
BY DEF PlanStateOK

-----------------------------------------------------------------------------
LEMMA InitInv == CheckInit => IInv
<1> SUFFICES ASSUME CheckInit PROVE IInv
  OBVIOUS
<1>1. requests \in Seq(Request) /\ requests # <<>>
  BY PlanningAssumption DEF CheckInit, Init
<1>2. 1 \in DOMAIN requests
  BY <1>1
<1>3. requests[1].quantity \in Nat
  <2>1. requests[1] \in Request
    BY <1>1, <1>2
  <2> QED
    BY <2>1 DEF Request
<1>4. PlanStateOK
  BY <1>1, <1>2, <1>3, PlanningAssumption DEF CheckInit, Init, PlanStateOK
<1>5. Covered /\ TriedInv
  BY DEF CheckInit, Init, Covered, TriedInv
<1>6. VerdictInv /\ NothingElseTouched
  BY DEF CheckInit, VerdictInv, NothingElseTouched
<1> QED
  BY <1>4, <1>5, <1>6 DEF IInv

\* As long as nothing is judged, planning cannot spoil a verdict.
LEMMA Unjudged ==
  ASSUME IInv, status = "planning", UNCHANGED verdict
  PROVE  VerdictInv' /\ NothingElseTouched'
BY DEF IInv, VerdictInv, NothingElseTouched

LEMMA AllocateInv ==
  ASSUME IInv, NEW l \in Loadcells, Allocate(l), UNCHANGED <<quantity, verdict>>
  PROVE  IInv'
<1> DEFINE e == [loadcell |-> l, request |-> Portion(l), track |-> TrackedAtFirst(BinOf[l])]
<1>1. PlanStateOK
  BY DEF IInv
<1>2. e \in Planned /\ e.loadcell = l /\ e.track = TrackedAtFirst(BinOf[l])
  BY <1>1, PortionFacts DEF Planned, TrackedAtFirst, Inside
<1>3. plan' = Append(plan, e)
  BY DEF Allocate
<1> HIDE DEF e
<1>4. /\ plan' \in Seq(Planned)
      /\ DOMAIN plan' = DOMAIN plan \cup {Len(plan) + 1}
      /\ \A k \in DOMAIN plan : plan'[k] = plan[k]
      /\ plan'[Len(plan) + 1] = e
  BY <1>1, <1>2, <1>3, AppendFacts
<1>5. AllPlanned' = AllPlanned \cup {l}
  BY <1>2, <1>4 DEF AllPlanned
<1>6. PlanStateOK'
  <2>1. Remaining(l) \in Nat
    BY <1>1, PortionFacts
  <2> QED
    BY <1>1, <1>4, <2>1 DEF PlanStateOK, Allocate, given
<1>7. TriedInv'
  BY <1>5 DEF IInv, TriedInv, Allocate
<1>8. Covered'
  <2> SUFFICES ASSUME NEW k \in DOMAIN plan',
                      NEW m \in FinalLoadcells(BinOf[plan'[k].loadcell])
               PROVE  m \in plan'[k].track \/ m \in AllPlanned'
    BY DEF Covered, Around, FinalLoadcells, Inside, Assigned
  <2>1. CASE k \in DOMAIN plan
    BY <1>4, <1>5, <2>1 DEF IInv, Covered, Around
  <2>2. CASE k = Len(plan) + 1
    BY <1>2, <1>4, <2>2 DEF TrackedAtFirst, FinalLoadcells
  <2> QED
    BY <1>4, <2>1, <2>2
<1> QED
  BY <1>6, <1>7, <1>8, Unjudged DEF IInv, Allocate

LEMMA RefuseInv ==
  ASSUME IInv, Refuse, UNCHANGED <<quantity, verdict>>
  PROVE  IInv'
<1>1. plan' = <<>> /\ plan' \in Seq(Planned)
  BY DEF Refuse
<1>2. PlanStateOK'
  BY <1>1 DEF IInv, PlanStateOK, Refuse, given
<1>3. Covered' /\ TriedInv'
  BY <1>1 DEF Covered, TriedInv, Refuse
<1> QED
  BY <1>2, <1>3, Unjudged DEF IInv, Refuse

LEMMA FinishItemInv ==
  ASSUME IInv, FinishItem, UNCHANGED <<quantity, verdict>>
  PROVE  IInv'
<1>1. PlanStateOK
  BY DEF IInv
<1>2. AllocatedIds \subseteq AllPlanned
  BY DEF IInv, TriedInv, AllocatedIds, AllPlanned, FinishItem
<1>3. /\ plan' \in Seq(Planned)
      /\ DOMAIN plan' = DOMAIN plan
      /\ \A k \in DOMAIN plan : /\ plan'[k].loadcell = plan[k].loadcell
                                /\ plan'[k].track = plan[k].track \ AllocatedIds
  BY <1>1, UntrackedFacts DEF FinishItem
<1>4. AllPlanned' = AllPlanned
  BY <1>3 DEF AllPlanned
<1>5. PlanStateOK'
  <2>1. index' \in DOMAIN requests' /\ needed' \in Nat
    <3>1. CASE index < Len(requests)
      <4>1. index + 1 \in DOMAIN requests
        BY <1>1, <3>1 DEF PlanStateOK
      <4> QED
        BY <1>1, <3>1, <4>1, RequestFacts DEF FinishItem, given
    <3>2. CASE ~(index < Len(requests))
      BY <1>1, <3>2 DEF FinishItem, given, PlanStateOK
    <3> QED
      BY <3>1, <3>2
  <2> QED
    BY <1>1, <1>3, <2>1 DEF PlanStateOK, FinishItem, given
<1>6. Covered'
  <2> SUFFICES ASSUME NEW k \in DOMAIN plan',
                      NEW m \in FinalLoadcells(BinOf[plan'[k].loadcell])
               PROVE  m \in plan'[k].track \/ m \in AllPlanned'
    BY DEF Covered, Around, FinalLoadcells, Inside, Assigned
  <2> QED
    BY <1>2, <1>3, <1>4 DEF IInv, Covered, Around
<1>7. TriedInv'
  BY DEF FinishItem, TriedInv
<1> QED
  BY <1>5, <1>6, <1>7, Unjudged DEF IInv, FinishItem

\* A loadcell beside the planned ones of a complete plan is tracked.
LEMMA TrackedBeside ==
  ASSUME IInv, NEW b \in StepBins, NEW l \in FinalLoadcells(b) \ PlannedIn(b)
  PROVE  l \in KeepTrack(b)
<1>1. PICK k \in DOMAIN plan : BinOf[plan[k].loadcell] = b
  BY DEF StepBins
<1>2. l \notin AllPlanned
  BY DEF AllPlanned, PlannedIn, EntriesIn, FinalLoadcells, Inside
<1>3. l \in plan[k].track
  BY <1>1, <1>2 DEF IInv, Covered, Around
<1> QED
  BY <1>1, <1>3 DEF KeepTrack, EntriesIn

\* A tracked loadcell passes only when its quantity is the one of the plan.
LEMMA TrackedUntouched ==
  ASSUME NEW l, NEW n \in Nat, NEW now, NEW found, now[l] \in Nat,
         Passes([type |-> "KEEP_TRACK", loadcell |-> l, request |-> 0, current |-> n], found, now)
  PROVE  now[l] = n
BY DEF Passes, Conforms, Changed

LEMMA UseBinInv ==
  ASSUME IInv, NEW b \in Bins, UseBin(b)
  PROVE  IInv'
<1>1. PlanStateOK /\ b \in StepBins /\ status = "planned"
  BY DEF IInv, UseBin
<1>2. PICK left \in [FinalLoadcells(b) -> Quantities] :
        quantity' = [l \in Loadcells |-> IF l \in FinalLoadcells(b) THEN left[l] ELSE quantity[l]]
  BY DEF UseBin
<1>3. quantity' \in [Loadcells -> Nat]
  BY <1>1, <1>2, QuantitiesAssumption DEF PlanStateOK
<1>4. /\ verdict'[b] \in {"valid", "invalid"}
      /\ verdict'[b] = "valid" => IsValid(Actions(b), FinalLoadcells(b), quantity')
      /\ \A c \in Bins \ {b} : verdict'[c] = verdict[c]
      /\ verdict' \in [Bins -> {"none", "valid", "invalid"}]
  BY <1>1 DEF UseBin, PlanStateOK
<1>5. PlanStateOK'
  BY <1>1, <1>3, <1>4 DEF PlanStateOK, UseBin, vars
<1>6. Covered' /\ TriedInv' /\ VerdictInv'
  <2>1. Covered'
    BY DEF IInv, Covered, Around, AllPlanned, FinalLoadcells, Inside, Assigned, UseBin, vars
  <2>2. TriedInv' /\ VerdictInv'
    BY <1>1 DEF TriedInv, VerdictInv, UseBin, vars
  <2> QED
    BY <2>1, <2>2
<1>7. NothingElseTouched'
  <2>a. stock' = stock /\ plan' = plan
    BY DEF UseBin, vars
  <2> SUFFICES ASSUME NEW c \in Bins, verdict'[c] = "valid",
                      NEW l \in FinalLoadcells(c) \ PlannedIn(c)
               PROVE  quantity'[l] = stock[l]
    BY <2>a DEF NothingElseTouched, FinalLoadcells, Inside, Assigned, PlannedIn, EntriesIn
  <2>1. l \in Loadcells /\ BinOf[l] = c
    BY DEF FinalLoadcells, Inside
  <2>2. CASE c = b
    <3> DEFINE a == [type |-> "KEEP_TRACK", loadcell |-> l, request |-> 0, current |-> stock[l]]
    <3>0. l \in ExecutionStep(b).track
      BY <1>1, <2>2, TrackedBeside DEF ExecutionStep
    <3>1. a \in Actions(b)
      BY <3>0 DEF Actions
    <3>2. Passes(a, FinalLoadcells(b), quantity')
      BY <1>4, <2>2, <3>1 DEF IsValid
    <3>3. stock[l] \in Nat /\ quantity'[l] \in Nat
      BY <1>1, <1>3, <2>1 DEF PlanStateOK
    <3> QED
      BY <3>2, <3>3, TrackedUntouched
  <2>3. CASE c # b
    <3>1. verdict[c] = "valid"
      BY <1>4, <2>3
    <3>2. quantity[l] = stock[l]
      BY <3>1 DEF IInv, NothingElseTouched
    <3>3. l \notin FinalLoadcells(b)
      BY <2>1, <2>3 DEF FinalLoadcells, Inside
    <3> QED
      BY <1>2, <2>1, <3>2, <3>3
  <2> QED
    BY <2>2, <2>3
<1> QED
  BY <1>5, <1>6, <1>7 DEF IInv

LEMMA StutterInv == IInv /\ UNCHANGED checkVars => IInv'
BY DEF IInv, checkVars, vars, PlanStateOK, Covered, Around, AllPlanned, TriedInv, VerdictInv,
       NothingElseTouched, FinalLoadcells, Inside, Assigned, PlannedIn, EntriesIn

LEMMA NextInv == IInv /\ [CheckNext]_checkVars => IInv'
<1> SUFFICES ASSUME IInv, [CheckNext]_checkVars PROVE IInv'
  OBVIOUS
<1>1. CASE MakePlan
  BY <1>1, AllocateInv, RefuseInv, FinishItemInv DEF MakePlan, Next
<1>2. CASE \E b \in Bins : UseBin(b)
  BY <1>2, UseBinInv
<1>3. CASE UNCHANGED checkVars
  BY <1>3, StutterInv
<1> QED
  BY <1>1, <1>2, <1>3 DEF CheckNext
-----------------------------------------------------------------------------
\* The inductive invariant of planning and checking.
LEMMA CheckInvariance == CheckSpec => []IInv
<1> QED
  BY InitInv, NextInv, PTL DEF CheckSpec

\* The steps hold loadcells, quantities and requests of the plan.
LEMMA StepsTyped ==
  ASSUME PlanStateOK, NEW b \in StepBins
  PROVE  ExecutionStep(b) \in Step
<1>1. /\ \A k \in DOMAIN plan : plan[k] \in Planned
      /\ stock \in [Loadcells -> Nat] /\ kind \in Kinds
  BY DEF PlanStateOK
<1>2. \A k \in EntriesIn(b) :
        /\ plan[k].loadcell \in Loadcells /\ plan[k].request \in Nat
        /\ stock[plan[k].loadcell] \in Nat /\ plan[k].track \subseteq Loadcells
  BY <1>1 DEF EntriesIn, Planned
<1>3. ExecutionStep(b).items \subseteq StepItem
  BY <1>2 DEF ExecutionStep, StepItem
<1>4. ExecutionStep(b).track \subseteq Loadcells
  BY <1>2 DEF ExecutionStep, KeepTrack
<1>5. b \in Bins
  BY <1>1 DEF StepBins, Bins, Planned
<1> QED
  BY <1>1, <1>3, <1>4, <1>5 DEF ExecutionStep, Step

\* All variables of planning and checking keep their types: no loop allocates
\* more than is needed or reads past the requests.
THEOREM PlanTypeCorrect == CheckSpec => []PlanTypeOK
<1>1. IInv => PlanTypeOK
  BY StepsTyped DEF IInv, PlanTypeOK
<1> QED
  BY <1>1, CheckInvariance, PTL

\* A step judged valid touched nothing that was not planned, for every cabinet,
\* stock and request: what _validateChange accepts is all that has changed.
THEOREM ValidStepsAreClean == CheckSpec => []NothingElseTouched
<1>1. IInv => NothingElseTouched
  BY DEF IInv
<1> QED
  BY <1>1, CheckInvariance, PTL
-----------------------------------------------------------------------------
(* What entries of a plan add up to.                                       *)

\* The quantities of entries E of a plan p, added up.
Portions(p, E) == MapThenSumSet(LAMBDA k : p[k].request, E)
RequestOf(p, E) == [k \in E |-> p[k].request]

LEMMA PortionsAre ==
  ASSUME NEW p, NEW E
  PROVE  Portions(p, E) = SumOver(RequestOf(p, E), E)
<1> DEFINE Direct(g) == g = [s \in SUBSET E |-> IF s = {} THEN 0 ELSE p[AnyOf(s)].request + g[s \ {AnyOf(s)}]]
<1>1. Portions(p, E) = (CHOOSE g : Direct(g))[E]
  BY DEF Portions, MapThenSumSet, MapThenFoldSet, AnyOf
<1>2. ASSUME NEW g PROVE Direct(g) <=> SumTable(RequestOf(p, E), E, g)
  <2> DEFINE a(s) == IF s = {} THEN 0 ELSE p[AnyOf(s)].request + g[s \ {AnyOf(s)}]
             c(s) == IF s = {} THEN 0 ELSE RequestOf(p, E)[AnyOf(s)] + g[s \ {AnyOf(s)}]
  <2>1. \A s \in SUBSET E : a(s) = c(s)
    BY AnyOfIn DEF RequestOf
  <2>2. [s \in SUBSET E |-> a(s)] = [s \in SUBSET E |-> c(s)]
    <3> HIDE DEF a, c
    <3> QED  BY <2>1
  <2> QED  BY <2>2 DEF SumTable
<1>3. (CHOOSE g : Direct(g)) = CHOOSE g : SumTable(RequestOf(p, E), E, g)
  <2> HIDE DEF Direct
  <2> QED  BY <1>2
<1> QED
  BY <1>1, <1>3, SumIsTable

RequestsOf(p) == RequestOf(p, DOMAIN p)

\* The requests of entries of a plan, as a function of all its entries.
LEMMA PortionsIn ==
  ASSUME NEW p \in Seq(Planned), NEW E, E \subseteq DOMAIN p
  PROVE  /\ Portions(p, E) = SumOver(RequestsOf(p), E)
         /\ IsFiniteSet(E) /\ \A k \in DOMAIN p : RequestsOf(p)[k] = p[k].request /\ p[k].request \in Nat
<1>1. DOMAIN p = 1..Len(p) /\ Len(p) \in Nat /\ \A k \in DOMAIN p : p[k] \in Planned
  OBVIOUS
<1>2. IsFiniteSet(DOMAIN p)
  BY <1>1, FS_Interval
<1>3. IsFiniteSet(E)
  BY <1>2, FS_Subset
<1>4. \A k \in DOMAIN p : RequestsOf(p)[k] = p[k].request /\ p[k].request \in Nat
  BY <1>1 DEF RequestsOf, RequestOf, Planned
<1>5. \A k \in E : RequestsOf(p)[k] = RequestOf(p, E)[k]
  BY <1>4 DEF RequestOf
<1>6. SumOver(RequestsOf(p), E) = SumOver(RequestOf(p, E), E)
  BY <1>3, <1>5, SumSame
<1> QED
  BY <1>3, <1>4, <1>6, PortionsAre

\* The entries of an item, and what they add up to.
EntriesFor(p, i) == {k \in DOMAIN p : ItemOf[p[k].loadcell] = i}
Placed(p, i) == Portions(p, EntriesFor(p, i))

LEMMA PlacedNat ==
  ASSUME NEW p \in Seq(Planned), NEW i
  PROVE  Placed(p, i) \in Nat
<1> DEFINE E == EntriesFor(p, i)
<1>1. E \subseteq DOMAIN p
  BY DEF EntriesFor
<1>2. Placed(p, i) = SumOver(RequestsOf(p), E) /\ IsFiniteSet(E) /\ \A k \in E : RequestsOf(p)[k] \in Nat
  BY <1>1, PortionsIn DEF Placed
<1> HIDE DEF E
<1> QED
  BY <1>2, SumNat

LEMMA PlacedAppend ==
  ASSUME NEW p \in Seq(Planned), NEW e \in Planned, NEW i
  PROVE  /\ Placed(p, i) \in Nat
         /\ Placed(Append(p, e), i) = Placed(p, i) + (IF ItemOf[e.loadcell] = i THEN e.request ELSE 0)
<1> DEFINE q == Append(p, e)
           n == Len(p) + 1
           E == EntriesFor(p, i)
           F == EntriesFor(q, i)
<1>1. /\ q \in Seq(Planned) /\ DOMAIN q = DOMAIN p \cup {n} /\ n \notin DOMAIN p
      /\ q[n] = e /\ \A k \in DOMAIN p : q[k] = p[k]
  OBVIOUS
<1> HIDE DEF q, n
<1>2. E \subseteq DOMAIN p /\ F \subseteq DOMAIN q /\ E \subseteq DOMAIN q
  BY <1>1 DEF EntriesFor
<1>3. F = IF ItemOf[e.loadcell] = i THEN E \cup {n} ELSE E
  BY <1>1 DEF EntriesFor
<1>4. /\ Placed(p, i) = SumOver(RequestsOf(p), E) /\ Placed(q, i) = SumOver(RequestsOf(q), F)
      /\ IsFiniteSet(E)
      /\ \A k \in DOMAIN p : RequestsOf(p)[k] = p[k].request /\ p[k].request \in Nat
      /\ \A k \in DOMAIN q : RequestsOf(q)[k] = q[k].request /\ q[k].request \in Nat
  BY <1>1, <1>2, PortionsIn DEF Placed
<1>5. SumOver(RequestsOf(q), E) = SumOver(RequestsOf(p), E)
  <2>1. \A k \in E : RequestsOf(q)[k] = RequestsOf(p)[k]
    BY <1>1, <1>2, <1>4
  <2> QED  BY <1>4, <2>1, SumSame
<1>6. SumOver(RequestsOf(p), E) \in Nat
  BY <1>2, <1>4, SumNat
<1>7. SumOver(RequestsOf(q), E \cup {n}) = e.request + SumOver(RequestsOf(q), E)
  <2>1. \A k \in E \cup {n} : RequestsOf(q)[k] \in Int
    BY <1>1, <1>2, <1>4
  <2>2. n \notin E /\ RequestsOf(q)[n] = e.request
    BY <1>1, <1>2, <1>4
  <2> HIDE DEF E
  <2> QED  BY <1>4, <2>1, <2>2, SumAdd
<1>8. e.request \in Nat
  BY DEF Planned
<1> HIDE DEF E, F
<1>9. Placed(q, i) = Placed(p, i) + (IF ItemOf[e.loadcell] = i THEN e.request ELSE 0)
  BY <1>3, <1>4, <1>5, <1>6, <1>7, <1>8
<1> QED
  BY <1>4, <1>6, <1>9 DEF q

\* Other tracking lists do not matter.
LEMMA PortionsSame ==
  ASSUME NEW p \in Seq(Planned), NEW q \in Seq(Planned), DOMAIN p = DOMAIN q, NEW E, E \subseteq DOMAIN p,
         \A k \in DOMAIN p : p[k].request = q[k].request
  PROVE  Portions(p, E) = Portions(q, E)
<1>1. \A k \in E : RequestsOf(p)[k] = RequestsOf(q)[k]
  BY PortionsIn
<1>2. IsFiniteSet(E) /\ Portions(p, E) = SumOver(RequestsOf(p), E)
        /\ Portions(q, E) = SumOver(RequestsOf(q), E)
  BY PortionsIn
<1> QED
  BY <1>1, <1>2, SumSame

LEMMA PlacedSame ==
  ASSUME NEW p \in Seq(Planned), NEW q \in Seq(Planned), DOMAIN p = DOMAIN q, NEW i,
         \A k \in DOMAIN p : p[k].request = q[k].request /\ p[k].loadcell = q[k].loadcell
  PROVE  Placed(p, i) = Placed(q, i)
<1>1. EntriesFor(p, i) = EntriesFor(q, i) /\ EntriesFor(p, i) \subseteq DOMAIN p
  BY DEF EntriesFor
<1> QED
  BY <1>1, PortionsSame DEF Placed

LEMMA PlacedNothing == ASSUME NEW i PROVE Placed(<<>>, i) = 0
<1>1. EntriesFor(<<>>, i) = {}
  BY DEF EntriesFor
<1>2. Portions(<<>>, {}) = SumOver(RequestOf(<<>>, {}), {})
  BY PortionsAre
<1> QED
  BY <1>1, <1>2, SumEmpty DEF Placed
-----------------------------------------------------------------------------
(* What was asked for, added up.                                           *)

QuantitiesOf(r) == QuantityOf(r, DOMAIN r)

LEMMA QuantityIn ==
  ASSUME NEW r \in Seq(Request), NEW E, E \subseteq DOMAIN r
  PROVE  /\ Quantity(r, E) = SumOver(QuantitiesOf(r), E)
         /\ IsFiniteSet(E) /\ Quantity(r, E) \in Nat
         /\ \A k \in DOMAIN r : /\ QuantitiesOf(r)[k] = r[k].quantity
                                /\ r[k].quantity \in Nat /\ r[k].quantity > 0
<1>1. DOMAIN r = 1..Len(r) /\ Len(r) \in Nat /\ \A k \in DOMAIN r : r[k] \in Request
  OBVIOUS
<1>2. IsFiniteSet(DOMAIN r)
  BY <1>1, FS_Interval
<1>3. IsFiniteSet(E)
  BY <1>2, FS_Subset
<1>4. \A k \in DOMAIN r : /\ QuantitiesOf(r)[k] = r[k].quantity
                          /\ r[k].quantity \in Nat /\ r[k].quantity > 0
  BY <1>1 DEF QuantitiesOf, QuantityOf, Request
<1>5. \A k \in E : QuantitiesOf(r)[k] = QuantityOf(r, E)[k]
  BY <1>4 DEF QuantityOf
<1>6. SumOver(QuantitiesOf(r), E) = SumOver(QuantityOf(r, E), E)
  BY <1>3, <1>5, SumSame
<1>7. SumOver(QuantitiesOf(r), E) \in Nat
  BY <1>3, <1>4, SumNat
<1> QED
  BY <1>3, <1>4, <1>6, <1>7, QuantityAre

\* The requests for an item, up to the n-th, and what they add up to.
AskedFor(r, n, i) == {k \in DOMAIN r : k <= n /\ r[k].item = i}
Due(r, n, i) == Quantity(r, AskedFor(r, n, i))

LEMMA DueNext ==
  ASSUME NEW r \in Seq(Request), NEW n \in Nat, n + 1 \in DOMAIN r, NEW i
  PROVE  /\ Due(r, n, i) \in Nat
         /\ Due(r, n + 1, i) = Due(r, n, i) + (IF r[n + 1].item = i THEN r[n + 1].quantity ELSE 0)
<1> DEFINE E == AskedFor(r, n, i)
           F == AskedFor(r, n + 1, i)
           m == n + 1
<1>1. E \subseteq DOMAIN r /\ F \subseteq DOMAIN r /\ m \notin E
  BY DEF AskedFor
<1>2. F = IF r[m].item = i THEN E \cup {m} ELSE E
  <2>1. DOMAIN r = 1..Len(r) /\ Len(r) \in Nat
    OBVIOUS
  <2>2. \A k \in DOMAIN r : k <= m <=> (k <= n \/ k = m)
    BY <2>1
  <2> QED  BY <2>2 DEF AskedFor
<1>3. /\ Due(r, n, i) = SumOver(QuantitiesOf(r), E) /\ Due(r, m, i) = SumOver(QuantitiesOf(r), F)
      /\ IsFiniteSet(E) /\ Due(r, n, i) \in Nat
      /\ \A k \in DOMAIN r : QuantitiesOf(r)[k] = r[k].quantity /\ r[k].quantity \in Nat
  BY <1>1, QuantityIn DEF Due
<1>4. SumOver(QuantitiesOf(r), E \cup {m}) = r[m].quantity + SumOver(QuantitiesOf(r), E)
  <2>1. \A k \in E \cup {m} : QuantitiesOf(r)[k] \in Int
    BY <1>1, <1>3
  <2>2. QuantitiesOf(r)[m] = r[m].quantity
    BY <1>3
  <2> HIDE DEF E, m
  <2> QED  BY <1>1, <1>3, <2>1, <2>2, SumAdd
<1>5. r[m].quantity \in Nat
  BY <1>3
<1> HIDE DEF E, F
<1> QED
  BY <1>2, <1>3, <1>4, <1>5

LEMMA DueFirst ==
  ASSUME NEW r \in Seq(Request), 1 \in DOMAIN r, NEW i
  PROVE  Due(r, 1, i) = IF r[1].item = i THEN r[1].quantity ELSE 0
<1>1. AskedFor(r, 0, i) = {}
  <2>1. \A k \in DOMAIN r : ~ (k <= 0)
    OBVIOUS
  <2> QED  BY <2>1 DEF AskedFor
<1>2. Due(r, 0, i) = 0
  <2>1. Quantity(r, {}) = SumOver(QuantityOf(r, {}), {})
    BY QuantityAre
  <2> QED  BY <1>1, <2>1, SumEmpty DEF Due
<1>3. Due(r, 0 + 1, i) = Due(r, 0, i) + (IF r[0 + 1].item = i THEN r[0 + 1].quantity ELSE 0)
  BY DueNext
<1>4. 1 \in DOMAIN r => r[1].quantity \in Nat
  BY QuantityIn
<1> QED
  BY <1>2, <1>3, <1>4
-----------------------------------------------------------------------------
(* The plan is what was asked for.                                         *)

\* An entry takes something, no more than there is room for, and is for a request that
\* was reached; it tracks only what is beside it.
EntriesOK ==
  \A k \in DOMAIN plan :
    /\ 0 < plan[k].request /\ plan[k].request <= Room(plan[k].loadcell)
    /\ plan[k].track \subseteq TrackedAtFirst(BinOf[plan[k].loadcell])
    /\ \E m \in DOMAIN requests : m <= index /\ requests[m].item = ItemOf[plan[k].loadcell]

\* While planning, what is planned is for an earlier request or on the list of ids.
EarlierOrTried ==
  status = "planning" => \A k \in DOMAIN plan :
    \/ plan[k].loadcell \in tried
    \/ \E m \in DOMAIN requests : m < index /\ requests[m].item = ItemOf[plan[k].loadcell]

TriedOfItem == \A l \in tried : ItemOf[l] = Item

\* Different items share no loadcell.
Once == DistinctItems => \A j, k \in DOMAIN plan : plan[j].loadcell = plan[k].loadcell => j = k

\* What is planned of an item, and what is still needed, is what was asked for so far.
AddedUp ==
  status # "refused" =>
    \A i \in Items : Placed(plan, i) + (IF i = Item THEN needed ELSE 0) = Due(requests, index, i)

Complete == status = "planned" => index = Len(requests) /\ needed = 0

PortionsInv == EntriesOK /\ EarlierOrTried /\ TriedOfItem /\ Once /\ AddedUp /\ Complete

\* No item has the name of none.
LEMMA ItemFacts ==
  ASSUME PlanStateOK
  PROVE  /\ NoItem \notin Items /\ Item \in Items
         /\ \A k \in DOMAIN requests : requests[k].item \in Items
<1>1. \A k \in DOMAIN requests : requests[k] \in Request
  BY DEF PlanStateOK
<1>2. \A k \in DOMAIN requests : requests[k].item \in Items
  BY <1>1 DEF Request
<1>3. NoItem \notin Items
  BY PlanningAssumption DEF Items
<1> QED
  BY <1>2, <1>3 DEF PlanStateOK, Item

LEMMA RoomFacts ==
  ASSUME PlanStateOK, NEW l \in Loadcells
  PROVE  /\ Room(l) \in Nat /\ needed \in Nat
         /\ UNCHANGED given => Room(l)' = Room(l)
<1>1. Calibrated[l] \in Nat /\ stock[l] \in Nat /\ history[l] \in Nat /\ needed \in Nat
  BY PlanningAssumption DEF PlanStateOK
<1>2. Room(l) \in Nat
  BY <1>1 DEF Room
<1>3. UNCHANGED given => Room(l)' = Room(l)
  BY DEF Room, given
<1> QED
  BY <1>1, <1>2, <1>3

LEMMA InitPortions == CheckInit => PortionsInv
<1> SUFFICES ASSUME CheckInit PROVE PortionsInv
  OBVIOUS
<1>1. PlanStateOK
  BY InitInv DEF IInv
<1>2. plan = <<>> /\ tried = {} /\ index = 1 /\ needed = requests[1].quantity /\ status = "planning"
  BY DEF CheckInit, Init
<1>3. EntriesOK /\ EarlierOrTried /\ TriedOfItem /\ Once /\ Complete
  BY <1>2 DEF EntriesOK, EarlierOrTried, TriedOfItem, Once, Complete
<1>4. requests \in Seq(Request) /\ 1 \in DOMAIN requests
  BY <1>1, <1>2 DEF PlanStateOK
<1>5. AddedUp
  <2>1. ASSUME NEW i \in Items
        PROVE  Placed(plan, i) + (IF i = Item THEN needed ELSE 0) = Due(requests, index, i)
    <3>1. Placed(plan, i) = 0
      BY <1>2, PlacedNothing
    <3>2. Due(requests, 1, i) = IF requests[1].item = i THEN requests[1].quantity ELSE 0
      BY <1>4, DueFirst
    <3>3. requests[1].quantity \in Nat
      BY <1>4, QuantityIn
    <3> QED  BY <1>2, <3>1, <3>2, <3>3 DEF Item
  <2> QED  BY <2>1 DEF AddedUp
<1> QED
  BY <1>3, <1>5 DEF PortionsInv

LEMMA AllocatePortions ==
  ASSUME IInv, PortionsInv, NEW l \in Loadcells, Allocate(l)
  PROVE  PortionsInv'
<1> DEFINE e == [loadcell |-> l, request |-> Portion(l), track |-> TrackedAtFirst(BinOf[l])]
<1>1. PlanStateOK
  BY DEF IInv
<1>2. /\ status = "planning" /\ needed > 0 /\ l \in Candidates /\ l \notin tried
      /\ plan' = Append(plan, e) /\ needed' = Remaining(l) /\ tried' = tried \cup {l}
      /\ UNCHANGED given /\ UNCHANGED <<index, status>>
  BY DEF Allocate
<1>3. ItemOf[l] = Item /\ Room(l) > 0 /\ Room(l) \in Nat /\ needed \in Nat /\ needed > 0
  BY <1>1, <1>2, RoomFacts DEF Candidates
<1>4. Portion(l) \in Nat /\ Portion(l) > 0 /\ Portion(l) <= Room(l) /\ Portion(l) <= needed
  BY <1>3 DEF Portion
<1>5. e \in Planned /\ e.loadcell = l /\ e.request = Portion(l) /\ e.track = TrackedAtFirst(BinOf[l])
  BY <1>4 DEF Planned, TrackedAtFirst, Inside
<1> HIDE DEF e
<1>6. /\ plan' \in Seq(Planned) /\ plan \in Seq(Planned)
      /\ DOMAIN plan' = DOMAIN plan \cup {Len(plan) + 1}
      /\ \A k \in DOMAIN plan : plan'[k] = plan[k]
      /\ plan'[Len(plan) + 1] = e
      /\ Len(plan) + 1 \notin DOMAIN plan
  BY <1>1, <1>2, <1>5, AppendFacts DEF PlanStateOK
<1>7. /\ requests' = requests /\ index' = index /\ Item' = Item /\ index \in DOMAIN requests
      /\ \A m \in Loadcells : Room(m)' = Room(m)
      /\ \A b : TrackedAtFirst(b)' = TrackedAtFirst(b)
      /\ (DistinctItems' <=> DistinctItems)
  BY <1>1, <1>2, RoomFacts DEF given, Item, TrackedAtFirst, Inside, Assigned, DistinctItems, PlanStateOK
<1>8. \A k \in DOMAIN plan : plan[k] \in Planned
  BY <1>6
<1>9. EntriesOK'
  <2>1. ASSUME NEW k \in DOMAIN plan'
        PROVE  /\ 0 < plan'[k].request /\ plan'[k].request <= Room(plan'[k].loadcell)
               /\ plan'[k].track \subseteq TrackedAtFirst(BinOf[plan'[k].loadcell])
               /\ \E m \in DOMAIN requests : m <= index /\ requests[m].item = ItemOf[plan'[k].loadcell]
    <3>1. CASE k \in DOMAIN plan
      <4>1. plan'[k] = plan[k] /\ plan[k].loadcell \in Loadcells
        BY <1>6, <1>8, <3>1 DEF Planned
      <4> QED  BY <1>7, <3>1, <4>1 DEF PortionsInv, EntriesOK
    <3>2. CASE k = Len(plan) + 1
      <4>1. plan'[k] = e
        BY <1>6, <3>2
      <4>2. index <= index
        BY <1>1 DEF PlanStateOK
      <4> QED  BY <1>3, <1>4, <1>5, <1>7, <4>1, <4>2 DEF Item
    <3> QED  BY <1>6, <3>1, <3>2
  <2> QED  BY <1>2, <1>7, <2>1 DEF EntriesOK, given, Room, TrackedAtFirst, Inside, Assigned
<1>10. EarlierOrTried'
  <2>1. ASSUME NEW k \in DOMAIN plan'
        PROVE  \/ plan'[k].loadcell \in tried'
               \/ \E m \in DOMAIN requests : m < index /\ requests[m].item = ItemOf[plan'[k].loadcell]
    BY <1>2, <1>5, <1>6 DEF PortionsInv, EarlierOrTried
  <2> QED  BY <1>7, <2>1 DEF EarlierOrTried
<1>11. TriedOfItem'
  BY <1>2, <1>3, <1>7 DEF PortionsInv, TriedOfItem
<1>12. Once'
  <2> SUFFICES ASSUME DistinctItems PROVE \A j, k \in DOMAIN plan' : plan'[j].loadcell = plan'[k].loadcell => j = k
    BY <1>7 DEF Once
  <2>1. ASSUME NEW k \in DOMAIN plan PROVE plan[k].loadcell # l
    <3>1. SUFFICES ASSUME plan[k].loadcell = l PROVE FALSE
      OBVIOUS
    <3>2. PICK m \in DOMAIN requests : m < index /\ requests[m].item = ItemOf[l]
      BY <1>2, <3>1 DEF PortionsInv, EarlierOrTried
    <3>3. m = index
      BY <1>3, <1>7, <3>2 DEF DistinctItems, Item
    <3>4. index \in Nat
      BY <1>1 DEF PlanStateOK
    <3> QED  BY <3>2, <3>3, <3>4
  <2> QED  BY <1>5, <1>6, <2>1 DEF PortionsInv, Once
<1>13. AddedUp'
  <2> SUFFICES ASSUME NEW i \in Items
      PROVE  Placed(plan', i) + (IF i = Item THEN needed' ELSE 0) = Due(requests, index, i)
    BY <1>7 DEF AddedUp
  <2>1. Placed(plan, i) + (IF i = Item THEN needed ELSE 0) = Due(requests, index, i)
    BY <1>2 DEF PortionsInv, AddedUp
  <2>2. /\ Placed(plan, i) \in Nat
        /\ Placed(plan', i) = Placed(plan, i) + (IF ItemOf[l] = i THEN Portion(l) ELSE 0)
    BY <1>2, <1>5, <1>6, PlacedAppend
  <2>3. needed' = needed - Portion(l)
    BY <1>2 DEF Remaining
  <2> QED  BY <1>3, <1>4, <2>1, <2>2, <2>3
<1>14. Complete'
  BY <1>2 DEF Complete
<1> QED
  BY <1>9, <1>10, <1>11, <1>12, <1>13, <1>14 DEF PortionsInv

LEMMA RefusePortions ==
  ASSUME IInv, PortionsInv, Refuse
  PROVE  PortionsInv'
<1>1. plan' = <<>> /\ status' = "refused" /\ UNCHANGED <<requests, index, tried>>
  BY DEF Refuse, given
<1> QED
  BY <1>1 DEF PortionsInv, EntriesOK, EarlierOrTried, TriedOfItem, Item, Once, AddedUp, Complete

LEMMA FinishPortions ==
  ASSUME IInv, PortionsInv, FinishItem
  PROVE  PortionsInv'
<1>1. PlanStateOK
  BY DEF IInv
<1>2. /\ status = "planning" /\ needed = 0 /\ tried' = {} /\ UNCHANGED given
      /\ IF index < Len(requests)
         THEN index' = index + 1 /\ needed' = requests[index + 1].quantity /\ status' = status
         ELSE status' = "planned" /\ index' = index /\ needed' = needed
  BY DEF FinishItem
<1>3. /\ plan' \in Seq(Planned) /\ plan \in Seq(Planned)
      /\ DOMAIN plan' = DOMAIN plan
      /\ \A k \in DOMAIN plan : /\ plan'[k].loadcell = plan[k].loadcell
                                /\ plan'[k].request = plan[k].request
                                /\ plan'[k].track \subseteq plan[k].track
                                /\ plan[k].loadcell \in Loadcells
  <2>1. /\ plan' \in Seq(Planned) /\ plan \in Seq(Planned) /\ DOMAIN plan' = DOMAIN plan
        /\ \A k \in DOMAIN plan : /\ plan'[k].loadcell = plan[k].loadcell
                                  /\ plan'[k].track = plan[k].track \ AllocatedIds
    BY <1>1, UntrackedFacts DEF FinishItem, PlanStateOK
  <2>2. \A k \in DOMAIN plan : plan[k] \in Planned
    BY <2>1
  <2>3. \A k \in DOMAIN plan : plan'[k].request = plan[k].request
    BY <2>2 DEF FinishItem, Untracked, Planned
  <2> QED  BY <2>1, <2>2, <2>3 DEF Planned
<1>4. /\ requests' = requests /\ index \in DOMAIN requests /\ index \in Nat
      /\ requests \in Seq(Request) /\ DOMAIN requests = 1..Len(requests) /\ Len(requests) \in Nat
      /\ \A m \in Loadcells : Room(m)' = Room(m)
      /\ \A b : TrackedAtFirst(b)' = TrackedAtFirst(b)
      /\ (DistinctItems' <=> DistinctItems)
  BY <1>1, <1>2, RoomFacts DEF given, TrackedAtFirst, Inside, Assigned, DistinctItems, PlanStateOK
<1>5. index' \in Nat /\ index' >= index /\ index' \in DOMAIN requests
  BY <1>2, <1>4
<1>6. EntriesOK'
  <2>1. ASSUME NEW k \in DOMAIN plan
        PROVE  /\ 0 < plan'[k].request /\ plan'[k].request <= Room(plan'[k].loadcell)
               /\ plan'[k].track \subseteq TrackedAtFirst(BinOf[plan'[k].loadcell])
               /\ \E m \in DOMAIN requests : m <= index' /\ requests[m].item = ItemOf[plan'[k].loadcell]
    <3>1. /\ 0 < plan[k].request /\ plan[k].request <= Room(plan[k].loadcell)
          /\ plan[k].track \subseteq TrackedAtFirst(BinOf[plan[k].loadcell])
      BY DEF PortionsInv, EntriesOK
    <3>2. PICK m \in DOMAIN requests : m <= index /\ requests[m].item = ItemOf[plan[k].loadcell]
      BY DEF PortionsInv, EntriesOK
    <3>3. m <= index'
      BY <1>4, <1>5, <3>2
    <3> QED  BY <1>3, <1>4, <3>1, <3>2, <3>3
  <2> QED  BY <1>2, <1>3, <1>4, <2>1 DEF EntriesOK, given, Room, TrackedAtFirst, Inside, Assigned
<1>7. EarlierOrTried'
  <2> SUFFICES ASSUME status' = "planning", NEW k \in DOMAIN plan
      PROVE  \E m \in DOMAIN requests : m < index' /\ requests[m].item = ItemOf[plan'[k].loadcell]
    BY <1>3, <1>4 DEF EarlierOrTried
  <2>1. index' = index + 1
    BY <1>2
  <2>2. PICK m \in DOMAIN requests : m <= index /\ requests[m].item = ItemOf[plan[k].loadcell]
    BY DEF PortionsInv, EntriesOK
  <2>3. m < index'
    BY <1>4, <2>1, <2>2
  <2> QED  BY <1>3, <2>2, <2>3
<1>8. TriedOfItem' /\ Once'
  <2>1. TriedOfItem'
    BY <1>2 DEF TriedOfItem
  <2>2. Once'
    BY <1>3, <1>4 DEF PortionsInv, Once
  <2> QED  BY <2>1, <2>2
<1>9. AddedUp'
  <2> SUFFICES ASSUME NEW i \in Items
      PROVE  Placed(plan', i) + (IF i = Item' THEN needed' ELSE 0) = Due(requests, index', i)
    BY <1>4 DEF AddedUp
  <2>1. Placed(plan, i) \in Nat /\ Placed(plan', i) = Placed(plan, i)
    BY <1>3, PlacedNat, PlacedSame
  <2>2. Placed(plan, i) = Due(requests, index, i)
    BY <1>2, <2>1 DEF PortionsInv, AddedUp
  <2>3. CASE index < Len(requests)
    <3>1. /\ Due(requests, index, i) \in Nat /\ index + 1 \in DOMAIN requests
          /\ Due(requests, index + 1, i) = Due(requests, index, i)
               + (IF requests[index + 1].item = i THEN requests[index + 1].quantity ELSE 0)
      BY <1>4, <2>3, DueNext
    <3>2. requests[index + 1].quantity \in Nat
      BY <1>4, <3>1, QuantityIn
    <3>3. Item' = requests[index + 1].item
      BY <1>2, <1>4, <2>3 DEF Item
    <3> QED  BY <1>2, <2>1, <2>2, <2>3, <3>1, <3>2, <3>3
  <2>4. CASE ~ (index < Len(requests))
    BY <1>2, <2>1, <2>2, <2>4
  <2> QED  BY <2>3, <2>4
<1>10. Complete'
  BY <1>2, <1>4 DEF Complete
<1> QED
  BY <1>6, <1>7, <1>8, <1>9, <1>10 DEF PortionsInv

\* Using the bins leaves the plan alone.
LEMMA SamePortions == PortionsInv /\ UNCHANGED vars => PortionsInv'
BY DEF vars, PortionsInv, EntriesOK, EarlierOrTried, TriedOfItem, Once, AddedUp, Complete,
       DistinctItems, Item, Room, TrackedAtFirst, Inside, Assigned

LEMMA NextPortions == IInv /\ PortionsInv /\ [CheckNext]_checkVars => PortionsInv'
<1> SUFFICES ASSUME IInv, PortionsInv, [CheckNext]_checkVars PROVE PortionsInv'
  OBVIOUS
<1>1. CASE MakePlan
  BY <1>1, AllocatePortions, RefusePortions, FinishPortions DEF MakePlan, Next
<1>2. CASE \E b \in Bins : UseBin(b)
  BY <1>2, SamePortions DEF UseBin
<1>3. CASE UNCHANGED checkVars
  BY <1>3, SamePortions DEF checkVars
<1> QED
  BY <1>1, <1>2, <1>3 DEF CheckNext

LEMMA PortionsInvariance == CheckSpec => [](IInv /\ PortionsInv)
<1>1. CheckInit => IInv /\ PortionsInv
  BY InitInv, InitPortions
<1>2. IInv /\ PortionsInv /\ [CheckNext]_checkVars => (IInv /\ PortionsInv)'
  BY NextInv, NextPortions
<1> QED
  BY <1>1, <1>2, PTL DEF CheckSpec

\* An entry is the only one of its loadcell: that loadcell gives its portion.
LEMMA OneEntry ==
  ASSUME PlanStateOK, Once, DistinctItems, NEW j \in DOMAIN plan
  PROVE  PlannedSum({k \in DOMAIN plan : plan[k].loadcell = plan[j].loadcell}) = plan[j].request
<1>1. {k \in DOMAIN plan : plan[k].loadcell = plan[j].loadcell} = {j}
  BY DEF Once
<1>2. plan \in Seq(Planned)
  BY DEF PlanStateOK
<1>3. Portions(plan, {j}) = SumOver(RequestsOf(plan), {j})
      /\ RequestsOf(plan)[j] = plan[j].request /\ plan[j].request \in Nat
  BY <1>2, PortionsIn
<1>4. SumOver(RequestsOf(plan), {} \cup {j}) = RequestsOf(plan)[j] + SumOver(RequestsOf(plan), {})
  <2>1. j \notin {} /\ \A x \in {} \cup {j} : RequestsOf(plan)[x] \in Int
    BY <1>3
  <2> QED  BY <2>1, FS_EmptySet, SumAdd
<1>5. {} \cup {j} = {j}
  OBVIOUS
<1>6. SumOver(RequestsOf(plan), {j}) = plan[j].request
  BY <1>3, <1>4, <1>5, SumEmpty
<1> QED
  BY <1>1, <1>3, <1>6 DEF PlannedSum, Portions

\* The sum over no entries.
LEMMA NoEntry == PlannedSum({}) = 0
<1>1. Portions(plan, {}) = SumOver(RequestOf(plan, {}), {})
  BY PortionsAre
<1> QED
  BY <1>1, SumEmpty DEF PlannedSum, Portions

LEMMA SoundPlan == IInv /\ PortionsInv => PlanSound
<1> SUFFICES ASSUME IInv, PortionsInv PROVE PlanSound
  OBVIOUS
<1>0. PlanStateOK
  BY DEF IInv
<1>1. PlanAddsUp
  <2> SUFFICES ASSUME status = "planned", NEW i \in {r.item : r \in {requests[k] : k \in DOMAIN requests}}
      PROVE  PlannedSum({k \in DOMAIN plan : ItemOf[plan[k].loadcell] = i})
               = MapThenSumSet(LAMBDA k : requests[k].quantity,
                               {k \in DOMAIN requests : requests[k].item = i})
    BY DEF PlanAddsUp
  <2>1. i \in Items /\ plan \in Seq(Planned) /\ requests \in Seq(Request)
    BY <1>0, ItemFacts DEF PlanStateOK
  <2>2. index = Len(requests) /\ needed = 0
    BY DEF PortionsInv, Complete
  <2>3. Placed(plan, i) \in Nat
    BY <2>1, PlacedNat
  <2>4. Placed(plan, i) = Due(requests, Len(requests), i)
    BY <2>1, <2>2, <2>3 DEF PortionsInv, AddedUp
  <2>5. AskedFor(requests, Len(requests), i) = {k \in DOMAIN requests : requests[k].item = i}
    BY <2>1 DEF AskedFor
  <2> QED  BY <2>4, <2>5 DEF Placed, EntriesFor, PlannedSum, Portions, Due, Quantity
<1>2. PlanFits
  <2> SUFFICES ASSUME DistinctItems, NEW l \in Loadcells
      PROVE  PlannedSum({k \in DOMAIN plan : plan[k].loadcell = l}) <= Room(l)
    BY DEF PlanFits
  <2>1. CASE \E j \in DOMAIN plan : plan[j].loadcell = l
    <3>1. PICK j \in DOMAIN plan : plan[j].loadcell = l
      BY <2>1
    <3>2. PlannedSum({k \in DOMAIN plan : plan[k].loadcell = l}) = plan[j].request
      BY <1>0, <3>1, OneEntry DEF PortionsInv
    <3> QED  BY <3>1, <3>2 DEF PortionsInv, EntriesOK
  <2>2. CASE ~ \E j \in DOMAIN plan : plan[j].loadcell = l
    <3>1. {k \in DOMAIN plan : plan[k].loadcell = l} = {}
      BY <2>2
    <3>2. Room(l) \in Nat
      BY <1>0, RoomFacts
    <3> QED  BY <3>1, <3>2, NoEntry
  <2> QED  BY <2>1, <2>2
<1> QED
  BY <1>1, <1>2 DEF PlanSound

\* For every cabinet, stock, history and list of requests: a complete plan is what was
\* asked for, item by item, however the portions were cut, and of different items no
\* loadcell is asked for more than it has room for.
THEOREM PlansAreSound == CheckSpec => []PlanSound
<1> QED
  BY PortionsInvariance, SoundPlan, PTL
-----------------------------------------------------------------------------
(* An honest user passes.                                                  *)

\* No list tracks what is planned of the item of its entry, and no list of a
\* return tracks anything planned.
TracksOK ==
  /\ DistinctItems => \A j, k \in DOMAIN plan :
       ItemOf[plan[j].loadcell] = ItemOf[plan[k].loadcell] =>
         \/ plan[j].loadcell \notin plan[k].track
         \/ status = "planning" /\ plan[j].loadcell \in tried
  /\ kind = "RETURN" /\ status = "planned" =>
       \A j, k \in DOMAIN plan : plan[j].loadcell \notin plan[k].track

\* What was said of a step still follows from the quantities.
Judged ==
  \A b \in Bins : verdict[b] # "none" =>
    (verdict[b] = "valid" <=> IsValid(Actions(b), FinalLoadcells(b), quantity))

LEMMA AllocateTracks ==
  ASSUME IInv, PortionsInv, TracksOK, NEW l \in Loadcells, Allocate(l)
  PROVE  TracksOK'
<1> DEFINE e == [loadcell |-> l, request |-> Portion(l), track |-> TrackedAtFirst(BinOf[l])]
<1>1. PlanStateOK
  BY DEF IInv
<1>2. /\ status = "planning" /\ l \in Candidates
      /\ plan' = Append(plan, e) /\ tried' = tried \cup {l}
      /\ UNCHANGED given /\ UNCHANGED <<index, status>>
  BY DEF Allocate
<1>3. e \in Planned /\ e.loadcell = l
  BY <1>1, PortionFacts DEF Planned, TrackedAtFirst, Inside
<1> HIDE DEF e
<1>4. /\ DOMAIN plan' = DOMAIN plan \cup {Len(plan) + 1}
      /\ \A k \in DOMAIN plan : plan'[k] = plan[k]
      /\ plan'[Len(plan) + 1] = e
  BY <1>1, <1>2, <1>3, AppendFacts
<1>5. status' = "planning" /\ (DistinctItems' <=> DistinctItems) /\ ItemOf[l] = Item
  BY <1>2 DEF given, DistinctItems, Candidates
<1> SUFFICES ASSUME DistinctItems, NEW j \in DOMAIN plan', NEW k \in DOMAIN plan',
                    ItemOf[plan'[j].loadcell] = ItemOf[plan'[k].loadcell]
             PROVE  plan'[j].loadcell \notin plan'[k].track \/ plan'[j].loadcell \in tried'
  BY <1>5 DEF TracksOK
<1>6. CASE j \notin DOMAIN plan
  BY <1>2, <1>3, <1>4, <1>6
<1>7. CASE j \in DOMAIN plan /\ k \in DOMAIN plan
  BY <1>2, <1>4, <1>7 DEF TracksOK
<1>8. CASE j \in DOMAIN plan /\ k \notin DOMAIN plan
  <2>1. ItemOf[plan[j].loadcell] = Item
    BY <1>3, <1>4, <1>5, <1>8
  <2>2. ASSUME NEW m \in DOMAIN requests, m < index, requests[m].item = Item PROVE FALSE
    <3>1. m = index
      BY <1>1, <2>2 DEF DistinctItems, Item, PlanStateOK
    <3>2. index \in Nat
      BY <1>1 DEF PlanStateOK
    <3> QED  BY <2>2, <3>1, <3>2
  <2>3. plan[j].loadcell \in tried
    BY <1>2, <1>8, <2>1, <2>2 DEF PortionsInv, EarlierOrTried
  <2> QED  BY <1>2, <1>4, <1>8, <2>3
<1> QED
  BY <1>6, <1>7, <1>8

LEMMA FinishTracks ==
  ASSUME IInv, TracksOK, FinishItem
  PROVE  TracksOK'
<1>1. PlanStateOK
  BY DEF IInv
<1>2. /\ DOMAIN plan' = DOMAIN plan
      /\ \A k \in DOMAIN plan : /\ plan'[k].loadcell = plan[k].loadcell
                                /\ plan'[k].track = plan[k].track \ AllocatedIds
  BY <1>1, UntrackedFacts DEF FinishItem
<1>3. UNCHANGED given /\ (DistinctItems' <=> DistinctItems) /\ kind' = kind
  BY DEF FinishItem, given, DistinctItems
<1>4. kind = "RETURN" => \A j \in DOMAIN plan : plan[j].loadcell \in AllocatedIds
  BY DEF AllocatedIds
<1>5. kind # "RETURN" => AllocatedIds = tried
  BY DEF AllocatedIds
<1>6. kind = "RETURN" => \A j, k \in DOMAIN plan' : plan'[j].loadcell \notin plan'[k].track
  BY <1>2, <1>4
<1>7. ASSUME DistinctItems, NEW j \in DOMAIN plan, NEW k \in DOMAIN plan,
             ItemOf[plan[j].loadcell] = ItemOf[plan[k].loadcell]
      PROVE  plan'[j].loadcell \notin plan'[k].track
  BY <1>2, <1>5, <1>6, <1>7 DEF TracksOK
<1> QED
  BY <1>2, <1>3, <1>6, <1>7 DEF TracksOK

LEMMA RefuseTracks == Refuse => TracksOK'
BY DEF Refuse, TracksOK

\* Only the loadcells of the bin matter.
LEMMA SameThere ==
  ASSUME NEW actions, NEW found, NEW now, NEW then, \A l \in found : now[l] = then[l]
  PROVE  IsValid(actions, found, now) <=> IsValid(actions, found, then)
<1>1. ASSUME NEW a PROVE Passes(a, found, now) <=> Passes(a, found, then)
  <2>1. CASE a.loadcell \in found
    <3>1. Changed(a, now) = Changed(a, then)
      BY <2>1 DEF Changed
    <3> QED  BY <3>1 DEF Passes
  <2>2. CASE a.loadcell \notin found
    BY <2>2 DEF Passes
  <2> QED  BY <2>1, <2>2
<1> QED
  BY <1>1 DEF IsValid

LEMMA UseBinJudged ==
  ASSUME IInv, Judged, NEW b \in Bins, UseBin(b)
  PROVE  Judged'
<1>1. PICK left \in [FinalLoadcells(b) -> Quantities] :
        quantity' = [l \in Loadcells |-> IF l \in FinalLoadcells(b) THEN left[l] ELSE quantity[l]]
  BY DEF UseBin
<1>2. UNCHANGED vars
  BY DEF UseBin
<1>3. \A c \in Bins : Actions(c)' = Actions(c) /\ FinalLoadcells(c)' = FinalLoadcells(c)
  BY <1>2 DEF vars, Actions, ExecutionStep, EntriesIn, KeepTrack, FinalLoadcells, Inside, Assigned
<1>4. /\ verdict'[b] = IF IsValid(Actions(b), FinalLoadcells(b), quantity') THEN "valid" ELSE "invalid"
      /\ \A c \in Bins \ {b} : verdict'[c] = verdict[c]
  BY DEF UseBin, IInv, PlanStateOK
<1> SUFFICES ASSUME NEW c \in Bins, verdict'[c] # "none"
             PROVE  verdict'[c] = "valid" <=> IsValid(Actions(c), FinalLoadcells(c), quantity')
  BY <1>3 DEF Judged
<1>5. CASE c = b
  BY <1>4, <1>5
<1>6. CASE c # b
  <2>1. \A l \in FinalLoadcells(c) : quantity'[l] = quantity[l]
    BY <1>1, <1>6 DEF FinalLoadcells, Inside
  <2>2. IsValid(Actions(c), FinalLoadcells(c), quantity')
          <=> IsValid(Actions(c), FinalLoadcells(c), quantity)
    BY <2>1, SameThere
  <2> QED  BY <1>4, <1>6, <2>2 DEF Judged
<1> QED
  BY <1>5, <1>6

LEMMA SameTracks == TracksOK /\ UNCHANGED vars => TracksOK'
BY DEF vars, TracksOK, DistinctItems

LEMMA SameJudged == Judged /\ UNCHANGED checkVars => Judged'
BY DEF checkVars, vars, Judged, Actions, ExecutionStep, EntriesIn, KeepTrack, FinalLoadcells,
       Inside, Assigned, IsValid, Passes, Conforms, Changed

HonestInv == TracksOK /\ Judged

LEMMA InitHonest == CheckInit => HonestInv
<1> SUFFICES ASSUME CheckInit PROVE HonestInv
  OBVIOUS
<1>1. plan = <<>> /\ status = "planning" /\ \A b \in Bins : verdict[b] = "none"
  BY DEF CheckInit, Init
<1> QED
  BY <1>1 DEF HonestInv, TracksOK, Judged

LEMMA NextHonest == IInv /\ PortionsInv /\ HonestInv /\ [CheckNext]_checkVars => HonestInv'
<1> SUFFICES ASSUME IInv, PortionsInv, HonestInv, [CheckNext]_checkVars PROVE HonestInv'
  OBVIOUS
<1>1. CASE MakePlan
  <2>1. TracksOK'
    BY <1>1, AllocateTracks, FinishTracks, RefuseTracks DEF MakePlan, Next, HonestInv
  <2>2. status = "planning"
    BY <1>1 DEF MakePlan, Next, Allocate, Refuse, FinishItem
  <2>3. \A b \in Bins : verdict'[b] = "none"
    BY <1>1, <2>2 DEF MakePlan, IInv, VerdictInv
  <2>4. Judged'
    BY <2>3 DEF Judged
  <2> QED  BY <2>1, <2>4 DEF HonestInv
<1>2. CASE \E b \in Bins : UseBin(b)
  BY <1>2, UseBinJudged, SameTracks DEF UseBin, HonestInv
<1>3. CASE UNCHANGED checkVars
  BY <1>3, SameTracks, SameJudged DEF checkVars, HonestInv
<1> QED
  BY <1>1, <1>2, <1>3 DEF CheckNext

\* What a step asks for is done by who does what the plan says.
LEMMA HonestItem ==
  ASSUME IInv, PortionsInv, DistinctItems, NEW b \in Bins, NEW k \in EntriesIn(b),
         \A l \in FinalLoadcells(b) : AsPlanned(l)
  PROVE  Passes([type |-> kind, loadcell |-> plan[k].loadcell, request |-> plan[k].request,
                 current |-> stock[plan[k].loadcell]], FinalLoadcells(b), quantity)
<1> DEFINE l == plan[k].loadcell
           n == plan[k].request
           a == [type |-> kind, loadcell |-> l, request |-> n, current |-> stock[l]]
<1>1. PlanStateOK /\ k \in DOMAIN plan /\ BinOf[l] = b
  BY DEF IInv, EntriesIn
<1>2. plan[k] \in Planned
  BY <1>1 DEF PlanStateOK
<1>3. l \in Loadcells /\ n \in Nat /\ n > 0
  BY <1>1, <1>2 DEF Planned, PortionsInv, EntriesOK
<1>4. ItemOf[l] # NoItem
  <2>1. PICK m \in DOMAIN requests : requests[m].item = ItemOf[l]
    BY <1>1 DEF PortionsInv, EntriesOK
  <2> QED  BY <1>1, <2>1, ItemFacts
<1>5. l \in FinalLoadcells(b)
  BY <1>1, <1>3, <1>4 DEF FinalLoadcells, Inside, Assigned
<1>6. quantity[l] = IF kind = "ISSUE" THEN stock[l] - n ELSE stock[l] + n
  BY <1>1, <1>5, OneEntry DEF AsPlanned, PortionsInv
<1>7. stock[l] \in Nat /\ kind \in Kinds
  BY <1>1, <1>3 DEF PlanStateOK
<1>8. a.type = kind /\ a.loadcell = l /\ a.request = n /\ a.current = stock[l]
  OBVIOUS
<1> HIDE DEF a, l, n
<1>9. Changed(a, quantity) = IF kind = "ISSUE" THEN - n ELSE n
  BY <1>3, <1>6, <1>7, <1>8 DEF Changed
<1>10. Conforms(a, Changed(a, quantity)) /\ Changed(a, quantity) # 0
  BY <1>3, <1>7, <1>8, <1>9 DEF Conforms, Kinds
<1>11. Passes(a, FinalLoadcells(b), quantity)
  BY <1>5, <1>8, <1>10 DEF Passes
<1> QED
  BY <1>11 DEF a, l, n

LEMMA HonestTrack ==
  ASSUME IInv, PortionsInv, HonestInv, DistinctItems, status = "planned",
         NEW b \in Bins, PlainStep(b), NEW l \in KeepTrack(b),
         \A m \in FinalLoadcells(b) : AsPlanned(m)
  PROVE  Passes([type |-> "KEEP_TRACK", loadcell |-> l, request |-> 0, current |-> stock[l]],
                FinalLoadcells(b), quantity)
<1> DEFINE a == [type |-> "KEEP_TRACK", loadcell |-> l, request |-> 0, current |-> stock[l]]
<1>1. PlanStateOK
  BY DEF IInv
<1>2. PICK k \in DOMAIN plan : k \in EntriesIn(b) /\ BinOf[plan[k].loadcell] = b /\ l \in plan[k].track
  BY DEF KeepTrack, EntriesIn
<1>3. l \in TrackedAtFirst(b)
  BY <1>2 DEF PortionsInv, EntriesOK
<1>4. l \in FinalLoadcells(b) /\ l \in Loadcells /\ BinOf[l] = b
  BY <1>3 DEF TrackedAtFirst, FinalLoadcells, PlainStep, Inside
<1>5. ASSUME NEW j \in DOMAIN plan, plan[j].loadcell = l PROVE FALSE
  <2>1. j \in EntriesIn(b)
    BY <1>4, <1>5 DEF EntriesIn
  <2>2. CASE kind = "RETURN"
    BY <1>2, <1>5, <2>2 DEF HonestInv, TracksOK
  <2>3. CASE kind # "RETURN"
    <3>1. ItemOf[plan[j].loadcell] = ItemOf[plan[k].loadcell]
      BY <1>2, <2>1, <2>3 DEF PlainStep
    <3> QED  BY <1>2, <1>5, <3>1 DEF HonestInv, TracksOK
  <2> QED  BY <2>2, <2>3
<1>6. {j \in DOMAIN plan : plan[j].loadcell = l} = {}
  BY <1>5
<1>7. stock[l] \in Nat
  BY <1>1, <1>4 DEF PlanStateOK
<1>8. quantity[l] = stock[l]
  BY <1>4, <1>6, <1>7, NoEntry DEF AsPlanned
<1>9. a.type = "KEEP_TRACK" /\ a.loadcell = l /\ a.current = stock[l]
  OBVIOUS
<1> HIDE DEF a
<1>10. Passes(a, FinalLoadcells(b), quantity)
  BY <1>4, <1>7, <1>8, <1>9 DEF Passes, Conforms, Changed
<1> QED
  BY <1>10 DEF a

LEMMA HonestPasses == IInv /\ PortionsInv /\ HonestInv => HonestUserPasses
<1> SUFFICES ASSUME IInv, PortionsInv, HonestInv, DistinctItems, NEW b \in Bins, verdict[b] # "none",
                    PlainStep(b), \A l \in FinalLoadcells(b) : AsPlanned(l)
             PROVE  verdict[b] = "valid"
  BY DEF HonestUserPasses
<1>1. status = "planned"
  BY DEF IInv, VerdictInv
<1>2. ASSUME NEW a \in Actions(b) PROVE Passes(a, FinalLoadcells(b), quantity)
  <2>1. CASE \E i \in ExecutionStep(b).items :
               a = [type |-> ExecutionStep(b).kind, loadcell |-> i.loadcell, request |-> i.request,
                    current |-> i.current]
    <3>1. PICK k \in EntriesIn(b) :
            a = [type |-> kind, loadcell |-> plan[k].loadcell, request |-> plan[k].request,
                 current |-> stock[plan[k].loadcell]]
      BY <2>1 DEF ExecutionStep
    <3> QED  BY <3>1, HonestItem
  <2>2. CASE \E l \in KeepTrack(b) :
               a = [type |-> "KEEP_TRACK", loadcell |-> l, request |-> 0, current |-> stock[l]]
    BY <1>1, <2>2, HonestTrack
  <2> QED  BY <2>1, <2>2 DEF Actions, ExecutionStep
<1>3. IsValid(Actions(b), FinalLoadcells(b), quantity)
  BY <1>2 DEF IsValid
<1> QED
  BY <1>3 DEF HonestInv, Judged

LEMMA HonestInvariance == CheckSpec => [](IInv /\ PortionsInv /\ HonestInv)
<1>1. CheckInit => IInv /\ PortionsInv /\ HonestInv
  BY InitInv, InitPortions, InitHonest
<1>2. IInv /\ PortionsInv /\ HonestInv /\ [CheckNext]_checkVars => (IInv /\ PortionsInv /\ HonestInv)'
  BY NextInv, NextPortions, NextHonest
<1> QED
  BY <1>1, <1>2, PTL DEF CheckSpec

\* Who does at a bin exactly what the plan says is told that it is valid, whatever was
\* done at the other bins: the lists of the plan and the check of the worker agree.
THEOREM HonestUsersPass == CheckSpec => []HonestUserPasses
<1> QED
  BY HonestInvariance, HonestPasses, PTL
-----------------------------------------------------------------------------
(* What the lists offer can be planned, and the views agree.               *)

RoomOf == [l \in Loadcells |-> Room(l)]

\* A request that is not filled took all there is on every loadcell of its list.
Emptied == needed > 0 => SumOver(RoomOf, tried) + needed = requests[index].quantity

ListInv == Emptied /\ OfferedCanBePlanned

\* The sum of ItemListing is the sum of these theorems.
LEMMA SumIs == ASSUME NEW f, NEW cells PROVE Sum(f, cells) = SumOver(f, cells)
BY DEF Sum, SumOver

QtyOf(E) == [e \in E |-> e.qty]

LEMMA SumListedIs ==
  ASSUME NEW E
  PROVE  SumListed(E) = SumOver(QtyOf(E), E)
<1> DEFINE Direct(g) == g = [s \in SUBSET E |-> IF s = {} THEN 0 ELSE AnyOf(s).qty + g[s \ {AnyOf(s)}]]
<1>1. SumListed(E) = (CHOOSE g : Direct(g))[E]
  BY DEF SumListed, MapThenSumSet, MapThenFoldSet, AnyOf
<1>2. ASSUME NEW g PROVE Direct(g) <=> SumTable(QtyOf(E), E, g)
  <2> DEFINE a(s) == IF s = {} THEN 0 ELSE AnyOf(s).qty + g[s \ {AnyOf(s)}]
             c(s) == IF s = {} THEN 0 ELSE QtyOf(E)[AnyOf(s)] + g[s \ {AnyOf(s)}]
  <2>1. \A s \in SUBSET E : a(s) = c(s)
    BY AnyOfIn DEF QtyOf
  <2>2. [s \in SUBSET E |-> a(s)] = [s \in SUBSET E |-> c(s)]
    <3> HIDE DEF a, c
    <3> QED  BY <2>1
  <2> QED  BY <2>2 DEF SumTable
<1>3. (CHOOSE g : Direct(g)) = CHOOSE g : SumTable(QtyOf(E), E, g)
  <2> HIDE DEF Direct
  <2> QED  BY <1>2
<1> QED
  BY <1>1, <1>3, SumIsTable

LEMMA CellSetFacts ==
  ASSUME PlanStateOK, NEW S, S \subseteq Loadcells
  PROVE  /\ IsFiniteSet(S)
         /\ \A l \in Loadcells : RoomOf[l] = Room(l) /\ RoomOf[l] \in Nat
<1>1. IsFiniteSet(S)
  BY PlanningAssumption, FS_Subset
<1>2. \A l \in Loadcells : Room(l) \in Nat
  BY RoomFacts
<1> QED
  BY <1>1, <1>2 DEF RoomOf

\* What a row offers there is room for in the bin of the row, and the bin is reachable.
LEMMA OfferIsRoom ==
  ASSUME PlanStateOK, NEW r, r = requests[index], Offered(r), ~ IsBinItem(r)
  PROVE  /\ r.quantity <= SumOver(RoomOf, Grouped(r.item, r.bin))
         /\ Reachable(r.bin)
<1> DEFINE G == Grouped(r.item, r.bin)
<1>1. /\ kind \in Kinds /\ r = requests[index] /\ index \in DOMAIN requests
      /\ r.quantity \in Nat /\ r.quantity > 0 /\ r.bin \in Asked /\ r \in Range(requests)
      /\ Item = r.item
  <2>1. index \in DOMAIN requests /\ kind \in Kinds /\ requests[index] \in Request
    BY DEF PlanStateOK
  <2> QED  BY <2>1 DEF Request, Asked, Range, Item
<1>2. G \subseteq Loadcells /\ IsFiniteSet(G) /\ \A l \in G : BinOf[l] = r.bin /\ ItemOf[l] = r.item
  <2>1. G \subseteq Loadcells /\ \A l \in G : BinOf[l] = r.bin /\ ItemOf[l] = r.item
    BY DEF Grouped, Inside
  <2> QED  BY <2>1, CellSetFacts
<1>3. \A l \in Loadcells : /\ RoomOf[l] = Room(l) /\ RoomOf[l] \in Nat
                           /\ stock[l] \in Nat /\ history[l] \in Nat /\ Calibrated[l] \in Nat
  BY CellSetFacts, PlanningAssumption DEF PlanStateOK
<1>4. CASE kind = "ISSUE"
  <2>1. r.bin \notin failed /\ r.quantity <= Sum(stock, G) + SumListed(Entries(r.item, r.bin))
    BY <1>4 DEF Offered, OfferedToIssue, CanIssue, TotalQuantity, TotalWeighed
  <2>2. Entries(r.item, r.bin) = {}
    BY <1>1, <1>4 DEF Entries, IsBinItem
  <2>3. SumListed(Entries(r.item, r.bin)) = 0
    BY <2>2, SumListedIs, SumEmpty
  <2> HIDE DEF G
  <2>4. \A l \in G : stock[l] = RoomOf[l]
    BY <1>2, <1>3, <1>4 DEF Room
  <2>5. Sum(stock, G) = SumOver(RoomOf, G)
    BY <1>2, <2>4, SumIs, SumSame
  <2>6. SumOver(RoomOf, G) \in Nat
    BY <1>2, <1>3, SumNat
  <2>7. r.quantity <= SumOver(RoomOf, G)
    BY <1>1, <2>1, <2>3, <2>5, <2>6
  <2>8. Reachable(r.bin)
    BY <1>1, <1>4, <2>1 DEF Reachable
  <2> QED  BY <2>7, <2>8 DEF G
<1>5. CASE kind = "RETURN"
  <2>1. r.quantity <= Sum(history, G)
    BY <1>5 DEF Offered, OfferedToReturn, IssuedQuantityInBin
  <2> HIDE DEF G
  <2>2. \A l \in G : history[l] = RoomOf[l]
    BY <1>2, <1>3, <1>5 DEF Room
  <2>3. Sum(history, G) = SumOver(RoomOf, G)
    BY <1>2, <2>2, SumIs, SumSame
  <2>4. \E l \in G : history[l] > 0
    <3>1. SUFFICES ASSUME \A l \in G : ~ (history[l] > 0) PROVE FALSE
      OBVIOUS
    <3>2. \A l \in G : RoomOf[l] = 0
      BY <1>2, <1>3, <2>2, <3>1
    <3>3. SumOver(RoomOf, G) = 0
      BY <1>2, <3>2, SumZero
    <3> QED  BY <1>1, <2>1, <2>3, <3>3
  <2>5. PICK l \in Loadcells : BinOf[l] = r.bin /\ ItemOf[l] = Item /\ history[l] > 0
    BY <1>1, <1>2, <2>4
  <2>6. r.bin \in PreviousBins
    BY <1>1, <2>5 DEF PreviousBins
  <2>7. Reachable(r.bin)
    BY <1>5, <2>6 DEF Reachable
  <2> QED  BY <2>1, <2>3, <2>7 DEF G
<1>6. CASE kind = "REPLENISH"
  <2>1. r.bin \notin failed /\ r.quantity + Sum(stock, G) <= Sum(Calibrated, G)
    BY <1>6 DEF Offered, OfferedToReplenish, CanReplenish, TotalWeighed, TotalCalcQuantity
  <2> HIDE DEF G
  <2> DEFINE both == [l \in Loadcells |-> stock[l] + RoomOf[l]]
  <2>2. \A l \in G : /\ stock[l] \in Int /\ RoomOf[l] \in Int /\ both[l] = stock[l] + RoomOf[l]
                     /\ Calibrated[l] \in Int /\ both[l] \in Int /\ Calibrated[l] <= both[l]
    <3>1. \A l \in G : Calibrated[l] <= stock[l] + Room(l)
      BY <1>2, <1>3, <1>6 DEF Room
    <3> QED  BY <1>2, <1>3, <3>1
  <2> HIDE DEF both
  <2>3. SumOver(both, G) = SumOver(stock, G) + SumOver(RoomOf, G)
    BY <1>2, <2>2, SumPlus
  <2>4. SumOver(Calibrated, G) <= SumOver(both, G)
    BY <1>2, <2>2, SumMono
  <2>5. SumOver(stock, G) \in Int /\ SumOver(RoomOf, G) \in Int /\ SumOver(Calibrated, G) \in Int
    BY <1>2, <2>2, SumInt
  <2>6. Sum(stock, G) = SumOver(stock, G) /\ Sum(Calibrated, G) = SumOver(Calibrated, G)
    BY SumIs
  <2>7. r.quantity <= SumOver(RoomOf, G)
    BY <1>1, <2>1, <2>3, <2>4, <2>5, <2>6
  <2>8. Reachable(r.bin)
    BY <1>6, <2>1 DEF Reachable
  <2> QED  BY <2>7, <2>8 DEF G
<1> QED
  BY <1>1, <1>4, <1>5, <1>6 DEF Kinds

\* A request that was offered does not run out of loadcells.
LEMMA OfferedIsFilled ==
  ASSUME IInv, Emptied, needed > 0, Candidates \subseteq tried,
         Offered(requests[index]), ~ IsBinItem(requests[index])
  PROVE  FALSE
<1>1. PlanStateOK /\ needed \in Nat
  BY DEF IInv, PlanStateOK
<1>2. PICK r : r = requests[index]
  OBVIOUS
<1> DEFINE G == Grouped(r.item, r.bin)
           H == G \cap Candidates
<1>3. r.quantity <= SumOver(RoomOf, G) /\ Reachable(r.bin)
  BY <1>1, <1>2, OfferIsRoom
<1>4. G \subseteq Loadcells /\ tried \subseteq Loadcells
  BY <1>1 DEF Grouped, Inside, PlanStateOK
<1>5. /\ IsFiniteSet(G) /\ IsFiniteSet(tried) /\ H \subseteq G /\ H \subseteq tried
      /\ \A l \in Loadcells : RoomOf[l] \in Nat /\ RoomOf[l] = Room(l)
  BY <1>1, <1>4, CellSetFacts
<1>6. \A l \in G \ H : RoomOf[l] = 0
  <2> SUFFICES ASSUME NEW l \in G, l \notin Candidates PROVE RoomOf[l] = 0
    OBVIOUS
  <2>1. l \in Loadcells /\ ItemOf[l] = Item /\ BinOf[l] = r.bin
    BY <1>2 DEF Grouped, Inside, Item
  <2>2. ~ (Room(l) > 0)
    BY <1>3, <2>1 DEF Candidates
  <2> QED  BY <1>5, <2>1, <2>2
<1> HIDE DEF G, H
<1>7. SumOver(RoomOf, G) = SumOver(RoomOf, H)
  <2>1. \A l \in G : RoomOf[l] \in Int
    BY <1>4, <1>5
  <2> QED  BY <1>5, <1>6, <2>1, SumSupport
<1>8. SumOver(RoomOf, H) <= SumOver(RoomOf, tried) /\ SumOver(RoomOf, H) \in Nat /\ SumOver(RoomOf, tried) \in Nat
  <2>1. \A l \in tried : RoomOf[l] \in Nat
    BY <1>4, <1>5
  <2> QED  BY <1>5, <2>1, SumSubset
<1>9. SumOver(RoomOf, tried) + needed = r.quantity
  BY <1>2 DEF Emptied
<1> QED
  BY <1>1, <1>3, <1>7, <1>8, <1>9

\* The reasons of a refusal stay what they are.
Excused ==
  \/ \E r \in Range(requests) : ~ Offered(r) \/ IsBinItem(r)
  \/ \E b \in Asked : ~ ItemsReadable(b)

LEMMA SameExcuse == UNCHANGED given => (Excused' <=> Excused)
<1> SUFFICES ASSUME UNCHANGED given PROVE Excused' <=> Excused
  OBVIOUS
<1>1. kind' = kind /\ stock' = stock /\ history' = history /\ failed' = failed /\ requests' = requests
  BY DEF given
<1>2. \A r : (Offered(r)' <=> Offered(r)) /\ (IsBinItem(r)' <=> IsBinItem(r))
  BY <1>1 DEF Offered, OfferedToIssue, OfferedToReturn, OfferedToReplenish, CanIssue, CanReplenish,
              TotalQuantity, TotalWeighed, TotalCalcQuantity, IssuedQuantityInBin, Grouped, Entries,
              Inside, IsBinItem
<1>3. \A b : ItemsReadable(b)' <=> ItemsReadable(b)
  BY <1>1 DEF ItemsReadable, Inside, Assigned
<1> QED
  BY <1>1, <1>2, <1>3 DEF Excused, Asked

LEMMA OfferedIs == OfferedCanBePlanned <=> (status = "refused" => Excused)
BY DEF OfferedCanBePlanned, Excused

LEMMA RefuseExcused ==
  ASSUME IInv, Emptied, Refuse
  PROVE  Excused
<1>1. PlanStateOK /\ needed > 0 /\ index \in DOMAIN requests
  BY DEF IInv, Refuse, PlanStateOK
<1>2. CASE ~ Plannable
  BY <1>2 DEF Plannable, Excused
<1>3. CASE Candidates \subseteq tried
  <2>1. requests[index] \in Range(requests)
    BY <1>1 DEF Range
  <2> QED  BY <1>1, <1>3, <2>1, OfferedIsFilled DEF Excused
<1>4. CASE \E l \in Candidates \ tried : ~ ItemsReadable(BinOf[l])
  <2>1. PICK l \in Candidates : ~ ItemsReadable(BinOf[l])
    BY <1>4
  <2>2. kind = "ISSUE"
    BY <2>1 DEF ItemsReadable
  <2>3. BinOf[l] \in Asked
    BY <2>1, <2>2 DEF Candidates, Reachable
  <2> QED  BY <2>1, <2>3 DEF Excused
<1> QED
  BY <1>2, <1>3, <1>4 DEF Refuse

LEMMA SameRoomOf == UNCHANGED given => RoomOf' = RoomOf
<1> SUFFICES ASSUME UNCHANGED given PROVE RoomOf' = RoomOf
  OBVIOUS
<1>1. \A l \in Loadcells : Room(l)' = Room(l)
  BY DEF Room, given
<1>2. RoomOf = [l \in Loadcells |-> Room(l)] /\ RoomOf' = [l \in Loadcells |-> Room(l)']
  BY DEF RoomOf
<1> QED
  BY <1>1, <1>2

LEMMA AllocateEmptied ==
  ASSUME IInv, Emptied, NEW l \in Loadcells, Allocate(l)
  PROVE  Emptied'
<1>1. PlanStateOK /\ tried \subseteq Loadcells
  BY DEF IInv, PlanStateOK
<1>2. /\ needed > 0 /\ l \notin tried /\ needed' = needed - Portion(l) /\ tried' = tried \cup {l}
      /\ UNCHANGED given /\ index' = index /\ requests' = requests
  BY DEF Allocate, Remaining, given
<1>3. needed \in Nat /\ Room(l) \in Nat /\ RoomOf' = RoomOf
  BY <1>1, <1>2, RoomFacts, SameRoomOf
<1> SUFFICES ASSUME needed' > 0
             PROVE  SumOver(RoomOf, tried \cup {l}) + needed' = requests[index].quantity
  BY <1>2, <1>3 DEF Emptied
<1>4. Portion(l) = Room(l)
  BY <1>2, <1>3 DEF Portion
<1>5. IsFiniteSet(tried) /\ \A m \in Loadcells : RoomOf[m] = Room(m) /\ RoomOf[m] \in Nat
  BY <1>1, CellSetFacts
<1>6. SumOver(RoomOf, tried \cup {l}) = RoomOf[l] + SumOver(RoomOf, tried)
  <2>1. \A m \in tried \cup {l} : RoomOf[m] \in Int
    BY <1>1, <1>5
  <2> QED  BY <1>2, <1>5, <2>1, SumAdd
<1>7. SumOver(RoomOf, tried) \in Nat
  <2>1. \A m \in tried : RoomOf[m] \in Nat
    BY <1>1, <1>5
  <2> QED  BY <1>5, <2>1, SumNat
<1>8. SumOver(RoomOf, tried) + needed = requests[index].quantity
  BY <1>2 DEF Emptied
<1> QED
  BY <1>2, <1>3, <1>4, <1>5, <1>6, <1>7, <1>8

LEMMA FinishEmptied ==
  ASSUME IInv, Emptied, FinishItem
  PROVE  Emptied'
<1>1. PlanStateOK
  BY DEF IInv
<1>2. requests \in Seq(Request) /\ DOMAIN requests = 1..Len(requests) /\ index \in DOMAIN requests
  BY <1>1 DEF PlanStateOK
<1>3. /\ needed = 0 /\ tried' = {} /\ requests' = requests
      /\ IF index < Len(requests) THEN index' = index + 1 /\ needed' = requests[index + 1].quantity
         ELSE needed' = needed
  BY DEF FinishItem, given
<1>4. CASE index < Len(requests)
  <2>1. index + 1 \in DOMAIN requests
    BY <1>2, <1>4
  <2>2. requests[index + 1].quantity \in Nat
    BY <1>2, <2>1, QuantityIn
  <2>3. SumOver(RoomOf', {}) = 0
    BY SumEmpty
  <2> QED  BY <1>3, <1>4, <2>2, <2>3 DEF Emptied
<1>5. CASE ~ (index < Len(requests))
  BY <1>3, <1>5 DEF Emptied
<1> QED
  BY <1>4, <1>5

LEMMA InitLists == CheckInit => ListInv
<1> SUFFICES ASSUME CheckInit PROVE ListInv
  OBVIOUS
<1>1. PlanStateOK
  BY InitInv DEF IInv
<1>2. needed = requests[index].quantity /\ tried = {} /\ status = "planning" /\ needed \in Nat
  BY <1>1 DEF CheckInit, Init, PlanStateOK
<1> QED
  BY <1>2, SumEmpty DEF ListInv, Emptied, OfferedCanBePlanned

LEMMA NextLists == IInv /\ ListInv /\ [CheckNext]_checkVars => ListInv'
<1> SUFFICES ASSUME IInv, ListInv, [CheckNext]_checkVars PROVE ListInv'
  OBVIOUS
<1>0. UNCHANGED given => (OfferedCanBePlanned' <=> (status' = "refused" => Excused))
  BY SameExcuse DEF OfferedCanBePlanned, Excused
<1>1. ASSUME NEW l \in Loadcells, Allocate(l) PROVE ListInv'
  <2>1. UNCHANGED given /\ status' # "refused"
    BY <1>1 DEF Allocate
  <2> QED  BY <1>0, <1>1, <2>1, AllocateEmptied DEF ListInv
<1>2. CASE Refuse
  <2>1. UNCHANGED given /\ UNCHANGED <<index, needed, tried>>
    BY <1>2 DEF Refuse
  <2>2. Emptied'
    BY <2>1, SameRoomOf DEF ListInv, Emptied, given
  <2> QED  BY <1>0, <1>2, <2>1, <2>2, RefuseExcused DEF ListInv
<1>3. CASE FinishItem
  <2>1. UNCHANGED given /\ status' # "refused"
    BY <1>3 DEF FinishItem
  <2> QED  BY <1>0, <1>3, <2>1, FinishEmptied DEF ListInv
<1>4. CASE UNCHANGED vars
  <2>1. UNCHANGED given /\ UNCHANGED <<index, needed, tried, status>>
    BY <1>4 DEF vars, given
  <2>2. Emptied'
    BY <2>1, SameRoomOf DEF ListInv, Emptied, given
  <2> QED  BY <1>0, <2>1, <2>2, OfferedIs DEF ListInv
<1> QED
  BY <1>1, <1>2, <1>3, <1>4 DEF CheckNext, MakePlan, Next, UseBin, checkVars

\* Whoever returns an item has it, and the views say so.
LEMMA LoansAreShown == IInv /\ PortionsInv => LoansShown
<1> SUFFICES ASSUME IInv, PortionsInv, status = "planned", kind = "RETURN" PROVE LoansShown
  BY DEF LoansShown
<1>1. PlanStateOK
  BY DEF IInv
<1>2. ASSUME NEW r \in Range(requests) PROVE \E l \in Loadcells : ItemOf[l] = r.item /\ history[l] > 0
  <2>1. PICK m \in DOMAIN requests : r = requests[m]
    BY DEF Range
  <2>2. /\ requests \in Seq(Request) /\ plan \in Seq(Planned) /\ r.item \in Items
        /\ index = Len(requests) /\ needed = 0 /\ DOMAIN requests = 1..Len(requests)
    BY <1>1, <2>1, ItemFacts DEF PlanStateOK, PortionsInv, Complete
  <2> DEFINE E == AskedFor(requests, Len(requests), r.item)
  <2>3. m \in E /\ E \subseteq DOMAIN requests
    BY <2>1, <2>2 DEF AskedFor
  <2>4. /\ Due(requests, Len(requests), r.item) = SumOver(QuantitiesOf(requests), E) /\ IsFiniteSet(E)
        /\ \A k \in DOMAIN requests : /\ QuantitiesOf(requests)[k] = requests[k].quantity
                                      /\ requests[k].quantity \in Nat /\ requests[k].quantity > 0
    BY <2>2, <2>3, QuantityIn DEF Due
  <2> HIDE DEF E
  <2>5. SumOver(QuantitiesOf(requests), E)
          = QuantitiesOf(requests)[m] + SumOver(QuantitiesOf(requests), E \ {m})
    <3>1. \A k \in E : QuantitiesOf(requests)[k] \in Int
      BY <2>3, <2>4
    <3> QED  BY <2>3, <2>4, <3>1, SumTake
  <2>6. SumOver(QuantitiesOf(requests), E \ {m}) \in Nat
    <3>1. IsFiniteSet(E \ {m}) /\ \A k \in E \ {m} : QuantitiesOf(requests)[k] \in Nat
      BY <2>3, <2>4, FS_Subset
    <3> QED  BY <3>1, SumNat
  <2>7. Due(requests, Len(requests), r.item) > 0
    BY <2>3, <2>4, <2>5, <2>6
  <2>8. Placed(plan, r.item) = Due(requests, Len(requests), r.item)
    <3>1. Placed(plan, r.item) \in Nat
      BY <2>2, PlacedNat
    <3> QED  BY <2>2, <3>1 DEF PortionsInv, AddedUp
  <2>9. EntriesFor(plan, r.item) # {}
    <3>1. SUFFICES ASSUME EntriesFor(plan, r.item) = {} PROVE FALSE
      OBVIOUS
    <3>2. Portions(plan, {}) = SumOver(RequestOf(plan, {}), {})
      BY PortionsAre
    <3>3. Placed(plan, r.item) = 0
      BY <3>1, <3>2, SumEmpty DEF Placed
    <3> QED  BY <2>7, <2>8, <3>3
  <2>10. PICK k \in DOMAIN plan : ItemOf[plan[k].loadcell] = r.item
    BY <2>9 DEF EntriesFor
  <2>11. plan[k] \in Planned /\ 0 < plan[k].request /\ plan[k].request <= Room(plan[k].loadcell)
    BY <2>2, <2>10 DEF PortionsInv, EntriesOK
  <2>12. Room(plan[k].loadcell) = history[plan[k].loadcell] /\ history[plan[k].loadcell] \in Nat
    BY <1>1, <2>11 DEF Room, Planned, PlanStateOK
  <2>13. plan[k].request \in Nat /\ plan[k].loadcell \in Loadcells
    BY <2>11 DEF Planned
  <2> QED  BY <2>10, <2>11, <2>12, <2>13
<1> DEFINE returned == {r.item : r \in Range(requests)}
<1>3. ASSUME NEW b \in Bins, NEW i \in ItemsIn(b) \cap returned PROVE i \in OnLoan(b)
  BY <1>2 DEF OnLoan
<1>4. ASSUME NEW b \in Bins, ItemsIn(b) \cap returned # {} PROVE BinStatus(b) = "on-loan"
  BY <1>3, <1>4 DEF BinStatus, DetailStatus
<1>5. ASSUME NEW b \in Bins, NEW d \in DetailedItems(b), d.item \in returned PROVE d.status = "on-loan"
  <2>1. CASE IsLoadcellBin(b)
    <3>1. PICK l \in Inside(b) : /\ Assigned(l) /\ d.item = ItemOf[l]
                                 /\ d.status = DetailStatus(ItemOf[l] \in OnLoan(b), stock[l], Critical[l])
      BY <2>1 DEF DetailedItems
    <3>2. ItemOf[l] \in ItemsIn(b)
      BY <2>1, <3>1 DEF ItemsIn
    <3>3. ItemOf[l] \in OnLoan(b)
      BY <1>3, <1>5, <3>1, <3>2
    <3> QED  BY <3>1, <3>3 DEF DetailStatus
  <2>2. CASE ~ IsLoadcellBin(b)
    <3>1. PICK e \in ListedIn(b) : /\ d.item = e.item
                                   /\ d.status = DetailStatus(e.item \in OnLoan(b), e.qty, e.critical)
      BY <2>2 DEF DetailedItems
    <3>2. e.item \in ItemsIn(b)
      BY <2>2, <3>1 DEF ItemsIn
    <3>3. e.item \in OnLoan(b)
      BY <1>3, <1>5, <3>1, <3>2
    <3> QED  BY <3>1, <3>3 DEF DetailStatus
  <2> QED  BY <2>1, <2>2
<1> QED
  BY <1>4, <1>5 DEF LoansShown

\* The quantities of rows, added up.
QuantityOfRow(D) == [d \in D |-> d.quantity]

LEMMA RowsAre ==
  ASSUME NEW D
  PROVE  MapThenSumSet(LAMBDA d : d.quantity, D) = SumOver(QuantityOfRow(D), D)
<1> DEFINE Direct(g) == g = [s \in SUBSET D |-> IF s = {} THEN 0 ELSE AnyOf(s).quantity + g[s \ {AnyOf(s)}]]
<1>1. MapThenSumSet(LAMBDA d : d.quantity, D) = (CHOOSE g : Direct(g))[D]
  BY DEF MapThenSumSet, MapThenFoldSet, AnyOf
<1>2. ASSUME NEW g PROVE Direct(g) <=> SumTable(QuantityOfRow(D), D, g)
  <2> DEFINE a(s) == IF s = {} THEN 0 ELSE AnyOf(s).quantity + g[s \ {AnyOf(s)}]
             c(s) == IF s = {} THEN 0 ELSE QuantityOfRow(D)[AnyOf(s)] + g[s \ {AnyOf(s)}]
  <2>1. \A s \in SUBSET D : a(s) = c(s)
    BY AnyOfIn DEF QuantityOfRow
  <2>2. [s \in SUBSET D |-> a(s)] = [s \in SUBSET D |-> c(s)]
    <3> HIDE DEF a, c
    <3> QED  BY <2>1
  <2> QED  BY <2>2 DEF SumTable
<1>3. (CHOOSE g : Direct(g)) = CHOOSE g : SumTable(QuantityOfRow(D), D, g)
  <2> HIDE DEF Direct
  <2> QED  BY <1>2
<1> QED
  BY <1>1, <1>3, SumIsTable

\* A row of the list is the sum of the rows of its bin: no loadcell or entry is counted
\* twice or left out.
LEMMA RowsAreSums ==
  ASSUME PlanStateOK
  PROVE  RowsAddUp
<1> SUFFICES ASSUME NEW b \in Bins, IsLoadcellBin(b) => ListedIn(b) = {}, NEW i \in Items
             PROVE  TotalQuantity(i, b)
                      = MapThenSumSet(LAMBDA d : d.quantity, {d \in DetailedItems(b) : d.item = i})
  BY DEF RowsAddUp
<1> DEFINE D == {d \in DetailedItems(b) : d.item = i}
           G == Grouped(i, b)
           E == Entries(i, b)
<1>1. G \subseteq Loadcells /\ IsFiniteSet(G) /\ \A l \in G : stock[l] \in Nat
  <2>1. G \subseteq Loadcells
    BY DEF Grouped, Inside
  <2> QED  BY <2>1, CellSetFacts DEF PlanStateOK
<1>2. E \subseteq Listed /\ IsFiniteSet(E) /\ \A e \in E : e.qty \in Nat
  <2>1. E \subseteq Listed
    BY DEF Entries
  <2>2. IsFiniteSet(E)
    BY <2>1, PlanningAssumption, FS_Subset
  <2>3. \A e \in E : e \in Entry
    BY <2>1, ListingAssumption
  <2> QED  BY <2>1, <2>2, <2>3 DEF Entry
<1>3. SumOver(stock, G) \in Nat /\ SumOver(QtyOf(E), E) \in Nat
  <2>1. \A e \in E : QtyOf(E)[e] \in Nat
    BY <1>2 DEF QtyOf
  <2> HIDE DEF E, G
  <2> QED  BY <1>1, <1>2, <2>1, SumNat
<1>4. TotalQuantity(i, b) = SumOver(stock, G) + SumOver(QtyOf(E), E)
  BY SumIs, SumListedIs DEF TotalQuantity, TotalWeighed
<1>5. CASE IsLoadcellBin(b)
  <2> DEFINE row(l) == [item |-> ItemOf[l], quantity |-> stock[l], source |-> l,
                        status |-> DetailStatus(ItemOf[l] \in OnLoan(b), stock[l], Critical[l])]
             rowOf == [l \in G |-> row(l)]
  <2>1. E = {}
    BY <1>5 DEF Entries, ListedIn
  <2>2. \A l \in Inside(b) : ItemOf[l] = i => Assigned(l)
    BY ItemFacts DEF Assigned
  <2>3. D = {row(l) : l \in G}
    <3>1. DetailedItems(b) = {row(l) : l \in {m \in Inside(b) : Assigned(m)}}
      BY <1>5 DEF DetailedItems
    <3>2. \A l : row(l).item = ItemOf[l]
      OBVIOUS
    <3> HIDE DEF row
    <3> QED  BY <2>2, <3>1, <3>2 DEF Grouped
  <2>4. \A l \in G : row(l).quantity = stock[l] /\ row(l).source = l
    OBVIOUS
  <2> HIDE DEF row
  <2>5. D = {rowOf[l] : l \in G}
    BY <2>3
  <2>6. \A l \in G : rowOf[l] \in D /\ rowOf[l].quantity = stock[l] /\ rowOf[l].source = l
    BY <2>3, <2>4
  <2> HIDE DEF rowOf, D, G
  <2>7. \A l \in G : stock[l] \in Int /\ stock[l] = QuantityOfRow(D)[rowOf[l]]
    BY <1>1, <2>6 DEF QuantityOfRow
  <2>8. \A l, m \in G : rowOf[l] = rowOf[m] => l = m
    BY <2>6
  <2>9. SumOver(stock, G) = SumOver(QuantityOfRow(D), D)
    BY <1>1, <2>5, <2>7, <2>8, SumReindex
  <2> QED  BY <1>3, <1>4, <2>1, <2>9, RowsAre, SumEmpty DEF D
<1>6. CASE ~ IsLoadcellBin(b)
  <2> DEFINE row(e) == [item |-> e.item, quantity |-> e.qty, source |-> e,
                        status |-> DetailStatus(e.item \in OnLoan(b), e.qty, e.critical)]
             rowOf == [e \in E |-> row(e)]
  <2>1. G = {}
    BY <1>6 DEF Grouped, IsLoadcellBin
  <2>3. D = {row(e) : e \in E}
    <3>1. DetailedItems(b) = {row(e) : e \in ListedIn(b)}
      BY <1>6 DEF DetailedItems
    <3>2. \A e : row(e).item = e.item
      OBVIOUS
    <3> HIDE DEF row
    <3> QED  BY <3>1, <3>2 DEF Entries, ListedIn
  <2>4. \A e \in E : row(e).quantity = e.qty /\ row(e).source = e
    OBVIOUS
  <2> HIDE DEF row
  <2>5. D = {rowOf[e] : e \in E}
    BY <2>3
  <2>6. \A e \in E : rowOf[e] \in D /\ rowOf[e].quantity = e.qty /\ rowOf[e].source = e
    BY <2>3, <2>4
  <2> HIDE DEF rowOf, D, E
  <2>7. \A e \in E : QtyOf(E)[e] \in Int /\ QtyOf(E)[e] = QuantityOfRow(D)[rowOf[e]]
    BY <1>2, <2>6 DEF QuantityOfRow, QtyOf
  <2>8. \A e, f \in E : rowOf[e] = rowOf[f] => e = f
    BY <2>6
  <2>9. SumOver(QtyOf(E), E) = SumOver(QuantityOfRow(D), D)
    BY <1>2, <2>5, <2>7, <2>8, SumReindex
  <2> QED  BY <1>3, <1>4, <2>1, <2>9, RowsAre, SumEmpty DEF D
<1> QED
  BY <1>5, <1>6

LEMMA LowIsShownAlike ==
  ASSUME PlanStateOK
  PROVE  LowShownAlike
<1> SUFFICES ASSUME NEW b \in Bins, ~ HasExpiredItem(b), OnLoan(b) = {},
                    TotalQtyOH(b) >= Levels[b].min, TotalQtyOH(b) > 0
             PROVE  CompartmentStatus(b) = "low-critical" <=> BinStatus(b) = "low/critical"
  BY DEF LowShownAlike
<1>1. Levels[b].min \in Nat /\ Levels[b].critical \in Nat /\ Levels[b].max \in Nat
  BY LevelsAssumption
<1>2. TotalQtyOH(b) \in Nat
  <2>1. CASE IsLoadcellBin(b)
    <3>1. Inside(b) \subseteq Loadcells
      BY DEF Inside
    <3>2. IsFiniteSet(Inside(b)) /\ \A l \in Inside(b) : stock[l] \in Nat
      BY <3>1, CellSetFacts DEF PlanStateOK
    <3> QED  BY <2>1, <3>2, SumIs, SumNat DEF TotalQtyOH
  <2>2. CASE ~ IsLoadcellBin(b)
    <3> DEFINE E == ListedIn(b)
    <3>1. E \subseteq Listed /\ IsFiniteSet(E)
      BY PlanningAssumption, FS_Subset DEF ListedIn
    <3>2. \A e \in E : e \in Entry
      BY <3>1, ListingAssumption
    <3>3. \A e \in E : QtyOf(E)[e] \in Nat
      BY <3>2 DEF Entry, QtyOf
    <3>4. SumOver(QtyOf(E), E) \in Nat
      <4> HIDE DEF E
      <4> QED  BY <3>1, <3>3, SumNat
    <3> QED  BY <2>2, <3>4, SumListedIs DEF TotalQtyOH
  <2> QED  BY <2>1, <2>2
<1> DEFINE total == TotalQtyOH(b)
           level == Levels[b]
<1>3. CompartmentStatus(b) = "low-critical" <=> total <= level.critical
  <2>1. total \in level.min..level.critical <=> total <= level.critical
    BY <1>1, <1>2
  <2> HIDE DEF total, level
  <2> QED  BY <2>1 DEF CompartmentStatus, total, level
<1>4. BinStatus(b) = "low/critical" <=> total <= level.critical
  <2>1. total \in 1..level.critical <=> total <= level.critical
    BY <1>1, <1>2
  <2> QED  BY <2>1 DEF BinStatus, DetailStatus
<1> QED
  BY <1>3, <1>4

LEMMA ListsInvariance == CheckSpec => [](IInv /\ PortionsInv /\ ListInv)
<1>1. CheckInit => IInv /\ PortionsInv /\ ListInv
  BY InitInv, InitPortions, InitLists
<1>2. IInv /\ PortionsInv /\ ListInv /\ [CheckNext]_checkVars => (IInv /\ PortionsInv /\ ListInv)'
  BY NextInv, NextPortions, NextLists
<1> QED
  BY <1>1, <1>2, PTL DEF CheckSpec

\* For every cabinet, stock and history: what a row offers is never refused, what is
\* returned is shown as on loan, a row of a list is the sum of the rows of its bin, and
\* low bins are shown alike, with the exceptions the property names.
THEOREM ListsTellOneStory == CheckSpec => []ListsAgree
<1>1. IInv /\ PortionsInv /\ ListInv => ListsAgree
  <2> SUFFICES ASSUME IInv, PortionsInv, ListInv PROVE ListsAgree
    OBVIOUS
  <2>1. PlanStateOK
    BY DEF IInv
  <2> QED  BY <2>1, LoansAreShown, RowsAreSums, LowIsShownAlike DEF ListInv, ListsAgree
<1> QED
  BY <1>1, ListsInvariance, PTL
=============================================================================
