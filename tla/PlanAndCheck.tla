---------------------------- MODULE PlanAndCheck ----------------------------
(***************************************************************************)
(* A plan of the inventory service, carried out: at each step the user     *)
(* opens the bin of the step, does something, and closes it, and the       *)
(* process worker decides whether that was what the plan says.  Nobody     *)
(* else touches the loadcells in the meantime.                             *)
(***************************************************************************)
EXTENDS StepPlanning, QuantityCheck, FiniteSetsExt

CONSTANT Quantities  \* quantities a loadcell may be left with

ASSUME QuantitiesAssumption == Quantities \subseteq Nat

VARIABLES
  quantity,  \* availableQuantity + pendingChange of each loadcell
  verdict    \* what the worker said of the step at each bin

checkVars == <<vars, quantity, verdict>>

\* _getAllPlannedActions of the step at bin b.
Actions(b) ==
  LET step == ExecutionStep(b)
  IN  {[type |-> step.kind, loadcell |-> i.loadcell, request |-> i.request,
        current |-> i.current] : i \in step.items}
      \cup {[type |-> "KEEP_TRACK", loadcell |-> l, request |-> 0, current |-> stock[l]] :
              l \in step.track}

\* em.find(LoadcellEntity, {bin, item: {$ne: null}}).
FinalLoadcells(b) == {l \in Inside(b) : Assigned(l)}

CheckInit ==
  /\ Init
  /\ quantity = stock
  /\ verdict = [b \in Bins |-> "none"]

MakePlan == Next /\ UNCHANGED <<quantity, verdict>>

\* The steps are taken in the order in which their bins appear in the plan.
Precedes(b, c) == \E j \in EntriesIn(b) : \A k \in EntriesIn(c) : j < k

\* The user leaves the bin with any quantities; handleBinClosed decides.
UseBin(b) ==
  /\ status = "planned"
  /\ b \in StepBins /\ verdict[b] = "none"
  /\ \A c \in StepBins : Precedes(c, b) => verdict[c] # "none"
  /\ \E left \in [FinalLoadcells(b) -> Quantities] :
       quantity' = [l \in Loadcells |-> IF l \in FinalLoadcells(b) THEN left[l] ELSE quantity[l]]
  /\ verdict' = [verdict EXCEPT ![b] =
       IF IsValid(Actions(b), FinalLoadcells(b), quantity') THEN "valid" ELSE "invalid"]
  /\ UNCHANGED vars

CheckNext == MakePlan \/ \E b \in Bins : UseBin(b)

CheckSpec == CheckInit /\ [][CheckNext]_checkVars
-----------------------------------------------------------------------------
PlanStateOK ==
  /\ kind \in Kinds
  /\ stock \in [Loadcells -> Nat] /\ history \in [Loadcells -> Nat]
  /\ requests \in Seq(Request) /\ index \in DOMAIN requests
  /\ needed \in Nat /\ tried \subseteq Loadcells
  /\ plan \in Seq(Planned)
  /\ status \in {"planning", "planned", "refused"}
  /\ quantity \in [Loadcells -> Nat]
  /\ verdict \in [Bins -> {"none", "valid", "invalid"}]

\* The variables and the steps made of them keep their types.
PlanTypeOK == PlanStateOK /\ \A b \in StepBins : ExecutionStep(b) \in Step

PlannedSum(entries) == MapThenSumSet(LAMBDA k : plan[k].request, entries)

\* What was asked for is planned, neither more nor less, for every item.
PlanAddsUp ==
  status = "planned" =>
    \A item \in {r.item : r \in {requests[k] : k \in DOMAIN requests}} :
      PlannedSum({k \in DOMAIN plan : ItemOf[plan[k].loadcell] = item})
        = MapThenSumSet(LAMBDA k : requests[k].quantity,
                        {k \in DOMAIN requests : requests[k].item = item})

\* No item is requested twice.
DistinctItems ==
  \A j, k \in DOMAIN requests : requests[j].item = requests[k].item => j = k

\* Never is more planned for a loadcell than it has: of different items.
PlanFits ==
  DistinctItems => \A l \in Loadcells :
    PlannedSum({k \in DOMAIN plan : plan[k].loadcell = l}) <= Room(l)

\* A plan is neither more nor less than was asked for, and takes from no loadcell more
\* than it has room for: the portions of a request, cut one by one, keep both.
PlanSound == PlanAddsUp /\ PlanFits

\* A step that is judged valid touched nothing that was not planned: the tracking
\* lists, however they were filtered, cover the rest of the bin.
NothingElseTouched ==
  \A b \in Bins : verdict[b] = "valid" =>
    \A l \in FinalLoadcells(b) \ PlannedIn(b) : quantity[l] = stock[l]

\* What was done at loadcell l since the plan was made is what the plan says.
AsPlanned(l) ==
  LET sum == PlannedSum({k \in DOMAIN plan : plan[k].loadcell = l})
  IN  quantity[l] = IF kind = "ISSUE" THEN stock[l] - sum ELSE stock[l] + sum

\* One item at the bin, and no loadcell without item: what issue and replenish
\* need for their tracking lists, a return does not.
PlainStep(b) ==
  \/ kind = "RETURN"
  \/ /\ \A j, k \in EntriesIn(b) : ItemOf[plan[j].loadcell] = ItemOf[plan[k].loadcell]
     /\ \A l \in Inside(b) : Assigned(l)

\* A user who does at a bin exactly what the plan says is told that it is valid.
HonestUserPasses ==
  DistinctItems => \A b \in Bins :
    verdict[b] # "none" /\ PlainStep(b) /\ (\A l \in FinalLoadcells(b) : AsPlanned(l))
      => verdict[b] = "valid"
-----------------------------------------------------------------------------
(* What comments say of the plan                                           *)

\* issue-item.service.ts: the complete request can be fulfilled.
CompleteRequestFits ==
  status = "planned" /\ kind = "ISSUE" =>
    \A l \in Loadcells : PlannedSum({k \in DOMAIN plan : plan[k].loadcell = l}) <= stock[l]

\* issue-item.service.ts: tracks all other items in bins.
TracksOnlyOthers ==
  status = "planned" /\ kind = "ISSUE" => \A b \in StepBins : KeepTrack(b) \cap PlannedIn(b) = {}
=============================================================================
