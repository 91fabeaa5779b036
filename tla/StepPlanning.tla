---------------------------- MODULE StepPlanning ----------------------------
(***************************************************************************)
(* How apps/inventory plans a transaction: for each requested item it      *)
(* allocates quantities to the loadcells that weigh it, one loadcell at a  *)
(* time, and remembers which other loadcells of the bin to keep track of;  *)
(* then the plan is grouped by bin into execution steps.  Items that a bin *)
(* only lists, without weighing them, take a path of their own.            *)
(*                                                                         *)
(* ISSUE, RETURN and REPLENISH run the same loops and differ in which      *)
(* loadcells they consider, in which order, and when a loadcell is taken   *)
(* off the tracking lists.                                                 *)
(***************************************************************************)
EXTENDS Naturals, Sequences, FiniteSets, Functions

CONSTANTS
  Loadcells,
  BinOf,      \* the bin each loadcell is in
  ItemOf,     \* the item each loadcell weighs, or NoItem if none is assigned
  NoItem,
  Listed,     \* items[] of the bins: entries of an item that is not weighed
  Calibrated, \* calibration.calibratedQuantity, the capacity of each loadcell
  Stocks,     \* what may be in stock: availableQuantity of each loadcell
  Histories,  \* what the user may have issued before, by loadcell
  FailedSets, \* sets of bins that may be failed or damaged
  Requests    \* requests: sequences of an item, the bin it was seen in, a quantity

Bins == {BinOf[l] : l \in Loadcells} \cup {e.bin : e \in Listed}
Items == ({ItemOf[l] : l \in Loadcells} \ {NoItem}) \cup {e.item : e \in Listed}
Request == [item : Items, bin : Bins, quantity : Nat \ {0}]

\* ItemRequest: at least one item, every quantity positive.  An entry of items[] always
\* names its item.
ASSUME PlanningAssumption ==
  /\ IsFiniteSet(Loadcells) /\ IsFiniteSet(Listed)
  /\ \A e \in Listed : e.item # NoItem
  /\ Calibrated \in [Loadcells -> Nat \ {0}]
  /\ Stocks \subseteq [Loadcells -> Nat]
  /\ Histories \subseteq [Loadcells -> Nat]
  /\ Requests \subseteq Seq(Request) \ {<<>>}

VARIABLES
  kind,      \* the type of the transaction
  stock, history, failed, requests,
  index,     \* the request being allocated
  needed,    \* neededQty: how much of it is not allocated yet
  tried,     \* allocatedLoadcellIds of this request
  plan,      \* plan: what to do at which loadcell, what to keep track of
  status

vars == <<kind, stock, history, failed, requests, index, needed, tried, plan, status>>
given == <<kind, stock, history, failed, requests>>
-----------------------------------------------------------------------------
Kinds == {"ISSUE", "RETURN", "REPLENISH"}
Planned == [loadcell : Loadcells, request : Nat, track : SUBSET Loadcells]

Item == requests[index].item
Asked == {requests[k].bin : k \in DOMAIN requests}
Inside(b) == {l \in Loadcells : BinOf[l] = b}
Assigned(l) == ItemOf[l] # NoItem

\* How much of its item can be taken from, or put on, a loadcell.
Room(l) ==
  CASE kind = "ISSUE" -> stock[l]
    [] kind = "RETURN" -> history[l]
    [] OTHER -> IF stock[l] < Calibrated[l] THEN Calibrated[l] - stock[l] ELSE 0

\* The bins the user issued the item from; findUserIssueHistories only finds a
\* history with a location in one of the requested bins.
PreviousBins ==
  LET used == {BinOf[l] : l \in {m \in Loadcells : ItemOf[m] = Item /\ history[m] > 0}}
  IN  IF used \cap Asked = {} THEN {} ELSE used

\* An issue looks at the requested bins only, a replenishment at all bins; a
\* return goes where the items came from, whatever the state of the bin.
Reachable(b) ==
  CASE kind = "ISSUE" -> b \in Asked \ failed
    [] kind = "RETURN" -> PreviousBins # {}
    [] OTHER -> b \notin failed

\* An issue sends a request to the path for items that are not weighed when its bin
\* lists any of the requested items (getBinItems).
IsBinItem(r) ==
  kind = "ISSUE" /\ \E e \in Listed : e.bin = r.bin /\ \E s \in Range(requests) : e.item = s.item

\* That path asks the bins for the fields item and bin, which they do not have, so
\* that findNormalItemsForIssue finds nothing, and the whole issue is refused.  The
\* other kinds know loadcells only: nobody has a history of an item not weighed.
BinItemsAvailable == {}
Plannable == \A r \in Range(requests) : IsBinItem(r) => r.bin \in BinItemsAvailable

Candidates == {l \in Loadcells : ItemOf[l] = Item /\ Room(l) > 0 /\ Reachable(BinOf[l])}

\* The sort orders: bins the user knows first; least stocked first.
ComesBefore(l, m) ==
  CASE kind = "ISSUE" -> BinOf[l] \in PreviousBins /\ BinOf[m] \notin PreviousBins
    [] kind = "RETURN" -> FALSE
    [] OTHER -> stock[l] * Calibrated[m] < stock[m] * Calibrated[l]

\* What an entry of the plan keeps track of at first; issuing reads the item of
\* every loadcell of the bin and throws if one has none.
TrackedAtFirst(b) == IF kind = "RETURN" THEN {l \in Inside(b) : Assigned(l)} ELSE Inside(b)
ItemsReadable(b) == kind = "ISSUE" => \A l \in Inside(b) : Assigned(l)

\* Variant: the quantity is not limited by what the loadcell has room for.
PortionUnlimited(l) == needed

\* Variant: the quantity is not limited by what is needed.
PortionWhole(l) == Room(l)

Portion(l) == IF needed < Room(l) THEN needed ELSE Room(l)

\* Variant: one loadcell is thought to be enough.
OneIsEnough(l) == 0

Remaining(l) == needed - Portion(l)

\* Variant: the list of ids starts anew with every request.
AllocatedForItem == tried

\* Variant: everything in the bins of the plan is taken off the lists.
AllocatedBins == UNION {Inside(BinOf[plan[k].loadcell]) : k \in DOMAIN plan}

\* A return collects the ids over all requests, the others over one.
AllocatedIds == IF kind = "RETURN" THEN {plan[k].loadcell : k \in DOMAIN plan} ELSE tried

Untracked(ids) == [k \in DOMAIN plan |-> [plan[k] EXCEPT !.track = @ \ ids]]
-----------------------------------------------------------------------------
Init ==
  /\ kind \in Kinds
  /\ stock \in Stocks /\ history \in Histories /\ failed \in FailedSets
  /\ requests \in Requests
  /\ index = 1 /\ needed = requests[1].quantity /\ tried = {}
  /\ plan = <<>>
  /\ status = "planning"

\* One round of the loop over the loadcells of an item.
Allocate(l) ==
  LET b == BinOf[l]
  IN  /\ status = "planning" /\ needed > 0 /\ Plannable
      /\ l \in Candidates \ tried
      /\ ~ \E m \in Candidates \ tried : ComesBefore(m, l)
      /\ ItemsReadable(b)
      /\ plan' = Append(plan, [loadcell |-> l, request |-> Portion(l),
                               track |-> TrackedAtFirst(b)])
      /\ needed' = Remaining(l)
      /\ tried' = tried \cup {l}
      /\ UNCHANGED <<given, index, status>>

\* A request that is out of stock, out of room, or that was never issued, and
\* one that throws, fail as a whole: nothing is planned.
Refuse ==
  /\ status = "planning" /\ needed > 0
  /\ \/ ~ Plannable
     \/ Candidates \subseteq tried
     \/ \E l \in Candidates \ tried :
          /\ ~ \E m \in Candidates \ tried : ComesBefore(m, l)
          /\ ~ ItemsReadable(BinOf[l])
  /\ status' = "refused" /\ plan' = <<>>
  /\ UNCHANGED <<given, index, needed, tried>>

\* The item is allocated; its loadcells are taken off the tracking lists.
FinishItem ==
  /\ status = "planning" /\ needed = 0
  /\ plan' = Untracked(AllocatedIds)
  /\ tried' = {}
  /\ IF index < Len(requests)
     THEN /\ index' = index + 1
          /\ needed' = requests[index + 1].quantity
          /\ UNCHANGED status
     ELSE status' = "planned" /\ UNCHANGED <<index, needed>>
  /\ UNCHANGED given

Next == (\E l \in Loadcells : Allocate(l)) \/ Refuse \/ FinishItem

Spec == Init /\ [][Next]_vars
-----------------------------------------------------------------------------
(* Grouping by bin: what _groupPlanByBin makes of the plan                 *)

EntriesIn(b) == {k \in DOMAIN plan : BinOf[plan[k].loadcell] = b}
StepBins == {BinOf[plan[k].loadcell] : k \in DOMAIN plan}
PlannedIn(b) == {plan[k].loadcell : k \in EntriesIn(b)}

\* The entries of the tracking lists, merged by loadcell.
KeepTrack(b) == UNION {plan[k].track : k \in EntriesIn(b)}

\* What is sent to the worker: only the list of the transaction's kind is filled.
StepItem == [loadcell : Loadcells, current : Nat, request : Nat]
Step == [bin : Bins, kind : Kinds, items : SUBSET StepItem, track : SUBSET Loadcells]
ExecutionStep(b) ==
  [bin |-> b, kind |-> kind,
   items |-> {[loadcell |-> plan[k].loadcell, current |-> stock[plan[k].loadcell],
               request |-> plan[k].request] : k \in EntriesIn(b)},
   track |-> KeepTrack(b)]
=============================================================================
