----------------------------- MODULE BinListing -----------------------------
(***************************************************************************)
(* What apps/inventory shows of the bins: getBinCompartments gives every   *)
(* bin of a cabinet a status, getCompartmentDetails gives one bin and its  *)
(* items a status of its own.  Both recompute from the loadcells, the      *)
(* items[] and the issue histories what ItemListing computes in queries.   *)
(***************************************************************************)
EXTENDS ItemListing

CONSTANTS
  Critical,  \* metadata.critical of the loadcells
  Levels     \* minQty, criticalQty and maxQty of the bins

ASSUME LevelsAssumption ==
  /\ Critical \in [Loadcells -> Nat]
  /\ Levels \in [Bins -> [min : Nat, critical : Nat, max : Nat]]

\* bin.type: the cloud gives the type LOADCELL to the bins that have loadcells.
IsLoadcellBin(b) == Inside(b) # {}
ListedIn(b) == {e \in Listed : e.bin = b}

TotalQtyOH(b) == IF IsLoadcellBin(b) THEN Sum(stock, Inside(b)) ELSE SumListed(ListedIn(b))

\* some of the loadcells, but every one of the entries; with no entries, too.
HasExpiredItem(b) ==
  IF IsLoadcellBin(b) THEN Inside(b) \cap Expired # {} ELSE \A e \in ListedIn(b) : e.expired

CompartmentStatus(b) ==
  LET total == TotalQtyOH(b)
      level == Levels[b]
  IN  CASE HasExpiredItem(b) -> "unavailable"
        [] ~ HasExpiredItem(b) /\ total \in level.min..level.critical -> "low-critical"
        [] ~ HasExpiredItem(b) /\ total \notin level.min..level.critical
             /\ total > level.critical /\ total <= level.max -> "average"
        [] OTHER -> "good"

\* The items of the bin that somebody has a history of.
ItemsIn(b) ==
  IF IsLoadcellBin(b) THEN {ItemOf[l] : l \in {m \in Inside(b) : Assigned(m)}}
  ELSE {e.item : e \in ListedIn(b)}
OnLoan(b) == {i \in ItemsIn(b) : \E l \in Loadcells : ItemOf[l] = i /\ history[l] > 0}

DetailStatus(onLoan, quantity, critical) ==
  CASE onLoan -> "on-loan"
    [] ~ onLoan /\ quantity \in 1..critical -> "low/critical"
    [] OTHER -> "good"

BinStatus(b) == DetailStatus(OnLoan(b) # {}, TotalQtyOH(b), Levels[b].critical)

\* detailedItems: the items of a bin with their status.
DetailedItems(b) ==
  IF IsLoadcellBin(b)
  THEN {[item |-> ItemOf[l], quantity |-> stock[l], source |-> l,
         status |-> DetailStatus(ItemOf[l] \in OnLoan(b), stock[l], Critical[l])] :
          l \in {m \in Inside(b) : Assigned(m)}}
  ELSE {[item |-> e.item, quantity |-> e.qty, source |-> e,
         status |-> DetailStatus(e.item \in OnLoan(b), e.qty, e.critical)] : e \in ListedIn(b)}
-----------------------------------------------------------------------------
(* What the views say of one cabinet fits together.                        *)

\* A row of the issue list is the sum of the rows of its bin, unless the bin both
\* weighs and lists items: the details then show the loadcells only.
RowsAddUp ==
  \A b \in Bins : (IsLoadcellBin(b) => ListedIn(b) = {}) =>
    LET rows == DetailedItems(b)
    IN  \A i \in Items :
          TotalQuantity(i, b) = MapThenSumSet(LAMBDA d : d.quantity, {d \in rows : d.item = i})

\* Wherever there is an item that a planned return brings back, the details say
\* that it is on loan.
LoansShown ==
  status = "planned" /\ kind = "RETURN" =>
    LET returned == {r.item : r \in Range(requests)}
    IN  \A b \in {c \in Bins : ItemsIn(c) \cap returned # {}} :
          /\ BinStatus(b) = "on-loan"
          /\ \A d \in DetailedItems(b) : d.item \in returned => d.status = "on-loan"

\* A bin is shown as low in the cabinet and in its details alike, unless something in
\* it expired or is on loan, or it has less than its minimum: that counts as good.
LowShownAlike ==
  \A b \in Bins :
    ~ HasExpiredItem(b) /\ OnLoan(b) = {} /\ TotalQtyOH(b) >= Levels[b].min /\ TotalQtyOH(b) > 0
      => (CompartmentStatus(b) = "low-critical" <=> BinStatus(b) = "low/critical")

\* The lists, the compartments, the details and the plans tell one story, with the
\* exceptions named above: each recomputes the quantities by a query of its own.
ListsAgree ==
  /\ OfferedCanBePlanned /\ LoansShown
  /\ status = "planning" /\ plan = <<>> => RowsAddUp /\ LowShownAlike
=============================================================================
