---------------------------- MODULE ItemListing -----------------------------
(***************************************************************************)
(* The items apps/inventory offers to issue, replenish or return: one row  *)
(* for every item and bin, aggregated from the loadcells and the items[]   *)
(* of the bins (or, for returns, from the issue histories) by queries of   *)
(* their own.  What a user picks from these rows becomes the requests that *)
(* StepPlanning plans.                                                     *)
(***************************************************************************)
EXTENDS StepPlanning, FiniteSets, FiniteSetsExt

CONSTANT Expired  \* the loadcells whose metadata.expiryDate is over

\* An entry of items[]: BinItem.
Entry == [item : Items, bin : Bins, qty : Nat, critical : Nat, expired : BOOLEAN]
ASSUME ListingAssumption == Expired \subseteq Loadcells /\ Listed \subseteq Entry

\* The calibrated loadcells and the entries grouped in a row.
Grouped(item, bin) == {l \in Inside(bin) : ItemOf[l] = item}
Entries(item, bin) == {e \in Listed : e.item = item /\ e.bin = bin}

Sum(f, cells) == MapThenSumSet(LAMBDA l : f[l], cells)
SumListed(entries) == MapThenSumSet(LAMBDA e : e.qty, entries)

\* Entries have no calibrated quantity.
TotalCalcQuantity(item, bin) == Sum(Calibrated, Grouped(item, bin))
TotalWeighed(item, bin) == Sum(stock, Grouped(item, bin))
TotalQuantity(item, bin) == TotalWeighed(item, bin) + SumListed(Entries(item, bin))
IssuedQuantityInBin(item, bin) == Sum(history, Grouped(item, bin))

\* The flags of a row: something in it is there and not expired.
CanIssue(item, bin) ==
  /\ bin \notin failed
  /\ \/ \E l \in Grouped(item, bin) \ Expired : stock[l] > 0
     \/ \E e \in Entries(item, bin) : e.qty > 0 /\ ~ e.expired
CanReplenish(bin) == bin \notin failed

\* A quantity the row lets a user pick.
OfferedToIssue(r) == CanIssue(r.item, r.bin) /\ r.quantity <= TotalQuantity(r.item, r.bin)
OfferedToReplenish(r) ==
  /\ CanReplenish(r.bin)
  /\ r.quantity + TotalWeighed(r.item, r.bin) <= TotalCalcQuantity(r.item, r.bin)
OfferedToReturn(r) == r.quantity <= IssuedQuantityInBin(r.item, r.bin)

Offered(r) ==
  CASE kind = "ISSUE" -> OfferedToIssue(r)
    [] kind = "RETURN" -> OfferedToReturn(r)
    [] OTHER -> OfferedToReplenish(r)
-----------------------------------------------------------------------------
(* What the lists offer can be planned: requests each within its row are   *)
(* never refused while nothing changes in between, except that an issue    *)
(* throws at a bin with a loadcell without item and never finds an item    *)
(* that a bin only lists.                                                  *)
OfferedCanBePlanned ==
  status = "refused" =>
    \/ \E r \in Range(requests) : ~ Offered(r) \/ IsBinItem(r)
    \/ \E b \in Asked : ~ ItemsReadable(b)
=============================================================================
