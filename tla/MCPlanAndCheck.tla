--------------------------- MODULE MCPlanAndCheck ---------------------------
(***************************************************************************)
(* A small cabinet for TLC: one item in two bins, another item beside it,  *)
(* a bin with a loadcell that has no item, and an item that is not weighed,*)
(* listed by a bin of its own and by one with a loadcell.                  *)
(***************************************************************************)
EXTENDS PlanAndCheck, BinListing, TLC

CONSTANTS x, y, z, none, l1, l2, l3, l4, l5, b1, b2, b3, b4

CabinetBins == (l1 :> b1) @@ (l2 :> b1) @@ (l3 :> b2) @@ (l4 :> b3) @@ (l5 :> b3)
CabinetItems == (l1 :> x) @@ (l2 :> y) @@ (l3 :> x) @@ (l4 :> y) @@ (l5 :> none)
CabinetListed ==
  {[item |-> z, bin |-> b2, qty |-> 1, critical |-> 1, expired |-> FALSE],
   [item |-> z, bin |-> b4, qty |-> 2, critical |-> 1, expired |-> FALSE],
   [item |-> z, bin |-> b4, qty |-> 1, critical |-> 2, expired |-> TRUE]}
Capacities == (l1 :> 2) @@ (l2 :> 1) @@ (l3 :> 3) @@ (l4 :> 1) @@ (l5 :> 1)
LowCells == [l \in Loadcells |-> 1]
BinLevels == [b \in Bins |-> [min |-> IF b = b3 THEN 0 ELSE 1, critical |-> 1, max |-> 3]]

SmallStocks ==
  {(l1 :> i) @@ (l2 :> 1) @@ (l3 :> j) @@ (l4 :> k) @@ (l5 :> 0) : i \in 0..2, j \in 1..2, k \in 0..1}
SmallHistories ==
  {(l1 :> i) @@ (l2 :> i) @@ (l3 :> j) @@ (l4 :> i) @@ (l5 :> 0) : i \in 0..1, j \in {0, 2}}

\* Requests name an item and a bin that has it.
Shelf == {<<CabinetItems[l], CabinetBins[l]>> : l \in {l1, l2, l3, l4}}
SmallRequest ==
  {[item |-> s[1], bin |-> s[2], quantity |-> q] : s \in Shelf, q \in 1..2}
  \cup {[item |-> z, bin |-> b4, quantity |-> 1]}
SmallRequests == {<<r>> : r \in SmallRequest} \cup {<<r, s>> : r, s \in SmallRequest}
=============================================================================
