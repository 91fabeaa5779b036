--------------------------- MODULE QuantityCheck ---------------------------
(***************************************************************************)
(* How apps/process-worker decides whether a step went as planned, once    *)
(* its bin is closed: the quantity of every loadcell of the step is        *)
(* compared with the quantity it had when the transaction was planned.     *)
(*                                                                         *)
(* An action is a planned item or an item to keep track of: its type, its  *)
(* loadcell, the requested quantity and the quantity when it was planned.  *)
(***************************************************************************)
EXTENDS Integers

Changed(a, now) == now[a.loadcell] - a.current

\* _validateChange returns null: an issue or a replenishment of exactly what was
\* requested, a return of at most that, and hands off everything else.
Conforms(a, change) ==
  CASE a.type = "ISSUE" -> -change = a.request
    [] a.type = "RETURN" -> change \in 0..a.request
    [] a.type = "REPLENISH" -> change = a.request
    [] OTHER -> change = 0

\* One round of the loop of _calculateFinalStepResult leaves isValid as it is.
\* `found` are the loadcells of the bin that have an item.
Passes(a, found, now) ==
  /\ a.loadcell \in found
  /\ a.type # "KEEP_TRACK" => Changed(a, now) # 0
  /\ Conforms(a, Changed(a, now))

\* isValid of the result.
IsValid(actions, found, now) == \A a \in actions : Passes(a, found, now)
=============================================================================
