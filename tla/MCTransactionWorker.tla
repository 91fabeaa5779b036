------------------------ MODULE MCTransactionWorker ------------------------
(***************************************************************************)
(* Small instances of TransactionWorker for TLC.                           *)
(***************************************************************************)
EXTENDS TransactionWorker, TLC

CONSTANTS t1, t2, b1, b2, b3, h1, h2, none

\* One transaction of two or of three steps.
PlanOfTwo == (t1 :> <<b1, b2>>)
PlanOfThree == (t1 :> <<b1, b2, b3>>)
\* Two transactions that share a bin.
PlansShared == (t1 :> <<b1, b2>>) @@ (t2 :> <<b2>>)

NoneTracked == [t \in Txs |-> {}]
SecondTracked == [t \in Txs |-> {2}]
SharedTracked == (t1 :> {}) @@ (t2 :> {1})

Symmetry == Permutations(Handlers)
=============================================================================
