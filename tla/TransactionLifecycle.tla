----------------------- MODULE TransactionLifecycle -----------------------
(***************************************************************************)
(* What the process worker promises about a transaction: its steps are     *)
(* taken in the order of the plan, one at a time; each is settled exactly  *)
(* once, credited or skipped by the operator, before the next one is       *)
(* entered; and an outcome is given once, for good, when the last step is  *)
(* settled or when the operator ends the transaction.  Nothing is promised *)
(* about a transaction once it was upset; the promise to the others stands.*)
(***************************************************************************)
EXTENDS Naturals

CONSTANTS
  Txs,     \* transactions
  Steps,   \* Steps[t]: how many steps the plan of t has
  MaxStep  \* an upper bound of Steps

VARIABLES
  at,      \* the step each transaction is at, 0 before it is created
  verdict, \* how each step was settled
  outcome  \* how each transaction ended

lifecycleVars == <<at, verdict, outcome>>

LifecycleInit ==
  /\ at = [t \in Txs |-> 0]
  /\ verdict = [t \in Txs |-> [s \in 0..MaxStep |-> "none"]]
  /\ outcome = [t \in Txs |-> "running"]

Create(t) ==
  /\ at[t] = 0 /\ outcome[t] = "running"
  /\ at' = [at EXCEPT ![t] = 1]
  /\ UNCHANGED <<verdict, outcome>>

Settle(t, how) ==
  /\ at[t] # 0 /\ outcome[t] = "running"
  /\ verdict[t][at[t]] = "none"
  /\ verdict' = [verdict EXCEPT ![t][at[t]] = how]
  /\ UNCHANGED <<at, outcome>>

Enter(t) ==
  /\ at[t] # 0 /\ outcome[t] = "running"
  /\ verdict[t][at[t]] # "none" /\ at[t] < Steps[t]
  /\ at' = [at EXCEPT ![t] = @ + 1]
  /\ UNCHANGED <<verdict, outcome>>

\* The outcome tells how the last step was settled.
Finish(t) ==
  /\ at[t] = Steps[t] /\ outcome[t] = "running"
  /\ verdict[t][at[t]] # "none"
  /\ outcome' = [outcome EXCEPT ![t] = IF verdict[t][at[t]] = "credited"
                                       THEN "COMPLETED" ELSE "COMPLETED_WITH_ERROR"]
  /\ UNCHANGED <<at, verdict>>

\* The operator ends a transaction whose current step failed.
Abandon(t) ==
  /\ at[t] # 0 /\ outcome[t] = "running"
  /\ verdict[t][at[t]] = "none"
  /\ outcome' = [outcome EXCEPT ![t] = "COMPLETED_WITH_ERROR"]
  /\ UNCHANGED <<at, verdict>>

\* Two polls of its lock overlap, or the operator forces it unasked.
Upset(t) ==
  /\ at' = [at EXCEPT ![t] = 0]
  /\ verdict' = [verdict EXCEPT ![t] = [s \in 0..MaxStep |-> "none"]]
  /\ outcome' = [outcome EXCEPT ![t] = "upset"]

LifecycleNext ==
  \E t \in Txs : \/ Upset(t) \/ Create(t) \/ Enter(t) \/ Finish(t) \/ Abandon(t)
                \/ \E how \in {"credited", "skipped"} : Settle(t, how)

Spec == LifecycleInit /\ [][LifecycleNext]_lifecycleVars
=============================================================================
