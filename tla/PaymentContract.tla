-------------------------- MODULE PaymentContract --------------------------
(***************************************************************************)
(* What users are promised about money, with no database, no handlers and  *)
(* no faults: a payment decided by the provider stays decided, a debit is  *)
(* booked only for money the provider holds, a subscription is only ever   *)
(* on a plan version its owner has bought, and a renewal is only ever      *)
(* asked for such a version.  BillingService implements it.                *)
(***************************************************************************)
EXTENDS Integers

CONSTANTS Owners, PayIds, PlanVersions, Nothing

VARIABLES
  money,   \* what the provider was asked for, and its state
  debits,  \* debits booked per payment
  plan     \* the plan version each owner is subscribed to

vars == <<money, debits, plan>>

Payment ==
  [owner: Owners, plan: PlanVersions, kind: {"purchase", "renewal"},
   state: {"pending", "succeeded", "canceled"}]

Bought(o, v) ==
  \E p \in PayIds : money[p] = [owner |-> o, plan |-> v, kind |-> "purchase",
                                 state |-> "succeeded"]

Init ==
  /\ money = [p \in PayIds |-> Nothing]
  /\ debits = [p \in PayIds |-> 0]
  /\ plan = [o \in Owners |-> Nothing]

\* The provider is asked for a payment; it may decide at once.
Ask(p) ==
  /\ money[p] = Nothing
  /\ \E m \in Payment :
       /\ m.kind = "renewal" => Bought(m.owner, m.plan)
       /\ money' = [money EXCEPT ![p] = m]
  /\ UNCHANGED <<debits, plan>>

Decide(p) ==
  /\ money[p] # Nothing /\ money[p].state = "pending"
  /\ \E state \in {"succeeded", "canceled"} :
       money' = [money EXCEPT ![p] = [@ EXCEPT !.state = state]]
  /\ UNCHANGED <<debits, plan>>

Book(p) ==
  /\ money[p] # Nothing /\ money[p].state = "succeeded"
  /\ debits' = [debits EXCEPT ![p] = @ + 1]
  /\ UNCHANGED <<money, plan>>

Adopt(o) ==
  /\ \E v \in PlanVersions : Bought(o, v) /\ plan' = [plan EXCEPT ![o] = v]
  /\ UNCHANGED <<money, debits>>

Next ==
  \/ \E p \in PayIds : Ask(p) \/ Decide(p) \/ Book(p)
  \/ \E o \in Owners : Adopt(o)

Spec == Init /\ [][Next]_vars
=============================================================================
