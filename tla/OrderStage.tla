------------------------------ MODULE OrderStage ------------------------------
(***************************************************************************)
(* What the pages of a customer and a merchant can tell of an order's       *)
(* workflow: the stage it has reached, and the status of its payment.       *)
(* Neither retries nor signals nor requests are left in it; it is what      *)
(* OrderSaga, which has them all, lets its surroundings rely on             *)
(* (ImplementsStage there), and the pages are modelled over it.             *)
(***************************************************************************)
EXTENDS Naturals

CONSTANT MaxOrders      \* bound: orders that are submitted

ASSUME StageAssumption == MaxOrders \in Nat

Orders == 1 .. MaxOrders       \* crypto.randomUUID(): a new one each time
NoOrder == 0

VARIABLES stage, payment

orderVars == <<stage, payment>>

\* "settling": the workflow moves the money and records its decision, or gave
\* up over it; "lapsing": it records that no confirmation came, or gave up.
Stages == {"none", "placed", "started", "confirmed", "authorized", "settling",
           "lapsing", "accepted", "cancelled", "expired"}
Payments == {"none", "AUTHORIZED", "CAPTURED", "VOIDED", "DECLINED"}
HeldPayments == {"AUTHORIZED", "CAPTURED", "VOIDED"}

StageTypeOK == stage \in [Orders -> Stages] /\ payment \in [Orders -> Payments]

StageInit ==
  stage = [o \in Orders |-> "none"] /\ payment = [o \in Orders |-> "none"]

StatusOf(st) == CASE st = "none" -> "none"
                  [] st = "accepted" -> "ACCEPTED"
                  [] st \in {"cancelled", "expired"} -> "CANCELLED"
                  [] OTHER -> "PLACED"

\* A workflow takes signals while it runs; one that settles may have closed.
Running(o) == stage[o] \in {"started", "confirmed", "authorized"}
Unstarted(o) == stage[o] \in {"none", "placed"}
Closing(o) == stage[o] \in {"settling", "accepted", "cancelled"}

Reach(o, st) == stage' = [stage EXCEPT ![o] = st] /\ UNCHANGED payment
Pay(o, status) == payment' = [payment EXCEPT ![o] = status] /\ UNCHANGED stage

\* OrdersService.placeOrder, once for an order id; the customer's signal.
PlaceOrder(o) == stage[o] = "none" /\ Reach(o, "placed")
ConfirmPayment(o) == stage[o] = "started" /\ Reach(o, "confirmed")

\* The consumer of OrderPlaced starts it; a hold that was answered; a failed
\* authorization, or the merchant's answer or none; and what it records.
WorkflowStep(o) ==
  \/ stage[o] = "placed" /\ Reach(o, "started")
  \/ stage[o] = "started" /\ Reach(o, "lapsing")
  \/ stage[o] = "confirmed" /\ payment[o] = "AUTHORIZED" /\ Reach(o, "authorized")
  \/ stage[o] \in {"confirmed", "authorized"} /\ Reach(o, "settling")
  \/ stage[o] = "settling" /\ payment[o] = "CAPTURED" /\ Reach(o, "accepted")
  \/ stage[o] = "settling" /\ Reach(o, "cancelled")
  \/ stage[o] = "lapsing" /\ Reach(o, "expired")

\* A request that the workflow no longer waits for may still be served: to
\* authorize after it went on without, to capture or void after its attempt.
\* (HoldUnasked does not wait for the confirmation.)
HoldUnasked(o) ==
  /\ stage[o] \in {"started", "confirmed", "settling", "cancelled"}
  /\ payment[o] = "none"
  /\ \E status \in {"AUTHORIZED", "DECLINED"} : Pay(o, status)

Hold(o) ==
  /\ stage[o] \in {"confirmed", "settling", "cancelled"} /\ payment[o] = "none"
  /\ \E status \in {"AUTHORIZED", "DECLINED"} : Pay(o, status)

Settle(o) ==
  /\ stage[o] \in {"settling", "cancelled"} /\ payment[o] \in HeldPayments
  /\ \E status \in {"CAPTURED", "VOIDED"} : Pay(o, status)

\* What happens to an order beside what the pages ask for.
BackEnd(o) == WorkflowStep(o) \/ Hold(o) \/ Settle(o)

StageNext == \E o \in Orders : PlaceOrder(o) \/ ConfirmPayment(o) \/ BackEnd(o)

StageSpec == StageInit /\ [][StageNext]_orderVars
=============================================================================
