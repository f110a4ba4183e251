----------------------------- MODULE OrderSaga -----------------------------
(***************************************************************************)
(* orderLifecycleWorkflow (apps/saga-worker/src/workflows.ts): from the    *)
(* placement of an order to its terminal event, across the payments        *)
(* service and the order's event stream, with the customer's and the       *)
(* merchant's signals coming in.  It composes Payments and                 *)
(* OrderEventStore: an attempt of an activity is a request of the one or a *)
(* writer of the other.                                                    *)
(*                                                                         *)
(* The workflow itself survives crashes (Temporal replays its history);    *)
(* its activities do not.  An attempt ends for the workflow when its       *)
(* answer arrives, or without one: start-to-close timeout, a worker that   *)
(* crashed, a network error, a 5xx or a ConcurrencyError.  Then it is      *)
(* retried up to MaxAttempts times, while whatever the lost attempt        *)
(* started may still be running, and may still write.                      *)
(*                                                                         *)
(* One order is enough: workflows of different orders share no row, no     *)
(* stream and no signal here (they do share drivers: see Dispatch).        *)
(***************************************************************************)
EXTENDS OrderEventStore, Payments

CONSTANT PlaceIds      \* the place-order requests a client may send

ASSUME PlaceAssumption == PlaceIds \subseteq Attempts

VARIABLES
  totalAmount,         \* the order's total, an argument of the workflow
  at,                  \* the point the workflow has reached
  attempt,             \* the attempt it waits for, 0 outside an activity
  confirmed,           \* confirmPayment signal received
  approved,            \* last merchantApproval signal, "unset" before one
  checked,             \* merchant requests past the check, not yet signalled
  cancelReason,        \* the reason it will record, once it has one
  result               \* what it returned; FAILED if an activity failed it

signalVars == <<confirmed, approved, checked>>
outcomeVars == <<cancelReason, result>>
vars == <<storeVars, payVars, totalAmount, at, attempt, signalVars, outcomeVars>>

PaymentStages == {"authorize", "capture", "voidAfterCapture", "void"}
RecordStages == {"accept", "cancel"}
ActivityStages == PaymentStages \cup RecordStages
Stages == ActivityStages
  \cup {"notStarted", "awaitConfirm", "awaitApproval", "dispatch", "closed"}

Results ==
  {"DELIVERED", "DISPATCH_FAILED", "CANCELLED_SLA", "CANCELLED_DECLINED",
   "CANCELLED_PAYMENT_FAILED", "CANCELLED_PAYMENT_TIMEOUT", "FAILED"}

TypeOK ==
  /\ StoreTypeOK /\ PaymentsTypeOK
  /\ totalAmount \in Amounts
  /\ at \in Stages /\ attempt \in 0 .. MaxAttempts
  /\ confirmed \in BOOLEAN
  /\ approved \in {"unset", "yes", "no"} /\ checked \subseteq {"yes", "no"}
  /\ cancelReason \in ORDER_CANCEL_REASONS \cup {"none"}
  /\ result \in Results \cup {"none"}

Init ==
  /\ StoreInit /\ PaymentsInit
  /\ totalAmount \in Amounts
  /\ at = "notStarted" /\ attempt = 0
  /\ confirmed = FALSE /\ approved = "unset" /\ checked = {}
  /\ cancelReason = "none" /\ result = "none"

-----------------------------------------------------------------------------
(* Activities: their attempts, and the answers the workflow sees.          *)

OpOf(stage) == IF stage = "voidAfterCapture" THEN "void" ELSE stage

StartAttempt(stage, n) ==
  IF stage \in PaymentStages
    THEN SendRequest(<<OpOf(stage), n>>) /\ UNCHANGED storeVars
    ELSE StartWriter(<<stage, n>>) /\ UNCHANGED payVars

Schedule(stage) ==
  /\ at' = stage /\ attempt' = 1
  /\ StartAttempt(stage, 1)

\* What the attempt waited for has answered by now, if anything.
Answered ==
  IF at \in PaymentStages THEN request[<<OpOf(at), attempt>>]
                          ELSE writer[<<at, attempt>>].step

\* The attempt is lost, whatever it did or is still going to do: try again.
RetryActivity ==
  /\ at \in ActivityStages /\ attempt < MaxAttempts
  /\ attempt' = attempt + 1
  /\ StartAttempt(at, attempt + 1)
  /\ UNCHANGED <<totalAmount, at, signalVars, outcomeVars>>

\* The activity fails: a 4xx, which is not retried, or the last attempt.
\* (RejectedOnly leaves out the bound on attempts.)
RejectedOnly ==
  /\ at \in ActivityStages
  /\ Answered = "rejected"

ActivityFails ==
  /\ at \in ActivityStages
  /\ Answered = "rejected" \/ attempt = MaxAttempts

Close(r) ==
  /\ at' = "closed" /\ attempt' = 0 /\ result' = r

-----------------------------------------------------------------------------
(* The workflow, from one await to the next.                               *)

\* The Kafka consumer starts one workflow per OrderPlaced; a redelivered
\* event finds the workflow id used and is dropped (REJECT_DUPLICATE).
StartWorkflow ==
  /\ at = "notStarted" /\ events # <<>>
  /\ at' = "awaitConfirm"
  /\ UNCHANGED <<storeVars, payVars, totalAmount, attempt, signalVars, outcomeVars>>

\* Record the cancellation, then return.
CancelOrder(reason) ==
  /\ cancelReason' = reason
  /\ Schedule("cancel")
  /\ UNCHANGED <<totalAmount, signalVars, result>>

\* (TimeoutAnyway is a timer that does not look at the signal.)
TimeoutAnyway == at = "awaitConfirm" /\ CancelOrder("PAYMENT_TIMEOUT")
ConfirmTimeout ==
  /\ at = "awaitConfirm" /\ ~confirmed
  /\ CancelOrder("PAYMENT_TIMEOUT")

Authorize ==
  /\ at = "awaitConfirm" /\ confirmed
  /\ Schedule("authorize")
  /\ UNCHANGED <<totalAmount, signalVars, outcomeVars>>

Authorized ==
  /\ at = "authorize" /\ Answered = "authorized"
  /\ at' = "awaitApproval" /\ attempt' = 0
  /\ UNCHANGED <<storeVars, payVars, totalAmount, signalVars, outcomeVars>>

\* Declined, or no usable answer in MaxAttempts: cancel without a void.
AuthorizeFailed ==
  /\ at = "authorize" /\ (Answered = "declined" \/ ActivityFails)
  /\ CancelOrder("PAYMENT_FAILED")

Capture ==
  /\ at = "awaitApproval" /\ approved = "yes"
  /\ Schedule("capture")
  /\ UNCHANGED <<totalAmount, signalVars, outcomeVars>>

VoidHold(reason) ==
  /\ cancelReason' = reason
  /\ Schedule("void")
  /\ UNCHANGED <<totalAmount, signalVars, result>>

Declined == at = "awaitApproval" /\ approved = "no" /\ VoidHold("DECLINED")
SlaBreach == at = "awaitApproval" /\ approved = "unset" /\ VoidHold("SLA_BREACH")

Captured ==
  /\ at = "capture" /\ Answered = "done"
  /\ Schedule("accept")
  /\ UNCHANGED <<totalAmount, signalVars, outcomeVars>>

\* The catch: void best-effort, then reject the order whatever came of it.
CaptureFailed ==
  /\ at = "capture" /\ ActivityFails
  /\ Schedule("voidAfterCapture")
  /\ UNCHANGED <<totalAmount, signalVars, outcomeVars>>

VoidedAfterCapture ==
  /\ at = "voidAfterCapture" /\ (Answered = "done" \/ ActivityFails)
  /\ CancelOrder("PAYMENT_FAILED")

\* (VoidNotAwaited records the cancellation without waiting for the void.)
VoidNotAwaited == at = "void" /\ CancelOrder(cancelReason)
Voided == at = "void" /\ Answered = "done" /\ CancelOrder(cancelReason)

\* The dispatch child workflow starts; Dispatch is its model.
\* (AcceptNotAwaited starts it before the acceptance is recorded.)
AcceptNotAwaited ==
  /\ at = "accept" /\ at' = "dispatch" /\ attempt' = 0
  /\ UNCHANGED <<storeVars, payVars, totalAmount, signalVars, outcomeVars>>

Accepted ==
  /\ at = "accept" /\ Answered = "done"
  /\ at' = "dispatch" /\ attempt' = 0
  /\ UNCHANGED <<storeVars, payVars, totalAmount, signalVars, outcomeVars>>

DispatchEnds ==
  /\ at = "dispatch"
  /\ Close("DELIVERED") \/ Close("DISPATCH_FAILED")
  /\ UNCHANGED <<storeVars, payVars, totalAmount, signalVars, cancelReason>>

ResultOf(reason) ==
  CASE reason = "SLA_BREACH" -> "CANCELLED_SLA"
    [] reason = "DECLINED" -> "CANCELLED_DECLINED"
    [] reason = "PAYMENT_FAILED" -> "CANCELLED_PAYMENT_FAILED"
    [] reason = "PAYMENT_TIMEOUT" -> "CANCELLED_PAYMENT_TIMEOUT"

Cancelled ==
  /\ at = "cancel" /\ Answered = "done"
  /\ Close(ResultOf(cancelReason))
  /\ UNCHANGED <<storeVars, payVars, totalAmount, signalVars, cancelReason>>

\* An activity nobody catches fails the workflow.
WorkflowFails ==
  /\ at \in {"void", "accept", "cancel"} /\ ActivityFails
  /\ Close("FAILED")
  /\ UNCHANGED <<storeVars, payVars, totalAmount, signalVars, cancelReason>>

Workflow ==
  \/ StartWorkflow \/ ConfirmTimeout \/ Authorize \/ Authorized \/ AuthorizeFailed
  \/ Capture \/ Declined \/ SlaBreach \/ Captured \/ CaptureFailed
  \/ VoidedAfterCapture \/ Voided \/ Accepted \/ DispatchEnds \/ Cancelled
  \/ WorkflowFails \/ RetryActivity

-----------------------------------------------------------------------------
(* The world around it.                                                    *)

PlaceOrder ==
  /\ \E n \in PlaceIds : StartWriter(<<"place", n>>)
  /\ UNCHANGED <<payVars, totalAmount, at, attempt, signalVars, outcomeVars>>

\* A place request or an attempt of a recording activity takes a step.
WriterStep ==
  /\ \E w \in Writers : Load(w) \/ AppendEvent(w, cancelReason)
  /\ UNCHANGED <<payVars, totalAmount, at, attempt, signalVars, outcomeVars>>

PaymentStep ==
  /\ \E r \in Requests : HandleRequest(r, totalAmount)
  /\ UNCHANGED <<storeVars, totalAmount, at, attempt, signalVars, outcomeVars>>

Running == at \notin {"notStarted", "closed"}

ConfirmPayment ==
  /\ Running /\ confirmed' = TRUE
  /\ UNCHANGED <<storeVars, payVars, totalAmount, at, attempt, approved, checked,
                 outcomeVars>>

\* accept and decline: the payment is looked up first, the workflow signalled
\* after; one that has closed answers 404.  (MerchantUnchecked skips the look.)
MerchantUnchecked(value) ==
  /\ Running /\ value \notin checked
  /\ checked' = checked \cup {value}
  /\ UNCHANGED <<storeVars, payVars, totalAmount, at, attempt, confirmed, approved,
                 outcomeVars>>

MerchantCheck(value) ==
  /\ payment = "AUTHORIZED" /\ value \notin checked
  /\ checked' = checked \cup {value}
  /\ UNCHANGED <<storeVars, payVars, totalAmount, at, attempt, confirmed, approved,
                 outcomeVars>>

MerchantSignal(value) ==
  /\ value \in checked
  /\ checked' = checked \ {value}
  /\ approved' = IF Running THEN value ELSE approved
  /\ UNCHANGED <<storeVars, payVars, totalAmount, at, attempt, confirmed, outcomeVars>>

Environment ==
  \/ PlaceOrder \/ WriterStep \/ PaymentStep \/ ConfirmPayment
  \/ \E value \in {"yes", "no"} : MerchantCheck(value) \/ MerchantSignal(value)

Next == Workflow \/ Environment

Spec == Init /\ [][Next]_vars

\* Temporal delivers timers and timeouts and keeps running the workflow; the
\* consumer starts it.  Nothing is assumed of people, of the payments service
\* or of the database: an attempt that never answers times out.
FairSpec == Spec /\ WF_vars(Workflow)

-----------------------------------------------------------------------------
(* Properties.                                                             *)

Order == loadAggregate(events).state

\* An accepted order has been paid for, and stays so: no request of an
\* abandoned attempt can take the money back after OrderAccepted.
AcceptedIsCaptured == Order.status = "ACCEPTED" => payment = "CAPTURED"

\* The compensation came before the cancellation, and holds from then on: an
\* order cancelled because the merchant declined or did not answer has its
\* hold voided, one that was never confirmed never had one.
CancelAgreesWithMoney ==
  Order.status = "CANCELLED" =>
    /\ Order.cancelReason \in {"DECLINED", "SLA_BREACH"} => payment = "VOIDED"
    /\ Order.cancelReason = "PAYMENT_TIMEOUT" => payment = "NONE"

\* Once the workflow has decided to give the money back, no capture happens,
\* whichever signals arrive late and however the workflow ends.
DeclinedIsNeverCharged ==
  cancelReason \in {"DECLINED", "SLA_BREACH", "PAYMENT_TIMEOUT"} => payment # "CAPTURED"

\* However an order ends, and however late an attempt of a capture or of a void
\* is served, its money agrees with its end, but for the PAYMENT_FAILED of a
\* capture that seemed to fail (CaptureOnlyOnAccept, below).
MoneyAgrees == AcceptedIsCaptured /\ CancelAgreesWithMoney /\ DeclinedIsNeverCharged

\* What a workflow returns is what its order's stream says: recording is a
\* no-op on an order that is settled already, and that never turns an
\* acceptance into a reported cancellation or the reverse.
ResultMatchesOrder ==
  /\ result \in {"DELIVERED", "DISPATCH_FAILED"} => Order.status = "ACCEPTED"
  /\ result \in Results \ {"DELIVERED", "DISPATCH_FAILED", "FAILED"} =>
       Order.status = "CANCELLED" /\ result = ResultOf(Order.cancelReason)

\* A merchant's answer reaches the workflow only when a hold exists, although
\* the check and the signal are two calls (the 409 of accept and decline).
MerchantGate == approved # "unset" => payment \in Held

\* Every order that is placed has a workflow that ends, whatever people do
\* and even if the payments service and the database never answer.
WorkflowEnds == (events # <<>>) ~> (at = "closed")

\* The workflow and its services do nothing to the order and its money that
\* the abstract lifecycle does not allow.
Lifecycle == INSTANCE OrderLifecycle WITH
  Reasons <- ORDER_CANCEL_REASONS,
  status <- Order.status, reason <- Order.cancelReason, money <- payment

ImplementsLifecycle == Lifecycle!LifecycleSpec

\* The stage its pages can tell of an order, before anything was recorded of its
\* end and after.
StageUndecided ==
  CASE at = "notStarted" -> "placed"
    [] at = "awaitConfirm" -> IF confirmed THEN "confirmed" ELSE "started"
    [] at = "authorize" -> "confirmed"
    [] at = "awaitApproval" -> "authorized"
    [] OTHER -> IF cancelReason = "PAYMENT_TIMEOUT" THEN "lapsing" ELSE "settling"

StageReached ==
  CASE Order.status = "NONE" -> "none"
    [] Order.status = "PLACED" -> StageUndecided
    [] Order.status = "ACCEPTED" -> "accepted"
    [] Order.status = "CANCELLED" ->
         IF Order.cancelReason = "PAYMENT_TIMEOUT" THEN "expired" ELSE "cancelled"

Paid == IF payment = "NONE" THEN "none" ELSE payment

\* The pages of customers and merchants, which are modelled over OrderStage, see
\* of every order what OrderStage allows: no money is held before the customer
\* confirmed, none moves before the workflow has decided, and a stage is never
\* gone back on.
Stage == INSTANCE OrderStage WITH
  MaxOrders <- 1,
  stage <- [o \in {1} |-> StageReached],
  payment <- [o \in {1} |-> Paid]

ImplementsStage == Stage!StageSpec

\* The composition uses its components as their own specifications say, so
\* what holds of them alone holds of them here (proved in OrderSagaProofs).
UsesStore == StoreSpec
UsesPayments == PaymentsSpec

-----------------------------------------------------------------------------
(* What a comment or a design document says, and the code does not do.     *)

\* "capture happens only on accept, which is terminal" (3c design).
CaptureOnlyOnAccept == Order.status = "CANCELLED" => payment # "CAPTURED"

\* An authorize that failed leaves "nothing to revert beyond recording the
\* cancel" (the comment above the authorize step).
NothingToRevert ==
  result = "CANCELLED_PAYMENT_FAILED" /\ request[<<"capture", 1>>] = "idle"
    => payment # "AUTHORIZED"
=============================================================================
