--------------------------- MODULE OrderSagaProofs ---------------------------
(***************************************************************************)
(* Proofs about OrderSaga for any number of attempts and any amounts.      *)
(*                                                                         *)
(* First: the workflow uses the event store and the payments service as    *)
(* their own specifications allow (UsesComponents), so that what           *)
(* ServicesProofs shows of each alone holds in the composition.  Then, on  *)
(* top of their invariants, the promise about the customer's money: an     *)
(* accepted order has been paid for (MoneyInv), and the compensations and  *)
(* the stream agree (CompInv).  From both: the saga implements the         *)
(* abstract OrderLifecycle, and with what holds while people are awaited   *)
(* (HoldInv) also OrderStage, over which the pages are modelled: every     *)
(* step of the workflow, its services and the people around it is one      *)
(* step of each, or none.  Last: what a workflow returns is what the       *)
(* stream says (ResultInv).                                                *)
(***************************************************************************)
EXTENDS OrderSaga, ServicesProofs

\* What the workflow hands to its services is in their domains.
Links ==
  /\ totalAmount \in Amounts
  /\ at \in Stages /\ attempt \in 0 .. MaxAttempts
  /\ cancelReason \in ORDER_CANCEL_REASONS \cup {"none"}
  /\ at \in {"void", "cancel"} => cancelReason # "none"
  /\ \A n \in Attempts : writer[<<"cancel", n>>].step # "idle" => cancelReason # "none"

SagaInv == StoreInv /\ PayInv /\ Links

-----------------------------------------------------------------------------
(* The composition refines its components.                                 *)

\* An attempt that starts is one request of one of the two services.
LEMMA AttemptMaps ==
  ASSUME NEW stage \in ActivityStages, NEW n \in Attempts, StartAttempt(stage, n)
  PROVE  /\ [StoreNext]_storeVars /\ [PaymentsNext]_payVars
         /\ stage \in PaymentStages =>
              SendRequest(<<OpOf(stage), n>>) /\ <<OpOf(stage), n>> \in Requests
                /\ UNCHANGED storeVars
         /\ stage \in RecordStages =>
              StartWriter(<<stage, n>>) /\ <<stage, n>> \in Writers /\ UNCHANGED payVars
<1>1. CASE stage \in PaymentStages
  <2>1. OpOf(stage) \in PaymentOps
    BY <1>1 DEF OpOf, PaymentStages, PaymentOps
  <2>2. <<OpOf(stage), n>> \in Requests
    BY <2>1 DEF Requests
  <2>3. SendRequest(<<OpOf(stage), n>>) /\ UNCHANGED storeVars
    BY <1>1 DEF StartAttempt
  <2>4. stage \notin RecordStages
    BY <1>1 DEF PaymentStages, RecordStages
  <2> QED BY <2>2, <2>3, <2>4 DEF PaymentsNext
<1>2. CASE stage \notin PaymentStages
  <2>1. stage \in RecordStages
    BY <1>2 DEF ActivityStages
  <2>2. <<stage, n>> \in Writers
    BY <2>1 DEF RecordStages, Writers, WriterOps
  <2>3. StartWriter(<<stage, n>>) /\ UNCHANGED payVars
    BY <1>2 DEF StartAttempt
  <2> QED BY <1>2, <2>2, <2>3 DEF StoreNext
<1> QED BY <1>1, <1>2

\* An attempt of the cancel activity appends with the reason in hand; for the
\* other writers the reason is no part of the event.
LEMMA AppendMaps ==
  ASSUME Links, NEW w \in Writers, AppendEvent(w, cancelReason)
  PROVE  \E r \in ORDER_CANCEL_REASONS : AppendEvent(w, r)
<1>1. CASE cancelReason # "none"
  BY <1>1 DEF Links
<1>2. CASE cancelReason = "none"
  <2>1. w[1] # "cancel"
    <3>1. SUFFICES ASSUME w[1] = "cancel" PROVE FALSE
      OBVIOUS
    <3>2. PICK n \in Attempts : w = <<"cancel", n>>
      BY <3>1 DEF Writers
    <3>3. writer[w].step = "loaded"
      BY DEF AppendEvent
    <3> QED BY <1>2, <3>2, <3>3 DEF Links
  <2>2. EventOf(w, cancelReason) = EventOf(w, "DECLINED")
    BY <2>1 DEF EventOf
  <2>3. AppendEvent(w, "DECLINED")
    BY <2>2 DEF AppendEvent
  <2> QED BY <2>3 DEF ORDER_CANCEL_REASONS
<1> QED BY <1>1, <1>2

\* The workflow starts attempt n of a stage, and is at that stage.
Attempting(stage, n) ==
  /\ stage \in ActivityStages /\ n \in Attempts
  /\ at' = stage /\ attempt' = n /\ StartAttempt(stage, n)

\* What a step of the saga is to its services: the start of an attempt of
\* stage at', a step of one of them, or nothing.
LEMMA StepKinds ==
  ASSUME Links, Next
  PROVE  \/ \E stage \in ActivityStages, n \in Attempts : Attempting(stage, n)
         \/ PlaceOrder \/ WriterStep \/ PaymentStep
         \/ UNCHANGED <<storeVars, payVars>>
<1>1. MaxAttempts \in Nat \ {0} /\ 1 \in Attempts
  BY AttemptsAssumption DEF Attempts
<1>2. ASSUME NEW stage \in ActivityStages, Schedule(stage)
      PROVE  Attempting(stage, 1)
  BY <1>1, <1>2 DEF Schedule, Attempting
<1>3. ASSUME RetryActivity
      PROVE  Attempting(at, attempt + 1)
  BY <1>1, <1>3 DEF RetryActivity, Attempting, Links, Attempts
<1>4. {"cancel", "authorize", "capture", "void", "accept", "voidAfterCapture"}
        \subseteq ActivityStages
  BY DEF ActivityStages, PaymentStages, RecordStages
<1>5. ASSUME ConfirmTimeout \/ Authorize \/ AuthorizeFailed \/ Capture \/ Declined
               \/ SlaBreach \/ Captured \/ CaptureFailed \/ VoidedAfterCapture \/ Voided
      PROVE  \E stage \in ActivityStages : Schedule(stage)
  BY <1>4, <1>5 DEF ConfirmTimeout, Authorize, AuthorizeFailed, Capture, Declined,
     SlaBreach, Captured, CaptureFailed, VoidedAfterCapture, Voided, CancelOrder,
     VoidHold
<1>6. ASSUME StartWorkflow \/ Authorized \/ Accepted \/ DispatchEnds \/ Cancelled
               \/ WorkflowFails \/ ConfirmPayment
               \/ (\E value \in {"yes", "no"} : MerchantCheck(value) \/ MerchantSignal(value))
      PROVE  UNCHANGED <<storeVars, payVars>>
  BY <1>6 DEF StartWorkflow, Authorized, Accepted, DispatchEnds, Cancelled,
     WorkflowFails, ConfirmPayment, MerchantCheck, MerchantSignal
<1>7. ASSUME RetryActivity
      PROVE  at \in ActivityStages /\ attempt + 1 \in Attempts
  BY <1>1, <1>7 DEF RetryActivity, Links, Attempts
<1> QED BY <1>1, <1>2, <1>3, <1>5, <1>6, <1>7 DEF Next, Workflow, Environment

\* Every step of the saga is a step, or none, of each of its services.
LEMMA StepMaps ==
  ASSUME Links, [Next]_vars
  PROVE  [StoreNext]_storeVars /\ [PaymentsNext]_payVars
<1>1. CASE UNCHANGED vars
  BY <1>1 DEF vars
<1>2. ASSUME NEW stage \in ActivityStages, NEW n \in Attempts, Attempting(stage, n)
      PROVE  [StoreNext]_storeVars /\ [PaymentsNext]_payVars
  BY <1>2, AttemptMaps DEF Attempting
<1>3. CASE PlaceOrder
  <2>1. \A n \in PlaceIds : <<"place", n>> \in Writers
    BY PlaceAssumption DEF Writers, WriterOps
  <2> QED BY <1>3, <2>1 DEF PlaceOrder, StoreNext
<1>4. CASE WriterStep
  BY <1>4, AppendMaps DEF WriterStep, StoreNext
<1>5. CASE PaymentStep
  BY <1>5 DEF PaymentStep, PaymentsNext, Links
<1> QED BY <1>1, <1>2, <1>3, <1>4, <1>5, StepKinds

\* The start of an attempt wakes the one writer or request it names.
LEMMA Wakes ==
  ASSUME SagaInv, NEW stage \in ActivityStages, NEW n \in Attempts,
         Attempting(stage, n)
  PROVE  /\ \A w \in Writers : writer'[w] # writer[w] => w = <<stage, n>> /\ stage \in RecordStages
         /\ \A r \in Requests : request'[r] # request[r] =>
              r = <<OpOf(stage), n>> /\ stage \in PaymentStages /\ request'[r] = "sent"
         /\ UNCHANGED <<events, payment>>
         /\ stage \in RecordStages => writer'[<<stage, n>>].step = "started"
         /\ stage \in PaymentStages => request'[<<OpOf(stage), n>>] = "sent"
<1>1. /\ writer \in [Writers -> [step : WriterSteps, version : Nat]]
      /\ request \in [Requests -> RequestSteps]
  BY DEF SagaInv, StoreInv, StoreTypeOK, PayInv, PaymentsTypeOK
<1>2. CASE stage \in PaymentStages
  <2>1. stage \notin RecordStages
    BY <1>2 DEF PaymentStages, RecordStages
  <2>2. /\ SendRequest(<<OpOf(stage), n>>) /\ <<OpOf(stage), n>> \in Requests
        /\ UNCHANGED storeVars
    BY <1>2, AttemptMaps DEF Attempting
  <2> QED BY <1>1, <1>2, <2>1, <2>2 DEF SendRequest, storeVars
<1>3. CASE stage \in RecordStages
  <2>1. stage \notin PaymentStages
    BY <1>3 DEF PaymentStages, RecordStages
  <2>2. /\ StartWriter(<<stage, n>>) /\ <<stage, n>> \in Writers
        /\ UNCHANGED payVars
    BY <1>3, AttemptMaps DEF Attempting
  <2> QED BY <1>1, <1>3, <2>1, <2>2 DEF StartWriter, payVars
<1> QED BY <1>2, <1>3 DEF ActivityStages

\* Placing, and the steps of writers: a writer that changes is a place request
\* or was under way.
LEMMA WriterMoves ==
  ASSUME SagaInv, PlaceOrder \/ WriterStep
  PROVE  /\ \A w \in Writers : writer'[w] # writer[w] =>
              w[1] = "place" \/ writer[w].step # "idle"
         /\ UNCHANGED <<payVars, totalAmount, at, attempt, cancelReason, result>>
<1>1. writer \in [Writers -> [step : WriterSteps, version : Nat]]
  BY DEF SagaInv, StoreInv, StoreTypeOK
<1>2. CASE PlaceOrder
  <2>1. PICK n \in PlaceIds : StartWriter(<<"place", n>>)
    BY <1>2 DEF PlaceOrder
  <2>2. \A w \in Writers : writer'[w] # writer[w] => w = <<"place", n>>
    BY <1>1, <2>1 DEF StartWriter
  <2> QED BY <1>2, <2>2 DEF PlaceOrder, outcomeVars
<1>3. CASE WriterStep
  <2>1. PICK v \in Writers : Load(v) \/ AppendEvent(v, cancelReason)
    BY <1>3 DEF WriterStep
  <2>2. writer[v].step # "idle" /\ \A w \in Writers : w # v => writer'[w] = writer[w]
    BY <1>1, <2>1 DEF Load, AppendEvent
  <2> QED BY <1>3, <2>2 DEF WriterStep, outcomeVars
<1> QED BY <1>2, <1>3

\* What each step does to the workflow's own variables: it cancels with a
\* reason in hand, and stays within its stages and attempts.
LEMMA CancelReasonStep ==
  ASSUME Links, Next
  PROVE  /\ totalAmount' = totalAmount
         /\ cancelReason' \in ORDER_CANCEL_REASONS \cup {"none"}
         /\ cancelReason # "none" => cancelReason' # "none"
         /\ at' \in {"void", "cancel"} => cancelReason' # "none"
         /\ at' \in Stages
         /\ attempt' \in 0 .. MaxAttempts
<1>1. MaxAttempts \in Nat \ {0} /\ 0 \in 0 .. MaxAttempts /\ 1 \in 0 .. MaxAttempts
  BY AttemptsAssumption
<1>2. CASE UNCHANGED <<totalAmount, at, attempt, cancelReason>>
  BY <1>2 DEF Links
<1>3. CASE RetryActivity
  <2>1. attempt + 1 \in 0 .. MaxAttempts
    BY <1>1, <1>3 DEF RetryActivity, Links
  <2> QED BY <1>3, <2>1 DEF RetryActivity, Links, outcomeVars
<1>4. CASE ConfirmTimeout \/ AuthorizeFailed \/ VoidedAfterCapture \/ Voided
             \/ Declined \/ SlaBreach
  BY <1>1, <1>4 DEF ConfirmTimeout, AuthorizeFailed, VoidedAfterCapture, Voided,
     Declined, SlaBreach, CancelOrder, VoidHold, Schedule, Links,
     ORDER_CANCEL_REASONS, Stages, ActivityStages, PaymentStages, RecordStages
<1>5. CASE StartWorkflow \/ Authorize \/ Authorized \/ Capture \/ Captured
             \/ CaptureFailed \/ Accepted \/ DispatchEnds \/ Cancelled \/ WorkflowFails
  BY <1>1, <1>5 DEF StartWorkflow, Authorize, Authorized, Capture, Captured,
     CaptureFailed, Accepted, DispatchEnds, Cancelled, WorkflowFails, Close,
     Schedule, Links, outcomeVars, Stages, ActivityStages, PaymentStages, RecordStages
<1>6. CASE Environment
  BY <1>2, <1>6 DEF Environment, PlaceOrder, WriterStep, PaymentStep, ConfirmPayment,
     MerchantCheck, MerchantSignal, outcomeVars
<1> QED BY <1>3, <1>4, <1>5, <1>6 DEF Next, Workflow

\* A step keeps what the services are handed in their domains: a cancel
\* writer starts only when the workflow has its reason.
LEMMA LinksStep == SagaInv /\ [Next]_vars => Links'
<1> SUFFICES ASSUME SagaInv, [Next]_vars PROVE Links'
  OBVIOUS
<1>1. CASE UNCHANGED vars
  BY <1>1 DEF vars, storeVars, outcomeVars, Links, SagaInv
<1>2. CASE Next
  <2>1. ASSUME NEW k \in Attempts, writer'[<<"cancel", k>>].step # "idle"
        PROVE  cancelReason' # "none"
    <3>1. <<"cancel", k>> \in Writers
      BY DEF Writers, WriterOps
    <3>2. CASE writer[<<"cancel", k>>].step # "idle"
      BY <1>2, <3>2, CancelReasonStep DEF SagaInv, Links
    <3>3. CASE writer[<<"cancel", k>>].step = "idle"
      <4>1. writer'[<<"cancel", k>>] # writer[<<"cancel", k>>]
        BY <2>1, <3>3
      <4>2. ~(PlaceOrder \/ WriterStep)
        BY <3>1, <3>3, <4>1, WriterMoves
      <4>3. ~(UNCHANGED <<storeVars, payVars>>) /\ ~PaymentStep
        BY <4>1 DEF storeVars, PaymentStep
      <4>4. PICK stage \in ActivityStages, n \in Attempts : Attempting(stage, n)
        BY <1>2, <4>2, <4>3, StepKinds DEF SagaInv
      <4>5. stage = "cancel" /\ at' = stage
        <5>1. \A w \in Writers : writer'[w] # writer[w] => w = <<stage, n>>
          BY <4>4, Wakes
        <5>2. <<"cancel", k>> = <<stage, n>>
          BY <3>1, <4>1, <5>1
        <5> QED BY <4>4, <5>2 DEF Attempting
      <4> QED BY <1>2, <4>5, CancelReasonStep DEF SagaInv
    <3> QED BY <3>2, <3>3
  <2> QED BY <1>2, <2>1, CancelReasonStep DEF SagaInv, Links
<1> QED BY <1>1, <1>2

\* The invariants of the three parts hold at the start.
LEMMA SagaInitInv == Init => SagaInv
<1>1. Init => StoreInv /\ PayInv
  BY StoreInitInv, PayInitInv DEF Init
<1>2. Init => Links
  <2>1. MaxAttempts \in Nat
    BY AttemptsAssumption
  <2> QED BY <2>1 DEF Init, StoreInit, Links, Stages, Writers, WriterOps
<1> QED BY <1>1, <1>2 DEF SagaInv

\* And every step keeps them: those of the services because the step is one
\* of theirs.
LEMMA SagaStep == SagaInv /\ [Next]_vars => SagaInv'
<1> SUFFICES ASSUME SagaInv, [Next]_vars PROVE SagaInv'
  OBVIOUS
<1>1. [StoreNext]_storeVars /\ [PaymentsNext]_payVars
  BY StepMaps DEF SagaInv
<1> QED BY <1>1, StoreStep, PayStep, LinksStep DEF SagaInv

\* The workflow, its retries and everything around it use the event store and
\* the payments service only as their own specifications say.
THEOREM UsesComponents == Spec => UsesStore /\ UsesPayments
<1>1. Init => StoreInit /\ PaymentsInit
  BY DEF Init
<1>2. SagaInv /\ [Next]_vars => [StoreNext]_storeVars /\ [PaymentsNext]_payVars
  BY StepMaps DEF SagaInv
<1> QED BY <1>1, <1>2, SagaInitInv, SagaStep, PTL
      DEF Spec, UsesStore, UsesPayments, StoreSpec, PaymentsSpec

-----------------------------------------------------------------------------
(* The order and the customer's money.                                     *)

Accepting == \E n \in Attempts : writer[<<"accept", n>>].step # "idle"
Capturing == \E n \in Attempts : request[<<"capture", n>>] # "idle"
Charged == \E n \in Attempts : request[<<"capture", n>>] = "done"
Voiding == \E n \in Attempts : request[<<"void", n>>] # "idle"

\* Where the workflow can still be once it has sent a capture, or a void.
AfterCapture == {"capture", "voidAfterCapture", "accept", "dispatch", "cancel", "closed"}
AfterVoid == {"voidAfterCapture", "void", "cancel", "closed"}
AfterAccept == {"accept", "dispatch", "closed"}

\* A recording of the acceptance is under way only after a capture that
\* answered and without any void; a capture only while no other reason to
\* cancel is held.
MoneyInv ==
  /\ at \in ActivityStages => attempt # 0
  /\ at \notin {"void", "cancel", "closed"} => cancelReason = "none"
  /\ Voiding => at \in AfterVoid
  /\ Capturing => at \in AfterCapture /\ cancelReason \in {"none", "PAYMENT_FAILED"}
  /\ payment = "CAPTURED" => Capturing
  /\ Charged /\ ~Voiding => payment = "CAPTURED"
  /\ Accepting => at \in AfterAccept
  /\ Accepting \/ at = "accept" => ~Voiding /\ payment = "CAPTURED"
  /\ \A i \in 1 .. Len(events) : events[i].type = "OrderAccepted" => Accepting

\* The attempts the definitions above name are requests and writers.
LEMMA NamedAttempts ==
  ASSUME NEW n \in Attempts
  PROVE  /\ <<"capture", n>> \in Requests /\ <<"void", n>> \in Requests
         /\ <<"accept", n>> \in Writers /\ <<"cancel", n>> \in Writers
BY DEF Requests, PaymentOps, Writers, WriterOps

\* What the payments service may do to the row: only a void takes a captured
\* payment back, only a capture captures, and it answers once it has.
LEMMA PaymentMoves ==
  ASSUME PayInv, [PaymentsNext]_payVars
  PROVE  /\ Voiding => Voiding'
         /\ Capturing => Capturing'
         /\ payment = "CAPTURED" /\ payment' # "CAPTURED" => Voiding
         /\ payment' = "CAPTURED" /\ payment # "CAPTURED" => Capturing
         /\ Charged' /\ ~Charged => payment' = "CAPTURED"
<1>1. request \in [Requests -> RequestSteps]
  BY DEF PayInv, PaymentsTypeOK
<1>2. CASE UNCHANGED payVars
  BY <1>2 DEF payVars, Voiding, Capturing, Charged
<1>3. ASSUME NEW r \in Requests, SendRequest(r)
      PROVE  /\ \A q \in Requests : request[q] # "idle" => request'[q] # "idle"
             /\ \A q \in Requests : request'[q] = "done" => request[q] = "done"
             /\ payment' = payment
  BY <1>1, <1>3 DEF SendRequest
<1>4. ASSUME NEW r \in Requests, NEW amount \in Amounts, HandleRequest(r, amount)
      PROVE  /\ \A q \in Requests : request[q] # "idle" => request'[q] # "idle"
             /\ \A q \in Requests : request'[q] = "done" /\ request[q] # "done" =>
                  q = r /\ (q[1] = "capture" => payment' = "CAPTURED")
             /\ payment' = payment \/ request[r] = "writing"
             /\ payment = "CAPTURED" /\ payment' # "CAPTURED" => r[1] = "void"
             /\ payment' = "CAPTURED" /\ payment # "CAPTURED" => r[1] = "capture"
  <2>1. CASE AuthorizeRead(r)
    BY <1>1, <2>1 DEF AuthorizeRead, Answer, DecisionOf
  <2>2. CASE AuthorizeCreate(r, amount)
    BY <1>1, <2>2 DEF AuthorizeCreate, Answer, DecisionOf, decideAuthorize
  <2>3. CASE TransitionRead(r)
    BY <1>1, <2>3 DEF TransitionRead, Answer, TargetOf
  <2>4. CASE TransitionWrite(r)
    BY <1>1, <2>4 DEF TransitionWrite, Answer, TargetOf
  <2> QED BY <1>4, <2>1, <2>2, <2>3, <2>4 DEF HandleRequest
<1>5. ASSUME NEW r \in Requests, SendRequest(r)
      PROVE  /\ Voiding => Voiding'
             /\ Capturing => Capturing'
             /\ payment = "CAPTURED" /\ payment' # "CAPTURED" => Voiding
             /\ payment' = "CAPTURED" /\ payment # "CAPTURED" => Capturing
             /\ Charged' /\ ~Charged => payment' = "CAPTURED"
  BY <1>3, <1>5, NamedAttempts DEF Voiding, Capturing, Charged
<1>6. ASSUME NEW r \in Requests, NEW amount \in Amounts, HandleRequest(r, amount)
      PROVE  /\ Voiding => Voiding'
             /\ Capturing => Capturing'
             /\ payment = "CAPTURED" /\ payment' # "CAPTURED" => Voiding
             /\ payment' = "CAPTURED" /\ payment # "CAPTURED" => Capturing
             /\ Charged' /\ ~Charged => payment' = "CAPTURED"
  <2>1. PICK n \in Attempts : r = <<r[1], n>>
    BY DEF Requests
  <2>2. r[1] = "void" /\ request[r] # "idle" => Voiding
    BY <2>1 DEF Voiding
  <2>3. r[1] = "capture" /\ request[r] # "idle" => Capturing
    BY <2>1 DEF Capturing
  <2>4. (Voiding => Voiding') /\ (Capturing => Capturing')
    BY <1>4, <1>6, NamedAttempts DEF Voiding, Capturing
  <2>5. Charged' /\ ~Charged => payment' = "CAPTURED"
    BY <1>4, <1>6, NamedAttempts DEF Charged
  <2> QED BY <1>4, <1>6, <2>2, <2>3, <2>4, <2>5
<1> QED BY <1>2, <1>5, <1>6 DEF PaymentsNext

\* An acceptance gets into the stream only from an attempt to record it.
LEMMA AcceptanceMoves ==
  ASSUME StoreInv, [StoreNext]_storeVars,
         \A i \in 1 .. Len(events) : events[i].type = "OrderAccepted" => Accepting
  PROVE  /\ Accepting => Accepting'
         /\ \A i \in 1 .. Len(events') :
              events'[i].type = "OrderAccepted" => Accepting'
<1>1. /\ writer \in [Writers -> [step : WriterSteps, version : Nat]]
      /\ events \in Seq(OrderEvent)
  BY DEF StoreInv, StoreTypeOK
<1>2. CASE UNCHANGED storeVars
  BY <1>2 DEF storeVars, Accepting
<1>3. ASSUME NEW w \in Writers, StartWriter(w) \/ Load(w)
      PROVE  events' = events /\ (Accepting => Accepting')
  <2>1. events' = events /\ writer' = [writer EXCEPT ![w] = writer'[w]]
    BY <1>1, <1>3 DEF StartWriter, Load
  <2>2. writer'[w].step # "idle"
    BY <1>1, <1>3 DEF StartWriter, Load
  <2>3. \A v \in Writers : writer[v].step # "idle" => writer'[v].step # "idle"
    BY <1>1, <2>1, <2>2
  <2> QED BY <2>1, <2>3, NamedAttempts DEF Accepting
<1>4. ASSUME NEW w \in Writers, NEW r \in ORDER_CANCEL_REASONS, AppendEvent(w, r)
      PROVE  /\ Accepting => Accepting'
             /\ \A i \in 1 .. Len(events') :
                  events'[i].type = "OrderAccepted" => Accepting
  <2>1. Accepting => Accepting'
    BY <1>1, <1>4, NamedAttempts DEF AppendEvent, Accepting
  <2>2. EventOf(w, r).type = "OrderAccepted" => Accepting
    <3>1. PICK n \in Attempts : w = <<w[1], n>> /\ w[1] \in WriterOps
      BY DEF Writers
    <3>2. EventOf(w, r).type = "OrderAccepted" => w[1] = "accept"
      BY <3>1 DEF EventOf, OrderPlaced, OrderCancelled, WriterOps
    <3>3. writer[w].step # "idle"
      BY <1>4 DEF AppendEvent
    <3> QED BY <3>1, <3>2, <3>3 DEF Accepting
  <2>3. CASE events' = events
    BY <2>1, <2>3
  <2>4. CASE events' = Append(events, EventOf(w, r))
    <3>1. EventOf(w, r) \in OrderEvent
      BY EventTypes DEF EventOf, Writers, WriterOps
    <3>2. /\ Len(events') = Len(events) + 1
          /\ events'[Len(events) + 1] = EventOf(w, r)
          /\ \A i \in 1 .. Len(events) : events'[i] = events[i]
      BY <1>1, <2>4, <3>1, AppendValues
    <3>3. \A i \in 1 .. Len(events') : i \in 1 .. Len(events) \/ i = Len(events) + 1
      BY <1>1, <3>2
    <3> QED BY <2>1, <2>2, <3>2, <3>3
  <2> QED BY <1>4, <2>1, <2>3, <2>4, AppendKeeps
<1>5. ASSUME NEW w \in Writers, NEW r \in ORDER_CANCEL_REASONS, AppendEvent(w, r)
      PROVE  \A i \in 1 .. Len(events') :
               events'[i].type = "OrderAccepted" => Accepting'
  BY <1>4, <1>5
<1> QED BY <1>2, <1>3, <1>4, <1>5 DEF StoreNext

\* How the workflow's program counter moves over the money: where it can go
\* after a capture, a void and an acceptance, and that it records an
\* acceptance only on the answer of a capture.
LEMMA ControlMoves ==
  ASSUME Links, Next, at \in ActivityStages => attempt # 0
  PROVE  /\ at' \in ActivityStages => attempt' # 0
         /\ at' \notin {"void", "cancel", "closed"} =>
              at \notin {"void", "cancel", "closed"} /\ cancelReason' = cancelReason
         /\ at \in AfterVoid => at' \in AfterVoid
         /\ at \in AfterCapture =>
              at' \in AfterCapture /\ cancelReason' \in {cancelReason, "PAYMENT_FAILED"}
         /\ at \in AfterAccept => at' \in AfterAccept
         /\ at' = "accept" =>
              \/ at = "accept"
              \/ at = "capture" /\ request[<<"capture", attempt>>] = "done"
<1> USE DEF AfterVoid, AfterCapture, AfterAccept
<1>1. CASE UNCHANGED <<at, attempt, cancelReason>>
  BY <1>1
<1>2. CASE RetryActivity
  BY <1>2 DEF RetryActivity, outcomeVars, Links
<1>3. CASE ConfirmTimeout \/ AuthorizeFailed \/ VoidedAfterCapture
  BY <1>3 DEF ConfirmTimeout, AuthorizeFailed, VoidedAfterCapture, CancelOrder, Schedule
<1>4. CASE Declined \/ SlaBreach \/ Voided
  BY <1>4 DEF Declined, SlaBreach, Voided, CancelOrder, VoidHold, Schedule
<1>5. CASE Captured
  <2>1. "capture" \in PaymentStages /\ OpOf("capture") = "capture"
    BY DEF PaymentStages, OpOf
  <2>2. at = "capture" /\ request[<<"capture", attempt>>] = "done"
    BY <1>5, <2>1 DEF Captured, Answered
  <2>3. at' = "accept" /\ attempt' = 1 /\ cancelReason' = cancelReason
    BY <1>5 DEF Captured, Schedule, outcomeVars
  <2> QED BY <2>2, <2>3
<1>6. CASE StartWorkflow \/ Authorize \/ Authorized \/ Capture \/ CaptureFailed \/ Accepted
  BY <1>6 DEF StartWorkflow, Authorize, Authorized, Capture, CaptureFailed, Accepted,
     Schedule, outcomeVars, ActivityStages, PaymentStages, RecordStages
<1>7. CASE DispatchEnds \/ Cancelled \/ WorkflowFails
  BY <1>7 DEF DispatchEnds, Cancelled, WorkflowFails, Close, outcomeVars,
     ActivityStages, PaymentStages, RecordStages
<1>8. CASE Environment
  BY <1>1, <1>8 DEF Environment, PlaceOrder, WriterStep, PaymentStep, ConfirmPayment,
     MerchantCheck, MerchantSignal, outcomeVars
<1> QED BY <1>2, <1>3, <1>4, <1>5, <1>6, <1>7, <1>8 DEF Next, Workflow

\* New work is work of the stage the workflow is at after the step.
LEMMA NewWork ==
  ASSUME SagaInv, Next
  PROVE  /\ \A q \in Requests : request[q] = "idle" /\ request'[q] # "idle" =>
              at' \in PaymentStages /\ q[1] = OpOf(at')
         /\ \A w \in Writers : writer[w].step = "idle" /\ writer'[w].step # "idle" =>
              w[1] = "place" \/ (at' \in RecordStages /\ w[1] = at')
<1>1. request \in [Requests -> RequestSteps]
  BY DEF SagaInv, PayInv, PaymentsTypeOK
<1>2. ASSUME NEW stage \in ActivityStages, NEW n \in Attempts, Attempting(stage, n)
      PROVE  /\ \A q \in Requests : request'[q] # request[q] =>
                  at' \in PaymentStages /\ q[1] = OpOf(at')
             /\ \A w \in Writers : writer'[w] # writer[w] =>
                  at' \in RecordStages /\ w[1] = at'
  <2>1. at' = stage
    BY <1>2 DEF Attempting
  <2>2. \A q \in Requests : request'[q] # request[q] =>
          q = <<OpOf(stage), n>> /\ stage \in PaymentStages
    BY <1>2, Wakes
  <2>3. \A w \in Writers : writer'[w] # writer[w] =>
          w = <<stage, n>> /\ stage \in RecordStages
    BY <1>2, Wakes
  <2> QED BY <2>1, <2>2, <2>3
<1>3. CASE PlaceOrder \/ WriterStep
  BY <1>3, WriterMoves DEF payVars
<1>4. CASE PaymentStep
  <2>1. PICK r \in Requests : HandleRequest(r, totalAmount)
    BY <1>4 DEF PaymentStep
  <2>2. request[r] # "idle" /\ \A q \in Requests : q # r => request'[q] = request[q]
    BY <1>1, <2>1 DEF HandleRequest, AuthorizeRead, AuthorizeCreate, TransitionRead,
       TransitionWrite, Answer
  <2> QED BY <1>4, <2>2 DEF PaymentStep, storeVars
<1>5. CASE UNCHANGED <<storeVars, payVars>>
  BY <1>5 DEF storeVars, payVars
<1> QED BY <1>2, <1>3, <1>4, <1>5, StepKinds DEF SagaInv

\* The invariant about the money is kept, one conjunct after the other.
LEMMA MoneyStep == SagaInv /\ MoneyInv /\ [Next]_vars => MoneyInv'
<1> SUFFICES ASSUME SagaInv, MoneyInv, [Next]_vars PROVE MoneyInv'
  OBVIOUS
<1>1. CASE UNCHANGED vars
  BY <1>1 DEF vars, storeVars, payVars, outcomeVars, MoneyInv, Accepting, Capturing,
     Charged, Voiding
<1>2. CASE Next
  <2>1. [StoreNext]_storeVars /\ [PaymentsNext]_payVars /\ StoreInv /\ PayInv /\ Links
    BY StepMaps DEF SagaInv
  <2> DEFINE Control ==
        /\ at' \in ActivityStages => attempt' # 0
        /\ at' \notin {"void", "cancel", "closed"} =>
             at \notin {"void", "cancel", "closed"} /\ cancelReason' = cancelReason
        /\ at \in AfterVoid => at' \in AfterVoid
        /\ at \in AfterCapture =>
             at' \in AfterCapture /\ cancelReason' \in {cancelReason, "PAYMENT_FAILED"}
        /\ at \in AfterAccept => at' \in AfterAccept
        /\ at' = "accept" =>
             \/ at = "accept"
             \/ at = "capture" /\ request[<<"capture", attempt>>] = "done"
  <2>2. Control
    BY <1>2, <2>1, ControlMoves DEF MoneyInv
  <2>3. at' \notin {"void", "cancel", "closed"} => cancelReason' = "none"
    BY <2>2 DEF MoneyInv
  <2>4. Voiding' /\ ~Voiding => at' \in {"void", "voidAfterCapture"}
    BY <1>2, NewWork, NamedAttempts DEF Voiding, OpOf, PaymentStages
  <2>5. Capturing' /\ ~Capturing => at' = "capture"
    BY <1>2, NewWork, NamedAttempts DEF Capturing, OpOf, PaymentStages
  <2>6. Accepting' /\ ~Accepting => at' = "accept"
    BY <1>2, NewWork, NamedAttempts DEF Accepting
  <2>7. Voiding' => at' \in AfterVoid
    BY <2>2, <2>4 DEF MoneyInv, AfterVoid
  <2>8. Capturing' => at' \in AfterCapture /\ cancelReason' \in {"none", "PAYMENT_FAILED"}
    BY <2>2, <2>3, <2>5 DEF MoneyInv, AfterCapture
  <2>9. payment' = "CAPTURED" => Capturing'
    BY <2>1, PaymentMoves DEF MoneyInv
  <2>10. Charged' /\ ~Voiding' => payment' = "CAPTURED"
    BY <2>1, PaymentMoves DEF MoneyInv
  <2>11. Accepting' => at' \in AfterAccept
    BY <2>2, <2>6 DEF MoneyInv, AfterAccept
  <2>12. Accepting \/ at = "accept" \/ at' = "accept" => ~Voiding /\ payment = "CAPTURED"
    <3>1. SUFFICES ASSUME at = "capture", request[<<"capture", attempt>>] = "done"
                   PROVE  ~Voiding /\ payment = "CAPTURED"
      BY <2>2 DEF MoneyInv
    <3>2. ~Voiding
      BY <3>1 DEF MoneyInv, AfterVoid
    <3>3. attempt \in Attempts
      BY <3>1, AttemptsAssumption DEF MoneyInv, SagaInv, Links, Attempts, ActivityStages,
         PaymentStages
    <3> QED BY <3>1, <3>2, <3>3 DEF MoneyInv, Charged
  <2>13. Accepting' \/ at' = "accept" => ~Voiding' /\ payment' = "CAPTURED"
    <3>1. SUFFICES ASSUME Accepting' \/ at' = "accept"
                   PROVE  ~Voiding' /\ payment' = "CAPTURED"
      OBVIOUS
    <3>2. ~Voiding /\ payment = "CAPTURED"
      BY <2>6, <2>12, <3>1
    <3>3. ~Voiding'
      BY <2>4, <2>11, <3>1, <3>2 DEF AfterAccept
    <3> QED BY <2>1, <3>2, <3>3, PaymentMoves
  <2>14. \A i \in 1 .. Len(events') : events'[i].type = "OrderAccepted" => Accepting'
    BY <2>1, AcceptanceMoves DEF MoneyInv
  <2> QED BY <2>2, <2>3, <2>7, <2>8, <2>9, <2>10, <2>11, <2>13, <2>14 DEF MoneyInv
<1> QED BY <1>1, <1>2

\* The invariant about the money holds before the order is placed.
LEMMA MoneyInitInv == Init => MoneyInv
<1> SUFFICES ASSUME Init PROVE MoneyInv
  OBVIOUS
<1>1. ~Accepting /\ ~Capturing /\ ~Charged /\ ~Voiding
  BY NamedAttempts DEF Init, StoreInit, PaymentsInit, Accepting, Capturing, Charged, Voiding
<1>2. /\ at = "notStarted" /\ cancelReason = "none" /\ payment = "NONE"
      /\ Len(events) = 0 /\ at \notin ActivityStages
  BY DEF Init, StoreInit, PaymentsInit, ActivityStages, PaymentStages, RecordStages
<1> QED BY <1>1, <1>2 DEF MoneyInv

\* An accepted order has been paid for, and nothing an abandoned attempt of an
\* activity does later can take the money back (workflows.ts: capture before
\* acceptOrder, no compensation after it).
THEOREM AcceptedIsPaid == Spec => []AcceptedIsCaptured
<1>1. SagaInv /\ MoneyInv => AcceptedIsCaptured
  <2>1. SUFFICES ASSUME SagaInv, MoneyInv, Order.status = "ACCEPTED"
                 PROVE  payment = "CAPTURED"
    BY DEF AcceptedIsCaptured
  <2>2. events \in Seq(OrderEvent) /\ OneTerminalEvent
    BY <2>1 DEF SagaInv, StoreInv, StoreTypeOK
  <2>3. Len(events) = 2 /\ events[2].type = "OrderAccepted"
    <3>1. Len(events) \in Nat /\ Len(events) <= 2
      BY <2>2, LoadedStatus
    <3>2. Len(events) = 0 \/ Len(events) = 1 \/ Len(events) = 2
      BY <3>1, UpToTwo
    <3>3. loadAggregate(events).state.status = "ACCEPTED"
      BY <2>1 DEF Order
    <3> QED BY <2>2, <3>2, <3>3, LoadedStatus
  <2>4. 2 \in 1 .. Len(events)
    BY <2>3
  <2> QED BY <2>1, <2>3, <2>4 DEF MoneyInv
<1> QED BY <1>1, SagaInitInv, SagaStep, MoneyInitInv, MoneyStep, PTL DEF Spec

\* Once the workflow holds a reason to give the money back, the customer is
\* not charged, however late a merchant's answer or a lost request arrives.
THEOREM CancelledIsNotCharged == Spec => []DeclinedIsNeverCharged
<1>1. MoneyInv => DeclinedIsNeverCharged
  BY DEF MoneyInv, DeclinedIsNeverCharged
<1> QED BY <1>1, SagaInitInv, SagaStep, MoneyInitInv, MoneyStep, PTL DEF Spec

\* The terminal event of an order is unique with the workflow and its retries
\* as the writers, too.
THEOREM SagaSettledOnce == Spec => []OneTerminalEvent
<1>1. SagaInv => OneTerminalEvent
  BY DEF SagaInv, StoreInv
<1> QED BY <1>1, SagaInitInv, SagaStep, PTL DEF Spec

-----------------------------------------------------------------------------
(* The state of the order, for each shape of its stream.                   *)

\* What loadAggregate makes of each stream that can occur.
LEMMA ShapeOf ==
  ASSUME NEW s \in Seq(OrderEvent),
         \/ s = <<>>
         \/ s = <<OrderPlaced>>
         \/ Len(s) = 2 /\ s[1] = OrderPlaced /\ IsTerminal(s[2])
  PROVE  /\ Len(s) = 0 \/ Len(s) = 1 \/ Len(s) = 2
         /\ Len(s) = 0 =>
              loadAggregate(s).state = [status |-> "NONE", cancelReason |-> "none"]
         /\ Len(s) = 1 =>
              loadAggregate(s).state = [status |-> "PLACED", cancelReason |-> "none"]
         /\ Len(s) = 2 =>
              \/ /\ s[2].type = "OrderAccepted"
                 /\ loadAggregate(s).state = [status |-> "ACCEPTED", cancelReason |-> "none"]
              \/ /\ s[2].type = "OrderCancelled"
                 /\ loadAggregate(s).state =
                      [status |-> "CANCELLED", cancelReason |-> s[2].reason]
<1>1. Len(s) = 0 \/ Len(s) = 1 \/ Len(s) = 2
  <2>1. Len(<<>>) = 0 /\ Len(<<OrderPlaced>>) = 1
    OBVIOUS
  <2> QED BY <2>1
<1>2. Len(s) \in Nat /\ Len(s) <= 2
  <2>1. Len(s) \in Nat
    OBVIOUS
  <2> QED BY <1>1, <2>1, UpToTwo
<1>3. ASSUME Len(s) = 0
      PROVE  loadAggregate(s).state = [status |-> "NONE", cancelReason |-> "none"]
  BY <1>2, <1>3, LoadUnrolled DEF INITIAL_ORDER_STATE
<1>4. foldOrder(INITIAL_ORDER_STATE, OrderPlaced)
        = [status |-> "PLACED", cancelReason |-> "none"]
  BY DEF foldOrder, OrderPlaced
<1>5. ASSUME Len(s) = 1
      PROVE  loadAggregate(s).state = [status |-> "PLACED", cancelReason |-> "none"]
  <2>1. s[1] = OrderPlaced
    BY <1>5
  <2> QED BY <1>2, <1>4, <1>5, <2>1, LoadUnrolled
<1>6. ASSUME Len(s) = 2
      PROVE  \/ /\ s[2].type = "OrderAccepted"
                /\ loadAggregate(s).state = [status |-> "ACCEPTED", cancelReason |-> "none"]
             \/ /\ s[2].type = "OrderCancelled"
                /\ loadAggregate(s).state =
                     [status |-> "CANCELLED", cancelReason |-> s[2].reason]
  <2>1. s[1] = OrderPlaced /\ s[2].type \in {"OrderAccepted", "OrderCancelled"}
    BY <1>6 DEF IsTerminal
  <2>2. loadAggregate(s).state = foldOrder([status |-> "PLACED", cancelReason |-> "none"], s[2])
    BY <1>2, <1>4, <1>6, <2>1, LoadUnrolled
  <2> QED BY <2>1, <2>2 DEF foldOrder
<1> QED BY <1>1, <1>3, <1>5, <1>6

\* The state of the order, then.
LEMMA OrderShape ==
  ASSUME events \in Seq(OrderEvent), OneTerminalEvent
  PROVE  /\ Len(events) = 0 \/ Len(events) = 1 \/ Len(events) = 2
         /\ Len(events) = 0 => Order = [status |-> "NONE", cancelReason |-> "none"]
         /\ Len(events) = 1 => Order = [status |-> "PLACED", cancelReason |-> "none"]
         /\ Len(events) = 2 =>
              \/ /\ events[2].type = "OrderAccepted"
                 /\ Order = [status |-> "ACCEPTED", cancelReason |-> "none"]
              \/ /\ events[2].type = "OrderCancelled"
                 /\ Order = [status |-> "CANCELLED", cancelReason |-> events[2].reason]
BY ShapeOf DEF OneTerminalEvent, Order

-----------------------------------------------------------------------------
(* What a step can do to the row, to the stream and to the workflow.       *)

Cancelling == \E n \in Attempts : writer[<<"cancel", n>>].step # "idle"
GivenBack == \E n \in Attempts : request[<<"void", n>>] = "done"
Untouched == payment = "NONE" /\ \A q \in Requests : request[q] = "idle"

\* The row moves only under a request; a hold is decided once and then moves
\* between captured and voided, and a void that answers has voided it.
LEMMA RowMoves ==
  ASSUME PayInv, [PaymentsNext]_payVars
  PROVE  /\ payment' # payment => \E q \in Requests : request[q] # "idle"
         /\ payment = "VOIDED" /\ payment' # "VOIDED" => Capturing
         /\ GivenBack' /\ ~GivenBack => payment' = "VOIDED"
         /\ payment' # payment =>
              \/ payment = "NONE" /\ payment' \in {"AUTHORIZED", "DECLINED"}
              \/ payment \in Held /\ payment' \in {"CAPTURED", "VOIDED"}
<1>1. request \in [Requests -> RequestSteps]
  BY DEF PayInv, PaymentsTypeOK
<1>2. CASE UNCHANGED payVars
  BY <1>2 DEF payVars, GivenBack
<1>3. ASSUME NEW r \in Requests, SendRequest(r)
      PROVE  payment' = payment /\ (GivenBack' => GivenBack)
  BY <1>1, <1>3, NamedAttempts DEF SendRequest, GivenBack
<1>4. ASSUME NEW r \in Requests, NEW amount \in Amounts, HandleRequest(r, amount)
      PROVE  /\ request[r] # "idle"
             /\ \A q \in Requests : request'[q] = "done" /\ request[q] # "done" =>
                  q = r /\ (q[1] = "void" => payment' = "VOIDED")
             /\ payment = "VOIDED" /\ payment' # "VOIDED" => r[1] = "capture"
             /\ payment' # payment =>
                  \/ payment = "NONE" /\ payment' \in {"AUTHORIZED", "DECLINED"}
                  \/ payment \in Held /\ payment' \in {"CAPTURED", "VOIDED"}
  <2>1. CASE AuthorizeRead(r)
    BY <1>1, <2>1 DEF AuthorizeRead, Answer, DecisionOf
  <2>2. CASE AuthorizeCreate(r, amount)
    BY <1>1, <2>2 DEF AuthorizeCreate, Answer, DecisionOf, decideAuthorize
  <2>3. CASE TransitionRead(r)
    BY <1>1, <2>3 DEF TransitionRead, Answer, TargetOf
  <2>4. CASE TransitionWrite(r)
    <3>1. payment \in Held
      BY <2>4 DEF TransitionWrite, PayInv, WritersSawHold
    <3> QED BY <1>1, <2>4, <3>1 DEF TransitionWrite, Answer, TargetOf
  <2> QED BY <1>4, <2>1, <2>2, <2>3, <2>4 DEF HandleRequest
<1>5. ASSUME NEW r \in Requests, NEW amount \in Amounts, HandleRequest(r, amount)
      PROVE  /\ payment = "VOIDED" /\ payment' # "VOIDED" => Capturing
             /\ GivenBack' /\ ~GivenBack => payment' = "VOIDED"
  <2>1. PICK n \in Attempts : r = <<r[1], n>>
    BY DEF Requests
  <2>2. r[1] = "capture" /\ request[r] # "idle" => Capturing
    BY <2>1 DEF Capturing
  <2>3. GivenBack' /\ ~GivenBack => payment' = "VOIDED"
    BY <1>4, <1>5, NamedAttempts DEF GivenBack
  <2> QED BY <1>4, <1>5, <2>2, <2>3
<1> QED BY <1>2, <1>3, <1>4, <1>5 DEF PaymentsNext

\* The stream grows only when a writer that decided on its current version
\* appends; neither the workflow nor the money moves in that step.
LEMMA StreamMoves ==
  ASSUME SagaInv, Next, events' # events
  PROVE  \E w \in Writers :
           /\ writer[w].step = "loaded"
           /\ events' = Append(events, EventOf(w, cancelReason))
           /\ EventOf(w, cancelReason) \in OrderEvent
           /\ w[1] \in {"accept", "cancel"} => Len(events) = 1
           /\ w[1] = "place" => Len(events) = 0
           /\ w[1] = "cancel" => cancelReason # "none"
           /\ UNCHANGED <<payVars, at, cancelReason>>
<1>1. WriterStep
  <2>1. ASSUME NEW stage \in ActivityStages, NEW n \in Attempts, Attempting(stage, n)
        PROVE  FALSE
    BY <2>1, Wakes
  <2>2. ~PlaceOrder /\ ~PaymentStep
    BY DEF PlaceOrder, StartWriter, PaymentStep, storeVars
  <2> QED BY <2>1, <2>2, StepKinds DEF SagaInv, storeVars
<1>2. PICK w \in Writers : Load(w) \/ AppendEvent(w, cancelReason)
  BY <1>1 DEF WriterStep
<1>3. AppendEvent(w, cancelReason) /\ ~VersionTaken(writer[w].version + 1)
  BY <1>2 DEF Load, AppendEvent
<1>4. /\ writer[w].step = "loaded"
      /\ events' = Append(events, EventOf(w, cancelReason))
  BY <1>3 DEF AppendEvent
<1>5. /\ writer[w].version = IF w[1] = "place" THEN 0 ELSE 1
      /\ writer[w].version <= Len(events)
      /\ Len(events) \in Nat /\ writer[w].version \in Nat
  BY <1>4 DEF SagaInv, StoreInv, StoreTypeOK
<1>6. Len(events) = writer[w].version
  <2>1. \A m, n \in Nat : m <= n /\ m + 1 \notin 1 .. n => n = m
    OBVIOUS
  <2>2. writer[w].version + 1 \notin 1 .. Len(events)
    BY <1>3 DEF VersionTaken
  <2> QED BY <1>5, <2>1, <2>2
<1>7. w[1] = "cancel" => cancelReason \in ORDER_CANCEL_REASONS /\ cancelReason # "none"
  <2>1. PICK n \in Attempts : w = <<w[1], n>>
    BY DEF Writers
  <2> QED BY <1>4, <2>1 DEF SagaInv, Links
<1>8. EventOf(w, cancelReason) \in OrderEvent
  <2>1. w[1] \in {"place", "accept", "cancel"}
    BY DEF Writers, WriterOps
  <2> QED BY <1>7, <2>1, EventTypes DEF EventOf
<1> QED BY <1>1, <1>4, <1>5, <1>6, <1>7, <1>8 DEF WriterStep, outcomeVars

\* Where the workflow decides to cancel, and on what: a timeout before
\* anything was asked of the payments service, a failed payment, or a void
\* that was answered.
LEMMA CancelMoves ==
  ASSUME Links, Next
  PROVE  /\ at' = "notStarted" => at = "notStarted"
         /\ at' = "awaitConfirm" => at \in {"notStarted", "awaitConfirm"}
         /\ at = "notStarted" /\ at' # "notStarted" => events # <<>>
         /\ cancelReason' = "PAYMENT_TIMEOUT" /\ cancelReason # "PAYMENT_TIMEOUT" =>
              at = "awaitConfirm" /\ at' = "cancel"
         /\ at \in {"cancel", "closed"} =>
              at' \in {"cancel", "closed"} /\ cancelReason' = cancelReason
         /\ at' = "cancel" =>
              \/ at = "cancel"
              \/ cancelReason' \in {"PAYMENT_TIMEOUT", "PAYMENT_FAILED"}
              \/ /\ at = "void" /\ request[<<"void", attempt>>] = "done"
                 /\ cancelReason' = cancelReason
<1>1. CASE UNCHANGED <<at, attempt, cancelReason>>
  BY <1>1
<1>2. CASE RetryActivity
  BY <1>2 DEF RetryActivity, outcomeVars, Links, ActivityStages, PaymentStages, RecordStages
<1>3. CASE ConfirmTimeout \/ AuthorizeFailed \/ VoidedAfterCapture
  BY <1>3 DEF ConfirmTimeout, AuthorizeFailed, VoidedAfterCapture, CancelOrder, Schedule
<1>4. CASE Declined \/ SlaBreach
  BY <1>4 DEF Declined, SlaBreach, VoidHold, Schedule
<1>5. CASE Voided
  <2>1. "void" \in PaymentStages /\ OpOf("void") = "void"
    BY DEF PaymentStages, OpOf
  <2>2. at = "void" /\ request[<<"void", attempt>>] = "done"
    BY <1>5, <2>1 DEF Voided, Answered
  <2>3. at' = "cancel" /\ cancelReason' = cancelReason
    BY <1>5 DEF Voided, CancelOrder, Schedule
  <2> QED BY <2>2, <2>3
<1>6. CASE StartWorkflow \/ Authorize \/ Authorized \/ Capture \/ Captured \/ CaptureFailed
             \/ Accepted
  BY <1>6 DEF StartWorkflow, Authorize, Authorized, Capture, Captured, CaptureFailed,
     Accepted, Schedule, outcomeVars
<1>7. CASE DispatchEnds \/ Cancelled \/ WorkflowFails
  BY <1>7 DEF DispatchEnds, Cancelled, WorkflowFails, Close, outcomeVars
<1>8. CASE Environment
  BY <1>1, <1>8 DEF Environment, PlaceOrder, WriterStep, PaymentStep, ConfirmPayment,
     MerchantCheck, MerchantSignal, outcomeVars
<1> QED BY <1>2, <1>3, <1>4, <1>5, <1>6, <1>7, <1>8 DEF Next, Workflow

-----------------------------------------------------------------------------
(* Compensation and stream agree.                                          *)

\* Nothing is asked of the payments service before the confirmation, nor
\* after a timeout; a void that was answered holds; it was answered before a
\* DECLINED or SLA_BREACH is recorded; and what is recorded is the reason the
\* workflow holds.
CompInv ==
  /\ at \in {"notStarted", "awaitConfirm"} \/ cancelReason = "PAYMENT_TIMEOUT" => Untouched
  /\ cancelReason = "PAYMENT_TIMEOUT" => at \in {"cancel", "closed"}
  /\ at # "notStarted" => events # <<>>
  /\ Cancelling => at \in {"cancel", "closed"}
  /\ ~(Accepting /\ Cancelling)
  /\ GivenBack /\ ~Capturing => payment = "VOIDED"
  /\ cancelReason \in {"DECLINED", "SLA_BREACH"} /\ (at = "cancel" \/ Cancelling) =>
       payment = "VOIDED"
  /\ \A i \in 1 .. Len(events) : events[i].type = "OrderCancelled" =>
       Cancelling /\ events[i].reason = cancelReason

\* The invariant holds before the order is placed.
LEMMA CompInitInv == Init => CompInv
<1> SUFFICES ASSUME Init PROVE CompInv
  OBVIOUS
<1>1. ~Accepting /\ ~Cancelling /\ ~GivenBack /\ Untouched
  BY NamedAttempts DEF Init, StoreInit, PaymentsInit, Accepting, Cancelling, GivenBack, Untouched
<1>2. /\ at = "notStarted" /\ cancelReason = "none" /\ Len(events) = 0
  BY DEF Init, StoreInit
<1> QED BY <1>1, <1>2 DEF CompInv

\* A writer that was started stays started.
LEMMA WritersStayStarted ==
  ASSUME StoreInv, [StoreNext]_storeVars
  PROVE  (Cancelling => Cancelling') /\ (Accepting => Accepting')
<1>1. writer \in [Writers -> [step : WriterSteps, version : Nat]]
  BY DEF StoreInv, StoreTypeOK
<1>2. \A v \in Writers : writer[v].step # "idle" => writer'[v].step # "idle"
  <2>1. CASE UNCHANGED storeVars
    BY <2>1 DEF storeVars
  <2>2. ASSUME NEW w \in Writers, StartWriter(w) \/ Load(w)
        PROVE  \A v \in Writers : writer[v].step # "idle" => writer'[v].step # "idle"
    BY <1>1, <2>2 DEF StartWriter, Load
  <2>3. ASSUME NEW w \in Writers, NEW r \in ORDER_CANCEL_REASONS, AppendEvent(w, r)
        PROVE  \A v \in Writers : writer[v].step # "idle" => writer'[v].step # "idle"
    BY <1>1, <2>3 DEF AppendEvent
  <2> QED BY <2>1, <2>2, <2>3 DEF StoreNext
<1> QED BY <1>2, NamedAttempts DEF Cancelling, Accepting

\* The compensation invariant is kept, one conjunct after the other.
LEMMA CompStep == SagaInv /\ MoneyInv /\ CompInv /\ [Next]_vars => CompInv'
<1> SUFFICES ASSUME SagaInv, MoneyInv, CompInv, [Next]_vars PROVE CompInv'
  OBVIOUS
<1>1. CASE UNCHANGED vars
  BY <1>1 DEF vars, storeVars, payVars, outcomeVars, CompInv, Accepting, Capturing,
     Cancelling, GivenBack, Untouched
<1>2. CASE Next
  <2>1. [StoreNext]_storeVars /\ [PaymentsNext]_payVars /\ StoreInv /\ PayInv /\ Links
    BY StepMaps DEF SagaInv
  <2> DEFINE Control ==
        /\ at' = "notStarted" => at = "notStarted"
        /\ at' = "awaitConfirm" => at \in {"notStarted", "awaitConfirm"}
        /\ at = "notStarted" /\ at' # "notStarted" => events # <<>>
        /\ cancelReason' = "PAYMENT_TIMEOUT" /\ cancelReason # "PAYMENT_TIMEOUT" =>
             at = "awaitConfirm" /\ at' = "cancel"
        /\ at \in {"cancel", "closed"} =>
             at' \in {"cancel", "closed"} /\ cancelReason' = cancelReason
        /\ at' = "cancel" =>
             \/ at = "cancel"
             \/ cancelReason' \in {"PAYMENT_TIMEOUT", "PAYMENT_FAILED"}
             \/ /\ at = "void" /\ request[<<"void", attempt>>] = "done"
                /\ cancelReason' = cancelReason
  <2>2. Control
    BY <1>2, <2>1, CancelMoves
  <2>3. Untouched /\ at' \notin PaymentStages => Untouched'
    <3>1. SUFFICES ASSUME Untouched, at' \notin PaymentStages PROVE Untouched'
      OBVIOUS
    <3>2. payment' = payment
      BY <2>1, <3>1, RowMoves DEF Untouched
    <3>3. \A q \in Requests : request'[q] = "idle"
      BY <1>2, <3>1, NewWork DEF Untouched
    <3> QED BY <3>1, <3>2, <3>3 DEF Untouched
  <2>4. at' \in {"notStarted", "awaitConfirm"} \/ cancelReason' = "PAYMENT_TIMEOUT"
          => Untouched'
    <3>1. at' \in {"notStarted", "awaitConfirm", "cancel", "closed"} => at' \notin PaymentStages
      BY DEF PaymentStages
    <3> QED BY <2>2, <2>3, <3>1 DEF CompInv
  <2>5. cancelReason' = "PAYMENT_TIMEOUT" => at' \in {"cancel", "closed"}
    BY <2>2 DEF CompInv
  <2>6. at' # "notStarted" => events' # <<>>
    <3>1. events # <<>> => events' # <<>>
      <4>1. SUFFICES ASSUME events # <<>>, events' # events PROVE events' # <<>>
        OBVIOUS
      <4>2. PICK e \in OrderEvent : events' = Append(events, e)
        BY <1>2, <4>1, StreamMoves
      <4> QED BY <2>1, <4>2 DEF StoreInv, StoreTypeOK
    <3> QED BY <2>2, <3>1 DEF CompInv
  <2>7. Cancelling' /\ ~Cancelling => at' = "cancel"
    BY <1>2, NewWork, NamedAttempts DEF Cancelling
  <2>8. Cancelling' => at' \in {"cancel", "closed"}
    BY <2>2, <2>7 DEF CompInv
  <2>9. ~(Accepting' /\ Cancelling')
    <3>1. Accepting' /\ ~Accepting => at' = "accept"
      BY <1>2, NewWork, NamedAttempts DEF Accepting
    <3>2. Accepting' => at' \in AfterAccept
      BY <1>2, MoneyStep DEF MoneyInv
    <3>3. Accepting => at \in AfterAccept
      BY DEF MoneyInv
    <3>4. at' = "cancel" => ~Accepting'
      BY <3>2 DEF AfterAccept
    <3> QED BY <2>7, <2>8, <3>1, <3>4 DEF CompInv
  <2>10. Capturing => Capturing'
    BY <2>1, PaymentMoves
  <2>11. GivenBack' /\ ~Capturing' => payment' = "VOIDED"
    BY <2>1, <2>10, RowMoves DEF CompInv
  <2>12. cancelReason' \in {"DECLINED", "SLA_BREACH"} /\ (at' = "cancel" \/ Cancelling') =>
           payment' = "VOIDED"
    <3>1. SUFFICES ASSUME cancelReason' \in {"DECLINED", "SLA_BREACH"},
                          at' = "cancel" \/ Cancelling'
                   PROVE  payment' = "VOIDED"
      OBVIOUS
    <3>2. ~Capturing' /\ ~Capturing
      <4>1. MoneyInv'
        BY MoneyStep
      <4>2. ~Capturing'
        BY <3>1, <4>1 DEF MoneyInv
      <4> QED BY <2>10, <4>2
    <3>3. payment = "VOIDED"
      <4>1. CASE at \in {"cancel", "closed"} /\ (at = "cancel" \/ Cancelling)
        BY <2>2, <3>1, <4>1 DEF CompInv
      <4>2. CASE at = "void" /\ request[<<"void", attempt>>] = "done"
        <5>1. attempt \in Attempts
          BY <4>2, AttemptsAssumption DEF MoneyInv, SagaInv, Links, Attempts, ActivityStages,
             PaymentStages
        <5>2. GivenBack
          BY <4>2, <5>1 DEF GivenBack
        <5> QED BY <3>2, <5>2 DEF CompInv
      <4>3. Cancelling => at \in {"cancel", "closed"}
        BY DEF CompInv
      <4> QED BY <2>2, <2>7, <3>1, <4>1, <4>2, <4>3
    <3> QED BY <2>1, <3>2, <3>3, RowMoves
  <2>13. \A i \in 1 .. Len(events') : events'[i].type = "OrderCancelled" =>
           Cancelling' /\ events'[i].reason = cancelReason'
    <3>1. CASE events' = events
      <4>1. ASSUME NEW i \in 1 .. Len(events), events[i].type = "OrderCancelled"
            PROVE  Cancelling' /\ events[i].reason = cancelReason'
        <5>1. Cancelling /\ events[i].reason = cancelReason
          BY <4>1 DEF CompInv
        <5>2. cancelReason' = cancelReason
          BY <2>2, <5>1 DEF CompInv
        <5> QED BY <2>1, <5>1, <5>2, WritersStayStarted
      <4> QED BY <3>1, <4>1
    <3>2. CASE events' # events
      <4>1. PICK w \in Writers :
               /\ writer[w].step = "loaded"
               /\ events' = Append(events, EventOf(w, cancelReason))
               /\ EventOf(w, cancelReason) \in OrderEvent
               /\ UNCHANGED cancelReason
        BY <1>2, <3>2, StreamMoves
      <4>2. EventOf(w, cancelReason).type = "OrderCancelled" =>
              Cancelling /\ EventOf(w, cancelReason).reason = cancelReason
        <5>1. PICK n \in Attempts : w = <<w[1], n>> /\ w[1] \in WriterOps
          BY DEF Writers
        <5>2. EventOf(w, cancelReason).type = "OrderCancelled" =>
                w[1] = "cancel" /\ EventOf(w, cancelReason).reason = cancelReason
          BY <5>1 DEF EventOf, OrderPlaced, OrderAccepted, OrderCancelled, WriterOps
        <5> QED BY <4>1, <5>1, <5>2 DEF Cancelling
      <4>3. events \in Seq(OrderEvent)
        BY <2>1 DEF StoreInv, StoreTypeOK
      <4>4. Len(events') = Len(events) + 1
        <5>1. EventOf(w, cancelReason) \in OrderEvent
          BY <4>1
        <5>2. Len(Append(events, EventOf(w, cancelReason))) = Len(events) + 1
          BY <4>3, <5>1, AppendLength
        <5> QED BY <4>1, <5>2
      <4>5. /\ events'[Len(events) + 1] = EventOf(w, cancelReason)
            /\ \A i \in 1 .. Len(events) : events'[i] = events[i]
        <5>1. EventOf(w, cancelReason) \in OrderEvent
          BY <4>1
        <5>2. /\ Append(events, EventOf(w, cancelReason))[Len(events) + 1] = EventOf(w, cancelReason)
              /\ \A i \in 1 .. Len(events) : Append(events, EventOf(w, cancelReason))[i] = events[i]
          BY <4>3, <5>1, AppendValues
        <5> QED BY <4>1, <5>2
      <4>6. \A i \in 1 .. Len(events') : i \in 1 .. Len(events) \/ i = Len(events) + 1
        BY <4>3, <4>4
      <4>7. Cancelling => Cancelling'
        BY <2>1, WritersStayStarted
      <4> QED BY <4>1, <4>2, <4>5, <4>6, <4>7 DEF CompInv
    <3> QED BY <3>1, <3>2
  <2> QED BY <2>4, <2>5, <2>6, <2>8, <2>9, <2>11, <2>12, <2>13 DEF CompInv
<1> QED BY <1>1, <1>2

\* At every point of the saga, and for good: an accepted order has been paid
\* for, and one that was declined or left unanswered has had its hold voided,
\* whatever an abandoned attempt still does (workflows.ts: capture before
\* acceptOrder, void before cancelOrder).
THEOREM MoneyAlwaysAgrees == Spec => []MoneyAgrees
<1>1. SagaInv /\ MoneyInv /\ CompInv => MoneyAgrees
  <2>1. SUFFICES ASSUME SagaInv, MoneyInv, CompInv PROVE MoneyAgrees
    OBVIOUS
  <2>2. events \in Seq(OrderEvent) /\ OneTerminalEvent
    BY <2>1 DEF SagaInv, StoreInv, StoreTypeOK
  <2>3. Order.status \in {"ACCEPTED", "CANCELLED"} =>
          /\ Len(events) = 2 /\ 2 \in 1 .. Len(events)
          /\ Order.status = "ACCEPTED" => events[2].type = "OrderAccepted"
          /\ Order.status = "CANCELLED" => events[2].type = "OrderCancelled"
                                           /\ Order.cancelReason = events[2].reason
    BY <2>2, OrderShape
  <2>4. AcceptedIsCaptured
    BY <2>1, <2>3 DEF AcceptedIsCaptured, MoneyInv
  <2>5. CancelAgreesWithMoney
    <3>1. SUFFICES ASSUME Order.status = "CANCELLED"
                   PROVE  /\ Order.cancelReason \in {"DECLINED", "SLA_BREACH"} => payment = "VOIDED"
                          /\ Order.cancelReason = "PAYMENT_TIMEOUT" => payment = "NONE"
      BY DEF CancelAgreesWithMoney
    <3>2. Cancelling /\ Order.cancelReason = cancelReason
      BY <2>1, <2>3, <3>1 DEF CompInv
    <3> QED BY <2>1, <3>2 DEF CompInv, Untouched
  <2>6. DeclinedIsNeverCharged
    BY <2>1 DEF DeclinedIsNeverCharged, MoneyInv
  <2> QED BY <2>4, <2>5, <2>6 DEF MoneyAgrees
<1> QED BY <1>1, SagaInitInv, SagaStep, MoneyInitInv, MoneyStep, CompInitInv, CompStep, PTL
      DEF Spec

\* The stream's own promises hold with the workflow and its retries as the
\* writers of accept and cancel.
THEOREM SagaStoreSafe == Spec => []StoreSafe
BY UsesComponents, StoreIsSafe, PTL DEF UsesStore

\* The payments service gives an order one verdict, whatever attempts of the
\* workflow ask for it and however often.
THEOREM SagaOneVerdict == Spec => []OneVerdict
BY UsesComponents, VerdictIsShared, PTL DEF UsesPayments

-----------------------------------------------------------------------------
(* The saga implements the abstract lifecycle.                             *)

\* The initial state of the saga is one of the lifecycle.
LEMMA LifecycleInitially == Init => Lifecycle!LifecycleInit
<1> SUFFICES ASSUME Init PROVE Lifecycle!LifecycleInit
  OBVIOUS
<1>1. events = <<>> /\ payment = "NONE" /\ Len(events) = 0
  BY DEF Init, StoreInit, PaymentsInit
<1>2. events \in Seq(OrderEvent) /\ OneTerminalEvent
  BY <1>1 DEF OneTerminalEvent
<1>3. Order = [status |-> "NONE", cancelReason |-> "none"]
  BY <1>1, <1>2, OrderShape
<1> QED BY <1>1, <1>3 DEF Lifecycle!LifecycleInit

\* What the stream's growth means for the order: it is placed, or a recording
\* attempt ends it.
Places ==
  /\ events = <<>> /\ Order = [status |-> "NONE", cancelReason |-> "none"]
  /\ Order' = [status |-> "PLACED", cancelReason |-> "none"]

Accepts ==
  /\ Accepting /\ Order = [status |-> "PLACED", cancelReason |-> "none"]
  /\ Order' = [status |-> "ACCEPTED", cancelReason |-> "none"]

Cancels ==
  /\ Cancelling /\ cancelReason \in ORDER_CANCEL_REASONS
  /\ Order = [status |-> "PLACED", cancelReason |-> "none"]
  /\ Order' = [status |-> "CANCELLED", cancelReason |-> cancelReason]

\* Nothing else moves in that step.
LEMMA StreamGrowth ==
  ASSUME SagaInv, SagaInv', Next, events' # events
  PROVE  /\ UNCHANGED <<payment, at, cancelReason>>
         /\ Places \/ Accepts \/ Cancels
<1>1. PICK w \in Writers :
        /\ writer[w].step = "loaded"
        /\ events' = Append(events, EventOf(w, cancelReason))
        /\ EventOf(w, cancelReason) \in OrderEvent
        /\ w[1] \in {"accept", "cancel"} => Len(events) = 1
        /\ w[1] = "place" => Len(events) = 0
        /\ w[1] = "cancel" => cancelReason # "none"
        /\ UNCHANGED <<payVars, at, cancelReason>>
  BY StreamMoves
<1>2. PICK n \in Attempts : w = <<w[1], n>> /\ w[1] \in {"place", "accept", "cancel"}
  BY DEF Writers, WriterOps
<1>3. events \in Seq(OrderEvent) /\ OneTerminalEvent
  BY DEF SagaInv, StoreInv, StoreTypeOK
<1>4. Len(events') = Len(events) + 1 /\ events'[Len(events) + 1] = EventOf(w, cancelReason)
  <2> DEFINE e == EventOf(w, cancelReason)
  <2>1. e \in OrderEvent /\ events' = Append(events, e)
    BY <1>1
  <2> HIDE DEF e
  <2>2. Len(Append(events, e)) = Len(events) + 1
    BY <1>3, <2>1, AppendLength
  <2>3. Append(events, e)[Len(events) + 1] = e
    BY <1>3, <2>1, AppendValues
  <2>4. Len(events') = Len(events) + 1 /\ events'[Len(events) + 1] = e
    BY <2>1, <2>2, <2>3
  <2> QED BY <2>4 DEF e
<1>5. UNCHANGED <<payment, at, cancelReason>>
  BY <1>1 DEF payVars
<1>6. (events \in Seq(OrderEvent) /\ OneTerminalEvent)'
  BY DEF SagaInv, StoreInv, StoreTypeOK
<1>7. /\ Len(events') = 1 => Order' = [status |-> "PLACED", cancelReason |-> "none"]
      /\ Len(events') = 2 =>
           \/ /\ events'[2].type = "OrderAccepted"
              /\ Order' = [status |-> "ACCEPTED", cancelReason |-> "none"]
           \/ /\ events'[2].type = "OrderCancelled"
              /\ Order' = [status |-> "CANCELLED", cancelReason |-> events'[2].reason]
  BY <1>6, ShapeOf DEF OneTerminalEvent, Order
<1>8. CASE w[1] = "place"
  <2>1. Len(events) = 0 /\ Len(events') = 1
    BY <1>1, <1>4, <1>8
  <2>2. events = <<>>
    BY <1>3, <2>1
  <2>3. Order = [status |-> "NONE", cancelReason |-> "none"]
    BY <1>3, <2>1, OrderShape
  <2>4. Order' = [status |-> "PLACED", cancelReason |-> "none"]
    BY <1>7, <2>1
  <2> QED BY <1>5, <2>2, <2>3, <2>4 DEF Places
<1>9. CASE w[1] # "place"
  <2>1. Len(events) = 1
    BY <1>1, <1>2, <1>9
  <2>2. Len(events') = 2 /\ events'[2] = EventOf(w, cancelReason)
    BY <1>4, <2>1
  <2>3. Order = [status |-> "PLACED", cancelReason |-> "none"]
    BY <1>3, <2>1, OrderShape
  <2>4. CASE w[1] = "accept"
    <3>1. Accepting
      BY <1>1, <1>2, <2>4 DEF Accepting
    <3>2. events'[2].type = "OrderAccepted"
      BY <2>2, <2>4 DEF EventOf, OrderAccepted
    <3>3. Order' = [status |-> "ACCEPTED", cancelReason |-> "none"]
      BY <1>7, <2>2, <3>2
    <3> QED BY <1>5, <2>3, <3>1, <3>3 DEF Accepts
  <2>5. CASE w[1] = "cancel"
    <3>1. Cancelling /\ cancelReason \in ORDER_CANCEL_REASONS
      BY <1>1, <1>2, <2>5 DEF Cancelling, SagaInv, Links
    <3>2. events'[2].type = "OrderCancelled" /\ events'[2].reason = cancelReason
      BY <2>2, <2>5 DEF EventOf, OrderCancelled
    <3>3. Order' = [status |-> "CANCELLED", cancelReason |-> cancelReason]
      BY <1>7, <2>2, <3>2
    <3> QED BY <1>5, <2>3, <3>1, <3>3 DEF Cancels
  <2> QED BY <1>2, <1>9, <2>4, <2>5
<1> QED BY <1>8, <1>9

\* A step in which the stream grows places, accepts or cancels the order, and
\* finds the money as the lifecycle demands.
LEMMA StreamStepRefines ==
  ASSUME SagaInv, MoneyInv, CompInv, SagaInv', Next, events' # events
  PROVE  Lifecycle!LifecycleNext
<1>1. payment' = payment /\ (Places \/ Accepts \/ Cancels)
  BY StreamGrowth
<1>2. CASE Places
  <2>1. payment = "NONE"
    BY <1>2 DEF Places, CompInv, Untouched
  <2>2. Order.status = "NONE"
    BY <1>2 DEF Places
  <2>3. Order'.status = "PLACED" /\ Order'.cancelReason = "none"
    BY <1>2 DEF Places
  <2>4. Order.cancelReason = "none"
    BY <1>2 DEF Places
  <2>5. Lifecycle!Place
    BY <1>1, <2>1, <2>2, <2>3, <2>4 DEF Lifecycle!Place
  <2> QED BY <2>5 DEF Lifecycle!LifecycleNext
<1>3. CASE Accepts
  <2>1. payment = "CAPTURED"
    BY <1>3 DEF Accepts, MoneyInv
  <2>2. Lifecycle!Accept
    BY <1>1, <1>3, <2>1 DEF Accepts, Lifecycle!Accept
  <2> QED BY <2>2 DEF Lifecycle!LifecycleNext
<1>4. CASE Cancels
  <2>1. Lifecycle!Agrees(cancelReason)
    BY <1>4 DEF Cancels, Lifecycle!Agrees, CompInv, Untouched
  <2>2. Lifecycle!Cancel(cancelReason)
    BY <1>1, <1>4, <2>1 DEF Cancels, Lifecycle!Cancel
  <2> QED BY <1>4, <2>2 DEF Cancels, Lifecycle!LifecycleNext
<1> QED BY <1>1, <1>2, <1>3, <1>4

\* A step in which the money moves finds the order live, or cancelled with a
\* failed payment.
LEMMA MoneyStepRefines ==
  ASSUME SagaInv, MoneyInv, CompInv, MoneyInv', CompInv', Next,
         events' = events, payment' # payment
  PROVE  Lifecycle!LifecycleNext
<1>1. [PaymentsNext]_payVars /\ PayInv
  BY StepMaps DEF SagaInv
<1>2. events \in Seq(OrderEvent) /\ OneTerminalEvent
  BY DEF SagaInv, StoreInv, StoreTypeOK
<1>3. Order' = Order
  BY DEF Order
<1>4. PICK q \in Requests : request[q] # "idle"
  BY <1>1, RowMoves
<1>5. /\ \/ payment = "NONE" /\ payment' \in {"AUTHORIZED", "DECLINED"}
         \/ payment \in Held /\ payment' \in {"CAPTURED", "VOIDED"}
  BY <1>1, RowMoves
<1>6. ~Untouched /\ events # <<>> /\ cancelReason # "PAYMENT_TIMEOUT"
  BY <1>4 DEF CompInv, Untouched
<1>7. Len(events) # 0
  BY <1>2, <1>6
<1>8. Lifecycle!Unsettled
  <2>1. CASE Len(events) = 1
    BY <1>2, <2>1, OrderShape DEF Lifecycle!Unsettled
  <2>2. CASE Len(events) = 2 /\ events[2].type = "OrderAccepted"
    <3>1. Accepting /\ Accepting'
      <4>1. 2 \in 1 .. Len(events)
        BY <2>2
      <4> QED BY <2>2, <4>1 DEF MoneyInv
    <3>2. payment = "CAPTURED" /\ payment' = "CAPTURED"
      BY <3>1 DEF MoneyInv
    <3> QED BY <3>2
  <2>3. CASE Len(events) = 2 /\ events[2].type = "OrderCancelled"
    <3>1. /\ Cancelling /\ events[2].reason = cancelReason
          /\ Cancelling' /\ events[2].reason = cancelReason'
      <4>1. 2 \in 1 .. Len(events)
        BY <2>3
      <4> QED BY <2>3, <4>1 DEF CompInv
    <3>2. cancelReason \notin {"DECLINED", "SLA_BREACH"}
      <4>1. SUFFICES ASSUME cancelReason \in {"DECLINED", "SLA_BREACH"} PROVE FALSE
        OBVIOUS
      <4>2. payment = "VOIDED" /\ payment' = "VOIDED"
        BY <3>1, <4>1 DEF CompInv
      <4> QED BY <4>2
    <3>3. cancelReason # "none"
      BY <3>1 DEF Cancelling, SagaInv, Links
    <3>4. cancelReason = "PAYMENT_FAILED"
      BY <1>6, <3>2, <3>3 DEF SagaInv, Links, ORDER_CANCEL_REASONS
    <3>5. Order = [status |-> "CANCELLED", cancelReason |-> "PAYMENT_FAILED"]
      BY <1>2, <2>3, <3>1, <3>4, OrderShape
    <3> QED BY <3>5 DEF Lifecycle!Unsettled
  <2> QED BY <1>2, <1>7, <2>1, <2>2, <2>3, OrderShape
<1>9. CASE payment = "NONE"
  BY <1>3, <1>5, <1>8, <1>9 DEF Lifecycle!LifecycleNext, Lifecycle!DecideHold, Held
<1>10. CASE payment # "NONE"
  <2>1. payment \in {"AUTHORIZED", "CAPTURED", "VOIDED"} /\ payment' \in {"CAPTURED", "VOIDED"}
    BY <1>5, <1>10 DEF Held
  <2> QED BY <1>3, <1>8, <2>1 DEF Lifecycle!LifecycleNext, Lifecycle!MoveMoney
<1> QED BY <1>9, <1>10

\* The workflow with its retries, lost answers and racing signals does to an
\* order and its money only what the abstract lifecycle allows, for any
\* number of attempts, any amounts and any threshold.
THEOREM SagaImplementsLifecycle == Spec => ImplementsLifecycle
<1> DEFINE Inv == SagaInv /\ MoneyInv /\ CompInv
<1>1. Init => Inv /\ Lifecycle!LifecycleInit
  BY SagaInitInv, MoneyInitInv, CompInitInv, LifecycleInitially
<1>2. Inv /\ [Next]_vars => Inv'
  BY SagaStep, MoneyStep, CompStep
<1>3. Inv /\ Inv' /\ [Next]_vars
        => [Lifecycle!LifecycleNext]_(Lifecycle!lifecycleVars)
  <2>1. SUFFICES ASSUME Inv, Inv', [Next]_vars,
                        ~(UNCHANGED <<events, payment>>)
                 PROVE  Lifecycle!LifecycleNext
    <3>1. UNCHANGED <<events, payment>> => UNCHANGED Lifecycle!lifecycleVars
      BY DEF Lifecycle!lifecycleVars, Order
    <3> QED BY <3>1
  <2>2. Next
    BY <2>1 DEF vars, storeVars, payVars
  <2>3. CASE events' # events
    BY <2>1, <2>2, <2>3, StreamStepRefines
  <2>4. CASE events' = events
    BY <2>1, <2>2, <2>4, MoneyStepRefines
  <2> QED BY <2>3, <2>4
<1> QED BY <1>1, <1>2, <1>3, PTL DEF Spec, ImplementsLifecycle, Lifecycle!LifecycleSpec

-----------------------------------------------------------------------------
(* The saga implements the stages that pages see.                          *)

\* A confirmation comes to a workflow that has started; a hold is void only at
\* the workflow's word; and it is there, untouched, while a merchant is awaited.
HoldInv ==
  /\ at = "notStarted" => ~confirmed
  /\ payment = "VOIDED" => Voiding
  /\ at = "awaitApproval" => payment = "AUTHORIZED"

\* A hold is voided only by a void.
LEMMA VoidMoves ==
  ASSUME PayInv, [PaymentsNext]_payVars, payment' = "VOIDED", payment # "VOIDED"
  PROVE  Voiding
<1>1. PICK r \in Requests, amount \in Amounts : HandleRequest(r, amount)
  BY DEF PaymentsNext, SendRequest, payVars
<1>2. r[1] = "void" /\ request[r] # "idle"
  BY <1>1 DEF HandleRequest, AuthorizeRead, AuthorizeCreate, TransitionRead, TransitionWrite,
     decideAuthorize, TargetOf
<1>3. PICK n \in Attempts : r = <<r[1], n>>
  BY DEF Requests
<1> QED BY <1>2, <1>3 DEF Voiding

\* The workflow awaits the merchant once an authorization was answered.
LEMMA AskMoves ==
  ASSUME Next
  PROVE  /\ at' = "awaitApproval" =>
              \/ at = "awaitApproval"
              \/ /\ at = "authorize" /\ request[<<"authorize", attempt>>] = "authorized"
                 /\ payment' = payment
         /\ confirmed' # confirmed => at # "notStarted"
<1>1. CASE Authorized
  <2>1. "authorize" \in PaymentStages /\ OpOf("authorize") = "authorize"
    BY DEF PaymentStages, OpOf
  <2> QED BY <1>1, <2>1 DEF Authorized, Answered, payVars, signalVars
<1>2. CASE ConfirmTimeout \/ Authorize \/ AuthorizeFailed \/ Capture \/ Declined \/ SlaBreach
             \/ Captured \/ CaptureFailed \/ VoidedAfterCapture \/ Voided
  BY <1>2 DEF ConfirmTimeout, Authorize, AuthorizeFailed, Capture, Declined, SlaBreach,
     Captured, CaptureFailed, VoidedAfterCapture, Voided, CancelOrder, VoidHold, Schedule,
     signalVars
<1>3. CASE StartWorkflow \/ Accepted \/ DispatchEnds \/ Cancelled \/ WorkflowFails \/ RetryActivity
  BY <1>3 DEF StartWorkflow, Accepted, DispatchEnds, Cancelled, WorkflowFails, RetryActivity,
     Close, signalVars
<1>4. CASE Environment
  BY <1>4 DEF Environment, PlaceOrder, WriterStep, PaymentStep, ConfirmPayment, Running,
     MerchantCheck, MerchantSignal, signalVars
<1> QED BY <1>1, <1>2, <1>3, <1>4 DEF Next, Workflow

\* The hold is kept, one conjunct after the other.
LEMMA HoldStep == SagaInv /\ MoneyInv /\ HoldInv /\ [Next]_vars => HoldInv'
<1> SUFFICES ASSUME SagaInv, MoneyInv, HoldInv, [Next]_vars PROVE HoldInv'
  OBVIOUS
<1>1. CASE UNCHANGED vars
  BY <1>1 DEF vars, payVars, signalVars, HoldInv, Voiding
<1>2. CASE Next
  <2>1. [PaymentsNext]_payVars /\ PayInv /\ Links
    BY StepMaps DEF SagaInv
  <2>2. /\ at' = "awaitApproval" =>
              \/ at = "awaitApproval"
              \/ /\ at = "authorize" /\ request[<<"authorize", attempt>>] = "authorized"
                 /\ payment' = payment
        /\ confirmed' # confirmed => at # "notStarted"
    BY <1>2, AskMoves
  <2>3. at' = "notStarted" => ~confirmed'
    <3>1. at' = "notStarted" => at = "notStarted"
      BY <1>2, <2>1, CancelMoves
    <3> QED BY <2>2, <3>1 DEF HoldInv
  <2>4. payment' = "VOIDED" => Voiding'
    <3>1. payment' = "VOIDED" => Voiding
      BY <2>1, VoidMoves DEF HoldInv
    <3> QED BY <2>1, <3>1, PaymentMoves
  <2>5. ASSUME at \in {"authorize", "awaitApproval"}
        PROVE  ~Voiding /\ ~Capturing
    BY <2>5 DEF MoneyInv, AfterVoid, AfterCapture
  <2>6. at' = "awaitApproval" => payment' = "AUTHORIZED"
    <3>1. CASE at = "awaitApproval"
      <4>1. payment = "AUTHORIZED"
        BY <3>1 DEF HoldInv
      <4>2. payment' # payment => payment' \in {"CAPTURED", "VOIDED"}
        BY <2>1, <4>1, RowMoves
      <4>3. payment' # "VOIDED"
        BY <2>1, <2>5, <3>1, <4>1, VoidMoves
      <4>4. payment' # "CAPTURED"
        BY <2>1, <2>5, <3>1, <4>1, PaymentMoves
      <4> QED BY <4>1, <4>2, <4>3, <4>4
    <3>2. CASE /\ at = "authorize" /\ request[<<"authorize", attempt>>] = "authorized"
               /\ payment' = payment
      <4>1. at \in ActivityStages
        BY <3>2 DEF ActivityStages, PaymentStages
      <4>2. attempt \in Attempts
        BY <2>1, <4>1, AttemptsAssumption DEF MoneyInv, Links, Attempts
      <4>3. <<"authorize", attempt>> \in Requests
        BY <4>2 DEF Requests, PaymentOps
      <4>4. payment \in {"AUTHORIZED", "CAPTURED", "VOIDED"}
        BY <2>1, <3>2, <4>3 DEF PayInv, OneDecision, Held
      <4>5. payment # "VOIDED" /\ payment # "CAPTURED"
        BY <2>5, <3>2 DEF HoldInv, MoneyInv
      <4> QED BY <3>2, <4>4, <4>5
    <3> QED BY <2>2, <3>1, <3>2
  <2> QED BY <2>3, <2>4, <2>6 DEF HoldInv
<1> QED BY <1>1, <1>2

\* How the workflow moves over the stages before an end is recorded.
LEMMA StageOfControl ==
  ASSUME Links, MoneyInv, CompInv, HoldInv, Next
  PROVE  \/ StageUndecided' = StageUndecided
         \/ StageUndecided = "placed" /\ StageUndecided' = "started"
         \/ StageUndecided = "started" /\ StageUndecided' \in {"confirmed", "lapsing"}
         \/ /\ StageUndecided = "confirmed" /\ StageUndecided' = "authorized"
            /\ at' = "awaitApproval"
         \/ StageUndecided \in {"confirmed", "authorized"} /\ StageUndecided' = "settling"
<1> USE DEF StageUndecided
<1>1. CASE UNCHANGED <<at, confirmed, cancelReason>>
  BY <1>1
<1>2. CASE StartWorkflow \/ ConfirmTimeout \/ Authorize \/ ConfirmPayment
  BY <1>2 DEF StartWorkflow, ConfirmTimeout, Authorize, ConfirmPayment, HoldInv, CancelOrder,
     Schedule, signalVars, outcomeVars
<1>3. CASE Authorized
  BY <1>3 DEF Authorized
<1>4. at \in {"authorize", "awaitApproval", "voidAfterCapture"} => cancelReason = "none"
  BY DEF MoneyInv
<1>5. CASE AuthorizeFailed \/ Capture \/ Declined \/ SlaBreach
  BY <1>4, <1>5 DEF AuthorizeFailed, Capture, Declined, SlaBreach, CancelOrder, VoidHold,
     Schedule, signalVars, outcomeVars
<1>6. CASE VoidedAfterCapture
  BY <1>4, <1>6 DEF VoidedAfterCapture, CancelOrder, Schedule
<1>7. CASE Captured \/ CaptureFailed \/ Voided \/ Accepted \/ DispatchEnds \/ Cancelled
             \/ WorkflowFails
  BY <1>7 DEF Captured, CaptureFailed, Voided, Accepted, DispatchEnds, Cancelled,
     WorkflowFails, CancelOrder, Close, Schedule, outcomeVars
<1>8. CASE RetryActivity
  BY <1>1, <1>8 DEF RetryActivity, signalVars, outcomeVars
<1>9. CASE PlaceOrder \/ WriterStep \/ PaymentStep
             \/ \E value \in {"yes", "no"} : MerchantCheck(value) \/ MerchantSignal(value)
  BY <1>1, <1>9 DEF PlaceOrder, WriterStep, PaymentStep, MerchantCheck, MerchantSignal,
     signalVars, outcomeVars
<1> QED BY <1>2, <1>3, <1>5, <1>6, <1>7, <1>8, <1>9 DEF Next, Workflow, Environment

\* The one order behind the mapping, and a step of its stage or of its payment.
LEMMA OneOrder == Stage!Orders = {1}
BY DEF Stage!Orders

LEMMA StageReach ==
  ASSUME NEW st, StageReached' = st, payment' = payment
  PROVE  Stage!Reach(1, st)
BY DEF Stage!Reach, Paid

LEMMA StagePay ==
  ASSUME NEW status, StageReached' = StageReached, Paid' = status
  PROVE  Stage!Pay(1, status)
BY DEF Stage!Pay

\* The money moves in a step of the payments service, which moves nothing else.
LEMMA MoneyAlone ==
  ASSUME Links, Next, payment' # payment
  PROVE  UNCHANGED <<events, at, confirmed, cancelReason>>
<1>1. PaymentStep
  <2>1. ASSUME NEW stage \in ActivityStages, NEW n \in Attempts, Attempting(stage, n)
        PROVE  FALSE
    <3>1. payment' = payment
      BY <2>1, AttemptMaps DEF Attempting, SendRequest, payVars, ActivityStages
    <3> QED BY <3>1
  <2>2. ~PlaceOrder /\ ~WriterStep /\ ~UNCHANGED payVars
    BY DEF PlaceOrder, WriterStep, payVars
  <2> QED BY <2>1, <2>2, StepKinds
<1> QED BY <1>1 DEF PaymentStep, storeVars, signalVars, outcomeVars

\* A step in which the stream grows places the order or records its end, and
\* finds the workflow where that end is recorded from.
LEMMA StreamStepStage ==
  ASSUME SagaInv, MoneyInv, CompInv, SagaInv', Next, events' # events
  PROVE  Stage!StageNext
<1>1. UNCHANGED <<payment, at, cancelReason>> /\ (Places \/ Accepts \/ Cancels)
  BY StreamGrowth
<1>2. ASSUME NEW st,
             \/ st = "accepted" /\ StageReached = "settling" /\ Paid = "CAPTURED"
             \/ st = "cancelled" /\ StageReached = "settling"
             \/ st = "expired" /\ StageReached = "lapsing",
             StageReached' = st
      PROVE  Stage!StageNext
  <2>1. Stage!Reach(1, st)
    BY <1>1, <1>2, StageReach
  <2>2. Stage!WorkflowStep(1)
    BY <1>2, <2>1 DEF Stage!WorkflowStep
  <2> QED BY <2>2, OneOrder DEF Stage!StageNext, Stage!BackEnd
<1>3. CASE Places
  <2>1. at = "notStarted"
    BY <1>3 DEF Places, CompInv
  <2>2. StageReached = "none" /\ StageReached' = "placed"
    BY <1>1, <1>3, <2>1 DEF Places, StageReached, StageUndecided
  <2>3. Stage!Reach(1, "placed")
    BY <1>1, <2>2, StageReach
  <2>4. Stage!PlaceOrder(1)
    BY <2>2, <2>3 DEF Stage!PlaceOrder
  <2> QED BY <2>4, OneOrder DEF Stage!StageNext
<1>4. CASE Accepts
  <2>1. payment = "CAPTURED" /\ at \in AfterAccept /\ ~Untouched
    BY <1>4 DEF Accepts, MoneyInv, Untouched
  <2>2. cancelReason # "PAYMENT_TIMEOUT"
    BY <2>1 DEF CompInv
  <2>3. StageReached = "settling" /\ StageReached' = "accepted" /\ Paid = "CAPTURED"
    BY <1>4, <2>1, <2>2 DEF Accepts, StageReached, StageUndecided, AfterAccept, Paid
  <2> QED BY <1>2, <2>3
<1>5. CASE Cancels
  <2>1. at \in {"cancel", "closed"}
    BY <1>5 DEF Cancels, CompInv
  <2>2. CASE cancelReason = "PAYMENT_TIMEOUT"
    <3>1. StageReached = "lapsing" /\ StageReached' = "expired"
      BY <1>5, <2>1, <2>2 DEF Cancels, StageReached, StageUndecided
    <3> QED BY <1>2, <3>1
  <2>3. CASE cancelReason # "PAYMENT_TIMEOUT"
    <3>1. StageReached = "settling" /\ StageReached' = "cancelled"
      BY <1>5, <2>1, <2>3 DEF Cancels, StageReached, StageUndecided
    <3> QED BY <1>2, <3>1
  <2> QED BY <2>2, <2>3
<1> QED BY <1>1, <1>3, <1>4, <1>5

\* A step in which the money moves decides a hold that was asked for, or settles
\* one, at a stage where OrderStage expects it.
LEMMA MoneyStepStage ==
  ASSUME SagaInv, MoneyInv, CompInv, HoldInv, MoneyInv', Next, payment' # payment
  PROVE  Stage!StageNext
<1>1. [PaymentsNext]_payVars /\ PayInv /\ Links
  BY StepMaps DEF SagaInv
<1>2. UNCHANGED <<events, at, confirmed, cancelReason>>
  BY <1>1, MoneyAlone
<1>3. StageReached' = StageReached
  BY <1>2 DEF StageReached, StageUndecided, Order
<1>4. events \in Seq(OrderEvent) /\ OneTerminalEvent
  BY DEF SagaInv, StoreInv, StoreTypeOK
<1>5. ~Untouched
  BY <1>1, RowMoves DEF Untouched
<1>6. /\ Len(events) = 1 \/ Len(events) = 2
      /\ at \notin {"notStarted", "awaitConfirm"} /\ cancelReason # "PAYMENT_TIMEOUT"
  <2>1. events # <<>>
    BY <1>5 DEF CompInv
  <2>2. Len(events) # 0
    BY <1>4, <2>1
  <2> QED BY <1>4, <1>5, <2>2, OrderShape DEF CompInv
<1>7. CASE Len(events) = 1
  <2>1. Order.status = "PLACED"
    BY <1>4, <1>7, OrderShape
  <2>2. StageReached = IF at = "authorize" THEN "confirmed"
                       ELSE IF at = "awaitApproval" THEN "authorized" ELSE "settling"
    BY <1>6, <2>1 DEF StageReached, StageUndecided
  <2>3. CASE payment = "NONE"
    <3>1. payment' \in {"AUTHORIZED", "DECLINED"}
      BY <1>1, <2>3, RowMoves DEF Held
    <3>2. StageReached \in {"confirmed", "settling"} /\ Paid = "none" /\ Paid' = payment'
      BY <2>2, <2>3, <3>1 DEF HoldInv, Paid
    <3>3. Stage!Pay(1, payment')
      BY <1>3, <3>2, StagePay
    <3>4. Stage!Hold(1)
      BY <3>1, <3>2, <3>3 DEF Stage!Hold
    <3> QED BY <3>4, OneOrder DEF Stage!StageNext, Stage!BackEnd
  <2>4. CASE payment # "NONE"
    <3>1. payment \in {"AUTHORIZED", "CAPTURED", "VOIDED"} /\ payment' \in {"CAPTURED", "VOIDED"}
      BY <1>1, <2>4, RowMoves DEF Held
    <3>2. Capturing \/ Voiding
      BY <1>1, <3>1, PaymentMoves, VoidMoves
    <3>3. StageReached = "settling" /\ Paid = payment /\ Paid' = payment'
      BY <2>2, <3>1, <3>2 DEF MoneyInv, AfterCapture, AfterVoid, Paid
    <3>4. Stage!Pay(1, payment')
      BY <1>3, <3>3, StagePay
    <3>5. Stage!Settle(1)
      BY <3>1, <3>3, <3>4 DEF Stage!Settle, Stage!HeldPayments
    <3> QED BY <3>5, OneOrder DEF Stage!StageNext, Stage!BackEnd
  <2> QED BY <2>3, <2>4
<1>8. CASE Len(events) = 2 /\ events[2].type = "OrderAccepted"
  <2>1. 2 \in 1 .. Len(events) /\ 2 \in 1 .. Len(events')
    BY <1>2, <1>8
  <2>2. Accepting /\ Accepting'
    BY <1>2, <1>8, <2>1 DEF MoneyInv
  <2>3. payment = "CAPTURED" /\ payment' = "CAPTURED"
    BY <2>2 DEF MoneyInv
  <2> QED BY <2>3
<1>9. CASE Len(events) = 2 /\ events[2].type = "OrderCancelled"
  <2>1. 2 \in 1 .. Len(events)
    BY <1>9
  <2>2. events[2].reason = cancelReason
    BY <1>9, <2>1 DEF CompInv
  <2>3. Order.status = "CANCELLED" /\ Order.cancelReason # "PAYMENT_TIMEOUT"
    BY <1>4, <1>6, <1>9, <2>2, OrderShape
  <2>4. StageReached = "cancelled"
    BY <2>3 DEF StageReached
  <2>5. \/ Paid = "none" /\ payment' \in {"AUTHORIZED", "DECLINED"}
        \/ Paid \in {"AUTHORIZED", "CAPTURED", "VOIDED"} /\ payment' \in {"CAPTURED", "VOIDED"}
    BY <1>1, RowMoves DEF Paid, Held
  <2>6. Stage!Pay(1, payment')
    <3>1. Paid' = payment'
      BY <2>5 DEF Paid
    <3> QED BY <1>3, <3>1, StagePay
  <2>7. Stage!Hold(1) \/ Stage!Settle(1)
    BY <2>4, <2>5, <2>6 DEF Stage!Hold, Stage!Settle, Stage!HeldPayments
  <2> QED BY <2>7, OneOrder DEF Stage!StageNext, Stage!BackEnd
<1> QED BY <1>4, <1>6, <1>7, <1>8, <1>9, OrderShape

\* Every other step is one of the workflow on its way to an end, or leaves the
\* stage alone.
LEMMA ControlStepStage ==
  ASSUME SagaInv, MoneyInv, CompInv, HoldInv, HoldInv', Next,
         events' = events, payment' = payment
  PROVE  [Stage!StageNext]_(Stage!orderVars)
<1>1. Order' = Order
  BY DEF Order
<1>2. CASE StageReached' = StageReached
  BY <1>2 DEF Stage!orderVars, Paid
<1>3. CASE StageReached' # StageReached
  <2>1. StageReached = StageUndecided /\ StageReached' = StageUndecided'
    BY <1>1, <1>3 DEF StageReached
  <2>2. \/ StageReached = "placed" /\ StageReached' = "started"
        \/ StageReached = "started" /\ StageReached' \in {"confirmed", "lapsing"}
        \/ /\ StageReached = "confirmed" /\ StageReached' = "authorized"
           /\ at' = "awaitApproval"
        \/ StageReached \in {"confirmed", "authorized"} /\ StageReached' = "settling"
    <3>1. Links
      BY DEF SagaInv
    <3> QED BY <1>3, <2>1, <3>1, StageOfControl
  <2>3. at' = "awaitApproval" => Paid = "AUTHORIZED"
    BY DEF HoldInv, Paid
  <2>4. Stage!Reach(1, StageReached')
    BY StageReach
  <2>5. Stage!ConfirmPayment(1) \/ Stage!WorkflowStep(1)
    <3>1. CASE StageReached = "started" /\ StageReached' = "confirmed"
      BY <2>4, <3>1 DEF Stage!ConfirmPayment
    <3>2. CASE ~(StageReached = "started" /\ StageReached' = "confirmed")
      BY <2>2, <2>3, <2>4, <3>2 DEF Stage!WorkflowStep
    <3> QED BY <3>1, <3>2
  <2> QED BY <2>5, OneOrder DEF Stage!StageNext, Stage!BackEnd
<1> QED BY <1>2, <1>3

\* Nothing is awaited, confirmed or held before the order is placed.
LEMMA StageInitially == Init => HoldInv /\ Stage!StageInit
<1> SUFFICES ASSUME Init PROVE HoldInv /\ Stage!StageInit
  OBVIOUS
<1>1. at = "notStarted" /\ ~confirmed /\ events = <<>> /\ payment = "NONE" /\ Len(events) = 0
  BY DEF Init, StoreInit, PaymentsInit
<1>2. events \in Seq(OrderEvent) /\ OneTerminalEvent
  BY <1>1 DEF OneTerminalEvent
<1>3. Order = [status |-> "NONE", cancelReason |-> "none"]
  BY <1>1, <1>2, OrderShape
<1>4. StageReached = "none" /\ Paid = "none"
  BY <1>1, <1>3 DEF StageReached, Paid
<1> QED BY <1>1, <1>4, OneOrder DEF HoldInv, Stage!StageInit

\* With its retries, its lost attempts and requests that are served late, the
\* saga shows the pages of customers and merchants only the stages of OrderStage:
\* no money is held before the customer confirmed, none moves before the workflow
\* has decided, an acceptance stands on a captured payment (workflows.ts 51-110).
THEOREM SagaImplementsStage == Spec => ImplementsStage
<1> DEFINE Inv == SagaInv /\ MoneyInv /\ CompInv /\ HoldInv
<1>1. Init => Inv /\ Stage!StageInit
  BY SagaInitInv, MoneyInitInv, CompInitInv, StageInitially
<1>2. Inv /\ [Next]_vars => Inv'
  BY SagaStep, MoneyStep, CompStep, HoldStep
<1>3. Inv /\ Inv' /\ [Next]_vars => [Stage!StageNext]_(Stage!orderVars)
  <2>1. SUFFICES ASSUME Inv, Inv', [Next]_vars PROVE [Stage!StageNext]_(Stage!orderVars)
    OBVIOUS
  <2>2. CASE UNCHANGED vars
    <3>1. UNCHANGED <<events, payment, at, confirmed, cancelReason>>
      BY <2>2 DEF vars, storeVars, payVars, signalVars, outcomeVars
    <3>2. StageReached' = StageReached /\ Paid' = Paid
      BY <3>1 DEF StageReached, StageUndecided, Order, Paid
    <3> QED BY <3>2 DEF Stage!orderVars
  <2>3. CASE Next
    <3>1. CASE events' # events
      BY <2>1, <2>3, <3>1, StreamStepStage
    <3>2. CASE payment' # payment
      BY <2>1, <2>3, <3>2, MoneyStepStage
    <3>3. CASE events' = events /\ payment' = payment
      BY <2>1, <2>3, <3>3, ControlStepStage
    <3> QED BY <3>1, <3>2, <3>3
  <2> QED BY <2>1, <2>2, <2>3
<1> QED BY <1>1, <1>2, <1>3, PTL DEF Spec, ImplementsStage, Stage!StageSpec

-----------------------------------------------------------------------------
(* The merchant's gate.                                                    *)

\* A merchant request past its check has seen a hold, and a hold never goes
\* away again, so the signal that follows still speaks of one.
GateInv == checked # {} \/ approved # "unset" => payment \in Held

\* What the steps do to the signals.
LEMMA SignalMoves ==
  ASSUME Next
  PROVE  \/ UNCHANGED <<checked, approved>>
         \/ payment = "AUTHORIZED" /\ approved' = approved
         \/ checked # {}
<1>1. ASSUME Workflow
      PROVE  UNCHANGED <<checked, approved>>
  BY <1>1 DEF Workflow, StartWorkflow, ConfirmTimeout, Authorize, Authorized,
     AuthorizeFailed, Capture, Declined, SlaBreach, Captured, CaptureFailed,
     VoidedAfterCapture, Voided, Accepted, DispatchEnds, Cancelled, WorkflowFails,
     RetryActivity, CancelOrder, VoidHold, signalVars
<1>2. ASSUME PlaceOrder \/ WriterStep \/ PaymentStep \/ ConfirmPayment
      PROVE  UNCHANGED <<checked, approved>>
  BY <1>2 DEF PlaceOrder, WriterStep, PaymentStep, ConfirmPayment, signalVars
<1>3. ASSUME NEW value \in {"yes", "no"}, MerchantCheck(value) \/ MerchantSignal(value)
      PROVE  \/ payment = "AUTHORIZED" /\ approved' = approved
             \/ checked # {}
  BY <1>3 DEF MerchantCheck, MerchantSignal
<1> QED BY <1>1, <1>2, <1>3 DEF Next, Environment

\* A merchant's answer never reaches the workflow of an order without a hold:
\* the 409 of accept and decline cannot be overtaken, although the look at
\* the payment and the signal are two calls (accept.controller.ts).
THEOREM GateHolds == Spec => []MerchantGate
<1>1. Init => GateInv
  BY DEF Init, GateInv
<1>2. SagaInv /\ GateInv /\ [Next]_vars => GateInv'
  <2>1. SUFFICES ASSUME SagaInv, GateInv, [Next]_vars PROVE GateInv'
    OBVIOUS
  <2>2. CASE UNCHANGED vars
    BY <2>1, <2>2 DEF vars, payVars, signalVars, GateInv
  <2>3. CASE Next
    <3>1. payment \in Held => payment' \in Held
      <4>1. PayInv /\ [PaymentsNext]_payVars
        BY <2>1, StepMaps DEF SagaInv
      <4>2. payment' # payment =>
              \/ payment = "NONE" /\ payment' \in {"AUTHORIZED", "DECLINED"}
              \/ payment \in Held /\ payment' \in {"CAPTURED", "VOIDED"}
        BY <4>1, RowMoves
      <4> QED BY <4>2 DEF Held
    <3>2. \/ UNCHANGED <<checked, approved>>
          \/ payment = "AUTHORIZED" /\ approved' = approved
          \/ checked # {}
      BY <2>3, SignalMoves
    <3>3. payment = "AUTHORIZED" => payment \in Held
      BY DEF Held
    <3> QED BY <2>1, <3>1, <3>2, <3>3 DEF GateInv
  <2> QED BY <2>1, <2>2, <2>3
<1>3. GateInv => MerchantGate
  BY DEF GateInv, MerchantGate
<1> QED BY <1>1, <1>2, <1>3, SagaInitInv, SagaStep, PTL DEF Spec

-----------------------------------------------------------------------------
(* What the workflow returns.                                              *)

AcceptDone == \E n \in Attempts : writer[<<"accept", n>>].step = "done"
CancelDone == \E n \in Attempts : writer[<<"cancel", n>>].step = "done"
CancelledResults == Results \ {"DELIVERED", "DISPATCH_FAILED", "FAILED"}

\* Every recording attempt has loaded an order that exists, and the workflow
\* returns only on the answer of one.
ResultInv ==
  /\ \A w \in Writers : w[1] # "place" /\ writer[w].step \in {"loaded", "done", "conflict"} =>
       writer[w].version > 0
  /\ result # "none" => at = "closed"
  /\ at = "dispatch" \/ result \in {"DELIVERED", "DISPATCH_FAILED"} => AcceptDone
  /\ result \in CancelledResults => CancelDone /\ result = ResultOf(cancelReason)

\* Nothing has been recorded or returned at the start.
LEMMA ResultInitInv == Init => ResultInv
<1> SUFFICES ASSUME Init PROVE ResultInv
  OBVIOUS
<1>1. \A w \in Writers : writer[w].step = "idle"
  BY DEF Init, StoreInit
<1>2. at = "notStarted" /\ result = "none"
  BY DEF Init
<1>3. "none" \notin CancelledResults
  BY DEF CancelledResults, Results
<1> QED BY <1>1, <1>2, <1>3 DEF ResultInv

\* How the workflow gets to dispatching, and to what it returns.
LEMMA ReturnMoves ==
  ASSUME Links, Next
  PROVE  /\ at' = "dispatch" =>
              \/ at = "dispatch"
              \/ at = "accept" /\ writer[<<"accept", attempt>>].step = "done"
         /\ at = "closed" => at' = "closed" /\ UNCHANGED <<result, cancelReason>>
         /\ result' = result
            \/ /\ at' = "closed"
               /\ \/ result' \in {"DELIVERED", "DISPATCH_FAILED"} /\ at = "dispatch"
                  \/ result' = "FAILED"
                  \/ /\ result' = ResultOf(cancelReason) /\ cancelReason' = cancelReason
                     /\ at = "cancel" /\ writer[<<"cancel", attempt>>].step = "done"
<1>1. CASE UNCHANGED <<at, cancelReason, result>>
  BY <1>1
<1>2. CASE RetryActivity
  BY <1>2 DEF RetryActivity, outcomeVars
<1>3. CASE ConfirmTimeout \/ AuthorizeFailed \/ VoidedAfterCapture \/ Voided
             \/ Declined \/ SlaBreach
  BY <1>3 DEF ConfirmTimeout, AuthorizeFailed, VoidedAfterCapture, Voided,
     Declined, SlaBreach, CancelOrder, VoidHold, Schedule
<1>4. CASE StartWorkflow \/ Authorize \/ Authorized \/ Capture \/ Captured \/ CaptureFailed
  BY <1>4 DEF StartWorkflow, Authorize, Authorized, Capture, Captured, CaptureFailed,
     Schedule, outcomeVars
<1>5. CASE Accepted
  <2>1. "accept" \notin PaymentStages
    BY DEF PaymentStages
  <2> QED BY <1>5, <2>1 DEF Accepted, Answered, outcomeVars
<1>6. CASE DispatchEnds \/ WorkflowFails
  BY <1>6 DEF DispatchEnds, WorkflowFails, Close
<1>7. CASE Cancelled
  <2>1. "cancel" \notin PaymentStages
    BY DEF PaymentStages
  <2> QED BY <1>7, <2>1 DEF Cancelled, Answered, Close
<1>8. CASE Environment
  BY <1>1, <1>8 DEF Environment, PlaceOrder, WriterStep, PaymentStep, ConfirmPayment,
     MerchantCheck, MerchantSignal, outcomeVars
<1> QED BY <1>2, <1>3, <1>4, <1>5, <1>6, <1>7, <1>8 DEF Next, Workflow

\* How writers move: an answered writer is left alone, and a writer that has
\* loaded holds the version of the stream it found.
LEMMA WriterVersions ==
  ASSUME StoreInv, [StoreNext]_storeVars, NEW w \in Writers
  PROVE  /\ writer[w].step \in {"done", "conflict"} => writer'[w] = writer[w]
         /\ writer'[w].step \in {"loaded", "done", "conflict"} =>
              \/ writer[w].step \in {"loaded", "done", "conflict"}
                 /\ writer'[w].version = writer[w].version
              \/ writer[w].step = "started" /\ writer'[w].version = Len(events)
<1>1. /\ writer \in [Writers -> [step : WriterSteps, version : Nat]]
  BY DEF StoreInv, StoreTypeOK
<1>2. CASE UNCHANGED storeVars
  BY <1>2 DEF storeVars
<1>3. ASSUME NEW v \in Writers, StartWriter(v)
      PROVE  /\ writer[w].step \in {"done", "conflict"} => writer'[w] = writer[w]
             /\ writer'[w].step \in {"loaded", "done", "conflict"} =>
                  writer[w].step \in {"loaded", "done", "conflict"}
                    /\ writer'[w].version = writer[w].version
  BY <1>1, <1>3 DEF StartWriter
<1>4. ASSUME NEW v \in Writers, Load(v)
      PROVE  /\ v # w => writer'[w] = writer[w]
             /\ writer[v].step = "started" /\ writer'[v].version = Len(events)
  <2>1. loadAggregate(events).version = Len(events)
    BY LoadedStatus DEF StoreInv, StoreTypeOK
  <2> QED BY <1>1, <1>4, <2>1 DEF Load
<1>5. ASSUME NEW v \in Writers, NEW r \in ORDER_CANCEL_REASONS, AppendEvent(v, r)
      PROVE  /\ v # w => writer'[w] = writer[w]
             /\ writer[v].step = "loaded" /\ writer'[v].version = writer[v].version
  BY <1>1, <1>5 DEF AppendEvent
<1> QED BY <1>2, <1>3, <1>4, <1>5 DEF StoreNext

\* The invariant about the result is kept.
LEMMA ResultStep ==
  SagaInv /\ MoneyInv /\ CompInv /\ ResultInv /\ [Next]_vars => ResultInv'
<1> SUFFICES ASSUME SagaInv, MoneyInv, CompInv, ResultInv, [Next]_vars PROVE ResultInv'
  OBVIOUS
<1>1. CASE UNCHANGED vars
  BY <1>1 DEF vars, storeVars, outcomeVars, ResultInv, AcceptDone, CancelDone
<1>2. CASE Next
  <2>1. [StoreNext]_storeVars /\ StoreInv /\ Links
    BY StepMaps DEF SagaInv
  <2>2. ASSUME NEW w \in Writers, w[1] # "place",
               writer'[w].step \in {"loaded", "done", "conflict"}
        PROVE  writer'[w].version > 0
    <3>1. CASE writer[w].step \in {"loaded", "done", "conflict"}
                 /\ writer'[w].version = writer[w].version
      BY <2>2, <3>1 DEF ResultInv
    <3>2. CASE writer[w].step = "started" /\ writer'[w].version = Len(events)
      <4>1. PICK n \in Attempts : w = <<w[1], n>> /\ w[1] \in {"accept", "cancel"}
        BY <2>2 DEF Writers, WriterOps
      <4>2. Accepting \/ Cancelling
        BY <3>2, <4>1 DEF Accepting, Cancelling
      <4>3. at # "notStarted"
        BY <4>2 DEF MoneyInv, CompInv, AfterAccept
      <4>4. events # <<>> /\ events \in Seq(OrderEvent)
        BY <2>1, <4>3 DEF CompInv, StoreInv, StoreTypeOK
      <4> QED BY <3>2, <4>4
    <3> QED BY <2>1, <2>2, <3>1, <3>2, WriterVersions
  <2>3. (AcceptDone => AcceptDone') /\ (CancelDone => CancelDone')
    BY <2>1, WriterVersions, NamedAttempts DEF AcceptDone, CancelDone
  <2> DEFINE Control ==
        /\ at' = "dispatch" =>
             \/ at = "dispatch"
             \/ at = "accept" /\ writer[<<"accept", attempt>>].step = "done"
        /\ at = "closed" => at' = "closed" /\ UNCHANGED <<result, cancelReason>>
        /\ result' = result
           \/ /\ at' = "closed"
              /\ \/ result' \in {"DELIVERED", "DISPATCH_FAILED"} /\ at = "dispatch"
                 \/ result' = "FAILED"
                 \/ /\ result' = ResultOf(cancelReason) /\ cancelReason' = cancelReason
                    /\ at = "cancel" /\ writer[<<"cancel", attempt>>].step = "done"
  <2>4. Control
    BY <1>2, <2>1, ReturnMoves
  <2>5. at \in {"accept", "cancel"} => attempt \in Attempts
    BY AttemptsAssumption DEF MoneyInv, SagaInv, Links, Attempts, ActivityStages, RecordStages
  <2>6. at = "accept" /\ writer[<<"accept", attempt>>].step = "done" => AcceptDone
    BY <2>5 DEF AcceptDone
  <2>7. at = "cancel" /\ writer[<<"cancel", attempt>>].step = "done" => CancelDone
    BY <2>5 DEF CancelDone
  <2>8. result' # "none" => at' = "closed"
    BY <2>4 DEF ResultInv
  <2>9. CASE result' = result
    <3>1. at' = "dispatch" \/ result' \in {"DELIVERED", "DISPATCH_FAILED"} => AcceptDone'
      BY <2>3, <2>4, <2>6, <2>9 DEF ResultInv
    <3>2. result' \in CancelledResults => CancelDone' /\ result' = ResultOf(cancelReason')
      <4>1. "none" \notin CancelledResults
        BY DEF CancelledResults, Results
      <4>2. result \in CancelledResults => cancelReason' = cancelReason
        BY <2>4, <4>1 DEF ResultInv
      <4> QED BY <2>3, <2>9, <4>2 DEF ResultInv
    <3> QED BY <2>2, <2>8, <3>1, <3>2 DEF ResultInv
  <2>10. CASE result' # result
    <3>1. at' = "closed"
      BY <2>4, <2>10
    <3>2. CASE result' \in {"DELIVERED", "DISPATCH_FAILED"} /\ at = "dispatch"
      <4>1. AcceptDone'
        BY <2>3, <3>2 DEF ResultInv
      <4>2. result' \notin CancelledResults
        BY <3>2 DEF CancelledResults
      <4> QED BY <2>2, <2>8, <4>1, <4>2 DEF ResultInv
    <3>3. CASE result' = "FAILED"
      <4>1. result' \notin CancelledResults
        BY <3>3 DEF CancelledResults
      <4> QED BY <2>2, <2>8, <3>1, <3>3, <4>1 DEF ResultInv
    <3>4. CASE /\ result' = ResultOf(cancelReason) /\ cancelReason' = cancelReason
               /\ at = "cancel" /\ writer[<<"cancel", attempt>>].step = "done"
      <4>1. CancelDone' /\ result' = ResultOf(cancelReason')
        BY <2>3, <2>7, <3>4
      <4>2. cancelReason \in ORDER_CANCEL_REASONS
        BY <2>1, <3>4 DEF Links
      <4>3. result' \notin {"DELIVERED", "DISPATCH_FAILED"}
        BY <3>4, <4>2 DEF ResultOf, ORDER_CANCEL_REASONS
      <4> QED BY <2>2, <2>8, <3>1, <4>1, <4>3 DEF ResultInv
    <3> QED BY <2>4, <2>10, <3>2, <3>3, <3>4
  <2> QED BY <2>9, <2>10
<1> QED BY <1>1, <1>2

\* What the workflow returns is what the stream says, although each recording
\* is a no-op on an order that is settled already (activities.ts): no
\* acceptance is ever reported as a cancellation, or the reverse.
THEOREM ResultIsTheOrder == Spec => []ResultMatchesOrder
<1> DEFINE Inv == /\ SagaInv /\ MoneyInv /\ CompInv /\ ResultInv
                  /\ RecordedMeansSettled /\ ConflictMeansBeaten
<1>1. Init => Inv
  BY SagaInitInv, MoneyInitInv, CompInitInv, ResultInitInv, SettledInit DEF Init
<1>2. Inv /\ [Next]_vars => Inv'
  <2>1. SUFFICES ASSUME Inv, [Next]_vars PROVE Inv'
    OBVIOUS
  <2>2. SagaInv' /\ MoneyInv' /\ CompInv' /\ ResultInv'
    BY <2>1, SagaStep, MoneyStep, CompStep, ResultStep
  <2>3. RecordedMeansSettled' /\ ConflictMeansBeaten'
    BY <2>1, StepMaps, SettledStep DEF SagaInv
  <2> QED BY <2>2, <2>3
<1>3. Inv => ResultMatchesOrder
  <2>1. SUFFICES ASSUME Inv PROVE ResultMatchesOrder
    OBVIOUS
  <2>2. events \in Seq(OrderEvent) /\ OneTerminalEvent
    BY <2>1 DEF SagaInv, StoreInv, StoreTypeOK
  <2>3. ASSUME NEW w \in Writers, w[1] # "place", writer[w].step = "done"
        PROVE  Len(events) = 2 /\ 2 \in 1 .. Len(events)
    <3>1. Len(events) = 2
      BY <2>1, <2>3 DEF ResultInv, RecordedMeansSettled
    <3> QED BY <3>1
  <2>4. ASSUME AcceptDone
        PROVE  Order.status = "ACCEPTED"
    <3>1. Len(events) = 2 /\ 2 \in 1 .. Len(events)
      BY <2>3, <2>4, NamedAttempts DEF AcceptDone
    <3>2. ~Cancelling
      BY <2>1, <2>4 DEF AcceptDone, Accepting, CompInv
    <3>3. events[2].type # "OrderCancelled"
      BY <2>1, <3>1, <3>2 DEF CompInv
    <3> QED BY <2>2, <3>1, <3>3, OrderShape
  <2>5. ASSUME CancelDone
        PROVE  Order.status = "CANCELLED" /\ Order.cancelReason = cancelReason
    <3>1. Len(events) = 2 /\ 2 \in 1 .. Len(events)
      BY <2>3, <2>5, NamedAttempts DEF CancelDone
    <3>2. ~Accepting
      BY <2>1, <2>5 DEF CancelDone, Cancelling, CompInv
    <3>3. events[2].type # "OrderAccepted"
      BY <2>1, <3>1, <3>2 DEF MoneyInv
    <3>4. events[2].type = "OrderCancelled"
            /\ Order = [status |-> "CANCELLED", cancelReason |-> events[2].reason]
      BY <2>2, <3>1, <3>3, OrderShape
    <3>5. events[2].reason = cancelReason
      BY <2>1, <3>1, <3>4 DEF CompInv
    <3> QED BY <3>4, <3>5
  <2>6. result \in {"DELIVERED", "DISPATCH_FAILED"} => Order.status = "ACCEPTED"
    BY <2>1, <2>4 DEF ResultInv
  <2>7. result \in CancelledResults =>
          Order.status = "CANCELLED" /\ result = ResultOf(Order.cancelReason)
    BY <2>1, <2>5 DEF ResultInv
  <2> QED BY <2>6, <2>7 DEF ResultMatchesOrder, CancelledResults
<1> QED BY <1>1, <1>2, <1>3, PTL DEF Spec
=============================================================================
