------------------------------ MODULE Payments ------------------------------
(***************************************************************************)
(* The payments service: the payment row of one order, and the HTTP        *)
(* requests that work on it (payments.service.ts, payment-rules.ts).       *)
(* Every handler reads the row with one query and writes it with another,  *)
(* outside any transaction, and the write is conditional on nothing: a     *)
(* request may write a status decided on a row that has changed since.     *)
(*                                                                         *)
(* A request is <<op, id>>; several of the same operation are the retries  *)
(* of the saga's activity, of which an earlier one may still be running.   *)
(* A request that takes no further step is one that was lost.              *)
(***************************************************************************)
EXTENDS Naturals, ActivityAttempts

CONSTANTS
  Amounts,             \* order totals, in pence
  DeclineThreshold     \* AUTH_DECLINE_THRESHOLD

ASSUME AmountAssumption == Amounts \subseteq Nat /\ DeclineThreshold \in Nat

VARIABLES
  payment,             \* the row's status, "NONE" while there is no row
  request              \* for each request, how far it has come

payVars == <<payment, request>>

PaymentOps == {"authorize", "capture", "void"}
Requests == PaymentOps \X Attempts

PaymentStatus == {"AUTHORIZED", "CAPTURED", "VOIDED", "DECLINED"}

\* "writing": the row was read and the handler is about to write.  The
\* answers are 200 with "authorized", "declined" or "done" (captured, voided),
\* 4xx ("rejected") and 5xx ("error").
RequestSteps ==
  {"idle", "sent", "writing", "authorized", "declined", "done", "rejected", "error"}

PaymentsTypeOK ==
  /\ payment \in PaymentStatus \cup {"NONE"}
  /\ request \in [Requests -> RequestSteps]

PaymentsInit ==
  /\ payment = "NONE"
  /\ request = [r \in Requests |-> "idle"]

-----------------------------------------------------------------------------

\* payment-rules.ts.  CaptureFrom and VoidFrom are the statuses nextOnCapture
\* and nextOnVoid do not throw for.
decideAuthorize(amount) ==
  IF amount >= DeclineThreshold THEN "DECLINED" ELSE "AUTHORIZED"

CaptureFrom == {"AUTHORIZED", "CAPTURED"}
VoidFrom == {"AUTHORIZED", "VOIDED"}

AllowedFrom(op) == IF op = "capture" THEN CaptureFrom ELSE VoidFrom
TargetOf(op) == IF op = "capture" THEN "CAPTURED" ELSE "VOIDED"

Answer(r, answer) == request' = [request EXCEPT ![r] = answer]

SendRequest(r) ==
  /\ request[r] = "idle"
  /\ request' = [request EXCEPT ![r] = "sent"]
  /\ UNCHANGED payment

\* authorize: a row that exists is the prior decision; without one the
\* handler goes on to create it.  (Mutated forms: AnyRowHolds takes any row for
\* a hold, AuthorizeOverwrite creates over a row.)
AnyRowHolds(status) == "authorized"
DecisionOf(status) == IF status = "DECLINED" THEN "declined" ELSE "authorized"

AuthorizeRead(r) ==
  /\ r[1] = "authorize" /\ request[r] = "sent"
  /\ Answer(r, IF payment = "NONE" THEN "writing" ELSE DecisionOf(payment))
  /\ UNCHANGED payment

AuthorizeOverwrite(r, amount) ==
  /\ r[1] = "authorize" /\ request[r] = "writing"
  /\ payment' = decideAuthorize(amount)
  /\ Answer(r, DecisionOf(payment'))

\* create, or a 5xx when a concurrent request has created the row.
AuthorizeCreate(r, amount) ==
  /\ r[1] = "authorize" /\ request[r] = "writing"
  /\ IF payment = "NONE"
       THEN /\ payment' = decideAuthorize(amount)
            /\ Answer(r, DecisionOf(payment'))
       ELSE /\ Answer(r, "error")
            /\ UNCHANGED payment

\* transition, up to the update: 404 without a row, 409 from a status that
\* forbids it, nothing to write when the row is there already.
TransitionRead(r) ==
  /\ r[1] \in {"capture", "void"} /\ request[r] = "sent"
  /\ Answer(r, IF payment \notin AllowedFrom(r[1]) THEN "rejected"
               ELSE IF payment = TargetOf(r[1]) THEN "done" ELSE "writing")
  /\ UNCHANGED payment

\* the update, whatever the row holds by now.
TransitionWrite(r) ==
  /\ r[1] \in {"capture", "void"} /\ request[r] = "writing"
  /\ payment' = TargetOf(r[1])
  /\ Answer(r, "done")

HandleRequest(r, amount) ==
  \/ AuthorizeRead(r)
  \/ AuthorizeCreate(r, amount)
  \/ TransitionRead(r)
  \/ TransitionWrite(r)

PaymentsNext ==
  \E r \in Requests :
    \/ SendRequest(r)
    \/ \E amount \in Amounts : HandleRequest(r, amount)

PaymentsSpec == PaymentsInit /\ [][PaymentsNext]_payVars

-----------------------------------------------------------------------------

Held == {"AUTHORIZED", "CAPTURED", "VOIDED"}

\* The authorization is decided once: every answer ever given agrees with the
\* row, whatever was captured or voided since and however many authorize
\* requests ran side by side.
OneDecision ==
  \A r \in Requests :
    /\ request[r] = "authorized" => payment \in Held
    /\ request[r] = "declined" => payment = "DECLINED"

\* An authorize request that loses the race to create the row gets a 5xx,
\* and the decision is there for its retry to find.
ErrorMeansDecided ==
  \A r \in Requests : request[r] = "error" => payment # "NONE"

\* Racing authorize requests share one verdict, which their retries find.
OneVerdict == OneDecision /\ ErrorMeansDecided

\* No sequence of captures and voids moves money that was refused.
RefusedIsFinal == [][payment = "DECLINED" => payment' = "DECLINED"]_payment

\* Money that was taken or given back stays so: a capture of a voided payment
\* or a void of a captured one is refused, "the service enforces the state
\* machine".  A capture and a void that overlap break it.
SettledIsFinal ==
  [][(payment \in {"CAPTURED", "VOIDED"}) => (payment' = payment)]_payment
=============================================================================
