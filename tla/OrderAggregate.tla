--------------------------- MODULE OrderAggregate ---------------------------
(***************************************************************************)
(* The pure Order aggregate of packages/shared/src/order-aggregate.ts: an  *)
(* order is the fold of its event rows, and each command is a decision on  *)
(* the folded state.  An event keeps its type and, for a cancellation, its *)
(* reason; customer, items and amount are carried through the fold without *)
(* being looked at and are left out.                                       *)
(***************************************************************************)
EXTENDS Naturals, Sequences

\* Why an order is cancelled; "none" is the reason other events lack.
ORDER_CANCEL_REASONS ==
  {"SLA_BREACH", "DECLINED", "PAYMENT_FAILED", "PAYMENT_TIMEOUT"}

OrderEvent ==
  [type : {"OrderPlaced", "OrderAccepted"}, reason : {"none"}]
    \cup [type : {"OrderCancelled"}, reason : ORDER_CANCEL_REASONS]

OrderPlaced == [type |-> "OrderPlaced", reason |-> "none"]
OrderAccepted == [type |-> "OrderAccepted", reason |-> "none"]
OrderCancelled(reason) == [type |-> "OrderCancelled", reason |-> reason]

\* "NONE" is the null status of an order that does not exist yet.
OrderState ==
  [status : {"NONE", "PLACED", "ACCEPTED", "CANCELLED"},
   cancelReason : ORDER_CANCEL_REASONS \cup {"none"}]

INITIAL_ORDER_STATE == [status |-> "NONE", cancelReason |-> "none"]

foldOrder(state, event) ==
  CASE event.type = "OrderPlaced" -> [status |-> "PLACED", cancelReason |-> "none"]
    [] event.type = "OrderAccepted" -> [state EXCEPT !.status = "ACCEPTED"]
    [] event.type = "OrderCancelled" ->
         [status |-> "CANCELLED", cancelReason |-> event.reason]
    [] OTHER -> state

\* loadAggregate: the state after every row, and the version of the last one.
\* Row n carries version n (see VersionsAreTaken in OrderEventStore).
loadAggregate(events) ==
  LET after[n \in 0 .. Len(events)] ==
        IF n = 0 THEN INITIAL_ORDER_STATE
                 ELSE foldOrder(after[n - 1], events[n])
  IN [state |-> after[Len(events)], version |-> Len(events)]

\* The three commands: whether the decision yields an event.  place answers
\* null for an order that exists, accept and cancel throw
\* InvalidTransitionError unless the order is PLACED.
place(state) == state.status = "NONE"
accept(state) == state.status = "PLACED"
cancel(state) == state.status = "PLACED"
=============================================================================
