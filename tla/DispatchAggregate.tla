------------------------- MODULE DispatchAggregate -------------------------
(***************************************************************************)
(* The pure DriverDispatch aggregate of                                    *)
(* packages/shared/src/dispatch-aggregate.ts: the fold of a dispatch's     *)
(* event rows, and the commands that may add one.  An event is its type    *)
(* with the driver it names, or the reason of a failure.                   *)
(***************************************************************************)
EXTENDS Naturals, Sequences

CONSTANT Drivers

DISPATCH_FAIL_REASONS == {"NO_DRIVERS_AVAILABLE", "DELIVERY_TIMEOUT"}

DriverOffered(d) == [type |-> "DriverOffered", detail |-> d]
DispatchAccepted(d) == [type |-> "DispatchAccepted", detail |-> d]
OrderPickedUp == [type |-> "OrderPickedUp", detail |-> "none"]
OrderDelivered == [type |-> "OrderDelivered", detail |-> "none"]
DispatchFailed(reason) == [type |-> "DispatchFailed", detail |-> reason]

DispatchEvent ==
  [type : {"DriverOffered", "DispatchAccepted"}, detail : Drivers]
    \cup {OrderPickedUp, OrderDelivered}
    \cup [type : {"DispatchFailed"}, detail : DISPATCH_FAIL_REASONS]

\* "NONE" stands for the null status, "none" for a field not set.
INITIAL_DISPATCH_STATE ==
  [status |-> "NONE", offeredDriver |-> "none", driver |-> "none"]

foldDispatch(state, event) ==
  CASE event.type = "DriverOffered" ->
         [state EXCEPT !.status = "OFFERED", !.offeredDriver = event.detail]
    [] event.type = "DispatchAccepted" ->
         [state EXCEPT !.status = "DISPATCHED", !.driver = event.detail]
    [] event.type = "OrderPickedUp" -> [state EXCEPT !.status = "PICKED_UP"]
    [] event.type = "OrderDelivered" -> [state EXCEPT !.status = "DELIVERED"]
    [] event.type = "DispatchFailed" -> [state EXCEPT !.status = "FAILED"]

\* loadAggregate on a dispatch stream (see OrderAggregate).
loadDispatch(stream) ==
  LET after[n \in 0 .. Len(stream)] ==
        IF n = 0 THEN INITIAL_DISPATCH_STATE
                 ELSE foldDispatch(after[n - 1], stream[n])
  IN [state |-> after[Len(stream)], version |-> Len(stream)]

\* The commands, by the event each one yields: does it yield it, or throw
\* InvalidTransitionError?
offer(state) == state.status \in {"NONE", "OFFERED"}
acceptOffer(state, d) == state.status = "OFFERED" /\ state.offeredDriver = d
pickup(state) == state.status = "DISPATCHED"
deliver(state) == state.status = "PICKED_UP"
fail(state) == state.status \notin {"DELIVERED", "FAILED"}

Allows(state, event) ==
  CASE event.type = "DriverOffered" -> offer(state)
    [] event.type = "DispatchAccepted" -> acceptOffer(state, event.detail)
    [] event.type = "OrderPickedUp" -> pickup(state)
    [] event.type = "OrderDelivered" -> deliver(state)
    [] event.type = "DispatchFailed" -> fail(state)
=============================================================================
