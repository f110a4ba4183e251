------------------------------ MODULE Dispatch ------------------------------
(***************************************************************************)
(* driverDispatchWorkflow (apps/saga-worker/src/dispatch-workflow.ts) for  *)
(* several orders at once: each offers its job to one driver after         *)
(* another, and takes the one who accepts out of the pool for as long as   *)
(* the job lasts.  The orders' workflows share the tenant's set of busy    *)
(* drivers in Redis, which each reads when it selects and writes several   *)
(* activities later.                                                       *)
(*                                                                         *)
(* As in OrderSaga an attempt of an activity may be lost to its workflow   *)
(* and still act later.  Which drivers are online and near is read once,   *)
(* at selection, and may be any of them: a driver not selected for that    *)
(* reason is one Select does not choose.                                   *)
(***************************************************************************)
EXTENDS DispatchAggregate, ActivityAttempts, FiniteSets

CONSTANTS
  Orders,              \* accepted orders of one tenant
  MaxOffers            \* DISPATCH_MAX_OFFERS

ASSUME DispatchAssumption == MaxOffers \in Nat /\ "none" \notin Drivers

VARIABLES
  stream,              \* the event rows of each order's dispatch
  busy,                \* the tenant's busy set
  call,                \* for each attempt of each activity, how far it is
  at, attempt,         \* the activity or wait each workflow has reached
  candidate, tried,    \* the driver of the current offer; all so far
  accepted, rejected,  \* the drivers who have sent that signal
  pickedUp, delivered, \* whether that signal has come
  result               \* what the workflow returned; THROWN if it failed

servers == <<stream, busy, call>>
signals == <<accepted, rejected, pickedUp, delivered>>
vars == <<servers, at, attempt, candidate, tried, signals, result>>

MarkBusy(d) == [type |-> "markBusy", detail |-> d]
ClearBusy(d) == [type |-> "clearBusy", detail |-> d]
RedisActivity == {MarkBusy(d) : d \in Drivers} \cup {ClearBusy(d) : d \in Drivers}
Activities == DispatchEvent \cup RedisActivity
Calls == Activities \X Attempts

ActivityStages ==
  {"offer", "markBusy", "accept", "pickup", "deliver", "release", "releaseLate",
   "failNoDrivers", "failLate"}
Stages == ActivityStages
  \cup {"select", "awaitAnswer", "awaitPickup", "awaitDeliver", "closed"}

TypeOK ==
  /\ stream \in [Orders -> Seq(DispatchEvent)]
  /\ busy \subseteq Drivers
  /\ call \in [Orders -> [Calls ->
       [step : {"idle", "started", "loaded", "done", "conflict"}, version : Nat]]]
  /\ at \in [Orders -> Stages] /\ attempt \in [Orders -> 0 .. MaxAttempts]
  /\ candidate \in [Orders -> Drivers \cup {"none"}]
  /\ tried \in [Orders -> SUBSET Drivers]
  /\ accepted \in [Orders -> SUBSET Drivers] /\ rejected \in [Orders -> SUBSET Drivers]
  /\ pickedUp \in [Orders -> BOOLEAN] /\ delivered \in [Orders -> BOOLEAN]
  /\ result \in [Orders -> {"none", "DELIVERED", "FAILED", "THROWN"}]

Init ==
  /\ stream = [o \in Orders |-> <<>>]
  /\ busy = {}
  /\ call = [o \in Orders |-> [c \in Calls |-> [step |-> "idle", version |-> 0]]]
  /\ at = [o \in Orders |-> "select"] /\ attempt = [o \in Orders |-> 0]
  /\ candidate = [o \in Orders |-> "none"] /\ tried = [o \in Orders |-> {}]
  /\ accepted = [o \in Orders |-> {}] /\ rejected = [o \in Orders |-> {}]
  /\ pickedUp = [o \in Orders |-> FALSE] /\ delivered = [o \in Orders |-> FALSE]
  /\ result = [o \in Orders |-> "none"]

-----------------------------------------------------------------------------
(* Activities.                                                             *)

\* The activity the workflow is in, at a stage, for driver d.
ActivityAt(stage, d) ==
  CASE stage = "offer" -> DriverOffered(d)
    [] stage = "markBusy" -> MarkBusy(d)
    [] stage = "accept" -> DispatchAccepted(d)
    [] stage = "pickup" -> OrderPickedUp
    [] stage = "deliver" -> OrderDelivered
    [] stage \in {"release", "releaseLate"} -> ClearBusy(d)
    [] stage = "failNoDrivers" -> DispatchFailed("NO_DRIVERS_AVAILABLE")
    [] stage = "failLate" -> DispatchFailed("DELIVERY_TIMEOUT")

StartAttempt(o, stage, d, n) ==
  /\ at' = [at EXCEPT ![o] = stage]
  /\ attempt' = [attempt EXCEPT ![o] = n]
  /\ call' = [call EXCEPT ![o][<<ActivityAt(stage, d), n>>].step = "started"]
  /\ UNCHANGED <<stream, busy>>

Schedule(o, stage) ==
  /\ StartAttempt(o, stage, candidate[o], 1)
  /\ UNCHANGED <<candidate, tried, signals, result>>

Wait(o, stage) ==
  /\ at' = [at EXCEPT ![o] = stage] /\ attempt' = [attempt EXCEPT ![o] = 0]
  /\ UNCHANGED <<servers, candidate, tried, signals, result>>

Close(o, r) ==
  /\ at' = [at EXCEPT ![o] = "closed"] /\ attempt' = [attempt EXCEPT ![o] = 0]
  /\ result' = [result EXCEPT ![o] = r]
  /\ UNCHANGED <<servers, candidate, tried, signals>>

Done(o, stage) ==
  /\ at[o] = stage
  /\ call[o][<<ActivityAt(stage, candidate[o]), attempt[o]>>].step = "done"

\* The attempt is lost to the workflow, whatever it did or is yet to do.
RetryActivity(o) ==
  /\ at[o] \in ActivityStages /\ attempt[o] < MaxAttempts
  /\ StartAttempt(o, at[o], candidate[o], attempt[o] + 1)
  /\ UNCHANGED <<candidate, tried, signals, result>>

\* The last attempt is lost, or selection fails: nobody catches it.
WorkflowFails(o) ==
  /\ at[o] = "select" \/ (at[o] \in ActivityStages /\ attempt[o] = MaxAttempts)
  /\ Close(o, "THROWN")

-----------------------------------------------------------------------------
(* The workflow.                                                           *)

\* selectNearestAvailableDriverActivity answers a driver who is not busy and
\* was not tried; the workflow makes the offer.
Offer(o, d) ==
  /\ candidate' = [candidate EXCEPT ![o] = d]
  /\ StartAttempt(o, "offer", d, 1)
  /\ UNCHANGED <<signals, result>>

Select(o) ==
  /\ at[o] = "select" /\ Cardinality(tried[o]) < MaxOffers
  /\ \E d \in Drivers \ (tried[o] \cup busy) :
       Offer(o, d) /\ tried' = [tried EXCEPT ![o] = @ \cup {d}]

\* It answers null, or MaxOffers are used up.
NoCandidate(o) == at[o] = "select" /\ Schedule(o, "failNoDrivers")

OfferRecorded(o) == Done(o, "offer") /\ Wait(o, "awaitAnswer")

\* Accepted wins over rejected; rejected, or timed out without either, the
\* job is offered to the next.  (OfferAnswered takes any answer for a
\* yes, OfferRejected waits for one without end.)
OfferAnswered(o) ==
  /\ at[o] = "awaitAnswer" /\ candidate[o] \in accepted[o] \cup rejected[o]
  /\ Schedule(o, "markBusy")

OfferAccepted(o) ==
  /\ at[o] = "awaitAnswer" /\ candidate[o] \in accepted[o]
  /\ Schedule(o, "markBusy")

OfferRejected(o) ==
  /\ at[o] = "awaitAnswer" /\ candidate[o] \in rejected[o] \ accepted[o]
  /\ Wait(o, "select")

OfferLapsed(o) ==
  /\ at[o] = "awaitAnswer" /\ candidate[o] \notin accepted[o]
  /\ Wait(o, "select")

Marked(o) == Done(o, "markBusy") /\ Schedule(o, "accept")
AcceptRecorded(o) == Done(o, "accept") /\ Wait(o, "awaitPickup")

PickedUp(o) == at[o] = "awaitPickup" /\ pickedUp[o] /\ Schedule(o, "pickup")
PickupRecorded(o) == Done(o, "pickup") /\ Wait(o, "awaitDeliver")
Delivered(o) == at[o] = "awaitDeliver" /\ delivered[o] /\ Schedule(o, "deliver")
DeliveryRecorded(o) == Done(o, "deliver") /\ Schedule(o, "release")
Released(o) == Done(o, "release") /\ Close(o, "DELIVERED")

\* failAfterAccept: the driver is released before the failure is recorded.
\* (KeepDriver and GiveUpAsExhausted are mutated forms: the driver is not
\* released, the failure is recorded as one before any acceptance.)
Late(o) ==
  \/ at[o] = "awaitPickup" /\ ~pickedUp[o]
  \/ at[o] = "awaitDeliver" /\ ~delivered[o]

KeepDriver(o) == Late(o) /\ Schedule(o, "failLate")
GiveUpAsExhausted(o) == Late(o) /\ Schedule(o, "failNoDrivers")
GiveUp(o) == Late(o) /\ Schedule(o, "releaseLate")
ReleasedLate(o) == Done(o, "releaseLate") /\ Schedule(o, "failLate")

FailureRecorded(o) ==
  /\ Done(o, "failNoDrivers") \/ Done(o, "failLate")
  /\ Close(o, "FAILED")

Workflow(o) ==
  \/ Select(o) \/ NoCandidate(o) \/ OfferRecorded(o) \/ OfferAccepted(o)
  \/ OfferLapsed(o) \/ Marked(o) \/ AcceptRecorded(o) \/ PickedUp(o)
  \/ PickupRecorded(o) \/ Delivered(o) \/ DeliveryRecorded(o) \/ Released(o)
  \/ GiveUp(o) \/ ReleasedLate(o) \/ FailureRecorded(o)
  \/ RetryActivity(o) \/ WorkflowFails(o)

-----------------------------------------------------------------------------
(* Redis, the event store, and the drivers.                                *)

workflowVars == <<at, attempt, candidate, tried, result>>

\* markBusyActivity and clearBusyActivity.
SetBusy(o, c) ==
  /\ c[1] \in RedisActivity /\ call[o][c].step = "started"
  /\ busy' = IF c[1].type = "markBusy" THEN busy \cup {c[1].detail}
                                       ELSE busy \ {c[1].detail}
  /\ call' = [call EXCEPT ![o][c].step = "done"]
  /\ UNCHANGED <<stream, workflowVars, signals>>

\* append, up to the decision: a refused one is a benign no-op.
Load(o, c) ==
  /\ c[1] \in DispatchEvent /\ call[o][c].step = "started"
  /\ LET loaded == loadDispatch(stream[o])
     IN call' = [call EXCEPT ![o][c] =
          [step |-> IF Allows(loaded.state, c[1]) THEN "loaded" ELSE "done",
           version |-> loaded.version]]
  /\ UNCHANGED <<stream, busy, workflowVars, signals>>

\* appendWithExpectedVersion.  (VersionNeverTaken: no unique constraint.)
VersionNeverTaken(o, version) == FALSE
VersionTaken(o, version) == version \in 1 .. Len(stream[o])

AppendEvent(o, c) ==
  /\ c[1] \in DispatchEvent /\ call[o][c].step = "loaded"
  /\ IF VersionTaken(o, call[o][c].version + 1)
       THEN /\ call' = [call EXCEPT ![o][c].step = "conflict"]
            /\ UNCHANGED stream
       ELSE /\ stream' = [stream EXCEPT ![o] = Append(@, c[1])]
            /\ call' = [call EXCEPT ![o][c].step = "done"]
  /\ UNCHANGED <<busy, workflowVars, signals>>

\* A signal reaches the workflow of an order from any driver, at any time.
Signal(o) ==
  /\ at[o] # "closed"
  /\ \/ /\ \E d \in Drivers : accepted' = [accepted EXCEPT ![o] = @ \cup {d}]
        /\ UNCHANGED <<rejected, pickedUp, delivered>>
     \/ /\ \E d \in Drivers : rejected' = [rejected EXCEPT ![o] = @ \cup {d}]
        /\ UNCHANGED <<accepted, pickedUp, delivered>>
     \/ /\ pickedUp' = [pickedUp EXCEPT ![o] = TRUE]
        /\ UNCHANGED <<accepted, rejected, delivered>>
     \/ /\ delivered' = [delivered EXCEPT ![o] = TRUE]
        /\ UNCHANGED <<accepted, rejected, pickedUp>>
  /\ UNCHANGED <<servers, workflowVars>>

Environment(o) ==
  \/ \E c \in Calls : SetBusy(o, c) \/ Load(o, c) \/ AppendEvent(o, c)
  \/ Signal(o)

Next == \E o \in Orders : Workflow(o) \/ Environment(o)

Spec == Init /\ [][Next]_vars

\* Temporal keeps every workflow running: timers fire, attempts time out.
FairSpec == Spec /\ \A o \in Orders : WF_vars(Workflow(o))

-----------------------------------------------------------------------------
(* Properties.                                                             *)

State(o) == loadDispatch(stream[o]).state

\* Every event is legal in the state it is appended to, although it was
\* decided on a state read earlier, by an attempt that may be long abandoned.
DecisionsHold ==
  [][\A o \in Orders : stream'[o] # stream[o] =>
       \E e \in DispatchEvent :
         stream'[o] = Append(stream[o], e) /\ Allows(State(o), e)]_stream

\* What the stream says a driver did, that driver's app reported; nobody is
\* dispatched who did not accept, and only who was offered the job.
Consent ==
  \A o \in Orders :
    /\ State(o).driver # "none" => State(o).driver \in accepted[o] \cap tried[o]
    /\ State(o).status = "PICKED_UP" => pickedUp[o]
    /\ State(o).status = "DELIVERED" => pickedUp[o] /\ delivered[o]

\* A dispatch that failed for want of drivers was accepted by none.
NoDriverMeansNoDriver ==
  \A o \in Orders :
    DispatchFailed("NO_DRIVERS_AVAILABLE") \in
        {stream[o][n] : n \in 1 .. Len(stream[o])}
      => State(o).driver = "none"

\* A busy driver is on a job, or on one whose workflow failed, or was marked
\* by an attempt that was retried and may have acted late.
HasJob(o, d) ==
  \/ candidate[o] = d /\ (at[o] \in {"markBusy", "accept", "awaitPickup", "pickup",
       "awaitDeliver", "deliver", "release", "releaseLate"} \/ result[o] = "THROWN")
  \/ \E n \in Attempts \ {1} : call[o][<<MarkBusy(d), n>>].step # "idle"

BusyIsAccountedFor == \A d \in busy : \E o \in Orders : HasJob(o, d)

\* Every dispatch comes to an end, whether or not any driver ever answers.
DispatchEnds == \A o \in Orders : <>(at[o] = "closed")

-----------------------------------------------------------------------------
(* What a document or a comment says, and the code does not do.            *)

OnTheJob == {"accept", "awaitPickup", "pickup", "awaitDeliver", "deliver"}

\* "an accepted driver isn't offered another job until delivered" (3d-i
\* design): no driver is at work on two orders.
OneJobAtATime ==
  \A o1, o2 \in Orders :
    o1 # o2 /\ at[o1] \in OnTheJob /\ at[o2] \in OnTheJob
      => candidate[o1] # candidate[o2]

\* An abandoned job cannot "pin the driver in the busy set forever" (the
\* comment at the post-accept waits).
NobodyIsPinned == (\A o \in Orders : at[o] = "closed") => busy = {}

\* A refused append is a "benign no-op on re-delivery / stale signal" (the
\* comment in append): a job that ends DELIVERED is recorded so.
DeliveredIsRecorded ==
  \A o \in Orders : result[o] = "DELIVERED" => State(o).status = "DELIVERED"
=============================================================================
