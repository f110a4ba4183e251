--------------------------- MODULE DriverPosition ---------------------------
(***************************************************************************)
(* The telemetry plane, for one driver: the pings that are reported to the *)
(* read API, the worker that writes the last one into the tenant's geo set *)
(* (apps/telemetry-worker), and two screens that poll it: the tracking     *)
(* page of the order that the driver delivers (web-customer,               *)
(* orders/[orderId]/page.tsx) and the driver's own view of who is near     *)
(* (web-driver, use-nearby-watch.ts).                                      *)
(*                                                                         *)
(* A ping is its number: pings of a driver have one key and keep their     *)
(* order.  The consumer group has an offset.  The page polls MAX_ATTEMPTS   *)
(* times; OrderViews counts them, here any tick may be the last.           *)
(***************************************************************************)
EXTENDS Naturals

CONSTANTS
  MaxPings,            \* bound: pings reported
  MaxLosses,           \* bound: crashes of the worker and failed requests
  MaxWatches           \* bound: times the driver begins to watch

ASSUME PositionAssumption == MaxPings \in Nat /\ MaxLosses \in Nat /\ MaxWatches \in Nat

VARIABLES
  pings,               \* pings in the topic
  geo,                 \* the ping in the geo set, 0 without one
  applied, committed,  \* pings the worker has applied, and has committed
  job,                 \* the status in the order's dispatch document
  tick,                \* the page's tick: its step, nextDispatch, an answer
  delivery, marker,    \* what the page shows: the delivery, the driver's ping
  on, effect,          \* the driver watches; the effect that runs for it
  loop,                \* for each effect, its tick: in flight, or timed
  nearby,              \* the ping in the driver's list, 0 in an empty one
  losses

planeVars == <<pings, geo, applied, committed>>
trackVars == <<tick, delivery, marker>>
watchVars == <<on, effect, loop, nearby>>
positionVars == <<planeVars, job, trackVars, watchVars, losses>>

EnRoute == {"DISPATCHED", "PICKED_UP"}
Over == {"DELIVERED", "FAILED"}
Deliveries == {"none", "OFFERED"} \cup EnRoute \cup Over
At(step, next, answer) == tick' = [step |-> step, next |-> next, answer |-> answer]

PositionTypeOK ==
  /\ pings \in 0 .. MaxPings /\ geo \in 0 .. pings
  /\ applied \in 0 .. pings /\ committed \in 0 .. pings
  /\ job \in Deliveries /\ delivery \in Deliveries
  /\ tick \in [step : {"idle", "dispatch", "location", "visible", "located", "stopped",
                       "paused"},
               next : Deliveries, answer : 0 .. pings]
  /\ marker \in 0 .. pings /\ nearby \in 0 .. pings
  /\ on \in BOOLEAN /\ effect \in 0 .. MaxWatches
  /\ loop \in [1 .. MaxWatches -> {"none", "asked", "waiting"}]
  /\ losses \in 0 .. MaxLosses

PositionInit ==
  /\ pings = 0 /\ geo = 0 /\ applied = 0 /\ committed = 0
  /\ job = "none" /\ delivery = "none" /\ marker = 0
  /\ tick = [step |-> "idle", next |-> "none", answer |-> 0]
  /\ on = FALSE /\ effect = 0 /\ nearby = 0
  /\ loop = [e \in 1 .. MaxWatches |-> "none"]
  /\ losses = 0

Lose == losses < MaxLosses /\ losses' = losses + 1

-----------------------------------------------------------------------------
(* The plane.                                                               *)

\* POST /drivers/:driverId/location, by whatever streams the positions.
ReportLocation ==
  /\ pings < MaxPings /\ pings' = pings + 1
  /\ UNCHANGED <<geo, applied, committed, job, trackVars, watchVars, losses>>

\* GEOADD overwrites.  (AddOnce is the form that only adds a new member.)
AddOnce(ping) == IF geo = 0 THEN ping ELSE geo
GeoAdd(ping) == ping

ApplyTelemetry ==
  /\ applied < pings
  /\ geo' = GeoAdd(applied + 1) /\ applied' = applied + 1
  /\ UNCHANGED <<pings, committed, job, trackVars, watchVars, losses>>

CommitPings ==
  /\ committed # applied /\ committed' = applied
  /\ UNCHANGED <<pings, geo, applied, job, trackVars, watchVars, losses>>

\* Pings since the last commit are applied again, older ones over the newest.
TelemetryCrash ==
  /\ applied # committed /\ Lose
  /\ applied' = committed
  /\ UNCHANGED <<pings, geo, committed, job, trackVars, watchVars>>

\* The dispatch goes on, as its document says; Dispatch is its model.
JobMoves ==
  /\ \/ job = "none" /\ job' = "OFFERED"
     \/ job = "OFFERED" /\ job' \in {"DISPATCHED", "FAILED"}
     \/ job = "DISPATCHED" /\ job' = "PICKED_UP"
     \/ job = "PICKED_UP" /\ job' = "DELIVERED"
  /\ UNCHANGED <<planeVars, trackVars, watchVars, losses>>

-----------------------------------------------------------------------------
(* The tracking page: a tick(), for an order that was accepted.             *)

ReadDispatch ==
  /\ tick.step = "idle"
  /\ At("dispatch", job, 0)
  /\ UNCHANGED <<planeVars, job, delivery, marker, watchVars, losses>>

\* After a tick the page waits for the next one, or it has had enough of them and
\* pauses: for an accepted order it offers no button to go on.
Ended == {"idle", "paused"}

\* What follows once nextDispatch is known to be `next`: the location is asked
\* for, or the marker goes, and the page stops if the delivery is over.
\* (KeepMarker leaves the marker where it is.)
StepAfter(next) ==
  IF next \in EnRoute THEN {"location"} ELSE IF next \in Over THEN {"stopped"} ELSE Ended

KeepMarker(next) ==
  /\ \E step \in StepAfter(next) : At(step, next, 0)
  /\ UNCHANGED marker

GoOn(next) ==
  /\ \E step \in StepAfter(next) : At(step, next, 0)
  /\ marker' = IF next \in EnRoute THEN marker ELSE 0

DispatchArrives ==
  /\ tick.step = "dispatch" /\ GoOn(tick.next)
  /\ delivery' = IF tick.next = "none" THEN delivery ELSE tick.next
  /\ UNCHANGED <<planeVars, job, watchVars, losses>>

\* A tick that gets no answer goes by the state of the page's first render.
DispatchFails ==
  /\ tick.step = "dispatch" /\ Lose
  /\ GoOn("none")
  /\ UNCHANGED <<planeVars, job, delivery, watchVars>>

\* driverLocation: the document, then the geo set, if driverLocationVisible.
LookUpDriver ==
  /\ tick.step = "location"
  /\ At(IF job \in EnRoute THEN "visible" ELSE "located", tick.next, 0)
  /\ UNCHANGED <<planeVars, job, delivery, marker, watchVars, losses>>

GeoPos ==
  /\ tick.step = "visible" /\ At("located", tick.next, geo)
  /\ UNCHANGED <<planeVars, job, delivery, marker, watchVars, losses>>

LocationArrives ==
  /\ tick.step = "located" /\ \E step \in Ended : At(step, tick.next, 0)
  /\ marker' = tick.answer
  /\ UNCHANGED <<planeVars, job, delivery, watchVars, losses>>

\* "keep the last known position (no flicker)"
LocationFails ==
  /\ tick.step \in {"location", "visible", "located"} /\ Lose
  /\ \E step \in Ended : At(step, tick.next, 0)
  /\ UNCHANGED <<planeVars, job, delivery, marker, watchVars>>

Tick == ReadDispatch \/ DispatchArrives \/ LookUpDriver \/ GeoPos \/ LocationArrives

-----------------------------------------------------------------------------
(* The driver's screen: useNearbyWatch, while the driver is online.         *)

StartWatching ==
  /\ ~on /\ effect < MaxWatches
  /\ on' = TRUE /\ effect' = effect + 1
  /\ loop' = [loop EXCEPT ![effect + 1] = "asked"]
  /\ UNCHANGED <<planeVars, job, trackVars, nearby, losses>>

\* The cleanup clears the timer; a request in flight is answered later.
StopWatching ==
  /\ on /\ on' = FALSE /\ nearby' = 0
  /\ loop' = [loop EXCEPT ![effect] = IF @ = "waiting" THEN "none" ELSE @]
  /\ UNCHANGED <<planeVars, job, trackVars, effect, losses>>

\* (AnyEffect is the form without the flag that the cleanup sets.)
AnyEffect(e) == TRUE
Active(e) == on /\ e = effect

\* The list, or a failure, which keeps the last one.
NearbyArrives(e) ==
  /\ loop[e] = "asked"
  /\ loop' = [loop EXCEPT ![e] = IF Active(e) THEN "waiting" ELSE "none"]
  /\ \/ nearby' = (IF Active(e) THEN geo ELSE nearby) /\ UNCHANGED losses
     \/ Lose /\ UNCHANGED nearby
  /\ UNCHANGED <<planeVars, job, trackVars, on, effect>>

AskAgain(e) ==
  /\ loop[e] = "waiting" /\ loop' = [loop EXCEPT ![e] = "asked"]
  /\ UNCHANGED <<planeVars, job, trackVars, on, effect, nearby, losses>>

-----------------------------------------------------------------------------
PositionNext ==
  \/ ReportLocation \/ ApplyTelemetry \/ CommitPings \/ TelemetryCrash \/ JobMoves
  \/ Tick \/ DispatchFails \/ LocationFails
  \/ StartWatching \/ StopWatching
  \/ \E e \in 1 .. MaxWatches : NearbyArrives(e) \/ AskAgain(e)

\* The worker is restarted when it crashes, and the page, as long as it polls, is in
\* the foreground.
PositionSpec ==
  /\ PositionInit /\ [][PositionNext]_positionVars
  /\ WF_positionVars(ApplyTelemetry) /\ WF_positionVars(Tick)

-----------------------------------------------------------------------------
(* Properties.                                                             *)

\* While a driver stays en route, and the page has not paused, the customer comes to
\* see the newest position ("latest position wins", telemetry.ts), also when a worker
\* that was restarted has written older ones over it, and when requests of the page
\* fail.
PositionCatchesUp ==
  <>[](job \in EnRoute /\ tick.step # "paused" => marker = pings)

\* What one would like to say without the pause.  TLC refutes this: of a delivery
\* that outlasts the page's ticks the customer keeps seeing an old position.
PositionKeepsUp == <>[](job \in EnRoute => marker = pings)

\* A marker is on the page only beside a delivery that the page shows en route,
\* and the page that has stopped shows none, whatever was in flight.
MarkerOnlyEnRoute ==
  /\ marker # 0 => delivery \in EnRoute
  /\ tick.step = "stopped" => job = delivery

\* A driver who goes offline sees nobody, also when an answer comes later, and
\* however often it is switched one chain of requests runs at most.
WatchEnds ==
  /\ ~on => nearby = 0
  /\ \A e \in 1 .. MaxWatches : loop[e] = "waiting" => on /\ e = effect
=============================================================================
