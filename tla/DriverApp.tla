------------------------------ MODULE DriverApp ------------------------------
(***************************************************************************)
(* Who watches the dispatch events: the driver Me, through a stream that   *)
(* begins with a snapshot (driver-sse.controller.ts) and a page that keeps *)
(* one view (use-dispatch-stream.ts, web-driver page.tsx) and a toggle; and*)
(* the merchant's map of deliveries, seeded by a request next to a stream  *)
(* of the whole tenant (use-tenant-dispatch-stream.ts).                    *)
(***************************************************************************)
EXTENDS DispatchFeed

VARIABLES
  watched,             \* bound: which of stream, toggle and map a behaviour is about
  conn,                \* the driver's stream: its state, snapshot and `owned`
  wire,                \* views on their way to the driver's page
  page,                \* the page: view shown, toggle, offer dismissed
  lapsed,              \* offers whose offerExpiresAt has passed
  load,                \* getDriverOnline of the page's load
  toggle,              \* the toggle's request
  late,                \* requests of the toggle that the page has given up, and the
                       \* service may still get: how many for each of the two
  sound,               \* what the stream cannot have missed: all of Me's events,
                       \* those of the order of its snapshot, or nothing is certain
  lastAnswer,          \* which answer or late request has set either side last
  seed,                \* the merchant's getMerchantDispatches
  mapWire,             \* the merchant's stream: open, and what is under way
  map                  \* orderId -> view

connVars == <<conn, wire, sound>>
toggleVars == <<load, toggle, late, lastAnswer>>
mapVars == <<seed, mapWire, map>>
vars == <<watched, feedVars, connVars, page, lapsed, toggleVars, mapVars>>

\* Every view that is shown or under way is of an event that was recorded.
TypeOK ==
  /\ FeedTypeOK /\ watched \in {"stream", "toggle", "map"}
  /\ conn \in [state : {"down", "snapshot", "live"}, view : 0 .. Len(log),
               owned : SUBSET Orders]
  /\ wire \in Seq(1 .. Len(log)) /\ lapsed \subseteq 1 .. Len(log)
  /\ page \in [shown : 0 .. Len(log), online : BOOLEAN, dismissed : Orders \cup {"none"}]
  /\ load \in {"asked", "yes", "no", "done"}
  /\ toggle \in [step : {"idle", "sent", "applied", "overtaken"}, next : BOOLEAN]
  /\ late \in [BOOLEAN -> 0 .. MaxFailures]
  /\ sound \in {"all", "order", "none"}
  /\ lastAnswer \in {"none", "load", "toggle", "error", "late"}
  /\ seed \in [step : {"asked", "read", "done", "failed"}, view : 0 .. Len(log)]
  /\ mapWire \in [open : BOOLEAN, from : 0 .. MaxLog, views : Seq(1 .. Len(log))]
  /\ map \in [Orders -> 0 .. Len(log)]

Down == [state |-> "down", view |-> 0, owned |-> {}]
Unseeded == [step |-> "asked", view |-> 0]

Init ==
  /\ FeedInit /\ watched \in {"stream", "toggle", "map"}
  /\ conn = Down /\ wire = <<>> /\ sound = "none"
  /\ page = [shown |-> 0, online |-> (watched = "stream" /\ online), dismissed |-> "none"]
  /\ lapsed = {} /\ load = "asked" /\ lastAnswer = "none"
  /\ toggle = [step |-> "idle", next |-> FALSE] /\ late = [b \in BOOLEAN |-> 0]
  /\ seed = Unseeded /\ mapWire = [open |-> FALSE, from |-> 0, views |-> <<>>]
  /\ map = [o \in Orders |-> 0]

-----------------------------------------------------------------------------
(* The read API: the feeder and the driver's stream.                       *)

isForDriver(i) == log[i].driver = Me

\* The orders owned once view i was looked at, and whether it is passed on.
\* (NeverOwned and AnyFollowUp are forms of these with a slip.)
NeverOwned(owned, i) == owned
OwnedAfter(owned, i) == IF log[i].status = "DISPATCHED" /\ isForDriver(i)
                        THEN owned \cup {log[i].order} ELSE owned
AnyFollowUp(owned, i) == isForDriver(i) \/ log[i].driver = None
acceptForDriver(owned, i) == isForDriver(i) \/ log[i].order \in OwnedAfter(owned, i)

\* driverStream: the snapshot is read; nothing else is subscribed to yet.
Connect ==
  /\ conn.state = "down"
  /\ LET mine == ForDriver(Me, doc)
     IN \E v \in IF mine = {} THEN {0} ELSE mine :
          conn' = [conn EXCEPT !.state = "snapshot", !.view = v]
  /\ UNCHANGED <<feedVars, wire, sound, page, lapsed, toggleVars, mapVars>>

\* concat: the snapshot is passed on, and only then live$ is subscribed to.
GoLive ==
  /\ conn.state = "snapshot"
  /\ LET v == conn.view
     IN /\ conn' = [state |-> "live", view |-> 0,
                    owned |-> IF v # 0 /\ AcceptedBy(log[v].order, v) = Me
                                THEN {log[v].order} ELSE {}]
        /\ wire' = IF v = 0 THEN wire ELSE Append(wire, v)
        /\ sound' = CASE v = 0 /\ fed = 0 -> "all"
                     [] v # 0 /\ v >= LatestOf(log[v].order, fed) -> "order"
                     [] OTHER -> "none"
  /\ UNCHANGED <<feedVars, page, lapsed, toggleVars, mapVars>>

Fail == failures < MaxFailures /\ failures' = failures + 1

\* fetchEventSource connects again by itself.
Disconnect ==
  /\ conn.state # "down" /\ Fail
  /\ conn' = Down /\ wire' = <<>> /\ sound' = "none"
  /\ UNCHANGED <<log, doc, fed, online, candidate, signals, page, lapsed, toggleVars,
                 mapVars>>

\* eachMessage: the subject hands the view to the streams that are subscribed.
Feed ==
  /\ fed < Len(log) /\ fed' = fed + 1
  /\ LET i == fed + 1
         pass == conn.state = "live" /\ acceptForDriver(conn.owned, i)
     IN /\ wire' = IF pass THEN Append(wire, i) ELSE wire
        /\ conn' = IF conn.state = "live"
                     THEN [conn EXCEPT !.owned = OwnedAfter(@, i)] ELSE conn
        /\ mapWire' = IF mapWire.open THEN [mapWire EXCEPT !.views = Append(@, i)]
                      ELSE mapWire
  /\ UNCHANGED <<log, doc, online, candidate, signals, failures, page, lapsed, sound,
                 toggleVars, seed, map>>

\* A message is read again that was handled but not committed.
Redeliver ==
  /\ fed > 0 /\ Fail
  /\ fed' = fed - 1 /\ sound' = "none"
  /\ UNCHANGED <<log, doc, online, candidate, signals, conn, wire, page, lapsed,
                 toggleVars, mapVars>>

-----------------------------------------------------------------------------
(* The driver's page.                                                      *)

\* (AlwaysNext is the form that takes whatever comes.)
AlwaysNext(prev, next) == next
reduceDispatch(prev, next) ==
  IF prev = 0 \/ log[prev].order # log[next].order \/ next >= prev THEN next ELSE prev

OnMessage ==
  /\ wire # <<>> /\ wire' = Tail(wire)
  /\ page' = [page EXCEPT !.shown = reduceDispatch(@, Head(wire))]
  /\ UNCHANGED <<feedVars, conn, sound, lapsed, toggleVars, mapVars>>

\* What is rendered of the view: an offer card or a job card.
offer == /\ page.online /\ page.shown # 0 /\ page.shown \notin lapsed
         /\ log[page.shown].status = "OFFERED" /\ log[page.shown].driver = Me
         /\ log[page.shown].order # page.dismissed
\* A follow-up is stamped with the driver of the stream.
job == page.shown # 0 /\ log[page.shown].status \in Open
         /\ log[page.shown].driver \in {Me, None}
shownOrder == log[page.shown].order

Signal(s) ==
  /\ signals' = [signals EXCEPT ![shownOrder] = @ \cup {s}]
  /\ UNCHANGED <<log, doc, fed, online, candidate, failures, connVars, lapsed,
                 toggleVars, mapVars>>

Accept == offer /\ Signal("accept") /\ UNCHANGED page
\* The card is dropped whether or not the signal arrives, which only moves the
\* selection on: Select may do so at any time (the offer may time out).
Reject ==
  /\ offer /\ page' = [page EXCEPT !.dismissed = shownOrder]
  /\ UNCHANGED <<feedVars, connVars, lapsed, toggleVars, mapVars>>
Pickup == job /\ log[page.shown].status = "DISPATCHED" /\ Signal("pickup")
            /\ UNCHANGED page
Deliver == job /\ log[page.shown].status = "PICKED_UP" /\ Signal("deliver")
             /\ UNCHANGED page

\* The countdown to offerExpiresAt ends; a card that is open is dismissed (onExpire).
OfferExpires(i) ==
  /\ i \notin lapsed /\ log[i].status = "OFFERED" /\ log[i].driver = Me
  /\ lapsed' = lapsed \cup {i}
  /\ page' = IF offer /\ page.shown = i THEN [page EXCEPT !.dismissed = shownOrder]
             ELSE page
  /\ UNCHANGED <<feedVars, connVars, toggleVars, mapVars>>

\* Reconciling the toggle on load: sismember, and then setOnline with what it said.
LoadRead ==
  /\ load = "asked" /\ load' = IF online THEN "yes" ELSE "no"
  /\ UNCHANGED <<feedVars, connVars, page, lapsed, toggle, late, lastAnswer, mapVars>>
LoadAnswered ==
  /\ load \in {"yes", "no"} /\ load' = "done"
  /\ page' = [page EXCEPT !.online = (load = "yes")] /\ lastAnswer' = "load"
  /\ UNCHANGED <<feedVars, connVars, lapsed, toggle, late, mapVars>>

\* toggle(): busy keeps it to one request; sadd or srem; onChange only if it answers.
Click ==
  /\ toggle.step = "idle" /\ toggle' = [step |-> "sent", next |-> ~page.online]
  /\ UNCHANGED <<feedVars, connVars, page, lapsed, load, late, lastAnswer, mapVars>>
Applied ==
  /\ toggle.step = "sent" /\ toggle' = [toggle EXCEPT !.step = "applied"]
  /\ online' = toggle.next
  /\ UNCHANGED <<log, doc, fed, candidate, signals, failures, connVars, page, lapsed,
                 load, late, lastAnswer, mapVars>>
\* (FlipWhatIsShown is the form that turns over what the page shows by then.)
Answer(shown) ==
  /\ toggle.step \in {"applied", "overtaken"} /\ toggle' = [toggle EXCEPT !.step = "idle"]
  /\ page' = [page EXCEPT !.online = shown]
  /\ lastAnswer' = IF toggle.step = "applied" THEN "toggle" ELSE "late"
  /\ UNCHANGED <<feedVars, connVars, lapsed, load, late, mapVars>>
FlipWhatIsShown == Answer(~page.online)
ToggleAnswered == Answer(toggle.next)

\* A request that was sent and is no longer awaited may be served later, or never.
GivenUp == IF toggle.step = "sent" THEN [late EXCEPT ![toggle.next] = @ + 1] ELSE late

\* The catch: an error, or an answer that is lost.
ToggleFailed ==
  /\ toggle.step # "idle" /\ Fail
  /\ toggle' = [toggle EXCEPT !.step = "idle"] /\ late' = GivenUp /\ lastAnswer' = "error"
  /\ UNCHANGED <<log, doc, fed, online, candidate, signals, connVars, page, lapsed,
                 load, mapVars>>
ServedLate(b) ==
  /\ late[b] > 0 /\ late' = [late EXCEPT ![b] = @ - 1]
  /\ online' = b /\ lastAnswer' = "late"
  /\ toggle' = IF toggle.step = "applied" THEN [toggle EXCEPT !.step = "overtaken"]
               ELSE toggle
  /\ UNCHANGED <<log, doc, fed, candidate, signals, failures, connVars, page, lapsed,
                 load, mapVars>>

\* The driver loads the page again, and it asks for the toggle again.
Reload ==
  /\ Fail
  /\ page' = [shown |-> 0, online |-> FALSE, dismissed |-> "none"]
  /\ conn' = Down /\ wire' = <<>> /\ sound' = "none"
  /\ load' = "asked" /\ toggle' = [step |-> "idle", next |-> FALSE]
  /\ late' = GivenUp /\ lastAnswer' = "none"
  /\ UNCHANGED <<log, doc, fed, online, candidate, signals, lapsed, mapVars>>

DriverPage ==
  \/ OnMessage \/ Accept \/ Reject \/ Pickup \/ Deliver
  \/ \E i \in DOMAIN log : OfferExpires(i)

Toggle ==
  \/ LoadRead \/ LoadAnswered \/ Click \/ Applied \/ ToggleAnswered \/ ToggleFailed
  \/ \E b \in BOOLEAN : ServedLate(b)

-----------------------------------------------------------------------------
(* The merchant's map.                                                     *)

MapOpens ==
  /\ ~mapWire.open /\ mapWire' = [mapWire EXCEPT !.open = TRUE, !.from = fed]
  /\ UNCHANGED <<feedVars, connVars, page, lapsed, toggleVars, seed, map>>
\* fetchEventSource opens it again, by MapOpens; the seed is not asked for again.
Cut == [mapWire EXCEPT !.open = FALSE, !.views = <<>>]
MapLost ==
  /\ mapWire.open /\ Fail /\ mapWire' = Cut
  /\ UNCHANGED <<log, doc, fed, online, candidate, signals, connVars, page, lapsed,
                 toggleVars, seed, map>>
\* The token was renewed: the effect runs again, and the map stays.  The answer that
\* the old effect waits for is let go (cancelled).
TokenChanges ==
  /\ Fail /\ seed' = Unseeded /\ mapWire' = Cut
  /\ UNCHANGED <<log, doc, fed, online, candidate, signals, connVars, page, lapsed,
                 toggleVars, map>>
\* allForTenant, read at one moment and merged at a later one; or not at all.
SeedRead ==
  /\ seed.step = "asked" /\ seed' = [step |-> "read", view |-> doc]
  /\ UNCHANGED <<feedVars, connVars, page, lapsed, toggleVars, mapWire, map>>
SeedFails ==
  /\ seed.step \in {"asked", "read"} /\ Fail /\ seed' = [seed EXCEPT !.step = "failed"]
  /\ UNCHANGED <<log, doc, fed, online, candidate, signals, connVars, page, lapsed,
                 toggleVars, mapWire, map>>
\* (Replace is the form in which what comes replaces the whole map.)
Replace(views) == map' = views
Merge(views) ==
  map' = [o \in Orders |-> IF views[o] = 0 THEN map[o] ELSE reduceDispatch(map[o], views[o])]
SeedAnswered ==
  /\ seed.step = "read" /\ seed' = [seed EXCEPT !.step = "done"]
  /\ Merge([o \in Orders |-> LatestOf(o, seed.view)])
  /\ UNCHANGED <<feedVars, connVars, page, lapsed, toggleVars, mapWire>>
MapOnMessage ==
  /\ mapWire.views # <<>> /\ mapWire' = [mapWire EXCEPT !.views = Tail(@)]
  /\ LET i == Head(mapWire.views)
     IN Merge([o \in Orders |-> IF o = log[i].order THEN i ELSE 0])
  /\ UNCHANGED <<feedVars, connVars, page, lapsed, toggleVars, seed>>

MerchantMap ==
  \/ MapOpens \/ MapLost \/ TokenChanges \/ SeedRead \/ SeedFails \/ SeedAnswered
  \/ MapOnMessage

Background == watched # "toggle" /\ (Workflows \/ Project)
              /\ UNCHANGED <<connVars, page, lapsed, toggleVars, mapVars>>
Streams == Connect \/ GoLive \/ Disconnect

Next ==
  /\ watched' = watched
  /\ \/ Background \/ Feed \/ Redeliver
     \/ watched = "stream" /\ (Streams \/ DriverPage)
     \/ watched = "toggle" /\ (Toggle \/ Reload)
     \/ watched = "map" /\ MerchantMap

Spec == Init /\ [][Next]_vars

-----------------------------------------------------------------------------
(* Properties.                                                             *)

AllHandled == wire = <<>> /\ fed = Len(log)

\* A job card is only for an order that this driver has accepted, although the
\* follow-up events are matched without a driver id and stamped with one.
JobIsMine == job => AcceptedBy(shownOrder, Len(log)) = Me

\* A page whose stream was there from the start shows the last thing that
\* happened to this driver; one that began with a snapshot no event has
\* overtaken shows the present state of the job it shows.
PageIsCurrent ==
  AllHandled =>
    /\ sound = "all" =>
         LET mine == {i \in DOMAIN log : Me \in {log[i].driver, AcceptedBy(log[i].order, i)}}
         IN mine # {} => page.shown \in mine /\ \A i \in mine : i <= page.shown
    /\ sound # "none" /\ page.shown # 0 =>
         (AcceptedBy(shownOrder, fed) = Me => page.shown = LatestOf(shownOrder, fed))

\* After a toggle that was answered the page and the online set agree, whatever
\* the page's load has answered in between, and whatever requests were given up
\* before it; only a load that answers last, an answer that was lost, or a request
\* that comes late leaves them apart.
ToggleAgrees ==
  lastAnswer = "toggle" /\ toggle.step = "idle" => page.online = online

\* The seed and the stream of the merchant's map meet without a gap as long as the
\* seed reaches to where the stream that is open now began, however often the stream
\* was lost before, the token renewed or a message read twice.
MapIsCurrent ==
  seed.step = "done" /\ mapWire.open /\ mapWire.from <= seed.view
    /\ mapWire.views = <<>> /\ fed = Len(log)
    => \A o \in Orders : map[o] = LatestOf(o, fed)

\* A seed that answers late, or an event that comes twice, never takes a delivery
\* on the merchant's map back.
MapOnlyMovesForward == [][\A o \in Orders : map'[o] >= map[o]]_map

\* docs/superpowers/specs/2026-06-21-flashbite-phase-3d-ii-driver-job-ui-design.md:64:
\* "the hook auto-reconnects and re-pulls the snapshot ..., so no offer/job state
\* is lost across a reconnect".  TLC refutes this: an event that is fed between
\* the snapshot's read and the subscription to live$ reaches nobody, and a
\* snapshot without a document leaves the old job on the page.
NothingLostOnReconnect ==
  conn.state = "live" /\ AllHandled /\ doc = fed /\ page.shown # 0 =>
    /\ ForDriver(Me, doc) # {} => page.shown \in ForDriver(Me, doc)
    /\ ForDriver(Me, doc) = {} => ~job

\* What one would like to say of the map: once it is seeded and its stream is open, it
\* shows every delivery as it is.  TLC refutes this: what is fed while the stream is
\* lost, or between the seed's read and the stream's opening, is asked for by nobody.
OpenMapIsCurrent ==
  seed.step = "done" /\ mapWire.open /\ mapWire.views = <<>> /\ fed = Len(log)
    => \A o \in Orders : map[o] = LatestOf(o, fed)

\* And of the toggle: once every answer has come, the driver is online if the page
\* says so.  TLC refutes this: the load may answer after a toggle that it was read
\* before, and a request that failed for the page may be served after the next one.
ToggleSettles ==
  load = "done" /\ toggle.step = "idle" => page.online = online
=============================================================================
