----------------------------- MODULE OrderViews -----------------------------
(***************************************************************************)
(* What two people see of an order: the customer's tracking page, which    *)
(* polls (web-customer, orders/[orderId]/page.tsx), and the board of the   *)
(* merchant or the operator, which takes a list and then live events       *)
(* (web-merchant, app/page.tsx; web-admin, use-admin-data.ts; both through *)
(* order-events.ts and use-order-stream.ts).                               *)
(***************************************************************************)
EXTENDS OrderCache

CONSTANTS
  MaxTries,            \* times the board asks for a new order's row
  MaxAttempts,         \* times the tracking page polls before it pauses
  Lists                \* bound: list requests of the board at a time

ASSUME ViewsAssumption ==
  /\ MaxTries \in Nat \ {0} /\ MaxAttempts \in Nat \ {0}
  /\ Readers = {"board", "tracker"}

VARIABLES
  tracker,             \* the tracking page: what it does, and what it shows
  row,                 \* the order's status on the board, or "none"
  rendered,            \* the order has a row in the last render (ordersRef)
  tries,               \* answers without a row in the current fetchRow
  connected,           \* the live stream is open
  wire,                \* events on their way through it
  list,                \* for each list request, where it is
  rested               \* the stream was opened when all was at rest, and no event
                       \* was read again that the board had no row for

trackerVars == <<tracker>>
boardVars == <<row, rendered, tries, connected, wire, list, rested>>
vars == <<cacheVars, trackerVars, boardVars>>

Shown == {"none"} \cup {stream[v] : v \in DOMAIN stream}

\* Every status on a screen is one that the order has had.
TypeOK ==
  /\ CacheTypeOK
  /\ tracker \in [state : {"polling", "asking", "dispatch", "paused", "done"},
                  attempts : 0 .. MaxAttempts, status : Shown, delivered : BOOLEAN]
  /\ row \in Shown /\ rendered \in BOOLEAN /\ tries \in 0 .. MaxTries - 1
  /\ connected \in BOOLEAN /\ wire \in Seq(DOMAIN stream)
  /\ list \in [Lists -> [step : {"idle", "asked", "read"}, view : 0 .. doc]]
  /\ rested \in BOOLEAN

IdleList == [step |-> "idle", view |-> 0]
Asked == [step |-> "asked", view |-> 0]

\* The pages have just been opened.
Init ==
  /\ CacheInit
  /\ tracker = [state |-> "polling", attempts |-> 0, status |-> "none",
                delivered |-> FALSE]
  /\ row = "none" /\ rendered = FALSE /\ tries = 0
  /\ connected = FALSE /\ wire = <<>>
  /\ \E first \in Lists : list = [l \in Lists |-> IF l = first THEN Asked ELSE IdleList]
  /\ rested = FALSE

-----------------------------------------------------------------------------
(* The tracking page: tick().  A page in the background does not poll.      *)

Poll ==
  /\ tracker.state = "polling"
  /\ tracker' = [tracker EXCEPT !.state = "asking"]
  /\ GoTo("tracker", "asked", 0)
  /\ UNCHANGED <<modelVars, cache, failures, boardVars>>

\* The end of a tick that shows t and found nothing final.
NextTick(t) ==
  LET n == t.attempts + 1
  IN tracker' = [t EXCEPT !.attempts = n,
                          !.state = IF n >= MaxAttempts THEN "paused" ELSE "polling"]

\* getOrder's answer; an accepted order goes on to `next`.
Answered(next) ==
  /\ tracker.state = "asking" /\ get["tracker"].step \in {"answered", "failed"}
  /\ GoTo("tracker", "idle", 0)
  /\ LET v == get["tracker"].view
         t == IF v = 0 THEN tracker ELSE [tracker EXCEPT !.status = stream[v]]
     IN CASE v = 0 \/ t.status = "PLACED" -> NextTick(t)
          [] v # 0 /\ t.status = "ACCEPTED" -> tracker' = [t EXCEPT !.state = next]
          [] v # 0 /\ t.status = "CANCELLED" -> tracker' = [t EXCEPT !.state = "done"]
  /\ UNCHANGED <<modelVars, cache, failures, boardVars>>

\* (StopWhenSettled is the form that leaves the delivery out.)
StopWhenSettled == Answered("done")
OrderAnswered == Answered("dispatch")

\* getOrderDispatch, which has no cache.
DispatchAnswered ==
  /\ tracker.state = "dispatch"
  /\ LET t == [tracker EXCEPT !.delivered = deliveredDoc]
     IN IF deliveredDoc THEN tracker' = [t EXCEPT !.state = "done"]
        ELSE NextTick(t)
  /\ UNCHANGED <<cacheVars, boardVars>>

\* What it falls back to is never final: a page that shows the end has stopped.
DispatchUnanswered ==
  /\ tracker.state = "dispatch" /\ failures < MaxFailures
  /\ NextTick(tracker)
  /\ failures' = failures + 1
  /\ UNCHANGED <<modelVars, cache, get, boardVars>>

\* The button is for an order that was not seen accepted or cancelled (TERMINAL).
CheckAgain ==
  /\ tracker.state = "paused" /\ tracker.status \in {"none", "PLACED"}
  /\ tracker' = [tracker EXCEPT !.state = "polling", !.attempts = 0]
  /\ UNCHANGED <<cacheVars, boardVars>>

Tracker == Poll \/ OrderAnswered \/ DispatchAnswered

-----------------------------------------------------------------------------
(* The board.                                                               *)

\* onOpen: the stream is (again) open, and the list is asked for.
AtRest ==
  /\ Settled /\ doc = 2 /\ fed = 2
  /\ get["board"].step = "idle" /\ \A l \in Lists : list[l].step = "idle"

\* (OpenOnly is the form that counts on the stream alone.)
OpenOnly ==
  /\ ~connected /\ connected' = TRUE
  /\ rested' = AtRest
  /\ UNCHANGED <<cacheVars, trackerVars, row, rendered, tries, wire, list>>

Open ==
  /\ ~connected /\ connected' = TRUE
  /\ \E l \in Lists : list[l].step = "idle" /\ list' = [list EXCEPT ![l] = Asked]
  /\ rested' = AtRest
  /\ UNCHANGED <<cacheVars, trackerVars, row, rendered, tries, wire>>

\* fetchEventSource connects again by itself.
Disconnect ==
  /\ connected /\ failures < MaxFailures
  /\ connected' = FALSE /\ wire' = <<>>
  /\ failures' = failures + 1
  /\ UNCHANGED <<modelVars, cache, get, trackerVars, row, rendered, tries, list, rested>>

\* eachMessage of the feeder: a subject has no memory, so that an event goes to
\* the streams that are open.
Feed ==
  /\ fed < Len(stream) /\ fed' = fed + 1
  /\ wire' = IF connected THEN Append(wire, fed + 1) ELSE wire
  /\ UNCHANGED <<stream, delivered, doc, deliveredDoc, cache, get, failures,
                 trackerVars, row, rendered, tries, connected, list, rested>>

\* A message that was handled and not committed is read again, and with it what
\* followed it.  A board that has no row for the order asks for it, and may be
\* answered from the cache.
Redeliver ==
  /\ failures < MaxFailures /\ failures' = failures + 1
  /\ fed' \in 0 .. fed - 1
  /\ rested' = (rested /\ rendered /\ row # "none")
  /\ UNCHANGED <<stream, delivered, doc, deliveredDoc, cache, get, trackerVars, row,
                 rendered, tries, connected, wire, list>>

\* The read API restarts: its requests fail, its streams end, and its consumer
\* begins with the next event (a new group, fromBeginning false).
Restart ==
  /\ failures < MaxFailures /\ failures' = failures + 1
  /\ fed' = Len(stream)
  /\ get' = [r \in Readers |-> IF get[r].step \in {"asked", "missed", "read"}
                                 THEN [step |-> "failed", view |-> 0] ELSE get[r]]
  /\ list' = [l \in Lists |-> IF list[l].step = "asked" THEN IdleList ELSE list[l]]
  /\ connected' = FALSE /\ wire' = <<>> /\ rested' = FALSE
  /\ UNCHANGED <<stream, delivered, doc, deliveredDoc, cache, trackerVars, row,
                 rendered, tries>>

\* onEvent: a row that the last render had is updated, a new order is asked
\* for, any other event is dropped.
Handle(status) ==
  /\ wire' = Tail(wire)
  /\ CASE rendered ->
            /\ row' = IF row = "none" THEN row ELSE status
            /\ UNCHANGED get
       [] ~rendered /\ status = "PLACED" ->
            At("board", "idle") /\ GoTo("board", "asked", 0) /\ UNCHANGED row
       [] ~rendered /\ status # "PLACED" -> UNCHANGED <<row, get>>
  /\ UNCHANGED <<modelVars, cache, failures, trackerVars, rendered, tries, connected,
                 list, rested>>

\* The status is derived from the event's type, the feeder's own is a constant.
OnEvent == wire # <<>> /\ Handle(stream[Head(wire)])

\* fetchRow: the event may be ahead of the projection, so 404 is asked again.
RowAnswered ==
  /\ get["board"].step \in {"answered", "failed"}
  /\ LET v == get["board"].view
         again == At("board", "answered") /\ v = 0 /\ tries + 1 < MaxTries
     IN /\ row' = IF v = 0 THEN row ELSE stream[v]
        /\ tries' = IF again THEN tries + 1 ELSE 0
        /\ GoTo("board", IF again THEN "asked" ELSE "idle", 0)
  /\ UNCHANGED <<modelVars, cache, failures, trackerVars, rendered, connected, wire,
                 list, rested>>

Render ==
  /\ rendered # (row # "none") /\ rendered' = (row # "none")
  /\ UNCHANGED <<cacheVars, trackerVars, row, tries, connected, wire, list, rested>>

\* resync: the list is read from the documents, and replaces all rows.
ReadList(l) ==
  /\ list[l].step = "asked"
  /\ list' = [list EXCEPT ![l] = [step |-> "read", view |-> doc]]
  /\ UNCHANGED <<cacheVars, trackerVars, row, rendered, tries, connected, wire, rested>>

ListAnswered(l) ==
  /\ list[l].step = "read"
  /\ row' = IF list[l].view = 0 THEN "none" ELSE stream[list[l].view]
  /\ list' = [list EXCEPT ![l] = IdleList]
  /\ UNCHANGED <<cacheVars, trackerVars, rendered, tries, connected, wire, rested>>

\* The board says so, and the rows stay.
ListFailed(l) ==
  /\ list[l].step # "idle" /\ failures < MaxFailures
  /\ list' = [list EXCEPT ![l] = IdleList]
  /\ failures' = failures + 1 /\ rested' = FALSE
  /\ UNCHANGED <<modelVars, cache, get, trackerVars, row, rendered, tries, connected,
                 wire>>

Board ==
  \/ Open \/ Disconnect \/ OnEvent \/ RowAnswered \/ Render
  \/ \E l \in Lists : ReadList(l) \/ ListAnswered(l) \/ ListFailed(l)

-----------------------------------------------------------------------------
Served(r) == GetOrder(r) /\ UNCHANGED <<trackerVars, boardVars>>

Next ==
  \/ (Record \/ Project \/ Lapse) /\ UNCHANGED <<trackerVars, boardVars>>
  \/ \E r \in Readers : Served(r) \/ (Fail(r) /\ UNCHANGED <<trackerVars, boardVars>>)
  \/ Feed \/ Redeliver \/ Restart
  \/ Tracker \/ DispatchUnanswered \/ CheckAgain
  \/ Board

Spec == Init /\ [][Next]_vars

\* The projection and the cache's expiry go on, the read API answers, and the
\* tracking page is in the foreground.  Its reader checks again where it offers to.
Fair ==
  /\ WF_vars(Project /\ UNCHANGED <<trackerVars, boardVars>>)
  /\ WF_vars(Lapse /\ UNCHANGED <<trackerVars, boardVars>>)
  /\ WF_vars(Served("tracker")) /\ WF_vars(Served("board"))
  /\ WF_vars(Tracker) /\ WF_vars(CheckAgain)

FairSpec == Spec /\ Fair

\* The board's page, too, goes on handling what it is sent.
BoardFairSpec ==
  /\ FairSpec
  /\ WF_vars(Open) /\ WF_vars(OnEvent) /\ WF_vars(RowAnswered) /\ WF_vars(Render)
  /\ \A l \in Lists : WF_vars(ReadList(l)) /\ WF_vars(ListAnswered(l))

-----------------------------------------------------------------------------
(* Properties.                                                             *)

\* The tracking page stops for good only when nothing can change any more:
\* cancelled, or accepted and the delivery over, as the documents then say too.
StopsAtTheEnd ==
  tracker.state = "done" =>
    /\ Settled /\ tracker.status = Final /\ doc = 2
    /\ Final = "ACCEPTED" => delivered /\ tracker.delivered

\* A customer who goes on checking is told how the order was settled, and the
\* page comes to rest: no view stays in the cache that was put there late ("10s
\* TTL").  A page that pauses on an accepted order never shows the delivery.
CustomerIsTold ==
  Settled ~>
    (Settled /\ tracker.status = Final /\ tracker.state \in {"done", "paused"})

\* What the comment at page.tsx:120 says of the pause: "give up the live poll;
\* offer a manual refresh".  TLC refutes this: the button is left out for an
\* accepted order, whose delivery the poll was still waiting for.
RefreshIsOffered ==
  tracker.state = "paused" => tracker.status \in {"none", "PLACED"}

\* The list that is asked for on (re)connecting sets a board right: if nothing was
\* under way, it then shows how the order ended and goes on showing it while the
\* stream is open.  Events that are read again take its row back, as applyOrderEvent
\* has no guard against older ones, until the last of them has arrived.
ReconnectHeals ==
  rested /\ connected /\ (\A l \in Lists : list[l].step = "idle")
    /\ fed = 2 /\ wire = <<>>
  => row = Final

\* What one would like to say without the last two conditions.  TLC refutes this: an
\* OrderPlaced that is read again shows a settled order as placed.
HealsForGood ==
  rested /\ connected /\ (\A l \in Lists : list[l].step = "idle") => row = Final

\* What docs/superpowers/specs/2026-06-15-flashbite-phase-1d-iv-admin-grid-
\* design.md:117 says of the operator's board: "on event, upsert/refetch into
\* orders (reuse ... getOrder as the merchant page does)".  A new order that is in
\* the documents when its event comes gets its row.  TLC refutes this for the
\* operator, who asks for the order under a tenant that it does not belong to.
NewOrderIsListed ==
  (connected /\ wire # <<>> /\ Head(wire) = 1 /\ doc > 0) ~> (row # "none")

\* What docs/superpowers/specs/2026-06-14-flashbite-phase-1d-ii-merchant-
\* dashboard-design.md:98 expects of it in general: events missed while
\* disconnected are made up for.  TLC refutes this: the list may be read before
\* the projection has the event that was fed before the stream was open.
BoardIsCurrent ==
  connected /\ fed = Len(stream) /\ doc = fed /\ wire = <<>>
    /\ At("board", "idle") /\ (\A l \in Lists : list[l].step = "idle") /\ failures = 0
  => row = IF stream = <<>> THEN "none" ELSE stream[Len(stream)]
=============================================================================
