-------------------------- MODULE OrderEventStore --------------------------
(***************************************************************************)
(* The event stream of one order in event_store, and the processes that    *)
(* append to it: the place-order requests of the write API                 *)
(* (orders.service.ts) and the attempts of the saga's two recording        *)
(* activities (activities.ts).  Each of them loads the aggregate in one    *)
(* transaction and appends in another (aggregate-store.ts); what it loaded *)
(* may be stale by the time it appends, and only the unique constraint on  *)
(* (tenantId, aggregateId, version) stands between two of them.            *)
(*                                                                         *)
(* A writer is <<op, id>>.  A writer that stops between its steps is one   *)
(* that takes no further step.                                             *)
(***************************************************************************)
EXTENDS OrderAggregate, ActivityAttempts

VARIABLES
  events,              \* the rows of the order's stream, in version order
  writer               \* for each writer, where it is and what it loaded

storeVars == <<events, writer>>

WriterOps == {"place", "accept", "cancel"}
Writers == WriterOps \X Attempts

\* "loaded": the command was decided on the state loaded at `version`.
\* "done": the command returned; "conflict": it threw ConcurrencyError.
WriterSteps == {"idle", "started", "loaded", "done", "conflict"}

StoreTypeOK ==
  /\ events \in Seq(OrderEvent)
  /\ writer \in [Writers -> [step : WriterSteps, version : Nat]]

StoreInit ==
  /\ events = <<>>
  /\ writer = [w \in Writers |-> [step |-> "idle", version |-> 0]]

-----------------------------------------------------------------------------

\* The command of writer w, decided on the loaded state.
Decide(w, state) ==
  CASE w[1] = "place" -> place(state)
    [] w[1] = "accept" -> accept(state)
    [] w[1] = "cancel" -> cancel(state)

EventOf(w, reason) ==
  CASE w[1] = "place" -> OrderPlaced
    [] w[1] = "accept" -> OrderAccepted
    [] w[1] = "cancel" -> OrderCancelled(reason)

StartWriter(w) ==
  /\ writer[w].step = "idle"
  /\ writer' = [writer EXCEPT ![w].step = "started"]
  /\ UNCHANGED events

\* loadAggregate and the decision.  A refused command returns without an
\* event: place because the order exists, accept and cancel because an
\* InvalidTransitionError is a benign no-op.
Load(w) ==
  /\ writer[w].step = "started"
  /\ LET loaded == loadAggregate(events)
     IN writer' = [writer EXCEPT ![w] =
          [step |-> IF Decide(w, loaded.state) THEN "loaded" ELSE "done",
           version |-> loaded.version]]
  /\ UNCHANGED events

\* A mutated form of the definition below: no unique constraint.
VersionNeverTaken(version) == FALSE

\* The row (order, version) is there already: the insert breaks the unique
\* constraint.
VersionTaken(version) == version \in 1 .. Len(events)

\* appendWithExpectedVersion: the event row and its outbox row in one
\* transaction, or ConcurrencyError.  A place request swallows the error.
AppendEvent(w, reason) ==
  /\ writer[w].step = "loaded"
  /\ IF VersionTaken(writer[w].version + 1)
       THEN /\ writer' = [writer EXCEPT ![w].step =
                            IF w[1] = "place" THEN "done" ELSE "conflict"]
            /\ UNCHANGED events
       ELSE /\ events' = Append(events, EventOf(w, reason))
            /\ writer' = [writer EXCEPT ![w].step = "done"]

StoreNext ==
  \E w \in Writers :
    \/ StartWriter(w)
    \/ Load(w)
    \/ \E reason \in ORDER_CANCEL_REASONS : AppendEvent(w, reason)

StoreSpec == StoreInit /\ [][StoreNext]_storeVars

-----------------------------------------------------------------------------

IsTerminal(event) == event.type \in {"OrderAccepted", "OrderCancelled"}

\* However many requests and attempts race, the stream is a placement and at
\* most one terminal event, in that order: the promise of the version
\* constraint together with the PLACED guard of accept and cancel.
OneTerminalEvent ==
  \/ events = <<>>
  \/ events = <<OrderPlaced>>
  \/ Len(events) = 2 /\ events[1] = OrderPlaced /\ IsTerminal(events[2])

\* A writer about to append has seen the current state, or will be refused:
\* the version it would take is either free and the next one, or taken.  This
\* is what makes the row number equal to the version.
VersionsAreTaken ==
  \A w \in Writers :
    writer[w].step = "loaded" =>
      \/ writer[w].version = Len(events)
      \/ VersionTaken(writer[w].version + 1)

\* A recording that returned normally leaves the order out of PLACED for
\* good: the attempt appended its event, or found a state that refuses it.
\* (An order not placed yet would refuse it too; see OrderSaga.)
RecordedMeansSettled ==
  \A w \in Writers :
    writer[w].step = "done" /\ w[1] # "place" /\ writer[w].version > 0
      => Len(events) = 2

\* A conflict is never spurious: whoever lost the race can see the event that
\* beat it, so the retried attempt ends in a no-op.
ConflictMeansBeaten ==
  \A w \in Writers : writer[w].step = "conflict" => Len(events) = 2

\* The three together: what the constraint and the guards are there for.
StoreSafe == OneTerminalEvent /\ RecordedMeansSettled /\ ConflictMeansBeaten

\* The stream is only ever extended, one row at a time.
AppendOnly ==
  [][\E e \in OrderEvent : events' = Append(events, e)]_events
=============================================================================
