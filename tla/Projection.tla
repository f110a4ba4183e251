----------------------------- MODULE Projection -----------------------------
(***************************************************************************)
(* The projection worker (apps/projection-worker): it consumes the         *)
(* partition that OutboxRelay fills and keeps one document of the Mongo    *)
(* read model up to date, with an inbox of the events it has processed.    *)
(* applyEvent (orders) and applyDispatchEvent (dispatches) are the same    *)
(* handler but for one thing: of an order only OrderPlaced creates the     *)
(* document, of a dispatch every event does.                               *)
(*                                                                         *)
(* The handler makes up to four calls to Mongo, outside any transaction.   *)
(* A worker that crashes or loses the partition is followed by another     *)
(* that starts from the committed offset; if it did not crash, what it was *)
(* doing goes on.                                                          *)
(***************************************************************************)
EXTENDS OutboxRelay, Integers

CONSTANTS
  Workers,             \* consumers of the group over time, the rebuild aside
  Unstarted            \* TRUE: the group has no committed offset yet

ASSUME ProjectionAssumption == Unstarted \in BOOLEAN /\ "rebuild" \notin Workers

VARIABLES
  kind,                \* whose stream it is: an order's or a dispatch's
  view,                \* the document: its version and the events in it
  inbox,               \* the events recorded in processed_events
  owner,               \* the worker that has the partition
  position,            \* messages it has handled
  offset,              \* messages the group has committed
  apply                \* for each worker, the event in its handler

worker == <<owner, position, offset>>
mongo == <<view, inbox>>
vars == <<relayVars, kind, view, inbox, owner, position, offset, apply>>

\* "rebuild" applies events too; see Rebuild.
Appliers == Workers \cup {"rebuild"}

\* The versions whose event creates a missing document.
Creating == IF kind = "order" THEN {1} ELSE Versions

NoView == [version |-> 0, events |-> {}]
Exists == view # NoView
NoOffset == -1

Idle == [step |-> "idle", version |-> 0]
Steps == {"idle", "received", "new", "writing", "recording", "processed"}

TypeOK ==
  /\ RelayTypeOK
  /\ kind \in {"order", "dispatch"}
  /\ view \in [version : 0 .. LastVersion, events : SUBSET Versions]
  /\ inbox \subseteq Versions
  /\ owner \in Workers /\ position \in Nat /\ offset \in Nat \cup {NoOffset}
  /\ apply \in [Appliers -> [step : Steps, version : 0 .. LastVersion]]

Init ==
  /\ RelayInit
  /\ kind \in {"order", "dispatch"}
  /\ view = NoView /\ inbox = {}
  /\ owner \in Workers /\ position = 0
  /\ offset = IF Unstarted THEN NoOffset ELSE 0
  /\ apply = [a \in Appliers |-> Idle]

-----------------------------------------------------------------------------
(* applyEvent, by applier a.                                               *)

Goto(a, step) == apply' = [apply EXCEPT ![a].step = step]

\* The inbox lookup.
CheckInbox(a) ==
  /\ apply[a].step = "received"
  /\ Goto(a, IF apply[a].version \in inbox THEN "processed" ELSE "new")
  /\ UNCHANGED <<relayVars, mongo, worker>>

\* findOne and the version guard.
NewerThanView(n) == view.version < n /\ (Exists \/ n \in Creating)

ReadView(a) ==
  /\ apply[a].step = "new"
  /\ Goto(a, IF NewerThanView(apply[a].version) THEN "writing" ELSE "recording")
  /\ UNCHANGED <<relayVars, mongo, worker>>

\* updateOne: an upsert for a creating event, else without effect on a
\* document that is gone.
WriteView(a) ==
  LET n == apply[a].version IN
  /\ apply[a].step = "writing"
  /\ view' = IF Exists \/ n \in Creating
               THEN [version |-> n, events |-> view.events \cup {n}] ELSE view
  /\ Goto(a, "recording")
  /\ UNCHANGED <<relayVars, inbox, worker>>

\* insertOne into the inbox; a duplicate key is ignored.
RecordInbox(a) ==
  /\ apply[a].step = "recording"
  /\ inbox' = inbox \cup {apply[a].version}
  /\ Goto(a, "processed")
  /\ UNCHANGED <<relayVars, view, worker>>

\* (BlindApply is a mutated form: neither inbox nor version guard.)
BlindApply(a) ==
  \/ /\ apply[a].step = "received" /\ Goto(a, "writing")
     /\ UNCHANGED <<relayVars, mongo, worker>>
  \/ WriteView(a) \/ RecordInbox(a)

ApplyEvent(a) ==
  CheckInbox(a) \/ ReadView(a) \/ WriteView(a) \/ RecordInbox(a)

-----------------------------------------------------------------------------
(* The consumer.                                                           *)

Receive(w) ==
  /\ w = owner /\ apply[w].step = "idle" /\ position < Len(log)
  /\ apply' = [apply EXCEPT ![w] = [step |-> "received", version |-> log[position + 1]]]
  /\ UNCHANGED <<relayVars, mongo, worker>>

\* eachMessage has returned.  A worker that has lost the partition moves
\* nothing.
Handled(w) ==
  /\ apply[w].step = "processed"
  /\ apply' = [apply EXCEPT ![w] = Idle]
  /\ position' = IF w = owner THEN position + 1 ELSE position
  /\ UNCHANGED <<relayVars, mongo, owner, offset>>

\* The offset is committed now and then.  (CommitEarly is a mutated form that
\* commits the message that is being handled.)
CommitEarly ==
  /\ position < Len(log) /\ offset # position + 1
  /\ offset' = position + 1
  /\ UNCHANGED <<relayVars, mongo, apply, owner, position>>

CommitOffset ==
  /\ position > 0 /\ offset # position
  /\ offset' = position
  /\ UNCHANGED <<relayVars, mongo, apply, owner, position>>

\* The partition goes to worker w, the same after a restart or another, from
\* the committed offset; without one from the end (fromBeginning: false).
Resume == IF offset = NoOffset THEN Len(log) ELSE offset

Takeover(w) ==
  /\ apply[w].step = "idle" \/ w = owner
  /\ crashes < MaxCrashes /\ crashes' = crashes + 1
  /\ owner' = w
  /\ position' = Resume
  /\ apply' = IF w = owner THEN [apply EXCEPT ![w] = Idle] ELSE apply
  /\ UNCHANGED <<outbox, batch, published, log, mongo, offset>>

Worker(w) == Receive(w) \/ ApplyEvent(w) \/ Handled(w)

Next ==
  /\ UNCHANGED kind
  /\ \/ RelayNext /\ UNCHANGED <<mongo, worker, apply>>
     \/ \E w \in Workers : Worker(w) \/ Takeover(w)
     \/ CommitOffset

Spec == Init /\ [][Next]_vars

\* The poller and the worker keep running (they are restarted when they
\* crash, which they do MaxCrashes times at most); writers owe nothing.
FairSpec ==
  /\ Spec
  /\ WF_vars(Next /\ Poller)
  /\ \A w \in Workers : WF_vars(Next /\ Worker(w))

-----------------------------------------------------------------------------
(* Properties.                                                             *)

\* The document is always the events of the stream up to its version, each of
\* them applied: nothing is skipped, however often events are sent or
\* delivered twice and wherever a worker stops.
ViewIsPrefix == view.events = 1 .. view.version

Shown(n) == n \in view.events /\ view.version >= n

\* An event in the inbox is in the document: none is marked processed that
\* had no effect.
ProcessedIsShown == \A n \in inbox : Shown(n)

\* Every event is shown in the end.
CatchesUp == \A n \in Versions : Committed(n) ~> (view.version >= n)

\* Whenever the worker has nothing left to do, the document is up to date.
AllIdle == \A a \in Appliers : apply[a].step = "idle"
Drained == AllIdle /\ position = Len(log) /\ Pending = {}
UpToDateWhenDrained ==
  Drained => \A n \in Versions : Committed(n) => Shown(n)

-----------------------------------------------------------------------------
(* What a document says, and the code does not do.                         *)

\* "The read model only moves forward" (ARCHITECTURE.md): checked with a
\* worker that lost its partition while it was in the handler.
OnlyMovesForward == [][view.version <= view'.version]_view

\* "At-least-once delivery is inherent" (showcase design): checked with a
\* consumer group that has not committed an offset yet.
DeliveredAtLeastOnce == UpToDateWhenDrained
=============================================================================
