------------------------------ MODULE Rebuild ------------------------------
(***************************************************************************)
(* rebuildProjection (apps/projection-worker/src/rebuild.ts), run beside   *)
(* the worker of Projection: it empties the collections and replays every  *)
(* event of the event store through the worker's own handler.              *)
(***************************************************************************)
EXTENDS Projection

CONSTANT WorkerStopped \* TRUE: no consumer runs while the rebuild does

ASSUME RebuildAssumption == WorkerStopped \in BOOLEAN

VARIABLES
  stage,               \* how far the rebuild is
  rows                 \* the events it read, those not yet replayed

rebuildVars == <<vars, stage, rows>>

R == "rebuild"

RebuildTypeOK ==
  /\ TypeOK
  /\ stage \in {"notRun", "viewsDeleted", "inboxDeleted", "replaying", "done"}
  /\ rows \subseteq Versions

RebuildInit == Init /\ stage = "notRun" /\ rows = {}

Rebuilding == stage \in {"viewsDeleted", "inboxDeleted", "replaying"}

DeleteViews ==
  /\ stage = "notRun" /\ stage' = "viewsDeleted"
  /\ WorkerStopped => AllIdle
  /\ view' = NoView
  /\ UNCHANGED <<relayVars, inbox, worker, apply, rows>>

\* (KeepInbox is a mutated form that leaves the inbox as it is.)
KeepInbox ==
  /\ stage = "viewsDeleted" /\ stage' = "inboxDeleted"
  /\ UNCHANGED <<relayVars, mongo, worker, apply, rows>>

DeleteInbox ==
  /\ stage = "viewsDeleted" /\ stage' = "inboxDeleted"
  /\ inbox' = {}
  /\ UNCHANGED <<relayVars, view, worker, apply, rows>>

\* All events committed by now; they are replayed by version.
ReadRows ==
  /\ stage = "inboxDeleted" /\ stage' = "replaying"
  /\ rows' = {n \in Versions : Committed(n)}
  /\ UNCHANGED vars

Replay ==
  /\ stage = "replaying" /\ apply[R].step = "idle"
  /\ \E n \in Versions :
       /\ Oldest(n, rows)
       /\ apply' = [apply EXCEPT ![R] = [step |-> "received", version |-> n]]
       /\ rows' = rows \ {n}
  /\ UNCHANGED <<relayVars, mongo, worker, stage>>

Replayed ==
  /\ apply[R].step = "processed"
  /\ apply' = [apply EXCEPT ![R] = Idle]
  /\ UNCHANGED <<relayVars, mongo, worker, stage, rows>>

RebuildEnds ==
  /\ stage = "replaying" /\ rows = {} /\ apply[R].step = "idle"
  /\ stage' = "done"
  /\ UNCHANGED <<vars, rows>>

RebuildStep ==
  \/ DeleteViews \/ DeleteInbox \/ ReadRows \/ Replay \/ Replayed \/ RebuildEnds
  \/ ApplyEvent(R) /\ UNCHANGED <<stage, rows>>

RebuildNext ==
  \/ UNCHANGED kind /\ RebuildStep
  \/ /\ Next /\ UNCHANGED <<stage, rows>>
     /\ WorkerStopped /\ Rebuilding => UNCHANGED <<apply, worker>>

RebuildSpec == RebuildInit /\ [][RebuildNext]_rebuildVars

\* A rebuild that was begun is seen to its end; poller and worker as before.
RebuildFairSpec ==
  /\ RebuildSpec
  /\ WF_rebuildVars(UNCHANGED kind /\ RebuildStep /\ stage # "notRun")
  /\ WF_rebuildVars(RebuildNext /\ Poller)
  /\ \A w \in Workers : WF_rebuildVars(RebuildNext /\ Worker(w))

-----------------------------------------------------------------------------
(* Properties.                                                             *)

\* Before the rebuild and after it an event in the inbox is in the document,
\* and whenever the worker has nothing left to do the document is up to date,
\* with the events that were committed or delivered while it ran.
RebuiltIsComplete == ~Rebuilding => ProcessedIsShown /\ UpToDateWhenDrained

\* The document goes back to an earlier version only where a rebuild begins.
MovesForward == [][view'.version >= view.version \/ stage' = "viewsDeleted"]_view

\* "Deterministic and idempotent (re-running yields the same read model)"
\* (ARCHITECTURE.md), which the worker beside it breaks.
RebuildIsDeterministic == RebuiltIsComplete
=============================================================================
