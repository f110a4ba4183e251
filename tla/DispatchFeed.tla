---------------------------- MODULE DispatchFeed ----------------------------
(***************************************************************************)
(* The dispatch events of one tenant on their two ways out: the projection *)
(* into the dispatches collection (dispatch-projection.ts), which the      *)
(* queries read, and the feeder of the live streams (sse-feeder.service.ts)*)
(* with its subject per tenant (dispatch-stream.service.ts).  A view is    *)
(* named by the position of its event in the log.                          *)
(***************************************************************************)
EXTENDS Naturals, Sequences, FiniteSets

CONSTANTS
  Orders,
  Me, Other,           \* the driver whose page is modelled, and one more
  None,                \* no driver
  MaxLog,              \* bound: recorded events
  MaxFailures          \* bound: requests, connections and attempts lost,
                       \* and messages read twice

ASSUME FeedAssumption ==
  /\ Me # Other /\ None \notin {Me, Other}
  /\ MaxLog \in Nat /\ MaxFailures \in Nat

VARIABLES
  log,                 \* the dispatch events, as recorded and published
  doc,                 \* how many of them the projection has applied
  fed,                 \* how many of them the feeder has read
  online,              \* Me is in the tenant's online set
  candidate,           \* the driver each order's workflow has selected last
  signals,             \* what Me has agreed to about each order
  failures

feedVars == <<log, doc, fed, online, candidate, signals, failures>>

Drivers == {Me, Other}
Statuses == {"OFFERED", "DISPATCHED", "PICKED_UP", "DELIVERED", "FAILED"}
Open == {"DISPATCHED", "PICKED_UP"}
Views == [order : Orders, status : Statuses, driver : Drivers \cup {None}]

FeedTypeOK ==
  /\ log \in Seq(Views) /\ Len(log) <= MaxLog
  /\ doc \in 0 .. Len(log) /\ fed \in 0 .. Len(log)
  /\ online \in BOOLEAN /\ candidate \in [Orders -> Drivers \cup {None}]
  /\ signals \in [Orders -> SUBSET {"accept", "pickup", "deliver"}]
  /\ failures \in 0 .. MaxFailures

FeedInit ==
  /\ log = <<>> /\ doc = 0 /\ fed = 0
  /\ online \in BOOLEAN
  /\ candidate = [o \in Orders |-> None] /\ signals = [o \in Orders |-> {}]
  /\ failures = 0

\* The last of the first n events that is about order o, or 0; and its document.
LatestOf(o, n) == LET of == {i \in 1 .. n : log[i].order = o}
              IN IF of = {} THEN 0 ELSE CHOOSE i \in of : \A j \in of : j <= i
StatusOf(o, n) == IF LatestOf(o, n) = 0 THEN "NONE" ELSE log[LatestOf(o, n)].status
Tried(o) == {log[i].driver : i \in {j \in DOMAIN log :
                                      log[j].order = o /\ log[j].status = "OFFERED"}}
\* Who accepted order o within the first n events: driverId, which later $sets keep.
AcceptedBy(o, n) ==
  LET a == {i \in 1 .. n : log[i].order = o /\ log[i].status = "DISPATCHED"}
  IN IF a = {} THEN None ELSE log[CHOOSE i \in a : TRUE].driver

\* forDriver: the documents of which findOne returns one.
ForDriver(d, n) ==
  {i \in {LatestOf(o, n) : o \in Orders} \ {0} :
     \/ log[i].status = "OFFERED" /\ log[i].driver = d
     \/ log[i].status \in Open /\ AcceptedBy(log[i].order, n) = d}

-----------------------------------------------------------------------------
(* The workflows that record the events, as far as a driver notices.       *)

Now(o) == StatusOf(o, Len(log))
Busy(d) == \E o \in Orders : AcceptedBy(o, Len(log)) = d /\ Now(o) \in Open

Emit(o, status, driver) ==
  /\ Len(log) < MaxLog
  /\ log' = Append(log, [order |-> o, status |-> status, driver |-> driver])

\* The offer to the candidate is recorded, and so it is no longer waited for.
Offered(o) == candidate[o] \in Tried(o) \cup {None}

\* selectNearestAvailableDriverActivity: the choice is made before it is recorded.
Select(o) ==
  /\ Now(o) \in {"NONE", "OFFERED"} /\ Offered(o)
  /\ \E d \in Drivers \ Tried(o) :
       /\ d = Me => online
       /\ ~Busy(d)
       /\ candidate' = [candidate EXCEPT ![o] = d]
  /\ UNCHANGED <<log, doc, fed, online, signals, failures>>

\* recordDriverOfferedActivity for the candidate; and an attempt of it that was
\* lost to the workflow, which may offer again, also to an earlier candidate.
RecordOffered(o) ==
  /\ Now(o) \in {"NONE", "OFFERED"}
  /\ \/ ~Offered(o) /\ Emit(o, "OFFERED", candidate[o]) /\ UNCHANGED failures
     \/ /\ failures < MaxFailures /\ failures' = failures + 1
        /\ \E d \in Tried(o) : Emit(o, "OFFERED", d)
  /\ UNCHANGED <<doc, fed, online, candidate, signals>>

\* condition(...): Me decides by a signal, the other driver at any time.  Only
\* the candidate's yes counts, and only while the candidate's is the last offer.
\* A selection finds nobody, or fails after the acceptance, at any time.
RecordStep(o) ==
  /\ Offered(o)
  /\ LET by == AcceptedBy(o, Len(log))
         Has(s, x) == x = Me => s \in signals[o]
     IN \/ /\ Now(o) = "OFFERED" /\ log[LatestOf(o, Len(log))].driver = candidate[o]
           /\ Has("accept", candidate[o]) /\ Emit(o, "DISPATCHED", candidate[o])
        \/ Now(o) = "DISPATCHED" /\ Has("pickup", by) /\ Emit(o, "PICKED_UP", None)
        \/ Now(o) = "PICKED_UP" /\ Has("deliver", by) /\ Emit(o, "DELIVERED", None)
        \/ Now(o) \notin {"DELIVERED", "FAILED"} /\ Emit(o, "FAILED", None)
  /\ UNCHANGED <<doc, fed, online, candidate, signals, failures>>

Workflows == \E o \in Orders : Select(o) \/ RecordOffered(o) \/ RecordStep(o)

Project ==
  /\ doc < Len(log) /\ doc' = doc + 1
  /\ UNCHANGED <<log, fed, online, candidate, signals, failures>>
=============================================================================
