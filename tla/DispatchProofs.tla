--------------------------- MODULE DispatchProofs ---------------------------
(***************************************************************************)
(* Proofs about Dispatch, for any orders, drivers, offers and attempts.    *)
(*                                                                         *)
(* DecidedInv: what an attempt knows that has loaded and not yet written.  *)
(* It may be abandoned long since, but if the stream has not grown, its    *)
(* decision still stands.  BusyInv: where each busy driver's job is.       *)
(* JobInv: what every attempt was begun for, and so what a stream says; it *)
(* follows the fold of a stream row by row.                                *)
(***************************************************************************)
EXTENDS Dispatch, TLAPS, WellFoundedInduction

CallRecord == [step : {"idle", "started", "loaded", "done", "conflict"}, version : Nat]

ServersInv ==
  /\ stream \in [Orders -> Seq(DispatchEvent)]
  /\ call \in [Orders -> [Calls -> CallRecord]]

DecidedInv ==
  \A o \in Orders : \A c \in Calls :
    call[o][c].step = "loaded" =>
      /\ call[o][c].version <= Len(stream[o])
      /\ call[o][c].version = Len(stream[o]) => Allows(State(o), c[1])

\* A workflow step does nothing to the streams, and to the attempts nothing
\* but start one.
LEMMA StartKeeps ==
  ASSUME ServersInv, DecidedInv, UNCHANGED stream,
         NEW o \in Orders, NEW c,
         call' = [call EXCEPT ![o][c].step = "started"]
  PROVE  (ServersInv /\ DecidedInv)'
<1>1. ServersInv'
  <2>1. CASE c \in Calls
    <3>1. call[o][c] \in CallRecord
      BY <2>1 DEF ServersInv
    <3>2. [call[o][c] EXCEPT !.step = "started"] \in CallRecord
      BY <3>1 DEF CallRecord
    <3> QED BY <2>1, <3>2 DEF ServersInv
  <2>2. CASE c \notin Calls
    <3>1. call[o] \in [Calls -> CallRecord]
      BY DEF ServersInv
    <3>2. [call[o] EXCEPT ![c].step = "started"] = call[o]
      BY <2>2, <3>1
    <3>3. call' = [call EXCEPT ![o] = call[o]]
      BY <3>2
    <3> QED BY <3>3 DEF ServersInv
  <2> QED BY <2>1, <2>2
<1>2. ASSUME NEW p \in Orders, NEW b \in Calls, call'[p][b].step = "loaded"
      PROVE  call'[p][b] = call[p][b]
  <2>1. CASE p = o /\ b = c
    BY <1>2, <2>1 DEF ServersInv, CallRecord
  <2>2. CASE ~(p = o /\ b = c)
    BY <1>2, <2>2 DEF ServersInv, CallRecord
  <2> QED BY <2>1, <2>2
<1>3. DecidedInv'
  BY <1>2 DEF DecidedInv, State
<1> QED BY <1>1, <1>3

\* A step of the workflow leaves the streams alone, and starts one attempt or
\* none.
LEMMA WorkflowStarts ==
  ASSUME NEW o \in Orders, Workflow(o)
  PROVE  \/ UNCHANGED <<stream, busy, call>>
         \/ \E stage, d, n : StartAttempt(o, stage, d, n)
<1>1. CASE Select(o)
  BY <1>1 DEF Select, Offer
<1>2. CASE NoCandidate(o) \/ OfferAccepted(o) \/ Marked(o) \/ PickedUp(o)
             \/ Delivered(o) \/ DeliveryRecorded(o) \/ GiveUp(o) \/ ReleasedLate(o)
  BY <1>2 DEF NoCandidate, OfferAccepted, Marked, PickedUp, Delivered,
              DeliveryRecorded, GiveUp, ReleasedLate, Schedule
<1>3. CASE OfferRecorded(o) \/ OfferLapsed(o) \/ AcceptRecorded(o) \/ PickupRecorded(o)
  BY <1>3 DEF OfferRecorded, OfferLapsed, AcceptRecorded, PickupRecorded, Wait, servers
<1>4. CASE Released(o) \/ FailureRecorded(o) \/ WorkflowFails(o)
  BY <1>4 DEF Released, FailureRecorded, WorkflowFails, Close, servers
<1>5. CASE RetryActivity(o)
  BY <1>5 DEF RetryActivity
<1> QED BY <1>1, <1>2, <1>3, <1>4, <1>5 DEF Workflow

LEMMA DecidedInit == Init => ServersInv /\ DecidedInv
<1> SUFFICES ASSUME Init PROVE ServersInv /\ DecidedInv
  OBVIOUS
<1>1. /\ [step |-> "idle", version |-> 0] \in CallRecord
      /\ <<>> \in Seq(DispatchEvent)
  BY DEF CallRecord
<1>2. ServersInv
  BY <1>1 DEF Init, ServersInv
<1>3. DecidedInv
  BY DEF Init, DecidedInv
<1> QED BY <1>2, <1>3

\* One call of an attempt: to Redis, the load, or the append.
LEMMA CallKeeps ==
  ASSUME ServersInv, DecidedInv, NEW o \in Orders, NEW c \in Calls,
         SetBusy(o, c) \/ Load(o, c) \/ AppendEvent(o, c)
  PROVE  /\ (ServersInv /\ DecidedInv)'
         /\ stream' # stream =>
              /\ c[1] \in DispatchEvent /\ Allows(State(o), c[1])
              /\ stream' = [stream EXCEPT ![o] = Append(@, c[1])]
<1>0. /\ stream[o] \in Seq(DispatchEvent) /\ Len(stream[o]) \in Nat
      /\ call[o][c] \in CallRecord
  BY DEF ServersInv
<1>1. CASE SetBusy(o, c)
  <2>1. /\ stream' = stream
        /\ call' = [call EXCEPT ![o][c].step = "done"]
    BY <1>1 DEF SetBusy
  <2>2. [call[o][c] EXCEPT !.step = "done"] \in CallRecord
    BY <1>0 DEF CallRecord
  <2>3. ServersInv'
    BY <2>1, <2>2 DEF ServersInv
  <2>4. \A p \in Orders : \A b \in Calls :
          call'[p][b].step = "loaded" => call'[p][b] = call[p][b]
    BY <1>0, <2>1 DEF ServersInv, CallRecord
  <2>5. DecidedInv'
    BY <2>1, <2>4 DEF DecidedInv, State
  <2> QED BY <2>1, <2>3, <2>5
<1>2. CASE Load(o, c)
  <2> DEFINE new == [step |-> IF Allows(State(o), c[1]) THEN "loaded" ELSE "done",
                     version |-> Len(stream[o])]
  <2>1. /\ stream' = stream
        /\ call' = [call EXCEPT ![o][c] = new]
    BY <1>2 DEF Load, State, loadDispatch
  <2>2. new \in CallRecord
    BY <1>0 DEF CallRecord
  <2>3. ServersInv'
    BY <2>1, <2>2 DEF ServersInv
  <2>4. \A p \in Orders : \A b \in Calls :
          IF p = o /\ b = c THEN call'[p][b] = new ELSE call'[p][b] = call[p][b]
    BY <2>1 DEF ServersInv
  <2>5. new.step = "loaded" =>
          new.version <= Len(stream[o]) /\ Allows(State(o), c[1])
    BY <1>0
  <2> HIDE DEF new
  <2>6. ASSUME NEW p \in Orders, NEW b \in Calls, call'[p][b].step = "loaded"
        PROVE  /\ call'[p][b].version <= Len(stream[p])
               /\ call'[p][b].version = Len(stream[p]) => Allows(State(p), b[1])
    <3>1. CASE p = o /\ b = c
      BY <2>4, <2>5, <2>6, <3>1
    <3>2. CASE ~(p = o /\ b = c)
      BY <2>4, <2>6, <3>2 DEF DecidedInv
    <3> QED BY <3>1, <3>2
  <2>7. DecidedInv'
    BY <2>1, <2>6 DEF DecidedInv, State
  <2> QED BY <2>1, <2>3, <2>7
<1>3. CASE AppendEvent(o, c)
  <2>1. /\ c[1] \in DispatchEvent
        /\ call[o][c].step = "loaded"
    BY <1>3 DEF AppendEvent
  <2>2. CASE VersionTaken(o, call[o][c].version + 1)
    <3>1. /\ stream' = stream
          /\ call' = [call EXCEPT ![o][c].step = "conflict"]
      BY <1>3, <2>2 DEF AppendEvent
    <3>2. [call[o][c] EXCEPT !.step = "conflict"] \in CallRecord
      BY <1>0 DEF CallRecord
    <3>3. ServersInv'
      BY <3>1, <3>2 DEF ServersInv
    <3>4. \A p \in Orders : \A b \in Calls :
            call'[p][b].step = "loaded" => call'[p][b] = call[p][b]
      BY <1>0, <3>1 DEF ServersInv, CallRecord
    <3>5. DecidedInv'
      BY <3>1, <3>4 DEF DecidedInv, State
    <3> QED BY <3>1, <3>3, <3>5
  <2>3. CASE ~VersionTaken(o, call[o][c].version + 1)
    <3>1. /\ stream' = [stream EXCEPT ![o] = Append(@, c[1])]
          /\ call' = [call EXCEPT ![o][c].step = "done"]
      BY <1>3, <2>3 DEF AppendEvent
    <3>2. [call[o][c] EXCEPT !.step = "done"] \in CallRecord
      BY <1>0 DEF CallRecord
    <3>3. /\ Append(stream[o], c[1]) \in Seq(DispatchEvent)
          /\ Len(Append(stream[o], c[1])) = Len(stream[o]) + 1
      BY <1>0, <2>1
    <3>4. ServersInv'
      BY <3>1, <3>2, <3>3 DEF ServersInv
    <3>5. /\ call[o][c].version \in Nat
          /\ call[o][c].version <= Len(stream[o])
      BY <1>0, <2>1 DEF DecidedInv, CallRecord
    <3>6. call[o][c].version = Len(stream[o])
      BY <1>0, <2>3, <3>5 DEF VersionTaken
    <3>7. Allows(State(o), c[1])
      BY <2>1, <3>6 DEF DecidedInv
    <3>8. \A p \in Orders : \A b \in Calls :
            call'[p][b].step = "loaded" => call'[p][b] = call[p][b]
      BY <1>0, <3>1 DEF ServersInv, CallRecord
    <3>9. ASSUME NEW p \in Orders, NEW b \in Calls, call'[p][b].step = "loaded"
          PROVE  /\ call'[p][b].version <= Len(stream'[p])
                 /\ call'[p][b].version = Len(stream'[p]) => Allows(State(p)', b[1])
      <4>1. /\ call[p][b].version <= Len(stream[p])
            /\ call[p][b].version = Len(stream[p]) => Allows(State(p), b[1])
            /\ call'[p][b].version = call[p][b].version
        BY <3>8, <3>9 DEF DecidedInv
      <4>2. CASE p = o
        <5>1. stream'[p] = Append(stream[o], c[1])
          BY <3>1, <4>2 DEF ServersInv
        <5>2. call[p][b].version \in Nat
          BY DEF ServersInv, CallRecord
        <5> QED BY <1>0, <3>3, <4>1, <4>2, <5>1, <5>2
      <4>3. CASE p # o
        <5>1. stream'[p] = stream[p]
          BY <3>1, <4>3 DEF ServersInv
        <5> QED BY <4>1, <5>1 DEF State
      <4> QED BY <4>2, <4>3
    <3>10. DecidedInv'
      BY <3>9 DEF DecidedInv
    <3> QED BY <2>1, <3>1, <3>4, <3>7, <3>10
  <2> QED BY <2>2, <2>3
<1> QED BY <1>1, <1>2, <1>3

\* What a step may do to the streams, and that it keeps the invariant.
LEMMA DecidedStep ==
  ASSUME ServersInv, DecidedInv, [Next]_vars
  PROVE  /\ (ServersInv /\ DecidedInv)'
         /\ stream' # stream =>
              \E o \in Orders : \E e \in DispatchEvent :
                /\ Allows(State(o), e)
                /\ stream' = [stream EXCEPT ![o] = Append(@, e)]
<1>1. CASE UNCHANGED <<stream, call>>
  BY <1>1 DEF ServersInv, DecidedInv, State
<1>2. CASE \E o \in Orders : Workflow(o)
  <2>1. PICK o \in Orders : Workflow(o)
    BY <1>2
  <2>2. ASSUME NEW stage, NEW d, NEW n, StartAttempt(o, stage, d, n)
        PROVE  (ServersInv /\ DecidedInv)' /\ stream' = stream
    BY <2>2, StartKeeps, Zenon DEF StartAttempt
  <2> QED BY <1>1, <2>1, <2>2, WorkflowStarts
<1>3. CASE \E o \in Orders : \E c \in Calls :
             SetBusy(o, c) \/ Load(o, c) \/ AppendEvent(o, c)
  BY <1>3, CallKeeps, Zenon
<1>4. CASE \E o \in Orders : Signal(o)
  BY <1>1, <1>4 DEF Signal, servers
<1> QED BY <1>1, <1>2, <1>3, <1>4 DEF Next, Environment, vars, servers

\* No event is ever appended that is illegal where it lands, however long ago
\* the attempt that appends it was given up (append in dispatch-activities.ts:
\* decided on a loaded stream, written at the loaded version plus one).
THEOREM DecisionsAlwaysHold == Spec => DecisionsHold
<1>1. ASSUME ServersInv, DecidedInv, [Next]_vars
      PROVE  [\A o \in Orders : stream'[o] # stream[o] =>
                \E e \in DispatchEvent :
                  stream'[o] = Append(stream[o], e) /\ Allows(State(o), e)]_stream
  <2> SUFFICES ASSUME stream' # stream, NEW o \in Orders, stream'[o] # stream[o]
               PROVE  \E e \in DispatchEvent :
                        stream'[o] = Append(stream[o], e) /\ Allows(State(o), e)
    OBVIOUS
  <2>1. PICK p \in Orders, e \in DispatchEvent :
          Allows(State(p), e) /\ stream' = [stream EXCEPT ![p] = Append(@, e)]
    BY <1>1, DecidedStep
  <2>2. p = o /\ stream'[o] = Append(stream[o], e)
    BY <1>1, <2>1 DEF ServersInv
  <2> QED BY <2>1, <2>2
<1> QED BY <1>1, DecidedInit, DecidedStep, PTL DEF Spec, DecisionsHold

-----------------------------------------------------------------------------
(* The busy set.  BusyIsAccountedFor is not inductive: a driver marked     *)
(* busy after the release would have no order to account for it.  PlaceInv *)
(* says for each order which of its Redis calls may still be under way,    *)
(* by the place its workflow is at.                                        *)

Mark(o, d, n) == call[o][<<MarkBusy(d), n>>].step
Clear(o, d, n) == call[o][<<ClearBusy(d), n>>].step

Working == {"markBusy", "accept", "awaitPickup", "pickup", "awaitDeliver", "deliver"}
Releasing == {"release", "releaseLate"}
Unreleased == Working \cup {"offer", "awaitAnswer"}
Assigned == Unreleased \cup Releasing \cup {"failLate"}

MarkedAgain(o, d) == \E n \in Attempts \ {1} : Mark(o, d, n) # "idle"

WorkflowTypes ==
  /\ at \in [Orders -> Stages]
  /\ attempt \in [Orders -> Nat]
  /\ candidate \in [Orders -> Drivers \cup {"none"}]
  /\ tried \in [Orders -> SUBSET Drivers]
  /\ result \in [Orders -> {"none", "DELIVERED", "FAILED", "THROWN"}]

PlaceInv(o) ==
  /\ at[o] \in Assigned => candidate[o] \in tried[o]
  /\ at[o] \in ActivityStages => attempt[o] \in Attempts
  /\ result[o] = "THROWN" => at[o] = "closed"
  /\ \A d \in Drivers \ tried[o] : \A n \in Attempts :
       Mark(o, d, n) = "idle" /\ Clear(o, d, n) = "idle"
  /\ \A d \in Drivers : Mark(o, d, 1) = "started" =>
       \/ MarkedAgain(o, d)
       \/ candidate[o] = d /\ (at[o] = "markBusy" \/ result[o] = "THROWN")
  /\ at[o] \in Unreleased => \A n \in Attempts : Clear(o, candidate[o], n) = "idle"

\* Order o accounts for driver d being busy, and has not cleared d yet.
Accounts(o, d) ==
  \/ MarkedAgain(o, d)
  \/ /\ candidate[o] = d
     /\ \/ at[o] \in Working \/ result[o] = "THROWN"
        \/ at[o] \in Releasing /\ \A n \in Attempts : Clear(o, d, n) # "done"

AccountInv == \A d \in busy : d \in Drivers /\ \E o \in Orders : Accounts(o, d)

BusyInv ==
  /\ ServersInv /\ WorkflowTypes
  /\ \A o \in Orders : PlaceInv(o)
  /\ AccountInv

LEMMA FirstAttempt == 1 \in Attempts
  BY AttemptsAssumption DEF Attempts

\* What holds of an order depends on its own part of the state.
LEMMA OthersKeep ==
  ASSUME NEW o \in Orders,
         UNCHANGED <<at[o], attempt[o], candidate[o], tried[o], result[o]>>,
         \A d \in Drivers : \A n \in Attempts :
           Mark(o, d, n)' = Mark(o, d, n) /\ Clear(o, d, n)' = Clear(o, d, n),
         WorkflowTypes
  PROVE  /\ PlaceInv(o) => PlaceInv(o)'
         /\ \A d \in Drivers : Accounts(o, d) => Accounts(o, d)'
<1>1. \A d \in Drivers : MarkedAgain(o, d)' = MarkedAgain(o, d)
  BY DEF MarkedAgain
<1>2. ASSUME PlaceInv(o) PROVE PlaceInv(o)'
  <2>1. candidate[o] \in Drivers \/ at[o] \notin Unreleased
    BY <1>2 DEF PlaceInv, WorkflowTypes, Assigned
  <2> QED BY <1>1, <1>2, <2>1, FirstAttempt DEF PlaceInv
<1>3. ASSUME NEW d \in Drivers, Accounts(o, d) PROVE Accounts(o, d)'
  BY <1>1, <1>3 DEF Accounts
<1> QED BY <1>2, <1>3

\* The workflow of o moves on with the same driver: it starts to mark or to
\* release that driver at most, leaves markBusy only when an attempt is done
\* or the workflow fails, and a release likewise.
LEMMA MoveKeeps ==
  ASSUME NEW o \in Orders, WorkflowTypes, PlaceInv(o),
         candidate'[o] = candidate[o], tried'[o] = tried[o], at[o] # "closed",
         \A d \in Drivers : \A n \in Attempts :
           \/ Mark(o, d, n)' = Mark(o, d, n)
           \/ at'[o] = "markBusy" /\ d = candidate[o] /\ Mark(o, d, n)' = "started",
         \A d \in Drivers : \A n \in Attempts :
           \/ Clear(o, d, n)' = Clear(o, d, n)
           \/ at'[o] \in Releasing /\ d = candidate[o] /\ Clear(o, d, n)' = "started",
         at'[o] \in Assigned => at[o] \in Assigned,
         at'[o] \in Unreleased => at[o] \in Unreleased,
         at'[o] \in ActivityStages => attempt'[o] \in Attempts,
         result'[o] = "THROWN" => at'[o] = "closed",
         at[o] = "markBusy" =>
           \/ at'[o] = "markBusy" \/ result'[o] = "THROWN"
           \/ \E n \in Attempts : Mark(o, candidate[o], n) = "done"
  PROVE  /\ PlaceInv(o)'
         /\ /\ at[o] \in Working =>
                 at'[o] \in Working \cup Releasing \/ result'[o] = "THROWN"
            /\ at[o] \in Releasing =>
                 \/ at'[o] \in Releasing \/ result'[o] = "THROWN"
                 \/ \E n \in Attempts : Clear(o, candidate[o], n) = "done"
            => \A d \in Drivers : Accounts(o, d) => Accounts(o, d)'
<1>1. \A d \in Drivers : MarkedAgain(o, d) => MarkedAgain(o, d)'
  BY DEF MarkedAgain
<1>2. at[o] \in Assigned => candidate[o] \in Drivers
  BY DEF PlaceInv, WorkflowTypes
<1>3. PlaceInv(o)'
  <2>1. \A d \in Drivers \ tried'[o] : \A n \in Attempts :
          Mark(o, d, n)' = "idle" /\ Clear(o, d, n)' = "idle"
    BY DEF PlaceInv, Assigned, Unreleased, Working
  <2>2. ASSUME NEW d \in Drivers, Mark(o, d, 1)' = "started"
        PROVE  \/ MarkedAgain(o, d)'
               \/ candidate'[o] = d /\ (at'[o] = "markBusy" \/ result'[o] = "THROWN")
    <3>1. CASE at'[o] = "markBusy" /\ d = candidate[o]
      BY <3>1
    <3>2. CASE ~(at'[o] = "markBusy" /\ d = candidate[o])
      <4>1. Mark(o, d, 1) = "started"
        BY <2>2, <3>2, FirstAttempt
      <4>2. \/ MarkedAgain(o, d)
            \/ candidate[o] = d /\ at[o] = "markBusy"
        BY <4>1 DEF PlaceInv
      <4>3. ASSUME candidate[o] = d, at[o] = "markBusy", result'[o] # "THROWN"
            PROVE  MarkedAgain(o, d)
        <5>1. PICK n \in Attempts : Mark(o, d, n) = "done"
          BY <3>2, <4>3
        <5>2. n # 1
          BY <4>1, <5>1
        <5> QED BY <5>1, <5>2 DEF MarkedAgain
      <4> QED BY <1>1, <4>2, <4>3
    <3> QED BY <3>1, <3>2
  <2>3. at'[o] \in Unreleased =>
          \A n \in Attempts : Clear(o, candidate[o], n)' = "idle"
    <3>1. at'[o] \in Unreleased => at'[o] \notin Releasing
      BY DEF Unreleased, Working, Releasing
    <3>2. at[o] \in Unreleased => at[o] \in Assigned
      BY DEF Assigned
    <3> QED BY <1>2, <3>1, <3>2 DEF PlaceInv
  <2> QED BY <2>1, <2>2, <2>3 DEF PlaceInv
<1>4. ASSUME at[o] \in Working =>
               at'[o] \in Working \cup Releasing \/ result'[o] = "THROWN",
             at[o] \in Releasing =>
               \/ at'[o] \in Releasing \/ result'[o] = "THROWN"
               \/ \E n \in Attempts : Clear(o, candidate[o], n) = "done",
             NEW d \in Drivers, Accounts(o, d)
      PROVE  Accounts(o, d)'
  <2>1. CASE MarkedAgain(o, d)
    BY <1>1, <2>1 DEF Accounts
  <2>2. CASE candidate[o] = d /\ at[o] \in Working
    <3>1. \A n \in Attempts : Clear(o, d, n) = "idle"
      BY <2>2 DEF PlaceInv, Unreleased
    <3>2. \A n \in Attempts : Clear(o, d, n)' # "done"
      BY <3>1
    <3> QED BY <1>4, <2>2, <3>2 DEF Accounts
  <2>3. CASE /\ candidate[o] = d /\ at[o] \in Releasing
             /\ \A n \in Attempts : Clear(o, d, n) # "done"
    <3>1. \A n \in Attempts : Clear(o, d, n)' # "done"
      BY <2>3
    <3> QED BY <1>4, <2>3, <3>1 DEF Accounts
  <2> QED BY <1>4, <2>1, <2>2, <2>3 DEF Accounts, PlaceInv
<1> QED BY <1>3, <1>4

LEMMA RedisCalls ==
  ASSUME NEW d \in Drivers, NEW n \in Attempts
  PROVE  /\ <<MarkBusy(d), n>> \in Calls /\ <<ClearBusy(d), n>> \in Calls
         /\ MarkBusy(d) \notin DispatchEvent /\ ClearBusy(d) \notin DispatchEvent
<1>1. MarkBusy(d) \in Activities /\ ClearBusy(d) \in Activities
  BY DEF Activities, RedisActivity
<1>2. MarkBusy(d) \notin DispatchEvent /\ ClearBusy(d) \notin DispatchEvent
  BY DEF MarkBusy, ClearBusy, DispatchEvent, OrderPickedUp, OrderDelivered
<1> QED BY <1>1, <1>2 DEF Calls

\* What a change of one call is to each call.
LEMMA OneCall ==
  ASSUME NEW f \in [Orders -> [Calls -> CallRecord]], NEW o \in Orders, NEW c, NEW r,
         NEW p \in Orders, NEW b \in Calls
  PROVE  [f EXCEPT ![o][c] = r][p][b] = IF p = o /\ b = c THEN r ELSE f[p][b]
<1>1. CASE p = o
  BY <1>1
<1>2. CASE p # o
  BY <1>2
<1> QED BY <1>1, <1>2

\* The activity of a stage marks or clears a driver only where it should.
LEMMA ActivityOfStage ==
  ASSUME NEW stage \in ActivityStages, NEW d, NEW e \in Drivers
  PROVE  /\ (MarkBusy(e) = ActivityAt(stage, d)) <=> (stage = "markBusy" /\ e = d)
         /\ (ClearBusy(e) = ActivityAt(stage, d)) <=> (stage \in Releasing /\ e = d)
<1>1. CASE stage = "markBusy"
  <2>1. ActivityAt(stage, d) = MarkBusy(d)
    BY <1>1 DEF ActivityAt
  <2> QED BY <1>1, <2>1 DEF MarkBusy, ClearBusy, Releasing
<1>2. CASE stage \in Releasing
  <2>1. ActivityAt(stage, d) = ClearBusy(d)
    BY <1>2 DEF ActivityAt, Releasing
  <2> QED BY <1>2, <2>1 DEF MarkBusy, ClearBusy, Releasing
<1>3. CASE stage \notin Releasing \cup {"markBusy"}
  <2>1. ActivityAt(stage, d).type \in
          {"DriverOffered", "DispatchAccepted", "OrderPickedUp", "OrderDelivered",
           "DispatchFailed"}
    BY <1>3 DEF ActivityAt, ActivityStages, Releasing, DriverOffered,
                DispatchAccepted, OrderPickedUp, OrderDelivered, DispatchFailed
  <2>2. MarkBusy(e).type = "markBusy" /\ ClearBusy(e).type = "clearBusy"
    BY DEF MarkBusy, ClearBusy
  <2> QED BY <1>3, <2>1, <2>2
<1> QED BY <1>1, <1>2, <1>3

LEMMA StartEffect ==
  ASSUME ServersInv, NEW o \in Orders, NEW stage \in ActivityStages, NEW d, NEW m,
         StartAttempt(o, stage, d, m),
         NEW p \in Orders, NEW e \in Drivers, NEW n \in Attempts
  PROVE  /\ Mark(p, e, n)' = IF p = o /\ stage = "markBusy" /\ e = d /\ n = m
                               THEN "started" ELSE Mark(p, e, n)
         /\ Clear(p, e, n)' = IF p = o /\ stage \in Releasing /\ e = d /\ n = m
                                THEN "started" ELSE Clear(p, e, n)
<1> DEFINE c == <<ActivityAt(stage, d), m>>
           r == [call[o][c] EXCEPT !.step = "started"]
<1>1. call' = [call EXCEPT ![o][c] = r]
  BY DEF StartAttempt
<1>2. c \in Calls => r.step = "started"
  BY DEF ServersInv, CallRecord
<1>3. \A b \in Calls : call'[p][b] = IF p = o /\ b = c THEN r ELSE call[p][b]
  BY <1>1, OneCall DEF ServersInv
<1>4. \A b \in Calls : call'[p][b].step =
         IF p = o /\ b = c THEN "started" ELSE call[p][b].step
  BY <1>2, <1>3
<1>5. /\ (<<MarkBusy(e), n>> = c) <=> (stage = "markBusy" /\ e = d /\ n = m)
      /\ (<<ClearBusy(e), n>> = c) <=> (stage \in Releasing /\ e = d /\ n = m)
  BY ActivityOfStage
<1> HIDE DEF c, r
<1> QED BY <1>4, <1>5, RedisCalls DEF Mark, Clear

\* What a step of the workflow of o has to keep.
Kept(o) ==
  /\ WorkflowTypes'
  /\ PlaceInv(o)'
  /\ \A d \in Drivers : Accounts(o, d) => Accounts(o, d)'

\* A workflow may leave its stage.
MayLeave(o, stage) ==
  /\ at[o] # "closed"
  /\ stage \in Assigned => at[o] \in Assigned
  /\ stage \in Unreleased => at[o] \in Unreleased
  /\ at[o] = "markBusy" => \E n \in Attempts : Mark(o, candidate[o], n) = "done"
  /\ at[o] \in Working => stage \in Working \cup Releasing
  /\ at[o] \in Releasing => \E n \in Attempts : Clear(o, candidate[o], n) = "done"

LEMMA DoneMeans ==
  ASSUME NEW o \in Orders, PlaceInv(o), NEW stage \in ActivityStages, Done(o, stage)
  PROVE  /\ at[o] = stage
         /\ stage = "markBusy" => \E n \in Attempts : Mark(o, candidate[o], n) = "done"
         /\ stage \in Releasing => \E n \in Attempts : Clear(o, candidate[o], n) = "done"
<1>1. at[o] = stage /\ attempt[o] \in Attempts
  BY DEF Done, PlaceInv
<1>2. stage = "markBusy" => Mark(o, candidate[o], attempt[o]) = "done"
  BY DEF Done, Mark, ActivityAt
<1>3. stage \in Releasing => Clear(o, candidate[o], attempt[o]) = "done"
  BY DEF Done, Clear, ActivityAt, Releasing
<1> QED BY <1>1, <1>2, <1>3

LEMMA ScheduleKeeps ==
  ASSUME BusyInv, NEW o \in Orders, NEW stage \in ActivityStages, Schedule(o, stage),
         MayLeave(o, stage)
  PROVE  Kept(o)
<1>1. /\ StartAttempt(o, stage, candidate[o], 1)
      /\ UNCHANGED <<candidate, tried, result>>
      /\ at' = [at EXCEPT ![o] = stage] /\ attempt' = [attempt EXCEPT ![o] = 1]
  BY DEF Schedule, StartAttempt
<1>2. stage \in Stages
  BY DEF Stages
<1>3. WorkflowTypes' /\ at'[o] = stage /\ attempt'[o] = 1
  BY <1>1, <1>2 DEF BusyInv, WorkflowTypes
<1>4. \A d \in Drivers : \A n \in Attempts :
        /\ \/ Mark(o, d, n)' = Mark(o, d, n)
           \/ at'[o] = "markBusy" /\ d = candidate[o] /\ Mark(o, d, n)' = "started"
        /\ \/ Clear(o, d, n)' = Clear(o, d, n)
           \/ at'[o] \in Releasing /\ d = candidate[o] /\ Clear(o, d, n)' = "started"
  BY <1>1, <1>3, StartEffect DEF BusyInv
<1>5. result'[o] # "THROWN"
  BY <1>1 DEF BusyInv, PlaceInv, MayLeave
<1> QED BY <1>1, <1>3, <1>4, <1>5, MoveKeeps, FirstAttempt DEF Kept, BusyInv, MayLeave

LEMMA WaitKeeps ==
  ASSUME BusyInv, NEW o \in Orders, NEW stage \in Stages \ ActivityStages,
         stage # "closed", Wait(o, stage), MayLeave(o, stage)
  PROVE  Kept(o)
<1>1. /\ UNCHANGED <<call, candidate, tried, result>>
      /\ at' = [at EXCEPT ![o] = stage] /\ attempt' = [attempt EXCEPT ![o] = 0]
  BY DEF Wait, servers
<1>2. WorkflowTypes' /\ at'[o] = stage
  BY <1>1 DEF BusyInv, WorkflowTypes
<1>3. \A d \in Drivers : \A n \in Attempts :
        Mark(o, d, n)' = Mark(o, d, n) /\ Clear(o, d, n)' = Clear(o, d, n)
  BY <1>1 DEF Mark, Clear
<1>4. result'[o] # "THROWN"
  BY <1>1 DEF BusyInv, PlaceInv, MayLeave
<1> QED BY <1>1, <1>2, <1>3, <1>4, MoveKeeps DEF Kept, BusyInv, MayLeave

\* A workflow that throws accounts for its driver as it did before.
LEMMA CloseKeeps ==
  ASSUME BusyInv, NEW o \in Orders, NEW r \in {"DELIVERED", "FAILED", "THROWN"},
         Close(o, r), at[o] # "closed", r = "THROWN" \/ MayLeave(o, "closed")
  PROVE  Kept(o)
<1>1. /\ UNCHANGED <<call, candidate, tried>>
      /\ at' = [at EXCEPT ![o] = "closed"] /\ attempt' = [attempt EXCEPT ![o] = 0]
      /\ result' = [result EXCEPT ![o] = r]
  BY DEF Close, servers
<1>2. /\ WorkflowTypes' /\ at'[o] = "closed" /\ result'[o] = r
      /\ "closed" \notin ActivityStages \cup Assigned
  BY <1>1 DEF BusyInv, WorkflowTypes, Stages, ActivityStages, Assigned, Unreleased,
              Working, Releasing
<1>3. \A d \in Drivers : \A n \in Attempts :
        Mark(o, d, n)' = Mark(o, d, n) /\ Clear(o, d, n)' = Clear(o, d, n)
  BY <1>1 DEF Mark, Clear
<1> QED BY <1>1, <1>2, <1>3, MoveKeeps DEF Kept, BusyInv, MayLeave, Assigned

LEMMA RetryKeeps ==
  ASSUME BusyInv, NEW o \in Orders, RetryActivity(o)
  PROVE  Kept(o)
<1>1. /\ at[o] \in ActivityStages /\ attempt[o] < MaxAttempts
      /\ StartAttempt(o, at[o], candidate[o], attempt[o] + 1)
      /\ UNCHANGED <<candidate, tried, result>>
      /\ at' = [at EXCEPT ![o] = at[o]]
      /\ attempt' = [attempt EXCEPT ![o] = attempt[o] + 1]
  BY DEF RetryActivity, StartAttempt
<1>2. attempt[o] + 1 \in Attempts /\ attempt[o] + 1 \in Nat
  BY <1>1, AttemptsAssumption DEF BusyInv, PlaceInv, Attempts
<1>3. WorkflowTypes' /\ at'[o] = at[o] /\ attempt'[o] = attempt[o] + 1
  BY <1>1, <1>2 DEF BusyInv, WorkflowTypes
<1>4. \A d \in Drivers : \A n \in Attempts :
        /\ \/ Mark(o, d, n)' = Mark(o, d, n)
           \/ at'[o] = "markBusy" /\ d = candidate[o] /\ Mark(o, d, n)' = "started"
        /\ \/ Clear(o, d, n)' = Clear(o, d, n)
           \/ at'[o] \in Releasing /\ d = candidate[o] /\ Clear(o, d, n)' = "started"
  BY <1>1, <1>3, StartEffect DEF BusyInv
<1>5. at[o] # "closed" /\ result'[o] # "THROWN"
  BY <1>1 DEF BusyInv, PlaceInv, ActivityStages
<1> QED BY <1>1, <1>2, <1>3, <1>4, <1>5, MoveKeeps DEF Kept, BusyInv

\* A new driver: all that the order called before was for another.
LEMMA SelectKeeps ==
  ASSUME BusyInv, NEW o \in Orders, Select(o)
  PROVE  Kept(o)
<1>1. PICK d \in Drivers :
        /\ at[o] = "select" /\ d \notin tried[o]
        /\ StartAttempt(o, "offer", d, 1)
        /\ candidate' = [candidate EXCEPT ![o] = d]
        /\ tried' = [tried EXCEPT ![o] = @ \cup {d}]
        /\ UNCHANGED result
        /\ at' = [at EXCEPT ![o] = "offer"] /\ attempt' = [attempt EXCEPT ![o] = 1]
  BY DEF Select, Offer, StartAttempt
<1>2. "offer" \in Stages /\ "offer" \in ActivityStages
  BY DEF Stages, ActivityStages
<1>3. /\ WorkflowTypes' /\ at'[o] = "offer" /\ attempt'[o] = 1
      /\ candidate'[o] = d /\ tried'[o] = tried[o] \cup {d}
  BY <1>1, <1>2 DEF BusyInv, WorkflowTypes
<1>4. \A e \in Drivers : \A n \in Attempts :
        Mark(o, e, n)' = Mark(o, e, n) /\ Clear(o, e, n)' = Clear(o, e, n)
  BY <1>1, <1>2, StartEffect DEF BusyInv, Releasing
<1>5. \A e \in Drivers : MarkedAgain(o, e)' = MarkedAgain(o, e)
  BY <1>4 DEF MarkedAgain
<1>6. result[o] # "THROWN"
  BY <1>1 DEF BusyInv, PlaceInv
<1>7. PlaceInv(o)'
  <2>1. \A e \in Drivers : Mark(o, e, 1)' = "started" => MarkedAgain(o, e)'
    BY <1>1, <1>4, <1>5, <1>6, FirstAttempt DEF BusyInv, PlaceInv
  <2>2. \A n \in Attempts : Clear(o, d, n)' = "idle"
    BY <1>1, <1>4 DEF BusyInv, PlaceInv
  <2> QED BY <1>1, <1>3, <1>4, <1>6, <2>1, <2>2, FirstAttempt DEF BusyInv, PlaceInv
<1>8. \A e \in Drivers : Accounts(o, e) => MarkedAgain(o, e)
  BY <1>1, <1>6 DEF Accounts, Working, Releasing
<1> QED BY <1>3, <1>5, <1>7, <1>8 DEF Kept, Accounts

LEMMA WorkflowKeeps ==
  ASSUME BusyInv, NEW o \in Orders, Workflow(o)
  PROVE  Kept(o)
<1> USE DEF Stages, ActivityStages, Assigned, Unreleased, Working, Releasing, MayLeave
<1>1. CASE Select(o)
  BY <1>1, SelectKeeps
<1>2. CASE NoCandidate(o)
  BY <1>2, ScheduleKeeps DEF NoCandidate
<1>3. CASE OfferRecorded(o)
  BY <1>3, WaitKeeps DEF OfferRecorded, Done
<1>4. CASE OfferAccepted(o)
  BY <1>4, ScheduleKeeps DEF OfferAccepted
<1>5. CASE OfferLapsed(o)
  BY <1>5, WaitKeeps DEF OfferLapsed
<1>6. CASE Marked(o)
  BY <1>6, ScheduleKeeps, DoneMeans DEF Marked, BusyInv
<1>7. CASE AcceptRecorded(o)
  BY <1>7, WaitKeeps DEF AcceptRecorded, Done
<1>8. CASE PickedUp(o)
  BY <1>8, ScheduleKeeps DEF PickedUp
<1>9. CASE PickupRecorded(o)
  BY <1>9, WaitKeeps DEF PickupRecorded, Done
<1>10. CASE Delivered(o)
  BY <1>10, ScheduleKeeps DEF Delivered
<1>11. CASE DeliveryRecorded(o)
  BY <1>11, ScheduleKeeps DEF DeliveryRecorded, Done
<1>12. CASE Released(o)
  BY <1>12, CloseKeeps, DoneMeans DEF Released, BusyInv
<1>13. CASE GiveUp(o)
  BY <1>13, ScheduleKeeps DEF GiveUp, Late
<1>14. CASE ReleasedLate(o)
  BY <1>14, ScheduleKeeps, DoneMeans DEF ReleasedLate, BusyInv
<1>15. CASE FailureRecorded(o)
  BY <1>15, CloseKeeps DEF FailureRecorded, Done
<1>16. CASE RetryActivity(o)
  BY <1>16, RetryKeeps
<1>17. CASE WorkflowFails(o)
  BY <1>17, CloseKeeps DEF WorkflowFails
<1> QED BY <1>1, <1>2, <1>3, <1>4, <1>5, <1>6, <1>7, <1>8, <1>9, <1>10, <1>11,
           <1>12, <1>13, <1>14, <1>15, <1>16, <1>17 DEF Workflow

\* A step of one workflow leaves the others where they are.
LEMMA WorkflowLeavesOthers ==
  ASSUME BusyInv, NEW o \in Orders, Workflow(o), NEW p \in Orders, p # o
  PROVE  /\ UNCHANGED <<at[p], attempt[p], candidate[p], tried[p], result[p]>>
         /\ UNCHANGED call[p]
<1>0. WorkflowTypes /\ call \in [Orders -> [Calls -> CallRecord]]
  BY DEF BusyInv, ServersInv
<1>1. ASSUME NEW s, NEW d, NEW n, StartAttempt(o, s, d, n)
      PROVE  UNCHANGED <<at[p], attempt[p], call[p]>>
  BY <1>0, <1>1 DEF StartAttempt, WorkflowTypes
<1>2. ASSUME NEW s, Schedule(o, s)
      PROVE  /\ UNCHANGED <<at[p], attempt[p], candidate[p], tried[p], result[p]>>
             /\ UNCHANGED call[p]
  BY <1>1, <1>2 DEF Schedule
<1>3. ASSUME NEW s, Wait(o, s)
      PROVE  /\ UNCHANGED <<at[p], attempt[p], candidate[p], tried[p], result[p]>>
             /\ UNCHANGED call[p]
  BY <1>0, <1>3 DEF Wait, WorkflowTypes, servers
<1>4. ASSUME NEW r, Close(o, r)
      PROVE  /\ UNCHANGED <<at[p], attempt[p], candidate[p], tried[p], result[p]>>
             /\ UNCHANGED call[p]
  BY <1>0, <1>4 DEF Close, WorkflowTypes, servers
<1>5. CASE Select(o)
  BY <1>0, <1>1, <1>5 DEF Select, Offer, WorkflowTypes
<1>6. CASE RetryActivity(o)
  BY <1>1, <1>6 DEF RetryActivity
<1>7. CASE NoCandidate(o) \/ OfferAccepted(o) \/ Marked(o) \/ PickedUp(o)
             \/ Delivered(o) \/ DeliveryRecorded(o) \/ GiveUp(o) \/ ReleasedLate(o)
  BY <1>2, <1>7 DEF NoCandidate, OfferAccepted, Marked, PickedUp, Delivered,
                    DeliveryRecorded, GiveUp, ReleasedLate
<1>8. CASE OfferRecorded(o) \/ OfferLapsed(o) \/ AcceptRecorded(o) \/ PickupRecorded(o)
  BY <1>3, <1>8 DEF OfferRecorded, OfferLapsed, AcceptRecorded, PickupRecorded
<1>9. CASE Released(o) \/ FailureRecorded(o) \/ WorkflowFails(o)
  BY <1>4, <1>9 DEF Released, FailureRecorded, WorkflowFails
<1> QED BY <1>5, <1>6, <1>7, <1>8, <1>9 DEF Workflow

LEMMA WorkflowKeepsBusyInv ==
  ASSUME BusyInv, ServersInv', NEW o \in Orders, Workflow(o)
  PROVE  BusyInv'
<1>1. Kept(o)
  BY WorkflowKeeps
<1>2. ASSUME NEW p \in Orders, p # o
      PROVE  /\ PlaceInv(p)'
             /\ \A d \in Drivers : Accounts(p, d) => Accounts(p, d)'
  <2>1. /\ UNCHANGED <<at[p], attempt[p], candidate[p], tried[p], result[p]>>
        /\ UNCHANGED call[p]
    BY <1>2, WorkflowLeavesOthers
  <2>2. \A d \in Drivers : \A n \in Attempts :
          Mark(p, d, n)' = Mark(p, d, n) /\ Clear(p, d, n)' = Clear(p, d, n)
    BY <2>1 DEF Mark, Clear
  <2> QED BY <2>1, <2>2, OthersKeep DEF BusyInv
<1>3. busy' = busy
  <2>1. ASSUME NEW s, NEW d, NEW n, StartAttempt(o, s, d, n) PROVE busy' = busy
    BY <2>1 DEF StartAttempt
  <2> QED BY <2>1, WorkflowStarts
<1>4. \A p \in Orders : PlaceInv(p)' /\ \A d \in Drivers : Accounts(p, d) => Accounts(p, d)'
  BY <1>1, <1>2 DEF Kept
<1>5. AccountInv'
  BY <1>3, <1>4 DEF BusyInv, AccountInv
<1> QED BY <1>1, <1>4, <1>5 DEF BusyInv, Kept

\* What an attempt does beside the workflow that may have given it up: only a
\* call to Redis concerns the drivers who are busy.
LEMMA CallKeepsBusyInv ==
  ASSUME BusyInv, ServersInv', NEW o \in Orders, NEW c \in Calls,
         SetBusy(o, c) \/ Load(o, c) \/ AppendEvent(o, c)
  PROVE  BusyInv'
<1>0. /\ UNCHANGED <<at, attempt, candidate, tried, result>>
      /\ WorkflowTypes /\ call \in [Orders -> [Calls -> CallRecord]]
      /\ WorkflowTypes'
  BY DEF SetBusy, Load, AppendEvent, workflowVars, BusyInv, ServersInv, WorkflowTypes
<1>1. CASE Load(o, c) \/ AppendEvent(o, c)
  <2>1. c[1] \in DispatchEvent /\ busy' = busy
    BY <1>1 DEF Load, AppendEvent
  <2>2. PICK r : call' = [call EXCEPT ![o][c] = r]
    <3>1. CASE Load(o, c)
      BY <3>1 DEF Load
    <3>2. CASE AppendEvent(o, c)
      BY <3>2 DEF AppendEvent
    <3> QED BY <1>1, <3>1, <3>2
  <2>3. \A p \in Orders : \A b \in Calls : b # c => call'[p][b] = call[p][b]
    BY <1>0, <2>2, OneCall
  <2>4. \A p \in Orders : \A d \in Drivers : \A n \in Attempts :
          Mark(p, d, n)' = Mark(p, d, n) /\ Clear(p, d, n)' = Clear(p, d, n)
    <3> TAKE p \in Orders
    <3> TAKE d \in Drivers
    <3> TAKE n \in Attempts
    <3>1. <<MarkBusy(d), n>> # c /\ <<ClearBusy(d), n>> # c
      <4>1. <<MarkBusy(d), n>>[1] = MarkBusy(d) /\ <<ClearBusy(d), n>>[1] = ClearBusy(d)
        OBVIOUS
      <4>2. c[1] # MarkBusy(d) /\ c[1] # ClearBusy(d)
        BY <2>1, RedisCalls
      <4> QED BY <4>1, <4>2
    <3> QED BY <2>3, <3>1, RedisCalls DEF Mark, Clear
  <2>5. \A p \in Orders :
          PlaceInv(p)' /\ \A d \in Drivers : Accounts(p, d) => Accounts(p, d)'
    BY <1>0, <2>4, OthersKeep DEF BusyInv
  <2> QED BY <1>0, <2>1, <2>5 DEF BusyInv, AccountInv
<1>2. CASE SetBusy(o, c)
  <2>1. PICK d \in Drivers, m \in Attempts : c = <<MarkBusy(d), m>> \/ c = <<ClearBusy(d), m>>
    BY <1>2 DEF SetBusy, RedisActivity, Calls
  <2>2. call' = [call EXCEPT ![o][c] = [call[o][c] EXCEPT !.step = "done"]]
    BY <1>2 DEF SetBusy
  <2>3. \A p \in Orders : \A b \in Calls :
          call'[p][b].step = IF p = o /\ b = c THEN "done" ELSE call[p][b].step
    <3>1. [call[o][c] EXCEPT !.step = "done"].step = "done"
      BY <1>0 DEF CallRecord
    <3> QED BY <1>0, <2>2, <3>1, OneCall
  <2>4. call[o][c].step = "started"
    BY <1>2 DEF SetBusy
  <2>5. \A e, f \in Drivers : /\ MarkBusy(e) # ClearBusy(f)
                              /\ MarkBusy(e) = MarkBusy(f) => e = f
                              /\ ClearBusy(e) = ClearBusy(f) => e = f
    BY DEF MarkBusy, ClearBusy
  <2>6. CASE c = <<MarkBusy(d), m>>
    <3>1. busy' = busy \cup {d}
      BY <1>2, <2>6 DEF SetBusy, MarkBusy
    <3>2. \A p \in Orders : \A e \in Drivers : \A n \in Attempts :
            /\ Clear(p, e, n)' = Clear(p, e, n)
            /\ Mark(p, e, n)' = IF p = o /\ e = d /\ n = m THEN "done" ELSE Mark(p, e, n)
      BY <2>3, <2>5, <2>6, RedisCalls DEF Mark, Clear
    <3>3. Mark(o, d, m) = "started"
      BY <2>4, <2>6 DEF Mark
    <3>4. \A p \in Orders : \A e \in Drivers : MarkedAgain(p, e)' = MarkedAgain(p, e)
      BY <3>2, <3>3 DEF MarkedAgain
    <3>5. ASSUME NEW p \in Orders PROVE PlaceInv(p)'
      <4>1. PlaceInv(p) /\ (p = o => d \in tried[p])
        BY <3>3 DEF BusyInv, PlaceInv
      <4>2. candidate[p] \in Drivers \/ at[p] \notin Unreleased
        BY <1>0, <4>1 DEF PlaceInv, WorkflowTypes, Assigned
      <4> QED BY <1>0, <3>2, <3>4, <4>1, <4>2, FirstAttempt DEF PlaceInv
    <3>6. \A p \in Orders : \A e \in Drivers : Accounts(p, e) => Accounts(p, e)'
      BY <1>0, <3>2, <3>4 DEF Accounts
    <3>7. Accounts(o, d)
      <4>1. CASE m = 1
        BY <3>3, <4>1 DEF BusyInv, PlaceInv, Accounts, Working
      <4>2. CASE m # 1
        BY <3>3, <4>2 DEF MarkedAgain, Accounts
      <4> QED BY <4>1, <4>2
    <3> QED BY <1>0, <3>1, <3>5, <3>6, <3>7 DEF BusyInv, AccountInv
  <2>7. CASE c = <<ClearBusy(d), m>>
    <3>1. busy' = busy \ {d}
      BY <1>2, <2>7 DEF SetBusy, ClearBusy
    <3>2. \A p \in Orders : \A e \in Drivers : \A n \in Attempts :
            /\ Mark(p, e, n)' = Mark(p, e, n)
            /\ Clear(p, e, n)' = IF p = o /\ e = d /\ n = m THEN "done" ELSE Clear(p, e, n)
      BY <2>3, <2>5, <2>7, RedisCalls DEF Mark, Clear
    <3>3. Clear(o, d, m) = "started"
      BY <2>4, <2>7 DEF Clear
    <3>4. \A p \in Orders : \A e \in Drivers : MarkedAgain(p, e)' = MarkedAgain(p, e)
      BY <3>2 DEF MarkedAgain
    <3>5. ASSUME NEW p \in Orders PROVE PlaceInv(p)'
      <4>1. PlaceInv(p) /\ (p = o => d \in tried[p])
        BY <3>3 DEF BusyInv, PlaceInv
      <4>2. candidate[p] \in Drivers \/ at[p] \notin Unreleased
        BY <1>0, <4>1 DEF PlaceInv, WorkflowTypes, Assigned
      <4>3. at[p] \in Unreleased /\ p = o => candidate[p] # d
        BY <3>3, <4>1 DEF PlaceInv
      <4> QED BY <1>0, <3>2, <3>4, <4>1, <4>2, <4>3, FirstAttempt DEF PlaceInv
    <3>6. \A p \in Orders : \A e \in Drivers \ {d} : Accounts(p, e) => Accounts(p, e)'
      BY <1>0, <3>2, <3>4 DEF Accounts
    <3> QED BY <1>0, <3>1, <3>5, <3>6 DEF BusyInv, AccountInv
  <2> QED BY <2>1, <2>6, <2>7
<1> QED BY <1>1, <1>2

LEMMA BusyInit == Init => BusyInv
<1> SUFFICES ASSUME Init PROVE BusyInv
  OBVIOUS
<1>1. ServersInv
  BY DecidedInit
<1>2. WorkflowTypes
  BY DEF Init, WorkflowTypes, Stages
<1>3. \A o \in Orders : at[o] = "select" /\ result[o] = "none"
  BY DEF Init
<1>4. \A o \in Orders : \A d \in Drivers : \A n \in Attempts :
        Mark(o, d, n) = "idle" /\ Clear(o, d, n) = "idle"
  BY RedisCalls DEF Init, Mark, Clear
<1>5. \A o \in Orders : PlaceInv(o)
  BY <1>3, <1>4, FirstAttempt DEF PlaceInv, Assigned, Unreleased, Working, Releasing,
     ActivityStages
<1> QED BY <1>1, <1>2, <1>5 DEF Init, BusyInv, AccountInv

LEMMA BusyStep == BusyInv /\ DecidedInv /\ [Next]_vars => BusyInv'
<1> SUFFICES ASSUME BusyInv, DecidedInv, [Next]_vars PROVE BusyInv'
  OBVIOUS
<1>0. ServersInv'
  BY DecidedStep DEF BusyInv
<1>1. CASE UNCHANGED <<busy, call, at, attempt, candidate, tried, result>>
  <2>1. \A o \in Orders : \A d \in Drivers : \A n \in Attempts :
          Mark(o, d, n)' = Mark(o, d, n) /\ Clear(o, d, n)' = Clear(o, d, n)
    BY <1>1 DEF Mark, Clear
  <2>2. WorkflowTypes /\ WorkflowTypes'
    BY <1>1 DEF BusyInv, WorkflowTypes
  <2>3. \A o \in Orders :
          PlaceInv(o)' /\ \A d \in Drivers : Accounts(o, d) => Accounts(o, d)'
    BY <1>1, <2>1, <2>2, OthersKeep DEF BusyInv
  <2> QED BY <1>0, <1>1, <2>2, <2>3 DEF BusyInv, AccountInv
<1>2. CASE \E o \in Orders : Workflow(o)
  BY <1>0, <1>2, WorkflowKeepsBusyInv
<1>3. CASE \E o \in Orders : \E c \in Calls :
             SetBusy(o, c) \/ Load(o, c) \/ AppendEvent(o, c)
  BY <1>0, <1>3, CallKeepsBusyInv
<1>4. CASE \E o \in Orders : Signal(o)
  BY <1>1, <1>4 DEF Signal, servers, workflowVars
<1> QED BY <1>1, <1>2, <1>3, <1>4 DEF Next, Environment, vars, servers

\* A driver is taken out of the pool only by a job that is under way, or by
\* one whose workflow failed, or whose marking was retried; never by one that
\* was refused, lapsed or was released (dispatch-workflow.ts marks after the
\* acceptance, and clears before it returns or records the failure).
THEOREM BusyAlwaysAccountedFor == Spec => []BusyIsAccountedFor
<1>1. BusyInv => BusyIsAccountedFor
  BY DEF BusyInv, AccountInv, Accounts, MarkedAgain, Mark, BusyIsAccountedFor, HasJob,
     Working, Releasing
<1>2. BusyInv => ServersInv
  BY DEF BusyInv
<1>3. Init => BusyInv /\ DecidedInv
  BY BusyInit, DecidedInit
<1>4. BusyInv /\ DecidedInv /\ [Next]_vars => (BusyInv /\ DecidedInv)'
  BY <1>2, BusyStep, DecidedStep
<1> QED BY <1>1, <1>3, <1>4, PTL DEF Spec

-----------------------------------------------------------------------------
(* The fold of a dispatch, row by row.                                     *)

\* A set of numbers has a least one: what induction over a stream rests on.
LEMMA LeastOf ==
  ASSUME NEW T \in SUBSET Nat, T # {}
  PROVE  \E x \in T : \A y \in T : x <= y
<1> DEFINE R == {ss \in Nat \X Nat : ss[1] < ss[2]}
<1>1. IsWellFoundedOn(R, Nat)
  BY NatLessThanWellFounded DEF OpToRel
<1> HIDE DEF R
<1>2. PICK x \in T : \A y \in T : ~(<<y, x>> \in R)
  BY <1>1, WFMin
<1>3. \A y \in T : ~(y < x)
  BY <1>2 DEF R
<1> QED BY <1>3

\* f is the fold of the first n rows of s, state by state.
IsFold(f, s, n) ==
  f = [k \in 0 .. n |-> IF k = 0 THEN INITIAL_DISPATCH_STATE
                                 ELSE foldDispatch(f[k - 1], s[k])]

\* There is such a fold, for any rows.
LEMMA FoldExists ==
  ASSUME NEW s
  PROVE  \A n \in Nat : \E f : IsFold(f, s, n)
<1> DEFINE T == {n \in Nat : ~\E f : IsFold(f, s, n)}
<1> SUFFICES ASSUME T # {} PROVE FALSE
  OBVIOUS
<1>1. PICK n \in T : \A m \in T : n <= m
  BY LeastOf
<1>2. CASE n = 0
  <2>1. IsFold([k \in 0 .. 0 |-> INITIAL_DISPATCH_STATE], s, 0)
    BY DEF IsFold
  <2> QED BY <1>2, <2>1
<1>3. CASE n # 0
  <2>1. n - 1 \in Nat /\ ~(n <= n - 1)
    BY <1>3
  <2>2. PICK f : IsFold(f, s, n - 1)
    BY <1>1, <2>1
  <2> DEFINE g == [k \in 0 .. n |-> IF k = n THEN foldDispatch(f[n - 1], s[n]) ELSE f[k]]
  <2>3. \A k \in 0 .. n - 1 :
          f[k] = IF k = 0 THEN INITIAL_DISPATCH_STATE ELSE foldDispatch(f[k - 1], s[k])
    BY <2>1, <2>2 DEF IsFold
  <2>4. \A k \in 0 .. n : g[k] = IF k = 0 THEN INITIAL_DISPATCH_STATE
                                          ELSE foldDispatch(g[k - 1], s[k])
    <3> TAKE k \in 0 .. n
    <3>1. CASE k = n
      BY <1>3, <3>1
    <3>2. CASE k # n
      <4>1. k \in 0 .. n - 1 /\ g[k] = f[k] /\ (k # 0 => g[k - 1] = f[k - 1])
        BY <3>2
      <4> QED BY <2>3, <4>1
    <3> QED BY <3>1, <3>2
  <2>5. IsFold(g, s, n)
    <3> DEFINE h == [k \in 0 .. n |-> IF k = 0 THEN INITIAL_DISPATCH_STATE
                                               ELSE foldDispatch(g[k - 1], s[k])]
    <3>1. DOMAIN g = 0 .. n /\ DOMAIN h = 0 .. n /\ \A k \in 0 .. n : g[k] = h[k]
      BY <2>4
    <3>2. g = h
      BY <3>1
    <3> HIDE DEF g
    <3> QED BY <3>2 DEF IsFold
  <2> QED BY <2>5
<1> QED BY <1>2, <1>3

\* What a loaded dispatch is.
LEMMA Loaded ==
  ASSUME NEW s \in Seq(DispatchEvent)
  PROVE  \E f : IsFold(f, s, Len(s)) /\ loadDispatch(s).state = f[Len(s)]
<1> DEFINE body(f) == [n \in 0 .. Len(s) |->
                         IF n = 0 THEN INITIAL_DISPATCH_STATE
                                  ELSE foldDispatch(f[n - 1], s[n])]
           after == CHOOSE f : f = body(f)
<1>1. \E f : f = body(f)
  BY FoldExists DEF IsFold
<1>2. after = body(after)
  BY <1>1
<1>3. loadDispatch(s).state = after[Len(s)]
  BY DEF loadDispatch
<1> HIDE DEF after
<1> QED BY <1>2, <1>3 DEF IsFold

\* A row that is added is folded into the state that was there before.
LEMMA LoadAppend ==
  ASSUME NEW s \in Seq(DispatchEvent), NEW e \in DispatchEvent
  PROVE  loadDispatch(Append(s, e)).state = foldDispatch(loadDispatch(s).state, e)
<1> DEFINE t == Append(s, e)
           n == Len(s)
<1>1. PICK f : IsFold(f, s, n) /\ loadDispatch(s).state = f[n]
  BY Loaded
<1>2. /\ t \in Seq(DispatchEvent) /\ n \in Nat
      /\ Len(t) = n + 1 /\ t[n + 1] = e
      /\ \A k \in 1 .. n : s[k] = t[k]
  OBVIOUS
<1>3. PICK g : IsFold(g, t, n + 1) /\ loadDispatch(t).state = g[n + 1]
  BY <1>2, Loaded
<1> HIDE DEF t, n
<1>4. n + 1 \in Nat /\ n <= n + 1
  BY <1>2
<1>5. \A k \in 0 .. n : f[k] = g[k]
  <2> DEFINE T == {k \in 0 .. n : f[k] # g[k]}
  <2> SUFFICES ASSUME T # {} PROVE FALSE
    OBVIOUS
  <2>1. T \in SUBSET Nat
    BY <1>2
  <2>2. PICK k \in T : \A j \in T : k <= j
    BY <2>1, LeastOf
  <2>3. k \in 0 .. n /\ k \in 0 .. n + 1 /\ f[k] # g[k]
    BY <1>2
  <2>4. /\ f[k] = IF k = 0 THEN INITIAL_DISPATCH_STATE ELSE foldDispatch(f[k - 1], s[k])
        /\ g[k] = IF k = 0 THEN INITIAL_DISPATCH_STATE ELSE foldDispatch(g[k - 1], t[k])
    BY <1>1, <1>3, <2>3 DEF IsFold
  <2>5. ASSUME k # 0 PROVE f[k - 1] = g[k - 1] /\ s[k] = t[k]
    <3>1. k - 1 \in 0 .. n /\ ~(k <= k - 1) /\ k \in 1 .. n
      BY <1>2, <2>3, <2>5
    <3>2. k - 1 \notin T
      BY <2>2, <3>1
    <3> QED BY <1>2, <3>1, <3>2
  <2> QED BY <2>3, <2>4, <2>5
<1>6. g[n + 1] = foldDispatch(g[n], e)
  BY <1>2, <1>3 DEF IsFold
<1>7. loadDispatch(t).state = foldDispatch(loadDispatch(s).state, e)
  BY <1>1, <1>2, <1>3, <1>5, <1>6
<1> QED BY <1>7 DEF t

\* A dispatch without rows.
LEMMA LoadNothing == loadDispatch(<<>>).state = INITIAL_DISPATCH_STATE
<1>0. <<>> \in Seq(DispatchEvent) /\ Len(<<>>) = 0
  OBVIOUS
<1>1. PICK f : IsFold(f, <<>>, 0) /\ loadDispatch(<<>>).state = f[0]
  BY <1>0, Loaded
<1> QED BY <1>1 DEF IsFold

-----------------------------------------------------------------------------
(* Consent.  What a driver is said to have done was written by an attempt  *)
(* that the workflow began when the driver's signal had come; so the       *)
(* invariant is about every attempt that was ever begun, lost ones too.    *)

Begun(o, e) == \E n \in Attempts : call[o][<<e, n>>].step # "idle"
NoDrivers == DispatchFailed("NO_DRIVERS_AVAILABLE")

\* The stages at which nobody has been asked to take the job for good.
Unaccepted == {"select", "offer", "awaitAnswer", "markBusy", "failNoDrivers"}

SignalTypes ==
  /\ accepted \in [Orders -> SUBSET Drivers] /\ rejected \in [Orders -> SUBSET Drivers]
  /\ pickedUp \in [Orders -> BOOLEAN] /\ delivered \in [Orders -> BOOLEAN]

BegunInv(o) ==
  /\ \A d \in Drivers : Begun(o, DispatchAccepted(d)) => d \in accepted[o] \cap tried[o]
  /\ Begun(o, OrderPickedUp) => pickedUp[o]
  /\ Begun(o, OrderDelivered) => pickedUp[o] /\ delivered[o]
  /\ at[o] \in {"markBusy", "accept"} => candidate[o] \in accepted[o] \cap tried[o]
  /\ at[o] \in {"offer", "awaitAnswer"} => candidate[o] \in tried[o]
  /\ at[o] \in {"pickup", "awaitDeliver", "deliver"} => pickedUp[o]
  /\ at[o] = "deliver" => delivered[o]

ExhaustedInv(o) ==
  /\ Begun(o, NoDrivers) => at[o] \in {"failNoDrivers", "closed"}
  /\ at[o] \in Unaccepted \/ Begun(o, NoDrivers) =>
       \A d \in Drivers : ~Begun(o, DispatchAccepted(d))

DispatchState ==
  [status : {"NONE", "OFFERED", "DISPATCHED", "PICKED_UP", "DELIVERED", "FAILED"},
   offeredDriver : Drivers \cup {"none"}, driver : Drivers \cup {"none"}]

StreamInv(o) ==
  /\ State(o) \in DispatchState
  /\ \A n \in 1 .. Len(stream[o]) : Begun(o, stream[o][n])
  /\ State(o).driver # "none" => Begun(o, DispatchAccepted(State(o).driver))
  /\ State(o).status = "PICKED_UP" => Begun(o, OrderPickedUp)
  /\ State(o).status = "DELIVERED" => Begun(o, OrderDelivered)

JobInv ==
  /\ SignalTypes
  /\ \A o \in Orders : BegunInv(o) /\ ExhaustedInv(o) /\ StreamInv(o)

LEMMA EventsAre ==
  /\ \A d \in Drivers : DriverOffered(d) \in DispatchEvent /\ DispatchAccepted(d) \in DispatchEvent
  /\ OrderPickedUp \in DispatchEvent /\ OrderDelivered \in DispatchEvent
  /\ NoDrivers \in DispatchEvent
BY DEF DispatchEvent, DriverOffered, DispatchAccepted, OrderPickedUp, OrderDelivered,
       NoDrivers, DispatchFailed, DISPATCH_FAIL_REASONS

\* Each stage records one thing.
LEMMA EventOfStage ==
  ASSUME NEW stage \in ActivityStages, NEW d
  PROVE  /\ \A x \in Drivers : DispatchAccepted(x) = ActivityAt(stage, d)
                                 <=> stage = "accept" /\ x = d
         /\ OrderPickedUp = ActivityAt(stage, d) <=> stage = "pickup"
         /\ OrderDelivered = ActivityAt(stage, d) <=> stage = "deliver"
         /\ NoDrivers = ActivityAt(stage, d) <=> stage = "failNoDrivers"
<1> USE DEF DispatchAccepted, OrderPickedUp, OrderDelivered, NoDrivers, DispatchFailed
<1>1. CASE stage = "offer"
  BY <1>1 DEF ActivityAt, DriverOffered
<1>2. CASE stage = "markBusy"
  BY <1>2 DEF ActivityAt, MarkBusy
<1>3. CASE stage = "accept"
  BY <1>3 DEF ActivityAt
<1>4. CASE stage = "pickup" \/ stage = "deliver"
  BY <1>4 DEF ActivityAt
<1>5. CASE stage = "release" \/ stage = "releaseLate"
  BY <1>5 DEF ActivityAt, ClearBusy
<1>6. CASE stage = "failNoDrivers" \/ stage = "failLate"
  BY <1>6 DEF ActivityAt
<1> QED BY <1>1, <1>2, <1>3, <1>4, <1>5, <1>6 DEF ActivityStages

\* An attempt that is started is begun, and no other.
LEMMA StartBegins ==
  ASSUME ServersInv, NEW o \in Orders, NEW a, NEW m \in Attempts,
         call' = [call EXCEPT ![o][<<a, m>>].step = "started"],
         NEW e \in DispatchEvent
  PROVE  Begun(o, e)' <=> Begun(o, e) \/ e = a
<1> DEFINE c == <<a, m>>
           r == [call[o][c] EXCEPT !.step = "started"]
<1>1. call' = [call EXCEPT ![o][c] = r]
  OBVIOUS
<1>2. \A n \in Attempts : <<e, n>> \in Calls /\ (<<e, n>> = c <=> e = a /\ n = m)
  BY DEF Calls, Activities
<1>3. c \in Calls => r.step = "started"
  BY DEF ServersInv, CallRecord
<1>4. \A n \in Attempts :
        call'[o][<<e, n>>] = IF <<e, n>> = c THEN r ELSE call[o][<<e, n>>]
  BY <1>1, <1>2, OneCall DEF ServersInv
<1> HIDE DEF c, r
<1>5. \A n \in Attempts :
        call'[o][<<e, n>>].step = IF e = a /\ n = m THEN "started" ELSE call[o][<<e, n>>].step
  BY <1>2, <1>3, <1>4
<1>6. CASE e = a
  <2>1. call'[o][<<e, m>>].step = "started"
    BY <1>5, <1>6
  <2> QED BY <1>6, <2>1 DEF Begun
<1>7. CASE e # a
  <2>1. \A n \in Attempts : call'[o][<<e, n>>].step = call[o][<<e, n>>].step
    BY <1>5, <1>7
  <2> QED BY <1>7, <2>1 DEF Begun
<1> QED BY <1>6, <1>7

\* What StartAttempt does to what was begun.
LEMMA StageBegins ==
  ASSUME ServersInv, NEW o \in Orders, NEW stage \in ActivityStages, NEW d,
         NEW m \in Attempts, StartAttempt(o, stage, d, m)
  PROVE  /\ \A e \in DispatchEvent : Begun(o, e) => Begun(o, e)'
         /\ \A x \in Drivers : Begun(o, DispatchAccepted(x))'
              <=> Begun(o, DispatchAccepted(x)) \/ (stage = "accept" /\ x = d)
         /\ Begun(o, OrderPickedUp)' <=> Begun(o, OrderPickedUp) \/ stage = "pickup"
         /\ Begun(o, OrderDelivered)' <=> Begun(o, OrderDelivered) \/ stage = "deliver"
         /\ Begun(o, NoDrivers)' <=> Begun(o, NoDrivers) \/ stage = "failNoDrivers"
<1> DEFINE a == ActivityAt(stage, d)
<1>1. call' = [call EXCEPT ![o][<<a, m>>].step = "started"]
  BY DEF StartAttempt
<1>2. /\ \A x \in Drivers : DispatchAccepted(x) = a <=> stage = "accept" /\ x = d
      /\ OrderPickedUp = a <=> stage = "pickup"
      /\ OrderDelivered = a <=> stage = "deliver"
      /\ NoDrivers = a <=> stage = "failNoDrivers"
  BY EventOfStage
<1> HIDE DEF a
<1>3. \A e \in DispatchEvent : Begun(o, e)' <=> Begun(o, e) \/ e = a
  BY <1>1, StartBegins
<1>4. \A x \in Drivers : Begun(o, DispatchAccepted(x))'
        <=> Begun(o, DispatchAccepted(x)) \/ (stage = "accept" /\ x = d)
  BY <1>2, <1>3, EventsAre
<1>5. /\ Begun(o, OrderPickedUp)' <=> Begun(o, OrderPickedUp) \/ stage = "pickup"
      /\ Begun(o, OrderDelivered)' <=> Begun(o, OrderDelivered) \/ stage = "deliver"
      /\ Begun(o, NoDrivers)' <=> Begun(o, NoDrivers) \/ stage = "failNoDrivers"
  BY <1>2, <1>3, EventsAre
<1> QED BY <1>3, <1>4, <1>5

\* The state of an order alone decides what holds of it.
LEMMA OwnPart ==
  ASSUME NEW o \in Orders,
         UNCHANGED <<at[o], candidate[o], tried[o], accepted[o], pickedUp[o], delivered[o]>>,
         \A e \in DispatchEvent : Begun(o, e)' <=> Begun(o, e)
  PROVE  BegunInv(o) /\ ExhaustedInv(o) => (BegunInv(o) /\ ExhaustedInv(o))'
BY EventsAre DEF BegunInv, ExhaustedInv

\* What a stream says stays backed by what was begun.
LEMMA StreamStays ==
  ASSUME NEW o \in Orders, ServersInv, stream'[o] = stream[o],
         \A e \in DispatchEvent : Begun(o, e) => Begun(o, e)',
         StreamInv(o)
  PROVE  StreamInv(o)'
<1>1. State(o)' = State(o)
  BY DEF State
<1>2. \A n \in 1 .. Len(stream[o]) : stream[o][n] \in DispatchEvent
  BY DEF ServersInv
<1>3. State(o).driver # "none" => State(o).driver \in Drivers
  BY DEF StreamInv, DispatchState
<1> QED BY <1>1, <1>2, <1>3, EventsAre DEF StreamInv

\* The workflow of o begins the activity of a stage, with cause.
LEMMA StageKeeps ==
  ASSUME ServersInv, WorkflowTypes, NEW o \in Orders,
         NEW stage \in ActivityStages, NEW d \in Drivers \cup {"none"}, NEW m \in Attempts,
         StartAttempt(o, stage, d, m), UNCHANGED signals,
         candidate'[o] = d, tried[o] \subseteq tried'[o],
         BegunInv(o), ExhaustedInv(o),
         stage \in {"markBusy", "accept"} => d \in accepted[o] \cap tried[o],
         stage = "offer" => d \in tried'[o],
         stage = "pickup" => pickedUp[o],
         stage = "deliver" => pickedUp[o] /\ delivered[o],
         stage \in Unaccepted => at[o] \in Unaccepted,
         Begun(o, NoDrivers) => stage = "failNoDrivers"
  PROVE  (BegunInv(o) /\ ExhaustedInv(o))'
<1>1. at'[o] = stage
  BY DEF StartAttempt, WorkflowTypes
<1>2. UNCHANGED <<accepted, pickedUp, delivered>>
  BY DEF signals
<1>3. /\ \A x \in Drivers : Begun(o, DispatchAccepted(x))'
           <=> Begun(o, DispatchAccepted(x)) \/ (stage = "accept" /\ x = d)
      /\ Begun(o, OrderPickedUp)' <=> Begun(o, OrderPickedUp) \/ stage = "pickup"
      /\ Begun(o, OrderDelivered)' <=> Begun(o, OrderDelivered) \/ stage = "deliver"
      /\ Begun(o, NoDrivers)' <=> Begun(o, NoDrivers) \/ stage = "failNoDrivers"
  BY StageBegins
<1>4. /\ Begun(o, OrderPickedUp)' => pickedUp'[o]
      /\ Begun(o, OrderDelivered)' => pickedUp'[o] /\ delivered'[o]
  BY <1>2, <1>3 DEF BegunInv
<1>5. ASSUME NEW x \in Drivers, Begun(o, DispatchAccepted(x))'
      PROVE  x \in accepted'[o] \cap tried'[o]
  BY <1>2, <1>3, <1>5 DEF BegunInv
<1>6. /\ at'[o] \in {"markBusy", "accept"} => candidate'[o] \in accepted'[o] \cap tried'[o]
      /\ at'[o] \in {"offer", "awaitAnswer"} => candidate'[o] \in tried'[o]
      /\ at'[o] \in {"pickup", "awaitDeliver", "deliver"} => pickedUp'[o]
      /\ at'[o] = "deliver" => delivered'[o]
  BY <1>1, <1>2 DEF ActivityStages
<1>7. BegunInv(o)'
  BY <1>4, <1>5, <1>6 DEF BegunInv
<1>8. ExhaustedInv(o)'
  BY <1>1, <1>3 DEF ExhaustedInv, Unaccepted
<1> QED BY <1>7, <1>8

\* It waits, selects or returns, with nothing begun.
LEMMA MoveOnKeeps ==
  ASSUME NEW o \in Orders, UNCHANGED <<call, signals, candidate, tried>>,
         at'[o] \notin ActivityStages,
         at'[o] = "awaitAnswer" => at[o] = "offer",
         at'[o] = "awaitDeliver" => at[o] = "pickup",
         at'[o] = "select" => at[o] = "awaitAnswer",
         at[o] \in ActivityStages => at[o] # "failNoDrivers" \/ at'[o] = "closed",
         at[o] # "closed", BegunInv(o), ExhaustedInv(o)
  PROVE  (BegunInv(o) /\ ExhaustedInv(o))'
<1>1. \A e : Begun(o, e)' <=> Begun(o, e)
  BY DEF Begun
<1>2. UNCHANGED <<accepted, pickedUp, delivered>>
  BY DEF signals
<1>3. BegunInv(o)'
  BY <1>1, <1>2 DEF BegunInv, ActivityStages
<1>4. ExhaustedInv(o)'
  BY <1>1, <1>2 DEF ExhaustedInv, Unaccepted, ActivityStages
<1> QED BY <1>3, <1>4

LEMMA ScheduleWithCause ==
  ASSUME BusyInv, NEW o \in Orders, NEW stage \in ActivityStages, Schedule(o, stage),
         BegunInv(o), ExhaustedInv(o), at[o] \notin {"failNoDrivers", "closed"},
         stage \in {"markBusy", "accept"} => candidate[o] \in accepted[o] \cap tried[o],
         stage # "offer",
         stage = "pickup" => pickedUp[o],
         stage = "deliver" => pickedUp[o] /\ delivered[o],
         stage \in Unaccepted => at[o] \in Unaccepted
  PROVE  (BegunInv(o) /\ ExhaustedInv(o))'
<1>1. /\ StartAttempt(o, stage, candidate[o], 1)
      /\ UNCHANGED <<candidate, tried, signals>>
  BY DEF Schedule
<1>2. WorkflowTypes /\ ServersInv /\ candidate[o] \in Drivers \cup {"none"}
  BY DEF BusyInv, WorkflowTypes
<1>3. ~Begun(o, NoDrivers)
  BY DEF ExhaustedInv
<1> QED BY <1>1, <1>2, <1>3, FirstAttempt, StageKeeps

\* Every step of a workflow begins what it has cause for.
LEMMA WorkflowWithCause ==
  ASSUME BusyInv, NEW o \in Orders, Workflow(o), BegunInv(o), ExhaustedInv(o)
  PROVE  (BegunInv(o) /\ ExhaustedInv(o))'
<1> USE DEF Unaccepted
<1>0. at \in [Orders -> Stages]
  BY DEF BusyInv, WorkflowTypes
<1>1. CASE Select(o)
  <2>1. PICK d \in Drivers : /\ at[o] = "select" /\ StartAttempt(o, "offer", d, 1)
                             /\ candidate' = [candidate EXCEPT ![o] = d]
                             /\ tried' = [tried EXCEPT ![o] = @ \cup {d}]
                             /\ UNCHANGED signals
    BY <1>1 DEF Select, Offer
  <2>2. candidate'[o] = d /\ tried'[o] = tried[o] \cup {d}
    BY <2>1 DEF BusyInv, WorkflowTypes
  <2>3. "offer" \in ActivityStages
    BY DEF ActivityStages
  <2>4. ~Begun(o, NoDrivers)
    BY <2>1 DEF ExhaustedInv
  <2> QED BY <2>1, <2>2, <2>3, <2>4, FirstAttempt, StageKeeps DEF BusyInv
<1>2. CASE RetryActivity(o)
  <2>1. /\ at[o] \in ActivityStages /\ attempt[o] < MaxAttempts
        /\ StartAttempt(o, at[o], candidate[o], attempt[o] + 1)
        /\ UNCHANGED <<candidate, tried, signals>>
    BY <1>2 DEF RetryActivity
  <2>2. attempt[o] + 1 \in Attempts
    BY <2>1, AttemptsAssumption DEF BusyInv, PlaceInv, Attempts
  <2>3. candidate[o] \in Drivers \cup {"none"}
    BY DEF BusyInv, WorkflowTypes
  <2>4. Begun(o, NoDrivers) => at[o] = "failNoDrivers"
    BY <2>1 DEF ExhaustedInv, ActivityStages
  <2> QED BY <2>1, <2>2, <2>3, <2>4, StageKeeps DEF BusyInv, BegunInv
<1>3. CASE NoCandidate(o) \/ OfferAccepted(o) \/ Marked(o) \/ PickedUp(o) \/ Delivered(o)
             \/ DeliveryRecorded(o) \/ GiveUp(o) \/ ReleasedLate(o)
  <2>1. {"failNoDrivers", "markBusy", "accept", "pickup", "deliver", "release",
         "releaseLate", "failLate"} \subseteq ActivityStages
    BY DEF ActivityStages
  <2>2. CASE NoCandidate(o)
    BY <2>1, <2>2, ScheduleWithCause DEF NoCandidate
  <2>3. CASE OfferAccepted(o)
    BY <2>1, <2>3, ScheduleWithCause DEF OfferAccepted, BegunInv
  <2>4. CASE Marked(o)
    BY <2>1, <2>4, ScheduleWithCause DEF Marked, Done, BegunInv
  <2>5. CASE PickedUp(o)
    BY <2>1, <2>5, ScheduleWithCause DEF PickedUp
  <2>6. CASE Delivered(o)
    BY <2>1, <2>6, ScheduleWithCause DEF Delivered, BegunInv
  <2>7. CASE DeliveryRecorded(o)
    BY <2>1, <2>7, ScheduleWithCause DEF DeliveryRecorded, Done
  <2>8. CASE GiveUp(o)
    BY <2>1, <2>8, ScheduleWithCause DEF GiveUp, Late
  <2>9. CASE ReleasedLate(o)
    BY <2>1, <2>9, ScheduleWithCause DEF ReleasedLate, Done
  <2> QED BY <1>3, <2>2, <2>3, <2>4, <2>5, <2>6, <2>7, <2>8, <2>9
<1>4. CASE OfferRecorded(o) \/ OfferLapsed(o) \/ AcceptRecorded(o) \/ PickupRecorded(o)
  <2>1. PICK s \in {"awaitAnswer", "select", "awaitPickup", "awaitDeliver"} :
          /\ at' = [at EXCEPT ![o] = s] /\ UNCHANGED <<call, signals, candidate, tried>>
          /\ s = "awaitAnswer" => at[o] = "offer"
          /\ s = "select" => at[o] = "awaitAnswer"
          /\ s = "awaitPickup" => at[o] = "accept"
          /\ s = "awaitDeliver" => at[o] = "pickup"
    BY <1>4 DEF OfferRecorded, OfferLapsed, AcceptRecorded, PickupRecorded, Wait, Done, servers
  <2>2. at'[o] = s /\ s \notin ActivityStages /\ at[o] \notin {"failNoDrivers", "closed"}
    BY <1>0, <2>1 DEF ActivityStages
  <2> QED BY <2>1, <2>2, MoveOnKeeps
<1>5. CASE Released(o) \/ FailureRecorded(o) \/ WorkflowFails(o)
  <2>1. /\ at' = [at EXCEPT ![o] = "closed"] /\ UNCHANGED <<call, signals, candidate, tried>>
        /\ at[o] # "closed"
    BY <1>5 DEF Released, FailureRecorded, WorkflowFails, Close, Done, servers, ActivityStages
  <2>2. at'[o] = "closed" /\ "closed" \notin ActivityStages
    BY <1>0, <2>1 DEF ActivityStages
  <2> QED BY <2>1, <2>2, MoveOnKeeps
<1> QED BY <1>1, <1>2, <1>3, <1>4, <1>5 DEF Workflow

\* What an attempt does later begins nothing.
LEMMA CallBegins ==
  ASSUME ServersInv, NEW o \in Orders, NEW c \in Calls,
         SetBusy(o, c) \/ Load(o, c) \/ AppendEvent(o, c),
         NEW p \in Orders, NEW e \in DispatchEvent
  PROVE  Begun(p, e)' <=> Begun(p, e)
<1>0. call[o][c] \in CallRecord /\ call[o][c].step # "idle"
  BY DEF ServersInv, SetBusy, Load, AppendEvent
<1>1. PICK r : call' = [call EXCEPT ![o][c] = r] /\ r.step # "idle"
  <2>1. CASE SetBusy(o, c)
    <3>1. call' = [call EXCEPT ![o][c] = [call[o][c] EXCEPT !.step = "done"]]
      BY <2>1 DEF SetBusy
    <3>2. [call[o][c] EXCEPT !.step = "done"].step = "done"
      BY <1>0 DEF CallRecord
    <3>3. [call[o][c] EXCEPT !.step = "done"].step # "idle"
      BY <3>2
    <3> QED BY <3>1, <3>3, Zenon
  <2>2. CASE Load(o, c)
    <3> DEFINE loaded == loadDispatch(stream[o])
               s == IF Allows(loaded.state, c[1]) THEN "loaded" ELSE "done"
    <3>1. call' = [call EXCEPT ![o][c] = [step |-> s, version |-> loaded.version]]
      BY <2>2 DEF Load
    <3>2. s # "idle"
      OBVIOUS
    <3> HIDE DEF s, loaded
    <3>3. [step |-> s, version |-> loaded.version].step # "idle"
      BY <3>2
    <3> QED BY <3>1, <3>3, Zenon
  <2>3. CASE AppendEvent(o, c)
    <3>1. \/ call' = [call EXCEPT ![o][c] = [call[o][c] EXCEPT !.step = "done"]]
          \/ call' = [call EXCEPT ![o][c] = [call[o][c] EXCEPT !.step = "conflict"]]
      BY <2>3 DEF AppendEvent
    <3>2. /\ [call[o][c] EXCEPT !.step = "done"].step # "idle"
          /\ [call[o][c] EXCEPT !.step = "conflict"].step # "idle"
      BY <1>0 DEF CallRecord
    <3> QED BY <3>1, <3>2, Zenon
  <2> QED BY <2>1, <2>2, <2>3
<1>2. \A n \in Attempts : <<e, n>> \in Calls
  BY DEF Calls, Activities
<1>3. \A n \in Attempts :
        call'[p][<<e, n>>] = IF p = o /\ <<e, n>> = c THEN r ELSE call[p][<<e, n>>]
  BY <1>1, <1>2, OneCall DEF ServersInv
<1>4. \A n \in Attempts : call'[p][<<e, n>>].step # "idle" <=> call[p][<<e, n>>].step # "idle"
  BY <1>0, <1>1, <1>3
<1> QED BY <1>4 DEF Begun

\* A row that was begun keeps the stream backed by what was begun.
LEMMA StreamGrows ==
  ASSUME NEW o \in Orders, ServersInv, NEW e \in DispatchEvent,
         stream'[o] = Append(stream[o], e), Begun(o, e),
         \A a \in DispatchEvent : Begun(o, a)' <=> Begun(o, a),
         StreamInv(o)
  PROVE  StreamInv(o)'
<1>0. PICK s, t : s = State(o) /\ t = foldDispatch(s, e)
  OBVIOUS
<1>1. State(o)' = t
  BY <1>0, LoadAppend DEF State, ServersInv
<1>2. stream[o] \in Seq(DispatchEvent)
  BY DEF ServersInv
<1>3. (\A n \in 1 .. Len(stream[o]) : Begun(o, stream[o][n]))'
  <2> SUFFICES ASSUME NEW n \in 1 .. Len(stream'[o]), NEW a, a = stream'[o][n]
               PROVE  Begun(o, a)'
    BY Zenon
  <2>1. CASE n \in 1 .. Len(stream[o])
    <3>1. a = stream[o][n] /\ a \in DispatchEvent
      BY <1>2, <2>1
    <3> QED BY <2>1, <3>1 DEF StreamInv
  <2>2. CASE n \notin 1 .. Len(stream[o])
    <3>1. a = e
      BY <1>2, <2>2
    <3> QED BY <3>1
  <2> QED BY <2>1, <2>2
<1>4. s \in DispatchState
  BY <1>0 DEF StreamInv
<1>5. \/ \E d \in Drivers : e = DriverOffered(d) \/ e = DispatchAccepted(d)
      \/ e = OrderPickedUp \/ e = OrderDelivered
      \/ e.type = "DispatchFailed"
  BY DEF DispatchEvent, DriverOffered, DispatchAccepted
<1>6. /\ t \in DispatchState
      /\ t.driver = s.driver \/ (t.driver \in Drivers /\ e = DispatchAccepted(t.driver))
      /\ t.status = "PICKED_UP" => e = OrderPickedUp
      /\ t.status = "DELIVERED" => e = OrderDelivered
  <2> USE <1>0, <1>4 DEF DispatchState, foldDispatch
  <2>1. ASSUME NEW d \in Drivers, e = DriverOffered(d)
        PROVE  t \in DispatchState /\ t.driver = s.driver /\ t.status = "OFFERED"
    <3>1. t = [s EXCEPT !.status = "OFFERED", !.offeredDriver = d]
      BY <2>1 DEF DriverOffered
    <3> QED BY <3>1
  <2>2. ASSUME NEW d \in Drivers, e = DispatchAccepted(d)
        PROVE  t \in DispatchState /\ t.driver = d /\ t.status = "DISPATCHED"
    <3>1. t = [s EXCEPT !.status = "DISPATCHED", !.driver = d]
      BY <2>2 DEF DispatchAccepted
    <3> QED BY <3>1
  <2>3. CASE e = OrderPickedUp
    BY <2>3 DEF OrderPickedUp
  <2>4. CASE e = OrderDelivered
    BY <2>4 DEF OrderDelivered
  <2>5. CASE e.type = "DispatchFailed"
    BY <2>5
  <2> QED BY <1>5, <2>1, <2>2, <2>3, <2>4, <2>5
<1>7. /\ s.driver # "none" => Begun(o, DispatchAccepted(s.driver))
      /\ s.driver \in Drivers \cup {"none"}
  BY <1>0, <1>4 DEF StreamInv, DispatchState
<1>8. t.driver # "none" => Begun(o, DispatchAccepted(t.driver))'
  BY <1>6, <1>7, EventsAre
<1>9. /\ t.status = "PICKED_UP" => Begun(o, OrderPickedUp)'
      /\ t.status = "DELIVERED" => Begun(o, OrderDelivered)'
  BY <1>6
<1>10. /\ (State(o) \in DispatchState)'
       /\ (State(o).driver # "none" => Begun(o, DispatchAccepted(State(o).driver)))'
       /\ (State(o).status = "PICKED_UP" => Begun(o, OrderPickedUp))'
       /\ (State(o).status = "DELIVERED" => Begun(o, OrderDelivered))'
  BY <1>1, <1>6, <1>8, <1>9
<1> QED BY <1>3, <1>10 DEF StreamInv

\* The signals only grow, so what waited for one still has it.
LEMMA SignalKeeps ==
  ASSUME SignalTypes, NEW o \in Orders, Signal(o), NEW p \in Orders,
         BegunInv(p), ExhaustedInv(p), StreamInv(p), ServersInv
  PROVE  (BegunInv(p) /\ ExhaustedInv(p) /\ StreamInv(p))'
<1>1. /\ accepted[p] \subseteq accepted'[p]
      /\ pickedUp[p] => pickedUp'[p]
      /\ delivered[p] => delivered'[p]
  BY DEF Signal, SignalTypes
<1>2. UNCHANGED <<servers, workflowVars>>
  BY DEF Signal
<1>3. UNCHANGED <<stream, call, at, candidate, tried>>
  BY <1>2 DEF servers, workflowVars
<1>4. \A e : Begun(p, e)' <=> Begun(p, e)
  BY <1>3 DEF Begun
<1>5. StreamInv(p)'
  BY <1>3, <1>4, StreamStays
<1>6. BegunInv(p)'
  BY <1>1, <1>3, <1>4 DEF BegunInv
<1>7. ExhaustedInv(p)'
  BY <1>3, <1>4 DEF ExhaustedInv
<1> QED BY <1>5, <1>6, <1>7

LEMMA JobStep == BusyInv /\ DecidedInv /\ JobInv /\ [Next]_vars => JobInv'
<1> SUFFICES ASSUME BusyInv, DecidedInv, JobInv, [Next]_vars PROVE JobInv'
  OBVIOUS
<1>0. ServersInv /\ WorkflowTypes
  BY DEF BusyInv
<1>1. CASE UNCHANGED <<stream, call, at, candidate, tried, signals>>
  <2>1. \A o \in Orders : \A e : Begun(o, e)' <=> Begun(o, e)
    BY <1>1 DEF Begun
  <2>2. \A o \in Orders : (BegunInv(o) /\ ExhaustedInv(o))'
    BY <1>1, <2>1, OwnPart DEF JobInv, signals
  <2>3. \A o \in Orders : StreamInv(o)'
    BY <1>0, <1>1, <2>1, StreamStays DEF JobInv
  <2>4. SignalTypes'
    BY <1>1 DEF JobInv, SignalTypes, signals
  <2> QED BY <2>2, <2>3, <2>4 DEF JobInv
<1>2. ASSUME NEW o \in Orders, Workflow(o)
      PROVE  JobInv'
  <2>1. UNCHANGED signals /\ UNCHANGED stream
    <3>1. UNCHANGED signals
      BY <1>2 DEF Workflow, Select, Offer, NoCandidate, OfferRecorded, OfferAccepted,
         OfferLapsed, Marked, AcceptRecorded, PickedUp, PickupRecorded, Delivered,
         DeliveryRecorded, Released, GiveUp, ReleasedLate, FailureRecorded,
         RetryActivity, WorkflowFails, Schedule, Wait, Close
    <3>2. ASSUME NEW s, NEW d, NEW n, StartAttempt(o, s, d, n) PROVE UNCHANGED stream
      BY <3>2 DEF StartAttempt
    <3> QED BY <1>2, <3>1, <3>2, WorkflowStarts
  <2>2. BegunInv(o)' /\ ExhaustedInv(o)'
    BY <1>2, WorkflowWithCause DEF JobInv
  <2>3. ASSUME NEW p \in Orders, p # o
        PROVE  BegunInv(p)' /\ ExhaustedInv(p)' /\ call'[p] = call[p]
    <3>1. UNCHANGED <<at[p], candidate[p], tried[p], call[p]>>
      BY <1>2, <2>3, WorkflowLeavesOthers
    <3>2. \A e : Begun(p, e)' <=> Begun(p, e)
      BY <3>1 DEF Begun
    <3>3. UNCHANGED <<accepted[p], pickedUp[p], delivered[p]>>
      BY <2>1 DEF signals
    <3> QED BY <3>1, <3>2, <3>3, OwnPart DEF JobInv
  <2>4. \A e \in DispatchEvent : Begun(o, e) => Begun(o, e)'
    <3>1. CASE UNCHANGED call
      BY <3>1 DEF Begun
    <3>2. ASSUME NEW s, NEW d, NEW n, StartAttempt(o, s, d, n), NEW e \in DispatchEvent
          PROVE  Begun(o, e) => Begun(o, e)'
      <4> DEFINE b == <<ActivityAt(s, d), n>>
      <4>1. call' = [call EXCEPT ![o][b] = [call[o][b] EXCEPT !.step = "started"]]
        BY <3>2 DEF StartAttempt
      <4>2. ASSUME NEW m \in Attempts PROVE <<e, m>> \in Calls
        BY DEF Calls, Activities
      <4>3. \A c \in Calls : [call[o][c] EXCEPT !.step = "started"].step # "idle"
        BY <1>0 DEF ServersInv, CallRecord
      <4> HIDE DEF b
      <4>4. \A c \in Calls : call[o][c].step # "idle" => call'[o][c].step # "idle"
        <5> TAKE c \in Calls
        <5>1. CASE c = b
          <6>1. call'[o][c] = [call[o][c] EXCEPT !.step = "started"]
            BY <1>0, <4>1, <5>1, OneCall DEF ServersInv
          <6> QED BY <4>3, <6>1
        <5>2. CASE c # b
          <6>1. call'[o][c] = call[o][c]
            BY <1>0, <4>1, <5>2, OneCall DEF ServersInv
          <6> QED BY <6>1
        <5> QED BY <5>1, <5>2
      <4> QED BY <4>2, <4>4 DEF Begun
    <3> QED BY <1>2, <3>1, <3>2, WorkflowStarts
  <2>5. \A p \in Orders : StreamInv(p)'
    <3> TAKE p \in Orders
    <3>1. \A e \in DispatchEvent : Begun(p, e) => Begun(p, e)'
      BY <2>3, <2>4 DEF Begun
    <3> QED BY <1>0, <2>1, <3>1, StreamStays DEF JobInv
  <2>6. SignalTypes'
    BY <2>1 DEF JobInv, SignalTypes, signals
  <2> QED BY <2>2, <2>3, <2>5, <2>6 DEF JobInv
<1>3. ASSUME NEW o \in Orders, NEW c \in Calls,
             SetBusy(o, c) \/ Load(o, c) \/ AppendEvent(o, c)
      PROVE  JobInv'
  <2>1. UNCHANGED <<at, candidate, tried, signals>>
    BY <1>3 DEF SetBusy, Load, AppendEvent, workflowVars
  <2>2. \A p \in Orders : \A e \in DispatchEvent : Begun(p, e)' <=> Begun(p, e)
    BY <1>0, <1>3, CallBegins
  <2>3. \A p \in Orders : (BegunInv(p) /\ ExhaustedInv(p))'
    BY <2>1, <2>2, OwnPart DEF JobInv, signals
  <2>4. \/ UNCHANGED stream
        \/ /\ c[1] \in DispatchEvent /\ call[o][c].step = "loaded"
           /\ stream' = [stream EXCEPT ![o] = Append(@, c[1])]
    BY <1>3 DEF SetBusy, Load, AppendEvent
  <2>5. ASSUME NEW p \in Orders, stream'[p] = stream[p] PROVE StreamInv(p)'
    BY <1>0, <2>2, <2>5, StreamStays DEF JobInv
  <2>6. ASSUME stream' # stream PROVE StreamInv(o)'
    <3>1. c[1] \in DispatchEvent /\ stream'[o] = Append(stream[o], c[1])
      BY <1>0, <2>4, <2>6 DEF ServersInv
    <3>2. c[2] \in Attempts /\ c = <<c[1], c[2]>>
      BY DEF Calls
    <3>3. Begun(o, c[1])
      BY <2>4, <2>6, <3>2 DEF Begun
    <3> QED BY <1>0, <2>2, <3>1, <3>3, StreamGrows DEF JobInv
  <2>7. \A p \in Orders : StreamInv(p)'
    BY <1>0, <2>4, <2>5, <2>6 DEF ServersInv
  <2>8. SignalTypes'
    BY <2>1 DEF JobInv, SignalTypes, signals
  <2> QED BY <2>3, <2>7, <2>8 DEF JobInv
<1>4. ASSUME NEW o \in Orders, Signal(o)
      PROVE  JobInv'
  <2>1. SignalTypes'
    BY <1>4 DEF JobInv, SignalTypes, Signal
  <2> QED BY <1>0, <1>4, <2>1, SignalKeeps DEF JobInv
<1> QED BY <1>1, <1>2, <1>3, <1>4 DEF Next, Environment, vars, servers

LEMMA JobInit == Init => JobInv
<1> SUFFICES ASSUME Init PROVE JobInv
  OBVIOUS
<1>1. SignalTypes
  BY DEF Init, SignalTypes
<1>2. ASSUME NEW o \in Orders PROVE BegunInv(o) /\ ExhaustedInv(o) /\ StreamInv(o)
  <2>1. ASSUME NEW e \in DispatchEvent PROVE ~Begun(o, e)
    <3>1. \A n \in Attempts : <<e, n>> \in Calls
      BY DEF Calls, Activities
    <3> QED BY <3>1 DEF Begun, Init
  <2>2. BegunInv(o) /\ ExhaustedInv(o)
    BY <2>1, EventsAre DEF Init, BegunInv, ExhaustedInv
  <2>3. stream[o] = <<>> /\ Len(<<>>) = 0
    BY DEF Init
  <2>4. State(o) = INITIAL_DISPATCH_STATE
    BY <2>3, LoadNothing DEF State
  <2>5. StreamInv(o)
    BY <2>3, <2>4 DEF StreamInv, DispatchState, INITIAL_DISPATCH_STATE
  <2> QED BY <2>2, <2>5
<1> QED BY <1>1, <1>2 DEF JobInv

LEMMA JobAlways == Spec => [](ServersInv /\ JobInv)
<1>1. Init => BusyInv /\ DecidedInv /\ JobInv
  BY BusyInit, DecidedInit, JobInit
<1>2. BusyInv => ServersInv
  BY DEF BusyInv
<1>3. BusyInv /\ DecidedInv /\ JobInv /\ [Next]_vars => (BusyInv /\ DecidedInv /\ JobInv)'
  BY <1>2, BusyStep, DecidedStep, JobStep
<1> QED BY <1>1, <1>2, <1>3, PTL DEF Spec

\* Nobody is dispatched, for the event store, but a driver who was offered the
\* job and whose app accepted it; no order is recorded as picked up or delivered
\* whose driver's app did not say so (append in dispatch-activities.ts records
\* what the workflow waited for, however late an attempt writes it).
THEOREM ConsentIsGiven == Spec => []Consent
<1>1. ServersInv /\ JobInv => Consent
  BY DEF JobInv, BegunInv, StreamInv, DispatchState, Consent
<1> QED BY <1>1, JobAlways, PTL

\* A dispatch that is recorded as failed for want of drivers was accepted by
\* none: no attempt to record an acceptance was ever begun
\* (driverDispatchWorkflow leaves the offers for good with the first accepted).
THEOREM ExhaustedMeansUnaccepted == Spec => []NoDriverMeansNoDriver
<1>1. ASSUME ServersInv, JobInv, NEW o \in Orders,
             NoDrivers \in {stream[o][n] : n \in 1 .. Len(stream[o])}
      PROVE  State(o).driver = "none"
  <2>1. Begun(o, NoDrivers)
    BY <1>1 DEF JobInv, StreamInv
  <2> QED BY <1>1, <2>1 DEF JobInv, StreamInv, ExhaustedInv, DispatchState
<1>2. ServersInv /\ JobInv => NoDriverMeansNoDriver
  BY <1>1 DEF NoDriverMeansNoDriver, NoDrivers
<1> QED BY <1>2, JobAlways, PTL
=============================================================================
