--------------------------- MODULE ServicesProofs ---------------------------
(***************************************************************************)
(* Proofs about the two services that OrderSaga is built on, each alone,   *)
(* for any number of requests side by side and any amounts.                *)
(*                                                                         *)
(* OrderEventStore: the stream has at most one terminal event because a    *)
(* writer that is about to append decided on a version that pins the whole *)
(* stream down: place on version 0, accept and cancel on version 1         *)
(* (StoreInv).  If the stream has grown since, that version is taken and   *)
(* the append is refused.                                                  *)
(*                                                                         *)
(* Payments: the writes of capture and void are conditional on nothing, so *)
(* what protects a refused payment is that a handler that is about to      *)
(* write has seen a hold (WritersSawHold), and that a row is created once. *)
(***************************************************************************)
EXTENDS OrderEventStore, Payments, TLAPS

-----------------------------------------------------------------------------
(* The event store.                                                        *)

\* The inductive invariant.
StoreInv ==
  /\ StoreTypeOK
  /\ OneTerminalEvent
  /\ \A w \in Writers : writer[w].step = "loaded" =>
       /\ writer[w].version = IF w[1] = "place" THEN 0 ELSE 1
       /\ writer[w].version <= Len(events)

-----------------------------------------------------------------------------
(* What loadAggregate computes for streams of up to two rows: the fold     *)
(* unrolled.                                                               *)

\* The lengths a stream can have.
LEMMA UpToTwo == \A n \in Nat : n <= 2 <=> n = 0 \/ n = 1 \/ n = 2
OBVIOUS

\* loadAggregate folds the rows from the initial state, first to last.
LEMMA LoadUnrolled ==
  ASSUME NEW s \in Seq(OrderEvent), Len(s) <= 2
  PROVE  /\ loadAggregate(s).version = Len(s)
         /\ Len(s) = 0 => loadAggregate(s).state = INITIAL_ORDER_STATE
         /\ Len(s) = 1 =>
              loadAggregate(s).state = foldOrder(INITIAL_ORDER_STATE, s[1])
         /\ Len(s) = 2 =>
              loadAggregate(s).state =
                foldOrder(foldOrder(INITIAL_ORDER_STATE, s[1]), s[2])
<1>0. Len(s) = 0 \/ Len(s) = 1 \/ Len(s) = 2
  <2>1. Len(s) \in Nat /\ Len(s) <= 2
    OBVIOUS
  <2> QED BY <2>1, UpToTwo
<1> DEFINE body(f) == [n \in 0 .. Len(s) |->
             IF n = 0 THEN INITIAL_ORDER_STATE ELSE foldOrder(f[n - 1], s[n])]
           after == CHOOSE f : f = body(f)
           unrolled == [n \in 0 .. Len(s) |->
             IF n = 0 THEN INITIAL_ORDER_STATE
             ELSE IF n = 1 THEN foldOrder(INITIAL_ORDER_STATE, s[1])
             ELSE foldOrder(foldOrder(INITIAL_ORDER_STATE, s[1]), s[2])]
<1>1. unrolled = body(unrolled)
  <2>1. ASSUME NEW n \in 0 .. Len(s)
        PROVE  unrolled[n] = body(unrolled)[n]
    <3>1. CASE n = 0
      BY <3>1
    <3>2. CASE n = 1
      BY <3>2
    <3>3. CASE n = 2
      BY <3>3
    <3> QED BY <3>1, <3>2, <3>3
  <2> QED BY <2>1
<1>2. after = body(after)
  <2> HIDE DEF body
  <2> QED BY <1>1
<1>3. /\ after[0] = INITIAL_ORDER_STATE
      /\ \A n \in 1 .. Len(s) : after[n] = foldOrder(after[n - 1], s[n])
  <2>1. \A n \in 0 .. Len(s) : after[n] = body(after)[n]
    BY <1>2
  <2> QED BY <2>1
<1>4. loadAggregate(s) = [state |-> after[Len(s)], version |-> Len(s)]
  BY DEF loadAggregate
<1> HIDE DEF after
<1>6. CASE Len(s) = 0
  BY <1>3, <1>4, <1>6
<1>7. CASE Len(s) = 1
  <2>1. after[1] = foldOrder(INITIAL_ORDER_STATE, s[1])
    BY <1>3, <1>7
  <2> QED BY <1>4, <1>7, <2>1
<1>8. CASE Len(s) = 2
  <2>1. /\ after[1] = foldOrder(INITIAL_ORDER_STATE, s[1])
        /\ after[2] = foldOrder(after[1], s[2])
    BY <1>3, <1>8
  <2> QED BY <1>4, <1>8, <2>1
<1> QED BY <1>0, <1>6, <1>7, <1>8

\* The status an order has for each shape its stream can have.
LEMMA LoadedStatus ==
  ASSUME events \in Seq(OrderEvent), OneTerminalEvent
  PROVE  /\ Len(events) <= 2
         /\ loadAggregate(events).version = Len(events)
         /\ Len(events) = 0 => loadAggregate(events).state.status = "NONE"
         /\ Len(events) = 1 => loadAggregate(events).state.status = "PLACED"
         /\ Len(events) = 2 =>
              loadAggregate(events).state.status =
                IF events[2].type = "OrderAccepted" THEN "ACCEPTED" ELSE "CANCELLED"
<1>1. Len(events) = 0 \/ Len(events) = 1 \/ Len(events) = 2
  <2>1. Len(<<>>) = 0 /\ Len(<<OrderPlaced>>) = 1
    OBVIOUS
  <2> QED BY <2>1 DEF OneTerminalEvent
<1>7. Len(events) \in Nat /\ Len(events) <= 2
  <2>1. Len(events) \in Nat
    OBVIOUS
  <2> QED BY <1>1, <2>1, UpToTwo
<1>2. loadAggregate(events).version = Len(events)
  BY <1>7, LoadUnrolled
<1>3. foldOrder(INITIAL_ORDER_STATE, OrderPlaced)
        = [status |-> "PLACED", cancelReason |-> "none"]
  BY DEF foldOrder, OrderPlaced
<1>4. ASSUME Len(events) = 0
      PROVE  loadAggregate(events).state.status = "NONE"
  <2>1. loadAggregate(events).state = INITIAL_ORDER_STATE
    BY <1>4, <1>7, LoadUnrolled
  <2> QED BY <2>1 DEF INITIAL_ORDER_STATE
<1>5. ASSUME Len(events) = 1
      PROVE  loadAggregate(events).state.status = "PLACED"
  <2>1. events[1] = OrderPlaced
    BY <1>5 DEF OneTerminalEvent
  <2>2. loadAggregate(events).state = [status |-> "PLACED", cancelReason |-> "none"]
    BY <1>3, <1>5, <1>7, <2>1, LoadUnrolled
  <2> QED BY <2>2
<1>6. ASSUME Len(events) = 2
      PROVE  loadAggregate(events).state.status =
               IF events[2].type = "OrderAccepted" THEN "ACCEPTED" ELSE "CANCELLED"
  <2>1. events[1] = OrderPlaced /\ events[2].type \in {"OrderAccepted", "OrderCancelled"}
    BY <1>6 DEF OneTerminalEvent, IsTerminal
  <2>2. loadAggregate(events).state =
          foldOrder([status |-> "PLACED", cancelReason |-> "none"], events[2])
    BY <1>3, <1>6, <1>7, <2>1, LoadUnrolled
  <2> QED BY <2>1, <2>2 DEF foldOrder
<1> QED BY <1>7, <1>2, <1>4, <1>5, <1>6

-----------------------------------------------------------------------------
(* The invariant.                                                          *)

\* A decision to append pins the version: place decides on an empty stream,
\* accept and cancel on a stream that holds the placement alone.
LEMMA DecisionPinsVersion ==
  ASSUME StoreInv, NEW w \in Writers,
         Decide(w, loadAggregate(events).state)
  PROVE  Len(events) = IF w[1] = "place" THEN 0 ELSE 1
<1>1. /\ Len(events) \in Nat /\ Len(events) <= 2
      /\ Len(events) = 0 => loadAggregate(events).state.status = "NONE"
      /\ Len(events) = 1 => loadAggregate(events).state.status = "PLACED"
      /\ Len(events) = 2 =>
           loadAggregate(events).state.status \in {"ACCEPTED", "CANCELLED"}
  BY LoadedStatus DEF StoreInv, StoreTypeOK
<1>2. w[1] \in {"place", "accept", "cancel"}
  BY DEF Writers, WriterOps
<1>3. loadAggregate(events).state.status =
        IF w[1] = "place" THEN "NONE" ELSE "PLACED"
  BY <1>2 DEF Decide, place, accept, cancel
<1> QED BY <1>1, <1>3, UpToTwo

\* The invariant holds of an empty stream with no writer under way.
LEMMA StoreInitInv == StoreInit => StoreInv
<1> SUFFICES ASSUME StoreInit PROVE StoreInv
  OBVIOUS
<1> QED BY DEF StoreInit, StoreInv, StoreTypeOK, OneTerminalEvent, WriterSteps

\* The events the commands yield are rows of the store.
LEMMA EventTypes ==
  /\ OrderPlaced \in OrderEvent
  /\ OrderAccepted \in OrderEvent
  /\ \A r \in ORDER_CANCEL_REASONS : OrderCancelled(r) \in OrderEvent
BY DEF OrderEvent, OrderPlaced, OrderAccepted, OrderCancelled

\* Append adds at the end and leaves the rest.
LEMMA AppendValues ==
  ASSUME NEW S, NEW s \in Seq(S), NEW e \in S
  PROVE  /\ Append(s, e)[Len(s) + 1] = e
         /\ \A i \in 1 .. Len(s) : Append(s, e)[i] = s[i]
OBVIOUS

\* A stream of one row holds the placement.
LEMMA PlacedAlone ==
  ASSUME events \in Seq(OrderEvent), OneTerminalEvent, Len(events) = 1
  PROVE  events[1] = OrderPlaced
BY DEF OneTerminalEvent

\* An append either finds the version taken, or extends the stream by the
\* event its shape calls for.
LEMMA AppendKeeps ==
  ASSUME StoreInv, NEW w \in Writers, NEW r \in ORDER_CANCEL_REASONS,
         AppendEvent(w, r)
  PROVE  StoreInv' /\ (events' # events => events' = Append(events, EventOf(w, r)))
<1>1. /\ events \in Seq(OrderEvent) /\ Len(events) \in Nat
      /\ writer \in [Writers -> [step : WriterSteps, version : Nat]]
  BY DEF StoreInv, StoreTypeOK
<1>2. /\ writer[w].version = IF w[1] = "place" THEN 0 ELSE 1
      /\ writer[w].version <= Len(events)
      /\ writer[w].version \in Nat
  BY <1>1 DEF AppendEvent, StoreInv
<1>3. writer' \in [Writers -> [step : WriterSteps, version : Nat]]
  BY <1>1 DEF AppendEvent, WriterSteps
<1>4. \A v \in Writers : writer'[v].step = "loaded" =>
        writer[v].step = "loaded" /\ writer'[v] = writer[v]
  BY <1>1 DEF AppendEvent
<1>5. CASE VersionTaken(writer[w].version + 1)
  <2>1. UNCHANGED events
    BY <1>5 DEF AppendEvent
  <2> QED BY <1>1, <1>3, <1>4, <2>1 DEF StoreInv, StoreTypeOK, OneTerminalEvent
<1>6. CASE ~VersionTaken(writer[w].version + 1)
  <2>1. Len(events) = writer[w].version
    <3>1. \A m, n \in Nat : m <= n /\ m + 1 \notin 1 .. n => n = m
      OBVIOUS
    <3>2. writer[w].version + 1 \notin 1 .. Len(events)
      BY <1>6 DEF VersionTaken
    <3> QED BY <1>1, <1>2, <3>1, <3>2
  <2>2. events' = Append(events, EventOf(w, r))
    BY <1>6 DEF AppendEvent
  <2>3. /\ w[1] = "place" => EventOf(w, r) = OrderPlaced
        /\ w[1] = "accept" => EventOf(w, r) = OrderAccepted
        /\ w[1] = "cancel" => EventOf(w, r) = OrderCancelled(r)
        /\ w[1] \in {"place", "accept", "cancel"}
    BY DEF EventOf, Writers, WriterOps
  <2>4. EventOf(w, r) \in OrderEvent
    BY <2>3, EventTypes
  <2>5. events' \in Seq(OrderEvent) /\ Len(events') = Len(events) + 1
    BY <1>1, <2>2, <2>4
  <2>6. OneTerminalEvent'
    <3>1. CASE w[1] = "place"
      <4>1. events = <<>>
        BY <1>1, <1>2, <2>1, <3>1
      <4> QED BY <2>2, <2>3, <3>1, <4>1 DEF OneTerminalEvent
    <3>2. CASE w[1] # "place"
      <4>1. Len(events) = 1
        BY <1>2, <2>1, <3>2
      <4>2. events[1] = OrderPlaced
        BY <1>1, <4>1, PlacedAlone DEF StoreInv
      <4>3. IsTerminal(EventOf(w, r))
        BY <2>3, <3>2 DEF IsTerminal, OrderAccepted, OrderCancelled
      <4>4. events'[1] = OrderPlaced /\ events'[2] = EventOf(w, r)
        <5>1. /\ Append(events, EventOf(w, r))[Len(events) + 1] = EventOf(w, r)
              /\ \A i \in 1 .. Len(events) : Append(events, EventOf(w, r))[i] = events[i]
          BY <1>1, <2>4, AppendValues
        <5>2. 1 \in 1 .. Len(events) /\ Len(events) + 1 = 2
          BY <4>1
        <5> QED BY <2>2, <4>2, <5>1, <5>2
      <4> QED BY <2>5, <4>1, <4>3, <4>4 DEF OneTerminalEvent
    <3> QED BY <3>1, <3>2
  <2>7. \A v \in Writers : writer'[v].step = "loaded" =>
          /\ writer'[v].version = IF v[1] = "place" THEN 0 ELSE 1
          /\ writer'[v].version <= Len(events')
    BY <1>1, <1>4, <2>5 DEF StoreInv
  <2> QED BY <1>3, <2>2, <2>5, <2>6, <2>7 DEF StoreInv, StoreTypeOK
<1> QED BY <1>5, <1>6

\* Every step of every writer preserves the invariant.
LEMMA StoreStep == StoreInv /\ [StoreNext]_storeVars => StoreInv'
<1> SUFFICES ASSUME StoreInv, [StoreNext]_storeVars PROVE StoreInv'
  OBVIOUS
<1>1. /\ events \in Seq(OrderEvent) /\ Len(events) \in Nat
      /\ writer \in [Writers -> [step : WriterSteps, version : Nat]]
  BY DEF StoreInv, StoreTypeOK
<1>2. ASSUME NEW w \in Writers, StartWriter(w)
      PROVE  StoreInv'
  BY <1>1, <1>2 DEF StartWriter, StoreInv, StoreTypeOK, OneTerminalEvent, WriterSteps
<1>3. ASSUME NEW w \in Writers, Load(w)
      PROVE  StoreInv'
  <2>1. loadAggregate(events).version = Len(events)
    BY LoadedStatus DEF StoreInv, StoreTypeOK
  <2>2. /\ UNCHANGED events
        /\ writer' \in [Writers -> [step : WriterSteps, version : Nat]]
    BY <1>1, <1>3, <2>1 DEF Load, WriterSteps
  <2>3. \A v \in Writers : v # w => writer'[v] = writer[v]
    BY <1>1, <1>3 DEF Load
  <2>4. writer'[w].step = "loaded" =>
          writer'[w].version = Len(events) /\ Decide(w, loadAggregate(events).state)
    BY <1>1, <1>3, <2>1 DEF Load
  <2>5. writer'[w].step = "loaded" =>
          writer'[w].version = Len(events)
            /\ Len(events) = IF w[1] = "place" THEN 0 ELSE 1
    BY <2>4, DecisionPinsVersion
  <2>6. \A v \in Writers : writer'[v].step = "loaded" =>
          /\ writer'[v].version = IF v[1] = "place" THEN 0 ELSE 1
          /\ writer'[v].version <= Len(events)
    <3>1. Len(events) <= Len(events)
      BY <1>1
    <3> QED BY <2>3, <2>5, <3>1 DEF StoreInv
  <2>7. StoreTypeOK' /\ OneTerminalEvent'
    BY <2>2 DEF StoreInv, StoreTypeOK, OneTerminalEvent
  <2> QED BY <2>2, <2>6, <2>7 DEF StoreInv
<1>4. ASSUME NEW w \in Writers, NEW r \in ORDER_CANCEL_REASONS, AppendEvent(w, r)
      PROVE  StoreInv'
  BY <1>4, AppendKeeps
<1>5. CASE UNCHANGED storeVars
  BY <1>5 DEF storeVars, StoreInv, StoreTypeOK, OneTerminalEvent
<1> QED BY <1>2, <1>3, <1>4, <1>5 DEF StoreNext

\* However many place requests, accept attempts and cancel attempts race on an
\* order, its stream is well typed.
THEOREM StoreTyped == StoreSpec => []StoreTypeOK
<1>1. StoreInv => StoreTypeOK
  BY DEF StoreInv
<1> QED BY <1>1, StoreInitInv, StoreStep, PTL DEF StoreSpec

\* However many of them race, the order is settled at most once: the version
\* constraint and the PLACED guard together admit one terminal event.
THEOREM SettledOnce == StoreSpec => []OneTerminalEvent
<1>1. StoreInv => OneTerminalEvent
  BY DEF StoreInv
<1> QED BY <1>1, StoreInitInv, StoreStep, PTL DEF StoreSpec

\* No step rewrites or removes a row of the stream.
THEOREM StreamGrows == StoreSpec => AppendOnly
<1>1. ASSUME StoreInv, [StoreNext]_storeVars
      PROVE  [\E e \in OrderEvent : events' = Append(events, e)]_events
  <2>1. ASSUME NEW w \in Writers, NEW r \in ORDER_CANCEL_REASONS, AppendEvent(w, r),
               events' # events
        PROVE  \E e \in OrderEvent : events' = Append(events, e)
    <3>1. events' = Append(events, EventOf(w, r))
      BY <1>1, <2>1, AppendKeeps
    <3>2. EventOf(w, r) \in OrderEvent
      BY EventTypes DEF EventOf, Writers, WriterOps
    <3> QED BY <3>1, <3>2
  <2> QED BY <1>1, <2>1 DEF StoreNext, StartWriter, Load, storeVars
<1> QED BY <1>1, StoreInitInv, StoreStep, PTL DEF StoreSpec, AppendOnly

\* Versions have no gaps: whoever is about to append takes the next version
\* or is refused, so the row number is the version.
THEOREM NoGaps == StoreSpec => []VersionsAreTaken
<1>1. StoreInv => VersionsAreTaken
  <2>1. \A m, n \in Nat : m <= n => m = n \/ m + 1 \in 1 .. n
    OBVIOUS
  <2>2. ASSUME StoreInv, NEW w \in Writers, writer[w].step = "loaded"
        PROVE  writer[w].version = Len(events) \/ VersionTaken(writer[w].version + 1)
    <3>1. /\ writer[w].version \in Nat /\ Len(events) \in Nat
          /\ writer[w].version <= Len(events)
      BY <2>2 DEF StoreInv, StoreTypeOK
    <3> QED BY <2>1, <3>1 DEF VersionTaken
  <2> QED BY <2>2 DEF VersionsAreTaken
<1> QED BY <1>1, StoreInitInv, StoreStep, PTL DEF StoreSpec
-----------------------------------------------------------------------------
(* What the answer of a recording activity says about the stream.          *)

\* The same lengths, told apart by the bounds the steps below derive.
LEMMA SmallLengths ==
  \A n \in Nat : n <= 2 =>
    /\ n > 0 /\ n # 1 => n = 2
    /\ 2 \in 1 .. n => n = 2
    /\ 1 <= n => n = 1 \/ n = 2
OBVIOUS

\* Append makes a sequence one longer.
LEMMA AppendLength ==
  ASSUME NEW S, NEW s \in Seq(S), NEW e \in S
  PROVE  Len(Append(s, e)) = Len(s) + 1
OBVIOUS

\* A stream of two rows is final.
LEMMA TwoRowsStay ==
  ASSUME StoreInv, NEW w \in Writers, NEW r \in ORDER_CANCEL_REASONS,
         AppendEvent(w, r), Len(events) = 2
  PROVE  UNCHANGED events
<1>1. StoreInv' /\ (events' # events => events' = Append(events, EventOf(w, r)))
  BY AppendKeeps
<1>2. Len(events') # 3
  <2>1. /\ Len(<<>>) = 0 /\ Len(<<OrderPlaced>>) = 1
        /\ \A n \in {0, 1, 2} : n # 3
    OBVIOUS
  <2> QED BY <1>1, <2>1 DEF StoreInv, OneTerminalEvent
<1>3. EventOf(w, r) \in OrderEvent
  BY EventTypes DEF EventOf, Writers, WriterOps
<1>4. Len(Append(events, EventOf(w, r))) = 3
  <2>1. events \in Seq(OrderEvent)
    BY DEF StoreInv, StoreTypeOK
  <2>2. Len(Append(events, EventOf(w, r))) = Len(events) + 1
    BY <1>3, <2>1, AppendLength, Zenon
  <2> QED BY <2>2
<1> QED BY <1>1, <1>2, <1>4

\* Nothing is recorded and nothing has conflicted before the first step.
LEMMA SettledInit == StoreInit => RecordedMeansSettled /\ ConflictMeansBeaten
BY DEF StoreInit, RecordedMeansSettled, ConflictMeansBeaten

\* A normal return and a conflict of a recording activity both witness the
\* terminal event: it was there when the writer loaded, it beat the writer to
\* the version, or the writer appended it.
LEMMA SettledStep ==
  ASSUME StoreInv, RecordedMeansSettled, ConflictMeansBeaten,
         [StoreNext]_storeVars
  PROVE  RecordedMeansSettled' /\ ConflictMeansBeaten'
<1> DEFINE Settled(v) == \/ writer[v].step = "done" /\ v[1] # "place"
                                                    /\ writer[v].version > 0
                         \/ writer[v].step = "conflict"
<1>1. \A v \in Writers : Settled(v) => Len(events) = 2
  BY DEF RecordedMeansSettled, ConflictMeansBeaten
<1>2. SUFFICES \A v \in Writers : Settled(v)' => Len(events') = 2
  BY DEF RecordedMeansSettled, ConflictMeansBeaten
<1>3. /\ events \in Seq(OrderEvent) /\ Len(events) \in Nat
      /\ writer \in [Writers -> [step : WriterSteps, version : Nat]]
  BY DEF StoreInv, StoreTypeOK
<1>4. ASSUME NEW w \in Writers, StartWriter(w)
      PROVE  \A v \in Writers : Settled(v)' => Len(events') = 2
  BY <1>1, <1>3, <1>4 DEF StartWriter
<1>5. ASSUME NEW w \in Writers, Load(w)
      PROVE  \A v \in Writers : Settled(v)' => Len(events') = 2
  <2>1. /\ loadAggregate(events).version = Len(events) /\ Len(events) <= 2
        /\ Len(events) = 1 => loadAggregate(events).state.status = "PLACED"
    BY LoadedStatus DEF StoreInv, StoreTypeOK
  <2>2. /\ UNCHANGED events
        /\ \A v \in Writers : v # w => writer'[v] = writer[v]
        /\ writer'[w].version = Len(events)
        /\ writer'[w].step =
             IF Decide(w, loadAggregate(events).state) THEN "loaded" ELSE "done"
    BY <1>3, <1>5, <2>1 DEF Load
  <2>3. Len(events) = 1 /\ w[1] # "place" => Decide(w, loadAggregate(events).state)
    BY <2>1 DEF Decide, accept, cancel, Writers, WriterOps
  <2>4. Settled(w)' => Len(events) = 2
    <3>1. Settled(w)' => w[1] # "place" /\ Len(events) > 0 /\ Len(events) # 1
      BY <2>2, <2>3
    <3>2. Len(events) > 0 /\ Len(events) # 1 => Len(events) = 2
      BY <1>3, <2>1, SmallLengths
    <3> QED BY <3>1, <3>2
  <2> QED BY <1>1, <2>2, <2>4
<1>6. ASSUME NEW w \in Writers, NEW r \in ORDER_CANCEL_REASONS, AppendEvent(w, r)
      PROVE  \A v \in Writers : Settled(v)' => Len(events') = 2
  <2>1. /\ \A v \in Writers : v # w => writer'[v] = writer[v]
        /\ writer[w].step = "loaded"
        /\ writer[w].version = IF w[1] = "place" THEN 0 ELSE 1
    BY <1>3, <1>6 DEF AppendEvent, StoreInv
  <2>2. Len(events) = 2 => Len(events') = 2
    BY <1>6, TwoRowsStay
  <2>3. Settled(w)' => Len(events') = 2
    <3>1. CASE VersionTaken(writer[w].version + 1)
      <4>1. UNCHANGED events /\ (Settled(w)' => w[1] # "place")
        BY <1>3, <1>6, <3>1 DEF AppendEvent
      <4>2. w[1] # "place" => 2 \in 1 .. Len(events)
        BY <2>1, <3>1 DEF VersionTaken
      <4>3. Len(events) <= 2
        BY LoadedStatus DEF StoreInv, StoreTypeOK
      <4>4. w[1] # "place" => Len(events) = 2
        BY <1>3, <4>2, <4>3, SmallLengths
      <4> QED BY <4>1, <4>4
    <3>2. CASE ~VersionTaken(writer[w].version + 1)
      <4>1. events' = Append(events, EventOf(w, r))
        BY <3>2, <1>6 DEF AppendEvent
      <4>2. EventOf(w, r) \in OrderEvent
        BY EventTypes DEF EventOf, Writers, WriterOps
      <4>3. writer'[w].version = writer[w].version /\ writer'[w].step = "done"
        BY <1>3, <1>6, <3>2 DEF AppendEvent
      <4>4. Settled(w)' => writer[w].version = 1 /\ w[1] # "place"
        BY <2>1, <4>3
      <4>5. writer[w].version <= Len(events)
        BY <1>6 DEF AppendEvent, StoreInv
      <4>6. Len(events') = Len(events) + 1 /\ Len(events) <= 2
        BY <1>3, <4>1, <4>2, LoadedStatus DEF StoreInv, StoreTypeOK
      <4>7. Settled(w)' => Len(events) = 1 \/ Len(events) = 2
        <5>1. 1 <= Len(events) => Len(events) = 1 \/ Len(events) = 2
          BY <1>3, <4>6, SmallLengths
        <5> QED BY <4>4, <4>5, <5>1
      <4>8. Len(events) = 1 => Len(events') = 2
        BY <4>6
      <4> QED BY <2>2, <4>7, <4>8
    <3> QED BY <3>1, <3>2
  <2> QED BY <1>1, <2>1, <2>2, <2>3
<1>7. CASE UNCHANGED storeVars
  BY <1>1, <1>7 DEF storeVars
<1> QED BY <1>4, <1>5, <1>6, <1>7 DEF StoreNext

\* However many requests and attempts race: one terminal event at most, no
\* recording reported as done on an unsettled order, and no conflict without
\* an event that caused it.
THEOREM StoreIsSafe == StoreSpec => []StoreSafe
<1> DEFINE Inv == StoreInv /\ RecordedMeansSettled /\ ConflictMeansBeaten
<1>1. StoreInit => Inv
  BY StoreInitInv, SettledInit
<1>2. Inv /\ [StoreNext]_storeVars => Inv'
  BY StoreStep, SettledStep
<1>3. Inv => StoreSafe
  BY DEF StoreInv, StoreSafe
<1> QED BY <1>1, <1>2, <1>3, PTL DEF StoreSpec

-----------------------------------------------------------------------------
(* The payments service.                                                   *)

\* A capture or void about to write has read a row with a hold.
WritersSawHold ==
  \A r \in Requests :
    request[r] = "writing" /\ r[1] # "authorize" => payment \in Held

\* The inductive invariant.
PayInv ==
  /\ PaymentsTypeOK
  /\ OneDecision
  /\ ErrorMeansDecided
  /\ WritersSawHold

\* The invariant holds without a row and without requests.
LEMMA PayInitInv == PaymentsInit => PayInv
BY DEF PaymentsInit, PayInv, PaymentsTypeOK, OneDecision, ErrorMeansDecided,
       WritersSawHold, RequestSteps

\* A status that capture or void accepts is a hold, and so is what they write.
LEMMA TransitionsStayHeld ==
  ASSUME NEW op \in {"capture", "void"}
  PROVE  AllowedFrom(op) \subseteq Held /\ TargetOf(op) \in Held
BY DEF AllowedFrom, CaptureFrom, VoidFrom, TargetOf, Held

\* Every step of every request preserves the invariant, and no step moves a
\* payment that was declined.
LEMMA RequestKeeps ==
  ASSUME PayInv, NEW r \in Requests, NEW amount \in Amounts,
         SendRequest(r) \/ HandleRequest(r, amount)
  PROVE  PayInv' /\ (payment = "DECLINED" => payment' = "DECLINED")
<1>1. /\ payment \in PaymentStatus \cup {"NONE"}
      /\ request \in [Requests -> RequestSteps]
  BY DEF PayInv, PaymentsTypeOK
<1>2. r[1] \in {"authorize", "capture", "void"}
  BY DEF Requests, PaymentOps
<1>3. CASE SendRequest(r)
  BY <1>1, <1>3 DEF SendRequest, PayInv, PaymentsTypeOK, OneDecision,
     ErrorMeansDecided, WritersSawHold, RequestSteps
<1>4. CASE AuthorizeRead(r)
  BY <1>1, <1>4 DEF AuthorizeRead, Answer, DecisionOf, PayInv, PaymentsTypeOK,
     OneDecision, ErrorMeansDecided, WritersSawHold, RequestSteps, PaymentStatus, Held
<1>5. CASE AuthorizeCreate(r, amount)
  <2>1. CASE payment = "NONE"
    <3>1. /\ payment' \in {"DECLINED", "AUTHORIZED"}
          /\ request' = [request EXCEPT ![r] = DecisionOf(payment')]
      BY <1>5, <2>1 DEF AuthorizeCreate, Answer, decideAuthorize
    <3>2. \A q \in Requests : request[q] \notin {"authorized", "declined", "error"}
      BY <2>1 DEF PayInv, OneDecision, ErrorMeansDecided, Held
    <3>3. \A q \in Requests : request[q] = "writing" => q[1] = "authorize"
      BY <2>1 DEF PayInv, WritersSawHold, Held
    <3> QED BY <1>1, <2>1, <3>1, <3>2, <3>3 DEF DecisionOf, PayInv, PaymentsTypeOK,
          OneDecision, ErrorMeansDecided, WritersSawHold, RequestSteps,
          PaymentStatus, Held
  <2>2. CASE payment # "NONE"
    <3>1. UNCHANGED payment /\ request' = [request EXCEPT ![r] = "error"]
      BY <1>5, <2>2 DEF AuthorizeCreate, Answer
    <3> QED BY <1>1, <2>2, <3>1 DEF PayInv, PaymentsTypeOK, OneDecision,
          ErrorMeansDecided, WritersSawHold, RequestSteps
  <2> QED BY <2>1, <2>2
<1>6. CASE TransitionRead(r)
  <2>1. /\ UNCHANGED payment
        /\ \E answer \in {"rejected", "done", "writing"} :
             /\ request' = [request EXCEPT ![r] = answer]
             /\ answer = "writing" => payment \in AllowedFrom(r[1])
    BY <1>6 DEF TransitionRead, Answer
  <2>2. AllowedFrom(r[1]) \subseteq Held
    BY <1>6, TransitionsStayHeld DEF TransitionRead
  <2> QED BY <1>1, <2>1, <2>2 DEF PayInv, PaymentsTypeOK, OneDecision,
        ErrorMeansDecided, WritersSawHold, RequestSteps
<1>7. CASE TransitionWrite(r)
  <2>1. /\ payment \in Held /\ payment' \in Held
        /\ request' = [request EXCEPT ![r] = "done"]
    <3>1. r[1] \in {"capture", "void"} /\ request[r] = "writing"
      BY <1>7 DEF TransitionWrite
    <3>2. payment \in Held
      BY <3>1 DEF PayInv, WritersSawHold
    <3>3. payment' \in Held
      BY <1>7, <3>1, TransitionsStayHeld DEF TransitionWrite
    <3> QED BY <1>7, <3>2, <3>3 DEF TransitionWrite, Answer
  <2> QED BY <1>1, <2>1 DEF PayInv, PaymentsTypeOK, OneDecision,
        ErrorMeansDecided, WritersSawHold, RequestSteps, PaymentStatus, Held
<1> QED BY <1>3, <1>4, <1>5, <1>6, <1>7 DEF HandleRequest

\* The invariant is inductive.
LEMMA PayStep == PayInv /\ [PaymentsNext]_payVars => PayInv'
<1> SUFFICES ASSUME PayInv, [PaymentsNext]_payVars PROVE PayInv'
  OBVIOUS
<1>1. CASE UNCHANGED payVars
  BY <1>1 DEF payVars, PayInv, PaymentsTypeOK, OneDecision, ErrorMeansDecided,
     WritersSawHold
<1>2. ASSUME NEW r \in Requests, SendRequest(r)
      PROVE  PayInv'
  BY <1>2 DEF SendRequest, PayInv, PaymentsTypeOK, OneDecision, ErrorMeansDecided,
     WritersSawHold, RequestSteps
<1>3. ASSUME NEW r \in Requests, NEW amount \in Amounts, HandleRequest(r, amount)
      PROVE  PayInv'
  BY <1>3, RequestKeeps
<1> QED BY <1>1, <1>2, <1>3 DEF PaymentsNext

\* The authorization is decided once: every answer ever given to an authorize
\* request agrees with the row for good, however many requests run side by
\* side and whatever they capture or void (payments.service.ts, authorize).
THEOREM DecidedOnce == PaymentsSpec => []OneDecision
<1>1. PayInv => OneDecision
  BY DEF PayInv
<1> QED BY <1>1, PayInitInv, PayStep, PTL DEF PaymentsSpec

\* An authorize request that lost the race to create the row can be retried:
\* the decision is there (payments.service.ts, authorize).
THEOREM LostRaceIsDecided == PaymentsSpec => []ErrorMeansDecided
<1>1. PayInv => ErrorMeansDecided
  BY DEF PayInv
<1> QED BY <1>1, PayInitInv, PayStep, PTL DEF PaymentsSpec

\* Money that was refused is never captured or voided, although the update in
\* transition is conditional on nothing.
THEOREM DeclineIsFinal == PaymentsSpec => RefusedIsFinal
<1>1. PayInv /\ [PaymentsNext]_payVars
        => [payment = "DECLINED" => payment' = "DECLINED"]_payment
  <2>1. ASSUME PayInv, NEW r \in Requests, NEW amount \in Amounts,
               HandleRequest(r, amount), payment = "DECLINED"
        PROVE  payment' = "DECLINED"
    BY <2>1, RequestKeeps
  <2> QED BY <2>1 DEF PaymentsNext, SendRequest, payVars
<1> QED BY <1>1, PayInitInv, PayStep, PTL DEF PaymentsSpec, RefusedIsFinal

\* Racing authorize requests share one verdict, and the one that lost finds
\* it at its retry (payments.service.ts, authorize).
THEOREM VerdictIsShared == PaymentsSpec => []OneVerdict
<1>1. PayInv => OneVerdict
  BY DEF PayInv, OneVerdict
<1> QED BY <1>1, PayInitInv, PayStep, PTL DEF PaymentsSpec
=============================================================================
