-------------------------- MODULE OrderViewsProofs --------------------------
(***************************************************************************)
(* Proofs about the tracking page and the board (OrderViews), for any      *)
(* number of list requests, failures, restarts and polls.                  *)
(*                                                                         *)
(* SourceInv and GetInv: nothing that is read or cached is ahead of the    *)
(* documents, which are not ahead of the order.  PageInv: a page that shows*)
(* an order as settled saw the documents that say so.  RestInv: what a     *)
(* board that was opened when all was at rest is told last is how the      *)
(* order ended, also of events that are read again.                        *)
(***************************************************************************)
EXTENDS OrderViews, SequenceTheorems, TLAPS

-----------------------------------------------------------------------------
(* The order, its documents and the cache.                                 *)

SourceInv ==
  /\ stream \in Seq(Statuses) /\ Len(stream) <= 2
  /\ Len(stream) >= 1 => stream[1] = "PLACED"
  /\ Len(stream) = 2 => stream[2] \in {"ACCEPTED", "CANCELLED"}
  /\ doc \in 0 .. Len(stream) /\ fed \in 0 .. Len(stream)
  /\ delivered \in BOOLEAN /\ deliveredDoc \in BOOLEAN
  /\ delivered => Settled /\ Final = "ACCEPTED"
  /\ deliveredDoc => delivered

GetInv ==
  /\ cache \in 0 .. doc
  /\ get \in [Readers -> [step : GetSteps, view : Nat]]
  /\ \A r \in Readers : get[r].view <= doc

\* The order only goes forward, and so do the documents.
Forward ==
  /\ Len(stream) <= Len(stream') /\ doc <= doc'
  /\ Settled => stream' = stream
  /\ delivered => delivered'

LEMMA StreamSame == SourceInv /\ UNCHANGED modelVars => SourceInv' /\ Forward
BY DEF SourceInv, Forward, modelVars, Settled, Final

LEMMA RecordKeeps == SourceInv /\ Record => SourceInv' /\ Forward /\ doc' = doc
<1> SUFFICES ASSUME SourceInv, Record PROVE SourceInv' /\ Forward /\ doc' = doc
  OBVIOUS
<1>0. stream \in Seq(Statuses) /\ Len(stream) \in Nat /\ Len(stream) <= 2
  BY DEF SourceInv
<1>1. CASE /\ stream = <<>> /\ stream' = <<"PLACED">>
           /\ UNCHANGED <<delivered, doc, deliveredDoc, fed>>
  <2>1. Len(stream) = 0 /\ Len(stream') = 1 /\ stream'[1] = "PLACED"
        /\ stream' \in Seq(Statuses)
    BY <1>1 DEF Statuses
  <2> QED BY <1>1, <2>1 DEF SourceInv, Forward, Settled
<1>2. CASE /\ Len(stream) = 1
           /\ \E s \in {"ACCEPTED", "CANCELLED"} : stream' = Append(stream, s)
           /\ UNCHANGED <<delivered, doc, deliveredDoc, fed>>
  <2>1. PICK s \in {"ACCEPTED", "CANCELLED"} : stream' = Append(stream, s)
    BY <1>2
  <2>2. s \in Statuses
    BY DEF Statuses
  <2>3. Len(stream') = 2 /\ stream'[1] = stream[1] /\ stream'[2] = s
        /\ stream' \in Seq(Statuses)
    <3>1. /\ Append(stream, s) \in Seq(Statuses) /\ Len(Append(stream, s)) = Len(stream) + 1
          /\ Append(stream, s)[Len(stream) + 1] = s
          /\ \A i \in 1 .. Len(stream) : Append(stream, s)[i] = stream[i]
      BY <1>0, <2>2
    <3>2. 1 \in 1 .. Len(stream) /\ Len(stream) + 1 = 2
      BY <1>2
    <3> QED BY <2>1, <3>1, <3>2
  <2> QED BY <1>2, <2>3 DEF SourceInv, Forward, Settled
<1>3. CASE Settled /\ Final = "ACCEPTED" /\ delivered' = TRUE
           /\ UNCHANGED <<stream, doc, deliveredDoc, fed>>
  BY <1>0, <1>3 DEF SourceInv, Forward, Settled, Final
<1> QED BY <1>1, <1>2, <1>3 DEF Record

LEMMA ProjectKeeps == SourceInv /\ Project => SourceInv' /\ Forward
<1> SUFFICES ASSUME SourceInv, Project PROVE SourceInv' /\ Forward
  OBVIOUS
<1>1. Len(stream) \in Nat /\ doc \in Nat
  BY DEF SourceInv
<1> QED BY <1>1 DEF Project, SourceInv, Forward, Settled, Final

\* A request of the read API goes on.
LEMMA GetKeeps ==
  ASSUME GetInv, NEW r \in Readers, NEW s \in GetSteps, NEW v \in 0 .. doc,
         GoTo(r, s, v), doc' = doc, doc \in Nat, cache' \in 0 .. doc
  PROVE  /\ GetInv' /\ get'[r] = [step |-> s, view |-> v]
         /\ \A q \in Readers : q # r => get'[q] = get[q]
<1>1. v \in Nat /\ v <= doc
  OBVIOUS
<1>2. get' = [get EXCEPT ![r] = [step |-> s, view |-> v]]
  BY DEF GoTo
<1>3. get'[r] = [step |-> s, view |-> v] /\ \A q \in Readers : q # r => get'[q] = get[q]
  BY <1>2 DEF GetInv
<1>4. get' \in [Readers -> [step : GetSteps, view : Nat]]
  BY <1>1, <1>2 DEF GetInv
<1>5. \A q \in Readers : get'[q].view <= doc
  BY <1>1, <1>3 DEF GetInv
<1> QED BY <1>3, <1>4, <1>5 DEF GetInv

LEMMA ServedKeeps ==
  ASSUME SourceInv, GetInv, NEW r \in Readers, GetOrder(r) \/ Fail(r)
  PROVE  /\ GetInv' /\ UNCHANGED modelVars /\ get[r].step # "idle"
         /\ \A q \in Readers : q # r => get'[q] = get[q]
<1>0. doc \in Nat /\ cache \in 0 .. doc /\ 0 \in 0 .. doc /\ get[r].view \in 0 .. doc
  BY DEF SourceInv, GetInv
<1>1. CASE LookUp(r)
  <2>1. /\ UNCHANGED <<modelVars, cache>> /\ get[r].step = "asked"
        /\ GoTo(r, "answered", cache) \/ GoTo(r, "missed", 0)
    BY <1>1 DEF LookUp, At
  <2> QED BY <1>0, <2>1, GetKeeps DEF modelVars, GetSteps
<1>2. CASE FindOne(r)
  <2>1. /\ UNCHANGED <<modelVars, cache>> /\ get[r].step = "missed"
        /\ GoTo(r, "answered", 0) \/ GoTo(r, "read", doc)
    BY <1>2 DEF FindOne, At
  <2>2. doc \in 0 .. doc
    BY <1>0
  <2> QED BY <1>0, <2>1, <2>2, GetKeeps DEF modelVars, GetSteps
<1>3. CASE FillCache(r)
  <2>1. /\ UNCHANGED modelVars /\ get[r].step = "read" /\ cache' = get[r].view
        /\ GoTo(r, "answered", get[r].view)
    BY <1>3 DEF FillCache, At
  <2> QED BY <1>0, <2>1, GetKeeps DEF modelVars, GetSteps
<1>4. CASE Fail(r)
  <2>1. /\ UNCHANGED <<modelVars, cache>> /\ get[r].step # "idle" /\ GoTo(r, "failed", 0)
    BY <1>4 DEF Fail
  <2> QED BY <1>0, <2>1, GetKeeps DEF modelVars, GetSteps
<1> QED BY <1>1, <1>2, <1>3, <1>4 DEF GetOrder

\* Versions of the stream, by number.
LEMMA ViewIs ==
  ASSUME SourceInv, NEW v \in Nat, v <= doc, v # 0
  PROVE  \/ v = 1 /\ stream[v] = "PLACED"
         \/ v = 2 /\ doc = 2 /\ Settled /\ stream[v] = Final /\ Final \in {"ACCEPTED", "CANCELLED"}
<1> DEFINE n == Len(stream)
<1>1. n \in Nat /\ n <= 2 /\ doc \in Nat /\ doc <= n
  BY DEF SourceInv
<1> HIDE DEF n
<1>2. v = 1 \/ (v = 2 /\ doc = 2 /\ n = 2)
  BY <1>1
<1> USE DEF n
<1> QED BY <1>2 DEF SourceInv, Settled, Final

-----------------------------------------------------------------------------
(* The tracking page.                                                      *)

Trackers == [state : {"polling", "asking", "dispatch", "paused", "done"}, attempts : Nat,
             status : {"none"} \cup Statuses, delivered : BOOLEAN]

PageInv ==
  /\ tracker \in Trackers
  /\ tracker.status \in {"ACCEPTED", "CANCELLED"} =>
       Settled /\ Final = tracker.status /\ doc = 2
  /\ tracker.state = "dispatch" => tracker.status = "ACCEPTED"
  /\ tracker.delivered => delivered
  /\ tracker.state = "done" =>
       tracker.status = "CANCELLED" \/ (tracker.status = "ACCEPTED" /\ tracker.delivered)

\* What the page does at the end of a tick that is not the last.
LEMMA NextTickIs ==
  ASSUME NEW t \in Trackers, NextTick(t)
  PROVE  /\ tracker' \in Trackers /\ tracker'.status = t.status
         /\ tracker'.delivered = t.delivered /\ tracker'.state \in {"polling", "paused"}
<1> DEFINE n == t.attempts + 1
           st == IF n >= MaxAttempts THEN "paused" ELSE "polling"
<1>1. n \in Nat /\ st \in {"polling", "paused"}
  BY DEF Trackers
<1>2. tracker' = [t EXCEPT !.attempts = n, !.state = st]
  BY DEF NextTick
<1> HIDE DEF n, st
<1>3. [t EXCEPT !.attempts = n, !.state = st] \in Trackers
  BY <1>1 DEF Trackers
<1> QED BY <1>1, <1>2, <1>3 DEF Trackers

\* The page keeps what it knows while the order goes on.
LEMMA PageStays ==
  ASSUME SourceInv, PageInv, SourceInv', Forward, tracker' = tracker
  PROVE  PageInv'
<1>1. doc = 2 /\ Settled => doc' = 2
  BY DEF SourceInv, Forward, Settled
<1> QED BY <1>1 DEF PageInv, Forward, Settled, Final

\* The steps by what they do to the page and to the model behind it.
Behind ==
  \/ (Record \/ Project \/ Lapse) /\ UNCHANGED <<trackerVars, boardVars>>
  \/ \E r \in Readers : (GetOrder(r) \/ Fail(r)) /\ UNCHANGED <<trackerVars, boardVars>>
OfPage == Poll \/ OrderAnswered \/ DispatchAnswered \/ DispatchUnanswered \/ CheckAgain
OfBoard == \/ Feed \/ Redeliver \/ Restart \/ Open \/ Disconnect \/ OnEvent \/ RowAnswered \/ Render
           \/ \E l \in Lists : ReadList(l) \/ ListAnswered(l) \/ ListFailed(l)

LEMMA Steps == [Next]_vars => Behind \/ OfPage \/ OfBoard \/ UNCHANGED vars
BY DEF Next, Served, Tracker, Board, Behind, OfPage, OfBoard

LEMMA BehindKeeps ==
  ASSUME SourceInv, GetInv, Behind
  PROVE  /\ SourceInv' /\ GetInv' /\ Forward /\ UNCHANGED <<trackerVars, boardVars>>
         /\ \A r \in Readers : get[r].step = "idle" => get'[r] = get[r]
<1>0. doc \in Nat
  BY DEF SourceInv
<1>1. CASE (Record \/ Project \/ Lapse) /\ UNCHANGED <<trackerVars, boardVars>>
  <2>1. SourceInv' /\ Forward
    BY <1>1, RecordKeeps, ProjectKeeps, StreamSame DEF Lapse
  <2>2. get' = get /\ (cache' = cache \/ cache' = 0)
    BY <1>1 DEF Record, Project, Lapse
  <2>3. doc' \in Nat /\ doc <= doc'
    BY <2>1 DEF SourceInv, Forward
  <2>4. GetInv'
    <3>1. cache' \in 0 .. doc'
      BY <1>0, <2>2, <2>3 DEF GetInv
    <3>2. \A r \in Readers : get[r].view \in Nat /\ get[r].view <= doc'
      BY <1>0, <2>3 DEF GetInv
    <3> QED BY <2>2, <3>1, <3>2 DEF GetInv
  <2> QED BY <1>1, <2>1, <2>2, <2>4
<1>2. CASE \E r \in Readers : (GetOrder(r) \/ Fail(r)) /\ UNCHANGED <<trackerVars, boardVars>>
  <2>1. PICK r \in Readers : (GetOrder(r) \/ Fail(r)) /\ UNCHANGED <<trackerVars, boardVars>>
    BY <1>2
  <2>2. /\ GetInv' /\ UNCHANGED modelVars /\ get[r].step # "idle"
        /\ \A q \in Readers : q # r => get'[q] = get[q]
    BY <2>1, ServedKeeps
  <2> QED BY <2>1, <2>2, StreamSame
<1> QED BY <1>1, <1>2 DEF Behind

LEMMA PageKeeps ==
  ASSUME SourceInv, GetInv, PageInv, OfPage
  PROVE  /\ PageInv' /\ GetInv' /\ UNCHANGED <<modelVars, boardVars>>
         /\ get'["board"] = get["board"]
<1>0. /\ "board" \in Readers /\ "tracker" \in Readers /\ "board" # "tracker"
      /\ doc \in Nat /\ 0 \in 0 .. doc /\ cache \in 0 .. doc
  BY ViewsAssumption DEF SourceInv, GetInv
<1> DEFINE Same == doc' = doc /\ stream' = stream /\ delivered' = delivered
<1>1. CASE Poll
  <2>1. /\ tracker' = [tracker EXCEPT !.state = "asking"] /\ GoTo("tracker", "asked", 0)
        /\ UNCHANGED <<modelVars, cache, boardVars>>
    BY <1>1 DEF Poll
  <2>2. GetInv' /\ get'["board"] = get["board"]
    <3>1. doc' = doc /\ cache' = cache /\ {"asked", "idle"} \subseteq GetSteps
      BY <2>1 DEF modelVars, GetSteps
    <3> QED BY <1>0, <2>1, <3>1, GetKeeps
  <2>3. PageInv'
    BY <2>1 DEF PageInv, Trackers, modelVars, Settled, Final
  <2> QED BY <2>1, <2>2, <2>3
<1>2. CASE OrderAnswered
  <2> DEFINE v == get["tracker"].view
             t == IF v = 0 THEN tracker ELSE [tracker EXCEPT !.status = stream[v]]
  <2>1. /\ GoTo("tracker", "idle", 0) /\ UNCHANGED <<modelVars, cache, boardVars>>
        /\ tracker.state = "asking"
        /\ CASE v = 0 \/ t.status = "PLACED" -> NextTick(t)
             [] v # 0 /\ t.status = "ACCEPTED" -> tracker' = [t EXCEPT !.state = "dispatch"]
             [] v # 0 /\ t.status = "CANCELLED" -> tracker' = [t EXCEPT !.state = "done"]
    BY <1>2 DEF OrderAnswered, Answered
  <2>2. GetInv' /\ get'["board"] = get["board"]
    <3>1. doc' = doc /\ cache' = cache /\ {"asked", "idle"} \subseteq GetSteps
      BY <2>1 DEF modelVars, GetSteps
    <3> QED BY <1>0, <2>1, <3>1, GetKeeps
  <2>3. v \in Nat /\ v <= doc
    BY <1>0 DEF GetInv
  <2>4. UNCHANGED <<stream, doc, delivered>>
    BY <2>1 DEF modelVars
  <2> HIDE DEF v
  <2>5. CASE v = 0
    <3>1. t = tracker /\ tracker \in Trackers
      BY <2>5 DEF PageInv
    <3> HIDE DEF t
    <3>2. NextTick(tracker)
      BY <2>1, <2>5, <3>1
    <3>3. /\ tracker' \in Trackers /\ tracker'.status = tracker.status
          /\ tracker'.delivered = tracker.delivered /\ tracker'.state \in {"polling", "paused"}
      BY <3>1, <3>2, NextTickIs
    <3>4. PageInv'
      BY <2>4, <3>3 DEF PageInv, Settled, Final
    <3> QED BY <2>1, <2>2, <3>4
  <2>6. CASE v # 0
    <3>1. \/ v = 1 /\ stream[v] = "PLACED"
          \/ doc = 2 /\ Settled /\ stream[v] = Final /\ Final \in {"ACCEPTED", "CANCELLED"}
      BY <2>3, <2>6, ViewIs
    <3>2. stream[v] \in Statuses
      BY <3>1 DEF Statuses
    <3>3. /\ t \in Trackers /\ t.status = stream[v] /\ t.delivered = tracker.delivered
          /\ t.state = "asking"
      BY <2>1, <2>6, <3>2 DEF PageInv, Trackers
    <3> HIDE DEF t
    <3>4. CASE t.status = "PLACED"
      <4>1. NextTick(t)
        BY <2>1, <3>4
      <4>2. /\ tracker' \in Trackers /\ tracker'.status = "PLACED"
            /\ tracker'.delivered = tracker.delivered /\ tracker'.state \in {"polling", "paused"}
        BY <3>3, <3>4, <4>1, NextTickIs
      <4>3. PageInv'
        BY <2>4, <4>2 DEF PageInv
      <4> QED BY <2>1, <2>2, <4>3
    <3>5. CASE t.status = "ACCEPTED"
      <4>1. tracker' = [t EXCEPT !.state = "dispatch"]
        BY <2>1, <2>6, <3>5
      <4>2. /\ tracker' \in Trackers /\ tracker'.status = "ACCEPTED"
            /\ tracker'.delivered = tracker.delivered /\ tracker'.state = "dispatch"
        BY <3>3, <3>5, <4>1 DEF Trackers
      <4>3. doc = 2 /\ Settled /\ Final = "ACCEPTED"
        BY <3>1, <3>3, <3>5
      <4>4. PageInv'
        BY <2>4, <4>2, <4>3 DEF PageInv, Settled, Final
      <4> QED BY <2>1, <2>2, <4>4
    <3>6. CASE t.status = "CANCELLED"
      <4>1. tracker' = [t EXCEPT !.state = "done"]
        BY <2>1, <2>6, <3>6
      <4>2. /\ tracker' \in Trackers /\ tracker'.status = "CANCELLED"
            /\ tracker'.delivered = tracker.delivered /\ tracker'.state = "done"
        BY <3>3, <3>6, <4>1 DEF Trackers
      <4>3. doc = 2 /\ Settled /\ Final = "CANCELLED"
        BY <3>1, <3>3, <3>6
      <4>4. PageInv'
        BY <2>4, <4>2, <4>3 DEF PageInv, Settled, Final
      <4> QED BY <2>1, <2>2, <4>4
    <3> QED BY <3>2, <3>3, <3>4, <3>5, <3>6 DEF Statuses
  <2> QED BY <2>5, <2>6
<1>3. CASE DispatchAnswered
  <2> DEFINE t == [tracker EXCEPT !.delivered = deliveredDoc]
  <2>1. /\ UNCHANGED <<cacheVars, boardVars>> /\ tracker.state = "dispatch"
        /\ IF deliveredDoc THEN tracker' = [t EXCEPT !.state = "done"] ELSE NextTick(t)
    BY <1>3 DEF DispatchAnswered
  <2>2. UNCHANGED <<modelVars, cache, get, stream, doc, delivered>>
    BY <2>1 DEF cacheVars, modelVars
  <2>3. GetInv'
    BY <2>2 DEF GetInv
  <2>4. tracker.status = "ACCEPTED" /\ Settled /\ Final = "ACCEPTED" /\ doc = 2
    BY <2>1 DEF PageInv
  <2>5. CASE deliveredDoc
    <3>1. /\ tracker' \in Trackers /\ tracker'.status = "ACCEPTED"
          /\ tracker'.delivered = TRUE /\ tracker'.state = "done"
      BY <2>1, <2>4, <2>5 DEF PageInv, Trackers
    <3>2. delivered
      BY <2>5 DEF SourceInv
    <3>3. PageInv'
      BY <2>2, <2>4, <3>1, <3>2 DEF PageInv, Settled, Final
    <3> QED BY <2>1, <2>2, <2>3, <3>3
  <2>6. CASE ~deliveredDoc
    <3>1. NextTick(t)
      BY <2>1, <2>6
    <3>2. t = [tracker EXCEPT !.delivered = FALSE]
      <4>1. deliveredDoc = FALSE
        BY <2>6 DEF SourceInv
      <4> QED BY <4>1
    <3>3. t \in Trackers /\ t.status = "ACCEPTED" /\ t.delivered = FALSE
      BY <2>4, <3>2 DEF PageInv, Trackers
    <3> HIDE DEF t
    <3>4. /\ tracker' \in Trackers /\ tracker'.status = "ACCEPTED"
          /\ tracker'.delivered = FALSE /\ tracker'.state \in {"polling", "paused"}
      BY <3>1, <3>3, NextTickIs
    <3>5. PageInv'
      BY <2>2, <2>4, <3>4 DEF PageInv, Settled, Final
    <3> QED BY <2>1, <2>2, <2>3, <3>5
  <2> QED BY <2>5, <2>6
<1>4. CASE DispatchUnanswered
  <2>1. /\ UNCHANGED <<modelVars, cache, get, boardVars>> /\ tracker.state = "dispatch"
        /\ NextTick(tracker) /\ tracker \in Trackers
    BY <1>4 DEF DispatchUnanswered, PageInv
  <2>2. /\ tracker' \in Trackers /\ tracker'.status = tracker.status
        /\ tracker'.delivered = tracker.delivered /\ tracker'.state \in {"polling", "paused"}
    BY <2>1, NextTickIs
  <2>3. PageInv'
    BY <2>1, <2>2 DEF PageInv, Settled, Final, modelVars
  <2> QED BY <2>1, <2>3 DEF GetInv, modelVars
<1>5. CASE CheckAgain
  <2>1. /\ tracker' = [tracker EXCEPT !.state = "polling", !.attempts = 0]
        /\ UNCHANGED <<cacheVars, boardVars>>
    BY <1>5 DEF CheckAgain
  <2>2. PageInv'
    BY <2>1 DEF PageInv, Trackers, cacheVars, modelVars, Settled, Final
  <2> QED BY <2>1, <2>2 DEF GetInv, cacheVars, modelVars
<1> QED BY <1>1, <1>2, <1>3, <1>4, <1>5 DEF OfPage

LEMMA BoardKeepsPage ==
  ASSUME SourceInv, GetInv, PageInv, OfBoard
  PROVE  SourceInv' /\ GetInv' /\ PageInv' /\ Forward /\ doc' = doc /\ stream' = stream
<1>0. /\ "board" \in Readers /\ doc \in Nat /\ 0 \in 0 .. doc /\ cache \in 0 .. doc
      /\ Len(stream) \in Nat /\ fed \in 0 .. Len(stream)
  BY ViewsAssumption DEF SourceInv, GetInv
<1>1. ASSUME UNCHANGED <<stream, delivered, doc, deliveredDoc, tracker>>,
             fed' \in 0 .. Len(stream), GetInv'
      PROVE  SourceInv' /\ GetInv' /\ PageInv' /\ Forward /\ doc' = doc /\ stream' = stream
  BY <1>0, <1>1 DEF SourceInv, PageInv, Forward, Settled, Final
<1>2. CASE Open \/ Render \/ \E l \in Lists : ReadList(l) \/ ListAnswered(l)
  <2>1. UNCHANGED <<stream, delivered, doc, deliveredDoc, fed, cache, get, tracker>>
    BY <1>2 DEF Open, Render, ReadList, ListAnswered, cacheVars, modelVars, trackerVars
  <2> QED BY <1>0, <1>1, <2>1 DEF GetInv
<1>3. CASE Disconnect \/ \E l \in Lists : ListFailed(l)
  <2>1. UNCHANGED <<stream, delivered, doc, deliveredDoc, fed, cache, get, tracker>>
    BY <1>3 DEF Disconnect, ListFailed, modelVars, trackerVars
  <2> QED BY <1>0, <1>1, <2>1 DEF GetInv
<1>4. CASE Feed
  <2>1. /\ UNCHANGED <<stream, delivered, doc, deliveredDoc, cache, get, tracker>>
        /\ fed < Len(stream) /\ fed' = fed + 1
    BY <1>4 DEF Feed, trackerVars
  <2> QED BY <1>0, <1>1, <2>1 DEF GetInv
<1>4a. CASE Redeliver
  <2>1. /\ UNCHANGED <<stream, delivered, doc, deliveredDoc, cache, get, tracker>>
        /\ fed' \in 0 .. fed - 1
    BY <1>4a DEF Redeliver, trackerVars
  <2>2. fed' \in 0 .. Len(stream)
    BY <1>0, <2>1
  <2> QED BY <1>0, <1>1, <2>1, <2>2 DEF GetInv
<1>5. CASE Restart
  <2>1. /\ UNCHANGED <<stream, delivered, doc, deliveredDoc, cache, tracker>>
        /\ fed' = Len(stream)
        /\ get' = [r \in Readers |-> IF get[r].step \in {"asked", "missed", "read"}
                                       THEN [step |-> "failed", view |-> 0] ELSE get[r]]
    BY <1>5 DEF Restart, trackerVars
  <2>2. \A r \in Readers : get'[r] = [step |-> "failed", view |-> 0] \/ get'[r] = get[r]
    BY <2>1
  <2>3. \A r \in Readers : get'[r] \in [step : GetSteps, view : Nat] /\ get'[r].view <= doc
    BY <1>0, <2>2 DEF GetInv, GetSteps
  <2>4. get' = [r \in Readers |-> get'[r]]
    BY <2>1
  <2>5. get' \in [Readers -> [step : GetSteps, view : Nat]]
    BY <2>3, <2>4
  <2>6. GetInv'
    BY <2>1, <2>3, <2>5 DEF GetInv
  <2>7. fed' \in 0 .. Len(stream)
    BY <1>0, <2>1
  <2> QED BY <1>1, <2>1, <2>6, <2>7
<1>6. CASE OnEvent
  <2>1. /\ UNCHANGED <<modelVars, cache, trackerVars>>
        /\ UNCHANGED get \/ GoTo("board", "asked", 0)
    BY <1>6 DEF OnEvent, Handle
  <2>2. GetInv'
    <3>1. CASE UNCHANGED get
      BY <2>1, <3>1 DEF GetInv, modelVars
    <3>2. CASE GoTo("board", "asked", 0)
      BY <1>0, <2>1, <3>2, GetKeeps DEF GetSteps, modelVars
    <3> QED BY <2>1, <3>1, <3>2
  <2> QED BY <1>0, <1>1, <2>1, <2>2 DEF modelVars, trackerVars
<1>7. CASE RowAnswered
  <2>1. /\ UNCHANGED <<modelVars, cache, trackerVars>>
        /\ GoTo("board", "asked", 0) \/ GoTo("board", "idle", 0)
    BY <1>7 DEF RowAnswered
  <2>2. GetInv'
    BY <1>0, <2>1, GetKeeps DEF GetSteps, modelVars
  <2> QED BY <1>0, <1>1, <2>1, <2>2 DEF modelVars, trackerVars
<1> QED BY <1>2, <1>3, <1>4, <1>4a, <1>5, <1>6, <1>7 DEF OfBoard

LEMMA PageStep ==
  SourceInv /\ GetInv /\ PageInv /\ [Next]_vars =>
    SourceInv' /\ GetInv' /\ PageInv' /\ Forward
<1> SUFFICES ASSUME SourceInv, GetInv, PageInv, [Next]_vars
             PROVE  SourceInv' /\ GetInv' /\ PageInv' /\ Forward
  OBVIOUS
<1>1. CASE Behind
  <2>1. /\ SourceInv' /\ GetInv' /\ Forward /\ tracker' = tracker
    BY <1>1, BehindKeeps DEF trackerVars
  <2> QED BY <2>1, PageStays
<1>2. CASE OfPage
  BY <1>2, PageKeeps, StreamSame
<1>3. CASE OfBoard
  BY <1>3, BoardKeepsPage
<1>4. CASE UNCHANGED vars
  <2>1. UNCHANGED <<modelVars, cache, get, tracker>>
    BY <1>4 DEF vars, cacheVars, trackerVars
  <2>2. SourceInv' /\ Forward
    BY <2>1, StreamSame
  <2> QED BY <2>1, <2>2, PageStays DEF GetInv, modelVars
<1> QED BY <1>1, <1>2, <1>3, <1>4, Steps

LEMMA PageStart == Init => SourceInv /\ GetInv /\ PageInv
<1> SUFFICES ASSUME Init PROVE SourceInv /\ GetInv /\ PageInv
  OBVIOUS
<1>1. /\ stream = <<>> /\ delivered = FALSE /\ doc = 0 /\ deliveredDoc = FALSE /\ fed = 0
      /\ cache = 0 /\ get = [r \in Readers |-> [step |-> "idle", view |-> 0]]
  BY DEF Init, CacheInit
<1>2. tracker = [state |-> "polling", attempts |-> 0, status |-> "none", delivered |-> FALSE]
  BY DEF Init
<1>3. SourceInv
  <2>1. Len(stream) = 0 /\ stream \in Seq(Statuses)
    BY <1>1
  <2>2. /\ Len(stream) <= 2 /\ ~(Len(stream) >= 1) /\ Len(stream) # 2
        /\ doc \in 0 .. Len(stream) /\ fed \in 0 .. Len(stream)
    BY <1>1, <2>1
  <2> QED BY <1>1, <2>1, <2>2, Zenon DEF SourceInv
<1>4. GetInv
  BY <1>1 DEF GetInv, GetSteps
<1>5. PageInv
  BY <1>2 DEF PageInv, Trackers
<1> QED BY <1>3, <1>4, <1>5

LEMMA PageAlways == Spec => [](SourceInv /\ GetInv /\ PageInv)
<1>1. SourceInv /\ GetInv /\ PageInv /\ [Next]_vars => (SourceInv /\ GetInv /\ PageInv)'
  BY PageStep
<1> QED BY <1>1, PageStart, PTL DEF Spec

\* The tracking page stops for good only when nothing can change any more: the order
\* is cancelled, or its delivery is over (page.tsx, tick), and the documents say so.
THEOREM TrackingStopsAtTheEnd == Spec => []StopsAtTheEnd
<1>1. SourceInv /\ PageInv => StopsAtTheEnd
  BY DEF SourceInv, PageInv, StopsAtTheEnd
<1> QED BY <1>1, PageAlways, PTL

-----------------------------------------------------------------------------
(* The board.                                                              *)

Steady == rendered /\ row # "none"

RestInv ==
  /\ list \in [Lists -> [step : {"idle", "asked", "read"}, view : Nat]]
  /\ wire \in Seq({1, 2})
  /\ ~connected => wire = <<>>
  /\ rested /\ connected =>
       /\ Settled /\ doc = 2 /\ get["board"].step = "idle"
       /\ \A l \in Lists : list[l].step = "read" => list[l].view = 2
       /\ Steady \/ (fed = 2 /\ wire = <<>>)
       /\ fed = 2 /\ wire # <<>> => wire[Len(wire)] = 2
       /\ (\A l \in Lists : list[l].step = "idle") /\ fed = 2 /\ wire = <<>> => row = Final

\* What is on the wire after one more event, and after one fewer.
LEMMA WireAppend ==
  ASSUME NEW S, NEW w \in Seq(S), NEW e \in S
  PROVE  /\ Append(w, e) \in Seq(S) /\ Append(w, e) # <<>>
         /\ Append(w, e)[Len(Append(w, e))] = e
BY AppendProperties

LEMMA WireTail ==
  ASSUME NEW S, NEW w \in Seq(S), w # <<>>
  PROVE  /\ Tail(w) \in Seq(S) /\ Head(w) \in S
         /\ Tail(w) = <<>> => Head(w) = w[Len(w)]
         /\ Tail(w) # <<>> => Tail(w)[Len(Tail(w))] = w[Len(w)]
<1> DEFINE n == Len(w)
           t == Tail(w)
           m == Len(t)
<1>1. /\ Head(w) \in S /\ t \in Seq(S) /\ m = n - 1
      /\ \A i \in 1 .. m : t[i] = w[i + 1]
  BY HeadTailProperties
<1>2. Head(w) = w[1] /\ n \in Nat
  OBVIOUS
<1>3. (t = <<>> <=> m = 0) /\ m \in Nat
  <2>1. t \in Seq(S)
    BY <1>1
  <2> HIDE DEF t
  <2>2. t # <<>> => m \in Nat \ {0}
    BY <2>1, EmptySeq
  <2>3. t = <<>> => m = 0
    BY EmptySeq
  <2> QED BY <2>2, <2>3
<1> HIDE DEF n, t, m
<1>4. t = <<>> => n = 1
  BY <1>1, <1>2, <1>3
<1>5. t # <<>> => t[m] = w[n]
  <2>1. t # <<>> => m \in 1 .. m /\ m + 1 = n
    BY <1>1, <1>2, <1>3
  <2> QED BY <1>1, <2>1
<1> USE DEF n, t, m
<1> QED BY <1>1, <1>2, <1>4, <1>5

\* The steps that change neither the wire nor what the board shows.
LEMMA RestStays ==
  ASSUME SourceInv, GetInv, PageInv, RestInv, [Next]_vars,
         UNCHANGED <<list, connected, wire, rested, row, fed>>,
         rendered' = rendered \/ rendered' = (row # "none"),
         get["board"].step = "idle" => get'["board"] = get["board"]
  PROVE  RestInv'
<1>1. SourceInv' /\ Forward
  BY PageStep
<1>2. Settled /\ doc = 2 => stream' = stream /\ doc' = 2
  BY <1>1 DEF Forward, SourceInv, Settled
<1>3. Steady => Steady'
  BY DEF Steady
<1> QED BY <1>2, <1>3 DEF RestInv, Settled, Final

LEMMA RestStep ==
  SourceInv /\ GetInv /\ PageInv /\ RestInv /\ [Next]_vars => RestInv'
<1> SUFFICES ASSUME SourceInv, GetInv, PageInv, RestInv, [Next]_vars PROVE RestInv'
  OBVIOUS
<1>1. /\ stream \in Seq(Statuses) /\ Len(stream) \in Nat /\ Len(stream) <= 2
      /\ fed \in 0 .. Len(stream)
      /\ list \in [Lists -> [step : {"idle", "asked", "read"}, view : Nat]]
      /\ wire \in Seq({1, 2}) /\ doc \in Nat
  <2>1. list \in [Lists -> [step : {"idle", "asked", "read"}, view : Nat]]
        /\ wire \in Seq({1, 2})
    BY DEF RestInv
  <2>2. stream \in Seq(Statuses) /\ Len(stream) \in Nat /\ Len(stream) <= 2
        /\ fed \in 0 .. Len(stream) /\ doc \in Nat
    BY DEF SourceInv
  <2> QED BY <2>1, <2>2
<1>2. CASE Behind
  <2>1. /\ UNCHANGED <<list, connected, wire, rested, row, rendered>>
        /\ get["board"].step = "idle" => get'["board"] = get["board"]
    <3>1. "board" \in Readers
      BY ViewsAssumption
    <3> QED BY <1>2, <3>1, BehindKeeps DEF boardVars
  <2>2. fed' = fed
    BY <1>2, ServedKeeps DEF Behind, Record, Project, Lapse, modelVars
  <2> QED BY <2>1, <2>2, RestStays
<1>3. CASE OfPage
  <2>1. UNCHANGED <<list, connected, wire, rested, row, rendered, fed>> /\ get'["board"] = get["board"]
    BY <1>3, PageKeeps DEF boardVars, modelVars
  <2> QED BY <2>1, RestStays
<1>4. CASE UNCHANGED vars
  <2>1. UNCHANGED <<list, connected, wire, rested, row, rendered, fed, get>>
    BY <1>4 DEF vars, cacheVars, modelVars, boardVars
  <2> QED BY <2>1, RestStays
<1>5. CASE Open
  <2>1. PICK l \in Lists : list[l].step = "idle" /\ list' = [list EXCEPT ![l] = Asked]
    BY <1>5 DEF Open
  <2>2. /\ ~connected /\ connected' = TRUE /\ rested' = AtRest
        /\ UNCHANGED <<stream, doc, fed, get, wire, row>>
    BY <1>5 DEF Open, cacheVars, modelVars
  <2>3. /\ list' \in [Lists -> [step : {"idle", "asked", "read"}, view : Nat]]
        /\ list'[l].step = "asked" /\ \A k \in Lists : k # l => list'[k] = list[k]
    BY <1>1, <2>1 DEF Asked
  <2>4. wire = <<>> /\ (rested' => Settled /\ doc = 2 /\ fed = 2 /\ get["board"].step = "idle"
                                   /\ \A k \in Lists : list[k].step = "idle")
    BY <2>2 DEF AtRest, RestInv
  <2> QED BY <1>1, <2>2, <2>3, <2>4 DEF RestInv, Settled
<1>6. CASE Disconnect
  <2>1. connected' = FALSE /\ wire' = <<>> /\ list' = list
    BY <1>6 DEF Disconnect
  <2>2. wire' \in Seq({1, 2})
    BY <2>1
  <2> QED BY <1>1, <2>1, <2>2 DEF RestInv
<1>7. CASE Restart
  <2>1. /\ connected' = FALSE /\ wire' = <<>>
        /\ list' = [l \in Lists |-> IF list[l].step = "asked" THEN IdleList ELSE list[l]]
    BY <1>7 DEF Restart
  <2>2. list' \in [Lists -> [step : {"idle", "asked", "read"}, view : Nat]]
    BY <1>1, <2>1 DEF IdleList
  <2>3. wire' \in Seq({1, 2})
    BY <2>1
  <2> QED BY <2>1, <2>2, <2>3 DEF RestInv
<1>8. CASE Feed
  <2>1. /\ fed < Len(stream) /\ fed' = fed + 1
        /\ wire' = IF connected THEN Append(wire, fed + 1) ELSE wire
        /\ UNCHANGED <<stream, doc, get, list, connected, rested, row, rendered>>
    BY <1>8 DEF Feed
  <2>2. fed' \in {1, 2} /\ fed # 2
    <3> DEFINE n == Len(stream)
    <3>1. n \in Nat /\ n <= 2 /\ fed \in 0 .. n /\ fed < n /\ fed' = fed + 1
      BY <1>1, <2>1
    <3> HIDE DEF n
    <3> QED BY <3>1
  <2>3. CASE connected
    <3>1. wire' \in Seq({1, 2}) /\ wire' # <<>> /\ wire'[Len(wire')] = fed'
      BY <1>1, <2>1, <2>2, <2>3, WireAppend
    <3>2. rested => Steady'
      BY <2>1, <2>2, <2>3 DEF RestInv, Steady
    <3> QED BY <2>1, <2>3, <3>1, <3>2 DEF RestInv, Settled
  <2>4. CASE ~connected
    BY <2>1, <2>4 DEF RestInv
  <2> QED BY <2>3, <2>4
<1>9. CASE Redeliver
  <2>1. /\ fed' \in 0 .. fed - 1 /\ rested' = (rested /\ rendered /\ row # "none")
        /\ UNCHANGED <<stream, doc, get, list, connected, wire, row, rendered>>
    BY <1>9 DEF Redeliver
  <2>2. fed' # 2
    <3> DEFINE n == Len(stream)
    <3>1. n \in Nat /\ n <= 2 /\ fed \in 0 .. n /\ fed' \in 0 .. fed - 1
      BY <1>1, <2>1
    <3> HIDE DEF n
    <3> QED BY <3>1
  <2>3. rested' => rested /\ Steady'
    BY <2>1 DEF Steady
  <2> QED BY <2>1, <2>2, <2>3 DEF RestInv, Settled
<1>10. CASE OnEvent
  <2>1. /\ wire # <<>> /\ wire' = Tail(wire)
        /\ UNCHANGED <<stream, doc, fed, list, connected, rested, rendered>>
        /\ rendered => row' = (IF row = "none" THEN row ELSE stream[Head(wire)]) /\ get' = get
    BY <1>10 DEF OnEvent, Handle, modelVars
  <2>2. /\ wire' \in Seq({1, 2}) /\ Head(wire) \in {1, 2}
        /\ wire' = <<>> => Head(wire) = wire[Len(wire)]
        /\ wire' # <<>> => wire'[Len(wire')] = wire[Len(wire)]
    BY <1>1, <2>1, WireTail
  <2>3. connected
    BY <2>1 DEF RestInv
  <2>4. ASSUME rested
        PROVE  /\ Steady' /\ get' = get
               /\ fed = 2 /\ wire' = <<>> => row' = Final
    <3>1. Steady /\ Settled /\ (fed = 2 => wire[Len(wire)] = 2)
      BY <2>1, <2>3, <2>4 DEF RestInv
    <3>2. row' = stream[Head(wire)] /\ get' = get /\ rendered'
      BY <2>1, <3>1 DEF Steady
    <3>3. stream[Head(wire)] \in Statuses
      <4>1. stream[1] \in Statuses /\ stream[2] \in Statuses
        BY <3>1 DEF SourceInv, Settled, Statuses
      <4> QED BY <2>2, <4>1
    <3>4. row' # "none"
      BY <3>2, <3>3 DEF Statuses
    <3> QED BY <2>2, <3>1, <3>2, <3>4 DEF Steady, Final
  <2> QED BY <2>1, <2>2, <2>3, <2>4 DEF RestInv, Settled, Final
<1>11. CASE RowAnswered
  <2>1. /\ get["board"].step \in {"answered", "failed"}
        /\ UNCHANGED <<list, connected, rested, wire>>
    BY <1>11 DEF RowAnswered
  <2>2. ~(rested /\ connected)
    BY <2>1 DEF RestInv
  <2> QED BY <2>1, <2>2 DEF RestInv
<1>12. CASE Render
  <2>1. /\ UNCHANGED <<list, connected, wire, rested, row, fed, get>>
        /\ rendered' = (row # "none")
    BY <1>12 DEF Render, cacheVars, modelVars
  <2> QED BY <2>1, RestStays
<1>13. ASSUME NEW l \in Lists, ReadList(l) PROVE RestInv'
  <2>1. /\ list[l].step = "asked" /\ list' = [list EXCEPT ![l] = [step |-> "read", view |-> doc]]
        /\ UNCHANGED <<stream, doc, fed, get, row, rendered, connected, wire, rested>>
    BY <1>13 DEF ReadList, cacheVars, modelVars
  <2>2. /\ list' \in [Lists -> [step : {"idle", "asked", "read"}, view : Nat]]
        /\ list'[l].step = "read" /\ list'[l].view = doc
        /\ \A k \in Lists : k # l => list'[k] = list[k]
    BY <1>1, <2>1
  <2>3. rested /\ connected => \A k \in Lists : list'[k].step = "read" => list'[k].view = 2
    BY <2>2 DEF RestInv
  <2> QED BY <2>1, <2>2, <2>3 DEF RestInv, Settled, Steady
<1>14. ASSUME NEW l \in Lists, ListAnswered(l) PROVE RestInv'
  <2>1. /\ list[l].step = "read" /\ list' = [list EXCEPT ![l] = IdleList]
        /\ row' = IF list[l].view = 0 THEN "none" ELSE stream[list[l].view]
        /\ UNCHANGED <<stream, doc, fed, get, rendered, connected, wire, rested>>
    BY <1>14 DEF ListAnswered, cacheVars, modelVars
  <2>2. /\ list' \in [Lists -> [step : {"idle", "asked", "read"}, view : Nat]]
        /\ list'[l].step = "idle" /\ \A k \in Lists : k # l => list'[k] = list[k]
    BY <1>1, <2>1 DEF IdleList
  <2>3. ASSUME rested, connected PROVE row' = Final /\ row' # "none"
    <3>1. Settled /\ list[l].view = 2
      BY <2>1, <2>3 DEF RestInv
    <3>2. stream[2] \in Statuses
      BY <3>1 DEF SourceInv, Settled, Statuses
    <3> QED BY <2>1, <3>1, <3>2 DEF Final, Statuses
  <2>4. rested /\ connected => \A k \in Lists : list'[k].step = "read" => list'[k].view = 2
    BY <2>2 DEF RestInv
  <2> QED BY <2>1, <2>2, <2>3, <2>4 DEF RestInv, Settled, Final, Steady
<1>15. ASSUME NEW l \in Lists, ListFailed(l) PROVE RestInv'
  <2>1. /\ list' = [list EXCEPT ![l] = IdleList] /\ rested' = FALSE
        /\ UNCHANGED <<connected, wire>>
    BY <1>15 DEF ListFailed
  <2>2. list' \in [Lists -> [step : {"idle", "asked", "read"}, view : Nat]]
    BY <1>1, <2>1 DEF IdleList
  <2> QED BY <2>1, <2>2 DEF RestInv
<1> QED BY <1>2, <1>3, <1>4, <1>5, <1>6, <1>7, <1>8, <1>9, <1>10, <1>11, <1>12, <1>13, <1>14,
        <1>15, Steps DEF OfBoard

\* The list that is asked for on (re)connecting sets the board right: if nothing was
\* under way, it shows how the order ended and goes on showing it, but for the time
\* in which events that are read again are on their way (use-admin-data.ts).
THEOREM ReconnectingHeals == Spec => []ReconnectHeals
<1>1. Init => RestInv
  <2> SUFFICES ASSUME Init PROVE RestInv
    OBVIOUS
  <2>1. PICK first \in Lists : list = [l \in Lists |-> IF l = first THEN Asked ELSE IdleList]
    BY DEF Init
  <2>2. list \in [Lists -> [step : {"idle", "asked", "read"}, view : Nat]]
    BY <2>1 DEF Asked, IdleList
  <2>3. wire \in Seq({1, 2}) /\ wire = <<>> /\ rested = FALSE
    <3>1. wire = <<>> /\ rested = FALSE
      BY DEF Init
    <3> QED BY <3>1
  <2> QED BY <2>2, <2>3 DEF RestInv
<1>2. RestInv => ReconnectHeals
  BY DEF RestInv, ReconnectHeals
<1>3. SourceInv /\ GetInv /\ PageInv /\ RestInv /\ [Next]_vars => RestInv'
  BY RestStep
<1> QED BY <1>1, <1>2, <1>3, PageAlways, PTL DEF Spec
=============================================================================
