-------------------------- MODULE ProjectionProofs --------------------------
(***************************************************************************)
(* Proofs about OutboxRelay, Projection and Rebuild, for streams of any    *)
(* length and any number of crashes.  There is one worker with a committed *)
(* offset, and it is stopped while a rebuild runs (RunbookFollowed): two   *)
(* workers, a group without an offset, or a rebuild beside the worker are  *)
(* what the claims that TLC refutes are about.                             *)
(*                                                                         *)
(* RelayInv: the poller's batch leaves out no older row.  ApplyInv: what   *)
(* each step of the handler knows about the document.  OffsetInv: what the *)
(* consumer is past has been shown, except while a rebuild is about to     *)
(* show it again (ReplayInv).                                              *)
(***************************************************************************)
EXTENDS Rebuild, TLAPS

RunbookFollowed ==
  WorkerStopped /\ ~Unstarted /\ \A v, w \in Workers : v = w

-----------------------------------------------------------------------------
(* The relay.                                                              *)

InLog(n) == \E i \in 1 .. Len(log) : log[i] = n

RelayInv ==
  /\ RelayTypeOK
  /\ \A n \in Versions : \A m \in 1 .. n - 1 : Committed(n) => Committed(m)
  /\ \A n \in batch : outbox[n] = "PENDING"
  /\ \A n \in batch : \A m \in 1 .. n - 1 : m \in batch \/ outbox[m] = "SENT"
  /\ published => batch # {} /\ \A n \in batch : Oldest(n, batch) => InLog(n)
  /\ OutboxIsFaithful

LEMMA RelayInitInv == RelayInit => RelayInv
<1> SUFFICES ASSUME RelayInit PROVE RelayInv
  OBVIOUS
<1>1. RelayTypeOK
  <2>1. outbox \in [Versions -> {"absent", "PENDING", "SENT"}]
    BY DEF RelayInit
  <2>2. log \in Seq(Versions) /\ 0 \in 0 .. MaxCrashes
    BY RelayAssumption DEF RelayInit
  <2> QED BY <2>1, <2>2 DEF RelayInit, RelayTypeOK
<1>2. \A n \in Versions : ~Committed(n)
  BY DEF RelayInit, Committed
<1>3. OutboxIsFaithful
  BY DEF RelayInit, OutboxIsFaithful, FirstSentInOrder, SentIsPublished
<1> QED BY <1>1, <1>2, <1>3 DEF RelayInit, RelayInv

LEMMA CommitKeeps == RelayInv /\ CommitEvent => RelayInv'
<1> SUFFICES ASSUME RelayInv, CommitEvent PROVE RelayInv'
  OBVIOUS
<1>1. PICK n \in Versions :
        /\ outbox[n] = "absent" /\ (n > 1 => Committed(n - 1))
        /\ outbox' = [outbox EXCEPT ![n] = "PENDING"]
  BY DEF CommitEvent
<1>2. /\ UNCHANGED <<batch, published, log, crashes>>
      /\ RelayTypeOK'
  BY <1>1 DEF CommitEvent, RelayInv, RelayTypeOK
<1>3. \A m \in Versions : /\ m # n => outbox'[m] = outbox[m]
                          /\ m = n => outbox'[m] = "PENDING"
  BY <1>1 DEF RelayInv, RelayTypeOK
<1>4. \A m \in Versions : Committed(m)' <=> Committed(m) \/ m = n
  BY <1>3 DEF Committed
<1>5. \A m \in 1 .. n - 1 : Committed(m)
  <2> TAKE m \in 1 .. n - 1
  <2>1. n - 1 \in Versions /\ m \in Versions /\ (m = n - 1 \/ m \in 1 .. (n - 1) - 1)
    BY RelayAssumption DEF Versions
  <2>2. Committed(n - 1)
    BY <1>1, <2>1 DEF Versions
  <2> QED BY <2>1, <2>2 DEF RelayInv
<1>6. \A k \in Versions : \A m \in 1 .. k - 1 : m \in Versions
  BY RelayAssumption DEF Versions
<1>7. \A k \in Versions : \A m \in 1 .. k - 1 : Committed(k)' => Committed(m)'
  BY <1>4, <1>5, <1>6 DEF RelayInv
<1>8. n \notin batch /\ batch \subseteq Versions
  BY <1>1 DEF RelayInv, RelayTypeOK
<1>9. \A k \in batch : outbox'[k] = "PENDING"
  BY <1>3, <1>8 DEF RelayInv
<1>10. \A k \in batch : \A m \in 1 .. k - 1 : m \in batch \/ outbox'[m] = "SENT"
  <2>1. \A k \in batch : \A m \in 1 .. k - 1 : outbox[m] = "SENT" => outbox'[m] = "SENT"
    BY <1>1, <1>3, <1>6, <1>8
  <2> QED BY <2>1 DEF RelayInv
<1>11. OutboxIsFaithful'
  <2>1. log \in Seq(Versions)
    BY DEF RelayInv, RelayTypeOK
  <2>2. FirstSentInOrder'
    BY <1>2, <1>4, <2>1 DEF RelayInv, OutboxIsFaithful, FirstSentInOrder
  <2>3. SentIsPublished'
    BY <1>2, <1>3 DEF RelayInv, OutboxIsFaithful, SentIsPublished
  <2> QED BY <2>2, <2>3 DEF OutboxIsFaithful
<1> QED BY <1>2, <1>7, <1>9, <1>10, <1>11 DEF RelayInv, InLog

LEMMA PollKeeps == RelayInv /\ Poll => RelayInv'
<1> SUFFICES ASSUME RelayInv, Poll PROVE RelayInv'
  OBVIOUS
<1>1. PICK n \in Pending : batch' = {m \in Pending : m <= n}
  BY DEF Poll
<1>2. /\ UNCHANGED <<outbox, published, log, crashes>>
      /\ RelayTypeOK'
  BY <1>1 DEF Poll, RelayInv, RelayTypeOK, Pending
<1>3. \A k \in batch' : \A m \in 1 .. k - 1 : m \in batch' \/ outbox[m] = "SENT"
  <2> SUFFICES ASSUME NEW k \in batch', NEW m \in 1 .. k - 1
               PROVE  m \in batch' \/ outbox[m] = "SENT"
    OBVIOUS
  <2>1. k \in Versions /\ k <= n /\ n \in Versions /\ m \in Versions /\ m <= n
    BY <1>1, RelayAssumption DEF Pending, Versions
  <2>2. outbox[k] = "PENDING"
    BY <1>1 DEF Pending
  <2>3. Committed(m) /\ outbox[m] \in {"absent", "PENDING", "SENT"}
    BY <2>1, <2>2 DEF RelayInv, RelayTypeOK, Committed
  <2> QED BY <1>1, <2>1, <2>3 DEF Pending, Committed
<1>4. ~published
  BY DEF Poll, RelayInv
<1> QED BY <1>1, <1>2, <1>3, <1>4 DEF RelayInv, Pending, InLog, OutboxIsFaithful,
  FirstSentInOrder, SentIsPublished, Committed

LEMMA SendKeeps ==
  ASSUME RelayInv, Send
  PROVE  /\ RelayInv'
         /\ \E n \in Versions : log' = Append(log, n)
<1>1. PICK n \in Versions : Oldest(n, batch) /\ log' = Append(log, n)
  BY DEF Send
<1>2. /\ UNCHANGED <<outbox, batch, crashes>> /\ published' = TRUE /\ n \in batch
      /\ log \in Seq(Versions) /\ Len(log) \in Nat
  BY <1>1 DEF Send, RelayInv, RelayTypeOK, Oldest
<1>3. /\ log' \in Seq(Versions) /\ Len(log') = Len(log) + 1
      /\ log'[Len(log) + 1] = n /\ \A i \in 1 .. Len(log) : log'[i] = log[i]
  BY <1>1, <1>2
<1>4. RelayTypeOK'
  BY <1>2, <1>3 DEF RelayInv, RelayTypeOK
<1>5. \A m \in Versions : InLog(m) => InLog(m)'
  BY <1>2, <1>3 DEF InLog
<1>6. InLog(n)'
  BY <1>2, <1>3 DEF InLog
<1>7. \A m \in batch : Oldest(m, batch) => m = n
  BY <1>1, <1>2 DEF Oldest, RelayInv, RelayTypeOK, Versions
<1>8. n > 1 => \E j \in 1 .. Len(log) : log[j] = n - 1
  <2> SUFFICES ASSUME n > 1 PROVE InLog(n - 1)
    BY DEF InLog
  <2>1. n - 1 \in Versions /\ n - 1 \in 1 .. n - 1
    BY RelayAssumption DEF Versions
  <2>2. n - 1 \notin batch
    BY <1>1, <2>1 DEF Oldest, Versions
  <2>3. outbox[n - 1] = "SENT"
    BY <1>2, <2>1, <2>2 DEF RelayInv
  <2> QED BY <2>1, <2>3 DEF RelayInv, OutboxIsFaithful, SentIsPublished, InLog
<1>9. OutboxIsFaithful'
  <2>1. Committed(n)
    BY <1>2 DEF RelayInv, Committed
  <2>2. \A i \in 1 .. Len(log) :
          /\ Committed(log[i])
          /\ log[i] > 1 => \E j \in 1 .. i - 1 : log[j] = log[i] - 1
    BY DEF RelayInv, OutboxIsFaithful, FirstSentInOrder
  <2>3. ASSUME NEW i \in 1 .. Len(log')
        PROVE  /\ Committed(log'[i])
               /\ log'[i] > 1 => \E j \in 1 .. i - 1 : log'[j] = log'[i] - 1
    <3>1. CASE i = Len(log) + 1
      <4>1. i - 1 = Len(log) /\ log'[i] = n
        BY <1>2, <1>3, <3>1
      <4>2. n > 1 => \E j \in 1 .. Len(log) : log'[j] = n - 1
        BY <1>3, <1>8
      <4> QED BY <2>1, <4>1, <4>2
    <3>2. CASE i \in 1 .. Len(log)
      <4>1. log'[i] = log[i] /\ \A j \in 1 .. i - 1 : j \in 1 .. Len(log)
        BY <1>2, <1>3, <3>2
      <4>2. \A j \in 1 .. i - 1 : log'[j] = log[j]
        BY <1>3, <4>1
      <4> QED BY <2>2, <3>2, <4>1, <4>2
    <3>3. i = Len(log) + 1 \/ i \in 1 .. Len(log)
      BY <1>2, <1>3
    <3> QED BY <3>1, <3>2, <3>3
  <2>4. FirstSentInOrder'
    BY <1>2, <2>3 DEF FirstSentInOrder, Committed
  <2>5. SentIsPublished'
    BY <1>2, <1>5 DEF RelayInv, OutboxIsFaithful, SentIsPublished, InLog
  <2> QED BY <2>4, <2>5 DEF OutboxIsFaithful
<1>10. RelayInv'
  BY <1>2, <1>4, <1>6, <1>7, <1>9 DEF RelayInv, Committed
<1> QED BY <1>1, <1>10

LEMMA MarkKeeps == RelayInv /\ MarkSent => RelayInv'
<1> SUFFICES ASSUME RelayInv, MarkSent PROVE RelayInv'
  OBVIOUS
<1>1. PICK n \in Versions :
        /\ Oldest(n, batch)
        /\ outbox' = [outbox EXCEPT ![n] = "SENT"] /\ batch' = batch \ {n}
  BY DEF MarkSent
<1>2. /\ UNCHANGED <<log, crashes>> /\ published' = FALSE /\ n \in batch
      /\ RelayTypeOK'
  BY <1>1 DEF MarkSent, RelayInv, RelayTypeOK, Oldest
<1>3. \A m \in Versions : /\ m # n => outbox'[m] = outbox[m]
                          /\ m = n => outbox'[m] = "SENT"
  BY <1>1 DEF RelayInv, RelayTypeOK
<1>4. \A m \in Versions : Committed(m)' <=> Committed(m)
  BY <1>2, <1>3 DEF RelayInv, Committed
<1>5. InLog(n)
  BY <1>1, <1>2 DEF RelayInv, MarkSent
<1>6. \A k \in Versions : \A m \in 1 .. k - 1 : m \in Versions
  BY RelayAssumption DEF Versions
<1>7. batch \subseteq Versions
  BY DEF RelayInv, RelayTypeOK
<1>8. \A k \in batch' : \A m \in 1 .. k - 1 : m \in batch' \/ outbox'[m] = "SENT"
  BY <1>1, <1>3, <1>6, <1>7 DEF RelayInv
<1>9. OutboxIsFaithful'
  <2>1. log \in Seq(Versions)
    BY DEF RelayInv, RelayTypeOK
  <2>2. FirstSentInOrder'
    BY <1>2, <1>4, <2>1 DEF RelayInv, OutboxIsFaithful, FirstSentInOrder
  <2>3. SentIsPublished'
    BY <1>2, <1>3, <1>5 DEF RelayInv, OutboxIsFaithful, SentIsPublished, InLog
  <2> QED BY <2>2, <2>3 DEF OutboxIsFaithful
<1>10. \A k \in Versions : \A m \in 1 .. k - 1 : Committed(k)' => Committed(m)'
  BY <1>4, <1>6 DEF RelayInv
<1>11. \A k \in batch' : outbox'[k] = "PENDING"
  BY <1>1, <1>3, <1>7 DEF RelayInv
<1> QED BY <1>2, <1>8, <1>9, <1>10, <1>11 DEF RelayInv

\* The relay keeps its invariant; Kafka only gets longer, events stay committed.
LEMMA RelayStep ==
  ASSUME RelayInv, [RelayNext]_relayVars
  PROVE  /\ RelayInv'
         /\ log' = log \/ \E n \in Versions : log' = Append(log, n)
<1>1. CASE CommitEvent
  BY <1>1, CommitKeeps DEF CommitEvent
<1>2. CASE Poll
  BY <1>2, PollKeeps DEF Poll
<1>3. CASE Send
  BY <1>3, SendKeeps
<1>4. CASE MarkSent
  BY <1>4, MarkKeeps DEF MarkSent
<1>5. CASE PollerCrash
  <2>1. /\ batch' = {} /\ published' = FALSE /\ UNCHANGED <<outbox, log>>
        /\ crashes' = crashes + 1 /\ crashes < MaxCrashes
    BY <1>5 DEF PollerCrash
  <2>2. crashes' \in 0 .. MaxCrashes
    BY <2>1, RelayAssumption DEF RelayInv, RelayTypeOK
  <2> QED BY <2>1, <2>2 DEF RelayInv, RelayTypeOK, Committed, InLog, OutboxIsFaithful,
       FirstSentInOrder, SentIsPublished
<1>6. CASE UNCHANGED relayVars
  BY <1>6 DEF relayVars, RelayInv, RelayTypeOK, Committed, InLog, Oldest,
     OutboxIsFaithful, FirstSentInOrder, SentIsPublished
<1> QED BY <1>1, <1>2, <1>3, <1>4, <1>5, <1>6 DEF RelayNext, Poller

\* The outbox keeps its promise however often the poller crashes between its
\* calls, and whatever part of the rows its limit lets it take (poller.ts:
\* oldest first, publish, then mark).
THEOREM OutboxStaysFaithful == RelaySpec => []OutboxIsFaithful
<1>1. RelayInv => OutboxIsFaithful
  BY DEF RelayInv
<1>2. RelayInv /\ [RelayNext]_relayVars => RelayInv'
  BY RelayStep
<1> QED BY <1>1, <1>2, RelayInitInv, PTL DEF RelaySpec

-----------------------------------------------------------------------------
(* The projection and the rebuild.                                         *)

Active(a) == apply[a].step # "idle"

ViewTypes ==
  /\ kind \in {"order", "dispatch"}
  /\ view \in [version : 0 .. LastVersion, events : SUBSET Versions]
  /\ inbox \subseteq Versions
  /\ owner \in Workers /\ position \in Nat /\ offset \in Nat
  /\ apply \in [Appliers -> [step : Steps, version : 0 .. LastVersion]]
  /\ stage \in {"notRun", "viewsDeleted", "inboxDeleted", "replaying", "done"}
  /\ rows \subseteq Versions

DocInv ==
  /\ view.events = 1 .. view.version
  /\ stage # "viewsDeleted" => \A n \in inbox : n <= view.version

ApplyInv ==
  \A a \in Appliers :
    /\ Active(a) => apply[a].version \in Versions
    /\ apply[a].step \in {"received", "new"} => apply[a].version <= view.version + 1
    /\ apply[a].step = "writing" => apply[a].version = view.version + 1
    /\ apply[a].step \in {"recording", "processed"} => apply[a].version <= view.version

AloneInv ==
  /\ Active(R) => stage = "replaying"
  /\ Rebuilding => \A w \in Workers : ~Active(w)

OffsetInv ==
  /\ offset <= position /\ position <= Len(log)
  /\ ~Rebuilding => \A i \in 1 .. position : log[i] <= view.version
  /\ \A w \in Workers : Active(w) =>
       position < Len(log) /\ apply[w].version = log[position + 1]

\* In the document, or about to be.
Ahead(m) ==
  m <= view.version \/ m \in rows \/ (Active(R) /\ apply[R].version = m)

ReplayInv ==
  stage = "replaying" =>
    /\ \A i \in 1 .. position : Ahead(log[i])
    /\ \A n \in rows : \A m \in 1 .. n - 1 : Ahead(m)

ViewInv ==
  RelayInv /\ ViewTypes /\ DocInv /\ ApplyInv /\ AloneInv /\ OffsetInv /\ ReplayInv

LEMMA ViewInitInv == RunbookFollowed /\ RebuildInit => ViewInv
<1> SUFFICES ASSUME RunbookFollowed, RebuildInit PROVE ViewInv
  OBVIOUS
<1>1. RelayInv
  BY RelayInitInv DEF RebuildInit, Init
<1>2. apply = [a \in Appliers |-> Idle] /\ \A a \in Appliers : ~Active(a)
  BY DEF RebuildInit, Init, Active, Idle
<1>3. Idle \in [step : Steps, version : 0 .. LastVersion]
  BY RelayAssumption DEF Idle, Steps
<1>4. NoView \in [version : 0 .. LastVersion, events : SUBSET Versions]
  BY RelayAssumption DEF NoView
<1>5. ViewTypes
  BY <1>2, <1>3, <1>4 DEF RunbookFollowed, RebuildInit, Init, ViewTypes
<1>6. Workers \subseteq Appliers /\ R \in Appliers
  BY DEF Appliers, R
<1>7. view.version = 0 /\ view.events = {}
  BY DEF RebuildInit, Init, NoView
<1>8. DocInv
  BY <1>7 DEF RebuildInit, Init, DocInv
<1>9. Len(log) = 0 /\ position = 0 /\ offset = 0
  BY DEF RunbookFollowed, RebuildInit, Init, RelayInit
<1>10. ApplyInv
  BY <1>2 DEF ApplyInv, Active
<1>11. AloneInv /\ OffsetInv /\ ReplayInv
  BY <1>2, <1>6, <1>9 DEF RebuildInit, AloneInv, OffsetInv, ReplayInv
<1> QED BY <1>1, <1>5, <1>8, <1>10, <1>11 DEF ViewInv

\* One step of the handler, run by the worker or by the rebuild: the document
\* grows by one event or not at all.
LEMMA HandlerKeeps ==
  ASSUME RunbookFollowed, ViewInv, NEW a \in Appliers, ApplyEvent(a),
         UNCHANGED <<kind, stage, rows>>
  PROVE  ViewInv' /\ view.version <= view'.version
<1> DEFINE n == apply[a].version
           v == view.version
<1>1. /\ Active(a) /\ n \in Versions
      /\ UNCHANGED <<relayVars, worker>>
      /\ \E step \in {"new", "writing", "recording", "processed"} :
           apply' = [apply EXCEPT ![a].step = step]
  BY DEF ApplyEvent, CheckInbox, ReadView, WriteView, RecordInbox, Goto, Active,
         ViewInv, ApplyInv
<1>2. /\ UNCHANGED <<outbox, batch, published, log, crashes, owner, position, offset>>
      /\ UNCHANGED <<kind, stage, rows>>
  BY <1>1 DEF relayVars, worker
<1>3. RelayInv'
  BY <1>1, RelayStep DEF ViewInv
<1>4. /\ n \in 1 .. LastVersion /\ v \in 0 .. LastVersion /\ view.events = 1 .. v
      /\ view = [version |-> v, events |-> 1 .. v] /\ LastVersion \in Nat
      /\ inbox \subseteq Versions
  BY <1>1, RelayAssumption DEF ViewInv, ViewTypes, DocInv, Versions
<1>5. Workers \subseteq Appliers /\ R \in Appliers /\ R \notin Workers
  BY ProjectionAssumption DEF Appliers, R
<1>6. stage # "viewsDeleted" /\ \A m \in inbox : m <= v
  BY <1>1, <1>5 DEF ViewInv, AloneInv, DocInv, Appliers, R, Rebuilding
<1>7. \A b \in Appliers \ {a} : ~Active(b)
  BY <1>1, <1>5 DEF ViewInv, AloneInv, RunbookFollowed, Appliers, R, Rebuilding
<1>8. /\ \A b \in Appliers \ {a} : apply'[b] = apply[b]
      /\ apply'[a].version = n /\ Active(a)'
      /\ apply' \in [Appliers -> [step : Steps, version : 0 .. LastVersion]]
  <2>1. PICK step \in {"new", "writing", "recording", "processed"} :
          apply' = [apply EXCEPT ![a].step = step]
    BY <1>1
  <2>2. apply \in [Appliers -> [step : Steps, version : 0 .. LastVersion]]
    BY DEF ViewInv, ViewTypes
  <2>3. [apply[a] EXCEPT !.step = step] \in [step : Steps, version : 0 .. LastVersion]
    BY <2>2 DEF Steps
  <2> QED BY <2>1, <2>2, <2>3 DEF Active
<1>9. ~Exists => v = 0 /\ \A m \in Versions : m <= 1 => m \in Creating
  BY <1>4 DEF Exists, NoView, Creating, Versions
<1>10. /\ view'.version \in {v, v + 1} /\ view'.version \in 0 .. LastVersion
       /\ view' = [version |-> view'.version, events |-> 1 .. view'.version]
       /\ apply'[a].step \in {"received", "new"} => n <= view'.version + 1
       /\ apply'[a].step = "writing" => n = view'.version + 1
       /\ apply'[a].step \in {"recording", "processed"} => n <= view'.version
       /\ inbox' \subseteq Versions /\ \A m \in inbox' : m <= view'.version
  <2>1. CASE CheckInbox(a)
    <3>1. /\ view' = view /\ inbox' = inbox /\ n <= v + 1
          /\ apply'[a].step = IF n \in inbox THEN "processed" ELSE "new"
      BY <1>4, <2>1 DEF CheckInbox, Goto, mongo, ViewInv, ApplyInv, ViewTypes
    <3> QED BY <1>4, <1>6, <3>1
  <2>2. CASE ReadView(a)
    <3>1. /\ view' = view /\ inbox' = inbox /\ n <= v + 1
          /\ apply'[a].step = IF NewerThanView(n) THEN "writing" ELSE "recording"
      BY <1>4, <2>2 DEF ReadView, Goto, mongo, ViewInv, ApplyInv, ViewTypes
    <3>2. IF NewerThanView(n) THEN n = v + 1 ELSE n <= v
      BY <1>1, <1>4, <1>9, <3>1 DEF NewerThanView
    <3> QED BY <1>4, <1>6, <3>1, <3>2
  <2>3. CASE WriteView(a)
    <3>1. n = v + 1 /\ inbox' = inbox /\ apply'[a].step = "recording"
      BY <2>3 DEF WriteView, Goto, ViewInv, ApplyInv, ViewTypes
    <3>2. view' = [version |-> n, events |-> view.events \cup {n}]
      BY <1>1, <1>4, <1>9, <2>3, <3>1 DEF WriteView
    <3>3. view.events \cup {n} = 1 .. n
      BY <1>4, <3>1
    <3>4. view'.version = n /\ view' = [version |-> n, events |-> 1 .. n]
      BY <3>2, <3>3
    <3>5. v <= v + 1 /\ n \in 0 .. LastVersion /\ \A m \in inbox : m <= v + 1
      BY <1>4, <1>6, <3>1 DEF Versions
    <3> HIDE DEF n, v
    <3> QED BY <1>4, <3>1, <3>4, <3>5
  <2>4. CASE RecordInbox(a)
    <3>1. /\ view' = view /\ inbox' = inbox \cup {n} /\ n <= v
          /\ apply'[a].step = "processed"
      BY <2>4 DEF RecordInbox, Goto, ViewInv, ApplyInv, ViewTypes
    <3> QED BY <1>1, <1>4, <1>6, <3>1
  <2> QED BY <2>1, <2>2, <2>3, <2>4 DEF ApplyEvent
<1> HIDE DEF n, v
<1>11. v <= view'.version
  BY <1>4, <1>10
<1>12. ViewTypes'
  BY <1>2, <1>4, <1>8, <1>10 DEF ViewInv, ViewTypes, Versions
<1>13. DocInv'
  BY <1>10 DEF DocInv
<1>14. ApplyInv'
  <2>1. \A b \in Appliers \ {a} : apply'[b].step = "idle"
    BY <1>7, <1>8 DEF Active
  <2> QED BY <1>1, <1>8, <1>10, <2>1 DEF ApplyInv, Active
<1>15. \A b \in Appliers : Active(b)' => Active(b) /\ apply'[b].version = apply[b].version
  BY <1>1, <1>8 DEF Active, n
<1>16. \A m \in Nat : Ahead(m) => Ahead(m)'
  <2>1. Active(R) => Active(R)' /\ apply'[R].version = apply[R].version
    BY <1>5, <1>8 DEF Active, n
  <2> QED BY <1>2, <1>4, <1>10, <1>11, <2>1 DEF Ahead, v
<1>17. AloneInv' /\ OffsetInv' /\ ReplayInv'
  <2>1. \A i \in 1 .. position : log[i] \in Nat
    BY RelayAssumption DEF ViewInv, RelayInv, RelayTypeOK, OffsetInv, ViewTypes, Versions
  <2>2. AloneInv'
    BY <1>2, <1>5, <1>15 DEF ViewInv, AloneInv, Rebuilding
  <2>3. OffsetInv'
    BY <1>2, <1>4, <1>5, <1>10, <1>15, <2>1 DEF ViewInv, OffsetInv, Rebuilding, v
  <2>4. ReplayInv'
    <3>1. \A k \in rows : \A m \in 1 .. k - 1 : m \in Nat
      OBVIOUS
    <3> QED BY <1>2, <1>16, <2>1, <3>1 DEF ViewInv, ReplayInv
  <2> QED BY <2>2, <2>3, <2>4
<1> QED BY <1>3, <1>11, <1>12, <1>13, <1>14, <1>17 DEF ViewInv, v

\* A step of the relay: the log may grow, nothing is taken from it.
LEMMA RelayKeepsViews ==
  ASSUME ViewInv, RelayNext, UNCHANGED <<kind, mongo, worker, apply, stage, rows>>
  PROVE  ViewInv' /\ UNCHANGED view
<1>1. /\ UNCHANGED <<kind, view, inbox, owner, position, offset, apply, stage, rows>>
      /\ RelayInv' /\ log \in Seq(Versions)
      /\ log' = log \/ \E n \in Versions : log' = Append(log, n)
  BY RelayStep DEF mongo, worker, ViewInv, RelayInv, RelayTypeOK
<1>2. /\ Len(log) \in Nat /\ Len(log') \in Nat /\ Len(log) <= Len(log')
      /\ \A i \in 1 .. Len(log) : log'[i] = log[i]
  BY <1>1
<1>3. /\ position \in Nat /\ position <= Len(log)
      /\ \A i \in 1 .. position : i \in 1 .. Len(log)
      /\ position < Len(log) => position + 1 \in 1 .. Len(log)
  BY <1>2 DEF ViewInv, ViewTypes, OffsetInv
<1>4. OffsetInv' /\ ReplayInv'
  BY <1>1, <1>2, <1>3 DEF ViewInv, ViewTypes, OffsetInv, ReplayInv, Ahead, Active, Rebuilding
<1>5. ViewTypes' /\ DocInv' /\ ApplyInv' /\ AloneInv'
  BY <1>1 DEF ViewInv, ViewTypes, DocInv, ApplyInv, AloneInv, Active, Rebuilding
<1> QED BY <1>1, <1>4, <1>5 DEF ViewInv

\* What the consumer does around the handler.
LEMMA ReceiveKeeps ==
  ASSUME RunbookFollowed, ViewInv, NEW w \in Workers, Receive(w), ~Rebuilding,
         UNCHANGED <<kind, stage, rows>>
  PROVE  ViewInv' /\ UNCHANGED view
<1> DEFINE n == log[position + 1]
<1>1. /\ UNCHANGED <<relayVars, view, inbox, owner, position, offset, kind, stage, rows>>
      /\ apply' = [apply EXCEPT ![w] = [step |-> "received", version |-> n]]
      /\ position < Len(log) /\ w \in Appliers /\ ~Active(w)
  BY DEF Receive, mongo, worker, Appliers, Active
<1>2. RelayInv' /\ log' = log
  BY <1>1, RelayStep DEF ViewInv, relayVars
<1>3. /\ log \in Seq(Versions) /\ position \in Nat /\ position + 1 \in 1 .. Len(log)
      /\ n \in Versions /\ view.version \in Nat
  BY <1>1, RelayAssumption DEF ViewInv, ViewTypes, RelayInv, RelayTypeOK
<1>4. n <= view.version + 1
  <2>1. n > 1 => \E j \in 1 .. position : log[j] = n - 1
    BY <1>3 DEF ViewInv, RelayInv, OutboxIsFaithful, FirstSentInOrder
  <2>2. \A j \in 1 .. position : log[j] <= view.version
    BY DEF ViewInv, OffsetInv
  <2> QED BY <1>3, <2>1, <2>2 DEF Versions
<1>5. /\ apply'[w] = [step |-> "received", version |-> n]
      /\ \A b \in Appliers \ {w} : apply'[b] = apply[b]
      /\ apply' \in [Appliers -> [step : Steps, version : 0 .. LastVersion]]
  <2>1. [step |-> "received", version |-> n] \in [step : Steps, version : 0 .. LastVersion]
    BY <1>3, RelayAssumption DEF Steps, Versions
  <2> QED BY <1>1, <2>1 DEF ViewInv, ViewTypes
<1>6. R \in Appliers /\ R # w /\ Workers \subseteq Appliers
  BY ProjectionAssumption DEF Appliers, R
<1> HIDE DEF n
<1>7. ViewTypes' /\ DocInv'
  BY <1>1, <1>5 DEF ViewInv, ViewTypes, DocInv
<1>8. ApplyInv'
  BY <1>1, <1>3, <1>4, <1>5 DEF ViewInv, ApplyInv, Active
<1>9. Active(R)' <=> Active(R)
  BY <1>5, <1>6 DEF Active
<1>10. AloneInv' /\ ReplayInv'
  BY <1>1, <1>5, <1>6, <1>9 DEF ViewInv, AloneInv, ReplayInv, Rebuilding
<1>11. OffsetInv'
  BY <1>1, <1>2, <1>5, <1>6 DEF ViewInv, OffsetInv, Rebuilding, Active, n, RunbookFollowed
<1> QED BY <1>1, <1>2, <1>7, <1>8, <1>10, <1>11 DEF ViewInv

\* An applier becomes idle, or stays so.
LEMMA IdleKeeps ==
  ASSUME ViewInv, NEW a \in Appliers,
         apply' = [apply EXCEPT ![a] = Idle] \/ apply' = apply,
         UNCHANGED <<view, inbox, kind, stage, rows>>
  PROVE  /\ apply' \in [Appliers -> [step : Steps, version : 0 .. LastVersion]]
         /\ DocInv' /\ ApplyInv' /\ AloneInv'
         /\ \A b \in Appliers : Active(b)' => Active(b) /\ apply'[b] = apply[b]
<1>1. apply \in [Appliers -> [step : Steps, version : 0 .. LastVersion]]
  BY DEF ViewInv, ViewTypes
<1>2. Idle \in [step : Steps, version : 0 .. LastVersion]
  BY RelayAssumption DEF Idle, Steps
<1>3. apply' \in [Appliers -> [step : Steps, version : 0 .. LastVersion]]
  BY <1>1, <1>2
<1>4. \A b \in Appliers : apply'[b] = apply[b] \/ apply'[b] = Idle
  BY <1>1
<1>5. \A b \in Appliers : Active(b)' => apply'[b] = apply[b] /\ Active(b)
  BY <1>4 DEF Active, Idle
<1>6. DocInv'
  BY DEF ViewInv, DocInv
<1>7. ApplyInv'
  BY <1>4 DEF ViewInv, ApplyInv, Active, Idle
<1>8. AloneInv'
  BY <1>5 DEF ViewInv, AloneInv, Rebuilding, Appliers, R
<1> QED BY <1>3, <1>5, <1>6, <1>7, <1>8

LEMMA HandledKeeps ==
  ASSUME RunbookFollowed, ViewInv, NEW w \in Workers, Handled(w),
         UNCHANGED <<kind, stage, rows>>
  PROVE  ViewInv' /\ UNCHANGED view
<1>1. /\ UNCHANGED <<relayVars, view, inbox, owner, offset, kind, stage, rows>>
      /\ apply' = [apply EXCEPT ![w] = Idle] /\ Active(w)
      /\ w \in Appliers /\ R \in Appliers /\ Workers \subseteq Appliers /\ R # w
  BY ProjectionAssumption DEF Handled, mongo, Appliers, Active, R
<1>2. RelayInv' /\ log' = log
  BY <1>1, RelayStep DEF ViewInv, relayVars
<1>3. w = owner /\ position' = position + 1 /\ position \in Nat /\ offset \in Nat
  BY DEF Handled, RunbookFollowed, ViewInv, ViewTypes
<1>4. /\ DocInv' /\ ApplyInv' /\ AloneInv' /\ ViewTypes'
      /\ \A b \in Appliers : Active(b)' => Active(b) /\ apply'[b] = apply[b]
  <2>1. /\ DocInv' /\ ApplyInv' /\ AloneInv'
        /\ apply' \in [Appliers -> [step : Steps, version : 0 .. LastVersion]]
        /\ \A b \in Appliers : Active(b)' => Active(b) /\ apply'[b] = apply[b]
    BY <1>1, IdleKeeps
  <2>2. position' \in Nat
    BY <1>3
  <2> QED BY <1>1, <2>1, <2>2 DEF ViewInv, ViewTypes
<1>5. /\ position < Len(log) /\ log[position + 1] <= view.version /\ Len(log) \in Nat
      /\ stage # "replaying"
  BY <1>1 DEF Handled, ViewInv, OffsetInv, ApplyInv, AloneInv, Rebuilding, RelayInv,
     RelayTypeOK
<1>6. \A v \in Workers : ~Active(v)'
  <2>1. ~Active(w)'
    BY <1>1 DEF Active, Idle, ViewInv, ViewTypes
  <2> QED BY <2>1 DEF RunbookFollowed
<1>7. OffsetInv'
  BY <1>1, <1>2, <1>3, <1>5, <1>6 DEF ViewInv, OffsetInv, Rebuilding
<1> QED BY <1>1, <1>2, <1>4, <1>5, <1>7 DEF ViewInv, ReplayInv

LEMMA CommitOffsetKeeps ==
  ASSUME ViewInv, CommitOffset, UNCHANGED <<kind, stage, rows>>
  PROVE  ViewInv' /\ UNCHANGED view
<1>1. /\ UNCHANGED <<relayVars, view, inbox, apply, owner, position, kind, stage, rows>>
      /\ offset' = position
  BY DEF CommitOffset, mongo
<1>2. RelayInv' /\ log' = log
  BY <1>1, RelayStep DEF ViewInv, relayVars
<1> QED BY <1>1, <1>2 DEF ViewInv, ViewTypes, DocInv, ApplyInv, AloneInv, OffsetInv,
  ReplayInv, Ahead, Active, Rebuilding

\* The next worker starts from the committed offset, which is not past what
\* was handled.
LEMMA TakeoverKeeps ==
  ASSUME RunbookFollowed, ViewInv, NEW w \in Workers, Takeover(w),
         UNCHANGED <<kind, stage, rows>>
  PROVE  ViewInv' /\ UNCHANGED view
<1>1. /\ w = owner /\ w \in Appliers /\ R \in Appliers /\ Workers \subseteq Appliers /\ R # w
      /\ offset \in Nat /\ position \in Nat /\ offset <= position
  BY ProjectionAssumption DEF RunbookFollowed, ViewInv, ViewTypes, Appliers, R, OffsetInv
<1>2. /\ UNCHANGED <<outbox, batch, published, log, view, inbox, offset, kind, stage, rows>>
      /\ crashes < MaxCrashes /\ crashes' = crashes + 1
      /\ owner' = w /\ apply' = [apply EXCEPT ![w] = Idle]
      /\ position' = offset
  BY <1>1 DEF Takeover, mongo, Resume, NoOffset
<1>3. RelayInv'
  <2>1. crashes' \in 0 .. MaxCrashes
    BY <1>2, RelayAssumption DEF ViewInv, RelayInv, RelayTypeOK
  <2> QED BY <1>2, <2>1 DEF ViewInv, RelayInv, RelayTypeOK, Committed, InLog, Oldest,
       OutboxIsFaithful, FirstSentInOrder, SentIsPublished
<1>4. /\ DocInv' /\ ApplyInv' /\ AloneInv' /\ ViewTypes'
      /\ \A b \in Appliers : Active(b)' => Active(b) /\ apply'[b] = apply[b]
  BY <1>1, <1>2, IdleKeeps DEF ViewInv, ViewTypes
<1>5. \A v \in Workers : ~Active(v)'
  <2>1. ~Active(w)'
    BY <1>1, <1>2 DEF Active, Idle, ViewInv, ViewTypes
  <2> QED BY <2>1 DEF RunbookFollowed
<1>6. apply'[R] = apply[R]
  BY <1>1, <1>2 DEF ViewInv, ViewTypes
<1>7. OffsetInv' /\ ReplayInv'
  <2>1. Len(log) \in Nat /\ \A i \in 1 .. offset : i \in 1 .. position
    BY <1>1 DEF ViewInv, RelayInv, RelayTypeOK
  <2> QED BY <1>1, <1>2, <1>5, <1>6, <2>1 DEF ViewInv, OffsetInv, ReplayInv, Ahead,
       Active, Rebuilding
<1> QED BY <1>2, <1>3, <1>4, <1>7 DEF ViewInv

\* The rebuild's own steps.
LEMMA RebuildKeeps ==
  ASSUME RunbookFollowed, ViewInv, UNCHANGED kind,
         \/ DeleteViews \/ DeleteInbox \/ ReadRows \/ Replay \/ Replayed \/ RebuildEnds
  PROVE  ViewInv' /\ (UNCHANGED view \/ stage' = "viewsDeleted")
<1>0. /\ UNCHANGED <<outbox, batch, published, log, crashes, owner, position, offset, kind>>
      /\ RelayInv' /\ R \in Appliers /\ Workers \subseteq Appliers /\ R \notin Workers
  <2>1. UNCHANGED relayVars /\ UNCHANGED worker
    <3>1. CASE DeleteViews \/ DeleteInbox \/ Replay \/ Replayed
      BY <3>1 DEF DeleteViews, DeleteInbox, Replay, Replayed
    <3>2. CASE ReadRows \/ RebuildEnds
      BY <3>2 DEF ReadRows, RebuildEnds, vars, worker
    <3> QED BY <3>1, <3>2
  <2> QED BY <2>1, RelayStep, ProjectionAssumption DEF ViewInv, relayVars, worker,
       Appliers, R
<1>t. /\ position \in Nat /\ Len(log) \in Nat /\ log \in Seq(Versions)
      /\ position <= Len(log)
      /\ \A i \in 1 .. position : i \in 1 .. Len(log) /\ log[i] \in Versions
  BY DEF ViewInv, ViewTypes, OffsetInv, RelayInv, RelayTypeOK
<1>1. CASE DeleteViews
  <2>1. /\ view' = NoView /\ stage' = "viewsDeleted" /\ UNCHANGED <<inbox, apply, rows>>
        /\ \A a \in Appliers : ~Active(a)
    BY <1>1 DEF DeleteViews, RunbookFollowed, AllIdle, Active
  <2>2. /\ NoView \in [version : 0 .. LastVersion, events : SUBSET Versions]
        /\ NoView.version = 0 /\ NoView.events = 1 .. 0
    BY RelayAssumption DEF NoView
  <2>3. ViewTypes' /\ DocInv'
    BY <1>0, <2>1, <2>2 DEF ViewInv, ViewTypes, DocInv
  <2>4. ApplyInv' /\ AloneInv' /\ OffsetInv' /\ ReplayInv'
    BY <1>0, <2>1 DEF ViewInv, ApplyInv, AloneInv, OffsetInv, ReplayInv, Active, Rebuilding
  <2> QED BY <1>0, <2>1, <2>3, <2>4 DEF ViewInv
<1>2. CASE DeleteInbox
  <2>1. /\ stage = "viewsDeleted" /\ stage' = "inboxDeleted" /\ inbox' = {}
        /\ UNCHANGED <<view, apply, rows>>
    BY <1>2 DEF DeleteInbox
  <2> QED BY <1>0, <2>1 DEF ViewInv, ViewTypes, DocInv, ApplyInv, AloneInv, OffsetInv,
       ReplayInv, Active, Rebuilding
<1>3. CASE ReadRows
  <2>1. /\ stage = "inboxDeleted" /\ stage' = "replaying"
        /\ rows' = {n \in Versions : Committed(n)}
        /\ UNCHANGED <<view, inbox, apply>>
    BY <1>3 DEF ReadRows, vars, mongo
  <2>2. \A i \in 1 .. position : log[i] \in rows'
    BY <1>t, <2>1 DEF ViewInv, RelayInv, OutboxIsFaithful, FirstSentInOrder
  <2>3. \A n \in rows' : \A m \in 1 .. n - 1 : m \in rows'
    <3>1. \A n \in Versions : \A m \in 1 .. n - 1 : m \in Versions
      BY RelayAssumption DEF Versions
    <3> QED BY <2>1, <3>1 DEF ViewInv, RelayInv
  <2>4. ReplayInv'
    BY <1>0, <2>2, <2>3 DEF ReplayInv, Ahead
  <2> QED BY <1>0, <2>1, <2>4 DEF ViewInv, ViewTypes, DocInv, ApplyInv, AloneInv,
       OffsetInv, Active, Rebuilding
<1>4. CASE Replay
  <2>1. PICK n \in Versions :
          /\ stage = "replaying" /\ ~Active(R) /\ Oldest(n, rows)
          /\ apply' = [apply EXCEPT ![R] = [step |-> "received", version |-> n]]
          /\ rows' = rows \ {n} /\ UNCHANGED <<view, inbox, stage>>
    BY <1>4 DEF Replay, mongo, Active
  <2>2. /\ apply'[R] = [step |-> "received", version |-> n] /\ Active(R)'
        /\ \A w \in Appliers \ {R} : apply'[w] = apply[w]
        /\ apply' \in [Appliers -> [step : Steps, version : 0 .. LastVersion]]
    <3>1. [step |-> "received", version |-> n] \in [step : Steps, version : 0 .. LastVersion]
      BY RelayAssumption DEF Steps, Versions
    <3> QED BY <1>0, <2>1, <3>1 DEF ViewInv, ViewTypes, Active
  <2>3. view.version \in Nat /\ rows \subseteq Versions /\ n \in rows
    BY <2>1, RelayAssumption DEF ViewInv, ViewTypes, Oldest
  <2>4. n <= view.version + 1
    <3>1. CASE n = 1
      BY <2>3, <3>1
    <3>2. CASE n # 1
      <4>1. n - 1 \in 1 .. n - 1 /\ n - 1 \notin rows
        BY <2>1, <3>2 DEF Oldest, Versions
      <4>2. n - 1 <= view.version
        BY <2>1, <2>3, <4>1 DEF ViewInv, ReplayInv, Ahead
      <4> QED BY <2>3, <4>2 DEF Versions
    <3> QED BY <3>1, <3>2
  <2>5. \A m \in Nat : Ahead(m) => Ahead(m)'
    BY <2>1, <2>2 DEF Ahead
  <2>6. ReplayInv'
    <3>1. \A k \in rows : \A m \in 1 .. k - 1 : m \in Nat
      OBVIOUS
    <3>2. \A i \in 1 .. position : log[i] \in Nat
      BY <1>t DEF Versions
    <3> QED BY <1>0, <2>1, <2>5, <3>1, <3>2 DEF ViewInv, ReplayInv
  <2>7. ApplyInv'
    BY <2>1, <2>2, <2>4 DEF ViewInv, ApplyInv, Active
  <2>8. AloneInv' /\ OffsetInv'
    BY <1>0, <2>1, <2>2 DEF ViewInv, AloneInv, OffsetInv, Active, Rebuilding
  <2> QED BY <1>0, <2>1, <2>2, <2>6, <2>7, <2>8 DEF ViewInv, ViewTypes, DocInv
<1>5. CASE Replayed
  <2>1. /\ apply[R].step = "processed" /\ apply' = [apply EXCEPT ![R] = Idle]
        /\ UNCHANGED <<view, inbox, stage, rows>>
    BY <1>5 DEF Replayed, mongo
  <2>2. /\ DocInv' /\ ApplyInv' /\ AloneInv' /\ ViewTypes'
        /\ \A b \in Appliers : Active(b)' => Active(b) /\ apply'[b] = apply[b]
    BY <1>0, <2>1, IdleKeeps DEF ViewInv, ViewTypes
  <2>3. apply[R].version <= view.version
    BY <1>0, <2>1 DEF ViewInv, ApplyInv
  <2>4. \A m : Ahead(m) => Ahead(m)'
    BY <2>1, <2>3 DEF Ahead
  <2>5. OffsetInv' /\ ReplayInv'
    BY <1>0, <2>1, <2>2, <2>4 DEF ViewInv, OffsetInv, ReplayInv, Rebuilding
  <2> QED BY <1>0, <2>1, <2>2, <2>5 DEF ViewInv
<1>6. CASE RebuildEnds
  <2>1. /\ stage = "replaying" /\ stage' = "done" /\ rows = {} /\ ~Active(R)
        /\ UNCHANGED <<view, inbox, apply, rows>>
    BY <1>6 DEF RebuildEnds, vars, mongo, Active
  <2>2. \A i \in 1 .. position : log[i] <= view.version
    BY <2>1 DEF ViewInv, ReplayInv, Ahead
  <2> QED BY <1>0, <2>1, <2>2 DEF ViewInv, ViewTypes, DocInv, ApplyInv, AloneInv,
       OffsetInv, ReplayInv, Active, Rebuilding
<1>7. ~DeleteViews => UNCHANGED view
  BY DEF DeleteInbox, ReadRows, Replay, Replayed, RebuildEnds, vars, mongo
<1>8. DeleteViews => stage' = "viewsDeleted"
  BY DEF DeleteViews
<1> QED BY <1>1, <1>2, <1>3, <1>4, <1>5, <1>6, <1>7, <1>8

LEMMA ViewStep ==
  ASSUME RunbookFollowed, ViewInv, [RebuildNext]_rebuildVars
  PROVE  /\ ViewInv'
         /\ view' = view \/ view.version <= view'.version \/ stage' = "viewsDeleted"
<1>1. CASE UNCHANGED rebuildVars
  <2>1. /\ UNCHANGED <<relayVars, view, inbox, owner, position, offset, apply>>
        /\ UNCHANGED <<kind, stage, rows>>
    BY <1>1 DEF rebuildVars, vars, mongo, worker
  <2>2. RelayInv' /\ log' = log
    BY <2>1, RelayStep DEF ViewInv, relayVars
  <2> QED BY <2>1, <2>2 DEF ViewInv, ViewTypes, DocInv, ApplyInv, AloneInv, OffsetInv,
       ReplayInv, Ahead, Active, Rebuilding
<1>2. CASE UNCHANGED kind /\ RebuildStep
  <2>1. CASE ApplyEvent(R) /\ UNCHANGED <<stage, rows>>
    BY <1>2, <2>1, HandlerKeeps DEF Appliers, R
  <2>2. CASE \/ DeleteViews \/ DeleteInbox \/ ReadRows \/ Replay \/ Replayed
             \/ RebuildEnds
    BY <1>2, <2>2, RebuildKeeps
  <2> QED BY <1>2, <2>1, <2>2 DEF RebuildStep
<1>3. CASE /\ Next /\ UNCHANGED <<stage, rows>>
           /\ WorkerStopped /\ Rebuilding => UNCHANGED <<apply, worker>>
  <2>1. UNCHANGED <<kind, stage, rows>>
    BY <1>3 DEF Next
  <2>2. CASE RelayNext /\ UNCHANGED <<mongo, worker, apply>>
    BY <2>1, <2>2, RelayKeepsViews
  <2>3. ASSUME NEW w \in Workers, Worker(w)
        PROVE  ViewInv' /\ (view' = view \/ view.version <= view'.version)
    <3>1. CASE Receive(w)
      <4>1. ~Rebuilding
        <5>1. apply'[w].step = "received" /\ apply[w].step = "idle"
          BY <3>1 DEF Receive, ViewInv, ViewTypes, Appliers
        <5> QED BY <1>3, <5>1 DEF RunbookFollowed
      <4> QED BY <2>1, <3>1, <4>1, ReceiveKeeps
    <3>2. CASE ApplyEvent(w)
      BY <2>1, <3>2, HandlerKeeps DEF Appliers
    <3>3. CASE Handled(w)
      BY <2>1, <3>3, HandledKeeps
    <3> QED BY <2>3, <3>1, <3>2, <3>3 DEF Worker
  <2>4. ASSUME NEW w \in Workers, Takeover(w)
        PROVE  ViewInv' /\ view' = view
    BY <2>1, <2>4, TakeoverKeeps
  <2>5. CASE CommitOffset
    BY <2>1, <2>5, CommitOffsetKeeps
  <2> QED BY <1>3, <2>2, <2>3, <2>4, <2>5 DEF Next
<1> QED BY <1>1, <1>2, <1>3 DEF RebuildNext

\* The document is a prefix of its stream in every state, however often events
\* are sent or delivered twice, wherever the worker stops between the four
\* calls of its handler, and while a rebuild replays (projection.ts).
THEOREM ViewIsAlwaysPrefix ==
  ASSUME RunbookFollowed
  PROVE  RebuildSpec => []ViewIsPrefix
<1>1. RebuildInit => ViewInv
  BY ViewInitInv
<1>2. ViewInv /\ [RebuildNext]_rebuildVars => ViewInv'
  BY ViewStep
<1>3. ViewInv => ViewIsPrefix
  BY DEF ViewInv, DocInv, ViewIsPrefix
<1> QED BY <1>1, <1>2, <1>3, PTL DEF RebuildSpec

\* Outside of a rebuild nothing is marked processed that is not shown, and when
\* relay and worker have nothing left to do the document has every committed
\* event (rebuild.ts run as the runbook says).
THEOREM RebuildIsComplete ==
  ASSUME RunbookFollowed
  PROVE  RebuildSpec => []RebuiltIsComplete
<1>1. RebuildInit => ViewInv
  BY ViewInitInv
<1>2. ViewInv /\ [RebuildNext]_rebuildVars => ViewInv'
  BY ViewStep
<1>3. ViewInv => RebuiltIsComplete
  <2> SUFFICES ASSUME ViewInv, ~Rebuilding
               PROVE  ProcessedIsShown /\ UpToDateWhenDrained
    BY DEF RebuiltIsComplete
  <2>1. \A n \in Versions : n <= view.version => Shown(n)
    BY RelayAssumption DEF ViewInv, ViewTypes, DocInv, Shown, Versions
  <2>2. ProcessedIsShown
    BY <2>1 DEF ViewInv, ViewTypes, DocInv, ProcessedIsShown, Rebuilding
  <2>3. ASSUME Drained, NEW n \in Versions, Committed(n) PROVE Shown(n)
    <3>1. outbox[n] = "SENT"
      BY <2>3 DEF Drained, Pending, Committed, ViewInv, RelayInv, RelayTypeOK
    <3>2. PICK i \in 1 .. Len(log) : log[i] = n
      BY <3>1 DEF ViewInv, RelayInv, OutboxIsFaithful, SentIsPublished
    <3>3. n <= view.version
      BY <2>3, <3>2 DEF Drained, ViewInv, OffsetInv
    <3> QED BY <2>1, <3>3
  <2> QED BY <2>2, <2>3 DEF UpToDateWhenDrained
<1> QED BY <1>1, <1>2, <1>3, PTL DEF RebuildSpec

\* The document goes back to an earlier version only where a rebuild empties
\* the collection, although no call of the handler is in a transaction.
THEOREM DocumentMovesForward ==
  ASSUME RunbookFollowed
  PROVE  RebuildSpec => MovesForward
<1>1. RebuildInit => ViewInv
  BY ViewInitInv
<1>2. ViewInv /\ [RebuildNext]_rebuildVars => ViewInv'
  BY ViewStep
<1>3. ViewInv /\ ViewInv' /\ [RebuildNext]_rebuildVars =>
        [view'.version >= view.version \/ stage' = "viewsDeleted"]_view
  <2> SUFFICES ASSUME ViewInv, ViewInv', [RebuildNext]_rebuildVars, view' # view
               PROVE  view'.version >= view.version \/ stage' = "viewsDeleted"
    OBVIOUS
  <2>1. view.version <= view'.version \/ stage' = "viewsDeleted"
    BY ViewStep
  <2>2. view.version \in Nat /\ view'.version \in Nat
    BY RelayAssumption DEF ViewInv, ViewTypes
  <2> QED BY <2>1, <2>2
<1> QED BY <1>1, <1>2, <1>3, PTL DEF RebuildSpec, MovesForward
=============================================================================
