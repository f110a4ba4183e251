--------------------------- MODULE DriverAppProofs ---------------------------
(***************************************************************************)
(* Proofs about the driver's page and the merchant's map (DriverApp), for  *)
(* any number of orders, events, lost streams and messages read twice.     *)
(*                                                                         *)
(* LogInv: an order is accepted at most once and never offered again after *)
(* that.  MineInv: whatever is on its way to the page is of an order that  *)
(* was offered to Me or accepted by Me.  SoundInv: what the page will show *)
(* when all that is under way has arrived (Coming) is not behind the events*)
(* that were fed; this is what PageIsCurrent says once nothing is under    *)
(* way.  MapInv: an event that was fed since the stream opened is under way*)
(* or on the map, and the seed covers what was fed before.                 *)
(***************************************************************************)
EXTENDS DriverApp, WellFoundedInduction, TLAPS

-----------------------------------------------------------------------------
(* The operators of the log.                                               *)

LEMMA GreatestOf ==
  ASSUME NEW n \in Nat, NEW S \in SUBSET (1 .. n), S # {}
  PROVE  \E i \in S : \A j \in S : j <= i
<1> DEFINE R == {ss \in Nat \X Nat : ss[1] < ss[2]}
           T == {n - i : i \in S}
<1>1. IsWellFoundedOn(R, Nat)
  BY NatLessThanWellFounded DEF OpToRel
<1>2. T \subseteq Nat /\ T # {}
  <2>1. \A i \in S : n - i \in Nat
    OBVIOUS
  <2> QED BY <2>1
<1> HIDE DEF R
<1>3. PICK x \in T : \A y \in T : ~(<<y, x>> \in R)
  BY <1>1, <1>2, WFMin
<1>4. \A y \in T : ~(y < x)
  BY <1>2, <1>3 DEF R
<1>5. PICK i \in S : x = n - i
  OBVIOUS
<1>6. \A j \in S : ~(n - j < n - i)
  BY <1>4, <1>5
<1> QED BY <1>6

\* LatestOf and AcceptedBy, of any log.
Latest(s, o, n) ==
  LET of == {i \in 1 .. n : s[i].order = o}
  IN IF of = {} THEN 0 ELSE CHOOSE i \in of : \A j \in of : j <= i
Accepter(s, o, n) ==
  LET a == {i \in 1 .. n : s[i].order = o /\ s[i].status = "DISPATCHED"}
  IN IF a = {} THEN None ELSE s[CHOOSE i \in a : TRUE].driver
Taken(s, o, n) ==
  \E i \in 1 .. n : s[i].order = o /\ s[i].status = "DISPATCHED" /\ s[i].driver = Me

LEMMA LatestIs ==
  ASSUME NEW s, NEW o, NEW n \in Nat
  PROVE  /\ Latest(s, o, n) \in 0 .. n
         /\ Latest(s, o, n) # 0 => s[Latest(s, o, n)].order = o
         /\ \A i \in 1 .. n : s[i].order = o => i <= Latest(s, o, n)
<1> DEFINE of == {i \in 1 .. n : s[i].order = o}
<1>1. CASE of = {}
  BY <1>1 DEF Latest
<1>2. CASE of # {}
  <2>1. \E i \in of : \A j \in of : j <= i
    BY <1>2, GreatestOf
  <2>2. Latest(s, o, n) \in of /\ \A j \in of : j <= Latest(s, o, n)
    BY <1>2, <2>1 DEF Latest
  <2> QED BY <2>2
<1> QED BY <1>1, <1>2

\* A log that agrees on the first n events has the same latest one.
LEMMA LatestFixed ==
  ASSUME NEW s, NEW t, NEW o, NEW n \in Nat, \A i \in 1 .. n : s[i] = t[i]
  PROVE  Latest(s, o, n) = Latest(t, o, n)
<1> DEFINE a == {i \in 1 .. n : s[i].order = o}
           b == {i \in 1 .. n : t[i].order = o}
<1>1. a = b
  OBVIOUS
<1>2. Latest(s, o, n) = IF a = {} THEN 0 ELSE CHOOSE i \in a : \A j \in a : j <= i
  BY DEF Latest
<1>3. Latest(t, o, n) = IF b = {} THEN 0 ELSE CHOOSE i \in b : \A j \in b : j <= i
  BY DEF Latest
<1> HIDE DEF a, b
<1> QED BY <1>1, <1>2, <1>3

\* No order is accepted twice, or offered once it is accepted.
Story(s) ==
  /\ s \in Seq(Views)
  /\ \A i, j \in 1 .. Len(s) :
       i < j /\ s[i].order = s[j].order /\ s[i].status = "DISPATCHED"
         => s[j].status \in {"PICKED_UP", "DELIVERED", "FAILED"}
  /\ \A i \in 1 .. Len(s) :
       s[i].driver # None <=> s[i].status \in {"OFFERED", "DISPATCHED"}

LEMMA AccepterIs ==
  ASSUME NEW s, Story(s), NEW o, NEW n \in 0 .. Len(s)
  PROVE  Accepter(s, o, n) = Me <=> Taken(s, o, n)
<1> DEFINE a == {i \in 1 .. n : s[i].order = o /\ s[i].status = "DISPATCHED"}
<1>1. CASE a = {}
  BY <1>1, FeedAssumption DEF Accepter, Taken
<1>2. CASE a # {}
  <2>1. PICK c \in a : Accepter(s, o, n) = s[c].driver
    BY <1>2 DEF Accepter
  <2>2. Len(s) \in Nat
    BY DEF Story
  <2>3. ASSUME NEW i \in a PROVE i = c
    <3>1. i \in 1 .. Len(s) /\ c \in 1 .. Len(s)
      BY <2>2
    <3>2. ~(i < c) /\ ~(c < i)
      BY <3>1 DEF Story
    <3> QED BY <3>1, <3>2
  <2> QED BY <2>1, <2>3 DEF Taken
<1> QED BY <1>1, <1>2

LEMMA TheLog ==
  ASSUME NEW o, NEW n
  PROVE  LatestOf(o, n) = Latest(log, o, n) /\ AcceptedBy(o, n) = Accepter(log, o, n)
BY DEF LatestOf, AcceptedBy, Latest, Accepter

-----------------------------------------------------------------------------
(* The workflows.                                                          *)

LogInv ==
  /\ Story(log)
  /\ doc \in 0 .. Len(log) /\ fed \in 0 .. Len(log)
  /\ candidate \in [Orders -> Drivers \cup {None}]

\* What was recorded stays.
Grows(s, t) == Len(s) <= Len(t) /\ \A i \in 1 .. Len(s) : t[i] = s[i]

LEMMA Undecided ==
  ASSUME Story(log), NEW o \in Orders, Now(o) \in {"NONE", "OFFERED"}
  PROVE  \A i \in 1 .. Len(log) : log[i].order = o => log[i].status # "DISPATCHED"
<1> DEFINE l == Latest(log, o, Len(log))
<1>1. Len(log) \in Nat
  BY DEF Story
<1>2. /\ l \in 0 .. Len(log) /\ (l # 0 => log[l].order = o)
      /\ \A i \in 1 .. Len(log) : log[i].order = o => i <= l
  BY <1>1, LatestIs
<1>3. l # 0 => log[l].status \in {"NONE", "OFFERED"}
  BY TheLog DEF Now, StatusOf
<1> HIDE DEF l
<1> SUFFICES ASSUME NEW i \in 1 .. Len(log), log[i].order = o, log[i].status = "DISPATCHED"
             PROVE  FALSE
  OBVIOUS
<1>4. l \in 1 .. Len(log) /\ i <= l
  BY <1>1, <1>2
<1>5. i = l
  BY <1>1, <1>2, <1>3, <1>4 DEF Story
<1> QED BY <1>3, <1>4, <1>5

\* Recording an event that the order's story allows.
LEMMA RecordKeeps ==
  ASSUME Story(log), NEW o \in Orders, NEW st \in Statuses, NEW d \in Drivers \cup {None},
         d # None <=> st \in {"OFFERED", "DISPATCHED"},
         st \in {"OFFERED", "DISPATCHED"} =>
           \A i \in 1 .. Len(log) : log[i].order = o => log[i].status # "DISPATCHED",
         Emit(o, st, d)
  PROVE  /\ Story(log') /\ Grows(log, log')
         /\ Len(log') = Len(log) + 1
         /\ log'[Len(log) + 1] = [order |-> o, status |-> st, driver |-> d]
<1> DEFINE e == [order |-> o, status |-> st, driver |-> d]
<1>1. log \in Seq(Views) /\ e \in Views /\ log' = Append(log, e)
  BY DEF Story, Emit, Views
<1> HIDE DEF e
<1>2. /\ log' \in Seq(Views) /\ Len(log') = Len(log) + 1 /\ Len(log) \in Nat
      /\ log'[Len(log) + 1] = e /\ \A i \in 1 .. Len(log) : log'[i] = log[i]
  BY <1>1
<1>3. \A i \in 1 .. Len(log') : i \in 1 .. Len(log) \/ i = Len(log) + 1
  BY <1>2
<1>4. e.order = o /\ e.status = st /\ e.driver = d
  BY DEF e
<1>5. ASSUME NEW i \in 1 .. Len(log'), NEW j \in 1 .. Len(log'), i < j,
             log'[i].order = log'[j].order, log'[i].status = "DISPATCHED"
      PROVE  log'[j].status \in {"PICKED_UP", "DELIVERED", "FAILED"}
  <2>1. i \in 1 .. Len(log)
    BY <1>2, <1>5
  <2>2. CASE j \in 1 .. Len(log)
    BY <1>2, <1>5, <2>1, <2>2 DEF Story
  <2>3. CASE j = Len(log) + 1
    <3>1. log[i].order = o /\ log[i].status = "DISPATCHED" /\ log'[j].status = st
      BY <1>2, <1>4, <1>5, <2>1, <2>3
    <3> QED BY <2>1, <3>1 DEF Statuses
  <2> QED BY <1>3, <2>2, <2>3
<1>6. \A i \in 1 .. Len(log') :
        log'[i].driver # None <=> log'[i].status \in {"OFFERED", "DISPATCHED"}
  BY <1>2, <1>3, <1>4 DEF Story
<1>7. Story(log')
  BY <1>2, <1>5, <1>6 DEF Story
<1>8. Grows(log, log')
  BY <1>2 DEF Grows
<1> QED BY <1>2, <1>7, <1>8 DEF e

LEMMA GrowsSame == Story(log) /\ log' = log => Grows(log, log')
BY DEF Grows, Story

LEMMA TriedIs ==
  ASSUME Story(log), NEW o PROVE Tried(o) \subseteq Drivers
<1> SUFFICES ASSUME NEW i \in DOMAIN log, log[i].status = "OFFERED" PROVE log[i].driver \in Drivers
  BY DEF Tried
<1>1. i \in 1 .. Len(log) /\ log[i] \in Views
  BY DEF Story
<1> QED BY <1>1 DEF Story, Views

LEMMA WorkflowsKeep ==
  ASSUME LogInv, NEW o \in Orders, Select(o) \/ RecordOffered(o) \/ RecordStep(o)
  PROVE  LogInv' /\ Grows(log, log') /\ UNCHANGED <<doc, fed, online>>
<1> USE DEF LogInv
<1>0. Len(log) \in Nat /\ None \notin Drivers
  BY FeedAssumption DEF Story, Drivers
<1>1. CASE Select(o)
  <2>1. PICK d \in Drivers : candidate' = [candidate EXCEPT ![o] = d]
    BY <1>1 DEF Select
  <2>2. candidate' \in [Orders -> Drivers \cup {None}]
    BY <2>1
  <2>3. UNCHANGED <<log, doc, fed, online>>
    BY <1>1 DEF Select
  <2> QED BY <2>2, <2>3, GrowsSame
<1>2. CASE RecordOffered(o) \/ RecordStep(o)
  <2> DEFINE l == LatestOf(o, Len(log))
  <2>1. UNCHANGED <<candidate, doc, fed, online>>
    BY <1>2 DEF RecordOffered, RecordStep
  <2>2. /\ l \in 0 .. Len(log)
        /\ Now(o) \in {"NONE", "OFFERED"} =>
             \A i \in 1 .. Len(log) : log[i].order = o => log[i].status # "DISPATCHED"
    BY <1>0, Undecided, LatestIs, TheLog DEF Story
  <2>3. PICK st \in Statuses, d \in Drivers \cup {None} :
          /\ Emit(o, st, d)
          /\ d # None <=> st \in {"OFFERED", "DISPATCHED"}
          /\ st \in {"OFFERED", "DISPATCHED"} => Now(o) \in {"NONE", "OFFERED"}
    <3>1. CASE RecordOffered(o)
      <4>1. \E d \in Drivers : Emit(o, "OFFERED", d)
        BY <1>0, <3>1, TriedIs DEF RecordOffered, Offered
      <4> QED BY <1>0, <3>1, <4>1 DEF Statuses, RecordOffered
    <3>2. CASE RecordStep(o)
      <4>1. \/ /\ Now(o) = "OFFERED" /\ log[l].driver = candidate[o]
               /\ Emit(o, "DISPATCHED", candidate[o])
            \/ \E st \in {"PICKED_UP", "DELIVERED", "FAILED"} : Emit(o, st, None)
        BY <3>2 DEF RecordStep
      <4>2. CASE /\ Now(o) = "OFFERED" /\ log[l].driver = candidate[o]
                 /\ Emit(o, "DISPATCHED", candidate[o])
        <5>1. l # 0 /\ log[l].status = "OFFERED"
          BY <4>2 DEF Now, StatusOf
        <5>2. log[l].driver # None
          BY <1>0, <2>2, <5>1 DEF Story
        <5>3. candidate[o] \in Drivers
          BY <4>2, <5>2
        <5> QED BY <1>0, <4>2, <5>3 DEF Statuses
      <4>3. CASE \E st \in {"PICKED_UP", "DELIVERED", "FAILED"} : Emit(o, st, None)
        BY <1>0, <4>3 DEF Statuses
      <4> QED BY <4>1, <4>2, <4>3
    <3> QED BY <1>2, <3>1, <3>2
  <2>4. Story(log') /\ Grows(log, log') /\ Len(log') = Len(log) + 1
    BY <2>2, <2>3, RecordKeeps
  <2>5. doc' \in 0 .. Len(log') /\ fed' \in 0 .. Len(log')
    BY <1>0, <2>1, <2>4
  <2> QED BY <2>1, <2>4, <2>5
<1> QED BY <1>1, <1>2

\* The steps by what they touch besides the page's toggle and its cards.
Sides == \/ Accept \/ Reject \/ Pickup \/ Deliver \/ (\E i \in DOMAIN log : OfferExpires(i))
         \/ Toggle \/ UNCHANGED vars

LEMMA Steps ==
  [Next]_vars => \/ Background \/ Feed \/ Redeliver \/ Connect \/ GoLive \/ Disconnect
                 \/ Reload \/ OnMessage \/ MerchantMap \/ Sides
BY DEF Next, Streams, DriverPage, Sides

LEMMA BackgroundIs ==
  Background => /\ \/ \E o \in Orders : Select(o) \/ RecordOffered(o) \/ RecordStep(o)
                   \/ Project
                /\ UNCHANGED <<connVars, page, lapsed, toggleVars, mapVars>>
BY DEF Background, Workflows

LEMMA SidesAre ==
  Sides => /\ UNCHANGED <<log, doc, fed, candidate, conn, wire, sound, mapVars>>
           /\ \/ UNCHANGED page
              \/ \E b : page' = [page EXCEPT !.dismissed = b]
              \/ \E b : page' = [page EXCEPT !.online = b]
<1> SUFFICES ASSUME Sides
             PROVE  /\ UNCHANGED <<log, doc, fed, candidate, conn, wire, sound, mapVars>>
                    /\ \/ UNCHANGED page
                       \/ \E b : page' = [page EXCEPT !.dismissed = b]
                       \/ \E b : page' = [page EXCEPT !.online = b]
  OBVIOUS
<1>1. CASE Accept \/ Pickup \/ Deliver \/ UNCHANGED vars
  BY <1>1 DEF Accept, Pickup, Deliver, Signal, vars, feedVars, connVars, mapVars
<1>2. CASE Reject \/ \E i \in DOMAIN log : OfferExpires(i)
  BY <1>2 DEF Reject, OfferExpires, Signal, feedVars, connVars, mapVars
<1>3. CASE LoadRead \/ Click \/ Applied \/ ToggleFailed \/ \E b \in BOOLEAN : ServedLate(b)
  BY <1>3 DEF LoadRead, Click, Applied, ToggleFailed, ServedLate, feedVars, connVars, mapVars
<1>4. CASE LoadAnswered \/ ToggleAnswered
  BY <1>4 DEF LoadAnswered, ToggleAnswered, Answer, feedVars, connVars, mapVars
<1> QED BY <1>1, <1>2, <1>3, <1>4 DEF Sides, Toggle

LEMMA MapIs ==
  MerchantMap => UNCHANGED <<log, doc, fed, online, candidate, signals, connVars, page,
                             lapsed, toggleVars>>
BY DEF MerchantMap, MapOpens, MapLost, TokenChanges, SeedRead, SeedFails, SeedAnswered,
   MapOnMessage, feedVars

LEMMA FeedIs ==
  ASSUME LogInv, Feed
  PROVE  /\ UNCHANGED <<log, doc, candidate, sound, page>>
         /\ fed' = fed + 1 /\ fed + 1 \in 1 .. Len(log)
         /\ IF conn.state = "live" /\ acceptForDriver(conn.owned, fed + 1)
              THEN wire' = Append(wire, fed + 1) ELSE wire' = wire
         /\ IF conn.state = "live"
              THEN conn' = [conn EXCEPT !.owned = OwnedAfter(conn.owned, fed + 1)]
              ELSE conn' = conn
BY DEF Feed, LogInv, Story

LEMMA LogStep == LogInv /\ [Next]_vars => LogInv' /\ Grows(log, log')
<1> SUFFICES ASSUME LogInv, [Next]_vars PROVE LogInv' /\ Grows(log, log')
  OBVIOUS
<1>0. Len(log) \in Nat
  BY DEF LogInv, Story
<1>1. CASE Background
  <2>1. CASE \E o \in Orders : Select(o) \/ RecordOffered(o) \/ RecordStep(o)
    BY <2>1, WorkflowsKeep
  <2>2. CASE Project
    BY <1>0, <2>2, GrowsSame DEF Project, LogInv
  <2> QED BY <1>1, <2>1, <2>2, BackgroundIs
<1>2. CASE Feed
  BY <1>0, <1>2, FeedIs, GrowsSame DEF LogInv
<1>3. CASE Redeliver
  BY <1>0, <1>3, GrowsSame DEF Redeliver, LogInv
<1>4. CASE Connect \/ GoLive \/ Disconnect \/ Reload \/ OnMessage
  BY <1>4, GrowsSame DEF Connect, GoLive, Disconnect, Reload, OnMessage, LogInv, feedVars
<1>5. CASE MerchantMap
  BY <1>5, MapIs, GrowsSame DEF LogInv
<1>6. CASE Sides
  BY <1>6, SidesAre, GrowsSame DEF LogInv
<1> QED BY <1>1, <1>2, <1>3, <1>4, <1>5, <1>6, Steps

-----------------------------------------------------------------------------
(* What the driver's page is given is the driver's.                        *)

Seen(s, i) ==
  i \in 1 .. Len(s) /\ (s[i].driver = Me \/ Taken(s, s[i].order, Len(s)))

MineInv ==
  /\ page = [shown |-> page.shown, online |-> page.online, dismissed |-> page.dismissed]
  /\ conn \in [state : {"down", "snapshot", "live"}, view : Nat, owned : SUBSET Orders]
  /\ wire \in Seq(Nat)
  /\ page.shown # 0 => Seen(log, page.shown)
  /\ conn.view # 0 => Seen(log, conn.view)
  /\ \A k \in 1 .. Len(wire) : Seen(log, wire[k])
  /\ \A o \in conn.owned : Taken(log, o, Len(log))

LEMMA TakenStays ==
  ASSUME NEW s, NEW t, Story(s), Story(t), Grows(s, t), NEW o, Taken(s, o, Len(s))
  PROVE  Taken(t, o, Len(t))
<1>1. PICK i \in 1 .. Len(s) :
        s[i].order = o /\ s[i].status = "DISPATCHED" /\ s[i].driver = Me
  BY DEF Taken
<1>2. i \in 1 .. Len(t) /\ t[i] = s[i]
  BY DEF Grows, Story
<1> QED BY <1>1, <1>2 DEF Taken

LEMMA SeenStays ==
  ASSUME NEW s, NEW t, Story(s), Story(t), Grows(s, t), NEW i, Seen(s, i)
  PROVE  Seen(t, i)
<1>1. i \in 1 .. Len(t) /\ t[i] = s[i]
  BY DEF Grows, Story, Seen
<1> QED BY <1>1, TakenStays DEF Seen

\* The page, once a view has been put on it.
LEMMA ShownIs ==
  ASSUME MineInv, OnMessage
  PROVE  /\ wire # <<>> /\ wire' = Tail(wire)
         /\ page' = [page EXCEPT !.shown = page'.shown]
         /\ \/ page'.shown = wire[1]
            \/ /\ page'.shown = page.shown /\ page.shown # 0
               /\ log[page.shown].order = log[wire[1]].order /\ ~(wire[1] >= page.shown)
BY DEF OnMessage, MineInv, reduceDispatch

LEMMA MineStep == LogInv /\ MineInv /\ [Next]_vars => MineInv'
<1> SUFFICES ASSUME LogInv, MineInv, [Next]_vars PROVE MineInv'
  OBVIOUS
<1>0. LogInv' /\ Grows(log, log') /\ Story(log) /\ Story(log') /\ Len(log) \in Nat
  BY LogStep DEF LogInv, Story
<1> DEFINE n == Len(log)
<1>1. ASSUME UNCHANGED <<conn, wire>>, page'.shown = page.shown,
             page' = [shown |-> page'.shown, online |-> page'.online,
                      dismissed |-> page'.dismissed]
      PROVE  MineInv'
  BY <1>0, <1>1, SeenStays, TakenStays DEF MineInv
<1>2. CASE Background \/ MerchantMap \/ Redeliver
  BY <1>1, <1>2, BackgroundIs, MapIs DEF Redeliver, connVars, MineInv
<1>3. CASE Sides
  BY <1>1, <1>3, SidesAre DEF MineInv
<1>4. CASE Feed
  <2> DEFINE i == fed + 1
  <2>1. log' = log /\ page' = page /\ i \in 1 .. n
    BY <1>4, FeedIs
  <2>2. ASSUME log[i].status = "DISPATCHED", isForDriver(i) PROVE Taken(log, log[i].order, n)
    BY <2>1, <2>2 DEF isForDriver, Taken
  <2>3. log[i].order \in Orders
    <3>1. log[i] \in Views
      BY <2>1 DEF LogInv, Story
    <3> QED BY <3>1 DEF Views
  <2> HIDE DEF i
  <2>4. \A o \in OwnedAfter(conn.owned, i) : Taken(log, o, n)
    BY <2>2 DEF OwnedAfter, MineInv
  <2>5. OwnedAfter(conn.owned, i) \in SUBSET Orders
    BY <2>3 DEF OwnedAfter, MineInv
  <2>6. /\ conn' \in [state : {"down", "snapshot", "live"}, view : Nat, owned : SUBSET Orders]
        /\ conn'.view = conn.view /\ \A o \in conn'.owned : Taken(log, o, n)
    BY <1>4, <2>4, <2>5, FeedIs DEF MineInv, i
  <2>7. ASSUME acceptForDriver(conn.owned, i) PROVE Seen(log, i)
    BY <2>1, <2>4, <2>7 DEF acceptForDriver, isForDriver, Seen
  <2>8. wire' \in Seq(Nat) /\ \A k \in 1 .. Len(wire') : Seen(log, wire'[k])
    <3>1. CASE wire' = wire
      BY <3>1 DEF MineInv
    <3>2. CASE wire' = Append(wire, i) /\ acceptForDriver(conn.owned, i)
      <4>1. i \in Nat /\ wire \in Seq(Nat)
        BY <2>1 DEF MineInv
      <4>2. /\ Len(wire') = Len(wire) + 1 /\ wire' \in Seq(Nat) /\ Len(wire) \in Nat
            /\ wire'[Len(wire) + 1] = i /\ \A k \in 1 .. Len(wire) : wire'[k] = wire[k]
        BY <3>2, <4>1
      <4>3. \A k \in 1 .. Len(wire') : k \in 1 .. Len(wire) \/ k = Len(wire) + 1
        BY <4>2
      <4> QED BY <2>7, <3>2, <4>2, <4>3 DEF MineInv
    <3> QED BY <1>4, <3>1, <3>2, FeedIs DEF i
  <2> QED BY <2>1, <2>6, <2>8 DEF MineInv
<1>5. CASE Connect
  <2>1. PICK v \in {0} \cup ForDriver(Me, doc) :
          conn' = [conn EXCEPT !.state = "snapshot", !.view = v]
    BY <1>5 DEF Connect
  <2>2. ASSUME v # 0 PROVE v \in Nat /\ Seen(log, v)
    <3>1. PICK o \in Orders : v = LatestOf(o, doc)
      BY <2>1, <2>2 DEF ForDriver
    <3>2. v \in 1 .. doc /\ doc \in 0 .. n
      BY <2>2, <3>1, LatestIs, TheLog DEF LogInv
    <3>3. \/ log[v].driver = Me
          \/ AcceptedBy(log[v].order, doc) = Me
      BY <2>1, <2>2 DEF ForDriver
    <3>4. AcceptedBy(log[v].order, doc) = Me => Taken(log, log[v].order, doc)
      BY <1>0, <3>2, AccepterIs, TheLog
    <3>5. Taken(log, log[v].order, doc) => Taken(log, log[v].order, n)
      BY <1>0, <3>2 DEF Taken
    <3> QED BY <1>0, <3>2, <3>3, <3>4, <3>5 DEF Seen
  <2>3. /\ conn' \in [state : {"down", "snapshot", "live"}, view : Nat, owned : SUBSET Orders]
        /\ conn'.view = v /\ conn'.owned = conn.owned
    <3>1. v \in Nat
      BY <2>1, <2>2
    <3> QED BY <2>1, <3>1 DEF MineInv
  <2>4. UNCHANGED <<log, wire, page>>
    BY <1>5 DEF Connect, feedVars
  <2> QED BY <2>2, <2>3, <2>4 DEF MineInv
<1>6. CASE GoLive
  <2> DEFINE v == conn.view
  <2>1. /\ conn' = [state |-> "live", view |-> 0,
                    owned |-> IF v # 0 /\ AcceptedBy(log[v].order, v) = Me
                                THEN {log[v].order} ELSE {}]
        /\ wire' = IF v = 0 THEN wire ELSE Append(wire, v)
        /\ UNCHANGED <<log, page>>
    BY <1>6 DEF GoLive, feedVars
  <2>2. v \in Nat /\ (v # 0 => Seen(log, v))
    BY DEF MineInv
  <2> HIDE DEF v
  <2>3. ASSUME v # 0, AcceptedBy(log[v].order, v) = Me
        PROVE  log[v].order \in Orders /\ Taken(log, log[v].order, n)
    <3>1. v \in 1 .. n
      BY <2>2, <2>3 DEF Seen
    <3>2. Taken(log, log[v].order, v)
      BY <1>0, <2>3, <3>1, AccepterIs, TheLog
    <3>3. log[v] \in Views
      BY <1>0, <3>1 DEF Story
    <3> QED BY <1>0, <3>1, <3>2, <3>3 DEF Taken, Views
  <2>4. /\ conn' \in [state : {"down", "snapshot", "live"}, view : Nat, owned : SUBSET Orders]
        /\ conn'.view = 0 /\ \A o \in conn'.owned : Taken(log, o, n)
    BY <2>1, <2>3
  <2>5. wire' \in Seq(Nat) /\ \A k \in 1 .. Len(wire') : Seen(log, wire'[k])
    <3>1. CASE v = 0
      BY <2>1, <3>1 DEF MineInv
    <3>2. CASE v # 0
      <4>1. wire \in Seq(Nat) /\ wire' = Append(wire, v)
        BY <2>1, <3>2 DEF MineInv
      <4>2. /\ Len(wire') = Len(wire) + 1 /\ wire' \in Seq(Nat) /\ Len(wire) \in Nat
            /\ wire'[Len(wire) + 1] = v /\ \A k \in 1 .. Len(wire) : wire'[k] = wire[k]
        BY <2>2, <4>1
      <4>3. \A k \in 1 .. Len(wire') : k \in 1 .. Len(wire) \/ k = Len(wire) + 1
        BY <4>2
      <4> QED BY <2>2, <3>2, <4>2, <4>3 DEF MineInv
    <3> QED BY <3>1, <3>2
  <2> QED BY <2>1, <2>4, <2>5 DEF MineInv
<1>7. CASE Disconnect \/ Reload
  <2>1. /\ conn' = Down /\ wire' = <<>> /\ log' = log
        /\ page' = page \/ page' = [shown |-> 0, online |-> FALSE, dismissed |-> "none"]
    BY <1>7 DEF Disconnect, Reload
  <2> QED BY <2>1 DEF Down, MineInv
<1>8. CASE OnMessage
  <2>1. UNCHANGED <<log, conn>>
    BY <1>8 DEF OnMessage, feedVars
  <2>2. wire \in Seq(Nat) /\ wire # <<>> /\ wire' = Tail(wire)
    BY <1>8, ShownIs DEF MineInv
  <2>3. /\ wire' \in Seq(Nat) /\ Len(wire) \in Nat /\ Len(wire') = Len(wire) - 1
        /\ 1 \in 1 .. Len(wire) /\ \A k \in 1 .. Len(wire') : wire'[k] = wire[k + 1]
    BY <2>2
  <2>4. \A k \in 1 .. Len(wire') : k + 1 \in 1 .. Len(wire)
    BY <2>3
  <2>5. \A k \in 1 .. Len(wire') : Seen(log, wire'[k])
    BY <2>3, <2>4 DEF MineInv
  <2>6. page'.shown # 0 => Seen(log, page'.shown)
    BY <1>8, <2>3, ShownIs DEF MineInv
  <2>7. page' = [shown |-> page'.shown, online |-> page'.online, dismissed |-> page'.dismissed]
    BY <1>8, ShownIs DEF MineInv
  <2> QED BY <2>1, <2>3, <2>5, <2>6, <2>7 DEF MineInv
<1> QED BY <1>2, <1>3, <1>4, <1>5, <1>6, <1>7, <1>8, Steps

LEMMA MineStart == Init => LogInv /\ MineInv
<1> SUFFICES ASSUME Init PROVE LogInv /\ MineInv
  OBVIOUS
<1>1. log = <<>> /\ Len(log) = 0 /\ log \in Seq(Views)
  BY DEF Init, FeedInit
<1>2. doc = 0 /\ fed = 0 /\ candidate \in [Orders -> Drivers \cup {None}]
  BY DEF Init, FeedInit
<1>3. \A o \in Orders : candidate[o] = None
  BY DEF Init, FeedInit
<1> QED BY <1>1, <1>2, <1>3 DEF LogInv, Story, MineInv, Init, Down

LEMMA MineAlways == Spec => [](LogInv /\ MineInv)
<1>1. LogInv /\ MineInv /\ [Next]_vars => (LogInv /\ MineInv)'
  BY LogStep, MineStep
<1> QED BY <1>1, MineStart, PTL DEF Spec

\* A job card is only for an order that the driver of the page accepted: the
\* follow-up events that name nobody (acceptForDriver) reach no other stream.
THEOREM JobsAreMine == Spec => []JobIsMine
<1>1. LogInv /\ MineInv => JobIsMine
  <2> SUFFICES ASSUME LogInv, MineInv, job PROVE AcceptedBy(shownOrder, Len(log)) = Me
    BY DEF JobIsMine
  <2>1. Seen(log, page.shown) /\ Story(log) /\ Len(log) \in Nat
    BY DEF job, MineInv, LogInv, Story
  <2>2. log[page.shown].driver = Me => log[page.shown].status = "DISPATCHED"
    BY <2>1, FeedAssumption DEF job, Open, Seen, Story
  <2>3. Taken(log, log[page.shown].order, Len(log))
    BY <2>1, <2>2 DEF Seen, Taken
  <2> QED BY <2>1, <2>3, AccepterIs, TheLog DEF shownOrder
<1> QED BY <1>1, MineAlways, PTL
-----------------------------------------------------------------------------
(* What the page will show is not behind what was fed.                     *)

\* What the page shows once all that is under way has arrived.
Coming == IF wire = <<>> THEN page.shown ELSE wire[Len(wire)]

\* Event i is Me's, as far as the log had come by then.
OfMe(i) == log[i].driver = Me \/ Taken(log, log[i].order, i)

\* A stream that has missed nothing owns every order that Me has accepted and
\* will show the last of Me's events; one that began with a snapshot will show
\* the order of the snapshot as it is, if Me has accepted it.
SoundInv ==
  /\ sound \in {"all", "order", "none"}
  /\ sound # "none" => conn.state = "live"
  /\ sound = "all" =>
       /\ \A o \in Orders : Taken(log, o, fed) => o \in conn.owned
       /\ \A i \in 1 .. fed : OfMe(i) => i <= Coming
  /\ sound # "none" /\ Coming # 0 /\ Taken(log, log[Coming].order, fed) =>
       Latest(log, log[Coming].order, fed) <= Coming /\ log[Coming].order \in conn.owned

LEMMA ComingIs == MineInv => Coming \in Nat /\ (Coming # 0 => Seen(log, Coming))
<1> SUFFICES ASSUME MineInv PROVE Coming \in Nat /\ (Coming # 0 => Seen(log, Coming))
  OBVIOUS
<1>1. CASE wire = <<>>
  BY <1>1 DEF Coming, MineInv, Seen
<1>2. CASE wire # <<>>
  <2>1. Len(wire) \in 1 .. Len(wire)
    BY <1>2 DEF MineInv
  <2> QED BY <1>2, <2>1 DEF Coming, MineInv, Seen
<1> QED BY <1>1, <1>2

LEMMA TakenFixed ==
  ASSUME NEW s, NEW t, NEW o, NEW n \in Nat, \A i \in 1 .. n : s[i] = t[i]
  PROVE  Taken(s, o, n) <=> Taken(t, o, n)
BY DEF Taken

\* A step that leaves the streams alone and takes nothing out of the log.
LEMMA SoundFrame ==
  ASSUME LogInv, MineInv, SoundInv, Story(log'), Grows(log, log'), Coming' = Coming,
         UNCHANGED <<conn, sound, fed>>
  PROVE  SoundInv'
<1> DEFINE c == Coming
<1>0. fed \in Nat /\ Len(log) \in Nat /\ c \in Nat /\ fed <= Len(log)
      /\ (c # 0 => c \in 1 .. Len(log))
  BY ComingIs DEF LogInv, Story, Seen
<1>1. \A i \in 1 .. Len(log) : log'[i] = log[i]
  BY DEF Grows
<1>2. \A i \in 1 .. fed : log'[i] = log[i]
  BY <1>0, <1>1
<1>3. \A o : Taken(log', o, fed) <=> Taken(log, o, fed)
  BY <1>0, <1>2, TakenFixed
<1>4. \A o : Latest(log', o, fed) = Latest(log, o, fed)
  BY <1>0, <1>2, LatestFixed
<1>5. \A i \in 1 .. fed : OfMe(i)' <=> OfMe(i)
  <2> TAKE i \in 1 .. fed
  <2>1. i \in Nat /\ \A j \in 1 .. i : log'[j] = log[j]
    BY <1>0, <1>2
  <2>2. Taken(log', log'[i].order, i) <=> Taken(log, log[i].order, i)
    BY <1>2, <2>1, TakenFixed
  <2> QED BY <1>2, <2>2 DEF OfMe
<1>6. c # 0 => log'[c] = log[c]
  BY <1>0, <1>1
<1>7. Coming' = c
  OBVIOUS
<1> HIDE DEF c
<1>8. /\ sound = "all" =>
           /\ \A o \in Orders : Taken(log, o, fed) => o \in conn.owned
           /\ \A i \in 1 .. fed : OfMe(i) => i <= c
      /\ sound # "none" /\ c # 0 /\ Taken(log, log[c].order, fed) =>
           Latest(log, log[c].order, fed) <= c /\ log[c].order \in conn.owned
  BY DEF SoundInv, c
<1>9. sound' = "all" => /\ \A o \in Orders : Taken(log', o, fed') => o \in conn'.owned
                        /\ \A i \in 1 .. fed' : OfMe(i)' => i <= Coming'
  BY <1>3, <1>5, <1>7, <1>8
<1>10. sound' # "none" /\ Coming' # 0 /\ Taken(log', log'[Coming'].order, fed') =>
         Latest(log', log'[Coming'].order, fed') <= Coming'
         /\ log'[Coming'].order \in conn'.owned
  BY <1>3, <1>4, <1>6, <1>7, <1>8
<1> QED BY <1>9, <1>10 DEF SoundInv

\* The next event that is fed, when the stream is live.
LEMMA SoundFeed == LogInv /\ MineInv /\ SoundInv /\ Feed => SoundInv'
<1> SUFFICES ASSUME LogInv, MineInv, SoundInv, Feed PROVE SoundInv'
  OBVIOUS
<1> DEFINE i == fed + 1
           c == Coming
           oi == log[i].order
<1>0. /\ fed \in Nat /\ i \in 1 .. Len(log) /\ i = fed + 1 /\ Len(log) \in Nat
      /\ fed' = i /\ UNCHANGED <<log, sound, page>> /\ Story(log)
  BY FeedIs DEF LogInv, Story
<1>1. c \in Nat
  BY ComingIs
<1>2. CASE sound = "none"
  BY <1>0, <1>2 DEF SoundInv
<1>3. CASE sound # "none"
  <2>1. conn.state = "live" /\ wire \in Seq(Nat) /\ sound \in {"all", "order"}
    BY <1>3 DEF SoundInv, MineInv
  <2>2. conn'.state = "live" /\ conn'.owned = OwnedAfter(conn.owned, i)
    BY <2>1, FeedIs DEF MineInv
  <2>3. conn.owned \subseteq conn'.owned
    BY <2>2 DEF OwnedAfter
  <2>4. \A o : Taken(log, o, i) =>
                 \/ Taken(log, o, fed)
                 \/ o = oi /\ log[i].status = "DISPATCHED" /\ isForDriver(i)
    BY <1>0 DEF Taken, isForDriver
  <2>5. oi \in Orders
    <3>1. log[i] \in Views
      BY <1>0 DEF Story
    <3> QED BY <3>1 DEF Views
  <2>6. log[i].status = "DISPATCHED" /\ isForDriver(i) => oi \in conn'.owned
    BY <2>2 DEF OwnedAfter
  \* An event of Me's own that Me has accepted is the acceptance.
  <2>7. ASSUME isForDriver(i), Taken(log, oi, i) PROVE log[i].status = "DISPATCHED"
    <3>1. PICK j \in 1 .. i : log[j].order = oi /\ log[j].status = "DISPATCHED"
      BY <2>7 DEF Taken
    <3>2. log[i].status \in {"OFFERED", "DISPATCHED"}
      BY <1>0, <2>7, FeedAssumption DEF Story, isForDriver
    <3>3. j \in 1 .. Len(log)
      BY <1>0
    <3>4. CASE j = i
      BY <3>1, <3>4
    <3>5. CASE j < i
      BY <1>0, <3>1, <3>2, <3>3, <3>5 DEF Story
    <3> QED BY <1>0, <3>4, <3>5
  <2>8. \A k : OfMe(k)' <=> OfMe(k)
    BY <1>0 DEF OfMe
  <2>9. CASE acceptForDriver(conn.owned, i)
    <3>1. wire' = Append(wire, i)
      BY <2>1, <2>9, FeedIs
    <3>2. wire' # <<>> /\ wire'[Len(wire')] = i
      BY <1>0, <2>1, <3>1
    <3>3. Coming' = i
      BY <3>2 DEF Coming
    <3>4. Latest(log, oi, i) <= i
      BY <1>0, LatestIs
    <3>5. Taken(log, oi, i) => oi \in conn'.owned
      BY <2>2, <2>6, <2>7, <2>9 DEF acceptForDriver
    <3>6. sound = "all" => /\ \A o \in Orders : Taken(log, o, fed) => o \in conn.owned
                           /\ \A k \in 1 .. fed : OfMe(k) => k <= c
      BY DEF SoundInv
    <3>7. \A k \in 1 .. i : k <= i
      BY <1>0
    <3> HIDE DEF i, c
    <3>8. sound = "all" => \A o \in Orders : Taken(log, o, i) => o \in conn'.owned
      BY <2>3, <2>4, <2>6, <3>6
    <3> QED BY <1>0, <2>1, <2>2, <3>3, <3>4, <3>5, <3>7, <3>8 DEF SoundInv
  <2>10. CASE ~acceptForDriver(conn.owned, i)
    <3>1. wire' = wire /\ Coming' = c
      BY <1>0, <2>1, <2>10, FeedIs DEF Coming
    <3>2. ~isForDriver(i) /\ oi \notin conn'.owned
      BY <2>2, <2>10 DEF acceptForDriver
    <3>3. \A o : Taken(log, o, i) => Taken(log, o, fed)
      BY <2>4, <3>2
    <3>4. /\ sound = "all" => /\ \A o \in Orders : Taken(log, o, fed) => o \in conn.owned
                              /\ \A k \in 1 .. fed : OfMe(k) => k <= c
          /\ c # 0 /\ Taken(log, log[c].order, fed) =>
                Latest(log, log[c].order, fed) <= c /\ log[c].order \in conn.owned
      BY <1>3 DEF SoundInv
    <3>5. sound = "all" => ~OfMe(i)
      BY <2>3, <2>5, <3>2, <3>3, <3>4 DEF OfMe, isForDriver
    <3>6. \A k \in 1 .. i : k \in 1 .. fed \/ k = i
      BY <1>0
    <3>7. ASSUME c # 0, Taken(log, log[c].order, i)
          PROVE  Latest(log, log[c].order, i) <= c /\ log[c].order \in conn'.owned
      <4> DEFINE o == log[c].order
      <4>1. Latest(log, o, fed) <= c /\ o \in conn'.owned /\ o # oi
        BY <2>3, <3>2, <3>3, <3>4, <3>7
      <4>2. /\ Latest(log, o, i) \in 0 .. i
            /\ Latest(log, o, i) # 0 => log[Latest(log, o, i)].order = o
        BY <1>0, LatestIs
      <4>3. Latest(log, o, i) \in 1 .. fed => Latest(log, o, i) <= Latest(log, o, fed)
        BY <1>0, <4>2, LatestIs
      <4>4. Latest(log, o, fed) \in Nat
        BY <1>0, LatestIs
      <4>5. Latest(log, o, i) # i
        BY <1>0, <4>1, <4>2
      <4> HIDE DEF o
      <4> QED BY <1>0, <1>1, <4>1, <4>2, <4>3, <4>4, <4>5 DEF o
    <3> HIDE DEF i, c
    <3>8. sound = "all" => /\ \A o \in Orders : Taken(log, o, i) => o \in conn'.owned
                           /\ \A k \in 1 .. i : OfMe(k) => k <= c
      BY <2>3, <3>3, <3>4, <3>5, <3>6
    <3> QED BY <1>0, <2>1, <2>2, <2>8, <3>1, <3>7, <3>8 DEF SoundInv
  <2> QED BY <2>9, <2>10
<1> QED BY <1>2, <1>3

\* The snapshot is passed on and the stream goes live.
LEMMA SoundLive == LogInv /\ MineInv /\ SoundInv /\ GoLive => SoundInv'
<1> SUFFICES ASSUME LogInv, MineInv, SoundInv, GoLive PROVE SoundInv'
  OBVIOUS
<1> DEFINE v == conn.view
<1>1. /\ conn' = [state |-> "live", view |-> 0,
                  owned |-> IF v # 0 /\ AcceptedBy(log[v].order, v) = Me
                              THEN {log[v].order} ELSE {}]
      /\ wire' = IF v = 0 THEN wire ELSE Append(wire, v)
      /\ sound' = CASE v = 0 /\ fed = 0 -> "all"
                    [] v # 0 /\ v >= LatestOf(log[v].order, fed) -> "order"
                    [] OTHER -> "none"
      /\ UNCHANGED <<log, fed, page>>
  BY DEF GoLive, feedVars
<1>2. v \in Nat /\ (v # 0 => Seen(log, v)) /\ wire \in Seq(Nat)
  BY DEF MineInv
<1>3. fed \in Nat /\ Len(log) \in Nat /\ Story(log) /\ fed <= Len(log)
  BY DEF LogInv, Story
<1> HIDE DEF v
<1>4. CASE v = 0
  <2>1. sound' = "none" \/ (sound' = "all" /\ fed = 0)
    BY <1>1, <1>4
  <2>2. ASSUME fed = 0 PROVE (\A o : ~Taken(log, o, fed)) /\ 1 .. fed = {}
    BY <2>2 DEF Taken
  <2> QED BY <1>1, <2>1, <2>2 DEF SoundInv
<1>5. CASE v # 0 /\ v >= LatestOf(log[v].order, fed)
  <2> DEFINE o == log[v].order
  <2>1. wire' # <<>> /\ wire'[Len(wire')] = v
    BY <1>1, <1>2, <1>5
  <2>2. Coming' = v
    BY <2>1 DEF Coming
  <2>3. Latest(log, o, fed) <= v
    BY <1>2, <1>3, <1>5, TheLog, LatestIs
  <2>4. ASSUME Taken(log, o, fed) PROVE o \in conn'.owned
    <3>1. PICK j \in 1 .. fed :
            log[j].order = o /\ log[j].status = "DISPATCHED" /\ log[j].driver = Me
      BY <2>4 DEF Taken
    <3>2. v \in 0 .. Len(log) /\ j <= Latest(log, o, fed) /\ Latest(log, o, fed) \in Nat
      BY <1>2, <1>3, <1>5, <3>1, LatestIs DEF Seen
    <3>3. Taken(log, o, v)
      BY <1>2, <1>3, <2>3, <3>1, <3>2 DEF Taken
    <3>4. AcceptedBy(o, v) = Me
      BY <1>3, <3>2, <3>3, AccepterIs, TheLog
    <3> QED BY <1>1, <1>5, <3>4
  <2>5. sound' = "order" /\ conn'.state = "live"
    BY <1>1, <1>5
  <2> QED BY <1>1, <2>2, <2>3, <2>4, <2>5 DEF SoundInv
<1>6. CASE v # 0 /\ ~(v >= LatestOf(log[v].order, fed))
  <2>1. sound' = "none"
    BY <1>1, <1>6
  <2> QED BY <2>1 DEF SoundInv
<1> QED BY <1>4, <1>5, <1>6

\* The first of the views under way is put on the page, or was there in a later form.
LEMMA SoundMessage == LogInv /\ MineInv /\ SoundInv /\ OnMessage => SoundInv'
<1> SUFFICES ASSUME LogInv, MineInv, SoundInv, OnMessage PROVE SoundInv'
  OBVIOUS
<1>1. UNCHANGED <<log, fed, conn, sound>> /\ Story(log)
  BY DEF OnMessage, feedVars, LogInv
<1>2. wire \in Seq(Nat) /\ wire # <<>> /\ wire' = Tail(wire)
  BY ShownIs DEF MineInv
<1>3. CASE Len(wire) # 1
  <2>1. wire' # <<>> /\ wire'[Len(wire')] = wire[Len(wire)]
    <3> DEFINE n == Len(wire)
    <3>1. n \in Nat /\ n # 0 /\ n # 1
      BY <1>2, <1>3
    <3>2. /\ wire' \in Seq(Nat) /\ Len(wire') = n - 1
          /\ \A k \in 1 .. n - 1 : wire'[k] = wire[k + 1]
      BY <1>2
    <3> HIDE DEF n
    <3>3. n - 1 \in 1 .. n - 1 /\ (n - 1) + 1 = n /\ n - 1 # 0
      BY <3>1
    <3>4. wire'[n - 1] = wire[n]
      BY <3>2, <3>3
    <3>5. wire' # <<>>
      BY <3>2, <3>3
    <3> QED BY <3>2, <3>4, <3>5 DEF n
  <2>2. Coming' = Coming
    BY <1>2, <2>1 DEF Coming
  <2> QED BY <1>1, <2>2, GrowsSame, SoundFrame
<1>4. CASE Len(wire) = 1
  <2> DEFINE x == wire[1]
             y == page'.shown
  <2>1. wire' = <<>> /\ Coming = x
    BY <1>2, <1>4 DEF Coming
  <2>2. Coming' = y
    BY <2>1 DEF Coming
  <2>3. \/ y = x
        \/ y \in Nat /\ y # 0 /\ log[y].order = log[x].order /\ y > x /\ x \in Nat
    <3>1. page.shown # 0 => page.shown \in Nat
      BY <1>1 DEF MineInv, Seen, Story
    <3>2. x \in Nat
      BY <1>2, <1>4
    <3> QED BY <3>1, <3>2, ShownIs
  <2>4. CASE y = x
    BY <1>1, <2>1, <2>2, <2>4, GrowsSame, SoundFrame
  <2>5. CASE y # x
    <3>1. y \in Nat /\ log[y].order = log[x].order /\ y > x /\ x \in Nat /\ x # 0
      <4>1. Seen(log, x)
        BY <1>2, <1>4 DEF MineInv
      <4> QED BY <2>3, <2>5, <4>1 DEF Seen
    <3>2. fed \in Nat
      BY DEF LogInv, Story
    <3> DEFINE o == log[x].order
    <3>3. Latest(log, o, fed) \in Nat
      BY <3>2, LatestIs
    <3>4. /\ sound = "all" =>
               /\ \A p \in Orders : Taken(log, p, fed) => p \in conn.owned
               /\ \A i \in 1 .. fed : OfMe(i) => i <= x
          /\ sound # "none" /\ Taken(log, o, fed) => Latest(log, o, fed) <= x /\ o \in conn.owned
      BY <2>1, <3>1 DEF SoundInv
    <3> HIDE DEF x, y
    <3>5. sound = "all" => \A i \in 1 .. fed : OfMe(i) => i <= y
      BY <3>1, <3>2, <3>4
    <3>6. sound # "none" /\ Taken(log, o, fed) => Latest(log, o, fed) <= y
      BY <3>1, <3>3, <3>4
    <3>7. \A i : OfMe(i)' <=> OfMe(i)
      BY <1>1 DEF OfMe
    <3>8. sound' = "all" =>
            /\ \A p \in Orders : Taken(log', p, fed') => p \in conn'.owned
            /\ \A i \in 1 .. fed' : OfMe(i)' => i <= Coming'
      BY <1>1, <2>2, <3>4, <3>5, <3>7
    <3>9. log[y].order = o
      BY <3>1
    <3> HIDE DEF o
    <3>10. sound' # "none" /\ Coming' # 0 /\ Taken(log', log'[Coming'].order, fed') =>
             Latest(log', log'[Coming'].order, fed') <= Coming'
             /\ log'[Coming'].order \in conn'.owned
      BY <1>1, <2>2, <3>4, <3>6, <3>9
    <3> QED BY <1>1, <3>8, <3>10 DEF SoundInv
  <2> QED BY <2>4, <2>5
<1>5. Len(wire) \in Nat
  BY <1>2
<1> QED BY <1>3, <1>4

LEMMA SoundStep == LogInv /\ MineInv /\ SoundInv /\ [Next]_vars => SoundInv'
<1> SUFFICES ASSUME LogInv, MineInv, SoundInv, [Next]_vars PROVE SoundInv'
  OBVIOUS
<1>1. Story(log') /\ Grows(log, log')
  BY LogStep DEF LogInv
<1>2. CASE Background
  <2>1. UNCHANGED <<conn, wire, sound, page>>
    BY <1>2, BackgroundIs DEF connVars
  <2>2. fed' = fed
    BY <1>2, BackgroundIs, WorkflowsKeep DEF Project
  <2>3. Coming' = Coming
    BY <2>1 DEF Coming
  <2> QED BY <1>1, <2>1, <2>2, <2>3, SoundFrame
<1>3. CASE MerchantMap
  <2>1. UNCHANGED <<conn, wire, sound, page, fed>>
    BY <1>3, MapIs DEF connVars
  <2>2. Coming' = Coming
    BY <2>1 DEF Coming
  <2> QED BY <1>1, <2>1, <2>2, SoundFrame
<1>4. CASE Sides
  <2>1. UNCHANGED <<conn, wire, sound, fed>> /\ page'.shown = page.shown
    BY <1>4, SidesAre DEF MineInv
  <2>2. Coming' = Coming
    BY <2>1 DEF Coming
  <2> QED BY <1>1, <2>1, <2>2, SoundFrame
<1>5. CASE Redeliver \/ Disconnect \/ Reload
  <2>1. sound' = "none"
    BY <1>5 DEF Redeliver, Disconnect, Reload
  <2> QED BY <2>1 DEF SoundInv
<1>6. CASE Connect
  <2>1. sound' = "none"
    BY <1>6 DEF Connect, SoundInv
  <2> QED BY <2>1 DEF SoundInv
<1> QED BY <1>2, <1>3, <1>4, <1>5, <1>6, SoundFeed, SoundLive, SoundMessage, Steps

\* A page whose stream was there from the start shows the last thing that happened
\* to its driver; one that began with a snapshot that no event has overtaken shows
\* the present state of the job it shows (driver-sse.controller.ts).
THEOREM PageAlwaysCurrent == Spec => []PageIsCurrent
<1>1. LogInv /\ MineInv /\ SoundInv => PageIsCurrent
  <2> SUFFICES ASSUME LogInv, MineInv, SoundInv, AllHandled PROVE PageIsCurrent
    BY DEF PageIsCurrent
  <2> DEFINE n == Len(log)
             c == page.shown
  <2>1. Coming = c /\ fed = n /\ n \in Nat /\ Story(log)
    BY DEF AllHandled, Coming, LogInv, Story
  <2>2. c \in Nat /\ (c # 0 => Seen(log, c))
    BY <2>1, ComingIs
  <2>3. \A i \in 1 .. n : Accepter(log, log[i].order, i) = Me <=> Taken(log, log[i].order, i)
    BY <2>1, AccepterIs
  <2>4. DOMAIN log = 1 .. n
    BY <2>1 DEF Story
  <2>5. \A i \in 1 .. n : Me \in {log[i].driver, AcceptedBy(log[i].order, i)} <=> OfMe(i)
    BY <2>3, TheLog DEF OfMe
  <2>6. sound = "all" => \A i \in 1 .. n : OfMe(i) => i <= c
    BY <2>1 DEF SoundInv
  <2>7. ASSUME sound = "all", NEW i \in 1 .. n, OfMe(i) PROVE c \in 1 .. n /\ OfMe(c)
    <3>1. i <= c
      BY <2>6, <2>7
    <3>2. Seen(log, c) /\ c \in 1 .. n
      BY <2>1, <2>2, <3>1 DEF Seen
    <3>3. CASE log[c].driver = Me
      BY <3>2, <3>3 DEF OfMe
    <3>4. CASE Taken(log, log[c].order, n)
      <4>1. PICK j \in 1 .. n :
              log[j].order = log[c].order /\ log[j].status = "DISPATCHED" /\ log[j].driver = Me
        BY <3>4 DEF Taken
      <4>2. j <= c
        BY <2>6, <2>7, <4>1 DEF OfMe
      <4> QED BY <2>1, <3>2, <4>1, <4>2 DEF OfMe, Taken
    <3> QED BY <3>2, <3>3, <3>4 DEF Seen
  <2>8. sound = "all" =>
          LET mine == {i \in DOMAIN log : Me \in {log[i].driver, AcceptedBy(log[i].order, i)}}
          IN mine # {} => page.shown \in mine /\ \A i \in mine : i <= page.shown
    <3> DEFINE mine == {i \in DOMAIN log : Me \in {log[i].driver, AcceptedBy(log[i].order, i)}}
    <3>1. \A i : i \in mine <=> i \in 1 .. n /\ OfMe(i)
      BY <2>4, <2>5
    <3> HIDE DEF mine
    <3>2. sound = "all" /\ mine # {} => page.shown \in mine /\ \A i \in mine : i <= page.shown
      BY <2>6, <2>7, <3>1
    <3> QED BY <3>2 DEF mine
  <2>9. ASSUME sound # "none", c # 0, AcceptedBy(shownOrder, fed) = Me
        PROVE  c = LatestOf(shownOrder, fed)
    <3> DEFINE o == log[c].order
    <3>1. Taken(log, o, fed)
      BY <2>1, <2>9, AccepterIs, TheLog DEF shownOrder
    <3>2. Latest(log, o, n) <= c
      BY <2>1, <2>9, <3>1 DEF SoundInv
    <3>3. c <= Latest(log, o, n) /\ Latest(log, o, n) \in Nat
      BY <2>1, <2>2, <2>9, LatestIs DEF Seen
    <3> QED BY <2>1, <2>2, <3>2, <3>3, TheLog DEF shownOrder
  <2> QED BY <2>8, <2>9 DEF PageIsCurrent
<1>2. LogInv /\ MineInv /\ SoundInv /\ [Next]_vars => (LogInv /\ MineInv /\ SoundInv)'
  BY LogStep, MineStep, SoundStep
<1>3. Init => SoundInv
  BY DEF Init, SoundInv
<1> QED BY <1>1, <1>2, <1>3, MineStart, PTL DEF Spec

-----------------------------------------------------------------------------
(* The toggle.                                                             *)

\* Between the request's effect and its answer nobody else writes the online set,
\* but a request that was given up, which is noticed.
ToggleRequests == [step : {"idle", "sent", "applied", "overtaken"}, next : BOOLEAN]

ToggleInv ==
  /\ page = [shown |-> page.shown, online |-> page.online, dismissed |-> page.dismissed]
  /\ toggle \in ToggleRequests
  /\ toggle.step = "applied" => online = toggle.next
  /\ ToggleAgrees

\* A toggle that was answered leaves the page and the online set in agreement.
THEOREM ToggleAlwaysAgrees == Spec => []ToggleAgrees
<1>1. Init => ToggleInv
  BY DEF Init, ToggleInv, ToggleAgrees, ToggleRequests
<1>2. ToggleInv /\ [Next]_vars => ToggleInv'
  <2> SUFFICES ASSUME ToggleInv, [Next]_vars PROVE ToggleInv'
    OBVIOUS
  <2>1. ASSUME UNCHANGED <<online, toggle, lastAnswer>>, page'.online = page.online,
               page' = [shown |-> page'.shown, online |-> page'.online,
                        dismissed |-> page'.dismissed]
        PROVE  ToggleInv'
    BY <2>1 DEF ToggleInv, ToggleAgrees
  <2> USE DEF ToggleRequests
  <2>2. CASE Background
    <3>1. UNCHANGED <<toggle, lastAnswer, page>>
      BY <2>2, BackgroundIs DEF toggleVars
    <3>2. online' = online
      BY <2>2, BackgroundIs DEF Select, RecordOffered, RecordStep, Project
    <3> QED BY <2>1, <3>1, <3>2 DEF ToggleInv
  <2>3. CASE Feed \/ Redeliver \/ Connect \/ GoLive \/ Disconnect \/ MerchantMap
    <3>1. UNCHANGED <<toggle, lastAnswer, page, online>>
      BY <2>3, MapIs DEF Feed, Redeliver, Connect, GoLive, Disconnect, toggleVars, feedVars
    <3> QED BY <2>1, <3>1 DEF ToggleInv
  <2>4. CASE OnMessage
    <3>1. UNCHANGED <<toggle, lastAnswer, online>>
      BY <2>4 DEF OnMessage, toggleVars, feedVars
    <3>2. page' = [page EXCEPT !.shown = reduceDispatch(page.shown, Head(wire))]
      BY <2>4 DEF OnMessage, ToggleInv
    <3> QED BY <2>1, <3>1, <3>2 DEF ToggleInv
  <2>5. CASE Accept \/ Reject \/ Pickup \/ Deliver
    <3>1. UNCHANGED <<toggle, lastAnswer, online>>
      BY <2>5 DEF Accept, Reject, Pickup, Deliver, Signal, toggleVars, feedVars
    <3>2. page' = page \/ page' = [page EXCEPT !.dismissed = shownOrder]
      BY <2>5 DEF Accept, Reject, Pickup, Deliver
    <3> QED BY <2>1, <3>1, <3>2 DEF ToggleInv
  <2>6. CASE \E i \in DOMAIN log : OfferExpires(i)
    <3>1. UNCHANGED <<toggle, lastAnswer, online>>
      BY <2>6 DEF OfferExpires, toggleVars, feedVars
    <3>2. page' = page \/ page' = [page EXCEPT !.dismissed = shownOrder]
      BY <2>6 DEF OfferExpires
    <3> QED BY <2>1, <3>1, <3>2 DEF ToggleInv
  <2>7. CASE LoadRead \/ UNCHANGED vars
    <3>1. UNCHANGED <<toggle, lastAnswer, page, online>>
      BY <2>7 DEF LoadRead, vars, toggleVars, feedVars
    <3> QED BY <2>1, <3>1 DEF ToggleInv
  <2>8. CASE LoadAnswered
    BY <2>8 DEF LoadAnswered, ToggleInv, ToggleAgrees, feedVars
  <2>9. CASE Click
    <3>1. UNCHANGED <<page, online>> /\ toggle'.step = "sent" /\ toggle'.next \in BOOLEAN
          /\ toggle' = [step |-> "sent", next |-> ~page.online]
      BY <2>9 DEF Click, feedVars
    <3> QED BY <3>1 DEF ToggleInv, ToggleAgrees
  <2>10. CASE Applied
    <3>1. /\ UNCHANGED page /\ online' = toggle.next /\ toggle'.step = "applied"
          /\ toggle'.next = toggle.next
          /\ toggle' \in ToggleRequests
      BY <2>10 DEF Applied, ToggleInv
    <3> QED BY <3>1 DEF ToggleInv, ToggleAgrees
  <2>11. CASE ToggleAnswered
    <3>1. /\ page' = [page EXCEPT !.online = toggle.next] /\ online' = online
          /\ toggle.step \in {"applied", "overtaken"} /\ toggle' = [toggle EXCEPT !.step = "idle"]
          /\ lastAnswer' = "toggle" => toggle.step = "applied"
      BY <2>11 DEF ToggleAnswered, Answer, feedVars
    <3>2. /\ lastAnswer' = "toggle" => page'.online = online'
          /\ toggle'.step = "idle"
          /\ toggle' \in ToggleRequests
          /\ page' = [shown |-> page'.shown, online |-> page'.online,
                      dismissed |-> page'.dismissed]
      BY <3>1 DEF ToggleInv
    <3> QED BY <3>2 DEF ToggleInv, ToggleAgrees
  <2>12. CASE ToggleFailed
    <3>1. /\ UNCHANGED page /\ lastAnswer' = "error" /\ toggle'.step = "idle"
          /\ toggle' \in ToggleRequests
      BY <2>12 DEF ToggleFailed, ToggleInv
    <3> QED BY <3>1 DEF ToggleInv, ToggleAgrees
  <2>13. CASE \E b \in BOOLEAN : ServedLate(b)
    <3>1. /\ UNCHANGED page /\ lastAnswer' = "late" /\ toggle'.step # "applied"
          /\ toggle' \in ToggleRequests
      BY <2>13 DEF ServedLate, ToggleInv
    <3> QED BY <3>1 DEF ToggleInv, ToggleAgrees
  <2>14. CASE Reload
    BY <2>14 DEF Reload, ToggleInv, ToggleAgrees
  <2> QED BY <2>2, <2>3, <2>4, <2>5, <2>6, <2>7, <2>8, <2>9, <2>10, <2>11, <2>12, <2>13,
             <2>14, Steps
          DEF Sides, Toggle
<1>3. ToggleInv => ToggleAgrees
  BY DEF ToggleInv
<1> QED BY <1>1, <1>2, <1>3, PTL DEF Spec

-----------------------------------------------------------------------------
(* The merchant's map.                                                     *)

\* A view of order o, or none.
OfOrder(o, i) == i \in Nat /\ (i # 0 => i \in 1 .. Len(log) /\ log[i].order = o)

\* Event i is on the map, or a later one of its order, or it is under way.
OnMap(i) == i <= map[log[i].order] \/ \E k \in 1 .. Len(mapWire.views) : mapWire.views[k] = i

Seeds == [step : {"asked", "read", "done", "failed"}, view : Nat]

MapInv ==
  /\ seed \in Seeds
  /\ mapWire \in [open : BOOLEAN, from : Nat, views : Seq(Nat)]
  /\ map \in [Orders -> Nat] /\ \A o \in Orders : OfOrder(o, map[o])
  /\ \A k \in 1 .. Len(mapWire.views) : mapWire.views[k] \in 1 .. Len(log)
  /\ seed.view <= Len(log)
  /\ mapWire.open => \A i \in 1 .. fed : mapWire.from < i => OnMap(i)
  /\ seed.step = "done" => \A o \in Orders : Latest(log, o, seed.view) <= map[o]

\* Merging views of the orders keeps the later one of each.
LEMMA MergeIs ==
  ASSUME LogInv, MapInv, NEW views, \A o \in Orders : OfOrder(o, views[o]), Merge(views)
  PROVE  /\ map' \in [Orders -> Nat]
         /\ \A o \in Orders : OfOrder(o, map'[o]) /\ map[o] <= map'[o] /\ views[o] <= map'[o]
<1>1. ASSUME NEW o \in Orders
      PROVE  /\ map'[o] \in Nat /\ OfOrder(o, map'[o])
             /\ map[o] <= map'[o] /\ views[o] <= map'[o]
  <2> DEFINE m == map[o]
             w == views[o]
  <2>1. map'[o] = IF w = 0 THEN m ELSE reduceDispatch(m, w)
    BY DEF Merge
  <2>2. OfOrder(o, m) /\ OfOrder(o, w) /\ m \in Nat /\ w \in Nat
    BY DEF MapInv, OfOrder
  <2>3. m # 0 /\ w # 0 => log[m].order = log[w].order
    BY <2>2 DEF OfOrder
  <2> HIDE DEF m, w
  <2>4. map'[o] \in {m, w} /\ m <= map'[o] /\ w <= map'[o]
    BY <2>1, <2>2, <2>3 DEF reduceDispatch
  <2> QED BY <2>2, <2>4 DEF m, w
<1>2. map' = [o \in Orders |-> IF views[o] = 0 THEN map[o] ELSE reduceDispatch(map[o], views[o])]
  BY DEF Merge
<1>3. map' = [o \in Orders |-> map'[o]]
  BY <1>2
<1>4. map' \in [Orders -> Nat]
  BY <1>1, <1>3
<1> QED BY <1>1, <1>4

\* A step of the world around the map.
LEMMA MapFrame ==
  ASSUME LogInv, MapInv, Story(log'), Grows(log, log'), UNCHANGED mapVars, fed' <= fed, fed' \in Nat
  PROVE  MapInv'
<1>0. Len(log) \in Nat /\ Len(log') \in Nat /\ Len(log) <= Len(log') /\ fed \in 0 .. Len(log)
      /\ \A i \in 1 .. Len(log) : log'[i] = log[i]
  BY DEF LogInv, Story, Grows
<1>1. seed' = seed /\ mapWire' = mapWire /\ map' = map
  BY DEF mapVars
<1>2. \A o \in Orders : OfOrder(o, map[o])'
  BY <1>0, <1>1 DEF MapInv, OfOrder
<1>3. ASSUME NEW o \in Orders PROVE Latest(log', o, seed.view) = Latest(log, o, seed.view)
  <2>1. seed.view \in Nat /\ \A i \in 1 .. seed.view : i \in 1 .. Len(log)
    BY <1>0 DEF MapInv, Seeds
  <2> QED BY <1>0, <2>1, LatestFixed
<1>4. ASSUME mapWire.open, NEW i \in 1 .. fed', mapWire.from < i PROVE OnMap(i)'
  <2>1. i \in 1 .. fed /\ i \in 1 .. Len(log)
    BY <1>0
  <2>2. OnMap(i) /\ log'[i] = log[i]
    BY <1>0, <1>4, <2>1 DEF MapInv
  <2> QED BY <1>1, <2>2 DEF OnMap
<1>5. /\ \A k \in 1 .. Len(mapWire.views) : mapWire.views[k] \in 1 .. Len(log')
      /\ seed.view <= Len(log')
  BY <1>0 DEF MapInv, Seeds
<1>6. /\ seed \in Seeds
      /\ mapWire \in [open : BOOLEAN, from : Nat, views : Seq(Nat)]
      /\ map \in [Orders -> Nat]
      /\ seed.step = "done" => \A o \in Orders : Latest(log', o, seed.view) <= map[o]
  BY <1>3 DEF MapInv
<1> QED BY <1>1, <1>2, <1>4, <1>5, <1>6 DEF MapInv

LEMMA MapStep == LogInv /\ MapInv /\ [Next]_vars => MapInv' /\ \A o \in Orders : map[o] <= map'[o]
<1> SUFFICES ASSUME LogInv, MapInv, [Next]_vars
             PROVE  MapInv' /\ \A o \in Orders : map[o] <= map'[o]
  OBVIOUS
<1>0. /\ Story(log') /\ Grows(log, log') /\ Len(log) \in Nat /\ fed \in 0 .. Len(log)
      /\ doc \in 0 .. Len(log) /\ fed' \in Nat /\ Story(log)
  BY LogStep DEF LogInv, Story
<1>9. /\ seed \in Seeds
       /\ mapWire \in [open : BOOLEAN, from : Nat, views : Seq(Nat)]
       /\ map \in [Orders -> Nat]
  BY DEF MapInv
<1>1. ASSUME UNCHANGED mapVars, fed' <= fed
      PROVE  MapInv' /\ \A o \in Orders : map[o] <= map'[o]
  BY <1>0, <1>9, <1>1, MapFrame DEF mapVars
<1>2. CASE Background
  <2>1. fed' = fed
    BY <1>2, BackgroundIs, WorkflowsKeep DEF Project
  <2> QED BY <1>0, <1>1, <1>2, <2>1, BackgroundIs
<1>3. CASE Redeliver \/ Connect \/ GoLive \/ Disconnect \/ Reload \/ OnMessage
  <2>1. UNCHANGED mapVars /\ (fed' = fed \/ fed' = fed - 1)
    BY <1>3 DEF Redeliver, Connect, GoLive, Disconnect, Reload, OnMessage, feedVars
  <2>2. fed' <= fed
    BY <1>0, <2>1
  <2> QED BY <1>1, <2>1, <2>2
<1>4. CASE Sides
  <2>1. UNCHANGED mapVars /\ fed' <= fed
    BY <1>0, <1>4, SidesAre
  <2> QED BY <1>1, <2>1
<1>5. CASE Feed
  <2> DEFINE i == fed + 1
             ws == mapWire.views
  <2>1. /\ i \in 1 .. Len(log) /\ log' = log /\ fed' = i /\ seed' = seed /\ map' = map
        /\ mapWire' = IF mapWire.open THEN [mapWire EXCEPT !.views = Append(@, i)] ELSE mapWire
    BY <1>0, <1>5 DEF Feed
  <2>2. CASE ~mapWire.open
    BY <1>9, <2>1, <2>2 DEF MapInv, OfOrder
  <2>3. CASE mapWire.open
    <3>1. ws \in Seq(Nat) /\ i \in Nat
      BY <1>9, <2>1
    <3>2. mapWire' = [mapWire EXCEPT !.views = Append(ws, i)]
      BY <2>1, <2>3
    <3> HIDE DEF i
    <3>3. /\ Append(ws, i) \in Seq(Nat) /\ Len(Append(ws, i)) = Len(ws) + 1 /\ Len(ws) \in Nat
          /\ Append(ws, i)[Len(ws) + 1] = i
          /\ \A k \in 1 .. Len(ws) : Append(ws, i)[k] = ws[k]
      BY <3>1
    <3>4. /\ mapWire' \in [open : BOOLEAN, from : Nat, views : Seq(Nat)]
          /\ mapWire'.views = Append(ws, i) /\ mapWire'.open = mapWire.open
          /\ mapWire'.from = mapWire.from
      BY <1>9, <3>2, <3>3
    <3>5. \A k \in 1 .. Len(mapWire'.views) : k \in 1 .. Len(ws) \/ k = Len(ws) + 1
      BY <3>3, <3>4
    <3>6. \A k \in 1 .. Len(mapWire'.views) : mapWire'.views[k] \in 1 .. Len(log)
      BY <2>1, <3>3, <3>4, <3>5 DEF MapInv, i
    <3>7. ASSUME NEW j \in 1 .. i, mapWire.from < j PROVE OnMap(j)'
      <4>1. CASE j = i
        <5>1. Len(ws) + 1 \in 1 .. Len(mapWire'.views)
          BY <3>3, <3>4
        <5> QED BY <3>3, <3>4, <4>1, <5>1 DEF OnMap
      <4>2. CASE j # i
        <5>1. j \in 1 .. fed
          BY <1>0, <4>2 DEF i
        <5>2. OnMap(j)
          BY <2>3, <3>7, <5>1 DEF MapInv
        <5>3. CASE j <= map[log[j].order]
          BY <2>1, <5>3 DEF OnMap
        <5>4. CASE \E k \in 1 .. Len(ws) : ws[k] = j
          <6>1. PICK k \in 1 .. Len(ws) : ws[k] = j
            BY <5>4
          <6>2. k \in 1 .. Len(mapWire'.views) /\ mapWire'.views[k] = j
            BY <3>3, <3>4, <6>1
          <6> QED BY <6>2 DEF OnMap
        <5> QED BY <5>2, <5>3, <5>4 DEF OnMap
      <4> QED BY <4>1, <4>2
    <3>8. \A o \in Orders : OfOrder(o, map[o])'
      BY <2>1 DEF MapInv, OfOrder
    <3>9. MapInv'
      BY <2>1, <3>4, <3>6, <3>7, <3>8 DEF MapInv, i
    <3> QED BY <1>9, <2>1, <3>9
  <2>4. \A o \in Orders : map[o] <= map'[o]
    BY <1>9, <2>1
  <2> QED BY <2>2, <2>3, <2>4
<1>6. CASE MerchantMap
  <2>0. UNCHANGED <<log, doc, fed>>
    BY <1>6, MapIs
  <2>1. CASE MapOpens
    <3>1. /\ UNCHANGED <<log, doc, fed>> /\ seed' = seed /\ map' = map /\ ~mapWire.open
          /\ mapWire' = [mapWire EXCEPT !.open = TRUE, !.from = fed]
      BY <2>1 DEF MapOpens, feedVars
    <3>2. /\ mapWire' \in [open : BOOLEAN, from : Nat, views : Seq(Nat)]
          /\ mapWire'.views = mapWire.views /\ mapWire'.from = fed
      BY <1>0, <1>9, <3>1
    <3>3. \A j \in 1 .. fed : ~(fed < j)
      BY <1>0
    <3>4. \A o \in Orders : OfOrder(o, map[o])'
      BY <3>1 DEF MapInv, OfOrder
    <3>5. MapInv'
      BY <3>1, <3>2, <3>3, <3>4 DEF MapInv
    <3> QED BY <1>9, <3>1, <3>5
  \* The seed is read, fails, or is asked for anew, and the stream may be lost.
  <2>2. CASE SeedRead \/ SeedFails \/ MapLost \/ TokenChanges
    <3>1. /\ map' = map /\ mapWire' \in {mapWire, Cut}
          /\ \/ seed' \in {seed, Unseeded, [step |-> "read", view |-> doc]}
             \/ seed' = [seed EXCEPT !.step = "failed"]
      BY <2>2 DEF SeedRead, SeedFails, MapLost, TokenChanges
    <3>2. /\ seed' \in Seeds /\ seed'.view <= Len(log)
          /\ seed'.step = "done" => seed' = seed
      BY <1>0, <1>9, <3>1 DEF MapInv, Seeds, Unseeded
    <3>3. /\ mapWire' \in [open : BOOLEAN, from : Nat, views : Seq(Nat)]
          /\ mapWire'.open => mapWire' = mapWire
          /\ \A k \in 1 .. Len(mapWire'.views) : mapWire'.views[k] \in 1 .. Len(log)
      <4>1. CASE mapWire' = mapWire
        BY <1>9, <4>1 DEF MapInv
      <4>2. CASE mapWire' = Cut
        <5>1. <<>> \in Seq(Nat) /\ Len(<<>>) = 0
          OBVIOUS
        <5>2. /\ mapWire' \in [open : BOOLEAN, from : Nat, views : Seq(Nat)]
              /\ mapWire'.open = FALSE /\ mapWire'.views = <<>>
          BY <1>9, <4>2, <5>1 DEF Cut
        <5> QED BY <5>1, <5>2
      <4> QED BY <3>1, <4>1, <4>2
    <3>4. \A o \in Orders : OfOrder(o, map[o])'
      BY <2>0, <3>1 DEF MapInv, OfOrder
    <3>5. mapWire'.open => \A i \in 1 .. fed : mapWire'.from < i => OnMap(i)'
      <4> SUFFICES ASSUME mapWire'.open, NEW i \in 1 .. fed, mapWire'.from < i PROVE OnMap(i)'
        OBVIOUS
      <4>1. mapWire' = mapWire
        BY <3>3
      <4> QED BY <2>0, <3>1, <4>1 DEF MapInv, OnMap
    <3>6. seed'.step = "done" => \A o \in Orders : Latest(log, o, seed'.view) <= map[o]
      BY <3>2 DEF MapInv
    <3>7. MapInv'
      BY <1>9, <2>0, <3>1, <3>2, <3>3, <3>4, <3>5, <3>6 DEF MapInv
    <3> QED BY <1>9, <3>1, <3>7
  <2>3. CASE SeedAnswered
    <3> DEFINE views == [o \in Orders |-> LatestOf(o, seed.view)]
    <3>1. /\ UNCHANGED <<log, doc, fed>> /\ mapWire' = mapWire /\ Merge(views)
          /\ seed' = [seed EXCEPT !.step = "done"]
      BY <2>3 DEF SeedAnswered, feedVars
    <3>2. \A o \in Orders : OfOrder(o, views[o]) /\ views[o] = Latest(log, o, seed.view)
      <4> TAKE o \in Orders
      <4>1. seed.view \in Nat /\ seed.view <= Len(log)
        BY DEF MapInv, Seeds
      <4>2. views[o] = Latest(log, o, seed.view)
        BY TheLog
      <4>3. Latest(log, o, seed.view) \in 0 .. seed.view
            /\ (Latest(log, o, seed.view) # 0 => log[Latest(log, o, seed.view)].order = o)
        BY <4>1, LatestIs
      <4> QED BY <1>0, <4>1, <4>2, <4>3 DEF OfOrder
    <3> HIDE DEF views
    <3>3. /\ map' \in [Orders -> Nat]
          /\ \A o \in Orders : OfOrder(o, map'[o]) /\ map[o] <= map'[o] /\ views[o] <= map'[o]
      BY <3>1, <3>2, MergeIs
    <3>4. /\ seed' \in Seeds
          /\ seed'.view = seed.view
      BY <1>9, <3>1 DEF Seeds
    <3>5. \A o \in Orders : OfOrder(o, map[o])'
      BY <3>1, <3>3 DEF OfOrder
    <3>6. ASSUME mapWire.open, NEW j \in 1 .. fed, mapWire.from < j PROVE OnMap(j)'
      <4>1. j \in 1 .. Len(log)
        BY <1>0
      <4>2. log[j] \in Views
        BY <1>0, <4>1 DEF Story
      <4>3. log[j].order \in Orders /\ OnMap(j)
        BY <3>6, <4>2 DEF MapInv, Views
      <4>4. map[log[j].order] <= map'[log[j].order] /\ map[log[j].order] \in Nat
            /\ map'[log[j].order] \in Nat
        BY <1>9, <3>3, <4>3
      <4> QED BY <3>1, <4>3, <4>4 DEF OnMap
    <3>7. MapInv'
      BY <3>1, <3>2, <3>3, <3>4, <3>5, <3>6 DEF MapInv
    <3> QED BY <3>3, <3>7
  <2>4. CASE MapOnMessage
    <3> DEFINE ws == mapWire.views
               i == ws[1]
               views == [o \in Orders |-> IF o = log[i].order THEN i ELSE 0]
    <3>1. /\ UNCHANGED <<log, doc, fed>> /\ seed' = seed /\ ws # <<>> /\ Merge(views)
          /\ mapWire' = [mapWire EXCEPT !.views = Tail(ws)]
      BY <2>4 DEF MapOnMessage, feedVars
    <3>2. /\ ws \in Seq(Nat) /\ Tail(ws) \in Seq(Nat) /\ Len(ws) \in Nat
          /\ Len(Tail(ws)) = Len(ws) - 1 /\ 1 \in 1 .. Len(ws)
          /\ \A k \in 1 .. Len(Tail(ws)) : Tail(ws)[k] = ws[k + 1]
      BY <1>9, <3>1
    <3>3. i \in 1 .. Len(log)
      BY <3>2 DEF MapInv
    <3>4. log[i] \in Views
      BY <1>0, <3>3 DEF Story
    <3>5. log[i].order \in Orders
      BY <3>4 DEF Views
    <3> HIDE DEF i
    <3>6. \A o \in Orders : OfOrder(o, views[o])
      BY <3>3 DEF OfOrder
    <3>7. views[log[i].order] = i
      BY <3>5
    <3> HIDE DEF views
    <3>8. /\ map' \in [Orders -> Nat]
          /\ \A o \in Orders : OfOrder(o, map'[o]) /\ map[o] <= map'[o] /\ views[o] <= map'[o]
      BY <3>1, <3>6, MergeIs
    <3>9. /\ mapWire' \in [open : BOOLEAN, from : Nat, views : Seq(Nat)]
          /\ mapWire'.views = Tail(ws) /\ mapWire'.open = mapWire.open
          /\ mapWire'.from = mapWire.from
      BY <1>9, <3>1, <3>2
    <3>10. \A o \in Orders : OfOrder(o, map[o])'
      BY <3>1, <3>8 DEF OfOrder
    <3>11. \A k \in 1 .. Len(Tail(ws)) : Tail(ws)[k] \in 1 .. Len(log)
      <4>1. \A k \in 1 .. Len(Tail(ws)) : k + 1 \in 1 .. Len(ws)
        BY <3>2
      <4> QED BY <3>2, <4>1 DEF MapInv
    <3>12. ASSUME mapWire.open, NEW j \in 1 .. fed, mapWire.from < j PROVE OnMap(j)'
      <4>1. j \in 1 .. Len(log)
        BY <1>0
      <4>2. log[j] \in Views
        BY <1>0, <4>1 DEF Story
      <4>3. log[j].order \in Orders /\ OnMap(j)
        BY <3>12, <4>2 DEF MapInv, Views
      <4>4. map[log[j].order] <= map'[log[j].order] /\ map[log[j].order] \in Nat
            /\ map'[log[j].order] \in Nat
        BY <1>9, <3>8, <4>3
      <4>5. CASE j <= map[log[j].order]
        BY <3>1, <4>4, <4>5 DEF OnMap
      <4>6. CASE \E k \in 1 .. Len(ws) : ws[k] = j
        <5>1. PICK k \in 1 .. Len(ws) : ws[k] = j
          BY <4>6
        <5>2. CASE k = 1
          <6>1. j = i
            BY <5>1, <5>2 DEF i
          <6> QED BY <3>1, <3>5, <3>7, <3>8, <6>1 DEF OnMap
        <5>3. CASE k # 1
          <6>1. k - 1 \in 1 .. Len(Tail(ws)) /\ k = (k - 1) + 1
            BY <3>2, <5>3
          <6>2. Tail(ws)[k - 1] = j
            BY <3>2, <5>1, <6>1
          <6> QED BY <3>9, <6>1, <6>2 DEF OnMap
        <5> QED BY <5>2, <5>3
      <4> QED BY <4>3, <4>5, <4>6 DEF OnMap
    <3>13. ASSUME seed.step = "done", NEW o \in Orders PROVE Latest(log, o, seed.view) <= map'[o]
      <4>1. Latest(log, o, seed.view) <= map[o] /\ map[o] <= map'[o]
        BY <3>8, <3>13 DEF MapInv
      <4>2. Latest(log, o, seed.view) \in Nat /\ map[o] \in Nat /\ map'[o] \in Nat
        BY <1>9, <3>8, LatestIs DEF Seeds
      <4> QED BY <4>1, <4>2
    <3>14. MapInv'
      BY <3>1, <3>8, <3>9, <3>10, <3>11, <3>12, <3>13 DEF MapInv
    <3> QED BY <3>8, <3>14
  <2> QED BY <1>6, <2>1, <2>2, <2>3, <2>4 DEF MerchantMap
<1> QED BY <1>2, <1>3, <1>4, <1>5, <1>6, Steps

LEMMA MapStart == Init => MapInv
<1> SUFFICES ASSUME Init PROVE MapInv
  OBVIOUS
<1>1. /\ seed = [step |-> "asked", view |-> 0]
      /\ mapWire = [open |-> FALSE, from |-> 0, views |-> <<>>]
      /\ map = [o \in Orders |-> 0] /\ log = <<>>
  BY DEF Init, FeedInit, Unseeded
<1> QED BY <1>1 DEF MapInv, OfOrder, Seeds

\* The seed and the stream of the merchant's map meet without a gap, if the seed
\* reaches to where the open stream began: also when the stream was lost before, the
\* token was renewed, or messages were read twice (use-tenant-dispatch-stream.ts).
THEOREM MapAlwaysCurrent == Spec => []MapIsCurrent
<1>1. LogInv /\ MapInv => MapIsCurrent
  <2> SUFFICES ASSUME LogInv, MapInv, seed.step = "done", mapWire.open,
                      mapWire.from <= seed.view, mapWire.views = <<>>, fed = Len(log),
                      NEW o \in Orders
               PROVE  map[o] = LatestOf(o, fed)
    BY DEF MapIsCurrent
  <2> DEFINE l == Latest(log, o, fed)
             m == map[o]
             s == seed.view
  <2>1. fed \in Nat /\ s \in Nat /\ m \in Nat /\ OfOrder(o, m) /\ s <= fed
    BY DEF LogInv, Story, MapInv, Seeds
  <2>2. l \in 0 .. fed /\ (l # 0 => log[l].order = o)
        /\ \A i \in 1 .. fed : log[i].order = o => i <= l
    BY <2>1, LatestIs
  <2>3. m <= l
    BY <2>1, <2>2 DEF OfOrder
  <2>4. l <= m
    <3>1. CASE l = 0
      BY <2>1, <3>1
    <3>2. CASE l # 0 /\ l <= s
      <4>1. l <= Latest(log, o, s) /\ Latest(log, o, s) \in Nat
        BY <2>1, <2>2, <3>2, LatestIs
      <4>2. Latest(log, o, s) <= m
        BY DEF MapInv
      <4> QED BY <2>1, <2>2, <4>1, <4>2
    <3>3. CASE l # 0 /\ ~(l <= s)
      <4>1. mapWire.open /\ mapWire.from < l /\ l \in 1 .. fed
        BY <2>1, <2>2, <3>3 DEF MapInv
      <4>2. OnMap(l) /\ Len(mapWire.views) = 0
        BY <4>1 DEF MapInv
      <4> HIDE DEF l
      <4>3. l <= map[log[l].order]
        BY <4>2 DEF OnMap
      <4> QED BY <2>2, <3>3, <4>3
    <3> QED BY <3>1, <3>2, <3>3
  <2>5. LatestOf(o, fed) = l
    BY TheLog
  <2> HIDE DEF l, m
  <2> QED BY <2>1, <2>2, <2>3, <2>4, <2>5 DEF m
<1>2. LogInv /\ MapInv /\ [Next]_vars => (LogInv /\ MapInv)'
  BY LogStep, MapStep
<1>3. Init => LogInv /\ MapInv
  BY MapStart, MineStart
<1> QED BY <1>1, <1>2, <1>3, PTL DEF Spec

\* A seed that answers late, or an event that is read twice, never takes a delivery on
\* the merchant's map back (reduceDispatch).
THEOREM MapNeverGoesBack == Spec => MapOnlyMovesForward
<1>1. LogInv /\ MapInv /\ [Next]_vars => [\A o \in Orders : map'[o] >= map[o]]_map
  <2> SUFFICES ASSUME LogInv, MapInv, [Next]_vars PROVE \A o \in Orders : map'[o] >= map[o]
    OBVIOUS
  <2>1. MapInv' /\ \A o \in Orders : map[o] <= map'[o]
    BY MapStep
  <2>2. \A o \in Orders : map[o] \in Nat /\ map'[o] \in Nat
    BY <2>1 DEF MapInv
  <2> QED BY <2>1, <2>2
<1>2. LogInv /\ MapInv /\ [Next]_vars => (LogInv /\ MapInv)'
  BY LogStep, MapStep
<1>3. Init => LogInv /\ MapInv
  BY MapStart, MineStart
<1> QED BY <1>1, <1>2, <1>3, PTL DEF Spec, MapOnlyMovesForward
=============================================================================
