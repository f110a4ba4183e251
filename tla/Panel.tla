------------------------------- MODULE Panel -------------------------------
(***************************************************************************)
(* The list of orders on a board and what is computed from it: the rows of *)
(* the merchant's and the operator's page (packages/web-shared,            *)
(* order-events.ts) and the operator's figures (analytics.ts, shown by     *)
(* web-admin's cards and charts).  The lists of the read API are capped,   *)
(* newest first; events and rows asked for one by one come in between.     *)
(*                                                                         *)
(* An order is its number, and its total is twice that number; it is for   *)
(* as many pieces of one SKU.  A clock that ticks with every change of an  *)
(* order stands for updatedAt, of which an hour has two ticks.             *)
(***************************************************************************)
EXTENDS Naturals, Sequences, SequencesExt

CONSTANTS
  Rows,                \* bound: orders
  Tenants, Goods,      \* tenants, and SKUs
  Cap,                 \* the limit of a list: 100 and 200
  TopLimit             \* the limit of topSkus

ASSUME PanelAssumption == Rows \in Nat /\ Cap \in Nat \ {0} /\ TopLimit \in Nat

VARIABLES
  docs,                \* the orders' documents
  rows,                \* the board's list
  viewer               \* whose board it is: a tenant's, or the operator's

panelVars == <<docs, rows, viewer>>

RowStatuses == {"PLACED", "ACCEPTED", "CANCELLED"}
Operator == "operator"

PanelTypeOK ==
  /\ docs \in Seq([order : 1 .. Rows, tenant : Tenants, sku : Goods,
                   status : RowStatuses, updatedAt : Nat])
  /\ rows \in Seq([order : 1 .. Rows, tenant : Tenants, sku : Goods,
                   status : RowStatuses, updatedAt : Nat])
  /\ viewer \in Tenants \cup {Operator}

PanelInit == docs = <<>> /\ rows = <<>> /\ viewer \in Tenants \cup {Operator}

TotalOf(o) == 2 * o.order
SumOf(list, Value(_)) == FoldSeq(LAMBDA o, sum : Value(o) + sum, 0, list)
ValuesOf(list, Value(_)) == {Value(list[i]) : i \in DOMAIN list}

-----------------------------------------------------------------------------
(* analytics.ts.  A chart is a function from its categories.                *)

live(o) == o.status # "CANCELLED"
Live(list) == SelectSeq(list, live)
Tenant(o) == o.tenant
Hour(o) == o.updatedAt \div 2
Sku(o) == o.sku

aggregateGmv(list) == SumOf(Live(list), TotalOf)

gmvByTenant(list) ==
  [t \in ValuesOf(list, Tenant) |->
     SumOf(SelectSeq(list, LAMBDA o : o.tenant = t /\ live(o)), TotalOf)]

statusBreakdown(list) ==
  [t \in ValuesOf(list, Tenant) |->
     [s \in RowStatuses |-> Len(SelectSeq(list, LAMBDA o : o.tenant = t /\ o.status = s))]]

Quantity(list, sku) ==
  SumOf(SelectSeq(Live(list), LAMBDA o : o.sku = sku), LAMBDA o : o.order)

\* The SKUs with the most pieces; of two with as many the one that comes first.
topSkus(list, limit) ==
  LET before(a, b) == Quantity(list, a) > Quantity(list, b)
                        \/ (Quantity(list, a) = Quantity(list, b) /\ a < b)
      ranked == SetToSortSeq(ValuesOf(Live(list), Sku), before)
  IN SubSeq(ranked, 1, IF Len(ranked) < limit THEN Len(ranked) ELSE limit)

gmvOverTime(list) ==
  [h \in ValuesOf(Live(list), Hour) |->
     SumOf(SelectSeq(Live(list), LAMBDA o : Hour(o) = h), TotalOf)]

orderCounts(list) ==
  [total |-> Len(list), cancelled |-> Len(SelectSeq(list, LAMBDA o : ~live(o)))]

-----------------------------------------------------------------------------
(* order-events.ts, and the lists of the read API.                          *)

\* (UpsertNew leaves the row that was there.)
UpsertNew(list, o) == SortSeq(<<o>> \o list, LAMBDA a, b : a.updatedAt > b.updatedAt)

upsertOrder(list, o) ==
  SortSeq(<<o>> \o SelectSeq(list, LAMBDA r : r.order # o.order),
          LAMBDA a, b : a.updatedAt > b.updatedAt)

\* Only the status is taken from an event; the row keeps its place and its time.
applyOrderEvent(list, order, status) ==
  [i \in DOMAIN list |-> IF list[i].order = order
                           THEN [list[i] EXCEPT !.status = status] ELSE list[i]]

Sees(o) == viewer \in {o.tenant, Operator}

\* listRecentOrders, listAllOrders.
Listed ==
  LET newest == SortSeq(SelectSeq(docs, Sees), LAMBDA a, b : a.updatedAt > b.updatedAt)
  IN SubSeq(newest, 1, IF Len(newest) < Cap THEN Len(newest) ELSE Cap)

Now == 1 + SumOf(docs, LAMBDA o : IF o.status = "PLACED" THEN 1 ELSE 2)

PlaceOne ==
  /\ Len(docs) < Rows
  /\ \E t \in Tenants, s \in Goods :
       docs' = Append(docs, [order |-> Len(docs) + 1, tenant |-> t, sku |-> s,
                             status |-> "PLACED", updatedAt |-> Now])
  /\ UNCHANGED <<rows, viewer>>

SettleOne ==
  /\ \E i \in DOMAIN docs, s \in RowStatuses :
       /\ docs[i].status = "PLACED" /\ s # "PLACED"
       /\ docs' = [docs EXCEPT ![i].status = s, ![i].updatedAt = Now]
  /\ UNCHANGED <<rows, viewer>>

Resync == rows' = Listed /\ UNCHANGED <<docs, viewer>>

\* An event may come late: PLACED, when the order has been settled since.
LiveEvent ==
  /\ \E i \in DOMAIN docs :
       /\ Sees(docs[i])
       /\ \E s \in {"PLACED", docs[i].status} :
            rows' = applyOrderEvent(rows, docs[i].order, s)
  /\ UNCHANGED <<docs, viewer>>

\* getOrder, for a new order's row.  The operator is answered 404.
RowArrives ==
  /\ \E i \in DOMAIN docs : viewer = docs[i].tenant /\ rows' = upsertOrder(rows, docs[i])
  /\ UNCHANGED <<docs, viewer>>

PanelNext == PlaceOne \/ SettleOne \/ Resync \/ LiveEvent \/ RowArrives

-----------------------------------------------------------------------------
(* Property.                                                               *)

Bars(chart, Value(_)) == SumOf(SetToSeq(DOMAIN chart), LAMBDA c : Value(chart[c]))
Itself(n) == n

\* The figures of a board agree with one another and with its rows, whatever
\* list, events and single rows it was made from: no order is counted twice, the
\* bars of each chart add up to the number on its card, and no SKU that is left out
\* sold more than one that is shown.
FiguresAgree ==
  /\ \A i, j \in DOMAIN rows : rows[i].order = rows[j].order => i = j
  /\ Bars(gmvByTenant(rows), Itself) = aggregateGmv(rows)
  /\ Bars(gmvOverTime(rows), Itself) = aggregateGmv(rows)
  /\ Bars(statusBreakdown(rows), LAMBDA c : c["PLACED"] + c["ACCEPTED"] + c["CANCELLED"])
       = orderCounts(rows).total
  /\ Bars(statusBreakdown(rows), LAMBDA c : c["CANCELLED"]) = orderCounts(rows).cancelled
  /\ LET top == topSkus(rows, TopLimit)
     IN \A s \in ValuesOf(Live(rows), Sku) \ ToSet(top) :
          Len(top) = TopLimit /\ \A i \in DOMAIN top : Quantity(rows, top[i]) >= Quantity(rows, s)
=============================================================================
