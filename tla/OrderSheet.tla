------------------------------ MODULE OrderSheet ------------------------------
(***************************************************************************)
(* The merchant's detail sheet of an order (web-merchant,                   *)
(* order-detail-sheet.tsx) over the board: what it shows of the payment,    *)
(* and the buttons to accept and to decline.  The board's own rows, which   *)
(* OrderViews has in detail, follow the orders sooner or later: a row that  *)
(* is opened may show any status that its order has had.                    *)
(***************************************************************************)
EXTENDS OrderStage

CONSTANTS
  Slots,               \* bound: payment reads at a time
  Decisions            \* bound: decisions at a time

VARIABLES
  selected, shown,     \* the sheet: its order, and the status the row shows
  sheetPaid, busy,     \* the payment it shows; its buttons are disabled
  read, act            \* its requests

sheetVars == <<selected, shown, sheetPaid, busy, read, act>>

IdleRead == [step |-> "idle", order |-> NoOrder, paid |-> "none", active |-> FALSE]
IdleAct == [step |-> "idle", order |-> NoOrder]

SheetTypeOK ==
  /\ StageTypeOK
  /\ shown \in {StatusOf(st) : st \in Stages}
  /\ selected \in Orders \cup {NoOrder} /\ sheetPaid \in Payments /\ busy \in BOOLEAN
  /\ read \in [Slots -> [step : {"idle", "asked", "read"},
       order : Orders \cup {NoOrder}, paid : Payments, active : BOOLEAN]]
  /\ act \in [Decisions -> [step : {"idle", "sent", "checked", "ok", "refused"},
                       order : Orders \cup {NoOrder}]]

SheetInit ==
  /\ selected = NoOrder /\ shown = "none" /\ sheetPaid = "none" /\ busy = FALSE
  /\ read = [s \in Slots |-> IdleRead] /\ act = [s \in Decisions |-> IdleAct]

-----------------------------------------------------------------------------
BoardShows ==
  /\ selected # NoOrder /\ shown # StatusOf(stage[selected])
  /\ shown' = StatusOf(stage[selected])
  /\ UNCHANGED <<orderVars, selected, sheetPaid, busy, read, act>>

\* The clean-up of an effect lets the answers to older requests go.
\* (KeepOldReads is the clean-up left out.)
KeepOldReads(reads) == reads
CleanUp(reads) == [s \in Slots |-> [reads[s] EXCEPT !.active = FALSE]]

\* The effect of [order?.orderId]: the state is reset, the payment is asked for.
Select(o, s) ==
  /\ selected = NoOrder /\ stage[o] # "none" /\ read[s].step = "idle"
  /\ selected' = o /\ shown' \in {"PLACED", StatusOf(stage[o])}
  /\ sheetPaid' = "none" /\ busy' = FALSE
  /\ read' = [CleanUp(read) EXCEPT ![s] =
                [step |-> "asked", order |-> o, paid |-> "none", active |-> TRUE]]
  /\ UNCHANGED <<orderVars, act>>

Shut ==
  /\ selected' = NoOrder /\ shown' = "none" /\ sheetPaid' = "none" /\ busy' = FALSE
  /\ read' = CleanUp(read)

Close == selected # NoOrder /\ Shut /\ UNCHANGED <<orderVars, act>>

PaymentRead(s) ==
  /\ read[s].step = "asked"
  /\ read' = [read EXCEPT ![s].step = "read", ![s].paid = payment[read[s].order]]
  /\ UNCHANGED <<orderVars, selected, shown, sheetPaid, busy, act>>

\* A failed read shows as no payment.
PaymentShown(s) ==
  /\ read[s].step # "idle"
  /\ \E paid \in {"none"} \cup (IF read[s].step = "read" THEN {read[s].paid} ELSE {}) :
       sheetPaid' = IF read[s].active THEN paid ELSE sheetPaid
  /\ read' = [read EXCEPT ![s] = IdleRead]
  /\ UNCHANGED <<orderVars, selected, shown, busy, act>>

\* The buttons are there for a placed order whose payment is authorized.
Offered == selected # NoOrder /\ shown = "PLACED" /\ sheetPaid = "AUTHORIZED"

Act(s) ==
  /\ Offered /\ ~busy /\ busy' = TRUE
  /\ act[s] = IdleAct /\ act' = [act EXCEPT ![s] = [step |-> "sent", order |-> selected]]
  /\ UNCHANGED <<orderVars, selected, shown, sheetPaid, read>>

\* The merchant gate: the payment is looked up, the workflow signalled after.
\* One that has closed answers 404; one that takes the signal goes on in its
\* own time.
Decide(s) ==
  LET o == act[s].order
  IN /\ \/ /\ act[s].step = "sent" /\ payment[o] = "AUTHORIZED"
           /\ act' = [act EXCEPT ![s].step = "checked"]
        \/ /\ act[s].step = "sent" /\ payment[o] # "AUTHORIZED"
           /\ act' = [act EXCEPT ![s].step = "refused"]
        \/ act[s].step = "checked" /\ act' = [act EXCEPT ![s].step = "ok"]
        \/ /\ act[s].step = "checked" /\ ~Running(o)
           /\ act' = [act EXCEPT ![s].step = "refused"]
     /\ UNCHANGED <<orderVars, selected, shown, sheetPaid, busy, read>>

\* onClose() closes the sheet that is open, whichever order it shows by now;
\* setBusy(false) gives its buttons back.  Any answer may be lost.
Decided(s) ==
  /\ act[s].step # "idle" /\ act' = [act EXCEPT ![s] = IdleAct]
  /\ \/ act[s].step = "ok" /\ Shut
     \/ busy' = FALSE /\ UNCHANGED <<selected, shown, sheetPaid, read>>
  /\ UNCHANGED orderVars

Merchant ==
  \/ Close \/ BoardShows \/ \E o \in Orders, s \in Slots : Select(o, s)
  \/ \E s \in Slots : PaymentRead(s) \/ PaymentShown(s)
  \/ \E s \in Decisions : Act(s) \/ Decided(s)

\* The write API, the workflow, and the customer, who may confirm what was placed.
SheetNext ==
  \/ Merchant \/ \E s \in Decisions : Decide(s)
  \/ \E o \in Orders : (PlaceOrder(o) \/ ConfirmPayment(o) \/ BackEnd(o))
                       /\ UNCHANGED sheetVars

-----------------------------------------------------------------------------
(* Properties.                                                             *)

\* The payment that the sheet shows is, or was, that of the order that it shows,
\* although a late answer about another may come after it was opened: money that it
\* shows as held, taken or given back is of this order, and so is a refusal.
SheetShowsItsOwn ==
  sheetPaid # "none" =>
    /\ selected # NoOrder /\ payment[selected] # "none"
    /\ sheetPaid \in HeldPayments <=> payment[selected] \in HeldPayments

\* The buttons are offered soundly: a decision is refused by the merchant gate
\* only when the workflow came to one while the merchant looked at the order.
RefusedMeansSettled ==
  \A s \in Decisions : act[s].step = "refused" => Closing(act[s].order)

\* What the sheet shows and what it offers is of the order it is open for.
SheetIsSound == SheetShowsItsOwn /\ RefusedMeansSettled
=============================================================================
