---------------------------- MODULE PartsProofs ----------------------------
(***************************************************************************)
(* Proofs about the parts that MCParts puts side by side, for any number   *)
(* of orders, items, lost answers, rotations, crashes, pings and watches.  *)
(*                                                                         *)
(* The pages: CheckoutInv ties the stage of an order to the request that   *)
(* placed it and to the page its customer was sent to; SheetInv ties every *)
(* answer and every decision under way to the order that was asked about.  *)
(*                                                                         *)
(* The signing keys: SealInv, what is published is sealed, or about to be. *)
(* LiveInv: a key that signed since the last rotation began is the current *)
(* one, so that the next rotation may only demote it; this has to hold in  *)
(* every state that a crash can leave in the table.  ToldInv: what a key   *)
(* set lacks is newer than all that it has, because keys are created in    *)
(* order.                                                                  *)
(*                                                                         *)
(* The telemetry plane: the marker's invariant rests on what a tick has    *)
(* promised itself, a location is asked for only after a delivery en route *)
(* was put on the page (TickInv); the watch's on the flag that the cleanup *)
(* of the effect sets.                                                     *)
(***************************************************************************)
EXTENDS MCParts, TLAPS

-----------------------------------------------------------------------------
(* The orders behind the pages.                                            *)

\* Before the confirmation, and after it.
Early == {"none", "placed", "started"}
Asked == {"confirmed", "authorized", "settling", "accepted", "cancelled"}

\* Money is held only once the workflow has asked for it, and is taken or
\* given back only once the workflow has come to a decision.
StageInv ==
  /\ StageTypeOK
  /\ \A o \in Orders : /\ payment[o] # "none" => stage[o] \in Asked
                       /\ payment[o] \in {"CAPTURED", "VOIDED"} => Closing(o)

Moves(o) == PlaceOrder(o) \/ ConfirmPayment(o) \/ BackEnd(o)

\* The stages that an order may pass from one to the other.
Follows(from, to) ==
  \/ from = "none" /\ to = "placed"
  \/ from = "placed" /\ to = "started"
  \/ from = "started" /\ to \in {"confirmed", "lapsing"}
  \/ from = "confirmed" /\ to \in {"authorized", "settling"}
  \/ from = "authorized" /\ to = "settling"
  \/ from = "settling" /\ to \in {"accepted", "cancelled"}
  \/ from = "lapsing" /\ to = "expired"

\* A step of an order moves its stage or its payment.
LEMMA StageOrMoney ==
  ASSUME StageTypeOK, NEW o \in Orders, Moves(o)
  PROVE  /\ StageTypeOK'
         /\ \A p \in Orders : p # o => stage'[p] = stage[p] /\ payment'[p] = payment[p]
         /\ \/ /\ Follows(stage[o], stage'[o]) /\ payment'[o] = payment[o]
               /\ stage'[o] = "confirmed" => ConfirmPayment(o)
            \/ /\ stage'[o] = stage[o] /\ payment'[o] # "none" /\ payment[o] # "DECLINED"
               /\ payment[o] \in HeldPayments => payment'[o] \in HeldPayments
               /\ \/ stage[o] \in {"confirmed", "settling", "cancelled"}
                     /\ payment'[o] \in {"AUTHORIZED", "DECLINED"}
                  \/ stage[o] \in {"settling", "cancelled"}
<1>1. ASSUME NEW st \in Stages, Reach(o, st)
      PROVE  /\ StageTypeOK' /\ stage'[o] = st /\ payment' = payment
             /\ \A p \in Orders : p # o => stage'[p] = stage[p]
  BY <1>1 DEF Reach, StageTypeOK
<1>2. ASSUME NEW paid \in Payments, Pay(o, paid)
      PROVE  /\ StageTypeOK' /\ payment'[o] = paid /\ stage' = stage
             /\ \A p \in Orders : p # o => payment'[p] = payment[p]
  BY <1>2 DEF Pay, StageTypeOK
<1>3. CASE PlaceOrder(o)
  BY <1>1, <1>3 DEF PlaceOrder, Follows, Stages
<1>4. CASE ConfirmPayment(o)
  <2>1. stage[o] = "started" /\ Reach(o, "confirmed") /\ "confirmed" \in Stages
    BY <1>4 DEF ConfirmPayment, Stages
  <2> QED BY <1>1, <1>4, <2>1 DEF Follows
<1>5. CASE WorkflowStep(o)
  <2>1. PICK st \in Stages \ {"confirmed"} : Reach(o, st) /\ Follows(stage[o], st)
    BY <1>5 DEF WorkflowStep, Follows, Stages
  <2> QED BY <1>1, <2>1
<1>6. CASE Hold(o)
  <2>1. PICK paid \in {"AUTHORIZED", "DECLINED"} :
          /\ Pay(o, paid) /\ payment[o] = "none"
          /\ stage[o] \in {"confirmed", "settling", "cancelled"}
    BY <1>6 DEF Hold
  <2>2. paid \in Payments /\ "none" \notin HeldPayments
    BY DEF Payments, HeldPayments
  <2> QED BY <1>2, <2>1, <2>2
<1>7. CASE Settle(o)
  <2>1. PICK paid \in {"CAPTURED", "VOIDED"} :
          Pay(o, paid) /\ stage[o] \in {"settling", "cancelled"}
    BY <1>7 DEF Settle
  <2>2. paid \in Payments /\ paid \in HeldPayments /\ payment[o] # "DECLINED"
    BY <1>7 DEF Payments, HeldPayments, Settle
  <2> QED BY <1>2, <2>1, <2>2
<1> QED BY <1>3, <1>4, <1>5, <1>6, <1>7 DEF Moves, BackEnd

\* How far an order may move in a step.
LEMMA StageMoves ==
  ASSUME StageInv, NEW o \in Orders, Moves(o)
  PROVE  /\ StageInv'
         /\ \A p \in Orders : p # o => stage'[p] = stage[p] /\ payment'[p] = payment[p]
         /\ stage'[o] \in Early => stage[o] \in Early
         /\ stage'[o] \in Asked => stage[o] \in Asked \/ ConfirmPayment(o)
         /\ Closing(o) => Closing(o)'
         /\ payment[o] # "none" => payment'[o] # "none"
         /\ payment[o] \in HeldPayments => payment'[o] \in HeldPayments
         /\ payment[o] = "DECLINED" => payment'[o] = "DECLINED"
<1> USE DEF Early, Asked, Follows
<1>1. StageTypeOK
  BY DEF StageInv
<1>2. /\ StageTypeOK'
      /\ \A p \in Orders : p # o => stage'[p] = stage[p] /\ payment'[p] = payment[p]
      /\ \/ /\ Follows(stage[o], stage'[o]) /\ payment'[o] = payment[o]
            /\ stage'[o] = "confirmed" => ConfirmPayment(o)
         \/ /\ stage'[o] = stage[o] /\ payment'[o] # "none" /\ payment[o] # "DECLINED"
            /\ payment[o] \in HeldPayments => payment'[o] \in HeldPayments
            /\ \/ stage[o] \in {"confirmed", "settling", "cancelled"}
                  /\ payment'[o] \in {"AUTHORIZED", "DECLINED"}
               \/ stage[o] \in {"settling", "cancelled"}
  BY <1>1, StageOrMoney
<1>3. Closing(o) => Closing(o)'
  BY <1>2 DEF Closing
<1>4. /\ payment'[o] # "none" => stage'[o] \in Asked
      /\ payment'[o] \in {"CAPTURED", "VOIDED"} => Closing(o)'
  BY <1>2, <1>3 DEF StageInv, Closing
<1>5. ASSUME NEW p \in Orders
      PROVE  /\ payment'[p] # "none" => stage'[p] \in Asked
             /\ payment'[p] \in {"CAPTURED", "VOIDED"} => Closing(p)'
  BY <1>2, <1>4 DEF StageInv, Closing
<1>6. StageInv'
  BY <1>2, <1>5 DEF StageInv
<1> QED BY <1>2, <1>3, <1>6

LEMMA StageStart == StageInit => StageInv
BY DEF StageInit, StageInv, StageTypeOK, Stages, Payments

-----------------------------------------------------------------------------
(* The customer's pages.                                                   *)

Posts == [Orders -> [step : {"unused", "waiting", "ok", "failed"},
                     lines : [Skus -> 0 .. MaxQty], mounted : BOOLEAN]]

\* The workflow asks for money on the confirmation of a customer who was sent to
\* the order's page.
CheckoutInv ==
  /\ StageInv
  /\ cart \in [Skus -> 0 .. MaxQty]
  /\ post \in Posts
  /\ confirm \in [Orders -> {"idle", "sent", "taken", "refused"}]
  /\ \A o \in Orders : post[o].step # "unused" => Valid(post[o].lines)
  /\ page.at = "order" => page.order \in Orders /\ post[page.order].step = "ok"
  /\ confirming => page.at = "order"
  /\ \A o \in Orders : confirm[o] # "idle" => post[o].step = "ok"
  /\ \A o \in Orders : confirm[o] = "taken" => stage[o] \notin Early
  /\ \A o \in Orders : stage[o] \in Asked => post[o].step = "ok"
  /\ ButtonComesBack

LEMMA CheckoutStart == StageInit /\ CheckoutInit => CheckoutInv
<1> SUFFICES ASSUME StageInit, CheckoutInit PROVE CheckoutInv
  OBVIOUS
<1>1. EmptyCart \in [Skus -> 0 .. MaxQty]
  BY CheckoutAssumption DEF EmptyCart
<1> QED BY <1>1, StageStart DEF CheckoutInit, CheckoutInv, Posts, StageInit, ButtonComesBack,
        Early, Asked

\* A step that leaves the orders alone.
LEMMA PageKeeps ==
  ASSUME CheckoutInv, UNCHANGED orderVars
  PROVE  StageInv'
BY DEF CheckoutInv, StageInv, StageTypeOK, orderVars, Closing

\* A request goes on as it was when its page is left.
LEMMA UnmountedKeeps ==
  ASSUME NEW posts \in Posts
  PROVE  /\ Unmounted(posts) \in Posts
         /\ \A o \in Orders : /\ Unmounted(posts)[o].step = posts[o].step
                              /\ Unmounted(posts)[o].lines = posts[o].lines
<1>1. \A o \in Orders :
        /\ [posts[o] EXCEPT !.mounted = FALSE] \in
             [step : {"unused", "waiting", "ok", "failed"},
              lines : [Skus -> 0 .. MaxQty], mounted : BOOLEAN]
        /\ [posts[o] EXCEPT !.mounted = FALSE].step = posts[o].step
        /\ [posts[o] EXCEPT !.mounted = FALSE].lines = posts[o].lines
  BY DEF Posts
<1> QED BY <1>1 DEF Unmounted, Posts

LEMMA CheckoutStep == CheckoutInv /\ [CheckoutNext]_<<orderVars, checkoutVars>> => CheckoutInv'
<1> SUFFICES ASSUME CheckoutInv, [CheckoutNext]_<<orderVars, checkoutVars>>
             PROVE  CheckoutInv'
  OBVIOUS
<1>1. CASE UNCHANGED <<orderVars, checkoutVars>>
  BY <1>1, PageKeeps DEF CheckoutInv, ButtonComesBack, orderVars, checkoutVars, Valid
<1>2. CASE Browse
  <2>1. /\ UNCHANGED <<cart, confirm, orderVars>> /\ post' = Unmounted(post) /\ confirming' = FALSE
        /\ page'.at = "order" => page'.order \in Orders /\ post[page'.order].step = "ok"
    BY <1>2 DEF Browse, Open
  <2>2. /\ post' \in Posts
        /\ \A o \in Orders : post'[o].step = post[o].step /\ post'[o].lines = post[o].lines
    BY <2>1, UnmountedKeeps DEF CheckoutInv
  <2>3. \A o \in Orders : post'[o].step # "unused" => Valid(post'[o].lines)
    BY <2>2 DEF CheckoutInv, Posts
  <2>4. page'.at = "order" => page'.order \in Orders /\ post'[page'.order].step = "ok"
    BY <2>1, <2>2
  <2> QED BY <2>1, <2>2, <2>3, <2>4, PageKeeps DEF CheckoutInv, ButtonComesBack, orderVars, Valid
<1>3. CASE \E s \in Skus : Add(s)
  <2>1. PICK s \in Skus : Add(s)
    BY <1>3
  <2>2. cart' \in [Skus -> 0 .. MaxQty]
    BY <2>1, CheckoutAssumption DEF Add, CheckoutInv
  <2> QED BY <2>1, <2>2, PageKeeps DEF Add, CheckoutInv, ButtonComesBack, orderVars, Valid
<1>4. CASE \E o \in Orders : Submit(o)
  <2>1. PICK o \in Orders : Submit(o)
    BY <1>4
  <2>2. /\ post' = [post EXCEPT ![o] = [step |-> "waiting", lines |-> cart, mounted |-> TRUE]]
        /\ post[o].step = "unused" /\ cart # EmptyCart
        /\ UNCHANGED <<cart, page, confirming, confirm, orderVars>>
    BY <2>1 DEF Submit, Send
  <2>3. /\ post' \in Posts
        /\ post'[o].lines = cart
        /\ \A p \in Orders : p # o => post'[p] = post[p]
    BY <2>2 DEF CheckoutInv, Posts
  <2>4. \A p \in Orders : post'[p].step # "unused" => Valid(post'[p].lines)
    BY <2>2, <2>3 DEF CheckoutInv, Valid
  <2>5. \A p \in Orders : post[p].step = "ok" => post'[p].step = "ok"
    BY <2>2, <2>3
  <2> QED BY <2>2, <2>3, <2>4, <2>5, PageKeeps DEF CheckoutInv, ButtonComesBack, orderVars, Valid
<1>5. CASE \E o \in Orders : OrderPlaced(o)
  <2>1. PICK o \in Orders : OrderPlaced(o)
    BY <1>5
  <2>2. /\ post' = Unmounted([post EXCEPT ![o].step = "ok"]) /\ post[o].step = "waiting"
        /\ cart' = EmptyCart /\ confirming' = FALSE /\ page' = [at |-> "order", order |-> o]
        /\ UNCHANGED <<confirm, orderVars>>
    BY <2>1 DEF OrderPlaced, Open
  <2>3. cart' \in [Skus -> 0 .. MaxQty]
    BY <2>2, CheckoutAssumption DEF EmptyCart
  <2>4. /\ post' \in Posts
        /\ \A p \in Orders : /\ post'[p].step = IF p = o THEN "ok" ELSE post[p].step
                             /\ post'[p].lines = post[p].lines
    <3> DEFINE posts == [post EXCEPT ![o].step = "ok"]
    <3>1. /\ posts \in Posts
          /\ \A p \in Orders : /\ posts[p].step = IF p = o THEN "ok" ELSE post[p].step
                               /\ posts[p].lines = post[p].lines
      BY <2>2 DEF CheckoutInv, Posts
    <3>2. post' = Unmounted(posts)
      BY <2>2
    <3> HIDE DEF posts
    <3> QED BY <3>1, <3>2, UnmountedKeeps
  <2>5. \A p \in Orders : post'[p].step # "unused" => Valid(post'[p].lines)
    BY <2>2, <2>4 DEF CheckoutInv
  <2>6. post'[o].step = "ok" /\ \A p \in Orders : post[p].step = "ok" => post'[p].step = "ok"
    BY <2>4
  <2>7. StageInv' /\ stage' = stage /\ payment' = payment /\ confirm' = confirm
    BY <2>2, PageKeeps DEF orderVars
  <2>8. /\ \A p \in Orders : confirm'[p] # "idle" => post'[p].step = "ok"
        /\ \A p \in Orders : confirm'[p] = "taken" => stage'[p] \notin Early
        /\ \A p \in Orders : stage'[p] \in Asked => post'[p].step = "ok"
    BY <2>6, <2>7 DEF CheckoutInv
  <2>9. ButtonComesBack' /\ (page'.at = "order" => page'.order \in Orders /\ post'[page'.order].step = "ok")
    BY <2>2, <2>6 DEF ButtonComesBack
  <2>10. confirm' \in [Orders -> {"idle", "sent", "taken", "refused"}] /\ ~confirming'
    BY <2>2, <2>7 DEF CheckoutInv
  <2> QED BY <2>3, <2>4, <2>5, <2>7, <2>8, <2>9, <2>10 DEF CheckoutInv, Valid
<1>6. CASE \E o \in Orders : OrderNotPlaced(o)
  <2>1. PICK o \in Orders : OrderNotPlaced(o)
    BY <1>6
  <2>2. /\ post' = [post EXCEPT ![o].step = "failed"] /\ post[o].step = "waiting"
        /\ UNCHANGED <<cart, page, confirming, confirm, orderVars>>
    BY <2>1 DEF OrderNotPlaced
  <2>3. /\ post' \in Posts
        /\ \A p \in Orders : /\ post'[p].step = IF p = o THEN "failed" ELSE post[p].step
                             /\ post'[p].lines = post[p].lines
    BY <2>2 DEF CheckoutInv, Posts
  <2> QED BY <2>2, <2>3, PageKeeps DEF CheckoutInv, ButtonComesBack, orderVars, Valid
<1>7. CASE Poll
  BY <1>7, PageKeeps DEF Poll, CheckoutInv, ButtonComesBack, orderVars, Valid
<1>8. CASE OnConfirm
  <2>1. /\ page.at = "order" /\ confirm' = [confirm EXCEPT ![page.order] = "sent"]
        /\ confirm[page.order] = "idle"
        /\ confirming' = TRUE /\ UNCHANGED <<cart, page, post, orderVars>>
    BY <1>8 DEF OnConfirm
  <2>2. \A o \in Orders : confirm'[o] = IF o = page.order THEN "sent" ELSE confirm[o]
    BY <2>1 DEF CheckoutInv
  <2>3. confirm' \in [Orders -> {"idle", "sent", "taken", "refused"}]
    BY <2>1 DEF CheckoutInv
  <2> QED BY <2>1, <2>2, <2>3, PageKeeps DEF CheckoutInv, ButtonComesBack, orderVars, Valid
<1>9. CASE \E o \in Orders : ConfirmAnswered(o)
  <2>1. PICK o \in Orders : ConfirmAnswered(o)
    BY <1>9
  <2>2. /\ confirm' = [confirm EXCEPT ![o] = "idle"] /\ UNCHANGED <<cart, page, post, orderVars>>
        /\ confirming' => confirming /\ (page.order = o => confirm[o] = "taken")
    BY <2>1 DEF ConfirmAnswered, Reset
  <2>3. /\ confirm' \in [Orders -> {"idle", "sent", "taken", "refused"}]
        /\ \A p \in Orders : confirm'[p] = IF p = o THEN "idle" ELSE confirm[p]
    BY <2>2 DEF CheckoutInv, Posts
  <2>4. ButtonComesBack'
    <3>1. SUFFICES ASSUME confirming'
                   PROVE  \/ confirm'[page'.order] # "idle"
                          \/ stage'[page'.order] \notin {"none", "placed", "started"}
      BY DEF ButtonComesBack
    <3>2. page.order \in Orders /\ UNCHANGED <<page, stage>> /\ confirming
      BY <2>2, <3>1 DEF CheckoutInv, orderVars
    <3>3. CASE page.order = o
      BY <2>2, <3>1, <3>2, <3>3 DEF CheckoutInv, Early
    <3>4. CASE page.order # o
      BY <2>3, <3>2, <3>4 DEF CheckoutInv, ButtonComesBack
    <3> QED BY <3>3, <3>4
  <2> QED BY <2>2, <2>3, <2>4, PageKeeps DEF CheckoutInv, orderVars, Valid
<1>10. ASSUME NEW o \in Orders, Moves(o), UNCHANGED <<cart, page, post, confirming>>,
              confirm' \in [Orders -> {"idle", "sent", "taken", "refused"}],
              \A p \in Orders : p # o => confirm'[p] = confirm[p],
              confirm'[o] = "idle" <=> confirm[o] = "idle",
              confirm'[o] = "taken" => confirm[o] = "taken" \/ stage'[o] \notin Early,
              ConfirmPayment(o) => confirm[o] = "sent"
       PROVE  CheckoutInv'
  <2>1. /\ StageInv'
        /\ \A p \in Orders : p # o => stage'[p] = stage[p] /\ payment'[p] = payment[p]
        /\ stage'[o] \in Early => stage[o] \in Early
        /\ stage'[o] \in Asked => stage[o] \in Asked \/ confirm[o] = "sent"
    BY <1>10, StageMoves DEF CheckoutInv
  <2>2. \A p \in Orders : stage'[p] \in Asked => post'[p].step = "ok"
    BY <1>10, <2>1 DEF CheckoutInv
  <2>3. \A p \in Orders : confirm'[p] # "idle" => post'[p].step = "ok"
    BY <1>10 DEF CheckoutInv
  <2>4. \A p \in Orders : confirm'[p] = "taken" => stage'[p] \notin Early
    BY <1>10, <2>1 DEF CheckoutInv
  <2>5. ButtonComesBack'
    BY <1>10, <2>1 DEF CheckoutInv, ButtonComesBack, Early
  <2> QED BY <1>10, <2>1, <2>2, <2>3, <2>4, <2>5 DEF CheckoutInv, Valid
<1>11. CASE \E o \in Orders : PlaceServed(o)
  <2>1. PICK o \in Orders : PlaceServed(o)
    BY <1>11
  <2>2. PlaceOrder(o) /\ UNCHANGED <<cart, page, post, confirming, confirm>>
    BY <2>1 DEF PlaceServed, checkoutVars
  <2>3. ~ConfirmPayment(o)
    BY <2>2 DEF PlaceOrder, ConfirmPayment
  <2> QED BY <1>10, <2>2, <2>3 DEF Moves, CheckoutInv
<1>12. CASE \E o \in Orders : BackEnd(o) /\ UNCHANGED checkoutVars
  <2>1. PICK o \in Orders : BackEnd(o) /\ UNCHANGED checkoutVars
    BY <1>12
  <2>2. UNCHANGED <<cart, page, post, confirming, confirm>>
    BY <2>1 DEF checkoutVars
  <2>3. ~ConfirmPayment(o)
    <3>1. SUFFICES ASSUME ConfirmPayment(o) PROVE FALSE
      OBVIOUS
    <3>2. stage[o] = "started" /\ stage'[o] = "confirmed"
      BY <3>1 DEF ConfirmPayment, Reach, CheckoutInv, StageInv, StageTypeOK
    <3> QED BY <2>1, <3>2 DEF BackEnd, WorkflowStep, Hold, Settle, Reach, CheckoutInv, StageInv,
            StageTypeOK
  <2> QED BY <1>10, <2>1, <2>2, <2>3 DEF Moves, CheckoutInv
<1>13. CASE \E o \in Orders : ConfirmServed(o)
  <2>1. PICK o \in Orders : ConfirmServed(o)
    BY <1>13
  <2>2. PICK answer \in {"taken", "refused"} :
          /\ confirm' = [confirm EXCEPT ![o] = answer]
          /\ answer = "taken" => ~Unstarted(o)
          /\ answer = "refused" => ~Running(o)
    BY <2>1 DEF ConfirmServed
  <2>3. /\ UNCHANGED <<cart, page, post, confirming>> /\ confirm[o] = "sent"
        /\ confirm' \in [Orders -> {"idle", "sent", "taken", "refused"}]
        /\ \A p \in Orders : p # o => confirm'[p] = confirm[p]
        /\ confirm'[o] = answer
    BY <2>1, <2>2 DEF ConfirmServed, CheckoutInv
  <2>4. CASE ConfirmPayment(o)
    <3>1. stage'[o] = "confirmed"
      BY <2>4 DEF ConfirmPayment, Reach, CheckoutInv, StageInv, StageTypeOK
    <3>2. stage'[o] \notin Early
      BY <3>1 DEF Early
    <3> QED BY <1>10, <2>3, <2>4, <3>2 DEF Moves
  <2>5. CASE stage[o] # "started" /\ UNCHANGED orderVars
    <3>1. confirm'[o] = "taken" => stage[o] \notin Early
      BY <2>2, <2>3, <2>5 DEF Unstarted, Early
    <3>2. \A p \in Orders : confirm'[p] # "idle" => post[p].step = "ok"
      BY <2>3 DEF CheckoutInv
    <3>3. \A p \in Orders : confirm'[p] = "taken" => stage[p] \notin Early
      BY <2>3, <3>1 DEF CheckoutInv
    <3>4. confirming => confirm'[page.order] # "idle" \/ stage[page.order] \notin {"none", "placed", "started"}
      BY <2>3 DEF CheckoutInv, ButtonComesBack
    <3> QED BY <2>3, <2>5, <3>2, <3>3, <3>4, PageKeeps
            DEF CheckoutInv, ButtonComesBack, orderVars, Valid
  <2> QED BY <2>1, <2>4, <2>5 DEF ConfirmServed
<1> QED BY <1>1, <1>2, <1>3, <1>4, <1>5, <1>6, <1>7, <1>8, <1>9, <1>11, <1>12, <1>13
        DEF CheckoutNext, Customer

-----------------------------------------------------------------------------
(* The merchant's sheet.                                                   *)

Reads == [Slots -> [step : {"idle", "asked", "read"},
                    order : Orders \cup {NoOrder}, paid : Payments, active : BOOLEAN]]
Acts == [Decisions -> [step : {"idle", "sent", "checked", "ok", "refused"},
                       order : Orders \cup {NoOrder}]]

SheetTypes ==
  /\ selected \in Orders \cup {NoOrder} /\ read \in Reads /\ act \in Acts
  /\ sheetPaid \in Payments

\* What was read of an order's payment, and stays true: a hold, or a refusal.
Stands(o, paid) ==
  /\ paid \in HeldPayments => payment[o] \in HeldPayments
  /\ paid = "DECLINED" => payment[o] = "DECLINED"

\* An answer is shown only by the sheet that asked; whatever is decided was
\* offered for an order whose money was held.
SheetInv ==
  /\ StageInv /\ SheetTypes
  /\ sheetPaid # "none" => selected \in Orders
  /\ Stands(selected, sheetPaid)
  /\ \A s \in Slots :
       /\ read[s].step # "idle" => read[s].order \in Orders
       /\ read[s].step = "read" => Stands(read[s].order, read[s].paid)
       /\ read[s].active => read[s].step # "idle" /\ read[s].order = selected
  /\ \A s \in Decisions :
       /\ act[s].step # "idle" => act[s].order \in Orders /\ payment[act[s].order] \in HeldPayments
       /\ act[s].step = "refused" => Closing(act[s].order)

LEMMA SheetStart == StageInit /\ SheetInit => SheetInv
BY StageStart DEF SheetInit, SheetInv, SheetTypes, Reads, Acts, IdleRead, IdleAct, Payments,
   Stands, HeldPayments

\* The orders move on under the sheet, and what was true of them stays true.
LEMMA SheetFollows ==
  ASSUME SheetInv, NEW o \in Orders, Moves(o)
  PROVE  /\ StageInv'
         /\ \A p \in Orders : /\ payment[p] = "DECLINED" => payment'[p] = "DECLINED"
                              /\ payment[p] \in HeldPayments => payment'[p] \in HeldPayments
                              /\ Closing(p) => Closing(p)'
<1>1. ASSUME NEW p \in Orders
      PROVE  /\ payment[p] = "DECLINED" => payment'[p] = "DECLINED"
             /\ payment[p] \in HeldPayments => payment'[p] \in HeldPayments
             /\ Closing(p) => Closing(p)'
  <2>1. CASE p = o
    BY <2>1, StageMoves DEF SheetInv
  <2>2. CASE p # o
    <3>1. stage'[p] = stage[p] /\ payment'[p] = payment[p]
      BY <2>2, StageMoves DEF SheetInv
    <3> QED BY <3>1 DEF Closing
  <2> QED BY <2>1, <2>2
<1> QED BY <1>1, StageMoves DEF SheetInv

LEMMA SheetStep == SheetInv /\ [SheetNext]_<<orderVars, sheetVars>> => SheetInv'
<1> SUFFICES ASSUME SheetInv, [SheetNext]_<<orderVars, sheetVars>>
             PROVE  SheetInv'
  OBVIOUS
<1>0. ASSUME UNCHANGED orderVars
      PROVE  /\ StageInv' /\ UNCHANGED <<stage, payment>>
             /\ \A o : Closing(o)' <=> Closing(o)
             /\ \A o, paid : Stands(o, paid)' <=> Stands(o, paid)
  BY <1>0 DEF SheetInv, StageInv, StageTypeOK, orderVars, Closing, Stands
<1>1. CASE UNCHANGED <<orderVars, sheetVars>>
  BY <1>0, <1>1 DEF SheetInv, SheetTypes, sheetVars
<1>2. CASE BoardShows
  BY <1>0, <1>2 DEF BoardShows, SheetInv, SheetTypes
<1>3. \A s \in Slots : CleanUp(read)[s] = [read[s] EXCEPT !.active = FALSE]
  BY DEF CleanUp
<1>4. /\ CleanUp(read) \in Reads
      /\ \A s \in Slots :
           /\ CleanUp(read)[s].step = read[s].step /\ CleanUp(read)[s].order = read[s].order
           /\ CleanUp(read)[s].paid = read[s].paid /\ CleanUp(read)[s].active = FALSE
  <2>1. \A s \in Slots :
          /\ [read[s] EXCEPT !.active = FALSE] \in
               [step : {"idle", "asked", "read"},
                order : Orders \cup {NoOrder}, paid : Payments, active : BOOLEAN]
          /\ [read[s] EXCEPT !.active = FALSE].step = read[s].step
          /\ [read[s] EXCEPT !.active = FALSE].order = read[s].order
          /\ [read[s] EXCEPT !.active = FALSE].paid = read[s].paid
          /\ [read[s] EXCEPT !.active = FALSE].active = FALSE
    BY DEF SheetInv, SheetTypes, Reads
  <2> QED BY <1>3, <2>1 DEF CleanUp, Reads
<1> HIDE DEF CleanUp
<1>5. CASE \E o \in Orders, s \in Slots : Select(o, s)
  <2>1. PICK o \in Orders, s \in Slots : Select(o, s)
    BY <1>5
  <2> DEFINE asked == [step |-> "asked", order |-> o, paid |-> "none", active |-> TRUE]
  <2>2. /\ selected' = o /\ sheetPaid' = "none" /\ UNCHANGED <<orderVars, act>>
        /\ read' = [CleanUp(read) EXCEPT ![s] = asked]
    BY <2>1 DEF Select
  <2>3. asked \in [step : {"idle", "asked", "read"},
                   order : Orders \cup {NoOrder}, paid : Payments, active : BOOLEAN]
    BY DEF Payments
  <2>4. /\ read' \in Reads /\ read'[s] = asked
        /\ \A t \in Slots : t # s => read'[t] = CleanUp(read)[t]
    BY <1>4, <2>2, <2>3 DEF Reads
  <2>5. SheetTypes'
    BY <2>2, <2>4 DEF SheetInv, SheetTypes, Payments
  <2>6. \A t \in Slots :
       /\ read'[t].step # "idle" => read'[t].order \in Orders
       /\ read'[t].step = "read" => Stands(read'[t].order, read'[t].paid)
       /\ read'[t].active => read'[t].step # "idle" /\ read'[t].order = selected'
    BY <1>4, <2>2, <2>4 DEF SheetInv
  <2> QED BY <1>0, <2>2, <2>5, <2>6 DEF SheetInv, Stands, HeldPayments
<1>6. ASSUME Shut, UNCHANGED orderVars, act' \in Acts,
             \A s \in Decisions : act'[s] = act[s] \/ act'[s] = IdleAct
      PROVE  SheetInv'
  <2>1. selected' = NoOrder /\ sheetPaid' = "none" /\ read' = CleanUp(read)
    BY <1>6 DEF Shut
  <2>2. SheetTypes'
    BY <1>4, <1>6, <2>1 DEF SheetTypes, Payments
  <2>3. \A t \in Slots :
       /\ read'[t].step # "idle" => read'[t].order \in Orders
       /\ read'[t].step = "read" => Stands(read'[t].order, read'[t].paid)
       /\ ~read'[t].active
    BY <1>4, <2>1 DEF SheetInv
  <2>4. \A s \in Decisions :
       /\ act'[s].step # "idle" => act'[s].order \in Orders /\ payment[act'[s].order] \in HeldPayments
       /\ act'[s].step = "refused" => Closing(act'[s].order)
    BY <1>6 DEF SheetInv, IdleAct
  <2> QED BY <1>0, <1>6, <2>1, <2>2, <2>3, <2>4 DEF SheetInv, Stands, HeldPayments
<1>7. CASE Close
  BY <1>6, <1>7 DEF Close, SheetInv, SheetTypes
<1>8. CASE \E s \in Slots : PaymentRead(s)
  <2>1. PICK s \in Slots : PaymentRead(s)
    BY <1>8
  <2> DEFINE r == [read[s] EXCEPT !.step = "read", !.paid = payment[read[s].order]]
  <2>2. /\ read' = [read EXCEPT ![s] = r] /\ read[s].step = "asked"
        /\ UNCHANGED <<orderVars, selected, sheetPaid, act>>
    BY <2>1 DEF PaymentRead
  <2>3. read[s].order \in Orders /\ payment[read[s].order] \in Payments
    BY <2>2 DEF SheetInv, StageInv, StageTypeOK
  <2>4. /\ r \in [step : {"idle", "asked", "read"},
                  order : Orders \cup {NoOrder}, paid : Payments, active : BOOLEAN]
        /\ r.step = "read" /\ r.order = read[s].order /\ r.active = read[s].active
        /\ r.paid = payment[read[s].order]
    BY <2>3 DEF SheetInv, SheetTypes, Reads
  <2> HIDE DEF r
  <2>5. /\ read' \in Reads /\ read'[s] = r
        /\ \A t \in Slots : t # s => read'[t] = read[t]
    BY <2>2, <2>4 DEF SheetInv, SheetTypes, Reads
  <2>6. SheetTypes'
    BY <2>2, <2>5 DEF SheetInv, SheetTypes
  <2>7. \A t \in Slots :
       /\ read'[t].step # "idle" => read'[t].order \in Orders
       /\ read'[t].step = "read" => Stands(read'[t].order, read'[t].paid)
       /\ read'[t].active => read'[t].step # "idle" /\ read'[t].order = selected
    BY <2>2, <2>3, <2>4, <2>5 DEF SheetInv, Stands, HeldPayments
  <2> QED BY <1>0, <2>2, <2>6, <2>7 DEF SheetInv
<1>9. CASE \E s \in Slots : PaymentShown(s)
  <2>1. PICK s \in Slots : PaymentShown(s)
    BY <1>9
  <2>2. /\ read' = [read EXCEPT ![s] = IdleRead] /\ UNCHANGED <<orderVars, selected, act>>
        /\ \/ sheetPaid' \in {sheetPaid, "none"}
           \/ read[s].step = "read" /\ read[s].active /\ sheetPaid' = read[s].paid
    BY <2>1 DEF PaymentShown
  <2>3. /\ read' \in Reads /\ read'[s] = IdleRead
        /\ \A t \in Slots : t # s => read'[t] = read[t]
    BY <2>2 DEF SheetInv, SheetTypes, Reads, IdleRead, Payments
  <2>4. sheetPaid' \in Payments
    BY <2>2 DEF SheetInv, SheetTypes, Reads, Payments
  <2>5. SheetTypes'
    BY <2>2, <2>3, <2>4 DEF SheetInv, SheetTypes
  <2>6. (sheetPaid' # "none" => selected \in Orders) /\ Stands(selected, sheetPaid')
    BY <2>2 DEF SheetInv, Stands, HeldPayments
  <2>7. \A t \in Slots :
       /\ read'[t].step # "idle" => read'[t].order \in Orders
       /\ read'[t].step = "read" => Stands(read'[t].order, read'[t].paid)
       /\ read'[t].active => read'[t].step # "idle" /\ read'[t].order = selected
    BY <2>3 DEF SheetInv, IdleRead
  <2> QED BY <1>0, <2>2, <2>5, <2>6, <2>7 DEF SheetInv, Stands
<1>10. CASE \E s \in Decisions : Act(s)
  <2>1. PICK s \in Decisions : Act(s)
    BY <1>10
  <2>2. act' = [act EXCEPT ![s] = [step |-> "sent", order |-> selected]]
    BY <2>1 DEF Act
  <2>3. /\ UNCHANGED <<orderVars, selected, sheetPaid, read>>
        /\ selected \in Orders /\ payment[selected] \in HeldPayments
    BY <2>1 DEF Act, Offered, SheetInv, Stands, HeldPayments
  <2>4. /\ act' \in Acts
        /\ act'[s] = [step |-> "sent", order |-> selected]
        /\ \A t \in Decisions : t # s => act'[t] = act[t]
    BY <2>2, <2>3 DEF SheetInv, SheetTypes, Acts
  <2>5. SheetTypes'
    BY <2>3, <2>4 DEF SheetInv, SheetTypes
  <2>6. \A t \in Decisions :
       /\ act'[t].step # "idle" => act'[t].order \in Orders /\ payment[act'[t].order] \in HeldPayments
       /\ act'[t].step = "refused" => Closing(act'[t].order)
    BY <2>3, <2>4 DEF SheetInv
  <2> QED BY <1>0, <2>3, <2>5, <2>6 DEF SheetInv
<1>11. CASE \E s \in Decisions : Decided(s)
  <2>1. PICK s \in Decisions : Decided(s)
    BY <1>11
  <2>2. /\ act' = [act EXCEPT ![s] = IdleAct] /\ UNCHANGED orderVars
        /\ Shut \/ UNCHANGED <<selected, sheetPaid, read>>
    BY <2>1 DEF Decided
  <2>3. /\ act' \in Acts /\ \A t \in Decisions : act'[t] = act[t] \/ act'[t] = IdleAct
    BY <2>2 DEF SheetInv, SheetTypes, Acts, IdleAct
  <2>4. CASE UNCHANGED <<selected, sheetPaid, read>>
    <3>1. \A t \in Decisions :
       /\ act'[t].step # "idle" => act'[t].order \in Orders /\ payment[act'[t].order] \in HeldPayments
       /\ act'[t].step = "refused" => Closing(act'[t].order)
      BY <2>3 DEF SheetInv, IdleAct
    <3> QED BY <1>0, <2>2, <2>3, <2>4, <3>1 DEF SheetInv, SheetTypes
  <2> QED BY <1>6, <2>2, <2>3, <2>4
<1>12. ASSUME NEW o \in Orders, Moves(o), UNCHANGED <<selected, sheetPaid, read, act>>
       PROVE  SheetInv'
  <2>1. /\ StageInv'
        /\ \A p \in Orders : /\ payment[p] = "DECLINED" => payment'[p] = "DECLINED"
                             /\ payment[p] \in HeldPayments => payment'[p] \in HeldPayments
                             /\ Closing(p) => Closing(p)'
    BY <1>12, SheetFollows
  <2>2. Stands(selected, sheetPaid)'
    <3>1. CASE sheetPaid = "none"
      BY <1>12, <3>1 DEF Stands, HeldPayments
    <3>2. CASE sheetPaid # "none"
      <4>1. selected \in Orders /\ Stands(selected, sheetPaid)
        BY <3>2 DEF SheetInv
      <4> QED BY <1>12, <2>1, <4>1 DEF Stands
    <3> QED BY <3>1, <3>2
  <2>3. \A s \in Slots :
       /\ read'[s].step # "idle" => read'[s].order \in Orders
       /\ (read[s].step = "read" => Stands(read[s].order, read[s].paid))'
       /\ read'[s].active => read'[s].step # "idle" /\ read'[s].order = selected'
    BY <1>12, <2>1 DEF SheetInv, Stands
  <2>4. \A s \in Decisions :
       /\ act'[s].step # "idle" =>
            act'[s].order \in Orders /\ payment'[act'[s].order] \in HeldPayments
       /\ (act[s].step = "refused" => Closing(act[s].order))'
    BY <1>12, <2>1 DEF SheetInv, Closing
  <2>5. SheetTypes' /\ (sheetPaid' # "none" => selected' \in Orders)
    BY <1>12 DEF SheetInv, SheetTypes
  <2> QED BY <2>1, <2>2, <2>3, <2>4, <2>5 DEF SheetInv
<1>13. CASE \E s \in Decisions : Decide(s)
  <2>1. PICK s \in Decisions : Decide(s)
    BY <1>13
  <2> DEFINE o == act[s].order
  <2>2. /\ act[s].step \in {"sent", "checked"} /\ UNCHANGED <<orderVars, selected, sheetPaid, read>>
        /\ o \in Orders /\ payment[o] \in HeldPayments
    BY <2>1 DEF Decide, SheetInv
  <2>3. PICK answer \in {"checked", "ok", "refused"} :
          /\ act' = [act EXCEPT ![s].step = answer]
          /\ answer = "refused" => payment[o] # "AUTHORIZED" \/ ~Running(o)
    BY <2>1 DEF Decide
  <2>4. act[s] \in [step : {"idle", "sent", "checked", "ok", "refused"},
                    order : Orders \cup {NoOrder}]
    BY DEF SheetInv, SheetTypes, Acts
  <2>5. /\ act' \in Acts /\ act'[s].order = o /\ act'[s].step = answer
        /\ \A t \in Decisions : t # s => act'[t] = act[t]
    BY <2>3, <2>4 DEF SheetInv, SheetTypes, Acts
  <2>6. answer = "refused" => Closing(o)
    <3>1. payment[o] # "AUTHORIZED" => payment[o] \in {"CAPTURED", "VOIDED"}
      BY <2>2 DEF HeldPayments
    <3>2. stage[o] \in Asked
      BY <2>2 DEF SheetInv, StageInv, HeldPayments
    <3>3. ~Running(o) => Closing(o)
      BY <3>2 DEF Running, Closing, Asked
    <3> QED BY <2>2, <2>3, <3>1, <3>3 DEF SheetInv, StageInv
  <2>7. \A t \in Decisions :
       /\ act'[t].step # "idle" => act'[t].order \in Orders /\ payment[act'[t].order] \in HeldPayments
       /\ act'[t].step = "refused" => Closing(act'[t].order)
    BY <2>2, <2>5, <2>6 DEF SheetInv
  <2>8. SheetTypes'
    BY <2>2, <2>5 DEF SheetInv, SheetTypes
  <2> QED BY <1>0, <2>2, <2>7, <2>8 DEF SheetInv
<1>14. CASE \E o \in Orders : /\ PlaceOrder(o) \/ ConfirmPayment(o) \/ BackEnd(o)
                              /\ UNCHANGED sheetVars
  BY <1>12, <1>14 DEF Moves, sheetVars
<1> QED BY <1>1, <1>2, <1>5, <1>7, <1>8, <1>9, <1>10, <1>11, <1>13, <1>14
        DEF SheetNext, Merchant

-----------------------------------------------------------------------------
(* The parts side by side: the watched one takes its own steps, and the    *)
(* pages of the others stay as they were opened.                           *)

PagesInv ==
  /\ IF watched = "customer" THEN CheckoutInv
     ELSE ~confirming /\ \A o \in Orders : post[o].step = "unused"
  /\ IF watched = "merchant" THEN SheetInv
     ELSE sheetPaid = "none" /\ \A s \in Decisions : act[s].step = "idle"

LEMMA PagesStart == Init => PagesInv
BY CheckoutStart, SheetStart DEF Init, PagesInv, CheckoutInit, SheetInit, IdleAct

LEMMA PagesStep == PagesInv /\ [Next]_vars => PagesInv'
<1> SUFFICES ASSUME PagesInv, [Next]_vars PROVE PagesInv'
  OBVIOUS
<1>1. ASSUME UNCHANGED <<orderVars, checkoutVars>> PROVE CheckoutInv => CheckoutInv'
  BY <1>1, CheckoutStep
<1>2. ASSUME UNCHANGED <<orderVars, sheetVars>> PROVE SheetInv => SheetInv'
  BY <1>2, SheetStep
<1>3. CASE UNCHANGED <<orderVars, checkoutVars, sheetVars, watched>>
  BY <1>1, <1>2, <1>3 DEF PagesInv, checkoutVars, sheetVars
<1>4. CASE watched = "customer" /\ CheckoutNext /\ UNCHANGED <<sheetVars, watched>>
  BY <1>4, CheckoutStep DEF PagesInv, sheetVars
<1>5. CASE watched = "merchant" /\ SheetNext /\ UNCHANGED <<checkoutVars, watched>>
  BY <1>5, SheetStep DEF PagesInv, checkoutVars
<1> QED BY <1>3, <1>4, <1>5 DEF Next, Of, CatalogStep, PositionStep, vars

LEMMA PagesAlways == Spec => []PagesInv
BY PagesStart, PagesStep, PTL DEF Spec

\* The checkout never sends an order without a line, although the answer that
\* clears the cart may come when the customer is back at the checkout; and no money
\* is held for an order whose page the customer was not sent to, however many
\* submissions were placed whose answers were lost: the hold waits for the
\* confirmation, which only the tracking page sends (checkout/page.tsx,
\* orders/[orderId]/page.tsx).
THEOREM OnlyTheToldAreCharged == Spec => []CheckoutIsSound
<1>1. PagesInv => SentIsValid
  BY DEF PagesInv, CheckoutInv, SentIsValid
<1>2. PagesInv /\ watched = "customer" => OnlyToldIsCharged
  BY DEF PagesInv, CheckoutInv, StageInv, OnlyToldIsCharged, HeldPayments
<1>3. PagesInv => CheckoutIsSound
  BY <1>1, <1>2 DEF CheckoutIsSound
<1> QED BY <1>3, PagesAlways, PTL

\* The payment button is never left disabled by a confirmation that did nothing
\* (onConfirm gives it back unless the server took the confirmation).
THEOREM ButtonAlwaysComesBack == Spec => []ButtonComesBack
<1>1. PagesInv => ButtonComesBack
  BY DEF PagesInv, CheckoutInv, ButtonComesBack
<1> QED BY <1>1, PagesAlways, PTL

\* The merchant's sheet shows the payment of the order it is open for, whatever
\* answers come late, and offers a decision only where the gate would take it
\* unless somebody else decided meanwhile (order-detail-sheet.tsx).
THEOREM SheetAlwaysSound == Spec => []SheetIsSound
<1>1. PagesInv => SheetIsSound
  <2>1. PagesInv => sheetPaid \in Payments /\ 0 \notin Orders
    BY DEF PagesInv, SheetInv, SheetTypes, Orders, Payments
  <2>2. PagesInv => SheetShowsItsOwn
    BY <2>1 DEF PagesInv, SheetInv, Stands, SheetShowsItsOwn, Payments, HeldPayments, NoOrder
  <2> QED BY <2>2 DEF PagesInv, SheetInv, SheetIsSound, RefusedMeansSettled
<1> QED BY <1>1, PagesAlways, PTL

\* The pages do to an order only what OrderStage has, which the saga implements
\* (SagaImplementsStage): a request that comes early, late or twice is refused or
\* changes nothing (confirm-payment.controller.ts, accept.controller.ts).
THEOREM PagesKeepToStage == Spec => StageSpec
<1>1. ASSUME [Next]_vars PROVE [StageNext]_orderVars
  <2>1. CASE CheckoutNext
    <3>1. CASE Customer
      BY <3>1 DEF Customer, Browse, Poll, OnConfirm, Add, Submit, Send, OrderPlaced,
         OrderNotPlaced, ConfirmAnswered
    <3>2. ASSUME NEW o \in Orders,
                 PlaceServed(o) \/ ConfirmServed(o) \/ (BackEnd(o) /\ UNCHANGED checkoutVars)
          PROVE  [StageNext]_orderVars
      BY <3>2 DEF PlaceServed, ConfirmServed, StageNext
    <3> QED BY <2>1, <3>1, <3>2 DEF CheckoutNext
  <2>2. CASE SheetNext
    <3>1. CASE Merchant
      BY <3>1 DEF Merchant, Close, BoardShows, Select, PaymentRead, PaymentShown, Act, Decided
    <3>2. CASE \E s \in Decisions : Decide(s)
      BY <3>2 DEF Decide
    <3>3. CASE \E o \in Orders : /\ PlaceOrder(o) \/ ConfirmPayment(o) \/ BackEnd(o)
                                 /\ UNCHANGED sheetVars
      BY <3>3 DEF StageNext
    <3> QED BY <2>2, <3>1, <3>2, <3>3 DEF SheetNext
  <2>3. CASE UNCHANGED orderVars
    BY <2>3
  <2> QED BY <1>1, <2>1, <2>2, <2>3 DEF Next, Of, CatalogStep, PositionStep, vars
<1> QED BY <1>1, PTL DEF Spec, StageSpec, Init

-----------------------------------------------------------------------------
(* The signing keys.                                                       *)

Used == {k \in Keys : status[k] # "unused"}
Rotating == at \in {"retire", "demote", "generateNext"}
Loaded == serving \/ at = "migrate"

\* The types, and that the table is filled in order.
TableInv ==
  /\ KeysTypeOK
  /\ sealed \cup unsealed \cup jwks \cup known \subseteq Used
  /\ (kid \in Keys => kid \in Used) /\ (found \in Keys => found \in Used)
  /\ \A j, k \in Keys : j < k /\ status[j] = "unused" => status[k] = "unused"

SealInv ==
  /\ at = "down" => ~serving
  /\ serving /\ kek => Published \subseteq sealed
  /\ at = "migrate" /\ kek => Published \subseteq sealed \cup unsealed

LiveInv ==
  /\ at = "rows" => /\ found \in Keys /\ status[found] = "current"
                    /\ serving /\ ~kek => found \notin sealed
  /\ at = "generateNext" => \A k \in Keys : status[k] # "current"
  /\ serving /\ ~kek /\ at = "find" =>
       \A k \in Keys : status[k] = "current" => k \notin sealed
  /\ Loaded => kid \in Keys /\ kid \in jwks
  /\ \A k \in Keys : since[k] < 2 => k \in Published /\ (Loaded => k \in jwks)
  /\ \A k \in Keys : since[k] = 0 => status[k] = "current" /\ ~Rotating
  /\ at = "retire" => \A k \in Keys : since[k] < 2 => status[k] = "current"

ToldInv ==
  /\ \A k \in Published : k \notin jwks => \A j \in jwks : j < k
  /\ \A k \in Published : k \notin known => \A j \in known : j < k

KeyInv == TableInv /\ SealInv /\ LiveInv /\ ToldInv

\* The invariant holds of an empty table.
LEMMA KeyInitInv == KeysInit => KeyInv
<1> SUFFICES ASSUME KeysInit PROVE KeyInv
  OBVIOUS
<1>1. TableInv
  <2>1. /\ 0 \in 0 .. MaxRotations /\ 0 \in 0 .. MaxCrashes
        /\ since \in [Keys -> 0 .. 2]
    BY KeysAssumption DEF KeysInit
  <2>2. status \in [Keys -> {"unused", "current", "previous", "retired"}]
    BY DEF KeysInit
  <2>3. \A j, k \in Keys : j < k /\ status[j] = "unused" => status[k] = "unused"
    BY DEF KeysInit
  <2>4. KeysTypeOK
    BY <2>1, <2>2 DEF KeysInit, KeysTypeOK, Statements
  <2>5. /\ sealed \cup unsealed \cup jwks \cup known \subseteq Used
        /\ kid \notin Keys /\ found \notin Keys
    BY DEF KeysInit, NoKey, Keys
  <2> QED BY <2>3, <2>4, <2>5 DEF TableInv
<1>2. SealInv /\ LiveInv /\ ToldInv
  BY DEF KeysInit, SealInv, LiveInv, ToldInv, Loaded, Published
<1> QED BY <1>1, <1>2 DEF KeyInv

\* What generate() does: the new key is current, and the newest of all.
LEMMA GenerateNewest ==
  ASSUME TableInv, NEW k \in Keys, Generate(k)
  PROVE  /\ status' = [status EXCEPT ![k] = "current"]
         /\ Published' = Published \cup {k} /\ Used' = Used \cup {k}
         /\ \A j \in Used : j < k
         /\ k \notin sealed \cup unsealed \cup jwks \cup known
         /\ sealed' = IF kek THEN sealed \cup {k} ELSE sealed
         /\ \A i, j \in Keys : i < j /\ status'[i] = "unused" => status'[j] = "unused"
<1>1. status \in [Keys -> {"unused", "current", "previous", "retired"}] /\ Keys \subseteq Nat
  BY KeysAssumption DEF TableInv, KeysTypeOK, Keys
<1>2. /\ status' = [status EXCEPT ![k] = "current"] /\ status[k] = "unused"
      /\ sealed' = IF kek THEN sealed \cup {k} ELSE sealed
      /\ \A j \in Keys : j < k => status[j] # "unused"
  BY DEF Generate
<1>3. Published' = Published \cup {k} /\ Used' = Used \cup {k}
  BY <1>1, <1>2 DEF Published, Used
<1>4. \A j \in Used : j < k
  BY <1>1, <1>2 DEF TableInv, Used
<1>5. k \notin sealed \cup unsealed \cup jwks \cup known
  BY <1>2 DEF TableInv, Used
<1>6. \A i, j \in Keys : i < j /\ status'[i] = "unused" => status'[j] = "unused"
  BY <1>1, <1>2 DEF TableInv
<1> QED BY <1>2, <1>3, <1>4, <1>5, <1>6

\* How many rotations a token is behind when it is signed.
LEMMA SignCounts ==
  ASSUME TableInv, Sign
  PROVE  \/ since' = since
         \/ /\ kid \in Keys
            /\ \E n \in 0 .. 2 :
                 /\ since' = [since EXCEPT ![kid] = n]
                 /\ n < 2 => kid \in Published
                 /\ n = 0 => status[kid] = "current" /\ at \in {"idle", "migrate"}
                 /\ n < 2 /\ at = "retire" => status[kid] = "current"
<1> DEFINE c == CASE status[kid] = "current" -> IF at \in {"idle", "migrate"} THEN 0 ELSE 1
                  [] status[kid] = "previous" -> IF at = "retire" THEN 2 ELSE 1
                  [] status[kid] = "retired" -> 2
<1>1. since' = [since EXCEPT ![kid] = c]
  BY DEF Sign
<1>2. /\ since \in [Keys -> 0 .. 2] /\ (kid \in Keys => kid \in Used)
      /\ status \in [Keys -> {"unused", "current", "previous", "retired"}]
  BY DEF TableInv, KeysTypeOK
<1>3. CASE kid \notin Keys
  <2> HIDE DEF c
  <2> QED BY <1>1, <1>2, <1>3
<1>4. CASE kid \in Keys
  <2>1. CASE status[kid] = "current"
    <3>1. c = (IF at \in {"idle", "migrate"} THEN 0 ELSE 1)
      BY <2>1
    <3>2. kid \in Published
      BY <1>4, <2>1 DEF Published
    <3> HIDE DEF c
    <3>3. c \in 0 .. 2 /\ (c = 0 => at \in {"idle", "migrate"})
      BY <3>1
    <3> QED BY <1>1, <1>4, <2>1, <3>2, <3>3
  <2>2. CASE status[kid] = "previous"
    <3>1. c = (IF at = "retire" THEN 2 ELSE 1)
      BY <2>2
    <3>2. kid \in Published
      BY <1>4, <2>2 DEF Published
    <3> HIDE DEF c
    <3>3. c \in 0 .. 2 /\ c # 0 /\ (c < 2 => at # "retire")
      BY <3>1
    <3> QED BY <1>1, <1>4, <3>2, <3>3
  <2>3. CASE status[kid] = "retired"
    <3>1. c = 2
      BY <2>3
    <3> HIDE DEF c
    <3>2. c \in 0 .. 2 /\ c # 0 /\ ~(c < 2)
      BY <3>1
    <3> QED BY <1>1, <1>4, <3>2
  <2> QED BY <1>2, <1>4, <2>1, <2>2, <2>3 DEF Used
<1> QED BY <1>3, <1>4

\* Every step of the server and of the verifier keeps the table in order.
LEMMA TableStep == TableInv /\ [KeysNext]_keyVars => TableInv'
<1> SUFFICES ASSUME TableInv, [KeysNext]_keyVars PROVE TableInv'
  OBVIOUS
<1> USE KeysAssumption DEF KeysTypeOK, Statements
<1>1. CASE Boot \/ Find
  BY <1>1 DEF Boot, Find, TableInv, Used, verifier
<1>2. CASE Crash
  <2>1. crashes' \in 0 .. MaxCrashes
    BY <1>2 DEF Crash, TableInv
  <2>2. UNCHANGED <<status, sealed, kek, rotations, since, known, age>>
    BY <1>2 DEF Crash, verifier
  <2>3. /\ at' = "down" /\ serving' = FALSE /\ kid' = NoKey /\ jwks' = {}
        /\ found' = NoKey /\ unsealed' = {}
    BY <1>2 DEF Crash
  <2>4. Used' = Used /\ kid' \notin Keys /\ found' \notin Keys
    BY <2>2, <2>3 DEF Used, NoKey, Keys
  <2>5. KeysTypeOK'
    BY <2>1, <2>2, <2>3 DEF TableInv
  <2> QED BY <2>2, <2>3, <2>4, <2>5 DEF TableInv
<1>3. CASE FirstKey
  <2>1. PICK k \in Keys : Generate(k) /\ found' = k
    BY <1>3 DEF FirstKey
  <2> QED BY <1>3, <2>1, GenerateNewest DEF FirstKey, TableInv, verifier
<1>4. CASE NextKey
  <2>1. PICK k \in Keys : Generate(k)
    BY <1>4 DEF NextKey
  <2> QED BY <1>4, <2>1, GenerateNewest DEF NextKey, TableInv, verifier
<1>5. CASE Load
  <2>1. Used' = Used /\ Published \subseteq Used /\ found' \notin Keys /\ found' = NoKey
    BY <1>5 DEF Load, LoadKeys, Used, Published, NoKey, Keys
  <2>2. /\ kid' = found /\ jwks' \in {jwks, Published}
        /\ unsealed' \in {unsealed, Published \ sealed, {}}
        /\ at' \in {"idle", "down", "migrate"}
        /\ UNCHANGED <<status, sealed, kek, serving, rotations, crashes, since, known, age>>
    BY <1>5 DEF Load, LoadKeys, verifier
  <2>3. Published \subseteq Keys
    BY DEF Published
  <2>4. KeysTypeOK'
    <3> HIDE DEF KeysTypeOK
    <3>1. KeysTypeOK
      BY DEF TableInv
    <3> QED BY <2>1, <2>2, <2>3, <3>1 DEF KeysTypeOK
  <2> HIDE DEF KeysTypeOK, Statements
  <2> QED BY <2>1, <2>2, <2>4 DEF TableInv
<1>6. CASE Migrate
  BY <1>6 DEF Migrate, TableInv, Used, verifier
<1>7. CASE Rotate
  BY <1>7 DEF Rotate, TableInv, Used, verifier
<1>8. CASE Retire \/ Demote
  BY <1>8 DEF Retire, Demote, Pass, TableInv, Used, verifier
<1>12. CASE StatementFails
  <2>1. crashes' \in 0 .. MaxCrashes
    BY <1>12 DEF StatementFails, TableInv
  <2>2. /\ UNCHANGED <<status, sealed, kek, serving, kid, jwks, rotations, since, known, age>>
        /\ at' = "idle" /\ found' = NoKey /\ unsealed' = {}
    BY <1>12 DEF StatementFails, verifier
  <2> QED BY <2>1, <2>2 DEF TableInv, Used, NoKey, Keys
<1>9. CASE Sign
  <2>1. UNCHANGED <<status, sealed, kek, at, serving, kid, jwks, found, unsealed,
                    rotations, crashes, known, age>>
    BY <1>9 DEF Sign, verifier, server
  <2>2. since' \in [Keys -> 0 .. 2]
    <3>1. since' = since \/ \E n \in 0 .. 2 : since' = [since EXCEPT ![kid] = n]
      BY <1>9, SignCounts
    <3>2. since \in [Keys -> 0 .. 2]
      BY DEF TableInv
    <3> QED BY <3>1, <3>2
  <2> QED BY <2>1, <2>2 DEF TableInv, Used
<1>10. CASE (\E k \in Keys : Verify(k)) \/ GrowOld
  BY <1>10 DEF Verify, GrowOld, TableInv, Used, verifier, server
<1>11. CASE UNCHANGED keyVars
  BY <1>11 DEF keyVars, TableInv, Used, verifier, server
<1> QED BY <1>1, <1>2, <1>3, <1>4, <1>5, <1>6, <1>7, <1>8, <1>9, <1>10, <1>11, <1>12
       DEF KeysNext

-----------------------------------------------------------------------------
(* Sealed at rest.                                                          *)

\* No step publishes a key that is neither sealed nor about to be.
LEMMA SealStep == TableInv /\ SealInv /\ [KeysNext]_keyVars => SealInv'
<1> SUFFICES ASSUME TableInv, SealInv, [KeysNext]_keyVars PROVE SealInv'
  OBVIOUS
<1>0. status \in [Keys -> {"unused", "current", "previous", "retired"}]
  BY DEF TableInv, KeysTypeOK
<1>1. CASE Boot \/ Find
  BY <1>1 DEF Boot, Find, SealInv, Published
<1>2. CASE Crash
  BY <1>2 DEF Crash, SealInv
<1>3. CASE FirstKey
  <2>1. PICK k \in Keys : Generate(k)
    BY <1>3 DEF FirstKey
  <2> QED BY <1>3, <2>1, GenerateNewest DEF FirstKey, SealInv
<1>4. CASE NextKey
  <2>1. PICK k \in Keys : Generate(k)
    BY <1>4 DEF NextKey
  <2> QED BY <1>4, <2>1, GenerateNewest DEF NextKey, SealInv
<1>5. CASE Load
  <2>1. Published' = Published
    BY <1>5 DEF Load, LoadKeys, Published
  <2> QED BY <1>5, <2>1 DEF Load, LoadKeys, SealInv
<1>6. CASE Migrate
  <2>1. Published' = Published
    BY <1>6 DEF Migrate, Published
  <2> QED BY <1>6, <2>1 DEF Migrate, SealInv
<1>7. CASE Rotate \/ Sign
  BY <1>7 DEF Rotate, Sign, server, SealInv, Published
<1>8. CASE Retire \/ Demote
  <2>1. Published' \subseteq Published
    BY <1>0, <1>8 DEF Retire, Demote, Pass, Published
  <2> QED BY <1>8, <2>1 DEF Retire, Demote, SealInv
<1>9. CASE (\E k \in Keys : Verify(k)) \/ GrowOld \/ UNCHANGED keyVars
  BY <1>9 DEF Verify, GrowOld, keyVars, server, SealInv, Published
<1>10. CASE StatementFails
  BY <1>10 DEF StatementFails, SealInv, Published
<1> QED BY <1>1, <1>2, <1>3, <1>4, <1>5, <1>6, <1>7, <1>8, <1>9, <1>10 DEF KeysNext

\* A server with a key-encryption key serves with no published key, current or
\* previous, in the clear, also after a crash in the middle of the migration, and
\* after starts without that key (key.service.ts, migrateLegacyPlaintext).
THEOREM KeysAreSealed == KeysSpec => []SealedAtRest
<1>1. SealInv => SealedAtRest
  BY DEF SealInv, SealedAtRest
<1>2. KeysInit => TableInv /\ SealInv
  BY KeyInitInv DEF KeyInv
<1> QED BY <1>1, <1>2, TableStep, SealStep, PTL DEF KeysSpec

-----------------------------------------------------------------------------
(* One rotation is safe.                                                    *)

\* Wherever the server is, the keys in use survive its next statement.
LEMMA LiveStep == TableInv /\ LiveInv /\ SealInv /\ [KeysNext]_keyVars => LiveInv'
<1> SUFFICES ASSUME TableInv, LiveInv, SealInv, [KeysNext]_keyVars PROVE LiveInv'
  OBVIOUS
<1>0. /\ status \in [Keys -> {"unused", "current", "previous", "retired"}]
      /\ since \in [Keys -> 0 .. 2] /\ serving \in BOOLEAN /\ kek \in BOOLEAN
  BY DEF TableInv, KeysTypeOK
<1>1. CASE Boot \/ Find
  BY <1>1 DEF Boot, Find, LiveInv, SealInv, Published, Loaded, Rotating
<1>2. CASE Crash
  BY <1>2 DEF Crash, LiveInv, Published, Loaded, Rotating
<1>3. CASE FirstKey
  <2>1. PICK k \in Keys : Generate(k) /\ found' = k
    BY <1>3 DEF FirstKey
  <2> QED BY <1>0, <1>3, <2>1, GenerateNewest DEF FirstKey, LiveInv, Loaded, Rotating
<1>4. CASE NextKey
  <2>1. PICK k \in Keys : Generate(k)
    BY <1>4 DEF NextKey
  <2>2. /\ status' = [status EXCEPT ![k] = "current"] /\ Published' = Published \cup {k}
        /\ k \notin sealed /\ sealed' = IF kek THEN sealed \cup {k} ELSE sealed
    BY <2>1, GenerateNewest
  <2>3. at = "generateNext" /\ at' = "find"
        /\ UNCHANGED <<kek, serving, kid, jwks, found, since>>
    BY <1>4 DEF NextKey
  <2> QED BY <1>0, <2>2, <2>3 DEF LiveInv, Loaded, Rotating
<1>5. CASE Load
  <2>1. /\ at = "rows" /\ found \in Keys /\ status[found] = "current"
        /\ serving /\ ~kek => found \notin sealed
        /\ kid' = found /\ UNCHANGED <<status, sealed, kek, serving, since>>
    BY <1>5 DEF Load, LoadKeys, LiveInv
  <2>2. Published' = Published
    BY <2>1 DEF Published
  <2>3. CASE found \in sealed /\ ~kek
    <3>1. ~serving /\ at' = "down"
      BY <1>5, <2>1, <2>3 DEF Load, LoadKeys
    <3> QED BY <2>1, <2>2, <3>1 DEF LiveInv, Loaded, Rotating
  <2>4. CASE ~(found \in sealed /\ ~kek)
    <3>1. at' = "migrate" /\ jwks' = Published
      BY <1>5, <2>4 DEF Load, LoadKeys
    <3>2. found \in Published
      BY <2>1 DEF Published
    <3> QED BY <2>1, <2>2, <3>1, <3>2 DEF LiveInv, Loaded, Rotating
  <2> QED BY <2>3, <2>4
<1>6. CASE Migrate
  <2>1. /\ Published' = Published /\ at = "migrate" /\ at' \in {"migrate", "idle"}
        /\ UNCHANGED <<status, kid, jwks, since>>
    BY <1>6 DEF Migrate, Published
  <2> QED BY <2>1 DEF LiveInv, Loaded, Rotating
<1>7. CASE Rotate
  <2>1. /\ at = "idle" /\ at' = "retire" /\ Published' = Published
        /\ UNCHANGED <<status, serving, kid, jwks>>
    BY <1>7 DEF Rotate, Published
  <2>2. \A k \in Keys : since'[k] # 0 /\ (since'[k] < 2 => since[k] = 0)
    <3>1. since' = [k \in Keys |-> IF since[k] = 2 THEN 2 ELSE since[k] + 1]
      BY <1>7 DEF Rotate
    <3> QED BY <1>0, <3>1
  <2> QED BY <1>0, <2>1, <2>2 DEF LiveInv, Loaded, Rotating
<1>8. CASE Retire
  <2>1. /\ at = "retire" /\ at' = "demote"
        /\ status' = [k \in Keys |-> IF status[k] = "previous" THEN "retired" ELSE status[k]]
        /\ UNCHANGED <<serving, kid, jwks, since, sealed, kek>>
    BY <1>8 DEF Retire, Pass
  <2>2. \A k \in Keys : status[k] = "current" => status'[k] = "current" /\ k \in Published'
    BY <2>1 DEF Published
  <2> QED BY <1>0, <2>1, <2>2 DEF LiveInv, Loaded, Rotating
<1>9. CASE Demote
  <2>1. /\ at = "demote" /\ at' = "generateNext"
        /\ status' = [k \in Keys |-> IF status[k] = "current" THEN "previous" ELSE status[k]]
        /\ UNCHANGED <<serving, kid, jwks, since, sealed, kek>>
    BY <1>9 DEF Demote, Pass
  <2>2. Published' = Published
    BY <1>0, <2>1 DEF Published
  <2> QED BY <1>0, <2>1, <2>2 DEF LiveInv, Loaded, Rotating
<1>10. CASE Sign
  <2>1. /\ serving /\ Published' = Published
        /\ UNCHANGED <<status, sealed, kek, at, serving, kid, jwks, found>>
    BY <1>10 DEF Sign, server, Published
  <2>2. kid \in Keys /\ kid \in jwks
    BY <2>1 DEF LiveInv, Loaded
  <2>3. CASE since' = since
    BY <2>1, <2>3 DEF LiveInv, Loaded, Rotating
  <2>4. CASE \E n \in 0 .. 2 :
               /\ since' = [since EXCEPT ![kid] = n]
               /\ n < 2 => kid \in Published
               /\ n = 0 => status[kid] = "current" /\ at \in {"idle", "migrate"}
               /\ n < 2 /\ at = "retire" => status[kid] = "current"
    <3>1. PICK n \in 0 .. 2 :
               /\ since' = [since EXCEPT ![kid] = n]
               /\ n < 2 => kid \in Published
               /\ n = 0 => status[kid] = "current" /\ at \in {"idle", "migrate"}
               /\ n < 2 /\ at = "retire" => status[kid] = "current"
      BY <2>4
    <3>2. since'[kid] = n /\ \A k \in Keys : k # kid => since'[k] = since[k]
      BY <1>0, <2>2, <3>1
    <3> QED BY <2>1, <2>2, <3>1, <3>2 DEF LiveInv, Loaded, Rotating
  <2> QED BY <1>10, <2>3, <2>4, SignCounts
<1>12. CASE StatementFails
  <2>1. /\ Published' = Published /\ serving /\ at' = "idle"
        /\ UNCHANGED <<status, sealed, kek, serving, kid, jwks, since>>
    BY <1>12 DEF StatementFails, Published
  <2> QED BY <2>1 DEF LiveInv, Loaded, Rotating
<1>11. CASE (\E k \in Keys : Verify(k)) \/ GrowOld \/ UNCHANGED keyVars
  BY <1>11 DEF Verify, GrowOld, keyVars, server, LiveInv, Published, Loaded, Rotating
<1> QED BY <1>1, <1>2, <1>3, <1>4, <1>5, <1>6, <1>7, <1>8, <1>9, <1>10, <1>11, <1>12
       DEF KeysNext

-----------------------------------------------------------------------------
(* What a verifier was told.                                                *)

\* A key set lacks only what is newer than all of it.
LEMMA ToldStep == TableInv /\ ToldInv /\ [KeysNext]_keyVars => ToldInv'
<1> SUFFICES ASSUME TableInv, ToldInv, [KeysNext]_keyVars PROVE ToldInv'
  OBVIOUS
<1>0. status \in [Keys -> {"unused", "current", "previous", "retired"}]
  BY DEF TableInv, KeysTypeOK
<1>1. ASSUME Published' \subseteq Published, UNCHANGED <<jwks, known>>
      PROVE  ToldInv'
  BY <1>1 DEF ToldInv
<1>2. CASE \/ Boot \/ Find \/ Migrate \/ Rotate \/ StatementFails \/ Sign \/ GrowOld
           \/ UNCHANGED keyVars
  BY <1>1, <1>2 DEF Boot, Find, Migrate, Rotate, StatementFails, Sign, GrowOld, keyVars,
     server, verifier, Published
<1>3. CASE Crash
  BY <1>3 DEF Crash, verifier, Published, ToldInv
<1>4. ASSUME NEW k \in Keys, Generate(k), UNCHANGED <<jwks, known>>
      PROVE  ToldInv'
  <2>1. Published' = Published \cup {k} /\ \A j \in jwks \cup known : j < k
    BY <1>4, GenerateNewest DEF TableInv
  <2> QED BY <1>4, <2>1 DEF ToldInv
<1>5. CASE FirstKey \/ NextKey
  BY <1>4, <1>5 DEF FirstKey, NextKey, verifier
<1>6. CASE Load
  <2>1. Published' = Published /\ known' = known /\ (jwks' = jwks \/ jwks' = Published)
    BY <1>6 DEF Load, LoadKeys, verifier, Published
  <2> QED BY <2>1 DEF ToldInv
<1>7. CASE Retire \/ Demote
  <2>1. Published' \subseteq Published
    BY <1>0, <1>7 DEF Retire, Demote, Pass, Published
  <2> QED BY <1>1, <1>7, <2>1 DEF Retire, Demote, verifier
<1>8. ASSUME NEW k \in Keys, Verify(k)
      PROVE  ToldInv'
  <2>1. /\ Published' = Published /\ jwks' = jwks /\ (known' = jwks \/ known' = known)
    BY <1>8 DEF Verify, server, verifier, Published
  <2> QED BY <2>1 DEF ToldInv
<1> QED BY <1>2, <1>3, <1>5, <1>6, <1>7, <1>8 DEF KeysNext

\* "A deliberate rotation does not break in-flight access tokens" (the comment
\* at KeyService): for one rotation, with crashes and rejected statements anywhere,
\* the key of a token stays published, and a verifier that refuses it has just asked
\* and was told of older keys only.  A rotation that fails after it has demoted the
\* key that goes on signing is that one rotation.
THEOREM RotationKeepsTokens == KeysSpec => []RotationIsSafe
<1>1. KeysInit => KeyInv
  BY KeyInitInv
<1>2. KeyInv /\ [KeysNext]_keyVars => KeyInv'
  BY TableStep, SealStep, LiveStep, ToldStep DEF KeyInv
<1>3. KeyInv => RotationIsSafe
  <2>1. SUFFICES ASSUME KeyInv PROVE OneRotationIsSafe /\ GoodTokensPass
    BY DEF RotationIsSafe
  <2>2. OneRotationIsSafe
    BY <2>1 DEF OneRotationIsSafe, KeyInv, LiveInv, Loaded
  <2>3. ASSUME serving, NEW k \in Keys, since[k] < 2
        PROVE  Accepts(k) \/ (age = "cooling" /\ \A j \in known : j < k)
    <3>1. k \in Published /\ k \in jwks
      BY <2>3, <2>2 DEF OneRotationIsSafe
    <3>2. age \in {"none", "cooling", "fresh", "stale"}
      BY <2>1 DEF KeyInv, TableInv, KeysTypeOK
    <3>3. k \notin known => \A j \in known : j < k
      BY <2>1, <3>1 DEF KeyInv, ToldInv
    <3> QED BY <2>3, <3>1, <3>2, <3>3 DEF Accepts, Known, Asks
  <2> QED BY <2>2, <2>3 DEF GoodTokensPass
<1> QED BY <1>1, <1>2, <1>3, PTL DEF KeysSpec

-----------------------------------------------------------------------------
(* The telemetry plane.                                                    *)

\* What the tick in flight has seen, and what the page showed for it.
TickInv ==
  /\ marker # 0 => delivery \in EnRoute
  /\ tick.step \in {"location", "visible", "located"} =>
       tick.next \in EnRoute /\ delivery = tick.next
  /\ tick.step = "dispatch" /\ tick.next \in Over => job = tick.next
  /\ tick.step = "stopped" => job = delivery /\ job \in Over

\* A delivery is not en route and over at once.
LEMMA EnRouteIsNotOver == EnRoute \cap Over = {} /\ "none" \notin EnRoute \cup Over
BY DEF EnRoute, Over

\* A delivery that is over does not move any more.
LEMMA OverStays ==
  ASSUME JobMoves
  PROVE  job \notin Over
BY DEF JobMoves, Over

\* No marker, no tick: the invariant holds at the start.
LEMMA TickInit == PositionInit => TickInv
BY DEF PositionInit, TickInv

\* Every step keeps what the tick relies on.
LEMMA TickStep == TickInv /\ [PositionNext]_positionVars => TickInv'
<1> SUFFICES ASSUME TickInv, [PositionNext]_positionVars PROVE TickInv'
  OBVIOUS
<1>1. ASSUME UNCHANGED <<job, trackVars>>
      PROVE  TickInv'
  BY <1>1 DEF TickInv, trackVars
<1>2. CASE \/ ReportLocation \/ ApplyTelemetry \/ CommitPings \/ TelemetryCrash
           \/ StartWatching \/ StopWatching
           \/ \E e \in 1 .. MaxWatches : NearbyArrives(e) \/ AskAgain(e)
  BY <1>1, <1>2 DEF ReportLocation, ApplyTelemetry, CommitPings, TelemetryCrash,
     StartWatching, StopWatching, NearbyArrives, AskAgain
<1>3. CASE JobMoves
  <2>1. UNCHANGED trackVars
    BY <1>3 DEF JobMoves
  <2> QED BY <1>3, <2>1, OverStays DEF TickInv, trackVars
<1>4. CASE ReadDispatch
  BY <1>4 DEF ReadDispatch, At, TickInv
<1>5. CASE DispatchArrives
  <2>1. /\ tick'.next = tick.next
        /\ tick'.step \in StepAfter(tick.next)
        /\ marker' = IF tick.next \in EnRoute THEN marker ELSE 0
        /\ delivery' = IF tick.next = "none" THEN delivery ELSE tick.next
        /\ job' = job /\ tick.step = "dispatch"
    BY <1>5 DEF DispatchArrives, GoOn, At
  <2> QED BY <2>1, EnRouteIsNotOver DEF TickInv, StepAfter, Ended
<1>6. CASE DispatchFails
  <2>1. /\ tick'.next = "none" /\ tick'.step \in StepAfter("none")
        /\ marker' = 0 /\ UNCHANGED <<job, delivery>>
    BY <1>6, EnRouteIsNotOver DEF DispatchFails, GoOn, At
  <2>2. tick'.step \in Ended
    BY <2>1, EnRouteIsNotOver DEF StepAfter
  <2> QED BY <2>1, <2>2 DEF TickInv, Ended
<1>7. CASE LookUpDriver \/ GeoPos
  BY <1>7 DEF LookUpDriver, GeoPos, At, TickInv
<1>8. CASE LocationArrives \/ LocationFails
  <2>1. tick'.step \in Ended /\ UNCHANGED <<job, delivery>> /\ delivery \in EnRoute
    BY <1>8 DEF LocationArrives, LocationFails, At, TickInv
  <2> QED BY <2>1 DEF TickInv, Ended
<1>9. CASE UNCHANGED positionVars
  BY <1>1, <1>9 DEF positionVars
<1> QED BY <1>2, <1>3, <1>4, <1>5, <1>6, <1>7, <1>8, <1>9 DEF PositionNext, Tick

\* The customer sees a marker only beside a delivery shown en route, and a
\* page that has stopped shows the end of the delivery, whatever was in
\* flight and whichever requests failed (orders/[orderId]/page.tsx, tick).
THEOREM MarkerIsEnRoute == PositionSpec => []MarkerOnlyEnRoute
<1>1. TickInv => MarkerOnlyEnRoute
  BY DEF TickInv, MarkerOnlyEnRoute
<1> QED BY <1>1, TickInit, TickStep, PTL DEF PositionSpec

-----------------------------------------------------------------------------
(* The driver's watch.                                                     *)

WatchInv ==
  /\ on \in BOOLEAN /\ effect \in 0 .. MaxWatches
  /\ loop \in [1 .. MaxWatches -> {"none", "asked", "waiting"}]
  /\ WatchEnds

\* A driver who is offline watches nobody at the start.
LEMMA WatchInit == PositionInit => WatchInv
<1> SUFFICES ASSUME PositionInit PROVE WatchInv
  OBVIOUS
<1>1. on = FALSE /\ effect = 0 /\ nearby = 0 /\ 0 \in 0 .. MaxWatches
  BY PositionAssumption DEF PositionInit
<1>2. loop = [e \in 1 .. MaxWatches |-> "none"]
  BY DEF PositionInit
<1> QED BY <1>1, <1>2 DEF WatchInv, WatchEnds

\* Every step keeps at most one timed request, that of the effect that runs.
LEMMA WatchStep == WatchInv /\ [PositionNext]_positionVars => WatchInv'
<1> SUFFICES ASSUME WatchInv, [PositionNext]_positionVars PROVE WatchInv'
  OBVIOUS
<1> USE PositionAssumption
<1>1. ASSUME UNCHANGED watchVars
      PROVE  WatchInv'
  BY <1>1 DEF WatchInv, WatchEnds, watchVars
<1>2. CASE \/ ReportLocation \/ ApplyTelemetry \/ CommitPings \/ TelemetryCrash \/ JobMoves
           \/ Tick \/ DispatchFails \/ LocationFails
  BY <1>1, <1>2 DEF ReportLocation, ApplyTelemetry, CommitPings, TelemetryCrash, JobMoves,
     Tick, ReadDispatch, DispatchArrives, LookUpDriver, GeoPos, LocationArrives,
     DispatchFails, LocationFails
<1>3. CASE StartWatching
  <2>1. effect' = effect + 1 /\ effect + 1 \in 1 .. MaxWatches /\ on' = TRUE /\ nearby' = nearby
    BY <1>3 DEF StartWatching, WatchInv
  <2>2. loop' = [loop EXCEPT ![effect + 1] = "asked"] /\ ~on
    BY <1>3 DEF StartWatching
  <2> QED BY <2>1, <2>2 DEF WatchInv, WatchEnds
<1>4. CASE StopWatching
  BY <1>4 DEF StopWatching, WatchInv, WatchEnds
<1>5. ASSUME NEW e \in 1 .. MaxWatches, NearbyArrives(e) \/ AskAgain(e)
      PROVE  WatchInv'
  <2>1. CASE AskAgain(e)
    BY <2>1 DEF AskAgain, WatchInv, WatchEnds
  <2>2. CASE NearbyArrives(e)
    <3>1. /\ loop' = [loop EXCEPT ![e] = IF on /\ e = effect THEN "waiting" ELSE "none"]
          /\ UNCHANGED <<on, effect>>
          /\ ~on => nearby' = nearby
      BY <2>2 DEF NearbyArrives, Active
    <3> QED BY <3>1 DEF WatchInv, WatchEnds
  <2> QED BY <1>5, <2>1, <2>2
<1>6. CASE UNCHANGED positionVars
  BY <1>1, <1>6 DEF positionVars
<1> QED BY <1>2, <1>3, <1>4, <1>5, <1>6 DEF PositionNext

\* A driver who goes offline sees nobody, however late an answer comes and
\* however often it is switched (use-nearby-watch.ts).
THEOREM WatchIsOver == PositionSpec => []WatchEnds
<1>1. WatchInv => WatchEnds
  BY DEF WatchInv
<1> QED BY <1>1, WatchInit, WatchStep, PTL DEF PositionSpec
=============================================================================
