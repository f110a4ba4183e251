------------------------------- MODULE Checkout -------------------------------
(***************************************************************************)
(* The customer's pages (web-customer): the menu and the cart, the checkout *)
(* that places an order, and the tracking page's payment button.            *)
(*                                                                          *)
(* A request's answer may be lost although the server did what it asked, or *)
(* is yet to do it; a page that is left does not stop its requests.         *)
(***************************************************************************)
EXTENDS OrderStage

CONSTANTS
  Skus,                \* items of the tenant's menu
  MaxQty               \* bound: pieces of one item

ASSUME CheckoutAssumption == MaxQty \in Nat \ {0}

VARIABLES
  cart,                \* pieces of each item; a line of none is not there
  page,                \* the page that is open, and the order it is about
  post,                \* for each submitted order, what became of the request
  seen, confirming,    \* what the tracking page shows; its button is disabled
  confirm              \* for each order, the request to confirm the payment

checkoutVars == <<cart, page, post, seen, confirming, confirm>>

EmptyCart == [s \in Skus |-> 0]
Nothing == [status |-> "none", paid |-> "none"]

CheckoutTypeOK ==
  /\ StageTypeOK
  /\ cart \in [Skus -> 0 .. MaxQty]
  /\ page \in [at : {"menu", "checkout", "order"}, order : Orders \cup {NoOrder}]
  /\ post \in [Orders -> [step : {"unused", "waiting", "ok", "failed"},
                          lines : [Skus -> 0 .. MaxQty], mounted : BOOLEAN]]
  /\ seen.paid \in Payments /\ confirming \in BOOLEAN
  /\ confirm \in [Orders -> {"idle", "sent", "taken", "refused"}]

CheckoutInit ==
  /\ cart = EmptyCart /\ page = [at |-> "menu", order |-> NoOrder]
  /\ post = [o \in Orders |-> [step |-> "unused", lines |-> EmptyCart, mounted |-> FALSE]]
  /\ seen = Nothing /\ confirming = FALSE
  /\ confirm = [o \in Orders |-> "idle"]

-----------------------------------------------------------------------------
(* Menu, cart and checkout.                                                 *)

\* A new page is mounted; what was in the old one's state is gone.
Open(at, o) ==
  /\ page' = [at |-> at, order |-> o]
  /\ seen' = Nothing /\ confirming' = FALSE

Unmounted(posts) == [o \in Orders |-> [posts[o] EXCEPT !.mounted = FALSE]]

\* The header's links, and the history of the browser.
Browse ==
  /\ \/ page.at # "menu" /\ Open("menu", NoOrder)
     \/ page.at # "checkout" /\ Open("checkout", NoOrder)
     \/ \E o \in Orders : page.order # o /\ post[o].step = "ok" /\ Open("order", o)
  /\ post' = Unmounted(post)
  /\ UNCHANGED <<cart, confirm, orderVars>>

\* useCartStore.add
Add(s) ==
  /\ page.at = "menu" /\ cart[s] < MaxQty
  /\ cart' = [cart EXCEPT ![s] = @ + 1]
  /\ UNCHANGED <<page, post, seen, confirming, confirm, orderVars>>

\* submit(): inFlight is a ref of the page that is mounted.
InFlight == \E o \in Orders : post[o].mounted /\ post[o].step = "waiting"

Send(o) ==
  /\ page.at = "checkout" /\ ~InFlight
  /\ post[o].step = "unused" /\ \A p \in Orders : p < o => post[p].step # "unused"
  /\ post' = [post EXCEPT ![o] = [step |-> "waiting", lines |-> cart, mounted |-> TRUE]]
  /\ UNCHANGED <<cart, page, seen, confirming, confirm, orderVars>>

\* An empty cart has no form.
Submit(o) == cart # EmptyCart /\ Send(o)

\* CreateOrderDto: at least one line, of at least one piece.
Valid(lines) == lines # EmptyCart

\* The request may reach the server after the page gave up.
PlaceServed(o) ==
  /\ post[o].step # "unused" /\ Valid(post[o].lines) /\ PlaceOrder(o)
  /\ UNCHANGED checkoutVars

\* clear() and router.push() act on the app, wherever the customer is by now.
OrderPlaced(o) ==
  /\ post[o].step = "waiting" /\ stage[o] # "none"
  /\ cart' = EmptyCart /\ Open("order", o)
  /\ post' = Unmounted([post EXCEPT ![o].step = "ok"])
  /\ UNCHANGED <<confirm, orderVars>>

\* "Couldn't place your order. Please try again."
OrderNotPlaced(o) ==
  /\ post[o].step = "waiting" /\ post' = [post EXCEPT ![o].step = "failed"]
  /\ UNCHANGED <<cart, page, seen, confirming, confirm, orderVars>>

-----------------------------------------------------------------------------
(* The tracking page's payment.                                             *)

\* Its tick, which OrderViews has in detail.
Poll ==
  /\ page.at = "order" /\ stage[page.order] # "none"
  /\ seen' = [status |-> StatusOf(stage[page.order]), paid |-> payment[page.order]]
  /\ UNCHANGED <<cart, page, post, confirming, confirm, orderVars>>

AwaitingConfirm == seen.status = "PLACED" /\ seen.paid = "none"

OnConfirm ==
  LET o == page.order
  IN /\ page.at = "order" /\ AwaitingConfirm /\ ~confirming
     /\ confirm[o] = "idle" /\ confirm' = [confirm EXCEPT ![o] = "sent"]
     /\ confirming' = TRUE
     /\ UNCHANGED <<cart, page, post, seen, orderVars>>

\* 404 before the workflow has started, and after it has ended.
ConfirmServed(o) ==
  /\ confirm[o] = "sent"
  /\ \/ ~Unstarted(o) /\ confirm' = [confirm EXCEPT ![o] = "taken"]
     \/ ~Running(o) /\ confirm' = [confirm EXCEPT ![o] = "refused"]
  /\ ConfirmPayment(o) \/ (stage[o] # "started" /\ UNCHANGED orderVars)
  /\ UNCHANGED <<cart, page, post, seen, confirming>>

\* A success leaves the button disabled: the poll will show the payment.
\* (StuckButton leaves it so after a refusal too.)  An answer that is lost gives
\* it back, and one for a page that was left finds no button.
StuckButton(o) == confirming
Reset(o) == confirming /\ confirm[o] = "taken"

ConfirmAnswered(o) ==
  /\ confirm[o] # "idle" /\ confirm' = [confirm EXCEPT ![o] = "idle"]
  /\ IF page.order # o THEN UNCHANGED confirming
     ELSE \/ confirm[o] # "sent" /\ confirming' = Reset(o)
          \/ confirming' = FALSE
  /\ UNCHANGED <<cart, page, post, seen, orderVars>>

-----------------------------------------------------------------------------
Customer ==
  \/ Browse \/ Poll \/ OnConfirm \/ \E s \in Skus : Add(s)
  \/ \E o \in Orders : Submit(o) \/ OrderPlaced(o) \/ OrderNotPlaced(o)
                       \/ ConfirmAnswered(o)

\* The write API; the workflow, with whatever the merchant answers it.
CheckoutNext ==
  \/ Customer
  \/ \E o \in Orders : PlaceServed(o) \/ ConfirmServed(o)
                       \/ (BackEnd(o) /\ UNCHANGED checkoutVars)

-----------------------------------------------------------------------------
(* Properties.                                                             *)

\* An order that the checkout sends is never one that the write API refuses for
\* its content, however answers that clear the cart interleave with the forms.
SentIsValid == \A o \in Orders : post[o].step # "unused" => Valid(post[o].lines)

\* A retry of a submission whose answer was lost places a second order, as each
\* has an id of its own.  No money is ever held for the one the customer was not
\* told of: it is held for orders whose page they were sent to, at their word.
OnlyToldIsCharged ==
  \A o \in Orders :
    payment[o] \in HeldPayments => post[o].step = "ok"

\* The payment button is given back: it is disabled on a page that shows an
\* unpaid order only while a confirmation is under way or was taken in time
\* (a confirmation that comes before the workflow is refused, and can be sent
\* again).
ButtonComesBack ==
  confirming => \/ confirm[page.order] # "idle"
                \/ stage[page.order] \notin {"none", "placed", "started"}
=============================================================================
