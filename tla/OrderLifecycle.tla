--------------------------- MODULE OrderLifecycle ---------------------------
(***************************************************************************)
(* What FlashBite promises of one order and its money, without workflow,   *)
(* retries or requests: the order is placed, then accepted or cancelled    *)
(* for good, each move in one step; it is accepted only when its money has *)
(* been taken, which then stays taken; it is cancelled for a reason the    *)
(* money agrees with; and money moves only under a decision that was made  *)
(* once.  What is not promised is visible too: after a capture that seemed *)
(* to fail, money may be taken or given back while the order is cancelled. *)
(***************************************************************************)
CONSTANTS Reasons      \* why an order may be cancelled

VARIABLES
  status,              \* "NONE", "PLACED", "ACCEPTED" or "CANCELLED"
  reason,              \* of the cancellation, "none" without one
  money                \* "NONE", "DECLINED", "AUTHORIZED", "CAPTURED", "VOIDED"

lifecycleVars == <<status, reason, money>>

LifecycleInit == status = "NONE" /\ reason = "none" /\ money = "NONE"

Place ==
  /\ status = "NONE" /\ money = "NONE"
  /\ status' = "PLACED" /\ UNCHANGED <<reason, money>>

\* What the money must be for a cancellation with reason r to be recorded.
\* PAYMENT_FAILED says nothing of it: an authorization or a capture whose
\* answer was lost may have happened.
Agrees(r) ==
  CASE r = "PAYMENT_TIMEOUT" -> money = "NONE"
    [] r \in {"DECLINED", "SLA_BREACH"} -> money = "VOIDED"
    [] OTHER -> TRUE

Accept ==
  /\ status = "PLACED" /\ money = "CAPTURED"
  /\ status' = "ACCEPTED" /\ UNCHANGED <<reason, money>>

Cancel(r) ==
  /\ status = "PLACED" /\ Agrees(r)
  /\ status' = "CANCELLED" /\ reason' = r /\ UNCHANGED money

\* Only an order that is live, or cancelled with PAYMENT_FAILED, has money
\* that can still move.
Unsettled == status = "PLACED" \/ reason = "PAYMENT_FAILED"

DecideHold ==
  /\ Unsettled /\ money = "NONE"
  /\ money' \in {"AUTHORIZED", "DECLINED"}
  /\ UNCHANGED <<status, reason>>

MoveMoney ==
  /\ Unsettled /\ money \in {"AUTHORIZED", "CAPTURED", "VOIDED"}
  /\ money' \in {"CAPTURED", "VOIDED"}
  /\ UNCHANGED <<status, reason>>

LifecycleNext ==
  \/ Place \/ Accept \/ DecideHold \/ MoveMoney
  \/ \E r \in Reasons : Cancel(r)

LifecycleSpec == LifecycleInit /\ [][LifecycleNext]_lifecycleVars
=============================================================================
