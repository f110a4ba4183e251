----------------------------- MODULE MCDriverApp -----------------------------
(***************************************************************************)
(* DriverApp for TLC: the orders are interchangeable, and a step that      *)
(* nobody can notice yet, or any more, is taken only when somebody can.    *)
(***************************************************************************)
EXTENDS DriverApp, TLC

OrderSymmetry == Permutations(Orders)

\* The driver whose stream is looked at is online; the merchant's map, which
\* tells no drivers apart, needs only the other one.
MCInit ==
  /\ Init
  /\ (watched = "stream" => online) /\ (watched = "map" => ~online)

\* A document is read by Connect and SeedRead only, a selection and a signal by
\* a workflow that has yet to record something, an offer's end by the page that
\* shows it: each of these steps commutes with what comes before that.
Noticed ==
  /\ doc' # doc => conn.state = "down" /\ seed.step = "asked"
  /\ candidate' # candidate \/ signals' # signals => Len(log) < MaxLog
  /\ \A i \in lapsed' \ lapsed :
       i = page.shown \/ (wire # <<>> /\ i = Head(wire))

MCNext == Next /\ Noticed
MCSpec == MCInit /\ [][MCNext]_vars
=============================================================================
