---------------------------- MODULE MCOrderViews -----------------------------
(***************************************************************************)
(* OrderViews for TLC: a step that nobody can notice yet, or any more, is  *)
(* taken only when somebody can.                                           *)
(***************************************************************************)
EXTENDS OrderViews

\* The end of a delivery is read by the tracking page that asks for the dispatch.  A
\* view that lapses is missed by the next look-up: of the board when it is at it, of
\* the page when it polls next.  A request of the page is looked up as soon as it is
\* made, and its answer is handled as soon as it is there: each of these steps
\* commutes with whatever comes between.
Noticed ==
  /\ delivered' # delivered => tracker.state = "dispatch"
  /\ cache # 0 /\ cache' = 0 =>
       At("board", "asked") \/ tracker.state \in {"polling", "paused", "done"}
  /\ get["tracker"].step \in {"asked", "answered", "failed"} =>
       get'["tracker"] # get["tracker"]

MCNext == Next /\ Noticed
MCSpec == Init /\ [][MCNext]_vars /\ Fair
=============================================================================
