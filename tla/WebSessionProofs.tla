-------------------------- MODULE WebSessionProofs --------------------------
(***************************************************************************)
(* Proofs about the refresh tokens and the session of a browser, for any   *)
(* number of pages, callers, requests and ticks.                           *)
(*                                                                         *)
(* RowInv: a row that was rotated has a newer one in its family, so that   *)
(* the newest row of a family is never a rotated one.  CalmInv: within the *)
(* grace window no request has a reason to revoke.  SingleInv: on one page *)
(* whose refreshes are all answered, the cookie at rest was presented by   *)
(* nobody, and the token of a login under way is of a family of its own.   *)
(***************************************************************************)
EXTENDS WebSession, WellFoundedInduction, TLAPS

LEMMA NewestOf ==
  ASSUME NEW n \in Nat, NEW S \in SUBSET (1 .. n), S # {}
  PROVE  \E i \in S : \A j \in S : j <= i
<1> DEFINE R == {ss \in Nat \X Nat : ss[1] < ss[2]}
           T == {n - i : i \in S}
<1>1. IsWellFoundedOn(R, Nat)
  BY NatLessThanWellFounded DEF OpToRel
<1>2. T \subseteq Nat /\ T # {}
  <2>1. \A i \in S : n - i \in Nat
    OBVIOUS
  <2> QED BY <2>1
<1> HIDE DEF R
<1>3. PICK x \in T : \A y \in T : ~(<<y, x>> \in R)
  BY <1>1, <1>2, WFMin
<1>4. \A y \in T : ~(y < x)
  BY <1>2, <1>3 DEF R
<1>5. PICK i \in S : x = n - i
  OBVIOUS
<1>6. \A j \in S : ~(n - j < n - i)
  BY <1>4, <1>5
<1> QED BY <1>6

-----------------------------------------------------------------------------
(* The rows and the requests.                                              *)

Rows == [status : RowStatus, family : Nat, rotatedAt : Nat, expiresAt : Nat]
Records == [step : RefreshSteps, token : Nat, row : Nat]

\* A request is being handled.
Handled == {"sent", "pruned", "graced", "rotating", "revoking"}

RowInv ==
  /\ clock \in Nat
  /\ rows \in Seq(Rows)
  /\ \A t \in 1 .. Len(rows) :
       /\ rows[t].family \in 1 .. Len(rows) /\ RefreshTtl <= rows[t].expiresAt
       /\ rows[t].status = "rotated" =>
            \E u \in 1 .. Len(rows) : t < u /\ rows[u].family = rows[t].family

RequestInv ==
  /\ refresh \in [Requests -> Records]
  /\ \A r \in Requests :
       /\ refresh[r].token <= Len(rows) /\ refresh[r].row <= Len(rows)
       /\ refresh[r].step \in Handled => refresh[r].token # 0
       /\ refresh[r].step = "rotating" =>
            refresh[r].row # 0 /\ rows[refresh[r].row].family = rows[refresh[r].token].family
       /\ refresh[r].step = "unsent" => refresh[r].token = 0
       /\ refresh[r].step \in {"unsent", "refused", "error"} => refresh[r].row = 0

\* Rows keep their family and their end; the status of one changes if it has run out
\* or its family is f.
Kept(f) ==
  /\ Len(rows) <= Len(rows')
  /\ \A t \in 1 .. Len(rows) :
       /\ rows'[t].family = rows[t].family /\ rows'[t].expiresAt = rows[t].expiresAt
       /\ rows'[t].status = rows[t].status \/ Expired(t) \/ rows[t].family = f

\* A row of any status but "rotated" may get any other of these.
LEMMA StatusesChange ==
  ASSUME RowInv, clock' = clock, Len(rows') = Len(rows), rows' \in Seq(Rows),
         \A t \in 1 .. Len(rows) :
           /\ rows'[t].family = rows[t].family /\ rows'[t].expiresAt = rows[t].expiresAt
           /\ rows'[t].status = rows[t].status \/ rows'[t].status # "rotated"
  PROVE  RowInv'
<1>1. Len(rows) \in Nat
  BY DEF RowInv
<1>2. ASSUME NEW t \in 1 .. Len(rows), rows'[t].status = "rotated"
      PROVE  \E u \in 1 .. Len(rows) : t < u /\ rows'[u].family = rows'[t].family
  <2>1. rows[t].status = "rotated"
    BY <1>2
  <2>2. PICK u \in 1 .. Len(rows) : t < u /\ rows[u].family = rows[t].family
    BY <2>1 DEF RowInv
  <2> QED BY <2>2
<1> QED BY <1>1, <1>2 DEF RowInv

\* A new row, the newest of its family.
LEMMA AppendKeeps ==
  ASSUME RowInv, clock' = clock, NEW s \in Seq(Rows), Len(s) = Len(rows), NEW f \in Nat,
         f \in 1 .. Len(rows) + 1, rows' = Append(s, Minted(f)),
         \A t \in 1 .. Len(rows) :
           /\ s[t].family = rows[t].family /\ s[t].expiresAt = rows[t].expiresAt
           /\ s[t].status = rows[t].status \/ rows[t].family = f
  PROVE  /\ RowInv' /\ Len(rows') = Len(rows) + 1
         /\ \A t \in 1 .. Len(rows) : rows'[t] = s[t]
         /\ rows'[Len(rows) + 1].status = "active" /\ rows'[Len(rows) + 1].family = f
<1> DEFINE n == Len(rows)
           m == Minted(f)
<1>1. m \in Rows /\ m.status = "active" /\ m.family = f /\ RefreshTtl <= m.expiresAt
  BY TokenAssumption DEF Minted, Rows, RowStatus, RowInv
<1> HIDE DEF m
<1>2. /\ rows' \in Seq(Rows) /\ Len(rows') = n + 1 /\ n \in Nat /\ rows'[n + 1] = m
      /\ \A t \in 1 .. n : rows'[t] = s[t]
  BY <1>1 DEF RowInv, m
<1> HIDE DEF n
<1>3. \A t \in 1 .. n + 1 : t \in 1 .. n \/ t = n + 1
  BY <1>2
<1>4. ASSUME NEW t \in 1 .. n + 1
      PROVE  rows'[t].family \in 1 .. n + 1 /\ RefreshTtl <= rows'[t].expiresAt
  BY <1>1, <1>2, <1>3 DEF RowInv, n
<1>5. ASSUME NEW t \in 1 .. n + 1, rows'[t].status = "rotated"
      PROVE  \E u \in 1 .. n + 1 : t < u /\ rows'[u].family = rows'[t].family
  <2>1. t \in 1 .. n
    BY <1>1, <1>2, <1>3, <1>5
  <2>2. CASE rows[t].family = f
    <3>1. n + 1 \in 1 .. n + 1 /\ t < n + 1 /\ rows'[n + 1].family = rows'[t].family
      BY <1>1, <1>2, <2>1, <2>2 DEF n
    <3> QED BY <3>1
  <2>3. CASE s[t].status = rows[t].status
    <3>1. rows[t].status = "rotated"
      BY <1>2, <1>5, <2>1, <2>3
    <3>2. PICK u \in 1 .. n : t < u /\ rows[u].family = rows[t].family
      BY <2>1, <3>1 DEF RowInv, n
    <3>3. u \in 1 .. n + 1 /\ rows'[u].family = rows'[t].family
      BY <1>2, <2>1, <3>2 DEF n
    <3> QED BY <3>2, <3>3
  <2> QED BY <2>1, <2>2, <2>3 DEF n
<1>6. RowInv'
  BY <1>2, <1>4, <1>5 DEF RowInv
<1> QED BY <1>1, <1>2, <1>6 DEF n

\* A request is moved on; the rows it names stay.
GoesOn(r, st, x) ==
  /\ Goto(r, st, x) /\ refresh[r].step \in Handled
  /\ st \in RefreshSteps \ {"unsent"} /\ x \in 0 .. Len(rows')
  /\ st \in {"refused", "error"} => x = 0
  /\ st = "rotating" => x # 0 /\ rows'[x].family = rows[refresh[r].token].family
  /\ Len(rows') \in Nat /\ Len(rows) <= Len(rows')
  /\ \A t \in 1 .. Len(rows) : rows'[t].family = rows[t].family

LEMMA GotoKeeps ==
  ASSUME RequestInv, RowInv, NEW r \in Requests, NEW st, NEW x, GoesOn(r, st, x)
  PROVE  /\ RequestInv'
         /\ \A q \in Requests : q # r => refresh'[q] = refresh[q]
         /\ refresh'[r].step = st /\ refresh'[r].row = x /\ refresh'[r].token = refresh[r].token
<1> USE DEF GoesOn
<1>1. refresh[r] \in Records /\ x \in Nat /\ x <= Len(rows')
  BY DEF RequestInv
<1>2. /\ refresh'[r] = [refresh[r] EXCEPT !.step = st, !.row = x]
      /\ \A q \in Requests : q # r => refresh'[q] = refresh[q]
  BY DEF Goto, RequestInv
<1>3. /\ refresh'[r] \in Records /\ refresh'[r].step = st /\ refresh'[r].row = x
      /\ refresh'[r].token = refresh[r].token
  BY <1>1, <1>2 DEF Records
<1>4. refresh' \in [Requests -> Records]
  <2>1. refresh' = [refresh EXCEPT ![r] = refresh'[r]]
    BY <1>2 DEF Goto, RequestInv
  <2> QED BY <1>3, <2>1 DEF RequestInv
<1>5. refresh[r].token \in 1 .. Len(rows) /\ Len(rows) \in Nat
  BY <1>1 DEF RequestInv, Records, RowInv
<1>6. /\ refresh'[r].token <= Len(rows') /\ refresh'[r].row <= Len(rows')
      /\ refresh'[r].step \in Handled => refresh'[r].token # 0
      /\ refresh'[r].step = "rotating" =>
            refresh'[r].row # 0 /\ rows'[refresh'[r].row].family = rows'[refresh'[r].token].family
      /\ refresh'[r].step = "unsent" => refresh'[r].token = 0
      /\ refresh'[r].step \in {"unsent", "refused", "error"} => refresh'[r].row = 0
  BY <1>1, <1>3, <1>5
<1>7. ASSUME NEW q \in Requests, q # r
      PROVE  /\ refresh[q].token <= Len(rows') /\ refresh[q].row <= Len(rows')
             /\ refresh[q].step = "rotating" =>
                  rows'[refresh[q].row].family = rows'[refresh[q].token].family
  <2>1. /\ refresh[q].token \in Nat /\ refresh[q].row \in Nat /\ Len(rows) \in Nat
        /\ refresh[q].token <= Len(rows) /\ refresh[q].row <= Len(rows)
    BY DEF RequestInv, Records, RowInv
  <2>2. refresh[q].step = "rotating" =>
          refresh[q].token \in 1 .. Len(rows) /\ refresh[q].row \in 1 .. Len(rows)
    BY <2>1 DEF RequestInv, Handled
  <2>3. Len(rows) <= Len(rows') /\ Len(rows') \in Nat
    OBVIOUS
  <2>4. \A t \in 1 .. Len(rows) : rows'[t].family = rows[t].family
    OBVIOUS
  <2>5. refresh[q].step = "rotating" =>
          rows[refresh[q].row].family = rows[refresh[q].token].family
    BY DEF RequestInv
  <2> HIDE DEF GoesOn
  <2> QED BY <2>1, <2>2, <2>3, <2>4, <2>5
<1>8. ASSUME NEW q \in Requests
      PROVE  /\ refresh'[q].token <= Len(rows') /\ refresh'[q].row <= Len(rows')
             /\ refresh'[q].step \in Handled => refresh'[q].token # 0
             /\ refresh'[q].step = "rotating" =>
                   refresh'[q].row # 0
                   /\ rows'[refresh'[q].row].family = rows'[refresh'[q].token].family
             /\ refresh'[q].step = "unsent" => refresh'[q].token = 0
             /\ refresh'[q].step \in {"unsent", "refused", "error"} => refresh'[q].row = 0
  <2>1. CASE q = r
    BY <1>6, <2>1
  <2>2. CASE q # r
    <3>1. refresh'[q] = refresh[q]
      BY <1>2, <2>2
    <3>2. /\ refresh[q].step \in Handled => refresh[q].token # 0
          /\ refresh[q].step = "rotating" => refresh[q].row # 0
          /\ refresh[q].step = "unsent" => refresh[q].token = 0
          /\ refresh[q].step \in {"unsent", "refused", "error"} => refresh[q].row = 0
      BY DEF RequestInv
    <3> QED BY <1>7, <2>2, <3>1, <3>2
  <2> QED BY <2>1, <2>2
<1>9. RequestInv'
  BY <1>4, <1>8 DEF RequestInv
<1> QED BY <1>2, <1>3, <1>9

\* The rows change and no request moves.
LEMMA RequestsStay ==
  ASSUME RequestInv, RowInv, refresh' = refresh, Len(rows) <= Len(rows'), Len(rows') \in Nat,
         \A t \in 1 .. Len(rows) : rows'[t].family = rows[t].family
  PROVE  RequestInv'
<1>1. ASSUME NEW q \in Requests
      PROVE  /\ refresh[q].token <= Len(rows') /\ refresh[q].row <= Len(rows')
             /\ refresh[q].step = "rotating" =>
                  rows'[refresh[q].row].family = rows'[refresh[q].token].family
  <2>1. /\ refresh[q].token \in Nat /\ refresh[q].row \in Nat /\ Len(rows) \in Nat
        /\ refresh[q].token <= Len(rows) /\ refresh[q].row <= Len(rows)
    BY DEF RequestInv, Records, RowInv
  <2>2. refresh[q].step = "rotating" =>
          refresh[q].token \in 1 .. Len(rows) /\ refresh[q].row \in 1 .. Len(rows)
    BY <2>1 DEF RequestInv, Handled
  <2> QED BY <2>1, <2>2 DEF RequestInv
<1> QED BY <1>1 DEF RequestInv

\* A table of the same length, row by row.
LEMMA TableIs ==
  ASSUME rows \in Seq(Rows), NEW g, g = [t \in DOMAIN rows |-> g[t]],
         \A t \in 1 .. Len(rows) : g[t] \in Rows
  PROVE  g \in Seq(Rows) /\ Len(g) = Len(rows)
<1>1. DOMAIN rows = 1 .. Len(rows) /\ Len(rows) \in Nat
  OBVIOUS
<1>2. g \in [1 .. Len(rows) -> Rows]
  BY <1>1
<1> QED BY <1>1, <1>2

\* The update of rotateRow touches one row, and leaves its family and its end.
Marked(x) == [rows EXCEPT ![x].status = "rotated", ![x].rotatedAt = clock]

LEMMA MarkedTable ==
  ASSUME rows \in Seq(Rows), clock \in Nat, NEW x \in 1 .. Len(rows)
  PROVE  /\ Marked(x) \in Seq(Rows) /\ Len(Marked(x)) = Len(rows)
         /\ Marked(x)[x].family = rows[x].family
         /\ Marked(x)[x].expiresAt = rows[x].expiresAt
         /\ Marked(x)[x].status = "rotated"
         /\ \A t \in 1 .. Len(rows) : t # x => Marked(x)[t] = rows[t]
<1> DEFINE s == Marked(x)
           n == Len(rows)
           a == [rows EXCEPT ![x].status = "rotated"]
<1>1. n \in Nat /\ DOMAIN rows = 1 .. n /\ rows[x] \in Rows
  OBVIOUS
<1>2. /\ a[x] = [rows[x] EXCEPT !.status = "rotated"]
      /\ \A t \in 1 .. n : t # x => a[t] = rows[t]
      /\ DOMAIN a = 1 .. n /\ a = [t \in DOMAIN a |-> a[t]]
  BY <1>1
<1>3. s = [a EXCEPT ![x].rotatedAt = clock]
  BY <1>1 DEF Marked
<1> HIDE DEF a, s
<1>4. /\ s[x] = [a[x] EXCEPT !.rotatedAt = clock]
      /\ \A t \in 1 .. n : t # x => s[t] = a[t]
      /\ DOMAIN s = 1 .. n /\ s = [t \in DOMAIN s |-> s[t]]
  BY <1>2, <1>3
<1>5. /\ a[x] \in Rows /\ a[x].status = "rotated"
      /\ a[x].family = rows[x].family /\ a[x].expiresAt = rows[x].expiresAt
  BY <1>1, <1>2 DEF Rows, RowStatus
<1>6. /\ s[x] \in Rows /\ s[x].status = "rotated"
      /\ s[x].family = rows[x].family /\ s[x].expiresAt = rows[x].expiresAt
  BY <1>4, <1>5 DEF Rows
<1>7. \A t \in 1 .. n : s[t] \in Rows
  BY <1>1, <1>2, <1>4, <1>6
<1>8. s \in Seq(Rows) /\ Len(s) = n
  BY <1>1, <1>4, <1>7, TableIs
<1> QED BY <1>2, <1>4, <1>6, <1>8 DEF s

\* One query of a refresh.
LEMMA HandleKeeps ==
  ASSUME RowInv, RequestInv, NEW r \in Requests, HandleRefresh(r), clock' = clock
  PROVE  /\ RowInv' /\ RequestInv' /\ refresh[r].step \in Handled
         /\ Kept(rows[refresh[r].token].family)
         /\ \A q \in Requests : q # r => refresh'[q] = refresh[q]
         /\ refresh'[r].token = refresh[r].token /\ refresh'[r].step \in Handled \cup Answers
         /\ refresh'[r].step = "ok" =>
              /\ refresh'[r].row = Len(rows) + 1 /\ Len(rows') = Len(rows) + 1
              /\ rows'[Len(rows) + 1].status = "active"
              /\ rows'[Len(rows) + 1].family = rows[refresh[r].token].family
<1> DEFINE tok == refresh[r].token
           f == rows[tok].family
           n == Len(rows)
<1>0. /\ n \in Nat /\ rows \in Seq(Rows) /\ refresh[r] \in Records
      /\ \A t \in 1 .. n : rows[t] \in Rows
      /\ refresh[r].step \in Handled => tok \in 1 .. n /\ f \in 1 .. n
  BY DEF RowInv, RequestInv, Records
<1>1. CASE Prune(r)
  <2>1. /\ refresh[r].step = "sent" /\ Goto(r, "pruned", 0)
        /\ rows' = [t \in DOMAIN rows |->
                      IF Expired(t) THEN [rows[t] EXCEPT !.status = "deleted"] ELSE rows[t]]
    BY <1>1 DEF Prune
  <2>2. \A t \in 1 .. n : rows'[t] = IF Expired(t) THEN [rows[t] EXCEPT !.status = "deleted"]
                                     ELSE rows[t]
    BY <1>0, <2>1
  <2>3. \A t \in 1 .. n :
          /\ rows'[t] \in Rows
          /\ rows'[t].family = rows[t].family /\ rows'[t].expiresAt = rows[t].expiresAt
          /\ rows'[t].status = rows[t].status \/ (Expired(t) /\ rows'[t].status = "deleted")
    BY <1>0, <2>2 DEF Rows, RowStatus
  <2>4. rows' = [t \in DOMAIN rows |-> rows'[t]]
    BY <2>1
  <2>5. rows' \in Seq(Rows) /\ Len(rows') = n
    BY <1>0, <2>3, <2>4, TableIs
  <2>6. RowInv'
    BY <2>3, <2>5, StatusesChange
  <2>7. /\ RequestInv' /\ \A q \in Requests : q # r => refresh'[q] = refresh[q]
        /\ refresh'[r].step = "pruned" /\ refresh'[r].token = tok
    <3>1. 0 \in 0 .. Len(rows') /\ Len(rows) <= Len(rows') /\ Len(rows') \in Nat
      BY <1>0, <2>5
    <3>2. "pruned" \in RefreshSteps /\ refresh[r].step \in Handled
      BY <2>1 DEF RefreshSteps, Handled
    <3>3. \A t \in 1 .. Len(rows) : rows'[t].family = rows[t].family
      BY <2>3
    <3>4. GoesOn(r, "pruned", 0)
      BY <2>1, <3>1, <3>2, <3>3 DEF GoesOn
    <3> HIDE DEF f, n, tok
    <3>5. /\ RequestInv' /\ \A q \in Requests : q # r => refresh'[q] = refresh[q]
          /\ refresh'[r].step = "pruned" /\ refresh'[r].token = refresh[r].token
      BY <3>4, GotoKeeps
    <3> QED BY <3>5 DEF tok
  <2>8. Kept(f)
    BY <1>0, <2>3, <2>5 DEF Kept
  <2>9. "pruned" \in Handled /\ refresh[r].step \in Handled
    BY <2>1 DEF Handled
  <2> QED BY <2>6, <2>7, <2>8, <2>9
<1>2. ASSUME rows' = rows, NEW st \in Handled \cup {"refused", "error"}, NEW x \in 0 .. n,
             Goto(r, st, x), refresh[r].step \in Handled, st \in {"refused", "error"} => x = 0,
             st = "rotating" => x # 0 /\ rows[x].family = f
      PROVE  /\ RowInv' /\ RequestInv'
             /\ Kept(f)
             /\ \A q \in Requests : q # r => refresh'[q] = refresh[q]
             /\ refresh'[r].token = tok /\ refresh'[r].step = st
  <2>1. RowInv'
    BY <1>2 DEF RowInv
  <2>2. Kept(f)
    BY <1>0, <1>2 DEF Kept
  <2>3. st \in RefreshSteps /\ st # "unsent"
    BY DEF RefreshSteps, Handled
  <2>4. /\ RequestInv' /\ \A q \in Requests : q # r => refresh'[q] = refresh[q]
        /\ refresh'[r].step = st /\ refresh'[r].token = tok
    <3>1. GoesOn(r, st, x)
      BY <1>0, <1>2, <2>3 DEF GoesOn
    <3> QED BY <3>1, GotoKeeps
  <2> QED BY <2>1, <2>2, <2>4
<1>3. CASE FindRow(r)
  <2>1. refresh[r].step = "pruned" /\ rows' = rows /\ tok \in 1 .. n
    BY <1>0, <1>3 DEF FindRow, Handled
  <2>2. rows[tok].status \in RowStatus
    BY <1>0, <2>1 DEF Rows
  <2>3. \/ Goto(r, "refused", 0)
        \/ Goto(r, "rotating", tok)
        \/ Goto(r, "graced", 0)
        \/ Goto(r, "revoking", 0)
    BY <1>3, <2>2 DEF FindRow, RowStatus
  <2> QED BY <1>0, <1>2, <2>1, <2>3 DEF Handled, Answers
<1>4. CASE FindSuccessor(r)
  <2>1. /\ refresh[r].step = "graced" /\ rows' = rows
        /\ \/ Goto(r, "revoking", 0)
           \/ \E t \in LiveOf(tok) : Goto(r, "rotating", t)
    BY <1>4 DEF FindSuccessor
  <2>2. \A t \in LiveOf(tok) : t \in 0 .. n /\ t # 0 /\ rows[t].family = f
    BY <1>0 DEF LiveOf
  <2> QED BY <1>0, <1>2, <2>1, <2>2 DEF Handled, Answers
<1>5. CASE RotateRow(r)
  <2> DEFINE x == refresh[r].row
             s == Marked(x)
  <2>1. refresh[r].step = "rotating" /\ refresh[r].step \in Handled
    BY <1>5 DEF RotateRow, Handled
  <2>2. x \in 1 .. n /\ rows[x].family = f
    BY <1>0, <2>1 DEF RequestInv, Records
  <2>3. CASE rows[x].status = "deleted"
    <3>1. Goto(r, "error", 0) /\ rows' = rows
      BY <1>5, <2>3 DEF RotateRow
    <3> QED BY <1>0, <1>2, <2>1, <3>1 DEF Handled, Answers
  <2>4. CASE rows[x].status # "deleted"
    <3>1. rows' = Append(s, Minted(f)) /\ Goto(r, "ok", n + 1)
      BY <1>5, <2>2, <2>4 DEF RotateRow, Marked
    <3>2. /\ s \in Seq(Rows) /\ Len(s) = n
          /\ s[x].family = rows[x].family /\ s[x].expiresAt = rows[x].expiresAt
          /\ \A t \in 1 .. n : t # x => s[t] = rows[t]
      BY <1>0, <2>2, MarkedTable DEF RowInv
    <3> HIDE DEF s
    <3>6. \A t \in 1 .. n :
            /\ s[t].family = rows[t].family /\ s[t].expiresAt = rows[t].expiresAt
            /\ s[t].status = rows[t].status \/ rows[t].family = f
      BY <2>2, <3>2
    <3>7. f \in Nat /\ f \in 1 .. n + 1
      BY <1>0, <2>1
    <3>8. /\ RowInv' /\ Len(rows') = n + 1 /\ \A t \in 1 .. n : rows'[t] = s[t]
          /\ rows'[n + 1].status = "active" /\ rows'[n + 1].family = f
      BY <3>1, <3>2, <3>6, <3>7, AppendKeeps
    <3>9. /\ RequestInv' /\ \A q \in Requests : q # r => refresh'[q] = refresh[q]
          /\ refresh'[r].step = "ok" /\ refresh'[r].token = tok /\ refresh'[r].row = n + 1
      <4>1. n + 1 \in 0 .. Len(rows') /\ n <= Len(rows') /\ Len(rows') \in Nat
        BY <1>0, <3>8
      <4>2. "ok" \in RefreshSteps
        BY DEF RefreshSteps
      <4>3. GoesOn(r, "ok", n + 1)
        BY <2>1, <3>1, <3>6, <3>8, <4>1, <4>2 DEF GoesOn
      <4> QED BY <4>3, GotoKeeps
    <3>10. Kept(f)
      BY <1>0, <3>6, <3>8 DEF Kept
    <3> HIDE DEF f, n, tok
    <3>11. "ok" \in Handled \cup Answers
      BY DEF Answers
    <3> QED BY <2>1, <3>8, <3>9, <3>10, <3>11 DEF f, n, tok
  <2> QED BY <2>3, <2>4
<1>6. CASE RevokeFamily(r)
  <2>1. /\ refresh[r].step = "revoking" /\ Goto(r, "refused", 0)
        /\ rows' = [u \in DOMAIN rows |->
             IF rows[u].family = f /\ rows[u].status # "deleted"
               THEN [rows[u] EXCEPT !.status = "revoked"] ELSE rows[u]]
    BY <1>6 DEF RevokeFamily
  <2>2. \A t \in 1 .. n : rows'[t] = IF rows[t].family = f /\ rows[t].status # "deleted"
                                       THEN [rows[t] EXCEPT !.status = "revoked"] ELSE rows[t]
    BY <1>0, <2>1
  <2>3. \A t \in 1 .. n :
          /\ rows'[t] \in Rows
          /\ rows'[t].family = rows[t].family /\ rows'[t].expiresAt = rows[t].expiresAt
          /\ rows'[t].status = rows[t].status
             \/ (rows[t].family = f /\ rows'[t].status = "revoked")
    BY <1>0, <2>2 DEF Rows, RowStatus
  <2>4. rows' = [t \in DOMAIN rows |-> rows'[t]]
    BY <2>1
  <2>5. rows' \in Seq(Rows) /\ Len(rows') = n
    BY <1>0, <2>3, <2>4, TableIs
  <2>6. RowInv'
    BY <2>3, <2>5, StatusesChange
  <2>7. /\ RequestInv' /\ \A q \in Requests : q # r => refresh'[q] = refresh[q]
        /\ refresh'[r].step = "refused" /\ refresh'[r].token = tok
    <3>1. 0 \in 0 .. Len(rows') /\ Len(rows) <= Len(rows') /\ Len(rows') \in Nat
      BY <1>0, <2>5
    <3>2. "refused" \in RefreshSteps /\ refresh[r].step \in Handled
      BY <2>1 DEF RefreshSteps, Handled
    <3>3. \A t \in 1 .. Len(rows) : rows'[t].family = rows[t].family
      BY <2>3
    <3>4. GoesOn(r, "refused", 0)
      BY <2>1, <3>1, <3>2, <3>3 DEF GoesOn
    <3> HIDE DEF f, n, tok
    <3>5. /\ RequestInv' /\ \A q \in Requests : q # r => refresh'[q] = refresh[q]
          /\ refresh'[r].step = "refused" /\ refresh'[r].token = refresh[r].token
      BY <3>4, GotoKeeps
    <3> QED BY <3>5 DEF tok
  <2>8. Kept(f)
    BY <1>0, <2>3, <2>5 DEF Kept
  <2>9. "refused" \in Answers /\ refresh[r].step \in Handled
    BY <2>1 DEF Answers, Handled
  <2> QED BY <2>6, <2>7, <2>8, <2>9
<1> QED BY <1>1, <1>3, <1>4, <1>5, <1>6 DEF HandleRefresh

\* A request is sent with the cookie x.
LEMMA SendKeeps ==
  ASSUME RowInv, RequestInv, NEW r \in Requests, NEW x \in 0 .. Len(rows),
         SendRefresh(r, x), rows' = rows
  PROVE  /\ RequestInv' /\ refresh[r].token = 0
         /\ refresh'[r].token = x /\ refresh'[r].step \in {"sent", "refused"}
         /\ \A q \in Requests : q # r => refresh'[q] = refresh[q]
<1> DEFINE a == [step |-> IF x = 0 THEN "refused" ELSE "sent", token |-> x, row |-> 0]
<1>1. /\ refresh' = [refresh EXCEPT ![r] = a] /\ refresh[r].step = "unsent"
      /\ refresh[r].token = 0
  BY DEF SendRefresh, RequestInv
<1>2. /\ a \in Records /\ a.token = x /\ a.row = 0 /\ x <= Len(rows) /\ Len(rows) \in Nat
      /\ a.step = IF x = 0 THEN "refused" ELSE "sent"
  BY DEF Records, RefreshSteps, RowInv
<1> HIDE DEF a
<1>3. refresh'[r] = a /\ \A q \in Requests : q # r => refresh'[q] = refresh[q]
  BY <1>1 DEF RequestInv
<1>4. refresh' \in [Requests -> Records]
  BY <1>1, <1>2 DEF RequestInv
<1>5. /\ a.token <= Len(rows) /\ a.row <= Len(rows)
      /\ a.step \in Handled => a.token # 0
      /\ a.step # "rotating" /\ a.step # "unsent"
      /\ a.step \in {"unsent", "refused", "error"} => a.row = 0
  BY <1>2 DEF Handled
<1>6. RequestInv'
  BY <1>3, <1>4, <1>5 DEF RequestInv
<1> QED BY <1>1, <1>2, <1>3, <1>6

LEMMA IssueKeeps ==
  ASSUME RowInv, Issue, clock' = clock
  PROVE  /\ RowInv' /\ Len(rows') = Len(rows) + 1
         /\ \A t \in 1 .. Len(rows) : rows'[t] = rows[t]
         /\ rows'[Len(rows) + 1].status = "active"
         /\ rows'[Len(rows) + 1].family = Len(rows) + 1
<1>1. /\ rows' = Append(rows, Minted(Len(rows) + 1)) /\ rows \in Seq(Rows) /\ Len(rows) \in Nat
      /\ Len(rows) + 1 \in Nat /\ Len(rows) + 1 \in 1 .. Len(rows) + 1
  BY DEF Issue, RowInv
<1> QED BY <1>1, AppendKeeps

LEMMA RevokeKeeps ==
  ASSUME RowInv, NEW x \in 0 .. Len(rows), Revoke(x), clock' = clock
  PROVE  /\ RowInv' /\ Len(rows') = Len(rows)
         /\ \A t \in 1 .. Len(rows) :
              rows'[t].family = rows[t].family /\ rows'[t].expiresAt = rows[t].expiresAt
         /\ x = 0 => rows' = rows
<1>1. CASE x = 0
  BY <1>1 DEF Revoke, RowInv
<1>2. CASE x # 0
  <2> DEFINE s == IF rows[x].status = "deleted" THEN rows[x].status ELSE "revoked"
             a == [rows[x] EXCEPT !.status = s]
  <2>1. rows \in Seq(Rows) /\ rows[x] \in Rows /\ x \in 1 .. Len(rows)
    BY <1>2 DEF RowInv
  <2>2. s \in RowStatus /\ (s = rows[x].status \/ s # "rotated")
    BY DEF RowStatus
  <2>3. rows' = [rows EXCEPT ![x].status = s]
    BY <1>2 DEF Revoke
  <2> HIDE DEF s
  <2>4. rows' = [rows EXCEPT ![x] = a]
    BY <2>1, <2>3
  <2>5. /\ a \in Rows /\ a.status = s
        /\ a.family = rows[x].family /\ a.expiresAt = rows[x].expiresAt
    BY <2>1, <2>2 DEF Rows
  <2> HIDE DEF a
  <2>6. /\ rows' \in Seq(Rows) /\ Len(rows') = Len(rows) /\ rows'[x] = a
        /\ \A t \in 1 .. Len(rows) : t # x => rows'[t] = rows[t]
    BY <2>1, <2>4, <2>5
  <2>7. \A t \in 1 .. Len(rows) :
          /\ rows'[t].family = rows[t].family /\ rows'[t].expiresAt = rows[t].expiresAt
          /\ rows'[t].status = rows[t].status \/ rows'[t].status # "rotated"
    BY <2>2, <2>5, <2>6
  <2>8. RowInv'
    BY <2>6, <2>7, StatusesChange
  <2> QED BY <1>2, <2>6, <2>7, <2>8
<1> QED BY <1>1, <1>2

-----------------------------------------------------------------------------
(* The cookies, and the step of the whole system.                          *)

CookieInv ==
  /\ jar \in 0 .. Len(rows)
  /\ login = [page |-> login.page, token |-> login.token] /\ login.token \in 0 .. Len(rows)
  /\ logout = [step |-> logout.step, token |-> logout.token]
  /\ logout.token \in 0 .. Len(rows)

\* A page waits for a request that there is.
FlightInv == refreshing \in [Pages -> Requests \cup {0}]

DataInv == RowInv /\ RequestInv /\ CookieInv /\ FlightInv

LEMMA InitData == Init => DataInv
<1> SUFFICES ASSUME Init PROVE DataInv
  OBVIOUS
<1> USE DEF Init, TokensInit
<1> DEFINE m == Minted(1)
<1>1. /\ m \in Rows /\ m.status = "active" /\ m.family = 1 /\ RefreshTtl <= m.expiresAt
  BY TokenAssumption DEF Minted, Rows, RowStatus
<1>2. rows = <<m>> /\ clock = 0
  OBVIOUS
<1> HIDE DEF m
<1>3. rows \in Seq(Rows) /\ Len(rows) = 1 /\ rows[1] = m
  BY <1>1, <1>2
<1>4. RowInv
  BY <1>1, <1>2, <1>3 DEF RowInv
<1>5. /\ refresh \in [Requests -> Records]
      /\ \A r \in Requests : refresh[r].step = "unsent" /\ refresh[r].token = 0 /\ refresh[r].row = 0
  BY DEF Records, RefreshSteps
<1>6. RequestInv
  BY <1>3, <1>5 DEF RequestInv, Handled
<1>9. FlightInv
  BY DEF FlightInv
<1>7. jar = 1 /\ login.token = 0 /\ logout.token = 0
  OBVIOUS
<1>8. CookieInv
  BY <1>3, <1>7 DEF CookieInv
<1> QED BY <1>4, <1>6, <1>8, <1>9 DEF DataInv

\* What one step does to the tables.
LEMMA StepKinds ==
  ASSUME [Next]_vars
  PROVE  \/ /\ UNCHANGED <<rows, refresh, signedOut>>
            /\ clock' = clock \/ Tick
         \/ /\ \E p \in Pages : StartRefresh(p)
            /\ UNCHANGED <<rows, clock, signedOut>>
         \/ (\E r \in Requests : HandleRefresh(r)) /\ UNCHANGED <<clock, signedOut>>
         \/ Issue /\ UNCHANGED <<refresh, clock, signedOut>>
         \/ LogoutServed
<1> DEFINE Quiet == UNCHANGED <<rows, refresh, clock, signedOut>>
           Starts == (\E p \in Pages : StartRefresh(p)) /\ UNCHANGED <<rows, clock, signedOut>>
<1>1. ASSUME NEW p \in Pages, PageStep(p)
      PROVE  Quiet \/ Starts
  <2>1. CASE RefreshAnswered(p) \/ RefreshTimeout(p)
    <3>1. Quiet
      BY <2>1 DEF RefreshAnswered, RefreshTimeout, tokenVars, history
    <3> QED BY <3>1
  <2>2. ASSUME NEW c \in Callers, Retry(p, c) \/ CallerSignsOut(p, c)
        PROVE  Quiet
    BY <2>2 DEF Retry, CallerSignsOut, SignOut, tokenVars, history
  <2>3. ASSUME NEW c \in Callers, Unauthorized(p, c)
        PROVE  Quiet \/ Starts
    BY <2>3 DEF Unauthorized, refreshAuthSession, history
  <2> QED BY <1>1, <2>1, <2>2, <2>3 DEF PageStep
<1>2. ASSUME People
      PROVE  Quiet \/ Starts \/ (Issue /\ UNCHANGED <<refresh, clock, signedOut>>)
  <2>1. PICK p \in Pages :
          Load(p) \/ UserSignsOut(p) \/ Login(p) \/ \E c \in Callers : Call(p, c)
    BY <1>2 DEF People
  <2>2. CASE Load(p)
    BY <2>2 DEF Load
  <2>3. CASE UserSignsOut(p) \/ \E c \in Callers : Call(p, c)
    <3>1. Quiet
      BY <2>3 DEF UserSignsOut, SignOut, Call, tokenVars, history
    <3> QED BY <3>1
  <2>4. CASE Login(p)
    BY <2>4 DEF Login, history
  <2> QED BY <2>1, <2>2, <2>3, <2>4
<1>3. CASE LogoutAnswered \/ LoginAnswered \/ UNCHANGED vars
  <2>1. Quiet
    BY <1>3 DEF LogoutAnswered, LoginAnswered, vars, pageVars, tokenVars, history
  <2> QED BY <2>1
<1>4. CASE \E r \in Requests : HandleRefresh(r) /\ UNCHANGED <<clock, pageVars>>
  BY <1>4 DEF pageVars, history
<1>5. CASE TimePasses
  BY <1>5 DEF TimePasses, pageVars, history
<1> QED BY <1>1, <1>2, <1>3, <1>4, <1>5 DEF Next, Identity

LEMMA TablesStep ==
  ASSUME DataInv, [Next]_vars
  PROVE  RowInv' /\ RequestInv' /\ Len(rows) <= Len(rows') /\ clock <= clock'
<1> DEFINE Goal == RowInv' /\ RequestInv' /\ Len(rows) <= Len(rows') /\ clock <= clock'
<1>0. /\ RowInv /\ RequestInv /\ Len(rows) \in Nat /\ clock \in Nat
      /\ jar \in 0 .. Len(rows) /\ logout.token \in 0 .. Len(rows)
  BY DEF DataInv, RowInv, CookieInv
<1>1. CASE UNCHANGED <<rows, refresh>> /\ (clock' = clock \/ Tick)
  BY <1>0, <1>1 DEF RowInv, RequestInv, Tick
<1>2. ASSUME rows' = rows, clock' = clock, NEW p \in Pages, StartRefresh(p)
      PROVE  Goal
  <2>1. PICK r \in Requests : SendRefresh(r, jar)
    BY <1>2 DEF StartRefresh
  <2>2. RequestInv'
    BY <1>0, <1>2, <2>1, SendKeeps
  <2>3. RowInv'
    BY <1>0, <1>2 DEF RowInv
  <2> QED BY <1>0, <1>2, <2>2, <2>3
<1>3. ASSUME NEW r \in Requests, HandleRefresh(r), clock' = clock
      PROVE  Goal
  BY <1>0, <1>3, HandleKeeps DEF Kept
<1>4. CASE Issue /\ UNCHANGED <<refresh, clock>>
  <2>1. /\ RowInv' /\ Len(rows') = Len(rows) + 1
        /\ \A t \in 1 .. Len(rows) : rows'[t] = rows[t]
    BY <1>0, <1>4, IssueKeeps
  <2>2. RequestInv'
    BY <1>0, <1>4, <2>1, RequestsStay
  <2> QED BY <1>0, <1>4, <2>1, <2>2
<1>5. CASE LogoutServed
  <2>1. Revoke(logout.token) /\ refresh' = refresh /\ clock' = clock
    BY <1>5 DEF LogoutServed
  <2>2. /\ RowInv' /\ Len(rows') = Len(rows)
        /\ \A t \in 1 .. Len(rows) : rows'[t].family = rows[t].family
    BY <1>0, <2>1, RevokeKeeps
  <2>3. RequestInv'
    BY <1>0, <2>1, <2>2, RequestsStay
  <2> QED BY <1>0, <2>1, <2>2, <2>3
<1> QED BY <1>1, <1>2, <1>3, <1>4, <1>5, StepKinds

LEMMA FlightStep == FlightInv /\ [Next]_vars => FlightInv'
<1> SUFFICES ASSUME FlightInv, [Next]_vars PROVE FlightInv'
  OBVIOUS
<1>1. ASSUME \/ refreshing' = refreshing
             \/ \E p \in Pages : StartRefresh(p) \/ \E ok \in BOOLEAN : Settle(p, ok)
      PROVE  FlightInv'
  BY <1>1 DEF FlightInv, StartRefresh, Settle
<1>2. ASSUME NEW p \in Pages, PageStep(p) \/ Load(p)
      PROVE  FlightInv'
  <2>1. CASE RefreshAnswered(p) \/ RefreshTimeout(p)
    <3>1. \E ok \in BOOLEAN : Settle(p, ok)
      BY <2>1 DEF RefreshAnswered, RefreshTimeout
    <3> QED BY <1>1, <3>1
  <2>2. CASE Load(p) \/ \E c \in Callers : Unauthorized(p, c) \/ Retry(p, c) \/ CallerSignsOut(p, c)
    BY <1>1, <2>2 DEF Load, Unauthorized, refreshAuthSession, Retry, CallerSignsOut, SignOut
  <2> QED BY <1>2, <2>1, <2>2 DEF PageStep
<1>3. CASE \E p \in Pages : UserSignsOut(p) \/ Login(p) \/ \E c \in Callers : Call(p, c)
  BY <1>1, <1>3 DEF UserSignsOut, SignOut, Login, Call
<1>4. CASE Identity \/ TimePasses \/ UNCHANGED vars
  BY <1>1, <1>4 DEF Identity, LogoutServed, LogoutAnswered, LoginAnswered, TimePasses, vars, pageVars
<1> QED BY <1>2, <1>3, <1>4 DEF Next, People

LEMMA DataStep == DataInv /\ [Next]_vars => DataInv'
<1> SUFFICES ASSUME DataInv, [Next]_vars PROVE DataInv'
  OBVIOUS
<1>1. RowInv' /\ RequestInv' /\ Len(rows) <= Len(rows') /\ FlightInv'
  BY TablesStep, FlightStep DEF DataInv
<1>2. Len(rows) \in Nat /\ Len(rows') \in Nat /\ CookieInv
  BY <1>1 DEF DataInv, RowInv
<1> DEFINE JarOK == jar \in 0 .. Len(rows)
             LoginOK == /\ login = [page |-> login.page, token |-> login.token]
                        /\ login.token \in 0 .. Len(rows)
             LogoutOK == /\ logout = [step |-> logout.step, token |-> logout.token]
                         /\ logout.token \in 0 .. Len(rows)
<1>4. /\ jar' = jar => JarOK'
      /\ login' = login => LoginOK'
      /\ logout' = logout => LogoutOK'
  BY <1>1, <1>2 DEF CookieInv
<1>5. ASSUME NEW st, NEW x \in 0 .. Len(rows'), logout' = [step |-> st, token |-> x]
      PROVE  LogoutOK'
  BY <1>5
<1>6. ASSUME NEW p, NEW x \in 0 .. Len(rows'), login' = [page |-> p, token |-> x]
      PROVE  LoginOK'
  BY <1>6
<1>7. 0 \in 0 .. Len(rows') /\ JarOK /\ LoginOK /\ LogoutOK
  BY <1>2 DEF CookieInv
<1> SUFFICES JarOK' /\ LoginOK' /\ LogoutOK'
  BY <1>1 DEF DataInv, CookieInv
<1> HIDE DEF JarOK, LoginOK, LogoutOK
<1>8. ASSUME NEW p \in Pages, SignOut(p)
      PROVE  JarOK' /\ LoginOK' /\ LogoutOK'
  <2>1. jar' = jar /\ login' = login /\ logout' = [step |-> "sent", token |-> jar] /\ rows' = rows
    BY <1>8 DEF SignOut, tokenVars
  <2>2. jar \in 0 .. Len(rows')
    BY <1>2, <2>1 DEF CookieInv
  <2> QED BY <1>4, <1>5, <2>1, <2>2
<1>9. ASSUME NEW p \in Pages, PageStep(p)
      PROVE  JarOK' /\ LoginOK' /\ LogoutOK'
  <2>1. CASE RefreshAnswered(p)
    <3>1. /\ refreshing[p] # 0 /\ refresh[refreshing[p]].step \in Answers
          /\ jar' = refresh[refreshing[p]].row /\ rows' = rows /\ login' = login /\ logout' = logout
      BY <2>1 DEF RefreshAnswered, tokenVars
    <3>2. refreshing[p] \in Requests
      BY <1>2, <3>1 DEF DataInv, FlightInv
    <3>3. jar' \in 0 .. Len(rows')
      BY <1>2, <3>1, <3>2 DEF DataInv, RequestInv, Records
    <3> QED BY <1>4, <3>1, <3>3 DEF JarOK
  <2>2. CASE RefreshTimeout(p) \/ \E c \in Callers : Unauthorized(p, c) \/ Retry(p, c)
    <3>1. jar' = jar /\ login' = login /\ logout' = logout
      BY <2>2 DEF RefreshTimeout, Unauthorized, Retry
    <3> QED BY <1>4, <3>1
  <2>3. CASE \E c \in Callers : CallerSignsOut(p, c)
    BY <1>8, <2>3 DEF CallerSignsOut
  <2> QED BY <1>9, <2>1, <2>2, <2>3 DEF PageStep
<1>10. CASE People
  <2>1. PICK p \in Pages :
          Load(p) \/ UserSignsOut(p) \/ Login(p) \/ \E c \in Callers : Call(p, c)
    BY <1>10 DEF People
  <2>2. CASE Load(p)
    <3>1. /\ jar' = jar /\ logout' = logout
          /\ login' = login \/ login' = [login EXCEPT !.token = 0]
      BY <2>2 DEF Load
    <3>2. LoginOK'
      <4>1. login' = [login EXCEPT !.token = 0] => login' = [page |-> login.page, token |-> 0]
        BY <1>7 DEF LoginOK
      <4> QED BY <1>4, <1>6, <1>7, <3>1, <4>1
    <3> QED BY <1>4, <3>1, <3>2
  <2>3. CASE UserSignsOut(p)
    BY <1>8, <2>3 DEF UserSignsOut
  <2>4. CASE Login(p)
    <3>1. /\ Issue /\ clock' = clock /\ jar' = jar /\ logout' = logout
          /\ login' = [page |-> p, token |-> Len(rows) + 1]
      BY <2>4 DEF Login
    <3>2. Len(rows) + 1 \in 0 .. Len(rows')
      BY <1>2, <3>1, IssueKeeps DEF DataInv
    <3> QED BY <1>4, <1>6, <3>1, <3>2
  <2>5. CASE \E c \in Callers : Call(p, c)
    <3>1. jar' = jar /\ login' = login /\ logout' = logout
      BY <2>5 DEF Call
    <3> QED BY <1>4, <3>1
  <2> QED BY <2>1, <2>2, <2>3, <2>4, <2>5
<1>11. CASE (\E r \in Requests : HandleRefresh(r) /\ UNCHANGED <<clock, pageVars>>)
            \/ TimePasses \/ UNCHANGED vars
  <2>1. jar' = jar /\ login' = login /\ logout' = logout
    BY <1>11 DEF pageVars, TimePasses, vars
  <2> QED BY <1>4, <2>1
<1>12. CASE LogoutServed
  <2>1. jar' = jar /\ login' = login /\ logout' = [logout EXCEPT !.step = "revoked"]
    BY <1>12 DEF LogoutServed
  <2>2. logout' = [step |-> "revoked", token |-> logout.token]
    BY <1>7, <2>1 DEF LogoutOK
  <2>3. logout.token \in 0 .. Len(rows')
    BY <1>1, <1>2, <1>7 DEF LogoutOK
  <2> QED BY <1>4, <1>5, <2>1, <2>2, <2>3
<1>13. CASE LogoutAnswered
  <2>1. jar' = 0 /\ login' = login /\ logout' = [step |-> "none", token |-> 0]
    BY <1>13 DEF LogoutAnswered
  <2>2. JarOK'
    BY <1>7, <2>1 DEF JarOK
  <2> QED BY <1>4, <1>5, <1>7, <2>1, <2>2
<1>14. CASE LoginAnswered
  <2>1. jar' = login.token /\ login' = [login EXCEPT !.token = 0] /\ logout' = logout
    BY <1>14 DEF LoginAnswered
  <2>2. login' = [page |-> login.page, token |-> 0]
    BY <1>7, <2>1 DEF LoginOK
  <2>3. jar' \in 0 .. Len(rows')
    BY <1>1, <1>2, <1>7, <2>1 DEF LoginOK
  <2> QED BY <1>4, <1>6, <1>7, <2>1, <2>2, <2>3 DEF JarOK
<1> QED BY <1>9, <1>10, <1>11, <1>12, <1>13, <1>14 DEF Next, Identity

-----------------------------------------------------------------------------
(* A family stays usable, and nobody is revoked within the window.         *)

\* The newest row of a family nobody revoked and that has not run out is live.
LEMMA NewestIsLive ==
  ASSUME RowInv, NEW t \in 1 .. Len(rows),
         \A u \in Family(t) : rows[u].status \in {"active", "rotated"} /\ ~Expired(u)
  PROVE  LiveOf(t) # {}
<1> DEFINE n == Len(rows)
           S == {u \in 1 .. n : rows[u].family = rows[t].family}
<1>1. n \in Nat /\ DOMAIN rows = 1 .. n /\ t \in S
  BY DEF RowInv
<1>2. S \in SUBSET (1 .. n) /\ S # {}
  BY <1>1
<1> HIDE DEF S
<1>3. PICK u \in S : \A v \in S : v <= u
  BY <1>1, <1>2, NewestOf
<1>4. u \in 1 .. n /\ rows[u].family = rows[t].family /\ u \in Family(t)
  BY <1>1 DEF S, Family
<1>5. rows[u].status # "rotated"
  <2> SUFFICES ASSUME rows[u].status = "rotated" PROVE FALSE
    OBVIOUS
  <2>1. PICK v \in 1 .. n : u < v /\ rows[v].family = rows[u].family
    BY <1>4 DEF RowInv
  <2>2. v \in S
    BY <1>4, <2>1 DEF S
  <2> QED BY <1>3, <1>4, <2>1, <2>2
<1>6. rows[u].status = "active" /\ ~Expired(u)
  BY <1>4, <1>5
<1> QED BY <1>1, <1>4, <1>6 DEF LiveOf

\* FamilyStaysUsable for every number of pages, requests and ticks: a family that
\* nobody revoked and that has not run out always has a live token (rotateRow).
THEOREM FamiliesStayUsable == Spec => []FamilyStaysUsable
<1>1. DataInv => FamilyStaysUsable
  <2> SUFFICES ASSUME DataInv, NEW t \in DOMAIN rows,
                      \A u \in Family(t) : rows[u].status \in {"active", "rotated"} /\ ~Expired(u)
               PROVE  LiveOf(t) # {}
    BY DEF FamilyStaysUsable
  <2>1. RowInv /\ DOMAIN rows = 1 .. Len(rows)
    BY DEF DataInv, RowInv
  <2> QED BY <2>1, NewestIsLive
<1> QED BY <1>1, InitData, DataStep, PTL DEF Spec

\* No row of anybody was revoked or has been deleted, and no request is about to.
Unrevoked ==
  /\ \A t \in 1 .. Len(rows) : rows[t].status \in {"active", "rotated"}
  /\ \A r \in Requests : refresh[r].step # "revoking"

CalmInv == clock < Grace /\ ~signedOut => Unrevoked

LEMMA GotoStep ==
  ASSUME RequestInv, NEW r \in Requests, NEW st, NEW x, Goto(r, st, x), st # "revoking",
         \A q \in Requests : refresh[q].step # "revoking"
  PROVE  \A q \in Requests : refresh'[q].step # "revoking"
<1>1. /\ refresh'[r] = [refresh[r] EXCEPT !.step = st, !.row = x] /\ refresh[r] \in Records
      /\ \A q \in Requests : q # r => refresh'[q] = refresh[q]
  BY DEF Goto, RequestInv
<1>2. refresh'[r].step = st
  BY <1>1 DEF Records
<1> QED BY <1>1, <1>2

LEMMA CalmHandle ==
  ASSUME DataInv, Unrevoked, clock < Grace, NEW r \in Requests, HandleRefresh(r), clock' = clock
  PROVE  Unrevoked'
<1> DEFINE tok == refresh[r].token
           n == Len(rows)
           Q == \A q \in Requests : refresh'[q].step # "revoking"
<1>1. /\ n \in Nat /\ DOMAIN rows = 1 .. n /\ rows \in Seq(Rows) /\ clock \in Nat
      /\ refresh[r] \in Records /\ RequestInv /\ RowInv
      /\ refresh[r].step \in Handled => tok \in 1 .. n
  BY DEF DataInv, RowInv, RequestInv, Records
<1>2. \A t \in 1 .. n : ~Expired(t) /\ rows[t] \in Rows
  <2>1. \A t \in 1 .. n : rows[t] \in Rows /\ RefreshTtl <= rows[t].expiresAt
    BY <1>1 DEF RowInv
  <2>2. \A t \in 1 .. n : rows[t].expiresAt \in Nat
    BY <2>1 DEF Rows
  <2> QED BY <1>1, <2>1, <2>2, TokenAssumption DEF Expired
<1>3. Goto(r, "pruned", 0) \/ Goto(r, "graced", 0) \/ Goto(r, "refused", 0)
      \/ (\E x : Goto(r, "rotating", x) \/ Goto(r, "ok", x)) \/ Goto(r, "error", 0) => Q
  BY <1>1, GotoStep DEF Unrevoked
<1> HIDE DEF Q
<1>4. Q /\ rows' = rows => Unrevoked'
  BY DEF Unrevoked, Q
<1>5. CASE Prune(r)
  <2>1. Q /\ rows' = [t \in DOMAIN rows |->
                IF Expired(t) THEN [rows[t] EXCEPT !.status = "deleted"] ELSE rows[t]]
    BY <1>3, <1>5 DEF Prune
  <2>2. rows' = [t \in DOMAIN rows |-> rows[t]]
    BY <1>1, <1>2, <2>1
  <2>3. rows' = rows
    BY <1>1, <2>2
  <2> QED BY <1>4, <2>1, <2>3
<1>6. CASE FindRow(r)
  <2>1. refresh[r].step = "pruned" /\ tok \in 1 .. n /\ rows' = rows
    BY <1>1, <1>6 DEF FindRow, Handled
  <2>2. rows[tok].status \in {"active", "rotated"} /\ ~Expired(tok)
    BY <1>2, <2>1 DEF Unrevoked
  <2>3. CASE rows[tok].status = "active"
    <3>1. Goto(r, "rotating", tok)
      BY <1>6, <2>2, <2>3 DEF FindRow
    <3> QED BY <1>3, <1>4, <2>1, <3>1
  <2>4. CASE rows[tok].status = "rotated"
    <3>1. rows[tok].rotatedAt \in Nat
      BY <1>2, <2>1 DEF Rows
    <3>2. Graced(tok)
      BY <1>1, <2>4, <3>1, TokenAssumption DEF Graced
    <3>3. Goto(r, "graced", 0)
      BY <1>6, <2>4, <3>2 DEF FindRow
    <3> QED BY <1>3, <1>4, <2>1, <3>3
  <2> QED BY <2>2, <2>3, <2>4
<1>7. CASE FindSuccessor(r)
  <2>1. refresh[r].step = "graced" /\ tok \in 1 .. n /\ rows' = rows
    BY <1>1, <1>7 DEF FindSuccessor, Handled
  <2>2. LiveOf(tok) # {}
    BY <1>1, <1>2, <2>1, NewestIsLive DEF Unrevoked, Family
  <2>3. \E t \in LiveOf(tok) : Goto(r, "rotating", t)
    BY <1>7, <2>2 DEF FindSuccessor
  <2> QED BY <1>3, <1>4, <2>1, <2>3
<1>8. CASE RotateRow(r)
  <2> DEFINE x == refresh[r].row
             s == Marked(x)
             f == rows[x].family
  <2>1. refresh[r].step = "rotating" /\ x \in 1 .. n /\ rows[x].status \in {"active", "rotated"}
    <3>1. refresh[r].step = "rotating"
      BY <1>8 DEF RotateRow
    <3>2. x \in 1 .. n
      BY <1>1, <3>1 DEF RequestInv, Records
    <3> QED BY <3>1, <3>2 DEF Unrevoked
  <2>2. rows' = Append(s, Minted(f)) /\ Goto(r, "ok", n + 1)
    BY <1>8, <2>1 DEF RotateRow, Marked
  <2>3. Q
    BY <1>3, <2>2
  <2>4. /\ s \in Seq(Rows) /\ Len(s) = n /\ s[x].status = "rotated"
        /\ \A t \in 1 .. n : t # x => s[t] = rows[t]
    BY <1>1, <2>1, MarkedTable
  <2> HIDE DEF s
  <2>5. \A t \in 1 .. n : s[t].status \in {"active", "rotated"}
    BY <2>4 DEF Unrevoked
  <2>6. f \in Nat /\ Minted(f) \in Rows /\ Minted(f).status = "active"
    BY <1>1, <1>2, <2>1, TokenAssumption DEF Minted, Rows, RowStatus
  <2> DEFINE m == Minted(f)
  <2> HIDE DEF m
  <2>7. /\ Len(rows') = n + 1 /\ rows'[n + 1] = m
        /\ \A t \in 1 .. n : rows'[t] = s[t]
    BY <1>1, <2>2, <2>4, <2>6 DEF m
  <2>8. \A t \in 1 .. Len(rows') : rows'[t].status \in {"active", "rotated"}
    BY <1>1, <2>5, <2>6, <2>7 DEF m
  <2> QED BY <2>3, <2>8 DEF Q, Unrevoked
<1>9. CASE RevokeFamily(r)
  BY <1>9 DEF RevokeFamily, Unrevoked
<1> QED BY <1>5, <1>6, <1>7, <1>8, <1>9 DEF HandleRefresh

LEMMA CalmStep == DataInv /\ CalmInv /\ [Next]_vars => CalmInv'
<1> SUFFICES ASSUME DataInv, CalmInv, [Next]_vars, clock' < Grace, ~signedOut'
             PROVE  Unrevoked'
  BY DEF CalmInv
<1>1. clock < Grace
  BY TablesStep, TokenAssumption DEF DataInv, RowInv
<1>2. ~signedOut /\ (LogoutServed => logout.token = 0)
  <2>1. LogoutServed => ~signedOut /\ logout.token = 0
    BY DEF LogoutServed
  <2>2. signedOut' = signedOut => ~signedOut
    OBVIOUS
  <2> QED BY <2>1, <2>2, StepKinds
<1>3. Unrevoked
  BY <1>1, <1>2 DEF CalmInv
<1>4. RowInv /\ RequestInv /\ Len(rows) \in Nat /\ jar \in 0 .. Len(rows)
  BY DEF DataInv, RowInv, CookieInv
<1>5. rows' = rows /\ refresh' = refresh => Unrevoked'
  BY <1>3 DEF Unrevoked
<1>6. ASSUME rows' = rows, NEW p \in Pages, StartRefresh(p)
      PROVE  Unrevoked'
  <2>1. PICK r \in Requests : SendRefresh(r, jar)
    BY <1>6 DEF StartRefresh
  <2>2. /\ refresh'[r].step \in {"sent", "refused"}
        /\ \A q \in Requests : q # r => refresh'[q] = refresh[q]
    BY <1>4, <1>6, <2>1, SendKeeps
  <2> QED BY <1>3, <1>6, <2>2 DEF Unrevoked
<1>7. ASSUME NEW r \in Requests, HandleRefresh(r), clock' = clock
      PROVE  Unrevoked'
  BY <1>1, <1>3, <1>7, CalmHandle
<1>8. ASSUME Issue, refresh' = refresh, clock' = clock
      PROVE  Unrevoked'
  <2>1. /\ Len(rows') = Len(rows) + 1 /\ rows'[Len(rows) + 1].status = "active"
        /\ \A t \in 1 .. Len(rows) : rows'[t] = rows[t]
    BY <1>4, <1>8, IssueKeeps
  <2>2. \A t \in 1 .. Len(rows') : t \in 1 .. Len(rows) \/ t = Len(rows) + 1
    BY <1>4, <2>1
  <2> QED BY <1>3, <1>8, <2>1, <2>2 DEF Unrevoked
<1>9. CASE LogoutServed
  <2>1. rows' = rows /\ refresh' = refresh
    BY <1>2, <1>9 DEF LogoutServed, Revoke
  <2> QED BY <1>5, <2>1
<1> QED BY <1>5, <1>6, <1>7, <1>8, <1>9, StepKinds

\* BenignRaceKeepsSession for every number of pages and requests: within the grace
\* window, pages that race, reload or give up never end a session; only a sign-out
\* does (rotate's grace check, refreshReuseGraceMs).
THEOREM BenignRacesKeepSessions == Spec => []BenignRaceKeepsSession
<1>1. Init => CalmInv
  <2> SUFFICES ASSUME Init PROVE Unrevoked
    BY DEF CalmInv
  <2>1. rows = <<Minted(1)>> /\ \A r \in Requests : refresh[r].step = "unsent"
    BY DEF Init, TokensInit
  <2>2. Len(rows) = 1 /\ rows[1].status = "active"
    BY <2>1 DEF Minted
  <2> QED BY <2>1, <2>2 DEF Unrevoked
<1>2. DataInv /\ CalmInv => BenignRaceKeepsSession
  BY DEF DataInv, RowInv, CalmInv, Unrevoked, BenignRaceKeepsSession
<1> QED BY <1>1, <1>2, InitData, DataStep, CalmStep, PTL DEF Spec

-----------------------------------------------------------------------------
(* The cookie of one page.                                                 *)

Closed(p) ==
  /\ refreshing[p] = 0 /\ access[p] = 0
  /\ \A c \in Callers : caller[<<p, c>>] = "idle"

\* A page that was not loaded does nothing, and before the first one is, nothing
\* has happened.
PagesInv ==
  /\ access \in [Pages -> Nat] /\ caller \in [Pages \X Callers -> CallerSteps]
  /\ \A p \in Pages \ open : Closed(p)
  /\ login.token # 0 => login.page \in open
  /\ open = {} => /\ jar = 1 /\ rows[1].status = "active" /\ logout.step = "none"
                  /\ \A r \in Requests : refresh[r].step = "unsent"

\* Nobody has presented x, and unless somebody signed out it is live.
Good(x) ==
  /\ \A r \in Requests : refresh[r].token # x
  /\ signedOut \/ rows[x].status = "active" \/ Expired(x)

\* The token of a login under way is of a family of its own.
LoginApart ==
  LET family == rows[login.token].family
  IN /\ Good(login.token)
     /\ jar # 0 => rows[jar].family # family
     /\ \A r \in Requests : refresh[r].token # 0 => rows[refresh[r].token].family # family

\* The answer of q is good, and of the family of the token q presented.
AnswerGood(q) ==
  /\ refresh[q].row # 0 /\ refresh[q].token # 0 /\ Good(refresh[q].row)
  /\ rows[refresh[q].row].family = rows[refresh[q].token].family

\* p is the only page and saw the answer of every refresh so far.
Asked(p) ==
  /\ \A r \in Requests : r # refreshing[p] => refresh[r].step \notin Handled
  /\ \A r, s \in Requests :
       r # s /\ refresh[r].token # 0 => refresh[r].token # refresh[s].token
JarGood(p) == jar # 0 /\ refreshing[p] = 0 => Good(jar)
Answered(p) ==
  refreshing[p] # 0 /\ refresh[refreshing[p]].step = "ok" => AnswerGood(refreshing[p])
LoginGood == login.token # 0 => LoginApart

SingleInv(p) == Asked(p) /\ JarGood(p) /\ Answered(p) /\ LoginGood

AloneInv == \A p \in Pages : open = {p} /\ ~lost => SingleInv(p)

\* Of the pages, a step changes at most one that is open.
Touches(q) ==
  \A p \in Pages : p # q =>
    /\ refreshing'[p] = refreshing[p] /\ access'[p] = access[p]
    /\ \A c \in Callers : caller'[<<p, c>>] = caller[<<p, c>>]

LEMMA PageTouched ==
  ASSUME DataInv, PagesInv, [Next]_vars
  PROVE  /\ access' \in [Pages -> Nat] /\ caller' \in [Pages \X Callers -> CallerSteps]
         /\ open \subseteq open'
         /\ UNCHANGED <<refreshing, access, caller>> \/ \E q \in open' : Touches(q)
<1> DEFINE Typed == access' \in [Pages -> Nat] /\ caller' \in [Pages \X Callers -> CallerSteps]
           Still == UNCHANGED <<refreshing, access, caller, open>>
<1>0. /\ access \in [Pages -> Nat] /\ caller \in [Pages \X Callers -> CallerSteps]
      /\ refreshing \in [Pages -> Requests \cup {0}]
      /\ clock \in Nat /\ clock + AccessTtl \in Nat
  BY SessionAssumption DEF PagesInv, DataInv, FlightInv, RowInv
<1>1. \A p \in Pages : p \notin open => Closed(p)
  BY DEF PagesInv
<1>2. ASSUME NEW p \in Pages, NEW ok \in BOOLEAN, Settle(p, ok), refreshing[p] # 0,
             access' = access \/ access' = [access EXCEPT ![p] = clock + AccessTtl],
             open' = open
      PROVE  Typed /\ p \in open' /\ Touches(p)
  <2>1. p \in open'
    BY <1>1, <1>2 DEF Closed
  <2>2. access' \in [Pages -> Nat] /\ \A q \in Pages : q # p => access'[q] = access[q]
    BY <1>0, <1>2
  <2>3. \A q \in Pages : q # p => refreshing'[q] = refreshing[q]
    BY <1>0, <1>2 DEF Settle
  <2>4. /\ caller' \in [Pages \X Callers -> CallerSteps]
        /\ \A q \in Pages, c \in Callers : q # p => caller'[<<q, c>>] = caller[<<q, c>>]
    <3>1. caller' = [x \in Pages \X Callers |->
             IF x[1] = p /\ caller[x] = "waiting" THEN IF ok THEN "retry" ELSE "failed"
             ELSE caller[x]]
      BY <1>2 DEF Settle
    <3>2. \A x \in Pages \X Callers : caller'[x] \in CallerSteps
      BY <1>0, <3>1 DEF CallerSteps
    <3>3. ASSUME NEW q \in Pages, NEW c \in Callers, q # p
          PROVE  caller'[<<q, c>>] = caller[<<q, c>>]
      <4>1. <<q, c>> \in Pages \X Callers /\ <<q, c>>[1] = q
        OBVIOUS
      <4> QED BY <3>1, <3>3, <4>1
    <3> QED BY <3>1, <3>2, <3>3
  <2> QED BY <2>1, <2>2, <2>3, <2>4 DEF Touches
<1>3. ASSUME NEW p \in Pages, NEW c \in Callers, NEW st \in CallerSteps, p \in open', open' = open,
             caller' = [caller EXCEPT ![<<p, c>>] = st],
             access' = access \/ access' = [access EXCEPT ![p] = 0],
             refreshing' = refreshing \/ \E r \in Requests : refreshing' = [refreshing EXCEPT ![p] = r]
      PROVE  Typed /\ Touches(p)
  <2>1. access' \in [Pages -> Nat] /\ \A q \in Pages : q # p => access'[q] = access[q]
    BY <1>0, <1>3
  <2>2. \A q \in Pages : q # p => refreshing'[q] = refreshing[q]
    BY <1>0, <1>3
  <2>3. caller' \in [Pages \X Callers -> CallerSteps]
    BY <1>0, <1>3
  <2>4. ASSUME NEW q \in Pages, NEW d \in Callers, q # p
        PROVE  caller'[<<q, d>>] = caller[<<q, d>>]
    <3>1. <<q, d>> \in Pages \X Callers /\ <<q, d>> # <<p, c>>
      BY <2>4
    <3> QED BY <1>0, <1>3, <3>1
  <2> QED BY <2>1, <2>2, <2>3, <2>4 DEF Touches
<1>4. Still => Typed
  BY <1>0
<1>5. ASSUME NEW p \in Pages, PageStep(p)
      PROVE  Typed /\ open' = open /\ p \in open' /\ Touches(p)
  <2>1. CASE RefreshAnswered(p) \/ RefreshTimeout(p)
    <3>1. /\ \E ok \in BOOLEAN : Settle(p, ok)
          /\ refreshing[p] # 0 /\ open' = open
          /\ access' = access \/ access' = [access EXCEPT ![p] = clock + AccessTtl]
      BY <2>1 DEF RefreshAnswered, RefreshTimeout
    <3> QED BY <1>2, <3>1
  <2>2. ASSUME NEW c \in Callers, Unauthorized(p, c) \/ Retry(p, c) \/ CallerSignsOut(p, c)
        PROVE  Typed /\ open' = open /\ p \in open' /\ Touches(p)
    <3>1. /\ open' = open /\ caller[<<p, c>>] # "idle"
          /\ \E st \in CallerSteps : caller' = [caller EXCEPT ![<<p, c>>] = st]
      BY <2>2 DEF Unauthorized, Retry, CallerSignsOut, SignOut, CallerSteps
    <3>2. /\ access' = access \/ access' = [access EXCEPT ![p] = 0]
          /\ refreshing' = refreshing
             \/ \E r \in Requests : refreshing' = [refreshing EXCEPT ![p] = r]
      BY <2>2 DEF Unauthorized, Retry, CallerSignsOut, SignOut, refreshAuthSession, StartRefresh
    <3>3. p \in open'
      BY <1>1, <3>1 DEF Closed
    <3> QED BY <1>3, <3>1, <3>2, <3>3
  <2> QED BY <1>5, <2>1, <2>2 DEF PageStep
<1>6. ASSUME NEW p \in Pages, Load(p)
      PROVE  Typed /\ open \subseteq open' /\ p \in open' /\ Touches(p)
  <2>1. /\ open' = open \cup {p} /\ access' = [access EXCEPT ![p] = 0]
        /\ caller' = [x \in Pages \X Callers |-> IF x[1] = p THEN "idle" ELSE caller[x]]
        /\ \E r \in Requests : refreshing' = [refreshing EXCEPT ![p] = r]
    BY <1>6 DEF Load, StartRefresh
  <2>2. access' \in [Pages -> Nat] /\ \A q \in Pages : q # p => access'[q] = access[q]
    BY <1>0, <2>1
  <2>3. \A q \in Pages : q # p => refreshing'[q] = refreshing[q]
    BY <1>0, <2>1
  <2>4. \A x \in Pages \X Callers : caller'[x] \in CallerSteps
    BY <1>0, <2>1 DEF CallerSteps
  <2>5. ASSUME NEW q \in Pages, NEW c \in Callers, q # p
        PROVE  caller'[<<q, c>>] = caller[<<q, c>>]
    <3>1. <<q, c>> \in Pages \X Callers /\ <<q, c>>[1] = q
      OBVIOUS
    <3> QED BY <2>1, <2>5, <3>1
  <2> QED BY <2>1, <2>2, <2>3, <2>4, <2>5 DEF Touches
<1>7. ASSUME NEW p \in Pages, UserSignsOut(p)
      PROVE  Typed /\ open' = open /\ p \in open' /\ Touches(p)
  <2>1. /\ access[p] > clock /\ access' = [access EXCEPT ![p] = 0]
        /\ refreshing' = refreshing /\ caller' = caller /\ open' = open
    BY <1>7 DEF UserSignsOut, SignOut, Valid
  <2>2. p \in open'
    BY <1>0, <1>1, <2>1 DEF Closed
  <2>3. access' \in [Pages -> Nat] /\ \A q \in Pages : q # p => access'[q] = access[q]
    BY <1>0, <2>1
  <2> QED BY <1>0, <2>1, <2>2, <2>3 DEF Touches
<1>8. ASSUME NEW p \in Pages, NEW c \in Callers, Call(p, c)
      PROVE  Typed /\ open' = open /\ p \in open' /\ Touches(p)
  <2>1. /\ p \in open' /\ open' = open /\ "stale" \in CallerSteps
        /\ caller' = [caller EXCEPT ![<<p, c>>] = "stale"]
        /\ access' = access /\ refreshing' = refreshing
    BY <1>8 DEF Call, CallerSteps
  <2> QED BY <1>3, <2>1
<1>9. ASSUME LoginAnswered
      PROVE  Typed /\ open' = open /\ login.page \in open' /\ Touches(login.page)
  <2>1. /\ login.token # 0 /\ access' = [access EXCEPT ![login.page] = clock + AccessTtl]
        /\ refreshing' = refreshing /\ caller' = caller /\ open' = open
    BY <1>9 DEF LoginAnswered
  <2>2. login.page \in open'
    BY <2>1 DEF PagesInv
  <2>3. access' \in [Pages -> Nat] /\ \A q \in Pages : q # login.page => access'[q] = access[q]
    BY <1>0, <2>1
  <2> QED BY <1>0, <2>1, <2>2, <2>3 DEF Touches
<1>10. CASE (\E p \in Pages : Login(p)) \/ LogoutServed \/ LogoutAnswered \/ TimePasses \/ UNCHANGED vars
            \/ \E r \in Requests : HandleRefresh(r) /\ UNCHANGED <<clock, pageVars>>
  <2>1. Still
    BY <1>10 DEF Login, LogoutServed, LogoutAnswered, TimePasses, vars, pageVars
  <2> QED BY <1>4, <2>1
<1> QED BY <1>5, <1>6, <1>7, <1>8, <1>9, <1>10 DEF Next, People, Identity

\* Before the first page is loaded only time passes.
LEMMA NothingBefore ==
  ASSUME DataInv, PagesInv, [Next]_vars, open = {}
  PROVE  \/ \E p \in Pages : Load(p)
         \/ UNCHANGED <<rows, refresh, jar, open, login, logout, lost, signedOut>>
<1>0. /\ \A p \in Pages : Closed(p) 
      /\ login.token = 0 /\ logout.step = "none" /\ clock \in Nat
      /\ \A r \in Requests : refresh[r].step = "unsent"
  BY DEF PagesInv, DataInv, RowInv
<1>1. ASSUME NEW p \in Pages
      PROVE  ~PageStep(p) /\ ~UserSignsOut(p) /\ ~Login(p) /\ \A c \in Callers : ~Call(p, c)
  <2>1. ~RefreshAnswered(p) /\ ~RefreshTimeout(p)
    BY <1>0 DEF Closed, RefreshAnswered, RefreshTimeout
  <2>2. \A c \in Callers : ~Unauthorized(p, c) /\ ~Retry(p, c) /\ ~CallerSignsOut(p, c)
    BY <1>0 DEF Closed, Unauthorized, Retry, CallerSignsOut
  <2>3. ~UserSignsOut(p)
    BY <1>0 DEF Closed, UserSignsOut, Valid
  <2>4. ~Login(p) /\ \A c \in Callers : ~Call(p, c)
    BY DEF Login, Call
  <2> QED BY <2>1, <2>2, <2>3, <2>4 DEF PageStep
<1>2. ~LogoutServed /\ ~LogoutAnswered /\ ~LoginAnswered
  BY <1>0 DEF LogoutServed, LogoutAnswered, LoginAnswered
<1>3. \A r \in Requests : ~HandleRefresh(r)
  BY <1>0 DEF HandleRefresh, Prune, FindRow, FindSuccessor, RotateRow, RevokeFamily
<1>4. CASE TimePasses \/ UNCHANGED vars
  BY <1>4 DEF TimePasses, vars, pageVars, tokenVars, history
<1> QED BY <1>1, <1>2, <1>3, <1>4 DEF Next, People, Identity

LEMMA PagesStep == DataInv /\ PagesInv /\ [Next]_vars => PagesInv'
<1> SUFFICES ASSUME DataInv, PagesInv, [Next]_vars PROVE PagesInv'
  OBVIOUS
<1>1. /\ access' \in [Pages -> Nat] /\ caller' \in [Pages \X Callers -> CallerSteps]
      /\ open \subseteq open'
      /\ UNCHANGED <<refreshing, access, caller>> \/ \E q \in open' : Touches(q)
  BY PageTouched
<1>2. \A p \in Pages \ open' : Closed(p)'
  <2>1. SUFFICES ASSUME NEW p \in Pages \ open' PROVE Closed(p)'
    OBVIOUS
  <2>2. Closed(p)
    BY <1>1 DEF PagesInv
  <2>3. /\ refreshing'[p] = refreshing[p] /\ access'[p] = access[p]
        /\ \A c \in Callers : caller'[<<p, c>>] = caller[<<p, c>>]
    BY <1>1 DEF Touches
  <2> QED BY <2>2, <2>3 DEF Closed
<1>3. login'.token # 0 => login'.page \in open'
  <2>1. \/ login' = login
        \/ login' = [login EXCEPT !.token = 0]
        \/ \E p \in open : \E x : login' = [page |-> p, token |-> x]
    <3>1. \A p \in Pages : PageStep(p) => login' = login
      BY DEF PageStep, RefreshAnswered, RefreshTimeout, Unauthorized, Retry, CallerSignsOut, SignOut
    <3>2. ASSUME NEW p \in Pages, Login(p)
          PROVE  \E q \in open : \E x : login' = [page |-> q, token |-> x]
      BY <3>2 DEF Login
    <3>3. \A p \in Pages :
            /\ UserSignsOut(p) \/ (\E c \in Callers : Call(p, c)) => login' = login
            /\ Load(p) => login' = login \/ login' = [login EXCEPT !.token = 0]
      BY DEF UserSignsOut, SignOut, Call, Load
    <3>4. (LogoutServed \/ LogoutAnswered => login' = login)
          /\ (LoginAnswered => login' = [login EXCEPT !.token = 0])
      BY DEF LogoutServed, LogoutAnswered, LoginAnswered
    <3>5. TimePasses \/ UNCHANGED vars
          \/ (\E r \in Requests : HandleRefresh(r) /\ UNCHANGED <<clock, pageVars>>)
          => login' = login
      BY DEF TimePasses, vars, pageVars
    <3> QED BY <3>1, <3>2, <3>3, <3>4, <3>5 DEF Next, People, Identity
  <2>2. login = [page |-> login.page, token |-> login.token]
    BY DEF DataInv, CookieInv
  <2>3. login' = [login EXCEPT !.token = 0] => login'.token = 0
    BY <2>2
  <2>4. (\E p \in open : \E x : login' = [page |-> p, token |-> x]) => login'.page \in open'
    BY <1>1
  <2> QED BY <1>1, <2>1, <2>3, <2>4 DEF PagesInv
<1>4. ASSUME open' = {}
      PROVE  /\ jar' = 1 /\ rows'[1].status = "active" /\ logout'.step = "none"
             /\ \A r \in Requests : refresh'[r].step = "unsent"
  <2>1. open = {}
    BY <1>1, <1>4
  <2>2. \A p \in Pages : ~Load(p)
    BY <1>4 DEF Load
  <2> QED BY <2>1, <2>2, NothingBefore DEF PagesInv
<1> QED BY <1>1, <1>2, <1>3, <1>4 DEF PagesInv

\* x is good in the next state.
GoodNext(x) ==
  /\ \A r \in Requests : refresh'[r].token # x
  /\ signedOut' \/ rows'[x].status = "active" \/ rows'[x].expiresAt < clock'

\* What a step may do to a good token.
LEMMA GoodStays ==
  ASSUME DataInv, NEW x \in 1 .. Len(rows), Good(x), clock <= clock', clock' \in Nat,
         \A r \in Requests : refresh'[r].token # x,
         rows'[x].expiresAt = rows[x].expiresAt,
         rows'[x].status = rows[x].status \/ Expired(x) \/ signedOut', signedOut => signedOut'
  PROVE  GoodNext(x)
<1>1. rows[x].expiresAt \in Nat /\ clock \in Nat
  <2>1. rows[x] \in Rows /\ clock \in Nat
    BY DEF DataInv, RowInv
  <2> QED BY <2>1 DEF Rows
<1>2. Expired(x) => rows'[x].expiresAt < clock'
  BY <1>1 DEF Expired
<1>3. signedOut' \/ rows'[x].status = "active" \/ rows'[x].expiresAt < clock'
  <2>1. CASE signedOut
    BY <2>1
  <2>2. CASE rows[x].status = "active"
    BY <1>2, <2>2
  <2>3. CASE Expired(x)
    BY <1>2, <2>3
  <2> QED BY <2>1, <2>2, <2>3 DEF Good
<1> QED BY <1>3 DEF GoodNext

LEMMA TokenTypes ==
  ASSUME DataInv
  PROVE  /\ jar \in 0 .. Len(rows) /\ login.token \in 0 .. Len(rows) /\ Len(rows) \in Nat
         /\ clock \in Nat /\ refreshing \in [Pages -> Requests \cup {0}] /\ 0 \notin Requests
         /\ \A r \in Requests :
              refresh[r].token \in 0 .. Len(rows) /\ refresh[r].row \in 0 .. Len(rows)
BY TokenAssumption DEF DataInv, CookieInv, RowInv, RequestInv, FlightInv, Records

\* The requests rest, and the rows keep their status until somebody signs out.
RowsRest ==
  /\ clock <= clock' /\ refresh' = refresh /\ Len(rows) <= Len(rows')
  /\ \A t \in 1 .. Len(rows) :
       /\ rows'[t].family = rows[t].family /\ rows'[t].expiresAt = rows[t].expiresAt
       /\ rows'[t].status = rows[t].status \/ signedOut'
  /\ signedOut => signedOut'

LEMMA SingleRests ==
  ASSUME DataInv, DataInv', NEW p \in Pages, SingleInv(p), RowsRest, refreshing'[p] = refreshing[p]
  PROVE  /\ \A x \in 1 .. Len(rows) : Good(x) => GoodNext(x)
         /\ Asked(p)' /\ Answered(p)'
         /\ jar' \in {0, jar} => JarGood(p)'
         /\ jar' \in {0, jar} /\ login' = login => LoginGood'
<1>1. /\ jar \in 0 .. Len(rows) /\ login.token \in 0 .. Len(rows) /\ Len(rows) \in Nat
      /\ clock' \in Nat /\ refreshing[p] \in Requests \cup {0}
      /\ \A r \in Requests : refresh[r].token \in 0 .. Len(rows) /\ refresh[r].row \in 0 .. Len(rows)
  BY TokenTypes DEF DataInv, RowInv
<1>2. ASSUME NEW x \in 1 .. Len(rows), Good(x)
      PROVE  GoodNext(x)
  <2>1. \A r \in Requests : refresh'[r].token # x
    BY <1>2 DEF Good, RowsRest
  <2> QED BY <1>1, <1>2, <2>1, GoodStays DEF RowsRest
<1>3. Asked(p)'
  BY DEF SingleInv, Asked, RowsRest
<1>4. Answered(p)'
  <2> DEFINE q == refreshing[p]
  <2>1. SUFFICES ASSUME q # 0, refresh[q].step = "ok"
                 PROVE  AnswerGood(refreshing[p])'
    BY DEF Answered, RowsRest
  <2>2. q \in Requests /\ AnswerGood(q)
    BY <1>1, <2>1 DEF SingleInv, Answered
  <2>3. refresh[q].row \in 1 .. Len(rows) /\ refresh[q].token \in 1 .. Len(rows)
    BY <1>1, <2>2 DEF AnswerGood
  <2>4. GoodNext(refresh[q].row)
    BY <1>2, <2>2, <2>3 DEF AnswerGood
  <2>5. rows'[refresh[q].row].family = rows'[refresh[q].token].family
    BY <2>2, <2>3 DEF AnswerGood, RowsRest
  <2> QED BY <2>2, <2>4, <2>5 DEF AnswerGood, RowsRest, GoodNext, Good, Expired
<1>5. jar' \in {0, jar} => JarGood(p)'
  <2> SUFFICES ASSUME jar' = jar, jar # 0, refreshing[p] = 0
               PROVE  Good(jar)'
    BY DEF JarGood
  <2>1. GoodNext(jar)
    BY <1>1, <1>2 DEF SingleInv, JarGood
  <2> QED BY <2>1 DEF GoodNext, Good, Expired
<1>6. ASSUME jar' \in {0, jar}, login' = login
      PROVE  LoginGood'
  <2> DEFINE x == login.token
  <2>1. CASE x = 0
    BY <1>6, <2>1 DEF LoginGood
  <2>2. CASE x # 0
    <3>1. x \in 1 .. Len(rows) /\ LoginApart
      BY <1>1, <2>2 DEF SingleInv, LoginGood
    <3>2. GoodNext(x)
      BY <1>2, <3>1 DEF LoginApart
    <3>3. \A t \in 1 .. Len(rows) : rows'[t].family = rows[t].family
      BY DEF RowsRest
    <3>4. jar # 0 => rows'[jar].family # rows'[x].family
      <4>1. jar # 0 => jar \in 1 .. Len(rows) /\ rows[jar].family # rows[x].family
        BY <1>1, <3>1 DEF LoginApart
      <4> QED BY <3>1, <3>3, <4>1
    <3>5. ASSUME NEW r \in Requests, refresh[r].token # 0
          PROVE  rows'[refresh[r].token].family # rows'[x].family
      <4>1. rows[refresh[r].token].family # rows[x].family
        BY <3>1, <3>5 DEF LoginApart
      <4>2. refresh[r].token \in 1 .. Len(rows)
        BY <1>1, <3>5
      <4> QED BY <3>1, <3>3, <4>1, <4>2
    <3> QED BY <1>6, <3>2, <3>4, <3>5 DEF LoginGood, LoginApart, RowsRest, GoodNext, Good, Expired
  <2> QED BY <2>1, <2>2
<1> QED BY <1>2, <1>3, <1>4, <1>5, <1>6
\* A refresh is sent with the cookie as it is.
LEMMA SingleSends ==
  ASSUME DataInv, NEW p \in Pages, SingleInv(p), NEW r \in Requests, SendRefresh(r, jar),
         refreshing[p] = 0, refreshing' = [refreshing EXCEPT ![p] = r],
         UNCHANGED <<rows, clock, jar, login, signedOut>>
  PROVE  SingleInv(p)'
<1>1. /\ jar \in 0 .. Len(rows) /\ login.token \in 0 .. Len(rows) /\ Len(rows) \in Nat
      /\ refreshing'[p] = r /\ 0 \notin Requests
      /\ \A q \in Requests : refresh[q].token \in 0 .. Len(rows)
  BY TokenTypes
<1>2. /\ refresh[r].token = 0
      /\ refresh'[r].token = jar /\ refresh'[r].step \in {"sent", "refused"}
      /\ \A q \in Requests : q # r => refresh'[q] = refresh[q]
  BY <1>1, SendKeeps DEF DataInv
<1>3. jar # 0 => \A q \in Requests : refresh[q].token # jar
  BY DEF SingleInv, JarGood, Good
<1>4. Asked(p)'
  <2>1. \A q \in Requests : q # r => refresh'[q].step \notin Handled
    BY <1>1, <1>2 DEF SingleInv, Asked
  <2>2. ASSUME NEW q \in Requests, NEW s \in Requests, q # s, refresh'[q].token # 0
        PROVE  refresh'[q].token # refresh'[s].token
    BY <1>2, <1>3, <2>2 DEF SingleInv, Asked
  <2> QED BY <1>1, <2>1, <2>2 DEF Asked
<1>5. JarGood(p)' /\ Answered(p)'
  BY <1>1, <1>2 DEF JarGood, Answered
<1>6. LoginGood'
  <2>1. SUFFICES ASSUME login.token # 0 PROVE LoginApart'
    BY DEF LoginGood
  <2>2. LoginApart
    BY <2>1 DEF SingleInv, LoginGood
  <2>3. jar # login.token
    BY <2>1, <2>2 DEF LoginApart
  <2>4. \A q \in Requests : refresh'[q].token # login.token
    BY <1>2, <2>2, <2>3 DEF LoginApart, Good
  <2>5. \A q \in Requests : refresh'[q].token # 0 =>
          rows[refresh'[q].token].family # rows[login.token].family
    BY <1>2, <2>2 DEF LoginApart
  <2> QED BY <2>2, <2>4, <2>5 DEF LoginApart, Good, Expired
<1> QED BY <1>4, <1>5, <1>6 DEF SingleInv

\* The service makes a step of the refresh the page waits for.
LEMMA SingleHandles ==
  ASSUME DataInv, NEW p \in Pages, SingleInv(p), NEW r \in Requests, HandleRefresh(r),
         UNCHANGED <<clock, pageVars>>
  PROVE  SingleInv(p)'
<1>1. /\ jar \in 0 .. Len(rows) /\ login.token \in 0 .. Len(rows) /\ Len(rows) \in Nat
      /\ r # 0 /\ clock \in Nat
      /\ \A q \in Requests : refresh[q].token \in 0 .. Len(rows)
      /\ UNCHANGED <<clock, jar, login, refreshing, signedOut>>
  BY TokenTypes DEF pageVars, history
<1>2. /\ refresh[r].step \in Handled
      /\ Kept(rows[refresh[r].token].family)
      /\ \A q \in Requests : q # r => refresh'[q] = refresh[q]
      /\ refresh'[r].token = refresh[r].token
      /\ refresh'[r].step = "ok" =>
           /\ refresh'[r].row = Len(rows) + 1
           /\ rows'[Len(rows) + 1].status = "active"
           /\ rows'[Len(rows) + 1].family = rows[refresh[r].token].family
  BY HandleKeeps DEF DataInv
<1>3. r = refreshing[p] /\ refresh[r].token # 0
  BY <1>2 DEF SingleInv, Asked, DataInv, RequestInv
<1>4. \A q \in Requests : refresh'[q].token = refresh[q].token
  BY <1>2
<1>5. Asked(p)'
  BY <1>1, <1>2, <1>3, <1>4 DEF SingleInv, Asked
<1>6. JarGood(p)'
  BY <1>1, <1>3 DEF JarGood
<1>7. Answered(p)'
  <2>1. SUFFICES ASSUME refresh'[r].step = "ok" PROVE AnswerGood(refreshing[p])'
    BY <1>1, <1>3 DEF Answered
  <2>2. GoodNext(Len(rows) + 1)
    <3>1. \A q \in Requests : refresh'[q].token # Len(rows) + 1
      BY <1>1, <1>4
    <3> QED BY <1>2, <2>1, <3>1 DEF GoodNext
  <2>3. rows'[refresh'[r].token].family = rows[refresh[r].token].family
    BY <1>1, <1>2, <1>3 DEF Kept
  <2>4. refresh'[r].row # 0 /\ refresh'[r].token # 0
    BY <1>1, <1>2, <1>3, <2>1
  <2> QED BY <1>1, <1>2, <1>3, <2>1, <2>2, <2>3, <2>4 DEF AnswerGood, GoodNext, Good, Expired
<1>8. LoginGood'
  <2> DEFINE x == login.token
  <2>1. SUFFICES ASSUME x # 0 PROVE LoginApart'
    BY <1>1 DEF LoginGood
  <2>2. LoginApart /\ x \in 1 .. Len(rows)
    BY <1>1, <2>1 DEF SingleInv, LoginGood
  <2>3. rows'[x].status = rows[x].status \/ Expired(x)
    BY <1>2, <1>3, <2>2 DEF Kept, LoginApart
  <2>4. GoodNext(x)
    <3>1. /\ rows'[x].expiresAt = rows[x].expiresAt /\ clock <= clock' /\ clock' \in Nat
          /\ \A q \in Requests : refresh'[q].token # x
          /\ Good(x) /\ (signedOut => signedOut')
      BY <1>1, <1>2, <1>4, <2>2 DEF Kept, LoginApart, Good
    <3> QED BY <2>2, <2>3, <3>1, GoodStays
  <2>5. \A t \in 1 .. Len(rows) : rows'[t].family = rows[t].family
    BY <1>2 DEF Kept
  <2>6. jar # 0 => rows'[jar].family # rows'[x].family
    BY <1>1, <2>2, <2>5 DEF LoginApart
  <2>7. \A q \in Requests : refresh'[q].token # 0 =>
          rows'[refresh'[q].token].family # rows'[x].family
    BY <1>1, <1>4, <2>2, <2>5 DEF LoginApart
  <2> QED BY <1>1, <2>4, <2>6, <2>7 DEF LoginApart, GoodNext, Good, Expired
<1> QED BY <1>5, <1>6, <1>7, <1>8 DEF SingleInv
\* The answer of a refresh arrives.
LEMMA SingleAnswered ==
  ASSUME DataInv, NEW p \in Pages, SingleInv(p), RefreshAnswered(p)
  PROVE  SingleInv(p)'
<1> DEFINE q == refreshing[p]
<1>1. /\ jar \in 0 .. Len(rows) /\ login.token \in 0 .. Len(rows) /\ Len(rows) \in Nat
      /\ q \in Requests /\ 0 \notin Requests /\ refresh[q].step \in Answers
      /\ jar' = refresh[q].row /\ refreshing' = [refreshing EXCEPT ![p] = 0]
      /\ UNCHANGED <<rows, refresh, clock, login, signedOut>>
  BY TokenTypes DEF RefreshAnswered, Settle, tokenVars, history
<1>2. refreshing'[p] = 0
  BY <1>1, TokenTypes
<1>3. Asked(p)'
  BY <1>1, <1>2 DEF SingleInv, Asked, Answers, Handled
<1>4. jar' # 0 => AnswerGood(q)
  <2>1. refresh[q].row # 0 => refresh[q].step = "ok"
    BY <1>1 DEF DataInv, RequestInv, Answers
  <2> QED BY <1>1, <2>1 DEF SingleInv, Answered
<1>5. JarGood(p)'
  BY <1>1, <1>4 DEF JarGood, AnswerGood, Good, Expired
<1>6. Answered(p)'
  BY <1>2 DEF Answered
<1>7. LoginGood'
  <2>1. SUFFICES ASSUME login.token # 0 PROVE LoginApart'
    BY <1>1 DEF LoginGood
  <2>2. LoginApart
    BY <2>1 DEF SingleInv, LoginGood
  <2>3. jar' # 0 => rows[jar'].family # rows[login.token].family
    BY <1>1, <1>4, <2>2 DEF LoginApart, AnswerGood
  <2> QED BY <1>1, <2>2, <2>3 DEF LoginApart, Good, Expired
<1> QED BY <1>3, <1>5, <1>6, <1>7 DEF SingleInv

\* A login issues a token of a new family.
LEMMA SingleIssues ==
  ASSUME DataInv, DataInv', NEW p \in Pages, SingleInv(p), Login(p)
  PROVE  SingleInv(p)'
<1> DEFINE n == Len(rows)
<1>1. /\ jar \in 0 .. n /\ n \in Nat /\ clock \in Nat
      /\ \A r \in Requests : refresh[r].token \in 0 .. n
      /\ Issue /\ login' = [page |-> p, token |-> n + 1]
      /\ UNCHANGED <<refresh, clock, jar, refreshing, signedOut>>
  BY TokenTypes DEF Login, history
<1>2. /\ Len(rows') = n + 1 /\ \A t \in 1 .. n : rows'[t] = rows[t]
      /\ rows'[n + 1].status = "active" /\ rows'[n + 1].family = n + 1
  BY <1>1, IssueKeeps DEF DataInv
<1>3. RowsRest
  BY <1>1, <1>2 DEF RowsRest
<1>4. Asked(p)' /\ Answered(p)' /\ JarGood(p)'
  BY <1>1, <1>3, SingleRests
<1>5. \A t \in 1 .. n : rows'[t].family # n + 1
  <2>1. \A t \in 1 .. n : rows[t].family \in 1 .. n
    BY DEF DataInv, RowInv
  <2> QED BY <1>1, <1>2, <2>1
<1>6. login'.token = n + 1
  BY <1>1
<1> HIDE DEF n
<1>7. LoginApart'
  <2>1. /\ \A r \in Requests : refresh'[r].token # n + 1
        /\ jar' # 0 => rows'[jar'].family # n + 1
        /\ \A r \in Requests : refresh'[r].token # 0 => rows'[refresh'[r].token].family # n + 1
    BY <1>1, <1>5
  <2> QED BY <1>2, <1>6, <2>1 DEF LoginApart, Good
<1> QED BY <1>4, <1>7 DEF SingleInv, LoginGood
\* Its answer stores the cookie.
LEMMA SingleLogsIn ==
  ASSUME DataInv, DataInv', NEW p \in Pages, SingleInv(p), LoginAnswered
  PROVE  SingleInv(p)'
<1> DEFINE x == login.token
<1>1. /\ x # 0 /\ x \in 1 .. Len(rows) /\ Len(rows) \in Nat /\ clock \in Nat
      /\ jar' = x /\ login' = [login EXCEPT !.token = 0]
      /\ UNCHANGED <<rows, refresh, clock, refreshing, signedOut>>
  BY TokenTypes DEF LoginAnswered, tokenVars, history
<1>2. RowsRest
  BY <1>1 DEF RowsRest
<1>3. /\ Asked(p)' /\ Answered(p)'
      /\ \A t \in 1 .. Len(rows) : Good(t) => GoodNext(t)
  BY <1>1, <1>2, SingleRests
<1>4. GoodNext(x)
  BY <1>1, <1>3 DEF SingleInv, LoginGood, LoginApart
<1>5. JarGood(p)'
  BY <1>1, <1>4 DEF JarGood, GoodNext, Good, Expired
<1>6. login'.token = 0
  <2>1. login = [page |-> login.page, token |-> login.token]
    BY DEF DataInv, CookieInv
  <2> QED BY <1>1, <2>1
<1> QED BY <1>3, <1>5, <1>6 DEF SingleInv, LoginGood

\* The first page is loaded.
LEMMA FirstLoad ==
  ASSUME DataInv, PagesInv, NEW p \in Pages, open = {}, Load(p)
  PROVE  SingleInv(p)'
<1>1. /\ login.token = 0 /\ \A r \in Requests : refresh[r].step = "unsent" /\ refresh[r].token = 0
      /\ rows' = rows /\ jar \in 0 .. Len(rows)
      /\ login' = login \/ login' = [login EXCEPT !.token = 0]
  BY TokenTypes DEF PagesInv, DataInv, RequestInv, Load
<1>2. PICK r \in Requests : SendRefresh(r, jar) /\ refreshing' = [refreshing EXCEPT ![p] = r]
  BY DEF Load, StartRefresh
<1>3. /\ refresh'[r].token = jar /\ refresh'[r].step \in {"sent", "refused"}
      /\ \A q \in Requests : q # r => refresh'[q] = refresh[q]
  BY <1>1, <1>2, SendKeeps DEF DataInv
<1>4. refreshing'[p] = r /\ 0 \notin Requests
  BY <1>2, TokenTypes
<1>5. login'.token = 0
  <2>1. login = [page |-> login.page, token |-> login.token]
    BY DEF DataInv, CookieInv
  <2> QED BY <1>1, <2>1
<1>6. Asked(p)'
  <2>1. \A q \in Requests : q # r => refresh'[q].step \notin Handled /\ refresh'[q].token = 0
    BY <1>1, <1>3 DEF Handled
  <2>2. ASSUME NEW q \in Requests, NEW s \in Requests, q # s, refresh'[q].token # 0
        PROVE  refresh'[q].token # refresh'[s].token
    BY <2>1, <2>2
  <2> QED BY <1>4, <2>1, <2>2 DEF Asked
<1>7. JarGood(p)' /\ Answered(p)' /\ LoginGood'
  BY <1>3, <1>4, <1>5 DEF JarGood, Answered, LoginGood
<1> QED BY <1>6, <1>7 DEF SingleInv

LEMMA AloneStep == DataInv /\ DataInv' /\ PagesInv /\ AloneInv /\ [Next]_vars => AloneInv'
<1> SUFFICES ASSUME DataInv, DataInv', PagesInv, AloneInv, [Next]_vars,
                    NEW p \in Pages, open' = {p}, ~lost'
             PROVE  SingleInv(p)'
  BY DEF AloneInv
<1>1. open = {p} \/ open = {}
  <2>1. open \subseteq {p}
    BY PageTouched
  <2> QED BY <2>1
<1>2. CASE open = {}
  <2>1. PICK q \in Pages : Load(q)
    BY <1>2, NothingBefore
  <2>2. q = p
    BY <2>1 DEF Load
  <2> QED BY <1>2, <2>1, <2>2, FirstLoad
<1>3. CASE open = {p}
  <2>1. \A q \in Pages : ~Load(q) /\ ~RefreshTimeout(q)
    BY <1>3 DEF Load, RefreshTimeout
  <2>2. SUFFICES ASSUME SingleInv(p) PROVE SingleInv(p)'
    <3>1. lost' = lost
      <4>1. \A q \in Pages : PageStep(q) => lost' = lost
        BY <2>1 DEF PageStep, RefreshAnswered, Unauthorized, Retry, CallerSignsOut, SignOut, history
      <4>2. \A q \in Pages : UserSignsOut(q) \/ Login(q) \/ (\E c \in Callers : Call(q, c)) => lost' = lost
        BY DEF UserSignsOut, SignOut, Login, Call, history
      <4>3. LogoutServed \/ LogoutAnswered \/ LoginAnswered \/ TimePasses \/ UNCHANGED vars
            \/ (\E r \in Requests : HandleRefresh(r) /\ UNCHANGED <<clock, pageVars>>) => lost' = lost
        BY DEF LogoutServed, LogoutAnswered, LoginAnswered, TimePasses, vars, pageVars, history
      <4> QED BY <2>1, <4>1, <4>2, <4>3 DEF Next, People, Identity
    <3> QED BY <1>3, <3>1 DEF AloneInv
  <2>3. \A q \in Pages : q # p => Closed(q)
    BY <1>3 DEF PagesInv
  <2>4. /\ refreshing \in [Pages -> Requests \cup {0}] /\ clock \in Nat /\ Len(rows) \in Nat
        /\ logout.token \in 0 .. Len(rows)
    BY TokenTypes DEF DataInv, CookieInv
  \* The page and the cookies are as they were.
  <2>5. ASSUME UNCHANGED <<rows, refresh, refreshing, login, signedOut>>,
               clock <= clock', jar' \in {0, jar}
        PROVE  SingleInv(p)'
    <3>1. RowsRest
      BY <2>4, <2>5 DEF RowsRest
    <3> QED BY <2>2, <2>5, <3>1, SingleRests DEF SingleInv
  <2>6. ASSUME NEW q \in Pages, PageStep(q)
        PROVE  SingleInv(p)'
    <3>1. CASE RefreshAnswered(q)
      <4>1. q = p
        BY <2>3, <3>1 DEF RefreshAnswered, Closed
      <4> QED BY <2>2, <3>1, <4>1, SingleAnswered
    <3>2. ASSUME NEW c \in Callers, Retry(q, c) \/ CallerSignsOut(q, c)
          PROVE  SingleInv(p)'
      <4>1. UNCHANGED <<rows, refresh, clock, refreshing, login, signedOut, jar>>
        BY <3>2 DEF Retry, CallerSignsOut, SignOut, tokenVars, history
      <4> QED BY <2>4, <2>5, <4>1
    <3>3. ASSUME NEW c \in Callers, Unauthorized(q, c)
          PROVE  SingleInv(p)'
      <4>1. q = p
        BY <2>3, <3>3 DEF Unauthorized, Closed
      <4>2. UNCHANGED <<rows, clock, login, signedOut, jar>>
        BY <3>3 DEF Unauthorized, history
      <4>3. CASE refreshing[p] = 0
        <5>1. PICK r \in Requests : SendRefresh(r, jar) /\ refreshing' = [refreshing EXCEPT ![p] = r]
          BY <3>3, <4>1, <4>3 DEF Unauthorized, refreshAuthSession, StartRefresh
        <5> QED BY <2>2, <4>2, <4>3, <5>1, SingleSends
      <4>4. CASE refreshing[p] # 0
        <5>1. UNCHANGED <<refresh, refreshing>>
          BY <3>3, <4>1, <4>4 DEF Unauthorized, refreshAuthSession
        <5> QED BY <2>4, <2>5, <4>2, <5>1
      <4> QED BY <4>3, <4>4
    <3> QED BY <2>1, <2>6, <3>1, <3>2, <3>3 DEF PageStep
  <2>7. ASSUME People
        PROVE  SingleInv(p)'
    <3>1. PICK q \in Pages : UserSignsOut(q) \/ Login(q) \/ \E c \in Callers : Call(q, c)
      BY <2>1, <2>7 DEF People
    <3>2. CASE UserSignsOut(q) \/ \E c \in Callers : Call(q, c)
      <4>1. UNCHANGED <<rows, refresh, clock, refreshing, login, signedOut, jar>>
        BY <3>2 DEF UserSignsOut, SignOut, Call, tokenVars, history
      <4> QED BY <2>4, <2>5, <4>1
    <3>3. CASE Login(q)
      <4>1. q = p
        BY <1>3, <3>3 DEF Login
      <4> QED BY <2>2, <3>3, <4>1, SingleIssues
    <3> QED BY <3>1, <3>2, <3>3
  <2>8. CASE \E r \in Requests : HandleRefresh(r) /\ UNCHANGED <<clock, pageVars>>
    BY <2>2, <2>8, SingleHandles
  <2>9. CASE LogoutServed
    <3>1. /\ Revoke(logout.token) /\ signedOut' = (signedOut \/ logout.token # 0)
          /\ UNCHANGED <<refresh, clock, refreshing, login, jar>>
      BY <2>9 DEF LogoutServed
    <3>2. CASE logout.token = 0
      <4>1. rows' = rows
        BY <3>1, <3>2 DEF Revoke
      <4>2. signedOut => signedOut'
        BY <3>1
      <4>3. RowsRest
        BY <2>4, <3>1, <4>1, <4>2 DEF RowsRest
      <4> QED BY <2>2, <3>1, <4>3, SingleRests DEF SingleInv
    <3>3. CASE logout.token # 0
      <4>1. signedOut' /\ (signedOut => signedOut')
        BY <3>1, <3>3
      <4>2. /\ Len(rows') = Len(rows)
            /\ \A t \in 1 .. Len(rows) :
                 rows'[t].family = rows[t].family /\ rows'[t].expiresAt = rows[t].expiresAt
        BY <2>4, <3>1, RevokeKeeps DEF DataInv
      <4>3. RowsRest
        BY <2>4, <3>1, <4>1, <4>2 DEF RowsRest
      <4> QED BY <2>2, <3>1, <4>3, SingleRests DEF SingleInv
    <3> QED BY <3>2, <3>3
  <2>10. CASE LogoutAnswered
    <3>1. jar' = 0 /\ UNCHANGED <<rows, refresh, clock, refreshing, login, signedOut>>
      BY <2>10 DEF LogoutAnswered, tokenVars, history
    <3> QED BY <2>4, <2>5, <3>1
  <2>11. CASE LoginAnswered
    BY <2>2, <2>11, SingleLogsIn
  <2>12. CASE TimePasses \/ UNCHANGED vars
    <3>1. /\ UNCHANGED <<rows, refresh, refreshing, login, signedOut, jar>>
          /\ clock' = clock \/ clock' = clock + 1
      BY <2>12 DEF TimePasses, Tick, vars, tokenVars, pageVars, history
    <3> QED BY <2>4, <2>5, <3>1
  <2> QED BY <2>6, <2>7, <2>8, <2>9, <2>10, <2>11, <2>12 DEF Next, Identity
<1> QED BY <1>1, <1>2, <1>3

\* CookieIsGood for every number of callers, requests and ticks: on one page whose
\* refreshes are all answered no token is presented twice, and the cookie at rest is
\* live or has run out (refreshAuthSession's single flight).
THEOREM CookiesAreGood == Spec => []CookieIsGood
<1>1. Init => PagesInv /\ AloneInv
  <2> SUFFICES ASSUME Init PROVE PagesInv /\ AloneInv
    OBVIOUS
  <2>1. AloneInv
    BY DEF Init, AloneInv
  <2>2. access \in [Pages -> Nat] /\ caller \in [Pages \X Callers -> CallerSteps]
    BY DEF Init, CallerSteps
  <2>3. \A p \in Pages : Closed(p)
    BY DEF Init, Closed
  <2>4. /\ jar = 1 /\ login.token = 0 /\ logout.step = "none" /\ rows = <<Minted(1)>>
        /\ \A r \in Requests : refresh[r].step = "unsent"
    BY DEF Init, TokensInit
  <2>5. rows[1].status = "active"
    BY <2>4 DEF Minted
  <2> QED BY <2>1, <2>2, <2>3, <2>4, <2>5 DEF PagesInv
<1>2. DataInv /\ AloneInv => CookieIsGood
  <2> SUFFICES ASSUME DataInv, NEW p \in Pages, open = {p}, ~lost, SingleInv(p)
               PROVE  /\ \A r, s \in Requests : Sent(r) /\ Sent(s) /\ r # s =>
                           refresh[r].token # refresh[s].token
                      /\ jar # 0 /\ refreshing[p] = 0 /\ ~signedOut =>
                           rows[jar].status = "active" \/ Expired(jar)
    BY DEF AloneInv, CookieIsGood, SpentOnce, CookieIsLive
  <2> QED BY DEF SingleInv, Asked, JarGood, Good, Sent
<1> QED BY <1>1, <1>2, InitData, DataStep, PagesStep, AloneStep, PTL DEF Spec
=============================================================================
