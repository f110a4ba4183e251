--------------------------- MODULE RefreshTokens ---------------------------
(***************************************************************************)
(* The refresh tokens of one user in the identity service                  *)
(* (refresh-token.service.ts): login opens a family, a refresh spends the  *)
(* presented token and mints its successor.  A refresh is four queries,    *)
(* of which only the last is a transaction, and requests of several pages  *)
(* interleave between them.                                                *)
(*                                                                         *)
(* Time is counted in grace windows: a row rotated in the current tick is  *)
(* within the window, an older one is not.                                 *)
(***************************************************************************)
EXTENDS Naturals, Sequences

CONSTANTS
  Requests,            \* the refresh requests that are ever sent, numbers
  MaxTokens,           \* bound: rows that are ever created
  Grace,               \* refreshReuseGraceMs, in ticks
  RefreshTtl,          \* jwtRefreshTtl, in ticks
  MaxClock             \* bound: ticks

\* The window is ten seconds and a token's life thirty days (config.ts:86, 87).
ASSUME TokenAssumption ==
  /\ Requests \subseteq Nat \ {0}
  /\ MaxTokens \in Nat /\ MaxClock \in Nat
  /\ Grace \in Nat /\ RefreshTtl \in Nat /\ Grace <= RefreshTtl

VARIABLES
  rows,                \* refresh_tokens, in the order of creation
  refresh,             \* for each request, where it is in rotate()
  clock

tokenVars == <<rows, refresh, clock>>

RowStatus == {"active", "rotated", "revoked", "deleted"}
Row == [status : RowStatus, family : 1 .. MaxTokens,
        rotatedAt : 0 .. MaxClock, expiresAt : 0 .. MaxClock + RefreshTtl]

\* "sent", "pruned", "graced", "rotating" and "revoking" are named after what
\* comes next or was done last; the answers are "ok" (200 and a new cookie),
\* "refused" (401) and "error" (500), the latter two with a cleared cookie.
RefreshSteps ==
  {"unsent", "sent", "pruned", "graced", "rotating", "revoking",
   "ok", "refused", "error"}
Answers == {"ok", "refused", "error"}

\* A cookie, an answer or a request names a row that exists, or none.
Token == {0} \cup DOMAIN rows

\* `token` was presented (0: no cookie); `row` is the row it will rotate, and
\* then the row it minted.
TokensTypeOK ==
  /\ rows \in Seq(Row) /\ Len(rows) <= MaxTokens
  /\ refresh \in [Requests -> [step : RefreshSteps, token : Token, row : Token]]
  /\ clock \in 0 .. MaxClock

-----------------------------------------------------------------------------

Expired(t) == rows[t].expiresAt < clock
Graced(t) == rows[t].status = "rotated" /\ clock - rows[t].rotatedAt < Grace

\* The live tokens of the family of t.
LiveOf(t) ==
  {u \in DOMAIN rows : /\ rows[u].family = rows[t].family
                       /\ rows[u].status = "active" /\ ~Expired(u)}

Minted(family) ==
  [status |-> "active", family |-> family, rotatedAt |-> 0,
   expiresAt |-> clock + RefreshTtl]

\* An earlier login left one live token.
TokensInit ==
  /\ clock = 0
  /\ rows = <<Minted(1)>>
  /\ refresh = [r \in Requests |-> [step |-> "unsent", token |-> 0, row |-> 0]]

\* issue: a new family.
Issue ==
  /\ Len(rows) < MaxTokens
  /\ rows' = Append(rows, Minted(Len(rows) + 1))

\* revoke: the one row, whatever its status.  (One deleted stays deleted.)
Revoke(t) ==
  rows' = IF t = 0 THEN rows
          ELSE [rows EXCEPT ![t].status = IF @ = "deleted" THEN @ ELSE "revoked"]

\* The request reaches the controller; without a cookie it is refused there.
SendRefresh(r, t) ==
  /\ refresh[r].step = "unsent"
  /\ refresh' = [refresh EXCEPT ![r] =
       [step |-> IF t = 0 THEN "refused" ELSE "sent", token |-> t, row |-> 0]]

Goto(r, step, row) ==
  refresh' = [refresh EXCEPT ![r].step = step, ![r].row = row]

Prune(r) ==
  /\ refresh[r].step = "sent"
  /\ rows' = [t \in DOMAIN rows |->
                IF Expired(t) THEN [rows[t] EXCEPT !.status = "deleted"] ELSE rows[t]]
  /\ Goto(r, "pruned", 0)

\* Mutated form of FindRow: no grace window, any second use revokes.
FindRowStrictly(r) ==
  LET t == refresh[r].token
  IN /\ refresh[r].step = "pruned"
     /\ CASE rows[t].status = "deleted" -> Goto(r, "refused", 0)
          [] rows[t].status = "active" ->
               IF Expired(t) THEN Goto(r, "refused", 0) ELSE Goto(r, "rotating", t)
          [] rows[t].status \in {"rotated", "revoked"} -> Goto(r, "revoking", 0)
     /\ UNCHANGED rows

\* findUnique, and the decision on the row it returns.
FindRow(r) ==
  LET t == refresh[r].token
  IN /\ refresh[r].step = "pruned"
     /\ CASE rows[t].status = "deleted" -> Goto(r, "refused", 0)
          [] rows[t].status = "active" ->
               IF Expired(t) THEN Goto(r, "refused", 0) ELSE Goto(r, "rotating", t)
          [] rows[t].status \in {"rotated", "revoked"} ->
               Goto(r, IF Graced(t) THEN "graced" ELSE "revoking", 0)
     /\ UNCHANGED rows

\* findFirst: the newest live token of the family stands in.
FindSuccessor(r) ==
  LET live == LiveOf(refresh[r].token)
  IN /\ refresh[r].step = "graced"
     /\ IF live = {} THEN Goto(r, "revoking", 0)
        ELSE \E t \in live : (\A u \in live : u <= t) /\ Goto(r, "rotating", t)
     /\ UNCHANGED rows

\* A mutated form of RotateRow: the successor is written after the old row's
\* update.
RotateInTwo(r) ==
  LET t == refresh[r].row
  IN /\ refresh[r].step = "rotating" /\ Len(rows) < MaxTokens
     /\ IF rows[t].status = "active"
          THEN rows' = [rows EXCEPT ![t].status = "rotated", ![t].rotatedAt = clock]
                 /\ UNCHANGED refresh
          ELSE rows' = Append(rows, Minted(rows[t].family)) /\ Goto(r, "ok", Len(rows) + 1)

\* rotateRow's transaction.  The update has no condition on the status; it
\* throws for a row that another request has pruned.
RotateRow(r) ==
  LET t == refresh[r].row
  IN /\ refresh[r].step = "rotating" /\ Len(rows) < MaxTokens
     /\ IF rows[t].status = "deleted"
          THEN Goto(r, "error", 0) /\ UNCHANGED rows
          ELSE /\ rows' = Append([rows EXCEPT ![t].status = "rotated",
                                              ![t].rotatedAt = clock],
                                 Minted(rows[t].family))
               /\ Goto(r, "ok", Len(rows) + 1)

RevokeFamily(r) ==
  LET t == refresh[r].token
  IN /\ refresh[r].step = "revoking"
     /\ rows' = [u \in DOMAIN rows |->
          IF rows[u].family = rows[t].family /\ rows[u].status # "deleted"
            THEN [rows[u] EXCEPT !.status = "revoked"] ELSE rows[u]]
     /\ Goto(r, "refused", 0)

HandleRefresh(r) ==
  Prune(r) \/ FindRow(r) \/ FindSuccessor(r) \/ RotateRow(r) \/ RevokeFamily(r)

Tick == clock < MaxClock /\ clock' = clock + 1
=============================================================================
