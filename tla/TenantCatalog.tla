---------------------------- MODULE TenantCatalog ----------------------------
(***************************************************************************)
(* What a request to an API passes before its handler runs: the auth        *)
(* middleware, the roles guard, and the tenant guard with the process's     *)
(* cached tenant catalog (packages/tenant-context; packages/shared,         *)
(* tenant-catalog.ts).  There is one tenant, whose row is edited in the     *)
(* database.  Requests overlap where the guard awaits the catalog, so that  *)
(* an older answer of the database may come after a younger one.            *)
(***************************************************************************)
EXTENDS Naturals

CONSTANTS
  Requests,            \* requests that are handled at a time
  MaxEdits,            \* bound: changes of the tenant's status
  MaxFailures          \* bound: failed queries and restarts

ASSUME CatalogAssumption == MaxEdits \in Nat /\ MaxFailures \in Nat

VARIABLES
  active,              \* the tenant's row says so
  cache, fresh,        \* the catalog's copy of it; it is younger than the TTL
  req,                 \* for each request, how far it is
  last,                \* how the last request was answered
  edits, failures

catalogVars == <<active, cache, fresh, req, last, edits, failures>>

\* The APIs order their guards differently; `permitted` is what @Roles asks.
Question == [api : {"read", "write"}, role : {"member", "operator"},
             permitted : BOOLEAN]
Idle == [step |-> "idle"]
Status(a) == IF a THEN "active" ELSE "inactive"

CatalogTypeOK ==
  /\ active \in BOOLEAN /\ cache \in {"none", "active", "inactive"}
  /\ fresh \in BOOLEAN /\ (fresh => cache # "none")
  /\ req \in [Requests -> {Idle} \cup [step : {"asked"}, q : Question]
                \cup [step : {"read"}, q : Question, view : BOOLEAN]]
  /\ last \in {"none", "served", "401", "403", "503"}
  /\ edits \in 0 .. MaxEdits /\ failures \in 0 .. MaxFailures

CatalogInit ==
  /\ active \in BOOLEAN /\ cache = "none" /\ fresh = FALSE
  /\ req = [r \in Requests |-> Idle]
  /\ last = "none" /\ edits = 0 /\ failures = 0

-----------------------------------------------------------------------------
\* The guards' verdict, when the catalog says `copy`: the write API asks for
\* the role first, the read API for the tenant; an operator has no tenant.
Verdict(q, copy) ==
  CASE q.api = "write" /\ ~q.permitted -> "403"
    [] q.role = "operator" \/ copy = "active" -> IF q.permitted THEN "served" ELSE "403"
    [] q.role # "operator" /\ copy = "none" -> "503"
    [] q.role # "operator" /\ copy = "inactive" -> "403"

\* Guards that do not come to the catalog, or find it fresh, decide at once.
\* (NeverStale is the form that takes any copy for a fresh one.)
NeverStale(q) ==
  (q.api = "write" /\ ~q.permitted) \/ q.role = "operator" \/ cache # "none"

AtOnce(q) ==
  (q.api = "write" /\ ~q.permitted) \/ q.role = "operator" \/ fresh

\* The middleware has no token, or the verifier refuses it.
Unauthenticated ==
  /\ last' = "401"
  /\ UNCHANGED <<active, cache, fresh, req, edits, failures>>

Arrive(r) ==
  /\ req[r] = Idle
  /\ \E q \in Question :
       \/ AtOnce(q) /\ last' = Verdict(q, cache) /\ UNCHANGED req
       \/ /\ ~AtOnce(q) /\ req' = [req EXCEPT ![r] = [step |-> "asked", q |-> q]]
          /\ UNCHANGED last
  /\ UNCHANGED <<active, cache, fresh, edits, failures>>

\* ensureFresh, when the query is answered, and when its answer has come.
Read(r) ==
  /\ req[r].step = "asked"
  /\ req' = [req EXCEPT ![r] = [step |-> "read", q |-> req[r].q, view |-> active]]
  /\ UNCHANGED <<active, cache, fresh, last, edits, failures>>

Fill(r) ==
  /\ req[r].step = "read"
  /\ cache' = Status(req[r].view) /\ fresh' = TRUE
  /\ last' = Verdict(req[r].q, cache')
  /\ req' = [req EXCEPT ![r] = Idle]
  /\ UNCHANGED <<active, edits, failures>>

\* The last good copy serves, if there is one.
Fail(r) ==
  /\ req[r].step # "idle" /\ failures < MaxFailures
  /\ last' = Verdict(req[r].q, cache)
  /\ req' = [req EXCEPT ![r] = Idle] /\ failures' = failures + 1
  /\ UNCHANGED <<active, cache, fresh, edits>>

Lapse == fresh /\ fresh' = FALSE
         /\ UNCHANGED <<active, cache, req, last, edits, failures>>

Edit ==
  /\ edits < MaxEdits /\ edits' = edits + 1 /\ active' = ~active
  /\ UNCHANGED <<cache, fresh, req, last, failures>>

Restart ==
  /\ failures < MaxFailures /\ failures' = failures + 1
  /\ cache' = "none" /\ fresh' = FALSE /\ req' = [r \in Requests |-> Idle]
  /\ UNCHANGED <<active, last, edits>>

CatalogNext ==
  \/ \E r \in Requests : Arrive(r) \/ Read(r) \/ Fill(r) \/ Fail(r)
  \/ Unauthenticated \/ Lapse \/ Edit \/ Restart

\* Time passes, and the database answers what it does not fail.
CatalogSpec ==
  /\ CatalogInit /\ [][CatalogNext]_catalogVars
  /\ WF_catalogVars(Lapse)
  /\ \A r \in Requests : WF_catalogVars(Read(r) \/ Fill(r))

-----------------------------------------------------------------------------
(* Property.                                                               *)

\* An edit of a tenant takes effect in every process ("write-rare", "a short
\* TTL", the header of tenant-catalog.ts): from some time on a request of its
\* members that is decided from the copy is served if and only if its row is
\* active, also when an older answer of the database comes late and replaces a
\* younger one, and when the database fails meanwhile.
EditTakesEffect ==
  <>[](\A q \in Question : q.role = "member" /\ q.permitted /\ AtOnce(q) =>
         Verdict(q, cache) = IF active THEN "served" ELSE "403")
=============================================================================
