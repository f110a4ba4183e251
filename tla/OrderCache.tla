----------------------------- MODULE OrderCache -----------------------------
(***************************************************************************)
(* What the read API knows of one order: the documents the projection      *)
(* worker writes, the cached view of the order (orders-query.service.ts),  *)
(* and how far its own consumer has passed the events on to the live       *)
(* streams (sse-feeder.service.ts).  The three follow the order's stream   *)
(* independently of each other.                                            *)
(*                                                                         *)
(* getOrder is a cache lookup, a read and a cache write, and requests      *)
(* interleave between them.                                                *)
(***************************************************************************)
EXTENDS Naturals, Sequences

CONSTANTS
  Readers,             \* who asks for the order, one request at a time each
  Outsiders,           \* those with a token of another tenant: the operator's
                       \* names "platform"
  MaxFailures          \* bound: failed requests, lost streams and restarts

ASSUME CacheAssumption == MaxFailures \in Nat /\ Outsiders \subseteq Readers

VARIABLES
  stream,              \* statuses the order went through; version = position
  delivered,           \* its dispatch is over: delivered or failed
  doc, deliveredDoc,   \* the projected version, and the projected dispatch
  fed,                 \* the last version passed on to the streams
  cache,               \* the cached version, 0 if there is none
  get,                 \* for each reader, where its getOrder is
  failures

modelVars == <<stream, delivered, doc, deliveredDoc, fed>>
cacheVars == <<modelVars, cache, get, failures>>

Statuses == {"PLACED", "ACCEPTED", "CANCELLED"}
Version == 0 .. Len(stream)

\* "missed" follows the cache lookup, "read" the query; `view` is the version
\* that was read or answered, 0 for 404.
GetSteps == {"idle", "asked", "missed", "read", "answered", "failed"}

CacheTypeOK ==
  /\ stream \in {<<>>, <<"PLACED">>} \cup {<<"PLACED", s>> : s \in {"ACCEPTED", "CANCELLED"}}
  /\ delivered \in BOOLEAN /\ deliveredDoc \in BOOLEAN
  /\ doc \in Version /\ fed \in Version /\ cache \in 0 .. doc
  /\ get \in [Readers -> [step : GetSteps, view : 0 .. doc]]
  /\ failures \in 0 .. MaxFailures

CacheInit ==
  /\ stream = <<>> /\ delivered = FALSE
  /\ doc = 0 /\ deliveredDoc = FALSE /\ fed = 0
  /\ cache = 0
  /\ get = [r \in Readers |-> [step |-> "idle", view |-> 0]]
  /\ failures = 0

Settled == Len(stream) = 2
Final == stream[2]

-----------------------------------------------------------------------------
(* The order, its dispatch, and the projection of both: OrderSaga, Dispatch *)
(* and Projection say how they come about.                                  *)

Record ==
  \/ /\ \/ stream = <<>> /\ stream' = <<"PLACED">>
        \/ /\ Len(stream) = 1
           /\ \E s \in {"ACCEPTED", "CANCELLED"} : stream' = Append(stream, s)
     /\ UNCHANGED <<delivered, doc, deliveredDoc, fed, cache, get, failures>>
  \/ /\ Settled /\ Final = "ACCEPTED" /\ ~delivered
     /\ delivered' = TRUE
     /\ UNCHANGED <<stream, doc, deliveredDoc, fed, cache, get, failures>>

Project ==
  \/ /\ doc < Len(stream) /\ doc' = doc + 1
     /\ UNCHANGED <<stream, delivered, deliveredDoc, fed, cache, get, failures>>
  \/ /\ deliveredDoc # delivered /\ deliveredDoc' = delivered
     /\ UNCHANGED <<stream, delivered, doc, fed, cache, get, failures>>

-----------------------------------------------------------------------------
(* GET /orders/:orderId.                                                    *)

At(r, step) == get[r].step = step
GoTo(r, step, view) == get' = [get EXCEPT ![r] = [step |-> step, view |-> view]]

\* The cache's key and the document's id both begin with the tenant of the token.
LookUp(r) ==
  /\ At(r, "asked")
  /\ IF cache # 0 /\ r \notin Outsiders THEN GoTo(r, "answered", cache) ELSE GoTo(r, "missed", 0)
  /\ UNCHANGED <<modelVars, cache, failures>>

FindOne(r) ==
  /\ At(r, "missed")
  /\ IF doc = 0 \/ r \in Outsiders THEN GoTo(r, "answered", 0) ELSE GoTo(r, "read", doc)
  /\ UNCHANGED <<modelVars, cache, failures>>

\* The write does not look whether a newer view was cached meanwhile.
FillCache(r) ==
  /\ At(r, "read")
  /\ cache' = get[r].view
  /\ GoTo(r, "answered", get[r].view)
  /\ UNCHANGED <<modelVars, failures>>

Fail(r) ==
  /\ get[r].step \in {"asked", "missed", "read"} /\ failures < MaxFailures
  /\ GoTo(r, "failed", 0)
  /\ failures' = failures + 1
  /\ UNCHANGED <<modelVars, cache>>

\* The ten seconds are over.  (NeverLapses is the form without them.)
NeverLapses == FALSE
Lapse == cache # 0 /\ cache' = 0 /\ UNCHANGED <<modelVars, get, failures>>

GetOrder(r) == LookUp(r) \/ FindOne(r) \/ FillCache(r)
=============================================================================
