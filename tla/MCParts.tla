------------------------------ MODULE MCParts ------------------------------
(***************************************************************************)
(* Six small parts of the system, of which no two share more than the      *)
(* orders of OrderStage: the customer's pages and the merchant's sheet,    *)
(* each of which has in its steps whatever the other may do to an order,   *)
(* the signing keys, the tenant catalog, the telemetry plane and the       *)
(* boards' figures.  A behaviour of them all is an interleaving of one of  *)
(* each, and a property of one is decided by its own steps: TLC explores   *)
(* them one at a time.                                                     *)
(***************************************************************************)
EXTENDS Checkout, OrderSheet, SigningKeys, TenantCatalog, DriverPosition, Panel

VARIABLE watched        \* the part whose steps are explored

vars == <<orderVars, checkoutVars, sheetVars, keyVars, catalogVars, positionVars,
          panelVars, watched>>

Parts == {"customer", "merchant", "keys", "catalog", "position", "panel"}

\* Any tenant's board will do: they differ in name only.
OneTenant == CHOOSE t \in Tenants : TRUE
OneSku == CHOOSE s \in Goods : TRUE

Init ==
  /\ StageInit /\ CheckoutInit /\ SheetInit /\ KeysInit /\ CatalogInit
  /\ PositionInit /\ PanelInit
  /\ watched \in Parts
  /\ watched # "catalog" => active
  /\ viewer \in {Operator, OneTenant} /\ (watched # "panel" => viewer = Operator)

\* A step of the part p, whose variables `rest` leaves out.
Of(p, A, rest) == watched = p /\ A /\ UNCHANGED <<rest, watched>>

others == <<keyVars, catalogVars, positionVars, panelVars>>
CatalogStep(A) ==
  Of("catalog", A, <<orderVars, checkoutVars, sheetVars, keyVars, positionVars, panelVars>>)
PositionStep(A) ==
  Of("position", A, <<orderVars, checkoutVars, sheetVars, keyVars, catalogVars, panelVars>>)

Next ==
  \/ Of("customer", CheckoutNext, <<sheetVars, others>>)
  \/ Of("merchant", SheetNext, <<checkoutVars, others>>)
  \/ Of("keys", KeysNext, <<orderVars, checkoutVars, sheetVars, catalogVars,
                            positionVars, panelVars>>)
  \/ Of("panel", PanelNext, <<orderVars, checkoutVars, sheetVars, keyVars, catalogVars,
                              positionVars>>)
  \/ CatalogStep(CatalogNext)
  \/ PositionStep(PositionNext)

Fairness ==
  /\ WF_vars(CatalogStep(Lapse))
  /\ \A r \in Requests : WF_vars(CatalogStep(Read(r) \/ Fill(r)))
  /\ WF_vars(PositionStep(ApplyTelemetry)) /\ WF_vars(PositionStep(Tick))

Spec == Init /\ [][Next]_vars /\ Fairness

\* For TLC.  Of cases that differ in names only one: orders are placed in order, a
\* read of the sheet is in the first free slot, and the first order of a board is of
\* one SKU and, for the operator, of one tenant.  A read whose answer is no longer awaited ends
\* before anything else happens, as nobody can notice when it does.
Unawaited(s) == read[s].step # "idle" /\ ~read[s].active
FirstFree == CHOOSE s \in Slots : read[s].step = "idle"

Canonical ==
  /\ watched = "merchant" =>
       /\ \A o \in Orders \ {1} : stage'[o] # "none" => stage[o - 1] # "none"
       /\ \A s \in Slots :
            /\ Unawaited(s) => read'[s].step = "idle"
            /\ read[s].step = "idle" /\ read'[s].step = "asked" => s = FirstFree
  /\ docs = <<>> /\ docs' # <<>> =>
       docs'[1].sku = OneSku /\ (viewer = Operator => docs'[1].tenant = OneTenant)

MCSpec == Init /\ [][Next /\ Canonical]_vars /\ Fairness

\* What the checkout sends is an order that the write API takes, and nobody is
\* charged for one they were not told of (of the orders whose customer is watched).
CheckoutIsSound == SentIsValid /\ (watched = "customer" => OnlyToldIsCharged)
=============================================================================
