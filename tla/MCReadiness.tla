---------------------------- MODULE MCReadiness ----------------------------
(***************************************************************************)
(* Readiness for three services in the order of app.go, one with a timeout *)
(* shorter than the handler's, one with a longer one and one with none.    *)
(***************************************************************************)
EXTENDS Readiness, TLC

CONSTANTS catalog, auth, cart

MCServices   == {catalog, auth, cart}
MCCheckers   == <<catalog, auth, cart>>
MCConfigured == (catalog :> 2) @@ (auth :> 0) @@ (cart :> 5)
=============================================================================
