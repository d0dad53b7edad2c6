----------------------------- MODULE MCConfigDB -----------------------------
(* Goroutines a1 and a2 on one Store, b1 on the Store of another process. *)
EXTENDS ConfigDB, TLC

CONSTANTS a1, a2, b1, s1, s2, app, yaml, json

OneStore == (a1 :> s1) @@ (a2 :> s1)
TwoStores == (a1 :> s1) @@ (b1 :> s2)
ThreeActors == OneStore @@ TwoStores
=============================================================================
