---------------------------- MODULE MCConfigStore ----------------------------
(* Two callers, of one process or of two, that reconcile the same home. *)
EXTENDS ConfigStore, TLC

CONSTANTS c1, c2, app, peer, yaml, json
=============================================================================
