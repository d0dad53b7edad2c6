----------------------------- MODULE MCBroadcast -----------------------------
(* Two connections that compete for one slot, and one publisher. *)
EXTENDS Broadcast

CONSTANTS k1, k2, q1
=============================================================================
