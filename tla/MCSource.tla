------------------------------ MODULE MCSource ------------------------------
(* Two items, room for one, and a row of somebody else that expires. *)
EXTENDS Source

CONSTANTS k1, k2, init, seen, cache

SeenAndCache == {<<cache, k1>>}
=============================================================================
