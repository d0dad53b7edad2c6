------------------------------- MODULE MCVault -------------------------------
(* Two processes with a sealed store, one of them with two goroutines, and   *)
(* one command.                                                              *)
EXTENDS Vault, TLC

CONSTANTS p1, p2, a1, a2, b1, c1

MCProcOf == (a1 :> p1) @@ (a2 :> p1) @@ (b1 :> p2)

MCSymmetry == Permutations({a1, a2})
=============================================================================
