----------------------------- MODULE MCDuckHandle -----------------------------
(* Small instances of DuckHandle: which goroutine works on which Handle of *)
(* which process.                                                          *)
EXTENDS DuckHandle, TLC

CONSTANTS p1, p2, h1, h2, h3, c1, c2, c3, f1

\* Two processes with a Handle each, two goroutines on the first one.
TwoProcs == (h1 :> p1) @@ (h2 :> p2)
TwoProcsOneFencer == TwoProcs @@ (f1 :> p2)
BusyFirst == (c1 :> h1) @@ (c2 :> h1) @@ (c3 :> h2)
BothFirst == (c1 :> h1) @@ (c2 :> h1)
OneProcAndFencer == (h1 :> p1) @@ (f1 :> p2)

\* Two Handles on the same path in one process, a third in another process.
SharedInOne == (h1 :> p1) @@ (h2 :> p1) @@ (h3 :> p2)
OnePerHandle == (c1 :> h1) @@ (c2 :> h2) @@ (c3 :> h3)
=============================================================================
