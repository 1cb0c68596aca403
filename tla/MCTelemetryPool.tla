--------------------------- MODULE MCTelemetryPool ---------------------------
(* Small instances of TelemetryPool for TLC. *)
EXTENDS TelemetryPool, TLC

CONSTANTS main, side, co, far, L, K, a, b, c

\* Two threads, and a coroutine of an event loop.
Mixed == (main :> None) @@ (side :> None) @@ (co :> L)
\* Coroutines of two event loops, each in its own thread.
TwoLoops == (co :> L) @@ (far :> K)

=============================================================================
