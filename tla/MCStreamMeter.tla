---------------------------- MODULE MCStreamMeter ----------------------------
(* A small instance of StreamMeter for TLC. *)
EXTENDS StreamMeter, TLC

\* A text of two fragments, a call whose arguments come in two, one in one.
Reply     == 0..2
TextFirst == (0 :> "text") @@ (1 :> "call") @@ (2 :> "call")
Lengths   == (0 :> 2) @@ (1 :> 2) @@ (2 :> 1)
=============================================================================
