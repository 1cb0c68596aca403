---------------------------- MODULE MCMeteredCalls ----------------------------
(* Small instances of MeteredCalls for TLC. *)
EXTENDS MeteredCalls, TLC

CONSTANTS a, b, d

Everything    == AllKinds
LangChainOnly == {"lcCall", "lcStream"}
PlainOnly     == {"plain"}
ModeAOnly     == ModeA
Nothing       == {}

\* Calls differ only by what they do.
Alike == Permutations(Calls)
===============================================================================
