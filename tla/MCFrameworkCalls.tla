-------------------------- MODULE MCFrameworkCalls ---------------------------
(* Small instances of FrameworkCalls for TLC. *)
EXTENDS FrameworkCalls, TLC

CONSTANTS a, b, d

Everything == AllKinds
Nothing    == {}

\* Kinds whose wrapper has taken nothing yet when the stream is returned, or
\* gives it back when the stream is collected.
Harmless == AllKinds \ {"llamaindex", "liAsync", "pydantic"}

LiteAndPlain  == {"litellm", "modea"}
LlamaAndPlain == {"llamaindex", "modea"}

\* Calls differ only by what they do.
Alike == Permutations(Calls)
=============================================================================
