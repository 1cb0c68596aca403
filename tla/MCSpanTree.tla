----------------------------- MODULE MCSpanTree ------------------------------
(* Small instances of SpanTree for TLC. *)
EXTENDS SpanTree, TLC

CONSTANTS t1, t2, s1, s2, s3, s4

\* How many of the spans are of a kind.
Count(k, kind) == Cardinality({s \in Spans : k[s] = kind})

\* Three spans of any kinds; or a model span with three frames; or a scope, a tool
\* and two calls without a span.
Few   == {k \in [Spans -> AllKinds \union {None}] : Count(k, None) = Cardinality(Spans) - 3}
Trees == {k \in [Spans -> {"frame", "llm"}] : Count(k, "llm") = 1}
Turns == {k \in [Spans -> {"scope", "tool", "manual"}] :
            \A kind \in {"scope", "tool"} : Count(k, kind) = 1}
Mixes == Few \union Trees \union Turns
ToolsOnly  == {"x"}
TwoTools   == {"x", "y"}
SomeAsked  == {<<>>, <<"x", "y", "x">>}

\* Spans differ only by what they are.
Alike == Permutations(Spans)
==============================================================================
