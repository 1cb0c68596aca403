----------------------------- MODULE MCPreflight -----------------------------
(* Instances of Preflight for TLC. *)
EXTENDS Preflight, TLC

CONSTANTS c1, c2, m1, m2

\* Two calls in one task: a stream that is consumed, and a call made meanwhile;
\* or in two.
OneTask  == c1 :> 1 @@ c2 :> 1
TwoTasks == c1 :> 1 @@ c2 :> 2

MCAsked == c1 :> m1 @@ c2 :> m1

\* One call of every shape, one plain.
MCShapesOf == c1 :> Shapes @@ c2 :> {"plain"}

Policy(known, armed, to) == [known |-> known, armed |-> armed, to |-> to]
MCPolicies ==
  {Policy(Kinds, {"block"}, m2), Policy({"reroute"}, {}, m2),
   Policy({"reroute"}, {"reroute"}, m2), Policy({"reroute"}, {"reroute"}, m1)}
==============================================================================
