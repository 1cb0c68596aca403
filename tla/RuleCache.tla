------------------------------- MODULE RuleCache -------------------------------
(***************************************************************************)
(* What the local evaluator is promised about the rules it reads: nothing, *)
(* or every change its tenant had published by some version, and never an  *)
(* older version than one it was given before.  How the rules get there,   *)
(* and which failures take them away for a while, is not said here.        *)
(***************************************************************************)
EXTENDS Naturals

CONSTANT None   \* no rules to evaluate: the caller asks the service instead

VARIABLES
  published,    \* the newest version the tenant has published
  rules,        \* the changes an evaluator is given, or None
  floor         \* the newest version an evaluator was ever given

vars == <<published, rules, floor>>

Init == published = 0 /\ rules = None /\ floor = 0

Publish ==
  /\ published' = published + 1
  /\ UNCHANGED <<rules, floor>>

\* The evaluator is given a version it has not left behind yet.
Adopt(v) ==
  /\ rules' = 1 .. v
  /\ floor' = v
  /\ UNCHANGED published

\* The rules are withdrawn: poisoned or expired.
Withdraw ==
  /\ rules' = None
  /\ UNCHANGED <<published, floor>>

Next == Publish \/ Withdraw \/ \E v \in floor .. published : Adopt(v)

Spec == Init /\ [][Next]_vars
===============================================================================
