----------------------------- MODULE MCPackStream -----------------------------
(* Small instances of PackStream for TLC. *)
EXTENDS PackStream, TLC

CONSTANTS c1, c2, t1, t2

\* Every client uses an API key of the same tenant.
OneTenant == [c \in Clients |-> t1]

\* The second client belongs to another tenant.
TwoTenants == [c \in Clients |-> IF c = c1 THEN t1 ELSE t2]

AllFaults == FaultKinds
NoFaults  == {}

\* The two clients of one tenant are interchangeable (safety runs only).
Alike == Permutations(Clients)
GapOnly   == {"gap", "badDelta"}
===============================================================================
