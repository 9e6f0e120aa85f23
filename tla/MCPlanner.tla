------------------------------ MODULE MCPlanner ------------------------------
(***************************************************************************)
(* A small instance of PlannerOperation: a customer with keys that create  *)
(* a plan and race to refine it, and two requests in flight at a time.     *)
(***************************************************************************)
EXTENDS PlannerProperties, TLC

CONSTANTS a, b, c, c1, h1, h2

MCOwner  == [o \in Operation |-> c1]
MCKind   == [r \in Request |-> IF r = "new" THEN "recommend" ELSE "refine"]
MCTarget == [r \in Request |-> IF r = "new" THEN None ELSE a]
MCBase   == [r \in Request |-> CASE r = "new" -> 0 [] r = "refine1" -> 1 [] OTHER -> 2]

\* Neither the handlers nor the keys that are no one's target are told apart.
Symmetry == Permutations({b, c}) \cup Permutations({h1, h2})
=============================================================================
