----------------------------- MODULE PlanLedger -----------------------------
(***************************************************************************)
(* What the planner promises a customer who may send every request many    *)
(* times: an operation is decided once, a completed one has appended one   *)
(* revision to one plan, and any other has appended nothing.  There are no *)
(* handlers, leases, clock or provider here.                               *)
(***************************************************************************)
EXTENDS Naturals

CONSTANTS
  Operation    \* operation keys; a plan is named by the operation that created it

VARIABLES
  outcome,     \* outcome[o]: "none", "open", or what the operation was decided to
  rows         \* revisions of plans: plan, number, and the operation that wrote it

ledgerVars == <<outcome, rows>>

Init == outcome = [o \in Operation |-> "none"] /\ rows = {}

Open(o) ==
  /\ outcome[o] = "none"
  /\ outcome' = [outcome EXCEPT ![o] = "open"]
  /\ UNCHANGED rows

Numbers(p) == {x.no : x \in {y \in rows : y.plan = p}}

\* The next revision of a plan: the first one of the plan the operation creates,
\* or the successor of a revision no one has succeeded yet.
Append(o, p) ==
  /\ outcome[o] = "open"
  /\ \E n \in {1} \cup {i + 1 : i \in Numbers(p)} :
       /\ n \notin Numbers(p)
       /\ n = 1 => p = o
       /\ rows' = rows \cup {[plan |-> p, no |-> n, by |-> o]}
  /\ outcome' = [outcome EXCEPT ![o] = "completed"]

Close(o) ==
  /\ outcome[o] = "open"
  /\ \E end \in {"rejected", "interrupted"} : outcome' = [outcome EXCEPT ![o] = end]
  /\ UNCHANGED rows

Next ==
  \E o \in Operation :
    \/ Open(o)
    \/ \E p \in Operation : Append(o, p)
    \/ Close(o)

Spec == Init /\ [][Next]_ledgerVars
=============================================================================
