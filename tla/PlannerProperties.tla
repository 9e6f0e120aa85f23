-------------------------- MODULE PlannerProperties --------------------------
(***************************************************************************)
(* What the idempotent planner promises: the type invariant, the safety    *)
(* invariants and the liveness property of module PlannerOperation, and    *)
(* its refinement of the plan ledger.                                      *)
(***************************************************************************)
EXTENDS PlannerOperation

-----------------------------------------------------------------------------
\* Invariants

\* Every variable ranges over the values the schema and the handlers declare.
TypeOK ==
  /\ now \in Nat
  /\ ledger \in [Operation -> Row]
  /\ \A o \in Operation : ledger[o].state # "none" => ledger[o].request \in Request
  /\ latest \in [Operation -> Nat]
  /\ rows \subseteq [plan : Operation, no : Nat, by : Operation]
  /\ receipts \in [Operation -> SUBSET {"planner", "gemini"}]
  /\ calls \in [Operation -> Nat]
  /\ handler \in [Handler -> [step : Step, op : Operation \cup {None}, code : Code \cup {None}]]
  /\ \A h \in Handler : handler[h].step # "idle" => handler[h].op \in Operation
  /\ told \in [Operation -> SUBSET Answer]

\* A key has one outcome: however often a request is sent, whichever handler
\* answers and whatever replies are lost, every decided answer a browser has got
\* for a key is the one in the ledger. In particular "interrupted" is never told
\* of an operation that has been, or will be, committed.
TerminalAnswersAgree ==
  \A o \in Operation : \A answer \in told[o] :
    answer.state \in Terminal => answer = Outcome(o)

\* A key writes what its outcome says: a completed operation has written exactly
\* the revision it reports, in the plan its request names, and one that is open,
\* rejected or interrupted has written nothing.
PersistedOnce ==
  \A o \in Operation :
    {x \in rows : x.by = o} =
      IF ledger[o].state = "completed"
      THEN {[plan |-> PlanOf(o), no |-> ledger[o].revision, by |-> o]}
      ELSE {}

\* Racing refinements never fork a plan nor leave a gap in it: its revisions are
\* numbered from 1 to its latest, one each, the first written by the operation
\* that created it, every other by a refinement of its predecessor, all of them
\* by its owner.
RevisionChain ==
  \A p \in Operation :
    LET own == {x \in rows : x.plan = p} IN
    /\ {x.no : x \in own} = 1..latest[p]
    /\ Cardinality(own) = latest[p]
    /\ \A x \in own : /\ Owner[x.by] = Owner[p]
                      /\ x.no = 1 <=> x.by = p
                      /\ x.no > 1 => /\ Target[RequestOf(x.by)] = p
                                     /\ Base[RequestOf(x.by)] = x.no - 1

\* The provider is asked at most once under a key, and only after the quota for it
\* was reserved, even when the key is sent again after a crash or a timeout.
ProviderCalledOnce ==
  \A o \in Operation :
    /\ calls[o] <= 1
    /\ calls[o] = 1 => receipts[o] = {"planner", "gemini"}

-----------------------------------------------------------------------------
\* Liveness

\* A claimed key does not stay claimed for ever, even when the handler that holds
\* its lease has died: it is completed, rejected or interrupted.
ClaimedSettles ==
  \A o \in Operation :
    ledger[o].state = "claimed" ~> ledger[o].state \in Terminal

-----------------------------------------------------------------------------
\* Refinement

Ledger == INSTANCE PlanLedger WITH
            outcome <- [o \in Operation |-> IF ledger[o].state = "claimed"
                                            THEN "open" ELSE ledger[o].state]

\* Every step of the planner is a step of the plan ledger or none of it.
RefinesPlanLedger == Ledger!Spec

-----------------------------------------------------------------------------
\* A statement of the project's documents that the code does not keep

\* Operation notes of refine-itinerary: a race returns STALE_REVISION. A handler
\* that answers while it holds the lease, having met a plan that has moved past
\* the base of its request, answers that the revision is stale.
RaceAnswersStale ==
  [][\A h \in Handler :
       LET o == OpOf(h) IN
       (/\ At(h, "ready") /\ handler'[h] = Idle
        /\ LeaseHeld(o)
        /\ latest[PlanOf(o)] > BaseOf(o)
        /\ told' # told)
         => \E answer \in told'[o] : answer.code = "STALE_REVISION"]_vars
=============================================================================
