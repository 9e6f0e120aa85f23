-------------------------- MODULE PlannerOperation --------------------------
(***************************************************************************)
(* Idempotent planner operations: the ledger of operation keys, the Edge   *)
(* handlers that recommend and refine itineraries under them, and the plan *)
(* revisions they persist.                                                 *)
(*                                                                         *)
(* A browser sends a request under an operation key, any number of times;  *)
(* every delivery runs a handler of its own.  The first one claims the key *)
(* for LeaseTime, reserves quota, asks the ranking provider, and commits   *)
(* or rejects; the others are told what became of it.  A stored procedure  *)
(* is one transaction under the row lock of its key and one action here;   *)
(* between its calls a handler holds no lock, and it may die at any point. *)
(*                                                                         *)
(* A key is scoped to its owner.  The plan a recommendation creates has an *)
(* identifier drawn when its key is claimed, so it is named by its key.  A *)
(* request stands for its canonical digest.  The lease token is drawn with *)
(* the claim and told to the claiming handler only: the handlers past      *)
(* "idle" are those that hold it.                                          *)
(***************************************************************************)
EXTENDS Naturals, FiniteSets

CONSTANTS
  Operation,   \* operation keys (owner_user_id, operation_id)
  Customer,    \* customer accounts
  Owner,       \* Owner[o]: the customer whose key it is
  Request,     \* requests, by digest
  Kind,        \* Kind[r]: "recommend" or "refine"
  Target,      \* Target[r]: the plan a refinement refines, else None
  Base,        \* Base[r]: the revision it refines, else 0
  Handler,     \* deliveries of requests in flight
  GeminiEnabled, \* whether the handlers have a ranking provider
  LeaseTime,   \* length of a claim's lease (60 seconds in the code)
  MaxTime,     \* bound on the clock
  None         \* no value

ASSUME PlannerAssumption ==
  /\ Owner \in [Operation -> Customer]
  /\ Kind \in [Request -> {"recommend", "refine"}]
  /\ Target \in [Request -> Operation \cup {None}]
  /\ Base \in [Request -> Nat]
  /\ \A r \in Request : Kind[r] = "refine" => Target[r] \in Operation /\ Base[r] >= 1
  /\ GeminiEnabled \in BOOLEAN
  /\ LeaseTime \in Nat /\ MaxTime \in Nat
  /\ None \notin Operation \cup Request

VARIABLES
  now,         \* clock_timestamp(), sampled once the row lock is held
  ledger,      \* runtime_planner_operations: state, bound request, lease end, result
  latest,      \* trip_plans.latest_revision_no, 0 when there is no such plan
  rows,        \* trip_plan_revisions: plan, number, and the operation that wrote it
  receipts,    \* quota_reservations made under an operation's two reservation ids
  calls,       \* calls made to the ranking provider for an operation (external)
  handler,     \* where each delivery stands
  told         \* answers that reached the browser, by operation

vars == <<now, ledger, latest, rows, receipts, calls, handler, told>>

Terminal == {"completed", "rejected", "interrupted"}

\* STALE_REVISION apart, one code stands for every refusal of the quota, the catalog,
\* the engine or the validation.
Code == {"STALE_REVISION", "REFUSED"}

Row    == [state : {"none", "claimed"} \cup Terminal, request : Request \cup {None},
           expires : Nat, revision : Nat, code : Code \cup {None}]
NoRow  == [state |-> "none", request |-> None, expires |-> 0, revision |-> 0, code |-> None]
Step   == {"idle", "claimed", "reserved", "prepared", "granted", "calling",
           "ready", "rejecting"}
Idle   == [step |-> "idle", op |-> None, code |-> None]
Answer == [state : Terminal \cup {"unavailable"}, revision : Nat, code : Code \cup {None}]
NoReply == [state |-> "unavailable", revision |-> 0, code |-> None]

RequestOf(o) == ledger[o].request
PlanOf(o)    == IF Kind[RequestOf(o)] = "recommend" THEN o ELSE Target[RequestOf(o)]
BaseOf(o)    == IF Kind[RequestOf(o)] = "recommend" THEN 0 ELSE Base[RequestOf(o)]
Outcome(o)   == [state |-> ledger[o].state, revision |-> ledger[o].revision,
                 code |-> ledger[o].code]

\* Mutated forms, to show that the properties can fail: each stands for a
\* plausible mistake in the definition named in its comment.
HeldWhileClaimed(o) ==             \* LeaseHeld: the lease is not read again
  ledger[o].state \in {"claimed", "interrupted"}
LeaseIgnored(o) == FALSE           \* LeaseOver: a claim never looks at the lease
ReclaimInterrupted(o) ==           \* Unclaimed: an interrupted key is claimed again
  ledger[o].state \in {"none", "interrupted"}
PersistUnchecked(p, n, o) ==       \* Persist: no compare-and-set, no unique key
  /\ rows' = rows \cup {[plan |-> p, no |-> n + 1, by |-> o]}
  /\ latest' = [latest EXCEPT ![p] = n + 1]

\* now >= lease_expires_at
LeaseOver(o) == ledger[o].state = "claimed" /\ now >= ledger[o].expires
LeaseHeld(o) == ledger[o].state = "claimed" /\ now < ledger[o].expires

-----------------------------------------------------------------------------

Init ==
  /\ now = 0
  /\ ledger = [o \in Operation |-> NoRow]
  /\ latest = [o \in Operation |-> 0]
  /\ rows = {}
  /\ receipts = [o \in Operation |-> {}]
  /\ calls = [o \in Operation |-> 0]
  /\ handler = [h \in Handler |-> Idle]
  /\ told = [o \in Operation |-> {}]

Tick ==
  /\ now < MaxTime
  /\ now' = now + 1
  /\ UNCHANGED <<ledger, latest, rows, receipts, calls, handler, told>>

-----------------------------------------------------------------------------
\* claim_runtime_planner_operation.  A delivery with another request than the
\* bound one is told of a conflict, one during the lease that the operation is in
\* progress, and one that refines a plan its owner does not have is refused:
\* none of them changes any state.

Unclaimed(o) == ledger[o].state = "none"

Claim(h, o, r) ==
  /\ handler[h] = Idle
  /\ Unclaimed(o)
  /\ Kind[r] = "refine" => latest[Target[r]] > 0 /\ Owner[Target[r]] = Owner[o]
  /\ now + LeaseTime <= MaxTime
  /\ ledger' = [ledger EXCEPT ![o] =
                  [state |-> "claimed", request |-> r, expires |-> now + LeaseTime,
                   revision |-> 0, code |-> None]]
  /\ handler' = [handler EXCEPT ![h] = [step |-> "claimed", op |-> o, code |-> None]]
  /\ UNCHANGED <<now, latest, rows, receipts, calls, told>>

\* What the transaction decided reaches the browser, or its reply is lost.
Tell(o, answer) == told' \in {told, [told EXCEPT ![o] = @ \cup {answer}]}

InterruptAsExpired(o) ==           \* a mutated form of Interrupt: no such state
  /\ ledger' = [ledger EXCEPT ![o].state = "expired"]
  /\ Tell(o, [Outcome(o) EXCEPT !.state = "interrupted"])

Interrupt(o) ==
  /\ ledger' = [ledger EXCEPT ![o].state = "interrupted"]
  /\ Tell(o, [Outcome(o) EXCEPT !.state = "interrupted"])

ClaimOverdue(o) ==
  /\ LeaseOver(o)
  /\ Interrupt(o)
  /\ UNCHANGED <<now, latest, rows, receipts, calls, handler>>

ClaimDecided(o) ==
  /\ ledger[o].state \in Terminal
  /\ told' = [told EXCEPT ![o] = @ \cup {Outcome(o)}]
  /\ UNCHANGED <<now, ledger, latest, rows, receipts, calls, handler>>

-----------------------------------------------------------------------------
\* A claiming handler between its calls

At(h, step) == handler[h].step = step
OpOf(h)     == handler[h].op
Goto(h, step, code) ==
  handler' = [handler EXCEPT ![h].step = step, ![h].code = code]

\* It dies, times out, loses a reply, or meets a failure it takes for ambiguous
\* and answers that the service is unavailable: the browser learns nothing, the
\* ledger nothing either.
GiveUp(h) ==
  /\ handler[h] # Idle
  /\ handler' = [handler EXCEPT ![h] = Idle]
  /\ UNCHANGED <<now, ledger, latest, rows, receipts, calls, told>>

\* reserve_ai_quota under the reservation id drawn with the claim: the quota is
\* spent for good, or exhausted.
ReserveQuota(h, from, kind, to) ==
  /\ At(h, from)
  /\ \/ /\ Goto(h, to, None)
        /\ receipts' = [receipts EXCEPT ![OpOf(h)] = @ \cup {kind}]
     \/ /\ Goto(h, "rejecting", "REFUSED")
        /\ UNCHANGED receipts
  /\ UNCHANGED <<now, ledger, latest, rows, calls, told>>

ReservePlannerQuota(h) == ReserveQuota(h, "claimed", "planner", "reserved")

\* resolveEngineInput or prepareRefinement: the revision number is read without
\* a lock and compared with the base of the request.
Prepare(h) ==
  /\ At(h, "reserved")
  /\ \/ /\ latest[PlanOf(OpOf(h))] = BaseOf(OpOf(h))
        /\ Goto(h, "prepared", None)
     \/ /\ latest[PlanOf(OpOf(h))] # BaseOf(OpOf(h))
        /\ Goto(h, "rejecting", "STALE_REVISION")
     \/ Goto(h, "rejecting", "REFUSED")
  /\ UNCHANGED <<now, ledger, latest, rows, receipts, calls, told>>

\* The engine ranks its candidates with the provider, at most once in a run and
\* once the quota for it is reserved. The two calls are not one transaction.
ReserveGeminiQuota(h) ==
  /\ GeminiEnabled
  /\ ReserveQuota(h, "prepared", "gemini", "granted")

CallProvider(h) ==
  /\ At(h, "granted")
  /\ Goto(h, "calling", None)
  /\ calls' = [calls EXCEPT ![OpOf(h)] = @ + 1]
  /\ UNCHANGED <<now, ledger, latest, rows, receipts, told>>

\* It validates the proposal, ranked by the provider or, when there is none or its
\* answer is unusable, by itself.
Propose(h) ==
  /\ At(h, "calling") \/ At(h, "prepared")
  /\ \/ Goto(h, "ready", None)
     \/ Goto(h, "rejecting", "REFUSED")
  /\ UNCHANGED <<now, ledger, latest, rows, receipts, calls, told>>

-----------------------------------------------------------------------------
\* persist_trip_plan_revision, under the lock of the plan: the owner is the
\* customer's own, compare-and-set on the latest number, and the unique key of
\* the revision.
Persist(p, n, o) ==
  /\ Owner[p] = Owner[o]
  /\ latest[p] = n
  /\ ~ \E x \in rows : x.plan = p /\ x.no = n + 1
  /\ rows' = rows \cup {[plan |-> p, no |-> n + 1, by |-> o]}
  /\ latest' = [latest EXCEPT ![p] = n + 1]

\* complete_runtime_recommendation, complete_runtime_refinement and
\* reject_runtime_planner_operation share their head: a decided operation is
\* answered as decided, an overdue one is interrupted.

AnswerDecided(h) ==
  /\ At(h, "ready") \/ At(h, "rejecting")
  /\ ledger[OpOf(h)].state \in Terminal
  /\ Tell(OpOf(h), Outcome(OpOf(h)))
  /\ handler' = [handler EXCEPT ![h] = Idle]
  /\ UNCHANGED <<now, ledger, latest, rows, receipts, calls>>

OverdueOncePersisted(h) ==         \* a mutated form of AnswerOverdue: the revision
  LET o == OpOf(h) IN              \* is written before the lease is looked at
  /\ At(h, "ready")
  /\ LeaseOver(o)
  /\ Persist(PlanOf(o), BaseOf(o), o)
  /\ Interrupt(o)
  /\ handler' = [handler EXCEPT ![h] = Idle]
  /\ UNCHANGED <<now, receipts, calls>>

AnswerOverdue(h) ==
  /\ At(h, "ready") \/ At(h, "rejecting")
  /\ LeaseOver(OpOf(h))
  /\ Interrupt(OpOf(h))
  /\ handler' = [handler EXCEPT ![h] = Idle]
  /\ UNCHANGED <<now, latest, rows, receipts, calls>>

Complete(h) ==
  LET o == OpOf(h)
      done == [state |-> "completed", revision |-> BaseOf(o) + 1, code |-> None] IN
  /\ At(h, "ready")
  /\ LeaseHeld(o)
  /\ Persist(PlanOf(o), BaseOf(o), o)
  /\ ledger' = [ledger EXCEPT ![o].state = "completed", ![o].revision = BaseOf(o) + 1]
  /\ Tell(o, done)
  /\ handler' = [handler EXCEPT ![h] = Idle]
  /\ UNCHANGED <<now, receipts, calls>>

\* The plan has moved on since Prepare: persist raises STALE_REVISION, the
\* transaction rolls back, and the handler answers that the service is unavailable.
CompleteRefused(h) ==
  LET o == OpOf(h) IN
  /\ At(h, "ready")
  /\ LeaseHeld(o)
  /\ latest[PlanOf(o)] # BaseOf(o)
  /\ told' = [told EXCEPT ![o] = @ \cup {NoReply}]
  /\ handler' = [handler EXCEPT ![h] = Idle]
  /\ UNCHANGED <<now, ledger, latest, rows, receipts, calls>>

Reject(h) ==
  LET o == OpOf(h) IN
  /\ At(h, "rejecting")
  /\ LeaseHeld(o)
  /\ ledger' = [ledger EXCEPT ![o].state = "rejected", ![o].code = handler[h].code]
  /\ Tell(o, [state |-> "rejected", revision |-> 0, code |-> handler[h].code])
  /\ handler' = [handler EXCEPT ![h] = Idle]
  /\ UNCHANGED <<now, latest, rows, receipts, calls>>

-----------------------------------------------------------------------------

Next ==
  \/ Tick
  \/ \E o \in Operation :
       \/ \E h \in Handler, r \in Request : Claim(h, o, r)
       \/ ClaimOverdue(o)
       \/ ClaimDecided(o)
  \/ \E h \in Handler :
       \/ ReservePlannerQuota(h)
       \/ Prepare(h)
       \/ ReserveGeminiQuota(h)
       \/ CallProvider(h)
       \/ Propose(h)
       \/ AnswerDecided(h)
       \/ AnswerOverdue(h)
       \/ Complete(h)
       \/ CompleteRefused(h)
       \/ Reject(h)
       \/ GiveUp(h)

Spec == Init /\ [][Next]_vars

\* Time passes, and the browser that holds a pending operation asks again after it.
Fairness ==
  /\ WF_vars(Tick)
  /\ \A o \in Operation : WF_vars(ClaimOverdue(o))

FairSpec == Spec /\ Fairness
=============================================================================
