---------------------------- MODULE PlannerProofs ----------------------------
(***************************************************************************)
(* Proofs about module PlannerOperation, for every set of keys, requests   *)
(* and handlers and every lease: its types, what a key is told and what it *)
(* writes, and that it implements the plan ledger.                         *)
(***************************************************************************)
EXTENDS PlannerProperties, FiniteSetTheorems, TLAPS

-----------------------------------------------------------------------------
\* Type correctness

\* The initial rows are of the declared types.
LEMMA TypeInit == Init => TypeOK
BY DEF Init, TypeOK, NoRow, Idle, Row, Step

\* What a transaction says of an operation is of the type of an answer.
LEMMA OutcomeIsAnswer ==
  ASSUME TypeOK, NEW o \in Operation, ledger[o].state \in Terminal
  PROVE  Outcome(o) \in Answer
BY DEF TypeOK, Outcome, Answer, Row, Terminal

\* Telling an answer keeps the type of what was told.
LEMMA TellType ==
  ASSUME TypeOK, NEW o \in Operation, NEW answer \in Answer, Tell(o, answer)
  PROVE  told' \in [Operation -> SUBSET Answer]
BY DEF TypeOK, Tell

\* Interrupting an operation keeps the types of the ledger and of what was told.
LEMMA InterruptType ==
  ASSUME TypeOK, NEW o \in Operation, LeaseOver(o), Interrupt(o)
  PROVE  /\ ledger' \in [Operation -> Row]
         /\ \A p \in Operation : ledger'[p].state # "none" => ledger'[p].request \in Request
         /\ told' \in [Operation -> SUBSET Answer]
<1>1. [Outcome(o) EXCEPT !.state = "interrupted"] \in Answer
  BY DEF TypeOK, Outcome, Answer, Row, Terminal
<1>2. told' \in [Operation -> SUBSET Answer]
  BY <1>1, TellType DEF Interrupt
<1> QED
  BY <1>2, ZenonT(30) DEF TypeOK, Interrupt, LeaseOver, Row, Terminal

\* The plan and the base of a claimed request are a plan and a number.
LEMMA PlanAndBaseType ==
  ASSUME TypeOK, NEW o \in Operation, ledger[o].state # "none"
  PROVE  /\ RequestOf(o) \in Request
         /\ PlanOf(o) \in Operation
         /\ BaseOf(o) \in Nat
         /\ BaseOf(o) = 0 => PlanOf(o) = o
<1>1. RequestOf(o) \in Request
  BY DEF TypeOK, RequestOf
<1> QED
  BY <1>1, PlannerAssumption DEF PlanOf, BaseOf

\* No procedure and no handler writes a value of another type.
LEMMA TypeStep == TypeOK /\ [Next]_vars => TypeOK'
<1> SUFFICES ASSUME TypeOK, [Next]_vars PROVE TypeOK'
  OBVIOUS
<1> USE DEF Step, Code
<1>1. CASE Tick
  BY <1>1 DEF TypeOK, Tick
<1>2. ASSUME NEW o \in Operation, NEW h \in Handler, NEW r \in Request, Claim(h, o, r)
      PROVE  TypeOK'
  <2>1. /\ ledger' \in [Operation -> Row]
        /\ \A p \in Operation : ledger'[p].state # "none" => ledger'[p].request \in Request
    <3> DEFINE row == [state |-> "claimed", request |-> r, expires |-> now + LeaseTime,
                       revision |-> 0, code |-> None]
    <3>1. now + LeaseTime \in Nat
      BY PlannerAssumption DEF TypeOK
    <3>2. row \in Row /\ row.request = r
      BY <3>1 DEF Row
    <3>3. ledger' = [ledger EXCEPT ![o] = row]
      BY <1>2 DEF Claim
    <3> QED
      BY <3>2, <3>3 DEF TypeOK
  <2>2. /\ handler' \in [Handler -> [step : Step, op : Operation \cup {None}, code : Code \cup {None}]]
        /\ \A g \in Handler : handler'[g].step # "idle" => handler'[g].op \in Operation
    BY <1>2 DEF TypeOK, Claim
  <2> QED
    BY <1>2, <2>1, <2>2 DEF TypeOK, Claim
<1>3. ASSUME NEW o \in Operation, ClaimOverdue(o) PROVE TypeOK'
  BY <1>3, InterruptType DEF TypeOK, ClaimOverdue
<1>4. ASSUME NEW o \in Operation, ClaimDecided(o) PROVE TypeOK'
  BY <1>4, OutcomeIsAnswer DEF TypeOK, ClaimDecided
<1>5. ASSUME NEW h \in Handler, ReservePlannerQuota(h) PROVE TypeOK'
  BY <1>5, SMTT(30) DEF TypeOK, ReservePlannerQuota, ReserveQuota, Goto, At, OpOf
<1>6. ASSUME NEW h \in Handler, Prepare(h) PROVE TypeOK'
  BY <1>6 DEF TypeOK, Prepare, Goto, At
<1>7. ASSUME NEW h \in Handler, ReserveGeminiQuota(h) \/ CallProvider(h) PROVE TypeOK'
  <2>1. CASE ReserveGeminiQuota(h)
    <3>1. OpOf(h) \in Operation
      BY <2>1 DEF TypeOK, ReserveGeminiQuota, ReserveQuota, At, OpOf
    <3>2. receipts' \in [Operation -> SUBSET {"planner", "gemini"}]
      BY <2>1, <3>1 DEF TypeOK, ReserveGeminiQuota, ReserveQuota
    <3> QED
      BY <2>1, <3>2 DEF TypeOK, ReserveGeminiQuota, ReserveQuota, Goto, At
  <2>2. CASE CallProvider(h)
    <3>1. OpOf(h) \in Operation
      BY <2>2 DEF TypeOK, CallProvider, At, OpOf
    <3>2. calls' \in [Operation -> Nat]
      BY <2>2, <3>1 DEF TypeOK, CallProvider
    <3> QED
      BY <2>2, <3>2, ZenonT(30) DEF TypeOK, CallProvider, Goto, At
  <2> QED
    BY <1>7, <2>1, <2>2
<1>8. ASSUME NEW h \in Handler, Propose(h) PROVE TypeOK'
  <2>1. handler[h].step # "idle"
    BY <1>8 DEF Propose, At
  <2>2. \E step \in {"ready", "rejecting"}, code \in Code \cup {None} : Goto(h, step, code)
    BY <1>8 DEF Propose
  <2> QED
    BY <1>8, <2>1, <2>2 DEF TypeOK, Propose, Goto
<1>9. ASSUME NEW h \in Handler, AnswerDecided(h) PROVE TypeOK'
  <2>1. OpOf(h) \in Operation
    BY <1>9 DEF TypeOK, AnswerDecided, At, OpOf
  <2>2. told' \in [Operation -> SUBSET Answer]
    BY <1>9, <2>1, OutcomeIsAnswer, TellType DEF AnswerDecided
  <2> QED
    BY <1>9, <2>2 DEF TypeOK, AnswerDecided, Idle
<1>10. ASSUME NEW h \in Handler, AnswerOverdue(h) PROVE TypeOK'
  <2>1. OpOf(h) \in Operation
    BY <1>10 DEF TypeOK, AnswerOverdue, At, OpOf
  <2> QED
    BY <1>10, <2>1, InterruptType DEF TypeOK, AnswerOverdue, Idle
<1>11. ASSUME NEW h \in Handler, Complete(h) PROVE TypeOK'
  <2> DEFINE o == OpOf(h)
             done == [state |-> "completed", revision |-> BaseOf(o) + 1, code |-> None]
  <2>1. o \in Operation /\ LeaseHeld(o) /\ Tell(o, done)
    BY <1>11 DEF TypeOK, Complete, At, OpOf
  <2>2. PlanOf(o) \in Operation /\ BaseOf(o) \in Nat
    BY <2>1, PlanAndBaseType DEF LeaseHeld
  <2>3. told' \in [Operation -> SUBSET Answer]
    <3>1. done \in Answer
      BY <2>2 DEF Answer, Terminal
    <3> QED
      BY <2>1, <3>1, TellType
  <2>4. /\ ledger' \in [Operation -> Row]
        /\ \A p \in Operation : ledger'[p].state # "none" => ledger'[p].request \in Request
    <3>1. ledger[o] \in Row /\ ledger[o].request \in Request
      BY <2>1 DEF TypeOK, LeaseHeld
    <3>2. ledger' = [ledger EXCEPT ![o] = [ledger[o] EXCEPT !.state = "completed",
                                                            !.revision = BaseOf(o) + 1]]
      BY <1>11 DEF Complete
    <3>3. BaseOf(o) + 1 \in Nat
      BY <2>2
    <3> HIDE DEF o
    <3>4. /\ [ledger[o] EXCEPT !.state = "completed", !.revision = BaseOf(o) + 1] \in Row
          /\ [ledger[o] EXCEPT !.state = "completed", !.revision = BaseOf(o) + 1].request
               \in Request
      BY <3>1, <3>3 DEF Row, Terminal
    <3> QED
      BY <2>1, <3>2, <3>4 DEF TypeOK
  <2>5. latest' \in [Operation -> Nat] /\ rows' \subseteq [plan : Operation, no : Nat, by : Operation]
    BY <1>11, <2>1, <2>2 DEF TypeOK, Complete, Persist
  <2> QED
    BY <1>11, <2>3, <2>4, <2>5 DEF TypeOK, Complete, Idle
<1>12. ASSUME NEW h \in Handler, CompleteRefused(h) PROVE TypeOK'
  <2>1. NoReply \in Answer
    BY DEF NoReply, Answer
  <2> QED
    BY <1>12, <2>1 DEF TypeOK, CompleteRefused, Idle
<1>13. ASSUME NEW h \in Handler, Reject(h) PROVE TypeOK'
  <2> DEFINE o == OpOf(h)
             answer == [state |-> "rejected", revision |-> 0, code |-> handler[h].code]
  <2>1. o \in Operation /\ LeaseHeld(o) /\ Tell(o, answer)
    BY <1>13 DEF TypeOK, Reject, At, OpOf
  <2>2. told' \in [Operation -> SUBSET Answer]
    <3>1. handler[h].code \in Code \cup {None}
      BY DEF TypeOK
    <3>2. answer \in Answer
      BY <3>1 DEF Answer, Terminal
    <3> QED
      BY <2>1, <3>2, TellType
  <2>3. /\ ledger' \in [Operation -> Row]
        /\ \A p \in Operation : ledger'[p].state # "none" => ledger'[p].request \in Request
    <3>1. ledger[o] \in Row /\ ledger[o].request \in Request
      BY <2>1 DEF TypeOK, LeaseHeld
    <3>2. ledger' = [ledger EXCEPT ![o] = [ledger[o] EXCEPT !.state = "rejected",
                                                            !.code = handler[h].code]]
      BY <1>13 DEF Reject
    <3>3. handler[h].code \in Code \cup {None}
      BY DEF TypeOK
    <3> HIDE DEF o
    <3>4. /\ [ledger[o] EXCEPT !.state = "rejected", !.code = handler[h].code] \in Row
          /\ [ledger[o] EXCEPT !.state = "rejected", !.code = handler[h].code].request \in Request
      BY <3>1, <3>3 DEF Row, Terminal
    <3> QED
      BY <2>1, <3>2, <3>4 DEF TypeOK
  <2> QED
    BY <1>13, <2>2, <2>3 DEF TypeOK, Reject, Idle
<1>14. ASSUME NEW h \in Handler, GiveUp(h) PROVE TypeOK'
  BY <1>14 DEF TypeOK, GiveUp, Idle
<1>15. CASE UNCHANGED vars
  BY <1>15 DEF TypeOK, vars
<1> QED
  BY <1>1, <1>2, <1>3, <1>4, <1>5, <1>6, <1>7, <1>8, <1>9, <1>10, <1>11, <1>12, <1>13,
     <1>14, <1>15
  DEF Next

\* Whatever requests are sent and however handlers die, the ledger, the plans and
\* the handlers stay within their declared types.
THEOREM PlannerTypeCorrect == Spec => []TypeOK
BY TypeInit, TypeStep, PTL DEF Spec

-----------------------------------------------------------------------------
\* What a step does to the ledger and to the plans

Claimed(o) ==
  /\ ledger[o].state = "none"
  /\ \E r \in Request :
       ledger' = [ledger EXCEPT ![o] = [state |-> "claimed", request |-> r,
                    expires |-> now + LeaseTime, revision |-> 0, code |-> None]]
  /\ UNCHANGED <<latest, rows>>

Closed(o) ==
  /\ ledger[o].state = "claimed"
  /\ \E row \in Row :
       /\ row.state \in {"interrupted", "rejected"}
       /\ row.request = ledger[o].request
       /\ ledger' = [ledger EXCEPT ![o] = row]
  /\ UNCHANGED <<latest, rows>>

Committed(o) ==
  /\ ledger[o].state = "claimed"
  /\ Persist(PlanOf(o), BaseOf(o), o)
  /\ ledger' = [ledger EXCEPT ![o] = [ledger[o] EXCEPT !.state = "completed",
                                                       !.revision = BaseOf(o) + 1]]

\* An overdue operation that is interrupted is closed.
LEMMA InterruptCloses ==
  ASSUME TypeOK, NEW o \in Operation, LeaseOver(o), Interrupt(o), UNCHANGED <<latest, rows>>
  PROVE  Closed(o)
<1> DEFINE row == [ledger[o] EXCEPT !.state = "interrupted"]
<1>1. row \in Row /\ row.state = "interrupted" /\ row.request = ledger[o].request
  BY DEF TypeOK, Row, Terminal
<1>2. ledger' = [ledger EXCEPT ![o] = row]
  BY DEF Interrupt
<1> HIDE DEF row
<1> QED
  BY <1>1, <1>2 DEF Closed, LeaseOver

\* A step claims a key, closes an operation without a plan, commits one with its
\* revision, or leaves the ledger and the plans alone.
LEMMA LedgerSteps ==
  ASSUME TypeOK, [Next]_vars
  PROVE  \/ UNCHANGED <<ledger, latest, rows>>
         \/ \E o \in Operation : Claimed(o) \/ Closed(o) \/ Committed(o)
<1> DEFINE Goal == \/ UNCHANGED <<ledger, latest, rows>>
                   \/ \E o \in Operation : Claimed(o) \/ Closed(o) \/ Committed(o)
<1>1. CASE Tick
  BY <1>1 DEF Tick
<1>2. ASSUME NEW o \in Operation, NEW h \in Handler, NEW r \in Request, Claim(h, o, r)
      PROVE  Goal
  BY <1>2 DEF Claim, Unclaimed, Claimed
<1>3. ASSUME NEW o \in Operation, ClaimOverdue(o) PROVE Goal
  BY <1>3, InterruptCloses DEF ClaimOverdue
<1>4. ASSUME NEW o \in Operation, ClaimDecided(o) PROVE Goal
  BY <1>4 DEF ClaimDecided
<1>5. ASSUME NEW h \in Handler,
             \/ ReservePlannerQuota(h) \/ ReserveGeminiQuota(h) \/ Prepare(h)
             \/ CallProvider(h) \/ Propose(h)
             \/ AnswerDecided(h) \/ CompleteRefused(h) \/ GiveUp(h)
      PROVE  Goal
  BY <1>5 DEF ReservePlannerQuota, ReserveGeminiQuota, ReserveQuota, Prepare, CallProvider, Propose,
              AnswerDecided, CompleteRefused, GiveUp
<1>6. ASSUME NEW h \in Handler, AnswerOverdue(h) PROVE Goal
  <2>1. OpOf(h) \in Operation
    BY <1>6 DEF TypeOK, AnswerOverdue, At, OpOf
  <2> QED
    BY <1>6, <2>1, InterruptCloses DEF AnswerOverdue
<1>7. ASSUME NEW h \in Handler, Complete(h) PROVE Goal
  <2>1. OpOf(h) \in Operation
    BY <1>7 DEF TypeOK, Complete, At, OpOf
  <2>2. Committed(OpOf(h))
    BY <1>7 DEF Complete, LeaseHeld, Committed
  <2> QED
    BY <2>1, <2>2
<1>8. ASSUME NEW h \in Handler, Reject(h) PROVE Goal
  <2> DEFINE o == OpOf(h)
             row == [ledger[o] EXCEPT !.state = "rejected", !.code = handler[h].code]
  <2>1. o \in Operation /\ LeaseHeld(o)
    BY <1>8 DEF TypeOK, Reject, At, OpOf
  <2>2. ledger' = [ledger EXCEPT ![o] = row]
    BY <1>8 DEF Reject
  <2>3. ledger[o] \in Row /\ handler[h].code \in Code \cup {None}
    BY <2>1 DEF TypeOK
  <2> HIDE DEF o
  <2>4. row \in Row /\ row.state = "rejected" /\ row.request = ledger[o].request
    BY <2>3 DEF Row, Terminal
  <2> HIDE DEF row
  <2>5. Closed(o)
    BY <1>8, <2>1, <2>2, <2>4 DEF Closed, LeaseHeld, Reject
  <2> QED
    BY <2>1, <2>5
<1>9. CASE UNCHANGED vars
  BY <1>9 DEF vars
<1> QED
  BY <1>1, <1>2, <1>3, <1>4, <1>5, <1>6, <1>7, <1>8, <1>9 DEF Next

-----------------------------------------------------------------------------
\* What a key writes

\* PersistedOnce is inductive given the types.
LEMMA PersistedInit == Init => PersistedOnce
BY DEF Init, PersistedOnce, NoRow

\* No step writes a revision for an operation that it does not complete, nor two
\* for one.
LEMMA PersistedStep ==
  ASSUME TypeOK, PersistedOnce, [Next]_vars
  PROVE  PersistedOnce'
<1> USE DEF PersistedOnce, PlanOf, RequestOf
<1>1. CASE UNCHANGED <<ledger, latest, rows>>
  BY <1>1
<1>2. ASSUME NEW o \in Operation, Claimed(o) PROVE PersistedOnce'
  BY <1>2 DEF Claimed, TypeOK
<1>3. ASSUME NEW o \in Operation, Closed(o) PROVE PersistedOnce'
  BY <1>3 DEF Closed, TypeOK
<1>4. ASSUME NEW o \in Operation, Committed(o) PROVE PersistedOnce'
  <2> DEFINE new == [plan |-> PlanOf(o), no |-> BaseOf(o) + 1, by |-> o]
             row == [ledger[o] EXCEPT !.state = "completed", !.revision = BaseOf(o) + 1]
  <2>1. rows' = rows \cup {new} /\ new.by = o
    BY <1>4 DEF Committed, Persist
  <2>2. ledger' = [ledger EXCEPT ![o] = row]
    BY <1>4 DEF Committed
  <2>3. /\ row.state = "completed" /\ row.revision = BaseOf(o) + 1
        /\ row.request = ledger[o].request
    BY DEF TypeOK, Row
  <2>4. {x \in rows : x.by = o} = {}
    BY <1>4 DEF Committed
  <2>5. ASSUME NEW p \in Operation PROVE PersistedOnce!(p)'
    <3>1. CASE p = o
      <4>1. PlanOf(o)' = PlanOf(o)
        BY <2>2, <2>3 DEF TypeOK
      <4>2. {x \in rows' : x.by = o} = {new}
        BY <2>1, <2>4
      <4> QED
        BY <2>2, <2>3, <3>1, <4>1, <4>2 DEF TypeOK
    <3>2. CASE p # o
      <4>1. {x \in rows' : x.by = p} = {x \in rows : x.by = p}
        BY <2>1, <3>2
      <4> QED
        BY <2>2, <3>2, <4>1 DEF TypeOK
    <3> QED
      BY <3>1, <3>2
  <2> QED
    BY <2>5
<1> QED
  BY <1>1, <1>2, <1>3, <1>4, LedgerSteps

\* However often a request is sent and wherever its handlers die, a completed
\* operation has written the one revision it reports and any other none.
THEOREM WritesWhatItReports == Spec => []PersistedOnce
<1>1. Init => TypeOK /\ PersistedOnce
  BY TypeInit, PersistedInit
<1>2. TypeOK /\ PersistedOnce /\ [Next]_vars => (TypeOK /\ PersistedOnce)'
  BY TypeStep, PersistedStep
<1> QED
  BY <1>1, <1>2, PTL DEF Spec

-----------------------------------------------------------------------------
\* Refinement of the plan ledger

\* The compare-and-set is made on the number of a revision that is really there:
\* without this, the successor of the base would have no predecessor.
LatestWritten ==
  \A p \in Operation :
    latest[p] > 0 => \E x \in rows : x.plan = p /\ x.no = latest[p]

RefineInv == TypeOK /\ LatestWritten

LEMMA LatestWrittenStep ==
  ASSUME RefineInv, [Next]_vars
  PROVE  LatestWritten'
<1> USE DEF RefineInv, LatestWritten
<1>1. CASE UNCHANGED <<ledger, latest, rows>>
  BY <1>1
<1>2. ASSUME NEW o \in Operation, Claimed(o) \/ Closed(o) PROVE LatestWritten'
  BY <1>2 DEF Claimed, Closed
<1>3. ASSUME NEW o \in Operation, Committed(o) PROVE LatestWritten'
  <2>1. PlanOf(o) \in Operation /\ BaseOf(o) \in Nat
    BY <1>3, PlanAndBaseType DEF Committed
  <2> DEFINE new == [plan |-> PlanOf(o), no |-> BaseOf(o) + 1, by |-> o]
  <2>2. /\ new \in rows' /\ new.plan = PlanOf(o) /\ new.no = BaseOf(o) + 1
        /\ rows \subseteq rows'
        /\ latest' = [latest EXCEPT ![PlanOf(o)] = BaseOf(o) + 1]
    BY <1>3 DEF Committed, Persist
  <2> HIDE DEF new
  <2>3. ASSUME NEW p \in Operation, latest'[p] > 0
        PROVE  \E x \in rows' : x.plan = p /\ x.no = latest'[p]
    <3>1. CASE p = PlanOf(o)
      BY <2>1, <2>2, <3>1 DEF TypeOK
    <3>2. CASE p # PlanOf(o)
      BY <2>1, <2>2, <2>3, <3>2 DEF TypeOK
    <3> QED
      BY <3>1, <3>2
  <2> QED
    BY <2>3
<1> QED
  BY <1>1, <1>2, <1>3, LedgerSteps

\* The initial ledger and plans are the abstract ledger's.
LEMMA RefineInit == Init => RefineInv /\ Ledger!Init
<1> SUFFICES ASSUME Init PROVE RefineInv /\ Ledger!Init
  OBVIOUS
<1>1. LatestWritten
  BY DEF Init, LatestWritten
<1>2. Ledger!Init
  BY DEF Init, NoRow, Ledger!Init
<1> QED
  BY <1>1, <1>2, TypeInit DEF RefineInv

\* A claim opens an operation, an interruption or a rejection closes it, a commit
\* appends its revision, and every other step stutters.
LEMMA RefineStep ==
  ASSUME RefineInv, [Next]_vars
  PROVE  [Ledger!Next]_(Ledger!ledgerVars)
<1> DEFINE abs == [o \in Operation |-> IF ledger[o].state = "claimed"
                                       THEN "open" ELSE ledger[o].state]
           Goal == [Ledger!Next]_(Ledger!ledgerVars)
<1> USE DEF RefineInv
<1>1. CASE UNCHANGED <<ledger, latest, rows>>
  BY <1>1 DEF Ledger!ledgerVars
<1>2. ASSUME NEW o \in Operation, Claimed(o) PROVE Goal
  <2>1. abs[o] = "none" /\ abs' = [abs EXCEPT ![o] = "open"] /\ UNCHANGED rows
    <3>1. PICK r \in Request :
             ledger' = [ledger EXCEPT ![o] = [state |-> "claimed", request |-> r,
                          expires |-> now + LeaseTime, revision |-> 0, code |-> None]]
      BY <1>2 DEF Claimed
    <3> QED
      BY <1>2, <3>1 DEF Claimed, TypeOK
  <2>2. Ledger!Open(o)
    BY <2>1 DEF Ledger!Open
  <2> QED
    BY <2>2 DEF Ledger!Next
<1>3. ASSUME NEW o \in Operation, Closed(o) PROVE Goal
  <2>1. PICK row \in Row : /\ row.state \in {"interrupted", "rejected"}
                           /\ ledger' = [ledger EXCEPT ![o] = row]
    BY <1>3 DEF Closed
  <2>2. abs[o] = "open" /\ abs' = [abs EXCEPT ![o] = row.state] /\ UNCHANGED rows
    BY <1>3, <2>1 DEF Closed, TypeOK
  <2>3. Ledger!Close(o)
    BY <2>1, <2>2 DEF Ledger!Close
  <2> QED
    BY <2>3 DEF Ledger!Next
<1>4. ASSUME NEW o \in Operation, Committed(o) PROVE Goal
  <2> DEFINE p == PlanOf(o)
             n == BaseOf(o) + 1
  <2>1. /\ p \in Operation /\ BaseOf(o) \in Nat
        /\ BaseOf(o) = 0 => p = o
    BY <1>4, PlanAndBaseType DEF Committed
  <2>2. /\ latest[p] = BaseOf(o)
        /\ n \notin Ledger!Numbers(p)
        /\ rows' = rows \cup {[plan |-> p, no |-> n, by |-> o]}
    BY <1>4 DEF Committed, Persist, Ledger!Numbers
  <2>3. abs[o] = "open" /\ abs' = [abs EXCEPT ![o] = "completed"]
    <3> DEFINE row == [ledger[o] EXCEPT !.state = "completed", !.revision = BaseOf(o) + 1]
    <3>1. row.state = "completed"
      BY DEF TypeOK, Row
    <3>2. ledger' = [ledger EXCEPT ![o] = row] /\ ledger[o].state = "claimed"
      BY <1>4 DEF Committed
    <3> HIDE DEF row
    <3> QED
      BY <3>1, <3>2 DEF TypeOK
  <2>4. n \in {1} \cup {i + 1 : i \in Ledger!Numbers(p)}
    <3>1. CASE BaseOf(o) = 0
      BY <3>1
    <3>2. CASE BaseOf(o) > 0
      BY <2>1, <2>2, <3>2 DEF LatestWritten, Ledger!Numbers
    <3> QED
      BY <2>1, <3>1, <3>2
  <2>5. n = 1 => p = o
    BY <2>1
  <2> HIDE DEF p, n, abs
  <2>6. ASSUME NEW plan \in Operation, plan = p PROVE Ledger!Append(o, plan)
    BY <2>6, <2>2, <2>3, <2>4, <2>5 DEF Ledger!Append, abs
  <2>7. \E plan \in Operation : Ledger!Append(o, plan)
    BY <2>1, <2>6
  <2> QED
    BY <2>7 DEF Ledger!Next
<1> QED
  BY <1>1, <1>2, <1>3, <1>4, LedgerSteps

\* The planner, with its handlers, leases, crashes and lost replies, implements
\* the plan ledger.
THEOREM ImplementsPlanLedger == Spec => RefinesPlanLedger
<1>1. RefineInv /\ [Next]_vars => RefineInv'
  BY TypeStep, LatestWrittenStep DEF RefineInv
<1>2. RefineInv /\ [Next]_vars => [Ledger!Next]_(Ledger!ledgerVars)
  BY RefineStep
<1> QED
  BY RefineInit, <1>1, <1>2, PTL DEF Spec, RefinesPlanLedger, Ledger!Spec

-----------------------------------------------------------------------------
\* What a key is told

\* Until it is decided an operation has no result: whatever is told of it later
\* cannot disagree with something it already carried.
UndecidedIsBlank ==
  \A o \in Operation : ledger[o].state = "claimed" => ledger[o].revision = 0 /\ ledger[o].code = None

AnswerInv == TypeOK /\ TerminalAnswersAgree /\ UndecidedIsBlank

\* A transaction that decides an operation and tells its decision keeps all answers
\* in agreement: there was none before it.
LEMMA DecideAgrees ==
  ASSUME AnswerInv, NEW o \in Operation, ledger[o].state = "claimed",
         NEW row \in Row, row.state \in Terminal, ledger' = [ledger EXCEPT ![o] = row],
         Tell(o, [state |-> row.state, revision |-> row.revision, code |-> row.code])
  PROVE  TerminalAnswersAgree' /\ UndecidedIsBlank'
<1> USE DEF AnswerInv
<1> DEFINE answer == [state |-> row.state, revision |-> row.revision, code |-> row.code]
<1>1. ASSUME NEW old \in told[o] PROVE old.state \notin Terminal
  BY DEF TerminalAnswersAgree, Outcome, Terminal
<1>2. Outcome(o)' = answer
  BY DEF Outcome, TypeOK
<1>3. \A p \in Operation \ {o} : Outcome(p)' = Outcome(p) /\ told'[p] = told[p]
  BY DEF Outcome, Tell, TypeOK
<1>4. told'[o] \subseteq told[o] \cup {answer}
  BY DEF Tell, TypeOK
<1> HIDE DEF answer
<1>5. TerminalAnswersAgree'
  BY <1>1, <1>2, <1>3, <1>4 DEF TerminalAnswersAgree
<1>6. UndecidedIsBlank'
  BY DEF UndecidedIsBlank, TypeOK, Terminal
<1> QED
  BY <1>5, <1>6

\* A step that leaves the ledger alone and tells no more than its outcome, or that
\* no decision is known, keeps all answers in agreement.
LEMMA RepeatAgrees ==
  ASSUME AnswerInv, UNCHANGED ledger, NEW o \in Operation,
         NEW answer, answer = Outcome(o) \/ answer.state \notin Terminal,
         told' \in {told, [told EXCEPT ![o] = @ \cup {answer}]}
  PROVE  TerminalAnswersAgree' /\ UndecidedIsBlank'
<1>1. \A p \in Operation : Outcome(p)' = Outcome(p)
  BY DEF Outcome
<1>2. \A p \in Operation : told'[p] \subseteq told[p] \cup (IF p = o THEN {answer} ELSE {})
  BY DEF AnswerInv, TypeOK
<1> QED
  BY <1>1, <1>2 DEF AnswerInv, TerminalAnswersAgree, UndecidedIsBlank

\* Interrupting an overdue operation is such a decision.
LEMMA InterruptAgrees ==
  ASSUME AnswerInv, NEW o \in Operation, LeaseOver(o), Interrupt(o)
  PROVE  TerminalAnswersAgree' /\ UndecidedIsBlank'
<1> DEFINE row == [ledger[o] EXCEPT !.state = "interrupted"]
<1>1. row \in Row /\ row.state = "interrupted"
      /\ row.revision = ledger[o].revision /\ row.code = ledger[o].code
  BY DEF AnswerInv, TypeOK, Row, Terminal
<1>2. ledger' = [ledger EXCEPT ![o] = row]
  BY DEF Interrupt
<1>3. [Outcome(o) EXCEPT !.state = "interrupted"]
        = [state |-> "interrupted", revision |-> ledger[o].revision, code |-> ledger[o].code]
  BY DEF Outcome
<1> HIDE DEF row
<1>4. Tell(o, [state |-> row.state, revision |-> row.revision, code |-> row.code])
  BY <1>1, <1>3 DEF Interrupt
<1> QED
  BY <1>1, <1>2, <1>4, DecideAgrees DEF LeaseOver, Terminal

LEMMA AnswerInit == Init => AnswerInv
BY TypeInit DEF Init, AnswerInv, TerminalAnswersAgree, UndecidedIsBlank, NoRow

LEMMA AnswerStep ==
  ASSUME AnswerInv, [Next]_vars
  PROVE  TerminalAnswersAgree' /\ UndecidedIsBlank'
<1> DEFINE Goal == TerminalAnswersAgree' /\ UndecidedIsBlank'
<1>0. TypeOK
  BY DEF AnswerInv
<1>1. CASE UNCHANGED <<ledger, told>>
  BY <1>1 DEF AnswerInv, TerminalAnswersAgree, UndecidedIsBlank, Outcome
<1>2. ASSUME NEW o \in Operation, NEW h \in Handler, NEW r \in Request, Claim(h, o, r)
      PROVE  Goal
  <2>1. ledger[o].state = "none" /\ UNCHANGED told
    BY <1>2 DEF Claim, Unclaimed
  <2>2. \A answer \in told[o] : answer.state \notin Terminal
    BY <2>1 DEF AnswerInv, TerminalAnswersAgree, Outcome, Terminal
  <2>3. \A p \in Operation \ {o} : ledger'[p] = ledger[p]
    BY <1>2, <1>0 DEF Claim, TypeOK
  <2>4. ledger'[o].revision = 0 /\ ledger'[o].code = None
    BY <1>2, <1>0 DEF Claim, TypeOK
  <2> QED
    BY <2>1, <2>2, <2>3, <2>4 DEF AnswerInv, TerminalAnswersAgree, UndecidedIsBlank, Outcome
<1>3. ASSUME NEW o \in Operation, ClaimOverdue(o) PROVE Goal
  BY <1>3, InterruptAgrees DEF ClaimOverdue
<1>4. ASSUME NEW o \in Operation, ClaimDecided(o) PROVE Goal
  BY <1>4, RepeatAgrees DEF ClaimDecided
<1>5. ASSUME NEW h \in Handler, AnswerDecided(h) PROVE Goal
  <2>1. OpOf(h) \in Operation
    BY <1>0, <1>5 DEF TypeOK, AnswerDecided, At, OpOf
  <2> QED
    BY <1>5, <2>1, RepeatAgrees DEF AnswerDecided, Tell
<1>6. ASSUME NEW h \in Handler, AnswerOverdue(h) PROVE Goal
  <2>1. OpOf(h) \in Operation
    BY <1>0, <1>6 DEF TypeOK, AnswerOverdue, At, OpOf
  <2> QED
    BY <1>6, <2>1, InterruptAgrees DEF AnswerOverdue
<1>7. ASSUME NEW h \in Handler, Complete(h) PROVE Goal
  <2> DEFINE o == OpOf(h)
             row == [ledger[o] EXCEPT !.state = "completed", !.revision = BaseOf(o) + 1]
  <2>1. o \in Operation /\ ledger[o].state = "claimed"
    BY <1>0, <1>7 DEF TypeOK, Complete, LeaseHeld, At, OpOf
  <2>2. ledger[o] \in Row /\ ledger[o].code = None
    BY <2>1 DEF AnswerInv, TypeOK, UndecidedIsBlank
  <2>3. ledger' = [ledger EXCEPT ![o] = row]
    BY <1>7 DEF Complete
  <2>4. BaseOf(o) + 1 \in Nat
    BY <1>0, <2>1, PlanAndBaseType
  <2>5. Tell(o, [state |-> "completed", revision |-> BaseOf(o) + 1, code |-> None])
    BY <1>7 DEF Complete
  <2> HIDE DEF o
  <2>6. /\ row \in Row /\ row.state = "completed"
        /\ row.revision = BaseOf(o) + 1 /\ row.code = None
    BY <2>2, <2>4 DEF Row, Terminal
  <2> HIDE DEF row
  <2>7. Tell(o, [state |-> row.state, revision |-> row.revision, code |-> row.code])
    BY <2>5, <2>6
  <2> QED
    BY <2>1, <2>3, <2>6, <2>7, DecideAgrees DEF Terminal
<1>8. ASSUME NEW h \in Handler, CompleteRefused(h) PROVE Goal
  <2>1. OpOf(h) \in Operation
    BY <1>0, <1>8 DEF TypeOK, CompleteRefused, At, OpOf
  <2>2. NoReply.state \notin Terminal
    BY DEF NoReply, Terminal
  <2> QED
    BY <1>8, <2>1, <2>2, RepeatAgrees DEF CompleteRefused
<1>9. ASSUME NEW h \in Handler, Reject(h) PROVE Goal
  <2> DEFINE o == OpOf(h)
             row == [ledger[o] EXCEPT !.state = "rejected", !.code = handler[h].code]
  <2>1. o \in Operation /\ ledger[o].state = "claimed"
    BY <1>0, <1>9 DEF TypeOK, Reject, LeaseHeld, At, OpOf
  <2>2. ledger[o] \in Row /\ ledger[o].revision = 0
    BY <2>1 DEF AnswerInv, TypeOK, UndecidedIsBlank
  <2>3. ledger' = [ledger EXCEPT ![o] = row]
    BY <1>9 DEF Reject
  <2>4. handler[h].code \in Code \cup {None}
    BY <1>0 DEF TypeOK
  <2>5. Tell(o, [state |-> "rejected", revision |-> 0, code |-> handler[h].code])
    BY <1>9 DEF Reject
  <2> HIDE DEF o
  <2>6. /\ row \in Row /\ row.state = "rejected"
        /\ row.revision = 0 /\ row.code = handler[h].code
    BY <2>2, <2>4 DEF Row, Terminal
  <2> HIDE DEF row
  <2>7. Tell(o, [state |-> row.state, revision |-> row.revision, code |-> row.code])
    BY <2>5, <2>6
  <2> QED
    BY <2>1, <2>3, <2>6, <2>7, DecideAgrees DEF Terminal
<1>10. ASSUME NEW h \in Handler,
              \/ ReservePlannerQuota(h) \/ ReserveGeminiQuota(h) \/ Prepare(h)
             \/ CallProvider(h) \/ Propose(h)
              \/ GiveUp(h)
       PROVE  UNCHANGED <<ledger, told>>
  BY <1>10 DEF ReservePlannerQuota, ReserveGeminiQuota, ReserveQuota, Prepare, CallProvider, Propose, GiveUp
<1>11. CASE Tick
  BY <1>1, <1>11 DEF Tick
<1>12. CASE UNCHANGED vars
  BY <1>1, <1>12 DEF vars
<1> QED
  BY <1>1, <1>2, <1>3, <1>4, <1>5, <1>6, <1>7, <1>8, <1>9, <1>10, <1>11, <1>12 DEF Next

\* Every decided answer a browser ever gets for a key is the ledger's, whichever
\* transaction gave it and however many came before.
THEOREM AnswersAgree == Spec => []TerminalAnswersAgree
<1>1. AnswerInv /\ [Next]_vars => AnswerInv'
  BY TypeStep, AnswerStep DEF AnswerInv
<1>2. AnswerInv => TerminalAnswersAgree
  BY DEF AnswerInv
<1> QED
  BY AnswerInit, <1>1, <1>2, PTL DEF Spec

-----------------------------------------------------------------------------
\* What a key asks of the provider

\* A key is in the hands of one delivery at most, of the one that claimed it, and
\* it has not asked before that delivery does.
OneHolder ==
  \A g, h \in Handler :
    ~ At(g, "idle") /\ ~ At(h, "idle") /\ OpOf(g) = OpOf(h) => g = h

HolderClaimed == \A h \in Handler : ~ At(h, "idle") => ledger[OpOf(h)].state # "none"

NotAskedYet ==
  /\ \A o \in Operation : ledger[o].state = "none" => calls[o] = 0
  /\ \A h \in Handler :
       handler[h].step \in {"claimed", "reserved", "prepared", "granted"} => calls[OpOf(h)] = 0

QuotaFirst ==
  \A h \in Handler :
    /\ handler[h].step \in {"reserved", "prepared", "granted"} => "planner" \in receipts[OpOf(h)]
    /\ handler[h].step = "granted" => "gemini" \in receipts[OpOf(h)]

AskingInv == /\ OneHolder /\ HolderClaimed /\ NotAskedYet /\ QuotaFirst
             /\ ProviderCalledOnce

LEMMA AskingInit == Init => AskingInv
BY DEF Init, AskingInv, OneHolder, HolderClaimed, NotAskedYet, QuotaFirst,
       ProviderCalledOnce, At, OpOf, NoRow, Idle

\* A key once claimed is never unclaimed again.
LEMMA ClaimedForGood ==
  ASSUME TypeOK, [Next]_vars
  PROVE  \A o \in Operation : ledger[o].state # "none" => ledger'[o].state # "none"
<1> DEFINE Goal == \A o \in Operation : ledger[o].state # "none" => ledger'[o].state # "none"
<1>1. ASSUME NEW o \in Operation, Claimed(o) PROVE Goal
  BY <1>1 DEF Claimed, TypeOK
<1>2. ASSUME NEW o \in Operation, Closed(o) PROVE Goal
  BY <1>2 DEF Closed, TypeOK
<1>3. ASSUME NEW o \in Operation, Committed(o) PROVE Goal
  <2> DEFINE row == [ledger[o] EXCEPT !.state = "completed", !.revision = BaseOf(o) + 1]
  <2>1. ledger' = [ledger EXCEPT ![o] = row] /\ row.state = "completed"
    BY <1>3 DEF Committed, TypeOK, Row
  <2> HIDE DEF row
  <2> QED
    BY <2>1 DEF TypeOK
<1> QED
  BY <1>1, <1>2, <1>3, LedgerSteps

\* A handler that goes on with the key it holds, asking nothing, keeps the
\* invariant if what its next step presumes of the calls and receipts is there.
LEMMA GoOnAsks ==
  ASSUME TypeOK, AskingInv, [Next]_vars, NEW h \in Handler, ~ At(h, "idle"),
         NEW step \in Step, NEW code, Goto(h, step, code),
         UNCHANGED calls,
         receipts' \in [Operation -> SUBSET {"planner", "gemini"}],
         \A o \in Operation : receipts[o] \subseteq receipts'[o],
         step \in {"claimed", "reserved", "prepared", "granted"} => calls[OpOf(h)] = 0,
         step \in {"reserved", "prepared", "granted"} => "planner" \in receipts'[OpOf(h)],
         step = "granted" => "gemini" \in receipts'[OpOf(h)]
  PROVE  AskingInv'
<1> USE DEF AskingInv
<1>1. \A g \in Handler : /\ handler'[g].op = handler[g].op
                         /\ handler'[g].step = IF g = h THEN step ELSE handler[g].step
                         /\ ~ At(g, "idle")' => ~ At(g, "idle")
  BY DEF Goto, TypeOK, At
<1>2. \A g \in Handler : ~ At(g, "idle") => OpOf(g) \in Operation
  BY DEF TypeOK, At, OpOf
<1>3. OneHolder'
  BY <1>1 DEF OneHolder, OpOf
<1>4. HolderClaimed'
  BY <1>1, <1>2, ClaimedForGood DEF HolderClaimed, OpOf
<1>5. NotAskedYet'
  BY <1>1, ClaimedForGood DEF NotAskedYet, OpOf
<1>6. QuotaFirst'
  <2>1. ASSUME NEW g \in Handler PROVE QuotaFirst!(g)'
    <3>1. CASE g = h
      BY <1>1, <3>1 DEF OpOf
    <3>2. CASE g # h
      <4>1. OpOf(g)' = OpOf(g) /\ handler'[g].step = handler[g].step
        BY <1>1, <3>2 DEF OpOf
      <4>2. handler[g].step \in {"reserved", "prepared", "granted"} => OpOf(g) \in Operation
        BY <1>2 DEF At
      <4> QED
        BY <4>1, <4>2 DEF QuotaFirst
    <3> QED
      BY <3>1, <3>2
  <2> QED
    BY <2>1 DEF QuotaFirst
<1>7. ProviderCalledOnce'
  BY DEF ProviderCalledOnce, TypeOK
<1> QED
  BY <1>3, <1>4, <1>5, <1>6, <1>7

\* A step that lets go of a key, or touches no handler, keeps the invariant.
LEMMA LetGoAsks ==
  ASSUME TypeOK, AskingInv, [Next]_vars, UNCHANGED <<calls, receipts>>,
         handler' = handler \/ \E h \in Handler : handler' = [handler EXCEPT ![h] = Idle]
  PROVE  AskingInv'
<1> USE DEF AskingInv
<1>1. \A g \in Handler : handler'[g] = handler[g] \/ handler'[g] = Idle
  BY DEF TypeOK
<1>2. Idle.step = "idle"
  BY DEF Idle
<1>3. \A g \in Handler : ~ At(g, "idle") => OpOf(g) \in Operation
  BY DEF TypeOK, At, OpOf
<1>4. OneHolder'
  BY <1>1, <1>2 DEF OneHolder, At, OpOf
<1>5. HolderClaimed'
  BY <1>1, <1>2, <1>3, ClaimedForGood DEF HolderClaimed, At, OpOf
<1>6. NotAskedYet'
  BY <1>1, <1>2, ClaimedForGood DEF NotAskedYet, OpOf
<1>7. QuotaFirst'
  BY <1>1, <1>2 DEF QuotaFirst, OpOf
<1>8. ProviderCalledOnce'
  BY DEF ProviderCalledOnce
<1> QED
  BY <1>4, <1>5, <1>6, <1>7, <1>8

LEMMA AskingStep ==
  ASSUME TypeOK, AskingInv, [Next]_vars
  PROVE  AskingInv'
<1>1. CASE Tick
  BY <1>1, LetGoAsks DEF Tick
<1>2. ASSUME NEW o \in Operation, ClaimOverdue(o) \/ ClaimDecided(o) PROVE AskingInv'
  BY <1>2, LetGoAsks DEF ClaimOverdue, ClaimDecided
<1>3. ASSUME NEW o \in Operation, NEW h \in Handler, NEW r \in Request, Claim(h, o, r)
      PROVE  AskingInv'
  <2> USE DEF AskingInv
  <2>1. /\ ledger[o].state = "none" /\ calls[o] = 0
        /\ UNCHANGED <<calls, receipts>>
    BY <1>3 DEF Claim, Unclaimed, NotAskedYet
  <2>2. /\ handler'[h].step = "claimed" /\ handler'[h].op = o
        /\ \A g \in Handler \ {h} : handler'[g] = handler[g]
    BY <1>3 DEF Claim, TypeOK
  <2>3. \A g \in Handler : ~ At(g, "idle") => OpOf(g) \in Operation /\ OpOf(g) # o
    BY <2>1 DEF TypeOK, HolderClaimed, At, OpOf
  <2>4. ledger'[o].state # "none"
    BY <1>3 DEF Claim, TypeOK
  <2>5. OneHolder'
    BY <2>2, <2>3 DEF OneHolder, At, OpOf
  <2>6. HolderClaimed'
    BY <2>2, <2>3, <2>4, ClaimedForGood DEF HolderClaimed, At, OpOf
  <2>7. NotAskedYet'
    BY <2>1, <2>2, ClaimedForGood DEF NotAskedYet, OpOf
  <2>8. QuotaFirst'
    BY <2>1, <2>2 DEF QuotaFirst, OpOf
  <2>9. ProviderCalledOnce'
    BY <2>1 DEF ProviderCalledOnce
  <2> QED
    BY <2>5, <2>6, <2>7, <2>8, <2>9
<1>4. ASSUME NEW h \in Handler, ReservePlannerQuota(h) PROVE AskingInv'
  <2>1. At(h, "claimed") /\ OpOf(h) \in Operation /\ ~ At(h, "idle") /\ calls[OpOf(h)] = 0
    BY <1>4 DEF ReservePlannerQuota, ReserveQuota, TypeOK, At, OpOf, AskingInv, NotAskedYet
  <2>2. receipts' \in [Operation -> SUBSET {"planner", "gemini"}]
        /\ \A o \in Operation : receipts[o] \subseteq receipts'[o]
        /\ UNCHANGED calls
    BY <1>4, <2>1 DEF ReservePlannerQuota, ReserveQuota, TypeOK
  <2>3. CASE Goto(h, "reserved", None) /\ "planner" \in receipts'[OpOf(h)]
    BY <2>1, <2>2, <2>3, GoOnAsks DEF Step
  <2>4. CASE Goto(h, "rejecting", "REFUSED")
    BY <2>1, <2>2, <2>4, GoOnAsks DEF Step
  <2> QED
    BY <1>4, <2>1, <2>3, <2>4 DEF ReservePlannerQuota, ReserveQuota, TypeOK
<1>5. ASSUME NEW h \in Handler, ReserveGeminiQuota(h) PROVE AskingInv'
  <2>1. /\ At(h, "prepared") /\ OpOf(h) \in Operation /\ ~ At(h, "idle") /\ calls[OpOf(h)] = 0
        /\ "planner" \in receipts[OpOf(h)]
    BY <1>5 DEF ReserveGeminiQuota, ReserveQuota, TypeOK, At, OpOf, AskingInv, NotAskedYet,
                QuotaFirst
  <2>2. receipts' \in [Operation -> SUBSET {"planner", "gemini"}]
        /\ \A o \in Operation : receipts[o] \subseteq receipts'[o]
        /\ UNCHANGED calls
    BY <1>5, <2>1 DEF ReserveGeminiQuota, ReserveQuota, TypeOK
  <2>3. CASE Goto(h, "granted", None) /\ "gemini" \in receipts'[OpOf(h)]
    BY <2>1, <2>2, <2>3, GoOnAsks DEF Step
  <2>4. CASE Goto(h, "rejecting", "REFUSED")
    BY <2>1, <2>2, <2>4, GoOnAsks DEF Step
  <2> QED
    BY <1>5, <2>1, <2>3, <2>4 DEF ReserveGeminiQuota, ReserveQuota, TypeOK
<1>6. ASSUME NEW h \in Handler, Prepare(h) PROVE AskingInv'
  <2>1. /\ At(h, "reserved") /\ OpOf(h) \in Operation /\ ~ At(h, "idle") /\ calls[OpOf(h)] = 0
        /\ "planner" \in receipts[OpOf(h)]
        /\ UNCHANGED <<calls, receipts>>
    BY <1>6 DEF Prepare, TypeOK, At, OpOf, AskingInv, NotAskedYet, QuotaFirst
  <2>2. \E step \in {"prepared", "rejecting"}, code \in Code \cup {None} : Goto(h, step, code)
    BY <1>6 DEF Prepare, Code
  <2> QED
    BY <2>1, <2>2, GoOnAsks DEF Step, TypeOK
<1>7. ASSUME NEW h \in Handler, Propose(h) PROVE AskingInv'
  <2>1. ~ At(h, "idle") /\ UNCHANGED <<calls, receipts>>
    BY <1>7 DEF Propose, At
  <2>2. \E step \in {"ready", "rejecting"}, code \in Code \cup {None} : Goto(h, step, code)
    BY <1>7 DEF Propose, Code
  <2> QED
    BY <2>1, <2>2, GoOnAsks DEF Step, TypeOK
<1>8. ASSUME NEW h \in Handler, CallProvider(h) PROVE AskingInv'
  <2> USE DEF AskingInv
  <2> DEFINE o == OpOf(h)
  <2>1. /\ At(h, "granted") /\ o \in Operation /\ ~ At(h, "idle") /\ calls[o] = 0
        /\ "planner" \in receipts[o] /\ "gemini" \in receipts[o]
    BY <1>8 DEF CallProvider, TypeOK, At, OpOf, NotAskedYet, QuotaFirst
  <2>2. /\ \A p \in Operation : calls'[p] = IF p = o THEN 1 ELSE calls[p]
        /\ UNCHANGED <<receipts, ledger>>
    BY <1>8, <2>1 DEF CallProvider, TypeOK
  <2>3. \A g \in Handler : /\ handler'[g].op = handler[g].op
                           /\ handler'[g].step = IF g = h THEN "calling" ELSE handler[g].step
                           /\ ~ At(g, "idle")' => ~ At(g, "idle")
    BY <1>8, <2>1 DEF CallProvider, Goto, TypeOK, At
  <2>4. \A g \in Handler \ {h} : ~ At(g, "idle") => OpOf(g) \in Operation \ {o}
    BY <2>1 DEF OneHolder, TypeOK, At, OpOf
  <2>5. OneHolder'
    BY <2>3 DEF OneHolder, OpOf
  <2>6. HolderClaimed'
    BY <2>2, <2>3 DEF HolderClaimed, OpOf
  <2>7. NotAskedYet'
    <3>1. ledger[o].state # "none"
      BY <2>1 DEF HolderClaimed
    <3>2. \A p \in Operation : ledger'[p].state = "none" => calls'[p] = 0
      BY <2>2, <3>1 DEF NotAskedYet
    <3>3. ASSUME NEW g \in Handler,
                 handler'[g].step \in {"claimed", "reserved", "prepared", "granted"}
          PROVE  calls'[handler'[g].op] = 0
      <4>1. g # h /\ handler[g].step = handler'[g].step /\ handler'[g].op = handler[g].op
        BY <2>3, <3>3
      <4>2. OpOf(g) \in Operation \ {o} /\ calls[OpOf(g)] = 0
        BY <2>4, <3>3, <4>1 DEF At, NotAskedYet
      <4> QED
        BY <2>2, <4>1, <4>2 DEF OpOf
    <3> QED
      BY <3>2, <3>3 DEF NotAskedYet, OpOf
  <2>8. QuotaFirst'
    BY <2>2, <2>3 DEF QuotaFirst, OpOf
  <2>9. ProviderCalledOnce'
    <3>1. receipts[o] = {"planner", "gemini"}
      BY <2>1 DEF TypeOK
    <3> QED
      BY <2>2, <3>1 DEF ProviderCalledOnce
  <2> QED
    BY <2>5, <2>6, <2>7, <2>8, <2>9
<1>9. ASSUME NEW h \in Handler,
             \/ AnswerDecided(h) \/ AnswerOverdue(h) \/ Complete(h)
             \/ CompleteRefused(h) \/ Reject(h) \/ GiveUp(h)
      PROVE  AskingInv'
  <2>1. handler' = [handler EXCEPT ![h] = Idle] /\ UNCHANGED <<calls, receipts>>
    BY <1>9 DEF AnswerDecided, AnswerOverdue, Complete, CompleteRefused, Reject, GiveUp
  <2> QED
    BY <2>1, LetGoAsks
<1>10. CASE UNCHANGED vars
  BY <1>10, LetGoAsks DEF vars
<1> QED
  BY <1>1, <1>2, <1>3, <1>4, <1>5, <1>6, <1>7, <1>8, <1>9, <1>10 DEF Next

\* However often a key is sent, and whatever dies in between, the provider is asked
\* once at most, by the one delivery that claimed it and after both quotas.
THEOREM AsksProviderOnce == Spec => []ProviderCalledOnce
<1>1. TypeOK /\ AskingInv /\ [Next]_vars => (TypeOK /\ AskingInv)'
  BY TypeStep, AskingStep
<1>2. AskingInv => ProviderCalledOnce
  BY DEF AskingInv
<1> QED
  BY TypeInit, AskingInit, <1>1, <1>2, PTL DEF Spec

-----------------------------------------------------------------------------
\* What becomes of a plan

Own(p) == {x \in rows : x.plan = p}

\* A revision and the operation that wrote it fit the plan.
Linked(p, x) ==
  /\ Owner[x.by] = Owner[p]
  /\ x.no = 1 <=> x.by = p
  /\ x.no > 1 => Target[RequestOf(x.by)] = p /\ Base[RequestOf(x.by)] = x.no - 1

Chain(p) ==
  /\ IsFiniteSet(Own(p))
  /\ {x.no : x \in Own(p)} = 1..latest[p]
  /\ Cardinality(Own(p)) = latest[p]
  /\ \A x \in Own(p) : Linked(p, x)

ChainInv == TypeOK /\ PersistedOnce /\ \A p \in Operation : Chain(p)

LEMMA ChainInit == Init => ChainInv
<1> SUFFICES ASSUME Init PROVE ChainInv
  OBVIOUS
<1>1. ASSUME NEW p \in Operation PROVE Chain(p)
  <2>1. Own(p) = {} /\ latest[p] = 0
    BY DEF Init, Own
  <2> QED
    BY <2>1, FS_EmptySet DEF Chain
<1> QED
  BY <1>1, TypeInit, PersistedInit DEF ChainInv

\* Who wrote a revision is completed, so that its request is what it was.
LEMMA WriterCompleted ==
  ASSUME ChainInv, NEW x \in rows
  PROVE  x.by \in Operation /\ ledger[x.by].state = "completed"
<1>1. x.by \in Operation
  BY DEF ChainInv, TypeOK
<1>2. x \in {y \in rows : y.by = x.by}
  OBVIOUS
<1> QED
  BY <1>1, <1>2 DEF ChainInv, PersistedOnce

\* A plan without a new revision keeps its chain.
LEMMA SamePlanSameChain ==
  ASSUME ChainInv, NEW p \in Operation, Own(p)' = Own(p), latest'[p] = latest[p],
         \A o \in Operation : ledger[o].state = "completed" => RequestOf(o)' = RequestOf(o)
  PROVE  Chain(p)'
<1>1. ASSUME NEW x \in Own(p) PROVE Linked(p, x)'
  <2>1. RequestOf(x.by)' = RequestOf(x.by)
    BY WriterCompleted DEF Own
  <2> QED
    BY <2>1 DEF ChainInv, Chain, Linked
<1> QED
  BY <1>1 DEF ChainInv, Chain

LEMMA ChainStep ==
  ASSUME ChainInv, [Next]_vars
  PROVE  \A p \in Operation : Chain(p)'
<1>0. TypeOK /\ PersistedOnce
  BY DEF ChainInv
<1>1. CASE UNCHANGED <<ledger, latest, rows>>
  BY <1>1, SamePlanSameChain DEF Own, RequestOf
<1>2. ASSUME NEW o \in Operation, Claimed(o) \/ Closed(o)
      PROVE  \A p \in Operation : Chain(p)'
  <2>1. \A q \in Operation : ledger[q].state = "completed" => RequestOf(q)' = RequestOf(q)
    BY <1>0, <1>2 DEF Claimed, Closed, TypeOK, RequestOf
  <2>2. UNCHANGED <<latest, rows>>
    BY <1>2 DEF Claimed, Closed
  <2> QED
    BY <2>1, <2>2, SamePlanSameChain DEF Own
<1>3. ASSUME NEW o \in Operation, Committed(o)
      PROVE  \A p \in Operation : Chain(p)'
  <2>0. PICK q \in Operation, b \in Nat : q = PlanOf(o) /\ b = BaseOf(o)
    BY <1>0, <1>3, PlanAndBaseType DEF Committed
  <2> DEFINE new == [plan |-> q, no |-> b + 1, by |-> o]
  <2>1. q \in Operation /\ b \in Nat /\ RequestOf(o) \in Request
    BY <1>0, <1>3, PlanAndBaseType DEF Committed
  <2>2. /\ Owner[q] = Owner[o] /\ latest[q] = b
        /\ rows' = rows \cup {new}
        /\ latest' = [latest EXCEPT ![q] = b + 1]
        /\ \A x \in rows : ~ (x.plan = q /\ x.no = b + 1)
    BY <1>3, <2>0 DEF Committed, Persist
  <2>3. ledger[o].state = "claimed" /\ \A p \in Operation : RequestOf(p)' = RequestOf(p)
    <3> DEFINE row == [ledger[o] EXCEPT !.state = "completed", !.revision = b + 1]
    <3>1. row.request = ledger[o].request
      BY <1>0 DEF TypeOK, Row
    <3>2. ledger' = [ledger EXCEPT ![o] = row] /\ ledger[o].state = "claimed"
      BY <1>3, <2>0 DEF Committed
    <3> HIDE DEF row
    <3> QED
      BY <1>0, <3>1, <3>2 DEF TypeOK, RequestOf
  <2>4. new.plan = q /\ new.no = b + 1 /\ new.by = o
    OBVIOUS
  <2>5. Chain(q)
    BY <2>1 DEF ChainInv
  <2>6. b > 0 => q # o
    <3> SUFFICES ASSUME b > 0, q = o PROVE FALSE
      OBVIOUS
    <3>1. PICK x \in Own(q) : x.no = 1
      <4>1. 1 \in 1..latest[q]
        BY <2>1, <2>2
      <4>2. 1 \in {x.no : x \in Own(q)}
        BY <2>5, <4>1 DEF Chain
      <4> QED
        BY <4>2
    <3>2. x.by = o /\ x \in rows
      BY <2>5, <3>1 DEF Chain, Linked, Own
    <3> QED
      BY <2>3, <3>2, WriterCompleted
  <2>7. /\ b = 0 <=> q = o
        /\ b > 0 => Target[RequestOf(o)] = q /\ Base[RequestOf(o)] = b
    <3>1. b = 0 => q = o
      BY <1>0, <1>3, <2>0, PlanAndBaseType DEF Committed
    <3>2. Kind[RequestOf(o)] = "recommend" => b = 0
      BY <2>0 DEF BaseOf
    <3>3. Kind[RequestOf(o)] # "recommend" => Target[RequestOf(o)] = q /\ Base[RequestOf(o)] = b
      BY <2>0 DEF PlanOf, BaseOf
    <3> QED
      BY <2>1, <2>6, <3>1, <3>2, <3>3
  <2> HIDE DEF new
  <2>8. Chain(q)'
    <3>1. Own(q)' = Own(q) \cup {new} /\ new \notin Own(q) /\ latest'[q] = b + 1
      BY <1>0, <2>1, <2>2, <2>4 DEF Own, TypeOK
    <3>2. IsFiniteSet(Own(q)') /\ Cardinality(Own(q)') = b + 1
      BY <2>2, <2>5, <3>1, FS_AddElement DEF Chain
    <3>3. {x.no : x \in Own(q)'} = 1..(b + 1)
      <4>1. {x.no : x \in Own(q)'} = {x.no : x \in Own(q)} \cup {b + 1}
        BY <2>4, <3>1
      <4>2. 1..(b + 1) = (1..b) \cup {b + 1}
        BY <2>1
      <4> QED
        BY <2>2, <2>5, <4>1, <4>2 DEF Chain
    <3>4. ASSUME NEW x \in Own(q)' PROVE Linked(q, x)'
      <4>1. CASE x = new
        <5>1. Owner[x.by] = Owner[q] /\ (x.no = 1 <=> x.by = q)
          BY <2>1, <2>2, <2>4, <2>7, <4>1
        <5>2. x.no > 1 => Target[RequestOf(o)] = q /\ Base[RequestOf(o)] = x.no - 1
          BY <2>1, <2>4, <2>7, <4>1
        <5> QED
          BY <2>3, <2>4, <4>1, <5>1, <5>2 DEF Linked
      <4>2. CASE x \in Own(q)
        <5>1. RequestOf(x.by)' = RequestOf(x.by)
          BY <2>3, <4>2, WriterCompleted DEF Own
        <5> QED
          BY <2>5, <4>2, <5>1 DEF Chain, Linked
      <4> QED
        BY <3>1, <4>1, <4>2
    <3> QED
      BY <3>1, <3>2, <3>3, <3>4 DEF Chain
  <2>9. ASSUME NEW p \in Operation, p # q PROVE Chain(p)'
    <3>1. Own(p)' = Own(p)
      BY <2>2, <2>4, <2>9 DEF Own
    <3>2. latest'[p] = latest[p]
      BY <1>0, <2>2, <2>9 DEF TypeOK
    <3> QED
      BY <2>3, <3>1, <3>2, SamePlanSameChain
  <2>10. ASSUME NEW p \in Operation PROVE Chain(p)'
    BY <2>8, <2>9
  <2> QED
    BY <2>10
<1> QED
  BY <1>0, <1>1, <1>2, <1>3, LedgerSteps

\* Whatever refinements race, the revisions of a plan are an unbroken and unforked
\* chain of its owner's.
THEOREM PlansAreChains == Spec => []RevisionChain
<1>1. ChainInv /\ [Next]_vars => ChainInv'
  BY TypeStep, PersistedStep, ChainStep DEF ChainInv
<1>2. ChainInv => RevisionChain
  BY DEF ChainInv, Chain, Linked, Own, RevisionChain
<1> QED
  BY ChainInit, <1>1, <1>2, PTL DEF Spec
=============================================================================
