------------------------------ MODULE PlannerTab ------------------------------
(***************************************************************************)
(* The planner page of one browser tab: supabase-planner-flow.tsx with the *)
(* adapter it calls, the table of errors it goes by and the two records it *)
(* keeps, of a pending operation in the session storage and of the last    *)
(* plan in the local storage (runtime-planner-session.ts).                 *)
(*                                                                         *)
(* The customer may reload the page, leave it, sign out or change accounts *)
(* between a call and its answer.  Of the server the page only knows what  *)
(* PlanLedger promises.  A plan has the name of the operation that created *)
(* it; a key (an operation's random UUID) stands for one request.  Account *)
(* changes and the effect that reads the session again are one action:     *)
(* React renders before the next answer comes.                             *)
(***************************************************************************)
EXTENDS Naturals

CONSTANTS
  Customer,      \* accounts
  Operation,     \* keys a browser may draw
  Nothing,       \* no customer, key, plan, record, page
  MaxEpoch       \* bound: how often the page may begin a session

VARIABLES
  account,       \* who is signed in
  outcome, rows, \* the server, see PlanLedger
  asked,         \* what each key that was drawn stands for
  pending,       \* the record in the session storage
  pointer,       \* the record in the local storage
  page,          \* the mounted page, or Nothing
  epoch,         \* sessionEpochRef
  awaited        \* the calls that have not been answered

tabVars == <<account, outcome, rows, asked, pending, pointer, page, epoch, awaited>>

\* What a key stands for: a customer's request for a plan.
PendingOperation == [by : Customer, plan : Operation, sent : BOOLEAN]

PlannerTabAssumption ==
  /\ Nothing \notin Customer \cup Operation
  /\ Nothing \notin PendingOperation
  /\ MaxEpoch \in Nat
ASSUME PlannerTabAssumption

Plans == INSTANCE PlanLedger

ledgerVars == <<outcome, rows>>

Written(plan) == \E x \in rows : x.plan = plan

\* A refinement asks for another plan than the one its own key would name.
Refines(key) == asked[key].plan # key

NoIntent == [kind |-> "none", key |-> Nothing, plan |-> Nothing]
Intent(kind, key, plan) == [kind |-> kind, key |-> key, plan |-> plan]

EmptyPage(customer) ==
  [active |-> customer, access |-> "loading", form |-> FALSE, ui |-> "idle", action |-> "none",
   unsaved |-> FALSE, shown |-> Nothing, intent |-> NoIntent, outdated |-> FALSE, busy |-> FALSE]

\* session, restore, refresh or execute
CallTo(kind, e, key, plan, who) ==
  [kind |-> kind, epoch |-> e, key |-> key, plan |-> plan, who |-> who]

TabInit ==
  /\ account \in Customer \cup {Nothing}
  /\ Plans!Init
  /\ asked = [k \in Operation |-> Nothing]
  /\ pending = Nothing /\ pointer = Nothing
  /\ page = Nothing /\ epoch = 0 /\ awaited = {}

-----------------------------------------------------------------------------
\* Sessions

\* A session of the page begins and asks who is signed in.
BeginSession(active, who) ==
  /\ epoch < MaxEpoch
  /\ epoch' = epoch + 1
  /\ page' = EmptyPage(active)
  /\ awaited' = awaited \cup {CallTo("session", epoch + 1, Nothing, Nothing, who)}

OpenPage ==
  /\ page = Nothing
  /\ BeginSession(Nothing, account)
  /\ UNCHANGED <<account, ledgerVars, asked, pending, pointer>>

\* Leaving the page, or the first half of a reload.
ClosePage ==
  /\ page # Nothing
  /\ page' = Nothing
  /\ UNCHANGED <<account, ledgerVars, asked, pending, pointer, epoch, awaited>>

\* The listener of a mounted page forgets the customer it served. It takes no
\* notice of one it already serves: a sign-out before it has learned who is signed in.
ChangeAccount(customer) ==
  /\ customer # account
  /\ account' = customer
  /\ IF page = Nothing \/ page.active = customer
     THEN UNCHANGED <<pending, pointer, page, epoch, awaited>>
     ELSE /\ pending' = Nothing /\ pointer' = Nothing
          /\ BeginSession(customer, customer)
  /\ UNCHANGED <<ledgerVars, asked>>

CurrentWhileMounted(c) == page # Nothing     \* Current: sessions are not told apart

\* Whatever answers another session than the page's own is dropped.
Current(c) == page # Nothing /\ c.epoch = epoch

LateAnswer(c) ==
  /\ ~ Current(c)
  /\ awaited' = awaited \ {c}
  /\ UNCHANGED <<account, ledgerVars, asked, pending, pointer, page, epoch>>

-----------------------------------------------------------------------------
\* The page after an answer

Failed(p, action, plan) ==
  [p EXCEPT !.ui = "error", !.action = action, !.shown = plan, !.unsaved = FALSE, !.busy = FALSE]

\* No button leads on from the error, so that nothing is left to be tried again.
Stranded(p, plan) == [Failed(p, "none", plan) EXCEPT !.intent = NoIntent]

Ready(p, plan) == [p EXCEPT !.ui = "ready", !.shown = plan, !.intent = NoIntent, !.busy = FALSE]

Loading(p, intent) ==
  [p EXCEPT !.ui = "loading", !.shown = Nothing, !.intent = intent, !.busy = TRUE]

\* The form needs the personalization it starts from, which may have expired.
Admitted(p, handoff) == [p EXCEPT !.access = IF handoff THEN "ready" ELSE "recovery"]

Asks(c) == awaited' = awaited \cup {c}
Answered(c) == awaited' = awaited \ {c}

\* A record is dropped when it is too old, or another customer's.
ReadRecord(record, customer) ==
  {r \in {record, Nothing} : r # Nothing => r.owner = customer}

Restoring(p, key, plan) == Loading(p, Intent("restore", key, plan))

\* A failed read of the session looks like no session.
AnswerNoSession(c) ==
  /\ c.kind = "session" /\ Current(c)
  /\ page' = [page EXCEPT !.access = "signed-out", !.active = Nothing]
  /\ Answered(c)
  /\ UNCHANGED <<account, ledgerVars, asked, pending, pointer, epoch>>

\* A plan that was stored is read back first; an operation that was still pending
\* is then offered to be checked again, and never sent by itself.
AnswerSession(c) ==
  /\ c.kind = "session" /\ Current(c) /\ c.who # Nothing
  /\ pending' \in ReadRecord(pending, c.who)
  /\ pointer' \in ReadRecord(pointer, c.who)
  /\ \E handoff \in BOOLEAN :
       LET key  == IF pending' = Nothing THEN Nothing ELSE pending'.key
           plan == CASE pointer' # Nothing -> pointer'.plan
                     [] pointer' = Nothing /\ key # Nothing /\ Refines(key) -> asked[key].plan
                     [] OTHER -> Nothing
           p    == [page EXCEPT !.active = c.who, !.access = "ready", !.form = handoff] IN
         /\ page' = CASE plan # Nothing -> Restoring(p, key, plan)
                      [] plan = Nothing /\ key = Nothing -> Admitted(p, handoff)
                      [] OTHER -> [Failed(Admitted(p, handoff), "retry-same", Nothing)
                                     EXCEPT !.intent = Intent("operation", key, Nothing)]
         /\ awaited' = (awaited \ {c}) \cup
              (IF plan = Nothing THEN {} ELSE {CallTo("restore", epoch, key, plan, c.who)})
  /\ UNCHANGED <<account, ledgerVars, asked, epoch>>

\* A read that is refused, or finds nothing, is taken for a plan that is not there.
AnswerRestore(c) ==
  /\ c.kind = "restore" /\ Current(c) /\ Answered(c)
  /\ \/ /\ Written(c.plan)
        /\ page' = IF c.key = Nothing THEN Ready(page, c.plan)
                   ELSE [Failed(page, "retry-same", c.plan)
                           EXCEPT !.intent = Intent("operation", c.key, c.plan)]
        /\ UNCHANGED <<pending, pointer>>
     \/ /\ pointer' = Nothing
        /\ pending' = IF c.key # Nothing /\ Refines(c.key) /\ asked[c.key].plan = c.plan
                      THEN Nothing ELSE pending
        /\ \E handoff \in BOOLEAN :
             page' = [Admitted(EmptyPage(page.active), handoff) EXCEPT !.form = handoff]
     \/ /\ page' \in {Stranded(page, Nothing), Failed(page, "retry-same", Nothing)}
        /\ UNCHANGED <<pending, pointer>>
  /\ UNCHANGED <<account, ledgerVars, asked, epoch>>

-----------------------------------------------------------------------------
\* Requests

\* The operation is stored before it is sent. With a full storage it is not sent;
\* else it may still fail on its way, before it reaches the server.
Execute(key, request, previous) ==
  LET intent == Intent("operation", key, previous) IN
    /\ ~ page.busy /\ page.access = "ready"
    /\ \/ /\ page' = [Failed(page, "retry-same", previous)
                        EXCEPT !.intent = intent, !.unsaved = TRUE]
          /\ asked' = [asked EXCEPT ![key] = request]
          /\ UNCHANGED <<pending, awaited>>
       \/ /\ pending' = [key |-> key, owner |-> page.active]
          /\ page' = Loading(page, intent)
          /\ \E sent \in {FALSE, account # Nothing} :
               asked' = [asked EXCEPT ![key] = [request EXCEPT !.sent = @ \/ sent]]
          /\ Asks(CallTo("execute", epoch, key, previous, page.active))
    /\ UNCHANGED <<account, ledgerVars, pointer, epoch>>

FirstAsked(plan) == [by |-> page.active, plan |-> plan, sent |-> FALSE]

\* A random key that was never drawn before.
NewKey == CHOOSE k \in Operation : asked[k] = Nothing
KeyIsLeft == \E k \in Operation : asked[k] = Nothing

Generate ==
  /\ page # Nothing /\ KeyIsLeft
  /\ page.form /\ page.ui = "idle"
  /\ Execute(NewKey, FirstAsked(NewKey), Nothing)

\* The form stays open beside an operation that is not resolved.
Refine ==
  /\ page # Nothing /\ KeyIsLeft
  /\ page.shown # Nothing /\ ~ page.outdated
  /\ Execute(NewKey, FirstAsked(page.shown), page.shown)

OffersRetry(action, kind) ==
  /\ page # Nothing /\ page.ui = "error"
  /\ page.action = action /\ page.intent.kind = kind
  /\ page.outdated => kind = "refresh"

RetrySame ==
  /\ OffersRetry("retry-same", "operation")
  /\ Execute(page.intent.key, asked[page.intent.key], page.intent.plan)

RetryNew ==
  /\ OffersRetry("retry-new", "operation") /\ KeyIsLeft
  /\ LET old == page.intent.key IN
       Execute(NewKey, FirstAsked(IF Refines(old) THEN asked[old].plan ELSE NewKey),
               page.intent.plan)

RetryRestore ==
  /\ OffersRetry("retry-same", "restore")
  /\ ~ page.busy /\ page.access = "ready"
  /\ page' = Restoring(page, page.intent.key, page.intent.plan)
  /\ Asks(CallTo("restore", epoch, page.intent.key, page.intent.plan, page.active))
  /\ UNCHANGED <<account, ledgerVars, asked, pending, pointer, epoch>>

RefreshLatest ==
  /\ page # Nothing /\ page.ui = "error" /\ ~ page.busy
  /\ \E plan \in Operation :
       /\ \/ page.action = "refresh-plan" /\ plan = page.shown
          \/ OffersRetry("retry-same", "refresh") /\ plan = page.intent.plan
       /\ page' = Loading(page, Intent("refresh", Nothing, plan))
       /\ Asks(CallTo("refresh", epoch, Nothing, plan, page.active))
  /\ UNCHANGED <<account, ledgerVars, asked, pending, pointer, epoch>>

-----------------------------------------------------------------------------
\* Answers

PointTo(plan) == pointer' = [plan |-> plan, owner |-> page.active]

\* The plan is there; what was pending is forgotten once the pointer is stored.
\* Either record may refuse to be written.
AnswerCompleted(c) ==
  LET plan == asked[c.key].plan IN
    /\ outcome[c.key] = "completed"
    /\ \/ PointTo(plan) /\ pending' = Nothing /\ page' = Ready(page, plan)
       \/ /\ PointTo(plan) \/ UNCHANGED pointer
          /\ page' = Failed(page, "retry-same", plan) /\ UNCHANGED pending

UnresolvedUnderNewKey(c) ==                 \* AnswerUnresolved: taken for a refusal
  /\ page' = Failed(page, "retry-new", c.plan)
  /\ UNCHANGED <<pending, pointer>>

\* In progress, or unavailable: the operation may or may not have happened.
AnswerUnresolved(c) ==
  /\ page' = Failed(page, "retry-same", c.plan)
  /\ UNCHANGED <<pending, pointer>>

\* Not signed in, or a request the client or the gateway takes no further.
AnswerInadmissible(c) ==
  /\ pending' = Nothing /\ page' = Stranded(page, c.plan)
  /\ UNCHANGED pointer

Resolutions(c) ==
  IF outcome[c.key] = "interrupted" THEN {"retry-new"}
  ELSE {"none", "retry-new"} \cup {a \in {"refresh-plan"} : Refines(c.key)}

AnswerRefused(c) ==
  /\ outcome[c.key] \in {"rejected", "interrupted"}
  /\ pending' = Nothing
  /\ \E action \in Resolutions(c) :
       page' = IF action = "none" THEN Stranded(page, c.plan)
               ELSE [Failed(page, action, c.plan)
                       EXCEPT !.outdated = @ \/ action = "refresh-plan"]
  /\ UNCHANGED pointer

AnswerExecute(c) ==
  /\ c.kind = "execute" /\ Current(c) /\ Answered(c)
  /\ AnswerCompleted(c) \/ AnswerUnresolved(c) \/ AnswerInadmissible(c) \/ AnswerRefused(c)
  /\ UNCHANGED <<account, ledgerVars, asked, epoch>>

AnswerRefresh(c) ==
  /\ c.kind = "refresh" /\ Current(c) /\ Answered(c)
  /\ LET fresh == [page EXCEPT !.outdated = FALSE] IN
       \/ Written(c.plan) /\ PointTo(c.plan) /\ page' = Ready(fresh, c.plan)
       \/ Written(c.plan) /\ page' = Failed(fresh, "retry-same", c.plan) /\ UNCHANGED pointer
       \/ page' \in {Failed(page, a, c.plan) : a \in {"none", "retry-same"}} /\ UNCHANGED pointer
  /\ UNCHANGED <<account, ledgerVars, asked, pending, epoch>>

\* The server decides what has reached it, whether or not the page still waits.
Decide(k) ==
  /\ asked[k] # Nothing /\ asked[k].sent
  /\ Plans!Open(k) \/ Plans!Append(k, asked[k].plan) \/ Plans!Close(k)
  /\ UNCHANGED <<account, asked, pending, pointer, page, epoch, awaited>>

-----------------------------------------------------------------------------
TabNext ==
  \/ OpenPage \/ ClosePage
  \/ \E customer \in Customer \cup {Nothing} : ChangeAccount(customer)
  \/ \E c \in awaited : LateAnswer(c) \/ AnswerNoSession(c) \/ AnswerSession(c)
                          \/ AnswerRestore(c) \/ AnswerExecute(c) \/ AnswerRefresh(c)
  \/ Generate \/ Refine \/ RetrySame \/ RetryNew \/ RetryRestore \/ RefreshLatest
  \/ \E k \in Operation : Decide(k)

TabSpec == TabInit /\ [][TabNext]_tabVars

-----------------------------------------------------------------------------
\* Properties

(* However sessions end between a call and its answer: the page waits      *)
(* exactly for a call of its own, so that it is never stuck and never      *)
(* overtaken by an older answer; a plan it shows, and the plan the browser *)
(* remembers, exist and are of the customer it serves; and that is who is  *)
(* signed in, or nobody is (see ChangeAccount).                            *)
PageServesItsCustomer ==
  /\ page # Nothing =>
       /\ page.busy <=> page.ui = "loading"
       /\ page.busy <=> \E c \in awaited : Current(c) /\ c.kind # "session"
       /\ page.access = "ready" /\ account # Nothing => page.active = account
       /\ page.shown # Nothing => Written(page.shown) /\ asked[page.shown].by = page.active
  /\ pointer # Nothing => Written(pointer.plan) /\ asked[pointer.plan].by = pointer.owner

(* An operation the page offers to check again is the one stored, under    *)
(* its key and its customer, so that a reload finds it; and where the page *)
(* offers a new key instead, whatever account, reload or late answer lies  *)
(* between, the old one can never write a plan any more.  What an action   *)
(* beside the offered one may do to the record is PendingHasPrecedence.    *)
UnresolvedIsRemembered ==
  page # Nothing /\ page.ui = "error" /\ page.intent.kind = "operation" =>
    /\ page.action = "retry-same" /\ ~ page.unsaved =>
         pending = [key |-> page.intent.key, owner |-> page.active]
    /\ page.action = "retry-new" =>
         outcome[page.intent.key] \in {"rejected", "interrupted"}

(* What planner-operation-contract.md says of a pending operation: it has  *)
(* precedence over a fresh action, and is never silently converted into a  *)
(* new one.  So its record never gives way to another key's while the      *)
(* server is still at work on it.  The code does not keep to this.         *)
PendingHasPrecedence ==
  [][pending # Nothing /\ pending' # Nothing /\ pending'.key # pending.key =>
       outcome[pending.key] # "open"]_tabVars
=============================================================================
