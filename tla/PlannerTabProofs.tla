---------------------------- MODULE PlannerTabProofs ----------------------------
(***************************************************************************)
(* The planner's page serves its customer, for any number of accounts,     *)
(* keys and sessions of the page.  The properties alone are not inductive: *)
(* an answer is taken at its word, so that what matters is whose request   *)
(* every awaited call was, of every session of the page, and that a page   *)
(* never waits for two calls of its own at once.                           *)
(***************************************************************************)
EXTENDS PlannerTab, TLAPS

Call == [kind : {"session", "restore", "refresh", "execute"}, epoch : Nat,
         key : Operation \cup {Nothing}, plan : Operation \cup {Nothing},
         who : Customer \cup {Nothing}]

Action == {"none", "retry-same", "retry-new", "refresh-plan"}

Page == [active : Customer \cup {Nothing},
         access : {"loading", "signed-out", "ready", "recovery"},
         form : BOOLEAN, ui : {"idle", "loading", "ready", "error"},
         action : Action,
         unsaved : BOOLEAN, shown : Operation \cup {Nothing},
         intent : [kind : {"none", "operation", "restore", "refresh"},
                   key : Operation \cup {Nothing}, plan : Operation \cup {Nothing}],
         outdated : BOOLEAN, busy : BOOLEAN]

Refused == {"rejected", "interrupted"}

TabTypeOK ==
  /\ account \in Customer \cup {Nothing}
  /\ outcome \in [Operation -> {"none", "open", "completed"} \cup Refused]
  /\ asked \in [Operation -> PendingOperation \cup {Nothing}]
  /\ pending \in [key : Operation, owner : Customer] \cup {Nothing}
  /\ pointer \in [plan : Operation, owner : Customer] \cup {Nothing}
  /\ page \in Page \cup {Nothing}
  /\ epoch \in Nat
  /\ awaited \in SUBSET Call

\* What a customer asked for, and a plan of theirs that exists; if it is anything at all.
Own(k, who) == k # Nothing => asked[k] # Nothing /\ asked[k].by = who
Saved(plan, who) == Own(plan, who) /\ (plan # Nothing => Written(plan))

(* A request keeps to its customer's plans; a key that was decided had     *)
(* been drawn; and a completed one has written its plan.                   *)
RequestsAreSound == \A k \in Operation :
  /\ asked[k] # Nothing => Own(asked[k].plan, asked[k].by)
  /\ outcome[k] # "none" => asked[k] # Nothing
  /\ outcome[k] = "completed" => Written(asked[k].plan)

RecordsAreOwn ==
  /\ pending # Nothing => Own(pending.key, pending.owner)
  /\ pointer # Nothing => Saved(pointer.plan, pointer.owner)

(* Whatever is awaited, by this session of the page or an earlier one, was *)
(* sent for one customer and concerns what that customer asked for.        *)
CallsAreOwn == \A c \in awaited :
  /\ c.epoch <= epoch
  /\ c.kind # "session" => c.who # Nothing /\ Own(c.key, c.who) /\ Own(c.plan, c.who)
  /\ c.kind = "execute" => c.key # Nothing
  /\ c.kind \in {"restore", "refresh"} => c.plan # Nothing
  /\ c.kind \in {"execute", "refresh"} => Saved(c.plan, c.who)

OneCallAtATime == \A c, d \in awaited : c.epoch = epoch /\ d.epoch = epoch => c = d

\* A page that serves nobody yet is as empty as when it began.
AccessFollowsAccount(p) ==
  /\ p.access = "loading" => p = EmptyPage(p.active)
  /\ p.access = "signed-out" => p.ui = "idle"
  /\ p.access \in {"ready", "recovery"} =>
       p.active # Nothing /\ (account # Nothing => p.active = account)

(* What a page shows and would try again is its customer's, and remembered *)
(* where it could otherwise be lost.                                       *)
PageIsOwn(p) ==
  /\ p.busy <=> p.ui = "loading"
  /\ Saved(p.shown, p.active)
  /\ Own(p.intent.key, p.active) /\ Own(p.intent.plan, p.active)
  /\ p.intent.kind \in {"operation", "refresh"} => Saved(p.intent.plan, p.active)
  /\ p.intent.kind = "operation" => p.intent.key # Nothing
  /\ p.intent.kind = "restore" => p.intent.plan # Nothing
  /\ \/ p.intent.kind = "operation" /\ (p.busy \/ (p.action = "retry-same" /\ ~ p.unsaved))
     \/ p.intent.kind = "restore" /\ p.intent.key # Nothing
     => pending = [key |-> p.intent.key, owner |-> p.active]
  /\ p.ui = "error" /\ p.action = "retry-new" /\ p.intent.kind = "operation" =>
       outcome[p.intent.key] \in Refused

IntentOf(c) ==
  Intent(IF c.kind = "execute" THEN "operation" ELSE c.kind, c.key, c.plan)

\* A page waits for the call of its session, and that call is of the page's making.
CallIsOfPage(c, p) ==
  /\ c.kind = "session" =>
       /\ p.access = "loading" /\ p.active \in {Nothing, c.who}
       /\ account # Nothing => c.who = account
  /\ c.kind # "session" =>
       /\ p.access \in {"ready", "recovery"} /\ p.busy
       /\ c.who = p.active /\ p.intent = IntentOf(c)

PageWaits(p) ==
  /\ p.busy => \E c \in awaited : c.epoch = epoch /\ c.kind # "session"
  /\ \A c \in awaited : c.epoch = epoch => CallIsOfPage(c, p)

TabInv ==
  /\ TabTypeOK /\ RequestsAreSound /\ RecordsAreOwn /\ CallsAreOwn /\ OneCallAtATime
  /\ page # Nothing => AccessFollowsAccount(page) /\ PageIsOwn(page) /\ PageWaits(page)

-----------------------------------------------------------------------------
\* Requests

(* Asking changes nothing of what was asked before: a key that is drawn    *)
(* was free, and one that is used again is used for the same request.      *)
AsksFor(key, request) ==
  /\ key \in Operation /\ request \in PendingOperation
  /\ asked' = [asked EXCEPT ![key] = request]
  /\ \/ asked[key] = Nothing
     \/ /\ asked[key] \in PendingOperation /\ asked[key].by = request.by
        /\ asked[key].plan = request.plan

LEMMA AskedStays ==
  ASSUME TabTypeOK, NEW key, NEW request, AsksFor(key, request),
         NEW k \in Operation \cup {Nothing}, NEW who, Own(k, who)
  PROVE  Own(k, who)'
<1> SUFFICES ASSUME k # Nothing
             PROVE  asked'[k] # Nothing /\ asked'[k].by = who
  BY DEF Own
<1>1. k \in Operation /\ asked[k] # Nothing /\ asked[k].by = who
  BY DEF Own
<1>2. CASE k = key
  <2>1. asked'[k] = request /\ request \in PendingOperation
    BY <1>1, <1>2 DEF AsksFor, TabTypeOK
  <2>2. asked[k].by = request.by
    BY <1>1, <1>2 DEF AsksFor
  <2> QED
    BY <1>1, <2>1, <2>2, PlannerTabAssumption DEF PlannerTabAssumption
<1>3. CASE k # key
  BY <1>1, <1>3 DEF AsksFor, TabTypeOK
<1> QED
  BY <1>2, <1>3

LEMMA AskedIsOwn ==
  ASSUME TabTypeOK, NEW key, NEW request, AsksFor(key, request)
  PROVE  asked'[key] = request /\ request # Nothing /\ Own(key, request.by)'
<1>1. asked'[key] = request /\ request \in PendingOperation
  BY DEF TabTypeOK, AsksFor
<1> QED
  BY <1>1, PlannerTabAssumption DEF Own, PlannerTabAssumption

LEMMA AskingIsSound ==
  ASSUME TabTypeOK, RequestsAreSound, NEW key, NEW request, AsksFor(key, request),
         Own(request.plan, request.by) \/ request.plan = key,
         UNCHANGED ledgerVars
  PROVE  RequestsAreSound'
<1> SUFFICES ASSUME NEW k \in Operation
    PROVE  /\ asked'[k] # Nothing => Own(asked[k].plan, asked[k].by)'
           /\ outcome[k] # "none" => asked'[k] # Nothing
           /\ outcome[k] = "completed" => Written(asked[k].plan)'
  BY DEF RequestsAreSound, ledgerVars
<1>0. key \in Operation /\ request \in PendingOperation /\ rows' = rows
  BY DEF AsksFor, ledgerVars
<1>1. CASE k = key
  <2>1. asked'[k] = request /\ request # Nothing /\ Own(key, request.by)'
    BY <1>1, AskedIsOwn
  <2>2. Own(request.plan, request.by)'
    <3>1. CASE Own(request.plan, request.by)
      BY <3>1, AskedStays, <1>0 DEF PendingOperation
    <3>2. CASE request.plan = key
      BY <3>2, <2>1
    <3> QED BY <3>1, <3>2
  <2>3. Own(asked[k].plan, asked[k].by)'
    BY <2>1, <2>2 DEF Own
  <2>4. asked[key] = Nothing \/ asked[key].plan = request.plan
    BY DEF AsksFor
  <2>5. outcome[k] = "completed" => Written(asked[k].plan)'
    BY <1>0, <1>1, <2>1, <2>4 DEF RequestsAreSound, Written
  <2> QED
    BY <2>1, <2>3, <2>5
<1>2. CASE k # key
  <2>1. asked'[k] = asked[k]
    BY <1>2 DEF AsksFor, TabTypeOK
  <2>2. asked[k] # Nothing => Own(asked[k].plan, asked[k].by)'
    <3> HAVE asked[k] # Nothing
    <3>1. asked[k].plan \in Operation
      BY DEF TabTypeOK, PendingOperation
    <3>2. PICK plan, who : plan = asked[k].plan /\ who = asked[k].by
      OBVIOUS
    <3>3. Own(plan, who)
      BY <3>2 DEF RequestsAreSound
    <3>4. Own(plan, who)'
      BY <3>1, <3>2, <3>3, AskedStays
    <3> QED
      BY <2>1, <3>2, <3>4 DEF Own
  <2>3. asked'[k] # Nothing => Own(asked[k].plan, asked[k].by)'
    BY <2>1, <2>2 DEF Own
  <2> QED
    BY <1>0, <2>1, <2>3 DEF RequestsAreSound, Written
<1> QED
  BY <1>1, <1>2

(* The server writes plans and forgets none, and what it has decided stays. *)
LEMMA DecidingIsSound ==
  ASSUME TabTypeOK, RequestsAreSound, NEW k \in Operation, Decide(k)
  PROVE  /\ RequestsAreSound'
         /\ outcome' \in [Operation -> {"none", "open", "completed"} \cup Refused]
         /\ \A plan : Written(plan) => Written(plan)'
         /\ \A o \in Operation : outcome[o] \in Refused => outcome'[o] \in Refused
<1>1. asked[k] # Nothing /\ asked' = asked
  BY DEF Decide
<1>2. \A plan : Written(plan) => Written(plan)'
  BY DEF Decide, Written, Plans!Open, Plans!Append, Plans!Close
<1>3. /\ \A o \in Operation \ {k} : outcome'[o] = outcome[o]
      /\ outcome[k] \notin Refused
      /\ outcome' \in [Operation -> {"none", "open", "completed"} \cup Refused]
  BY DEF Decide, TabTypeOK, Plans!Open, Plans!Append, Plans!Close, Refused
<1>4. outcome'[k] = "completed" => Written(asked[k].plan)'
  <2>1. CASE Plans!Open(k)
    BY <2>1 DEF Plans!Open, TabTypeOK
  <2>2. CASE Plans!Append(k, asked[k].plan)
    <3>1. PICK n : rows' = rows \cup {[plan |-> asked[k].plan, no |-> n, by |-> k]}
      BY <2>2 DEF Plans!Append
    <3>2. [plan |-> asked[k].plan, no |-> n, by |-> k] \in rows'
      BY <3>1
    <3> QED
      BY <1>1, <3>2 DEF Written
  <2>3. CASE Plans!Close(k)
    BY <2>3 DEF Plans!Close, TabTypeOK
  <2> QED
    BY <2>1, <2>2, <2>3 DEF Decide
<1>5. \A o \in Operation : outcome[o] \in Refused => outcome'[o] \in Refused
  BY <1>3
<1>6. RequestsAreSound'
  <2> SUFFICES ASSUME NEW o \in Operation
      PROVE  /\ asked[o] # Nothing => Own(asked[o].plan, asked[o].by)'
             /\ outcome'[o] # "none" => asked[o] # Nothing
             /\ outcome'[o] = "completed" => Written(asked[o].plan)'
    BY <1>1 DEF RequestsAreSound
  <2>1. asked[o] # Nothing => Own(asked[o].plan, asked[o].by)'
    BY <1>1 DEF RequestsAreSound, Own
  <2>2. outcome'[o] # "none" => asked[o] # Nothing
    BY <1>1, <1>3 DEF RequestsAreSound
  <2>3. outcome'[o] = "completed" => Written(asked[o].plan)'
    <3>1. CASE o = k
      BY <3>1, <1>1, <1>4
    <3>2. CASE o # k
      <4>1. outcome[o] = "completed" => Written(asked[o].plan)
        BY DEF RequestsAreSound
      <4>2. PICK plan : plan = asked[o].plan
        OBVIOUS
      <4>3. outcome[o] = "completed" => Written(plan)'
        BY <1>2, <4>1, <4>2
      <4> QED
        BY <1>1, <1>3, <3>2, <4>2, <4>3
    <3> QED BY <3>1, <3>2
  <2> QED
    BY <2>1, <2>2, <2>3
<1> QED
  BY <1>2, <1>3, <1>5, <1>6

-----------------------------------------------------------------------------
\* Sessions

LEMMA TabStarts == TabInit => TabInv
<1> SUFFICES ASSUME TabInit PROVE TabInv
  OBVIOUS
<1>1. TabTypeOK
  BY DEF TabInit, TabTypeOK, Plans!Init
<1>2. RequestsAreSound /\ RecordsAreOwn
  BY DEF TabInit, Plans!Init, RequestsAreSound, RecordsAreOwn
<1>3. CallsAreOwn /\ OneCallAtATime /\ page = Nothing
  BY DEF TabInit, CallsAreOwn, OneCallAtATime
<1> QED
  BY <1>1, <1>2, <1>3 DEF TabInv

LEMMA EmptyPageIsEmpty ==
  ASSUME NEW active \in Customer \cup {Nothing}
  PROVE  /\ EmptyPage(active) \in Page
         /\ EmptyPage(active).active = active /\ EmptyPage(active).access = "loading"
         /\ EmptyPage(active).busy = FALSE /\ EmptyPage(active).ui = "idle"
         /\ EmptyPage(active).shown = Nothing /\ EmptyPage(active).intent = NoIntent
BY DEF EmptyPage, Page, Action, NoIntent

(* A session that begins makes the page's only call of that session.       *)
LEMMA BeginKeepsInv ==
  ASSUME TabInv, NEW active \in Customer \cup {Nothing}, NEW who \in Customer \cup {Nothing},
         BeginSession(active, who), active \in {Nothing, who}, account' = who,
         UNCHANGED <<ledgerVars, asked>>,
         pending' \in {pending, Nothing}, pointer' \in {pointer, Nothing}
  PROVE  TabInv'
<1> DEFINE c0 == CallTo("session", epoch + 1, Nothing, Nothing, who)
<1>1. /\ page' = EmptyPage(active) /\ epoch' = epoch + 1 /\ epoch \in Nat
      /\ awaited' = awaited \cup {c0}
  BY DEF BeginSession, TabInv, TabTypeOK
<1>2. /\ c0 \in Call /\ c0.epoch = epoch + 1 /\ c0.kind = "session" /\ c0.who = who
  BY <1>1 DEF CallTo, Call
<1>3. \A c \in awaited : c.epoch \in Nat /\ c.epoch <= epoch
  BY DEF TabInv, TabTypeOK, CallsAreOwn, Call
<1> HIDE DEF c0
<1>4. TabTypeOK'
  <2>1. page' \in Page \cup {Nothing}
    BY <1>1, EmptyPageIsEmpty
  <2>2. epoch' \in Nat /\ awaited' \in SUBSET Call
    BY <1>1, <1>2 DEF TabInv, TabTypeOK
  <2> QED
    BY <2>1, <2>2 DEF TabInv, TabTypeOK, ledgerVars
<1>5. RequestsAreSound' /\ RecordsAreOwn'
  BY DEF TabInv, RequestsAreSound, RecordsAreOwn, Own, Saved, Written, ledgerVars
<1>6. CallsAreOwn'
  <2> SUFFICES ASSUME NEW c \in awaited'
      PROVE  /\ c.epoch <= epoch'
             /\ c.kind # "session" => c.who # Nothing /\ Own(c.key, c.who)' /\ Own(c.plan, c.who)'
             /\ c.kind = "execute" => c.key # Nothing
             /\ c.kind \in {"restore", "refresh"} => c.plan # Nothing
             /\ c.kind \in {"execute", "refresh"} => Saved(c.plan, c.who)'
    BY DEF CallsAreOwn
  <2>1. CASE c = c0
    BY <2>1, <1>1, <1>2
  <2>2. CASE c \in awaited
    <3>1. c.epoch <= epoch'
      BY <2>2, <1>1, <1>3
    <3> QED
      BY <2>2, <3>1 DEF TabInv, CallsAreOwn, Own, Saved, Written, ledgerVars
  <2> QED
    BY <1>1, <2>1, <2>2
<1>7. \A c \in awaited' : c.epoch = epoch' => c = c0
  BY <1>1, <1>3
<1>8. OneCallAtATime'
  BY <1>7 DEF OneCallAtATime
<1>9. /\ page'.active = active /\ page'.access = "loading" /\ ~ page'.busy /\ page'.ui = "idle"
      /\ page'.shown = Nothing /\ page'.intent = NoIntent /\ page' \in Page
  BY <1>1, EmptyPageIsEmpty
<1>10. AccessFollowsAccount(page)'
  <2>1. page' = EmptyPage(page'.active)
    BY <1>1, <1>9
  <2> QED
    BY <2>1, <1>9 DEF AccessFollowsAccount
<1>11. PageIsOwn(page)'
  <2>1. page'.intent.kind = "none" /\ page'.intent.key = Nothing /\ page'.intent.plan = Nothing
    BY <1>9 DEF NoIntent
  <2> QED
    BY <2>1, <1>9 DEF PageIsOwn, Saved, Own
<1>12. PageWaits(page)'
  <2>1. \A c \in awaited' : c.epoch = epoch' => CallIsOfPage(c, page)'
    BY <1>2, <1>7, <1>9 DEF CallIsOfPage
  <2> QED
    BY <2>1, <1>9 DEF PageWaits
<1> QED
  BY <1>4, <1>5, <1>6, <1>8, <1>10, <1>11, <1>12 DEF TabInv

(* While no page is open there is nothing a page could be wrong about.     *)
LEMMA ClosedKeepsInv ==
  ASSUME TabInv, page' = Nothing, account' \in Customer \cup {Nothing},
         UNCHANGED <<ledgerVars, asked, pending, pointer, epoch>>, awaited' \subseteq awaited
  PROVE  TabInv'
<1>1. TabTypeOK' /\ RequestsAreSound' /\ RecordsAreOwn'
  BY DEF TabInv, TabTypeOK, RequestsAreSound, RecordsAreOwn, Own, Saved, Written, ledgerVars
<1>2. CallsAreOwn' /\ OneCallAtATime'
  BY DEF TabInv, CallsAreOwn, OneCallAtATime, Own, Saved, Written, ledgerVars
<1> QED
  BY <1>1, <1>2 DEF TabInv

(* The customer whom the page serves already signs in, or out, again.      *)
LEMMA SameCustomerKeepsInv ==
  ASSUME TabInv, page # Nothing, account' \in Customer \cup {Nothing}, account' = page.active,
         UNCHANGED <<ledgerVars, asked, pending, pointer, page, epoch, awaited>>
  PROVE  TabInv'
<1>1. TabTypeOK' /\ RequestsAreSound' /\ RecordsAreOwn'
  BY DEF TabInv, TabTypeOK, RequestsAreSound, RecordsAreOwn, Own, Saved, Written, ledgerVars
<1>2. CallsAreOwn' /\ OneCallAtATime'
  BY DEF TabInv, CallsAreOwn, OneCallAtATime, Own, Saved, Written, ledgerVars
<1>3. AccessFollowsAccount(page)' /\ PageIsOwn(page)'
  BY DEF TabInv, AccessFollowsAccount, PageIsOwn, Own, Saved, Written, ledgerVars
<1>4. PageWaits(page)'
  BY DEF TabInv, PageWaits, CallIsOfPage
<1> QED
  BY <1>1, <1>2, <1>3, <1>4 DEF TabInv

(* An answer to another session of the page is only dropped.               *)
LEMMA LateKeepsInv ==
  ASSUME TabInv, NEW c \in awaited, LateAnswer(c)
  PROVE  TabInv'
<1>1. CASE page = Nothing
  BY <1>1, ClosedKeepsInv DEF LateAnswer, TabInv, TabTypeOK
<1>2. CASE page # Nothing
  <2>1. c.epoch # epoch /\ awaited' = awaited \ {c}
    BY <1>2 DEF LateAnswer, Current
  <2>2. TabTypeOK' /\ RequestsAreSound' /\ RecordsAreOwn'
    BY <2>1 DEF LateAnswer, TabInv, TabTypeOK, RequestsAreSound, RecordsAreOwn, Own, Saved, Written,
                ledgerVars
  <2>3. CallsAreOwn' /\ OneCallAtATime'
    BY <2>1 DEF LateAnswer, TabInv, CallsAreOwn, OneCallAtATime, Own, Saved, Written, ledgerVars
  <2>4. AccessFollowsAccount(page)' /\ PageIsOwn(page)'
    BY <1>2 DEF LateAnswer, TabInv, AccessFollowsAccount, PageIsOwn, Own, Saved, Written, ledgerVars
  <2>5. PageWaits(page)'
    BY <1>2, <2>1 DEF LateAnswer, TabInv, PageWaits, CallIsOfPage
  <2> QED
    BY <2>2, <2>3, <2>4, <2>5 DEF TabInv
<1> QED
  BY <1>1, <1>2

LEMMA SessionsKeepInv ==
  ASSUME TabInv,
         OpenPage \/ ClosePage \/ \E customer \in Customer \cup {Nothing} : ChangeAccount(customer)
  PROVE  TabInv'
<1>1. CASE OpenPage
  BY <1>1, BeginKeepsInv DEF OpenPage, TabInv, TabTypeOK
<1>2. CASE ClosePage
  BY <1>2, ClosedKeepsInv DEF ClosePage, TabInv, TabTypeOK
<1>3. ASSUME NEW customer \in Customer \cup {Nothing}, ChangeAccount(customer)
      PROVE  TabInv'
  <2>1. CASE page = Nothing
    BY <1>3, <2>1, ClosedKeepsInv DEF ChangeAccount
  <2>2. CASE page # Nothing /\ page.active = customer
    BY <1>3, <2>2, SameCustomerKeepsInv DEF ChangeAccount
  <2>3. CASE page # Nothing /\ page.active # customer
    BY <1>3, <2>3, BeginKeepsInv DEF ChangeAccount
  <2> QED
    BY <2>1, <2>2, <2>3
<1> QED
  BY <1>1, <1>2, <1>3

-----------------------------------------------------------------------------
\* The server

LEMMA DecideKeepsInv ==
  ASSUME TabInv, NEW k \in Operation, Decide(k)
  PROVE  TabInv'
<1>1. /\ RequestsAreSound'
      /\ outcome' \in [Operation -> {"none", "open", "completed"} \cup Refused]
      /\ \A plan : Written(plan) => Written(plan)'
      /\ \A o \in Operation : outcome[o] \in Refused => outcome'[o] \in Refused
  BY DecidingIsSound DEF TabInv
<1>2. UNCHANGED <<account, asked, pending, pointer, page, epoch, awaited>>
  BY DEF Decide
<1>3. \A plan, who : Saved(plan, who) => Saved(plan, who)'
  BY <1>1, <1>2 DEF Saved, Own
<1>4. \A plan, who : Own(plan, who) => Own(plan, who)'
  BY <1>2 DEF Own
<1>5. TabTypeOK'
  BY <1>1, <1>2 DEF TabInv, TabTypeOK
<1>6. RecordsAreOwn'
  <2>1. PICK plan, who : plan = pointer.plan /\ who = pointer.owner
    OBVIOUS
  <2>2. pointer # Nothing => Saved(plan, who)'
    BY <2>1, <1>3 DEF TabInv, RecordsAreOwn
  <2> QED
    BY <1>2, <2>1, <2>2 DEF TabInv, RecordsAreOwn, Own, Saved
<1>7. CallsAreOwn' /\ OneCallAtATime'
  BY <1>2, <1>3, <1>4 DEF TabInv, CallsAreOwn, OneCallAtATime
<1>8. ASSUME page # Nothing
      PROVE  AccessFollowsAccount(page)' /\ PageIsOwn(page)' /\ PageWaits(page)'
  <2>1. PICK p \in Page : p = page
    BY <1>8 DEF TabInv, TabTypeOK
  <2>2. AccessFollowsAccount(p) /\ PageIsOwn(p) /\ PageWaits(p)
    BY <1>8, <2>1 DEF TabInv
  <2>3. AccessFollowsAccount(p)' /\ PageWaits(p)'
    BY <1>2, <2>2 DEF AccessFollowsAccount, PageWaits, CallIsOfPage
  <2>4. p.intent.key \in Operation \cup {Nothing}
    BY DEF Page
  <2>5. Own(p.intent.key, p.active)' /\ Own(p.intent.plan, p.active)' /\ Saved(p.shown, p.active)'
    BY <1>3, <1>4, <2>2 DEF PageIsOwn
  <2>6. p.intent.kind \in {"operation", "refresh"} => Saved(p.intent.plan, p.active)'
    BY <1>3, <2>2 DEF PageIsOwn
  <2>7. p.ui = "error" /\ p.action = "retry-new" /\ p.intent.kind = "operation" =>
          outcome'[p.intent.key] \in Refused
    <3> HAVE p.ui = "error" /\ p.action = "retry-new" /\ p.intent.kind = "operation"
    <3>1. p.intent.key \in Operation /\ outcome[p.intent.key] \in Refused
      BY <2>2, <2>4 DEF PageIsOwn
    <3> QED
      BY <3>1, <1>1
  <2>8. PageIsOwn(p)'
    BY <1>2, <2>2, <2>5, <2>6, <2>7 DEF PageIsOwn
  <2>9. page' = p
    BY <1>2, <2>1
  <2> QED
    BY <2>3, <2>8, <2>9 DEF AccessFollowsAccount, PageIsOwn, PageWaits, CallIsOfPage
<1> QED
  BY <1>1, <1>2, <1>5, <1>6, <1>7, <1>8 DEF TabInv

-----------------------------------------------------------------------------
\* Answers

(* The page whose session an answer belongs to waited for nothing else.    *)
LEMMA AnsweredAlone ==
  ASSUME TabInv, NEW c \in awaited, Current(c)
  PROVE  /\ page \in Page /\ page # Nothing /\ CallIsOfPage(c, page)
         /\ AccessFollowsAccount(page) /\ PageIsOwn(page)
         /\ \A d \in awaited \ {c} : d.epoch # epoch
BY DEF TabInv, TabTypeOK, PageWaits, OneCallAtATime, Current

(* An answer to a request leaves the page with no call to wait for.        *)
LEMMA AnswerKeepsInv ==
  ASSUME TabInv, NEW c \in awaited, Current(c), Answered(c),
         UNCHANGED <<account, ledgerVars, asked, epoch>>,
         page' \in Page, page' # Nothing => ~ page'.busy,
         AccessFollowsAccount(page)', PageIsOwn(page)',
         pending' \in [key : Operation, owner : Customer] \cup {Nothing},
         pointer' \in [plan : Operation, owner : Customer] \cup {Nothing},
         RecordsAreOwn'
  PROVE  TabInv'
<1>1. awaited' = awaited \ {c} /\ \A d \in awaited \ {c} : d.epoch # epoch
  BY AnsweredAlone DEF Answered
<1>2. TabTypeOK' /\ RequestsAreSound'
  BY <1>1 DEF TabInv, TabTypeOK, RequestsAreSound, Own, Written, ledgerVars
<1>3. CallsAreOwn' /\ OneCallAtATime'
  BY <1>1 DEF TabInv, CallsAreOwn, OneCallAtATime, Own, Saved, Written, ledgerVars
<1>4. page' # Nothing => PageWaits(page)'
  BY <1>1 DEF PageWaits
<1> QED
  BY <1>2, <1>3, <1>4 DEF TabInv

\* What the forms of the page after an answer leave as it was.
LEMMA ErrorActions ==
  /\ "none" \in Action /\ "retry-same" \in Action /\ "retry-new" \in Action
  /\ "refresh-plan" \in Action
BY DEF Action

LEMMA FailedPage ==
  ASSUME page \in Page, NEW action \in Action, NEW plan \in Operation \cup {Nothing},
         page' = Failed(page, action, plan)
  PROVE  /\ page' \in Page
         /\ page'.active = page.active /\ page'.access = page.access /\ page'.intent = page.intent
         /\ page'.ui = "error" /\ page'.action = action /\ page'.shown = plan
         /\ page'.unsaved = FALSE /\ page'.busy = FALSE
BY DEF Failed, Page, Action

LEMMA StrandedPage ==
  ASSUME page \in Page, NEW plan \in Operation \cup {Nothing},
         page' = Stranded(page, plan)
  PROVE  /\ page' \in Page
         /\ page'.active = page.active /\ page'.access = page.access /\ page'.intent = NoIntent
         /\ page'.ui = "error" /\ page'.shown = plan /\ page'.busy = FALSE
BY DEF Stranded, Failed, Page, Action, NoIntent

LEMMA ReadyPage ==
  ASSUME page \in Page, NEW plan \in Operation \cup {Nothing},
         page' = Ready(page, plan)
  PROVE  /\ page' \in Page
         /\ page'.active = page.active /\ page'.access = page.access /\ page'.intent = NoIntent
         /\ page'.ui = "ready" /\ page'.shown = plan /\ page'.busy = FALSE
BY DEF Ready, Page, NoIntent

LEMMA LoadingPage ==
  ASSUME page \in Page, NEW kind \in {"operation", "restore", "refresh"},
         NEW key \in Operation \cup {Nothing}, NEW plan \in Operation \cup {Nothing},
         page' = Loading(page, Intent(kind, key, plan))
  PROVE  /\ page' \in Page
         /\ page'.active = page.active /\ page'.access = page.access
         /\ page'.intent = Intent(kind, key, plan)
         /\ page'.ui = "loading" /\ page'.shown = Nothing /\ page'.busy = TRUE
BY DEF Loading, Page, Intent

(* The error from which an operation is tried again under its key.         *)
LEMMA RetryablePage ==
  ASSUME page \in Page, NEW key \in Operation, NEW plan \in Operation \cup {Nothing},
         NEW unsaved \in BOOLEAN,
         page' = [Failed(page, "retry-same", plan)
                    EXCEPT !.intent = Intent("operation", key, plan), !.unsaved = unsaved]
  PROVE  /\ page' \in Page
         /\ page'.active = page.active /\ page'.access = page.access
         /\ page'.intent = Intent("operation", key, plan)
         /\ page'.ui = "error" /\ page'.action = "retry-same" /\ page'.shown = plan
         /\ page'.unsaved = unsaved /\ page'.busy = FALSE
BY DEF Failed, Page, Action, Intent

(* A page with nothing left to try again only answers for what it shows.   *)
LEMMA SettledPageIsOwn ==
  ASSUME page'.intent = NoIntent, ~ page'.busy, page'.ui # "loading",
         Saved(page.shown, page.active)'
  PROVE  PageIsOwn(page)'
<1>1. /\ page'.intent.kind = "none" /\ page'.intent.key = Nothing
      /\ page'.intent.plan = Nothing
  BY DEF NoIntent
<1> QED
  BY <1>1 DEF PageIsOwn, Own

(* A page that serves a customer keeps to that customer after an answer.   *)
LEMMA ServedPageStays ==
  ASSUME AccessFollowsAccount(page), page.access \in {"ready", "recovery"},
         page'.access \in {"ready", "recovery"}, page'.active = page.active, account' = account
  PROVE  AccessFollowsAccount(page)'
BY DEF AccessFollowsAccount

\* What is known of a request's call when its answer comes to the page.
LEMMA AnsweredCall ==
  ASSUME TabInv, NEW c \in awaited, Current(c), c.kind # "session"
  PROVE  /\ c.key \in Operation \cup {Nothing} /\ c.plan \in Operation \cup {Nothing}
         /\ page \in Page /\ page.active \in Customer /\ c.who = page.active
         /\ AccessFollowsAccount(page) /\ PageIsOwn(page)
         /\ page.access \in {"ready", "recovery"} /\ page.busy
         /\ page.intent = IntentOf(c)
         /\ Own(c.key, page.active) /\ Own(c.plan, page.active)
         /\ c.kind \in {"execute", "refresh"} => Saved(c.plan, page.active)
<1>1. /\ page \in Page /\ CallIsOfPage(c, page) /\ AccessFollowsAccount(page)
      /\ PageIsOwn(page)
  BY AnsweredAlone
<1>2. /\ page.access \in {"ready", "recovery"} /\ page.busy
      /\ c.who = page.active /\ page.intent = IntentOf(c)
  BY <1>1 DEF CallIsOfPage
<1>3. page.active # Nothing /\ page.active \in Customer \cup {Nothing}
  BY <1>1, <1>2 DEF AccessFollowsAccount, Page
<1>4. c.key \in Operation \cup {Nothing} /\ c.plan \in Operation \cup {Nothing}
  BY DEF TabInv, TabTypeOK, Call
<1> QED
  BY <1>1, <1>2, <1>3, <1>4 DEF TabInv, CallsAreOwn

LEMMA RestoreKeepsInv ==
  ASSUME TabInv, NEW c \in awaited, AnswerRestore(c)
  PROVE  TabInv'
<1>1. /\ Current(c) /\ Answered(c) /\ c.kind = "restore"
      /\ UNCHANGED <<account, ledgerVars, asked, epoch>>
  BY DEF AnswerRestore
<1>2. /\ c.key \in Operation \cup {Nothing} /\ c.plan \in Operation \cup {Nothing}
      /\ page \in Page /\ page.active \in Customer /\ c.who = page.active
      /\ AccessFollowsAccount(page) /\ PageIsOwn(page)
      /\ page.access \in {"ready", "recovery"} /\ page.busy
      /\ page.intent = IntentOf(c)
      /\ Own(c.key, page.active) /\ Own(c.plan, page.active)
  BY <1>1, AnsweredCall
<1>0. page \in Page /\ c.plan \in Operation \cup {Nothing}
  BY <1>2
<1>3. c.key # Nothing => pending = [key |-> c.key, owner |-> page.active]
  <2>1. page.intent.kind = "restore" /\ page.intent.key = c.key
    BY <1>1, <1>2 DEF IntentOf, Intent
  <2> QED
    BY <1>2, <2>1 DEF PageIsOwn
<1>4. CASE Written(c.plan) /\ c.key = Nothing /\ page' = Ready(page, c.plan)
           /\ UNCHANGED <<pending, pointer>>
  <2>1. /\ page' \in Page /\ page'.active = page.active /\ page'.access = page.access
        /\ page'.intent = NoIntent /\ page'.ui = "ready" /\ page'.shown = c.plan /\ page'.busy = FALSE
    BY <1>2, <1>4, ReadyPage
  <2>2. Saved(page.shown, page.active)'
    BY <1>1, <1>2, <1>4, <2>1 DEF Saved, Own, Written, ledgerVars
  <2>3. AccessFollowsAccount(page)' /\ PageIsOwn(page)'
    BY <1>1, <1>2, <2>1, <2>2, ServedPageStays, SettledPageIsOwn
  <2>4. RecordsAreOwn'
    BY <1>1, <1>4 DEF TabInv, RecordsAreOwn, Own, Saved, Written, ledgerVars
  <2> QED
    BY <1>1, <1>4, <2>1, <2>3, <2>4, AnswerKeepsInv DEF TabInv, TabTypeOK
<1>5. CASE /\ Written(c.plan) /\ c.key # Nothing
           /\ page' = [Failed(page, "retry-same", c.plan)
                         EXCEPT !.intent = Intent("operation", c.key, c.plan)]
           /\ UNCHANGED <<pending, pointer>>
  <2>1. c.key \in Operation
    BY <1>2, <1>5
  <2>2. page' = [Failed(page, "retry-same", c.plan)
                   EXCEPT !.intent = Intent("operation", c.key, c.plan), !.unsaved = FALSE]
    BY <1>5, <1>0 DEF Failed, Page
  <2>3. /\ page' \in Page /\ page'.active = page.active /\ page'.access = page.access
        /\ page'.intent = Intent("operation", c.key, c.plan)
        /\ page'.ui = "error" /\ page'.action = "retry-same" /\ page'.shown = c.plan
        /\ page'.busy = FALSE
    BY <1>0, <2>1, <2>2, RetryablePage
  <2>4. Saved(c.plan, page.active)' /\ Own(c.key, page.active)'
    BY <1>1, <1>2, <1>5, <2>3 DEF Saved, Own, Written, ledgerVars
  <2>5. PageIsOwn(page)'
    BY <1>3, <1>5, <2>3, <2>4 DEF PageIsOwn, Intent, Saved
  <2>6. AccessFollowsAccount(page)'
    BY <1>1, <1>2, <2>3, ServedPageStays
  <2>7. RecordsAreOwn'
    BY <1>1, <1>5 DEF TabInv, RecordsAreOwn, Own, Saved, Written, ledgerVars
  <2> QED
    BY <1>1, <1>5, <2>3, <2>5, <2>6, <2>7, AnswerKeepsInv DEF TabInv, TabTypeOK
<1>6. CASE /\ pointer' = Nothing /\ pending' \in {pending, Nothing}
           /\ \E handoff \in BOOLEAN :
                page' = [Admitted(EmptyPage(page.active), handoff) EXCEPT !.form = handoff]
  <2>1. /\ page' \in Page /\ page'.active = page.active /\ page'.access \in {"ready", "recovery"}
        /\ page'.intent = NoIntent /\ page'.ui = "idle" /\ page'.shown = Nothing /\ page'.busy = FALSE
    <3>1. PICK handoff \in BOOLEAN :
            page' = [[EmptyPage(page.active) EXCEPT !.access = IF handoff THEN "ready" ELSE "recovery"]
                       EXCEPT !.form = handoff]
      BY <1>6 DEF Admitted
    <3> QED
      BY <1>2, <3>1 DEF EmptyPage, Page, Action, NoIntent
  <2>2. Saved(page.shown, page.active)'
    BY <2>1 DEF Saved, Own
  <2>3. AccessFollowsAccount(page)' /\ PageIsOwn(page)'
    BY <1>1, <1>2, <2>1, <2>2, ServedPageStays, SettledPageIsOwn
  <2>4. RecordsAreOwn'
    BY <1>1, <1>6 DEF TabInv, RecordsAreOwn, Own, Saved, Written, ledgerVars
  <2> QED
    BY <1>1, <1>6, <2>1, <2>3, <2>4, AnswerKeepsInv DEF TabInv, TabTypeOK
<1>7. CASE page' = Stranded(page, Nothing) /\ UNCHANGED <<pending, pointer>>
  <2>1. /\ page' \in Page /\ page'.active = page.active /\ page'.access = page.access
        /\ page'.intent = NoIntent /\ page'.ui = "error" /\ page'.shown = Nothing /\ page'.busy = FALSE
    BY <1>2, <1>7, StrandedPage
  <2>2. Saved(page.shown, page.active)'
    BY <2>1 DEF Saved, Own
  <2>3. AccessFollowsAccount(page)' /\ PageIsOwn(page)'
    BY <1>1, <1>2, <2>1, <2>2, ServedPageStays, SettledPageIsOwn
  <2>4. RecordsAreOwn'
    BY <1>1, <1>7 DEF TabInv, RecordsAreOwn, Own, Saved, Written, ledgerVars
  <2> QED
    BY <1>1, <1>7, <2>1, <2>3, <2>4, AnswerKeepsInv DEF TabInv, TabTypeOK
<1>8. CASE page' = Failed(page, "retry-same", Nothing) /\ UNCHANGED <<pending, pointer>>
  <2>1. /\ page' \in Page /\ page'.active = page.active /\ page'.access = page.access
        /\ page'.intent = page.intent /\ page'.ui = "error" /\ page'.action = "retry-same"
        /\ page'.shown = Nothing /\ page'.busy = FALSE
    BY <1>0, <1>8, ErrorActions, FailedPage
  <2>2. page.intent.kind = "restore" /\ page.intent.plan = c.plan /\ page.intent.key = c.key
    BY <1>1, <1>2 DEF IntentOf, Intent
  <2>3. Own(c.key, page.active)' /\ Own(c.plan, page.active)'
    BY <1>1, <1>2, <2>1 DEF Own
  <2>4. c.plan # Nothing
    BY <1>1 DEF TabInv, CallsAreOwn
  <2>5. PageIsOwn(page)'
    BY <1>3, <1>8, <2>1, <2>2, <2>3, <2>4 DEF PageIsOwn, Saved, Own
  <2>6. AccessFollowsAccount(page)'
    BY <1>1, <1>2, <2>1, ServedPageStays
  <2>7. RecordsAreOwn'
    BY <1>1, <1>8 DEF TabInv, RecordsAreOwn, Own, Saved, Written, ledgerVars
  <2> QED
    BY <1>1, <1>8, <2>1, <2>5, <2>6, <2>7, AnswerKeepsInv DEF TabInv, TabTypeOK
<1> QED
  BY <1>4, <1>5, <1>6, <1>7, <1>8 DEF AnswerRestore

\* The records after an answer: kept, dropped, or pointing to the plan of the answer.
LEMMA RecordsStayOwn ==
  ASSUME TabInv, UNCHANGED <<ledgerVars, asked>>, pending' \in {pending, Nothing},
         \/ pointer' \in {pointer, Nothing}
         \/ /\ page.active \in Customer
            /\ \E plan \in Operation : Saved(plan, page.active) /\ PointTo(plan)
  PROVE  /\ RecordsAreOwn'
         /\ pending' \in [key : Operation, owner : Customer] \cup {Nothing}
         /\ pointer' \in [plan : Operation, owner : Customer] \cup {Nothing}
<1>1. pending' \in [key : Operation, owner : Customer] \cup {Nothing}
  BY DEF TabInv, TabTypeOK
<1>2. pending' # Nothing => Own(pending.key, pending.owner)'
  BY DEF TabInv, RecordsAreOwn, Own
<1>3. CASE pointer' \in {pointer, Nothing}
  BY <1>1, <1>2, <1>3 DEF TabInv, TabTypeOK, RecordsAreOwn, Own, Saved, Written, ledgerVars
<1>4. ASSUME page.active \in Customer, NEW plan \in Operation, Saved(plan, page.active), PointTo(plan)
      PROVE  /\ pointer' \in [plan : Operation, owner : Customer]
             /\ Saved(pointer.plan, pointer.owner)'
  <2>1. /\ pointer' \in [plan : Operation, owner : Customer]
        /\ pointer'.plan = plan /\ pointer'.owner = page.active
    BY <1>4 DEF PointTo
  <2> QED
    BY <1>4, <2>1 DEF Own, Saved, Written, ledgerVars
<1>5. CASE page.active \in Customer
           /\ \E plan \in Operation : Saved(plan, page.active) /\ PointTo(plan)
  BY <1>1, <1>2, <1>4, <1>5 DEF RecordsAreOwn
<1> QED
  BY <1>3, <1>5

LEMMA ExecuteAnswerKeepsInv ==
  ASSUME TabInv, NEW c \in awaited, AnswerExecute(c)
  PROVE  TabInv'
<1>1. /\ Current(c) /\ Answered(c) /\ c.kind = "execute"
      /\ UNCHANGED <<account, ledgerVars, asked, epoch>>
  BY DEF AnswerExecute
<1>2. /\ c.key \in Operation \cup {Nothing} /\ c.plan \in Operation \cup {Nothing}
      /\ page \in Page /\ page.active \in Customer /\ c.who = page.active
      /\ AccessFollowsAccount(page) /\ PageIsOwn(page)
      /\ page.access \in {"ready", "recovery"} /\ page.busy
      /\ page.intent = IntentOf(c)
      /\ Own(c.key, page.active) /\ Saved(c.plan, page.active)
  BY <1>1, AnsweredCall
<1>0. page \in Page /\ c.plan \in Operation \cup {Nothing}
  BY <1>2
<1>3. c.key \in Operation /\ c.key # Nothing
  BY <1>1, <1>2 DEF TabInv, CallsAreOwn
<1>4. /\ page.intent.kind = "operation" /\ page.intent.key = c.key /\ page.intent.plan = c.plan
  BY <1>1, <1>2 DEF IntentOf, Intent
<1>5. pending = [key |-> c.key, owner |-> page.active]
  BY <1>2, <1>4 DEF PageIsOwn
<1>6. /\ asked[c.key] # Nothing /\ asked[c.key].by = page.active /\ asked[c.key].plan \in Operation
  BY <1>2, <1>3 DEF Own, TabInv, TabTypeOK, PendingOperation
<1>7. outcome[c.key] = "completed" => Saved(asked[c.key].plan, page.active)
  BY <1>3, <1>6 DEF TabInv, RequestsAreSound, Saved
<1>8. ASSUME \/ page' = Failed(page, "retry-same", c.plan)
             \/ /\ outcome[c.key] = "completed"
                /\ page' = Failed(page, "retry-same", asked[c.key].plan),
             UNCHANGED pending,
             \/ pointer' = pointer
             \/ outcome[c.key] = "completed" /\ PointTo(asked[c.key].plan)
      PROVE  TabInv'
  <2>1. PICK plan \in Operation \cup {Nothing} :
          page' = Failed(page, "retry-same", plan) /\ Saved(plan, page.active)
    BY <1>2, <1>6, <1>7, <1>8
  <2>2. /\ page' \in Page /\ page'.active = page.active /\ page'.access = page.access
        /\ page'.intent = page.intent /\ page'.ui = "error" /\ page'.action = "retry-same"
        /\ page'.shown = plan /\ page'.busy = FALSE
    BY <1>0, <2>1, ErrorActions, FailedPage
  <2>3. Own(c.key, page.active)' /\ Saved(c.plan, page.active)' /\ Saved(plan, page.active)'
    BY <1>1, <1>2, <2>1, <2>2 DEF Own, Saved, Written, ledgerVars
  <2>4. PageIsOwn(page)'
    BY <1>3, <1>4, <1>5, <1>8, <2>2, <2>3 DEF PageIsOwn, Saved
  <2>5. AccessFollowsAccount(page)'
    BY <1>1, <1>2, <2>2, ServedPageStays
  <2>6. \/ pointer' = pointer
        \/ \E known \in Operation : Saved(known, page.active) /\ PointTo(known)
    BY <1>6, <1>7, <1>8
  <2> QED
    BY <1>1, <1>2, <1>8, <2>2, <2>4, <2>5, <2>6, RecordsStayOwn, AnswerKeepsInv
<1>9. ASSUME outcome[c.key] = "completed", PointTo(asked[c.key].plan), pending' = Nothing,
             page' = Ready(page, asked[c.key].plan)
      PROVE  TabInv'
  <2>1. /\ page' \in Page /\ page'.active = page.active /\ page'.access = page.access
        /\ page'.intent = NoIntent /\ page'.ui = "ready" /\ page'.shown = asked[c.key].plan
        /\ page'.busy = FALSE
    BY <1>0, <1>6, <1>9, ReadyPage
  <2>2. Saved(page.shown, page.active)'
    BY <1>1, <1>7, <1>9, <2>1 DEF Saved, Own, Written, ledgerVars
  <2>3. AccessFollowsAccount(page)' /\ PageIsOwn(page)'
    BY <1>1, <1>2, <2>1, <2>2, ServedPageStays, SettledPageIsOwn
  <2> QED
    BY <1>1, <1>2, <1>6, <1>7, <1>9, <2>1, <2>3, RecordsStayOwn, AnswerKeepsInv
<1>10. ASSUME page' = Stranded(page, c.plan), pending' = Nothing, pointer' = pointer
       PROVE  TabInv'
  <2>1. /\ page' \in Page /\ page'.active = page.active /\ page'.access = page.access
        /\ page'.intent = NoIntent /\ page'.ui = "error" /\ page'.shown = c.plan
        /\ page'.busy = FALSE
    BY <1>0, <1>10, StrandedPage
  <2>2. Saved(page.shown, page.active)'
    BY <1>1, <1>2, <2>1 DEF Saved, Own, Written, ledgerVars
  <2>3. AccessFollowsAccount(page)' /\ PageIsOwn(page)'
    BY <1>1, <1>2, <2>1, <2>2, ServedPageStays, SettledPageIsOwn
  <2> QED
    BY <1>1, <1>10, <2>1, <2>3, RecordsStayOwn, AnswerKeepsInv
<1>11. ASSUME outcome[c.key] \in Refused, NEW action \in {"retry-new", "refresh-plan"},
              page' = [Failed(page, action, c.plan) EXCEPT !.outdated = @ \/ action = "refresh-plan"],
              pending' = Nothing, pointer' = pointer
       PROVE  TabInv'
  <2>1. /\ page' \in Page /\ page'.active = page.active /\ page'.access = page.access
        /\ page'.intent = page.intent /\ page'.ui = "error" /\ page'.action = action
        /\ page'.shown = c.plan /\ page'.busy = FALSE
    BY <1>0, <1>11 DEF Failed, Page, Action
  <2>2. Own(c.key, page.active)' /\ Saved(c.plan, page.active)'
    BY <1>1, <1>2, <2>1 DEF Own, Saved, Written, ledgerVars
  <2>3. outcome'[page'.intent.key] \in Refused
    BY <1>1, <1>4, <1>11, <2>1 DEF ledgerVars
  <2>4. PageIsOwn(page)'
    BY <1>3, <1>4, <1>11, <2>1, <2>2, <2>3 DEF PageIsOwn, Saved
  <2>5. AccessFollowsAccount(page)'
    BY <1>1, <1>2, <2>1, ServedPageStays
  <2> QED
    BY <1>1, <1>11, <2>1, <2>4, <2>5, RecordsStayOwn, AnswerKeepsInv
<1>12. CASE AnswerCompleted(c)
  BY <1>8, <1>9, <1>12 DEF AnswerCompleted
<1>13. CASE AnswerUnresolved(c) \/ AnswerInadmissible(c)
  <2>1. CASE AnswerUnresolved(c)
    BY <1>8, <2>1 DEF AnswerUnresolved
  <2>2. CASE AnswerInadmissible(c)
    BY <1>10, <2>2 DEF AnswerInadmissible
  <2> QED BY <1>13, <2>1, <2>2
<1>14. CASE AnswerRefused(c)
  <2>1. outcome[c.key] \in Refused /\ pending' = Nothing /\ pointer' = pointer
    BY <1>14 DEF AnswerRefused, Refused
  <2>2. PICK action \in {"none", "retry-new", "refresh-plan"} :
          page' = IF action = "none" THEN Stranded(page, c.plan)
                  ELSE [Failed(page, action, c.plan)
                          EXCEPT !.outdated = @ \/ action = "refresh-plan"]
    BY <1>14 DEF AnswerRefused, Resolutions
  <2>3. CASE action = "none"
    BY <1>10, <2>1, <2>2, <2>3
  <2>4. CASE action # "none"
    BY <1>11, <2>1, <2>2, <2>4
  <2> QED BY <2>3, <2>4
<1> QED
  BY <1>12, <1>13, <1>14 DEF AnswerExecute

LEMMA RefreshAnswerKeepsInv ==
  ASSUME TabInv, NEW c \in awaited, AnswerRefresh(c)
  PROVE  TabInv'
<1>1. /\ Current(c) /\ Answered(c) /\ c.kind = "refresh"
      /\ UNCHANGED <<account, ledgerVars, asked, pending, epoch>>
  BY DEF AnswerRefresh
<1>2. /\ c.plan \in Operation \cup {Nothing}
      /\ page \in Page /\ page.active \in Customer
      /\ AccessFollowsAccount(page) /\ PageIsOwn(page)
      /\ page.access \in {"ready", "recovery"} /\ page.busy
      /\ page.intent = IntentOf(c)
      /\ Own(c.key, page.active) /\ Saved(c.plan, page.active)
  BY <1>1, AnsweredCall
<1>3. c.plan \in Operation /\ c.plan # Nothing
  BY <1>1, <1>2 DEF TabInv, CallsAreOwn
<1>0. page \in Page /\ c.plan \in Operation \cup {Nothing}
  BY <1>2
<1>4. page.intent.kind = "refresh" /\ page.intent.key = c.key /\ page.intent.plan = c.plan
  BY <1>1, <1>2 DEF IntentOf, Intent
<1>5. ASSUME page' = Ready([page EXCEPT !.outdated = FALSE], c.plan), PointTo(c.plan)
      PROVE  TabInv'
  <2>1. /\ page' \in Page /\ page'.active = page.active /\ page'.access = page.access
        /\ page'.intent = NoIntent /\ page'.ui = "ready" /\ page'.shown = c.plan
        /\ page'.busy = FALSE
    BY <1>0, <1>5 DEF Ready, Page, NoIntent
  <2>2. Saved(page.shown, page.active)'
    BY <1>1, <1>2, <2>1 DEF Saved, Own, Written, ledgerVars
  <2>3. AccessFollowsAccount(page)' /\ PageIsOwn(page)'
    BY <1>1, <1>2, <2>1, <2>2, ServedPageStays, SettledPageIsOwn
  <2> QED
    BY <1>1, <1>2, <1>3, <1>5, <2>1, <2>3, RecordsStayOwn, AnswerKeepsInv
<1>6. ASSUME NEW p \in {page, [page EXCEPT !.outdated = FALSE]}, NEW action \in {"none", "retry-same"},
             page' = Failed(p, action, c.plan), pointer' = pointer
      PROVE  TabInv'
  <2>1. /\ page' \in Page /\ page'.active = page.active /\ page'.access = page.access
        /\ page'.intent = page.intent /\ page'.ui = "error" /\ page'.action = action
        /\ page'.shown = c.plan /\ page'.busy = FALSE
    BY <1>0, <1>6 DEF Failed, Page, Action
  <2>2. Own(c.key, page.active)' /\ Saved(c.plan, page.active)'
    BY <1>1, <1>2, <2>1 DEF Own, Saved, Written, ledgerVars
  <2>3. PageIsOwn(page)'
    BY <1>4, <2>1, <2>2 DEF PageIsOwn, Saved
  <2>4. AccessFollowsAccount(page)'
    BY <1>1, <1>2, <2>1, ServedPageStays
  <2> QED
    BY <1>1, <1>6, <2>1, <2>3, <2>4, RecordsStayOwn, AnswerKeepsInv
<1>7. CASE PointTo(c.plan) /\ page' = Ready([page EXCEPT !.outdated = FALSE], c.plan)
  BY <1>5, <1>7
<1>8. CASE page' = Failed([page EXCEPT !.outdated = FALSE], "retry-same", c.plan) /\ pointer' = pointer
  BY <1>6, <1>8
<1>9. CASE page' \in {Failed(page, a, c.plan) : a \in {"none", "retry-same"}} /\ pointer' = pointer
  BY <1>6, <1>9
<1> QED
  BY <1>7, <1>8, <1>9 DEF AnswerRefresh

(* Nobody is signed in: the page stays as empty as it is.                  *)
LEMMA NoSessionKeepsInv ==
  ASSUME TabInv, NEW c \in awaited, AnswerNoSession(c)
  PROVE  TabInv'
<1>1. /\ Current(c) /\ Answered(c) /\ c.kind = "session"
      /\ UNCHANGED <<account, ledgerVars, asked, pending, pointer, epoch>>
      /\ page' = [page EXCEPT !.access = "signed-out", !.active = Nothing]
  BY DEF AnswerNoSession
<1>2. page \in Page /\ page.access = "loading" /\ page = EmptyPage(page.active)
  BY <1>1, AnsweredAlone DEF CallIsOfPage, AccessFollowsAccount
<1>3. /\ page.ui = "idle" /\ page.shown = Nothing /\ page.busy = FALSE
      /\ page.intent = NoIntent
  <2>1. PICK active \in Customer \cup {Nothing} : active = page.active
    BY <1>2 DEF Page
  <2> QED
    BY <1>2, <2>1 DEF EmptyPage
<1>4. /\ page' \in Page /\ page'.access = "signed-out" /\ page'.active = Nothing
      /\ page'.intent = NoIntent /\ page'.ui = "idle" /\ page'.shown = Nothing
      /\ page'.busy = FALSE
  BY <1>1, <1>2, <1>3 DEF Page, Action
<1>5. AccessFollowsAccount(page)'
  BY <1>4 DEF AccessFollowsAccount
<1>6. PageIsOwn(page)'
  BY <1>4, SettledPageIsOwn DEF Saved, Own
<1> QED
  BY <1>1, <1>4, <1>5, <1>6, RecordsStayOwn, AnswerKeepsInv

-----------------------------------------------------------------------------
\* Requests of the page

CallIsOwn(c) ==
  /\ c.kind # "session" /\ c.who # Nothing /\ Own(c.key, c.who) /\ Own(c.plan, c.who)
  /\ c.kind = "execute" => c.key # Nothing
  /\ c.kind \in {"restore", "refresh"} => c.plan # Nothing
  /\ c.kind \in {"execute", "refresh"} => Saved(c.plan, c.who)

(* A page that waits for no other call may make one of its own.            *)
LEMMA AskKeepsInv ==
  ASSUME TabInv, NEW calls \in SUBSET awaited, NEW c0 \in Call, awaited' = calls \cup {c0},
         \A d \in calls : d.epoch # epoch,
         UNCHANGED <<account, ledgerVars, epoch>>,
         asked' \in [Operation -> PendingOperation \cup {Nothing}], RequestsAreSound',
         \A k \in Operation \cup {Nothing} : \A who : Own(k, who) => Own(k, who)',
         c0.epoch = epoch, CallIsOwn(c0)',
         page' \in Page, CallIsOfPage(c0, page)', AccessFollowsAccount(page)', PageIsOwn(page)',
         RecordsAreOwn',
         pending' \in [key : Operation, owner : Customer] \cup {Nothing},
         pointer' \in [plan : Operation, owner : Customer] \cup {Nothing}
  PROVE  TabInv'
<1>1. TabTypeOK'
  BY DEF TabInv, TabTypeOK, ledgerVars
<1>2. \A d \in awaited' : d = c0 \/ (d \in calls /\ d \in awaited /\ d.epoch # epoch)
  OBVIOUS
<1>3. epoch' = epoch /\ rows' = rows /\ epoch \in Nat /\ c0 \in awaited'
  BY DEF ledgerVars, TabInv, TabTypeOK
<1>4. CallsAreOwn'
  <2> SUFFICES ASSUME NEW c \in awaited'
      PROVE  /\ c.epoch <= epoch
             /\ c.kind # "session" => c.who # Nothing /\ Own(c.key, c.who)' /\ Own(c.plan, c.who)'
             /\ c.kind = "execute" => c.key # Nothing
             /\ c.kind \in {"restore", "refresh"} => c.plan # Nothing
             /\ c.kind \in {"execute", "refresh"} => Saved(c.plan, c.who)'
    BY <1>3 DEF CallsAreOwn
  <2>1. CASE c = c0
    BY <2>1, <1>3 DEF CallIsOwn
  <2>2. CASE c \in awaited
    <3>1. c.key \in Operation \cup {Nothing} /\ c.plan \in Operation \cup {Nothing}
      BY <2>2 DEF TabInv, TabTypeOK, Call
    <3>2. /\ c.epoch <= epoch
          /\ c.kind # "session" => c.who # Nothing /\ Own(c.key, c.who) /\ Own(c.plan, c.who)
          /\ c.kind = "execute" => c.key # Nothing
          /\ c.kind \in {"restore", "refresh"} => c.plan # Nothing
          /\ c.kind \in {"execute", "refresh"} => Saved(c.plan, c.who)
      BY <2>2 DEF TabInv, CallsAreOwn
    <3>3. Saved(c.plan, c.who) => Saved(c.plan, c.who)'
      BY <1>3, <3>1 DEF Saved, Written
    <3> QED
      BY <3>1, <3>2, <3>3
  <2> QED
    BY <1>2, <2>1, <2>2
<1>5. OneCallAtATime'
  BY <1>2, <1>3 DEF OneCallAtATime
<1>6. PageWaits(page)'
  <2>1. \A d \in awaited' : d.epoch = epoch' => CallIsOfPage(d, page)'
    BY <1>2, <1>3
  <2>2. c0.epoch = epoch' /\ c0.kind # "session"
    BY <1>3 DEF CallIsOwn
  <2> QED
    BY <1>3, <2>1, <2>2 DEF PageWaits
<1> QED
  BY <1>1, <1>4, <1>5, <1>6 DEF TabInv

\* A page that is not busy, and knows its customer, waits for nothing.
LEMMA IdlePageWaitsForNothing ==
  ASSUME TabInv, page # Nothing, ~ page.busy, page.access # "loading"
  PROVE  \A d \in awaited : d.epoch # epoch
BY DEF TabInv, PageWaits, CallIsOfPage

\* A page that shows an error serves somebody.
LEMMA ErrorPageServes ==
  ASSUME TabInv, page # Nothing, page.ui = "error"
  PROVE  page.access \in {"ready", "recovery"}
<1>1. PICK p \in Page : p = page
  BY DEF TabInv, TabTypeOK
<1>2. AccessFollowsAccount(p) /\ p.ui = "error"
  BY <1>1 DEF TabInv
<1>3. p.access # "loading"
  <2> SUFFICES ASSUME p.access = "loading" PROVE FALSE
    OBVIOUS
  <2>1. PICK active \in Customer \cup {Nothing} : p = EmptyPage(active)
    BY <1>2 DEF AccessFollowsAccount, Page
  <2>2. p.ui = "idle"
    BY <2>1 DEF EmptyPage
  <2> QED BY <1>2, <2>2
<1>4. p.access # "signed-out"
  BY <1>2 DEF AccessFollowsAccount
<1> QED
  BY <1>1, <1>3, <1>4 DEF Page

LEMMA ServesACustomer ==
  ASSUME TabInv, page # Nothing, page.access \in {"ready", "recovery"}
  PROVE  page \in Page /\ page.active \in Customer
<1>1. page \in Page /\ page.active # Nothing
  BY DEF TabInv, TabTypeOK, AccessFollowsAccount
<1> QED
  BY <1>1 DEF Page

LEMMA RetryRestoreKeepsInv == TabInv /\ RetryRestore => TabInv'
<1> SUFFICES ASSUME TabInv, RetryRestore PROVE TabInv'
  OBVIOUS
<1>1. /\ page # Nothing /\ page.ui = "error" /\ page.intent.kind = "restore" /\ ~ page.busy
      /\ page.access = "ready"
      /\ UNCHANGED <<account, ledgerVars, asked, pending, pointer, epoch>>
  BY DEF RetryRestore, OffersRetry
<1>2. page \in Page /\ page.active \in Customer /\ page.active # Nothing
  BY <1>1, ServesACustomer DEF TabInv, AccessFollowsAccount
<1>3. AccessFollowsAccount(page) /\ PageIsOwn(page)
  BY <1>1 DEF TabInv
<1>4. PICK key \in Operation \cup {Nothing}, plan \in Operation \cup {Nothing} :
        key = page.intent.key /\ plan = page.intent.plan
  BY <1>2 DEF Page
<1>5. /\ Own(key, page.active) /\ Own(plan, page.active) /\ plan # Nothing
      /\ key # Nothing => pending = [key |-> key, owner |-> page.active]
  BY <1>1, <1>3, <1>4 DEF PageIsOwn
<1>6. PICK c0 : c0 = CallTo("restore", epoch, key, plan, page.active)
  OBVIOUS
<1>7. /\ c0 \in Call /\ c0.kind = "restore" /\ c0.epoch = epoch /\ c0.key = key
      /\ c0.plan = plan /\ c0.who = page.active
      /\ IntentOf(c0) = Intent("restore", key, plan)
  BY <1>2, <1>6 DEF CallTo, Call, IntentOf, TabInv, TabTypeOK
<1>8. awaited' = awaited \cup {c0} /\ page' = Loading(page, Intent("restore", key, plan))
  BY <1>4, <1>6 DEF RetryRestore, Asks, Restoring
<1>9. /\ page' \in Page /\ page'.active = page.active /\ page'.access = page.access
      /\ page'.intent = Intent("restore", key, plan)
      /\ page'.ui = "loading" /\ page'.shown = Nothing /\ page'.busy = TRUE
  BY <1>2, <1>8, LoadingPage
<1>10. page'.intent.kind = "restore" /\ page'.intent.key = key /\ page'.intent.plan = plan
  BY <1>9 DEF Intent
<1>11. Own(key, page.active)' /\ Own(plan, page.active)'
  BY <1>1, <1>5, <1>9 DEF Own
<1>12. PageIsOwn(page)'
  BY <1>1, <1>5, <1>9, <1>10, <1>11 DEF PageIsOwn, Saved, Own
<1>13. AccessFollowsAccount(page)'
  BY <1>1, <1>3, <1>9, ServedPageStays
<1>14. CallIsOfPage(c0, page)'
  BY <1>1, <1>7, <1>9 DEF CallIsOfPage
<1>15. CallIsOwn(c0)'
  BY <1>2, <1>5, <1>7, <1>9, <1>11 DEF CallIsOwn
<1>16. \A d \in awaited : d.epoch # epoch
  BY <1>1, IdlePageWaitsForNothing
<1>17. RequestsAreSound' /\ \A k \in Operation \cup {Nothing} : \A who : Own(k, who) => Own(k, who)'
  BY <1>1 DEF TabInv, RequestsAreSound, Own, Written, ledgerVars
<1> QED
  BY <1>1, <1>7, <1>8, <1>9, <1>12, <1>13, <1>14, <1>15, <1>16, <1>17, RecordsStayOwn,
     AskKeepsInv DEF TabInv, TabTypeOK

LEMMA RefreshLatestKeepsInv == TabInv /\ RefreshLatest => TabInv'
<1> SUFFICES ASSUME TabInv, RefreshLatest PROVE TabInv'
  OBVIOUS
<1>1. /\ page # Nothing /\ page.ui = "error" /\ ~ page.busy
      /\ UNCHANGED <<account, ledgerVars, asked, pending, pointer, epoch>>
  BY DEF RefreshLatest
<1>2. page \in Page /\ page.active \in Customer /\ page.access \in {"ready", "recovery"}
  BY <1>1, ServesACustomer, ErrorPageServes
<1>3. AccessFollowsAccount(page) /\ PageIsOwn(page) /\ page.active # Nothing
  BY <1>1, <1>2 DEF TabInv, AccessFollowsAccount
<1>4. PICK plan \in Operation :
        /\ plan = page.shown \/ (page.intent.kind = "refresh" /\ plan = page.intent.plan)
        /\ page' = Loading(page, Intent("refresh", Nothing, plan))
        /\ Asks(CallTo("refresh", epoch, Nothing, plan, page.active))
  BY DEF RefreshLatest, OffersRetry
<1>5. plan # Nothing /\ Saved(plan, page.active)
  BY <1>3, <1>4, PlannerTabAssumption DEF PageIsOwn, PlannerTabAssumption
<1>6. PICK c0 : c0 = CallTo("refresh", epoch, Nothing, plan, page.active)
  OBVIOUS
<1>7. /\ c0 \in Call /\ c0.kind = "refresh" /\ c0.epoch = epoch /\ c0.key = Nothing
      /\ c0.plan = plan /\ c0.who = page.active
      /\ IntentOf(c0) = Intent("refresh", Nothing, plan)
  BY <1>2, <1>6 DEF CallTo, Call, IntentOf, TabInv, TabTypeOK
<1>8. awaited' = awaited \cup {c0} /\ page' = Loading(page, Intent("refresh", Nothing, plan))
  BY <1>4, <1>6 DEF Asks
<1>9. /\ page' \in Page /\ page'.active = page.active /\ page'.access = page.access
      /\ page'.intent = Intent("refresh", Nothing, plan)
      /\ page'.ui = "loading" /\ page'.shown = Nothing /\ page'.busy = TRUE
  BY <1>2, <1>8, LoadingPage
<1>10. page'.intent.kind = "refresh" /\ page'.intent.key = Nothing /\ page'.intent.plan = plan
  BY <1>9 DEF Intent
<1>11. Saved(plan, page.active)' /\ Own(plan, page.active)'
  BY <1>1, <1>5, <1>9 DEF Own, Saved, Written, ledgerVars
<1>12. PageIsOwn(page)'
  BY <1>9, <1>10, <1>11 DEF PageIsOwn, Saved, Own
<1>13. AccessFollowsAccount(page)'
  BY <1>1, <1>2, <1>3, <1>9, ServedPageStays
<1>14. CallIsOfPage(c0, page)'
  BY <1>2, <1>7, <1>9 DEF CallIsOfPage
<1>15. CallIsOwn(c0)'
  BY <1>3, <1>5, <1>7, <1>9, <1>11 DEF CallIsOwn, Own
<1>16. \A d \in awaited : d.epoch # epoch
  BY <1>1, <1>2, IdlePageWaitsForNothing
<1>17. RequestsAreSound' /\ \A k \in Operation \cup {Nothing} : \A who : Own(k, who) => Own(k, who)'
  BY <1>1 DEF TabInv, RequestsAreSound, Own, Written, ledgerVars
<1> QED
  BY <1>1, <1>7, <1>8, <1>9, <1>12, <1>13, <1>14, <1>15, <1>16, <1>17, RecordsStayOwn,
     AskKeepsInv DEF TabInv, TabTypeOK

(* The customer is known: what the browser remembers of them is taken up.  *)
LEMMA SessionKeepsInv ==
  ASSUME TabInv, NEW c \in awaited, AnswerSession(c)
  PROVE  TabInv'
<1>1. /\ Current(c) /\ c.kind = "session" /\ c.who # Nothing
      /\ UNCHANGED <<account, ledgerVars, asked, epoch>>
      /\ pending' \in ReadRecord(pending, c.who) /\ pointer' \in ReadRecord(pointer, c.who)
  BY DEF AnswerSession
<1>2. /\ page \in Page /\ page.access = "loading" /\ page = EmptyPage(page.active)
      /\ account # Nothing => c.who = account
      /\ \A d \in awaited \ {c} : d.epoch # epoch
  BY <1>1, AnsweredAlone DEF CallIsOfPage, AccessFollowsAccount
<1>3. c.who \in Customer
  BY <1>1 DEF TabInv, TabTypeOK, Call
<1>4. /\ page.ui = "idle" /\ page.shown = Nothing /\ page.busy = FALSE
      /\ page.intent = NoIntent
  <2>1. PICK active \in Customer \cup {Nothing} : active = page.active
    BY <1>2 DEF Page
  <2> QED
    BY <1>2, <2>1 DEF EmptyPage
<1>5. /\ pending' \in {pending, Nothing} /\ pointer' \in {pointer, Nothing}
      /\ pending' # Nothing => pending'.owner = c.who
      /\ pointer' # Nothing => pointer'.owner = c.who
  BY <1>1 DEF ReadRecord
<1>6. /\ RecordsAreOwn'
      /\ pending' \in [key : Operation, owner : Customer] \cup {Nothing}
      /\ pointer' \in [plan : Operation, owner : Customer] \cup {Nothing}
  BY <1>1, <1>5, RecordsStayOwn
<1>7. PICK key : key = IF pending' = Nothing THEN Nothing ELSE pending'.key
  OBVIOUS
<1>8. PICK plan : plan = CASE pointer' # Nothing -> pointer'.plan
                           [] pointer' = Nothing /\ key # Nothing /\ Refines(key) -> asked[key].plan
                           [] OTHER -> Nothing
  OBVIOUS
<1>9. /\ key \in Operation \cup {Nothing}
      /\ key # Nothing => pending' = [key |-> key, owner |-> c.who]
      /\ Own(key, c.who)' /\ Own(key, c.who)
  BY <1>1, <1>5, <1>6, <1>7 DEF RecordsAreOwn, Own
<1>10. plan \in Operation \cup {Nothing} /\ Own(plan, c.who)'
  <2>1. CASE pointer' # Nothing
    <3>1. plan = pointer'.plan /\ pointer'.plan \in Operation
      BY <1>6, <1>8, <2>1
    <3> QED
      BY <1>5, <1>6, <2>1, <3>1 DEF RecordsAreOwn, Saved, Own
  <2>2. CASE pointer' = Nothing /\ key # Nothing /\ Refines(key)
    <3>1. plan = asked[key].plan /\ asked[key] # Nothing /\ asked[key].by = c.who
      BY <1>8, <1>9, <2>2 DEF Own
    <3>2. plan \in Operation
      BY <1>9, <2>2, <3>1 DEF TabInv, TabTypeOK, PendingOperation
    <3>3. Own(plan, c.who)
      BY <1>9, <2>2, <3>1 DEF TabInv, RequestsAreSound
    <3> QED
      BY <1>1, <3>2, <3>3 DEF Own
  <2>3. CASE pointer' = Nothing /\ ~ (key # Nothing /\ Refines(key))
    BY <1>8, <2>3 DEF Own
  <2> QED
    BY <2>1, <2>2, <2>3
<1>11. PICK handoff \in BOOLEAN :
         LET p == [page EXCEPT !.active = c.who, !.access = "ready", !.form = handoff] IN
           /\ page' = CASE plan # Nothing -> Restoring(p, key, plan)
                        [] plan = Nothing /\ key = Nothing -> Admitted(p, handoff)
                        [] OTHER -> [Failed(Admitted(p, handoff), "retry-same", Nothing)
                                       EXCEPT !.intent = Intent("operation", key, Nothing)]
           /\ awaited' = (awaited \ {c}) \cup
                (IF plan = Nothing THEN {} ELSE {CallTo("restore", epoch, key, plan, c.who)})
  BY <1>7, <1>8 DEF AnswerSession
<1>12. PICK p : p = [page EXCEPT !.active = c.who, !.access = "ready", !.form = handoff]
  OBVIOUS
<1>13. /\ p \in Page /\ p.active = c.who /\ p.access = "ready" /\ p.ui = "idle"
       /\ p.shown = Nothing /\ p.busy = FALSE /\ p.intent = NoIntent
  BY <1>2, <1>3, <1>4, <1>12 DEF Page
<1>14. RequestsAreSound' /\ \A k \in Operation \cup {Nothing} : \A who : Own(k, who) => Own(k, who)'
  BY <1>1 DEF TabInv, RequestsAreSound, Own, Written, ledgerVars
<1>15. CASE plan # Nothing
  <2>1. PICK c0 : c0 = CallTo("restore", epoch, key, plan, c.who)
    OBVIOUS
  <2>2. /\ c0 \in Call /\ c0.kind = "restore" /\ c0.epoch = epoch /\ c0.key = key
        /\ c0.plan = plan /\ c0.who = c.who
        /\ IntentOf(c0) = Intent("restore", key, plan)
    BY <1>3, <1>9, <1>10, <2>1 DEF CallTo, Call, IntentOf, TabInv, TabTypeOK
  <2>3. /\ awaited' = (awaited \ {c}) \cup {c0}
        /\ page' = Loading(p, Intent("restore", key, plan))
    BY <1>11, <1>12, <1>15, <2>1 DEF Restoring
  <2>4. /\ page' \in Page /\ page'.active = c.who /\ page'.access = "ready"
        /\ page'.intent = Intent("restore", key, plan)
        /\ page'.ui = "loading" /\ page'.shown = Nothing /\ page'.busy = TRUE
    BY <1>9, <1>10, <1>13, <2>3 DEF Loading, Page, Intent
  <2>5. page'.intent.kind = "restore" /\ page'.intent.key = key /\ page'.intent.plan = plan
    BY <2>4 DEF Intent
  <2>6. PageIsOwn(page)'
    BY <1>9, <1>10, <1>15, <2>4, <2>5 DEF PageIsOwn, Saved, Own
  <2>7. AccessFollowsAccount(page)'
    BY <1>1, <1>2, <2>4 DEF AccessFollowsAccount
  <2>8. CallIsOfPage(c0, page)'
    BY <2>2, <2>4 DEF CallIsOfPage
  <2>9. CallIsOwn(c0)'
    BY <1>1, <1>9, <1>10, <1>15, <2>2 DEF CallIsOwn
  <2> QED
    BY <1>1, <1>2, <1>6, <1>14, <2>2, <2>3, <2>4, <2>6, <2>7, <2>8, <2>9, AskKeepsInv
    DEF TabInv, TabTypeOK
<1>16. CASE plan = Nothing /\ key = Nothing
  <2>1. page' = Admitted(p, handoff) /\ Answered(c)
    BY <1>11, <1>12, <1>16 DEF Answered
  <2>2. /\ page' \in Page /\ page'.active = c.who /\ page'.access \in {"ready", "recovery"}
        /\ page'.intent = NoIntent /\ page'.ui = "idle" /\ page'.shown = Nothing
        /\ page'.busy = FALSE
    BY <1>13, <2>1 DEF Admitted, Page
  <2>3. PageIsOwn(page)'
    BY <2>2, SettledPageIsOwn DEF Saved, Own
  <2>4. AccessFollowsAccount(page)'
    BY <1>1, <1>2, <2>2 DEF AccessFollowsAccount
  <2> QED
    BY <1>1, <1>6, <2>1, <2>2, <2>3, <2>4, AnswerKeepsInv
<1>17. CASE plan = Nothing /\ key # Nothing
  <2>1. /\ page' = [Failed(Admitted(p, handoff), "retry-same", Nothing)
                      EXCEPT !.intent = Intent("operation", key, Nothing)]
        /\ Answered(c)
    BY <1>11, <1>12, <1>17 DEF Answered
  <2>2. /\ page' \in Page /\ page'.active = c.who /\ page'.access \in {"ready", "recovery"}
        /\ page'.intent = Intent("operation", key, Nothing) /\ page'.ui = "error"
        /\ page'.action = "retry-same" /\ page'.shown = Nothing /\ page'.busy = FALSE
    <3>1. PICK q : q = Admitted(p, handoff)
      OBVIOUS
    <3>2. q \in Page /\ q.active = c.who /\ q.access \in {"ready", "recovery"}
      BY <1>13, <3>1 DEF Admitted, Page
    <3>3. page' = [Failed(q, "retry-same", Nothing) EXCEPT !.intent = Intent("operation", key, Nothing)]
      BY <2>1, <3>1
    <3>4. Intent("operation", key, Nothing) \in [kind : {"none", "operation", "restore", "refresh"},
            key : Operation \cup {Nothing}, plan : Operation \cup {Nothing}]
      BY <1>9 DEF Intent
    <3> HIDE DEF Intent
    <3> QED
      BY <3>2, <3>3, <3>4 DEF Failed, Page, Action
  <2>3. /\ page'.intent.kind = "operation" /\ page'.intent.key = key
        /\ page'.intent.plan = Nothing
    BY <2>2 DEF Intent
  <2>4. PageIsOwn(page)'
    BY <1>9, <1>17, <2>2, <2>3 DEF PageIsOwn, Saved, Own
  <2>5. AccessFollowsAccount(page)'
    BY <1>1, <1>2, <2>2 DEF AccessFollowsAccount
  <2> QED
    BY <1>1, <1>6, <2>1, <2>2, <2>4, <2>5, AnswerKeepsInv
<1> QED
  BY <1>15, <1>16, <1>17

(* A request of the page, made for the first time or again under its key.  *)
LEMMA ExecuteKeepsInv ==
  ASSUME TabInv, page # Nothing, NEW key \in Operation, NEW request \in PendingOperation,
         NEW previous \in Operation \cup {Nothing}, Execute(key, request, previous),
         request.by = page.active,
         Own(request.plan, page.active) \/ request.plan = key,
         asked[key] \in {Nothing, request},
         Saved(previous, page.active)
  PROVE  TabInv'
<1>1. /\ ~ page.busy /\ page.access = "ready"
      /\ UNCHANGED <<account, ledgerVars, pointer, epoch>>
  BY DEF Execute
<1>2. page \in Page /\ page.active \in Customer /\ AccessFollowsAccount(page)
  BY <1>1, ServesACustomer DEF TabInv
<1>3. key # Nothing
  BY PlannerTabAssumption DEF PlannerTabAssumption
<1>4. \A d \in awaited : d.epoch # epoch
  BY <1>1, IdlePageWaitsForNothing
<1>5. ASSUME NEW r \in PendingOperation, r.by = request.by, r.plan = request.plan,
             asked' = [asked EXCEPT ![key] = r]
      PROVE  /\ asked' \in [Operation -> PendingOperation \cup {Nothing}]
             /\ RequestsAreSound'
             /\ \A k \in Operation \cup {Nothing} : \A who : Own(k, who) => Own(k, who)'
             /\ Own(key, request.by)'
  <2>1. AsksFor(key, r)
    BY <1>5 DEF AsksFor
  <2>2. RequestsAreSound'
    BY <1>1, <1>5, <2>1, AskingIsSound DEF TabInv
  <2>3. \A k \in Operation \cup {Nothing} : \A who : Own(k, who) => Own(k, who)'
    BY <2>1, AskedStays DEF TabInv
  <2>4. Own(key, request.by)'
    BY <1>5, <2>1, AskedIsOwn DEF TabInv, Own
  <2>5. asked' \in [Operation -> PendingOperation \cup {Nothing}]
    BY <1>5 DEF TabInv, TabTypeOK
  <2> QED
    BY <2>2, <2>3, <2>4, <2>5
<1>6. ASSUME NEW r \in PendingOperation, r.by = request.by, r.plan = request.plan,
             asked' = [asked EXCEPT ![key] = r],
             page' \in Page, page'.active = page.active, page'.access = page.access,
             page'.intent = Intent("operation", key, previous), page'.shown \in {previous, Nothing},
             page'.busy <=> page'.ui = "loading",
             page'.busy \/ (page'.action = "retry-same" /\ ~ page'.unsaved) =>
               pending' = [key |-> key, owner |-> page.active],
             page'.ui = "error" => page'.action = "retry-same"
      PROVE  PageIsOwn(page)' /\ AccessFollowsAccount(page)'
  <2>1. Own(key, page.active)' /\ Saved(previous, page.active)' /\ Saved(Nothing, page.active)'
    BY <1>1, <1>2, <1>5, <1>6 DEF Saved, Own, Written, ledgerVars
  <2>2. /\ page'.intent.kind = "operation" /\ page'.intent.key = key
        /\ page'.intent.plan = previous
    BY <1>6 DEF Intent
  <2>3. Saved(page.shown, page.active)'
    BY <1>6, <2>1
  <2>4. PageIsOwn(page)'
    BY <1>3, <1>6, <2>1, <2>2, <2>3 DEF PageIsOwn, Saved
  <2> QED
    BY <1>1, <1>2, <1>6, <2>4, ServedPageStays
<1>7. CASE /\ page' = [Failed(page, "retry-same", previous)
                         EXCEPT !.intent = Intent("operation", key, previous), !.unsaved = TRUE]
           /\ asked' = [asked EXCEPT ![key] = request]
           /\ UNCHANGED <<pending, awaited>>
  <2>1. /\ page' \in Page
        /\ page'.active = page.active /\ page'.access = page.access
        /\ page'.intent = Intent("operation", key, previous)
        /\ page'.ui = "error" /\ page'.action = "retry-same" /\ page'.shown = previous
        /\ page'.unsaved = TRUE /\ page'.busy = FALSE
    BY <1>2, <1>7, RetryablePage
  <2>2. PageIsOwn(page)' /\ AccessFollowsAccount(page)'
    BY <1>6, <1>7, <2>1
  <2>3. /\ asked' \in [Operation -> PendingOperation \cup {Nothing}] /\ RequestsAreSound'
        /\ \A k \in Operation \cup {Nothing} : \A who : Own(k, who) => Own(k, who)'
    BY <1>5, <1>7
  <2>4. TabTypeOK'
    BY <1>1, <1>7, <2>1, <2>3 DEF TabInv, TabTypeOK, ledgerVars
  <2>5. \A plan \in Operation \cup {Nothing} : \A who : Saved(plan, who) => Saved(plan, who)'
    BY <1>1, <2>3 DEF Saved, Written, ledgerVars
  <2>6. RecordsAreOwn'
    <3>1. pending # Nothing => Own(pending.key, pending.owner)'
      <4>1. PICK k, who : k = pending.key /\ who = pending.owner
        OBVIOUS
      <4>2. pending # Nothing => k \in Operation /\ Own(k, who)
        BY <4>1 DEF TabInv, TabTypeOK, RecordsAreOwn
      <4> QED
        BY <1>7, <2>3, <4>1, <4>2 DEF Own
    <3>2. pointer # Nothing => Saved(pointer.plan, pointer.owner)'
      <4>1. PICK plan, who : plan = pointer.plan /\ who = pointer.owner
        OBVIOUS
      <4>2. pointer # Nothing => plan \in Operation /\ Saved(plan, who)
        BY <4>1 DEF TabInv, TabTypeOK, RecordsAreOwn
      <4> QED
        BY <1>1, <2>5, <4>1, <4>2 DEF Saved, Own
    <3> QED
      BY <1>1, <1>7, <3>1, <3>2 DEF RecordsAreOwn, Saved, Own
  <2>7. CallsAreOwn'
    <3> SUFFICES ASSUME NEW c \in awaited
        PROVE  /\ c.epoch <= epoch
               /\ c.kind # "session" => c.who # Nothing /\ Own(c.key, c.who)' /\ Own(c.plan, c.who)'
               /\ c.kind = "execute" => c.key # Nothing
               /\ c.kind \in {"restore", "refresh"} => c.plan # Nothing
               /\ c.kind \in {"execute", "refresh"} => Saved(c.plan, c.who)'
      BY <1>1, <1>7 DEF CallsAreOwn
    <3>1. c.key \in Operation \cup {Nothing} /\ c.plan \in Operation \cup {Nothing}
      BY DEF TabInv, TabTypeOK, Call
    <3> QED
      BY <2>3, <2>5, <3>1 DEF TabInv, CallsAreOwn
  <2>8. OneCallAtATime' /\ PageWaits(page)'
    BY <1>1, <1>4, <1>7, <2>1 DEF OneCallAtATime, PageWaits
  <2> QED
    BY <2>2, <2>3, <2>4, <2>6, <2>7, <2>8 DEF TabInv
<1>8. CASE /\ pending' = [key |-> key, owner |-> page.active]
           /\ page' = Loading(page, Intent("operation", key, previous))
           /\ \E sent \in {FALSE, account # Nothing} :
                asked' = [asked EXCEPT ![key] = [request EXCEPT !.sent = @ \/ sent]]
           /\ Asks(CallTo("execute", epoch, key, previous, page.active))
  <2>1. PICK r \in PendingOperation : /\ r.by = request.by /\ r.plan = request.plan
                             /\ asked' = [asked EXCEPT ![key] = r]
    <3>1. PICK sent \in BOOLEAN :
            asked' = [asked EXCEPT ![key] = [request EXCEPT !.sent = @ \/ sent]]
      BY <1>8
    <3>2. PICK r : r = [request EXCEPT !.sent = @ \/ sent]
      OBVIOUS
    <3>3. /\ r \in PendingOperation /\ r.by = request.by /\ r.plan = request.plan
      BY <3>2 DEF PendingOperation
    <3> QED
      BY <3>1, <3>2, <3>3
  <2>2. /\ page' \in Page
        /\ page'.active = page.active /\ page'.access = page.access
        /\ page'.intent = Intent("operation", key, previous)
        /\ page'.ui = "loading" /\ page'.shown = Nothing /\ page'.busy = TRUE
    BY <1>2, <1>8, LoadingPage
  <2>3. PageIsOwn(page)' /\ AccessFollowsAccount(page)'
    BY <1>6, <1>8, <2>1, <2>2
  <2>4. /\ asked' \in [Operation -> PendingOperation \cup {Nothing}] /\ RequestsAreSound'
        /\ \A k \in Operation \cup {Nothing} : \A who : Own(k, who) => Own(k, who)'
        /\ Own(key, page.active)'
    BY <1>5, <2>1, <2>2 DEF Own
  <2>5. PICK c0 : c0 = CallTo("execute", epoch, key, previous, page.active)
    OBVIOUS
  <2>6. /\ c0 \in Call /\ c0.kind = "execute" /\ c0.epoch = epoch /\ c0.key = key
        /\ c0.plan = previous /\ c0.who = page.active
        /\ IntentOf(c0) = Intent("operation", key, previous)
    BY <1>2, <2>5 DEF CallTo, Call, IntentOf, TabInv, TabTypeOK
  <2>7. awaited' = awaited \cup {c0}
    BY <1>8, <2>5 DEF Asks
  <2>8. Saved(previous, page.active)'
    BY <1>1, <2>2, <2>4 DEF Saved, Written, ledgerVars
  <2>9. /\ pending' \in [key : Operation, owner : Customer] \cup {Nothing}
        /\ pointer' \in [plan : Operation, owner : Customer] \cup {Nothing}
    BY <1>1, <1>2, <1>8 DEF TabInv, TabTypeOK
  <2>10. RecordsAreOwn'
    <3>1. Own(pending.key, pending.owner)'
      BY <1>8, <2>2, <2>4 DEF Own
    <3>2. pointer # Nothing => Saved(pointer.plan, pointer.owner)'
      BY <1>1, <2>4 DEF TabInv, TabTypeOK, RecordsAreOwn, Saved, Written, ledgerVars
    <3> QED
      BY <1>1, <3>1, <3>2 DEF RecordsAreOwn, Saved, Own
  <2>11. CallIsOfPage(c0, page)'
    BY <1>1, <2>2, <2>6 DEF CallIsOfPage
  <2>12. CallIsOwn(c0)'
    <3>1. page.active # Nothing
      BY <1>2, PlannerTabAssumption DEF PlannerTabAssumption
    <3> QED
      BY <1>3, <2>2, <2>4, <2>6, <2>8, <3>1 DEF CallIsOwn, Saved
  <2> QED
    BY <1>1, <1>4, <2>2, <2>3, <2>4, <2>6, <2>7, <2>9, <2>10, <2>11, <2>12, AskKeepsInv
<1> QED
  BY <1>7, <1>8 DEF Execute

LEMMA NewKeyIsNew ==
  ASSUME KeyIsLeft
  PROVE  NewKey \in Operation /\ asked[NewKey] = Nothing
BY DEF KeyIsLeft, NewKey

LEMMA RequestsKeepInv ==
  ASSUME TabInv, Generate \/ Refine \/ RetrySame \/ RetryNew
  PROVE  TabInv'
<1>1. page # Nothing /\ page.access = "ready"
  BY DEF Generate, Refine, RetrySame, RetryNew, OffersRetry, Execute
<1>2. page \in Page /\ page.active \in Customer /\ PageIsOwn(page)
  BY <1>1, ServesACustomer DEF TabInv
<1>3. ASSUME NEW plan \in Operation
      PROVE  /\ FirstAsked(plan) \in PendingOperation
             /\ FirstAsked(plan).by = page.active /\ FirstAsked(plan).plan = plan
  BY <1>2 DEF FirstAsked, PendingOperation
<1>4. CASE Generate
  <2>1. PICK key \in Operation : /\ asked[key] = Nothing
                                 /\ Execute(key, FirstAsked(key), Nothing)
    BY <1>4, NewKeyIsNew DEF Generate
  <2>2. Saved(Nothing, page.active)
    BY DEF Saved, Own
  <2>3. PICK r : r = FirstAsked(key)
    OBVIOUS
  <2>4. r \in PendingOperation /\ r.by = page.active /\ r.plan = key
    BY <1>3, <2>3
  <2> QED
    BY <1>1, <2>1, <2>2, <2>3, <2>4, ExecuteKeepsInv
<1>5. CASE Refine
  <2>1. PICK key \in Operation, plan \in Operation :
          /\ asked[key] = Nothing /\ plan = page.shown
          /\ Execute(key, FirstAsked(plan), plan)
    BY <1>2, <1>5, NewKeyIsNew DEF Refine, Page
  <2>2. Saved(plan, page.active) /\ Own(plan, page.active)
    BY <1>2, <2>1 DEF PageIsOwn, Saved
  <2>3. PICK r : r = FirstAsked(plan)
    OBVIOUS
  <2>4. r \in PendingOperation /\ r.by = page.active /\ r.plan = plan
    BY <1>3, <2>3
  <2> QED
    BY <1>1, <2>1, <2>2, <2>3, <2>4, ExecuteKeepsInv
<1>6. ASSUME page.intent.kind = "operation"
      PROVE  \E old \in Operation, previous \in Operation \cup {Nothing} :
               /\ old = page.intent.key /\ previous = page.intent.plan
               /\ asked[old] \in PendingOperation /\ asked[old].by = page.active
               /\ asked[old].plan \in Operation /\ Own(asked[old].plan, page.active)
               /\ Saved(previous, page.active)
  <2>1. PICK old \in Operation \cup {Nothing}, previous \in Operation \cup {Nothing} :
          old = page.intent.key /\ previous = page.intent.plan
    BY <1>2 DEF Page
  <2>2. old # Nothing /\ Own(old, page.active) /\ Saved(previous, page.active)
    BY <1>2, <1>6, <2>1 DEF PageIsOwn
  <2>3. old \in Operation /\ asked[old] # Nothing /\ asked[old].by = page.active
    BY <2>1, <2>2 DEF Own
  <2>4. asked[old] \in PendingOperation /\ asked[old].plan \in Operation
    BY <2>3 DEF TabInv, TabTypeOK, PendingOperation
  <2>5. Own(asked[old].plan, page.active)
    BY <2>3 DEF TabInv, RequestsAreSound
  <2> QED
    BY <2>1, <2>2, <2>3, <2>4, <2>5
<1>7. CASE RetrySame
  <2>1. page.intent.kind = "operation"
    BY <1>7 DEF RetrySame, OffersRetry
  <2>2. PICK old \in Operation, previous \in Operation \cup {Nothing} :
          /\ old = page.intent.key /\ previous = page.intent.plan
          /\ asked[old] \in PendingOperation /\ asked[old].by = page.active
          /\ asked[old].plan \in Operation /\ Own(asked[old].plan, page.active)
          /\ Saved(previous, page.active)
    BY <1>6, <2>1
  <2>3. PICK r \in PendingOperation : r = asked[old]
    BY <2>2
  <2>4. Execute(old, r, previous)
    BY <1>7, <2>2, <2>3 DEF RetrySame
  <2> QED
    BY <1>1, <2>2, <2>3, <2>4, ExecuteKeepsInv
<1>8. CASE RetryNew
  <2>1. page.intent.kind = "operation" /\ page.ui = "error" /\ page.action = "retry-new"
    BY <1>8 DEF RetryNew, OffersRetry
  <2>2. PICK old \in Operation, previous \in Operation \cup {Nothing} :
          /\ old = page.intent.key /\ previous = page.intent.plan
          /\ asked[old] \in PendingOperation /\ asked[old].by = page.active
          /\ asked[old].plan \in Operation /\ Own(asked[old].plan, page.active)
          /\ Saved(previous, page.active)
    BY <1>6, <2>1
  <2>3. PICK key \in Operation :
          /\ asked[key] = Nothing
          /\ Execute(key, FirstAsked(IF Refines(old) THEN asked[old].plan ELSE key), previous)
    BY <1>8, <2>2, NewKeyIsNew DEF RetryNew
  <2>4. PICK plan \in Operation : plan = IF Refines(old) THEN asked[old].plan ELSE key
    BY <2>2
  <2>5. PICK r : r = FirstAsked(plan)
    OBVIOUS
  <2>6. /\ r \in PendingOperation /\ r.by = page.active /\ r.plan = plan
        /\ Execute(key, r, previous)
    BY <1>3, <2>3, <2>4, <2>5
  <2>7. Own(plan, page.active) \/ plan = key
    BY <2>2, <2>4
  <2> QED
    BY <1>1, <2>2, <2>3, <2>6, <2>7, ExecuteKeepsInv
<1> QED
  BY <1>4, <1>5, <1>7, <1>8

-----------------------------------------------------------------------------
LEMMA TabSteps == TabInv /\ [TabNext]_tabVars => TabInv'
<1> SUFFICES ASSUME TabInv, [TabNext]_tabVars PROVE TabInv'
  OBVIOUS
<1>1. CASE UNCHANGED tabVars
  <2>1. UNCHANGED <<account, ledgerVars, asked, pending, pointer, page, epoch, awaited>>
    BY <1>1 DEF tabVars, ledgerVars
  <2>2. TabTypeOK' /\ RequestsAreSound' /\ RecordsAreOwn'
    BY <2>1 DEF TabInv, TabTypeOK, RequestsAreSound, RecordsAreOwn, Own, Saved, Written, ledgerVars
  <2>3. CallsAreOwn' /\ OneCallAtATime'
    BY <2>1 DEF TabInv, CallsAreOwn, OneCallAtATime, Own, Saved, Written, ledgerVars
  <2>4. page # Nothing => AccessFollowsAccount(page)' /\ PageIsOwn(page)' /\ PageWaits(page)'
    BY <2>1 DEF TabInv, AccessFollowsAccount, PageIsOwn, PageWaits, CallIsOfPage, Own, Saved,
                Written, ledgerVars
  <2> QED
    BY <2>1, <2>2, <2>3, <2>4 DEF TabInv
<1>2. CASE OpenPage \/ ClosePage \/ \E customer \in Customer \cup {Nothing} : ChangeAccount(customer)
  BY <1>2, SessionsKeepInv
<1>3. ASSUME NEW c \in awaited,
             \/ LateAnswer(c) \/ AnswerNoSession(c) \/ AnswerSession(c)
             \/ AnswerRestore(c) \/ AnswerExecute(c) \/ AnswerRefresh(c)
      PROVE  TabInv'
  BY <1>3, LateKeepsInv, NoSessionKeepsInv, SessionKeepsInv, RestoreKeepsInv,
     ExecuteAnswerKeepsInv, RefreshAnswerKeepsInv
<1>4. CASE Generate \/ Refine \/ RetrySame \/ RetryNew
  BY <1>4, RequestsKeepInv
<1>5. CASE RetryRestore \/ RefreshLatest
  BY <1>5, RetryRestoreKeepsInv, RefreshLatestKeepsInv
<1>6. ASSUME NEW k \in Operation, Decide(k)
      PROVE  TabInv'
  BY <1>6, DecideKeepsInv
<1> QED
  BY <1>1, <1>2, <1>3, <1>4, <1>5, <1>6 DEF TabNext

(* However often customers sign in and out, leave and come back while      *)
(* calls are under way: the page waits exactly for a call of its own, and  *)
(* what it shows and what the browser remembers exist and belong to the    *)
(* customer it serves.                                                     *)
THEOREM PagesServeTheirCustomers == TabSpec => []PageServesItsCustomer
<1>1. TabInv => PageServesItsCustomer
  <2> SUFFICES ASSUME TabInv PROVE PageServesItsCustomer
    OBVIOUS
  <2>1. ASSUME page # Nothing
        PROVE  /\ page.busy <=> page.ui = "loading"
               /\ page.busy <=> \E c \in awaited : Current(c) /\ c.kind # "session"
               /\ page.access = "ready" /\ account # Nothing => page.active = account
               /\ page.shown # Nothing => Written(page.shown) /\ asked[page.shown].by = page.active
    <3>1. AccessFollowsAccount(page) /\ PageIsOwn(page) /\ PageWaits(page)
      BY <2>1 DEF TabInv
    <3>2. page.busy <=> page.ui = "loading"
      BY <3>1 DEF PageIsOwn
    <3>3. page.busy <=> \E c \in awaited : Current(c) /\ c.kind # "session"
      BY <2>1, <3>1 DEF PageWaits, CallIsOfPage, Current
    <3>4. page.access = "ready" /\ account # Nothing => page.active = account
      BY <3>1 DEF AccessFollowsAccount
    <3>5. page.shown # Nothing => Written(page.shown) /\ asked[page.shown].by = page.active
      BY <3>1 DEF PageIsOwn, Saved, Own
    <3> QED
      BY <3>2, <3>3, <3>4, <3>5
  <2>2. pointer # Nothing => Written(pointer.plan) /\ asked[pointer.plan].by = pointer.owner
    <3>1. pointer # Nothing => pointer.plan # Nothing
      BY PlannerTabAssumption DEF TabInv, TabTypeOK, PlannerTabAssumption
    <3> QED
      BY <3>1 DEF TabInv, RecordsAreOwn, Saved, Own
  <2> QED
    BY <2>1, <2>2 DEF PageServesItsCustomer
<1> QED
  BY <1>1, TabStarts, TabSteps, PTL DEF TabSpec

(* What the page offers to check again is stored under the same key, so    *)
(* that a reload finds it; and the page offers a new key only for an       *)
(* operation which, by then and for ever, can write no plan any more.      *)
THEOREM UnresolvedRequestsAreRemembered == TabSpec => []UnresolvedIsRemembered
<1>1. TabInv => UnresolvedIsRemembered
  <2> SUFFICES ASSUME TabInv PROVE UnresolvedIsRemembered
    OBVIOUS
  <2>1. page # Nothing => PageIsOwn(page)
    BY DEF TabInv
  <2> QED
    BY <2>1 DEF UnresolvedIsRemembered, PageIsOwn, Refused
<1> QED
  BY <1>1, TabStarts, TabSteps, PTL DEF TabSpec
=============================================================================
