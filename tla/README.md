# LocaLens: a verification project

LocaLens sells small food and culture tours of Ho Chi Minh City: a customer plans an
itinerary with an optional AI ranker, asks for a quote or picks a scheduled departure,
and checks out. Most of its concurrency is in a set of PL/pgSQL procedures
(`src/supabase/migrations`) called by Edge functions (`src/supabase/functions`) and by the
payment provider's webhook, each procedure one transaction under row locks; the browser adds
pages whose calls outlive the session they were made in, and a demonstration that keeps its
data in the browser's own storage. The hardest sequential part is the engine that schedules an
itinerary. This directory models these parts in TLA+, checks them with TLC and proves their
main properties with TLAPS.

Migrations are read as they stand at the end of the sequence: a procedure replaced by a later
migration is modelled from its last version.

## 1. Inventory

| Component | State | Operations | Interacts with | Hard behaviours | What makes it correct |
|---|---|---|---|---|---|
| **Checkout authority** `...cancellation_rules`, `...bookings_holds_idempotency`, `...payments_webhooks`, `...runtime_simulated_payment`, `...thesis_demo_qa_slots`, `...automatic_booking_cancellation` | bookings, capacity holds, checkout attempts, quotes, payments, simulated receipts, cancellation receipts, webhook receipts, audit | `start_checkout_tx`, `record_checkout_session`, `finalize_stripe_event`, `compensate_checkout_failure`, `complete_simulated_fixed_tour_payment`, `cancel_booking`, `reconcile_payment` | the provider (sessions, webhooks), the browser, departures, quotes, guides | late, duplicated and early webhooks; two ways of paying; holds that lapse by the clock; cancellation during payment | seats never oversold, a quote sold once, paid exactly once, holds that follow their bookings, a closed session that settles its booking |
| **Planner operation ledger** `...planner_operation_idempotency` | operation rows with a lease, bound request and result | `claim_`, `complete_..._recommendation`, `complete_..._refinement`, `reject_`, `get_` | Edge functions, trip plans, quota | crashes between calls, leases, lost replies, retries | one outcome per key, one revision per completed key, one provider call per key |
| **Itinerary Edge functions** `_shared/recommend-itinerary.ts`, `refine-itinerary.ts`, `supabase-itinerary-adapter.ts` | none of their own: where each delivery stands | recommend, refine | the ledger, quota, the ranking provider | await between every two calls | the ledger's promises kept from outside any lock |
| **Trip plans and revisions** `...trip_plans_revisions`, `...guest_quota` | plans, numbered revisions | create, advance (compare-and-set) | ledger, guests, quotes | racing refinements | a linear history without gaps |
| **AI quota, guest planning** `...guest_quota` | reservations, counters per bucket and period, guest bindings and tokens | reserve; create, advance and claim a guest plan (no client) | planner, plans | the last unit of a quota, a retry over the end of an hour | counters within limits and equal to the receipts |
| **Guide assignments** `...runtime_guide_assignment` | active assignments, receipts per key | assign, reassign (a guide's own accept, decline and complete are withdrawn from every role) | bookings, departures, the checkout's locks | two assignments whose schedule checks cannot see each other; locks in another order than the checkout's | no guide in two places at once; no circle of waits |
| **Custom requests and quotes** `...requests_quotes`, `...food_plan_quote_snapshots` | requests, quotes with 48 hours' validity | submit, review, quote, revoke | plans, checkout | revocation racing checkout | one active quote per request; a sold quote cannot be revoked |
| **SEO content releases** `...content_audit` | drafts, releases with a capability, the live release | save a draft, publish, finalize, fail | administrators, a build worker | drafts changing while they are copied; a worker late, twice or dead | the live release is the newest whole one |
| **Snapshots** catalog, travel, FX, food | draft and published snapshots | import, publish | engine, plans | publication racing readers | a published snapshot is immutable |
| **Tours and departures** | departures | administrative edits | checkout | - | reference data of the checkout |
| **Research and reviewed demonstrations** `...research_demo_workflow`, `...reviewed_demo_bookings` and successors | requests, quotes, bookings of the demonstration, refunds | submit, review, resubmit, pay, complete, refund | - | cancellation racing completion | one refund per booking |
| **Itinerary engine** `lib/domain/itinerary` | none | filter, rank, beam and depth-first search, food, validate, repair | Edge functions | cut searches, midnight, rounding, two copies of every rule | every answer can be carried out; only the impossible is refused |
| **Browser planner session** `supabase-planner-flow.tsx`, `runtime-planner-session.ts`, `planner-runtime-adapter.ts` | the page, a pending operation, a plan pointer | generate, refine, check again, restore, refresh | Edge functions, authentication, the browser's storage | sign-out, account change, reload or leaving between a call and its answer | the page serves the customer it is for; an unresolved operation is not forgotten nor sent under a new key |
| **Domain state machine** `lib/domain/data/state-machine.ts` | none | transition tables | UI | - | agrees with the trigger tables |
| **Demonstration store** `portal-repository.ts`, `booking-flow.tsx`, `mock-booking.ts` | the portal's envelope, a local booking with attempts, both in the browser's storage | requests, quotes, reviews, assignments, cancellations, roles; submit, pay, cancel, retry | two tabs, timers | an envelope that no operation can read any more; late timers, two tabs | the envelope stays valid; what is confirmed was paid |
| **Identity and row security, web application** | roles, pages | - | - | - | not about concurrency |

`PROJECT.json` lists each with its sources, its status and, under `hazards`, the lines where
something can go wrong that a test would hardly reach.

## 2. Modules

```
SeatLedger <-refines- Checkout        PlanLedger <-refines- PlannerOperation     OpeningHours
                         |               ^                        |                   |
                CheckoutProperties       |               PlannerProperties     ItineraryEngine
                  /          \           |                 /          \              |
            MCCheckout  CheckoutProofs   |          MCPlanner   PlannerProofs  EngineProperties
                                         |                                      /          \
                                    PlannerTab                             MCEngine   EngineProofs
                                         |
  DemoHandoff - DemoPortal, DemoCheckout - DemoProperties
  GuideAssignment - GuideProperties                        all of them: MCSatellites
  QuotaReservation                              proofs: GuideProofs, QuotaProofs, SeoProofs,
  SeoRelease                                            PlannerTabProofs, DemoProofs
                                                the lock order alone: MCGuide
```

The two cores, the checkout and the planner, and the engine have runs of their own. The
smaller components around them share no state: `MCSatellites` chooses one of them at the start
of a behaviour and leaves the others alone.

### Checkout

State, one function per table: `booking`, `hold`, `attempt`, `quote`, `payment`, `receipt`
(simulated payments), `cancellation` (receipts), `webhook` (the provider's terminal event
once processed), `audited` (what a reconciliation wrote to the audit), `terms` (the
immutable columns of a booking), `linked` (what the attempt knows of its session),
`session` (the provider's own state, external) and `now`.

A booking, its hold, attempt, payment and receipts are created for one idempotency key and
share its identity, so all of them are indexed by `Key`. A procedure is one transaction
under row locks with the clock sampled after the last lock, so it is one action and reads
one `now`. The browser, the provider and the administrator call the procedures in any order
and any number of times: the actions carry no other guards than the code's. A refusal (an
exception, a conflict) changes nothing and is the absence of a step; a replay that changes
nothing is left out likewise.

| Action | Code |
|---|---|
| `StartDepartureCheckout`, `StartQuoteCheckout` | `private.start_checkout_tx` with the deadline normalizing triggers |
| `CreateSession`, `EndSession` | the provider (external): a session that ends before or after the hold, paid or expired |
| `RecordCheckoutSession`, `HydrateCheckoutSession` | `private.record_checkout_session`, first call and replay that fills in the dates |
| `FinalizeCompleted`, `FinalizeExpired` | `private.finalize_stripe_event`, with the attempt's and payment's triggers |
| `CompleteSimulatedPayment`, `ExpireSimulatedPayment` | `public.complete_simulated_fixed_tour_payment` |
| `CompensateCheckoutFailure` | `private.compensate_checkout_failure` |
| `CancelPending`, `CancelConfirmed` | `public.cancel_booking` |
| `ReconcilePayment` | `public.reconcile_payment` |

`SeatLedger` is what a departure promises: travellers are held within the capacity, taken
only while held, and given back. It knows no keys, payments or clock.

### PlannerOperation

State: `ledger` (the rows of `runtime_planner_operations`), `latest` and `rows` (plans and
their revisions), `receipts` (quota reservations of an operation), `calls` (to the provider,
external), `handler` (where each delivery of a request stands), `told` (a history of the
answers that reached the browser) and `now`.

A stored procedure is an action, as above. A handler is a sequence of actions: `Claim`,
`ReservePlannerQuota`, `Prepare` (which reads the plan's latest revision without a lock),
`ReserveGeminiQuota` and `CallProvider` (two calls, so that a handler may die between them),
`Propose`, and then `Complete`, `CompleteRefused`, `Reject`,
`AnswerDecided` or `AnswerOverdue` by what the transaction finds; `GiveUp` is death, timeout
or an answer taken for ambiguous, at any point between. `ClaimOverdue` and `ClaimDecided` are
the other deliveries of the same key. A request stands for its digest, a plan for the key
that created it, and one refusal code for all those no property tells apart. Every decision
may be told or its reply lost.

`PlanLedger` is the promise to a customer who sends every request many times: an operation
is decided once; a completed one has appended one revision to one plan, as its first or as
the successor of one nobody succeeded yet; any other has appended nothing.

### OpeningHours, ItineraryEngine

`OpeningHours` merges the weekly windows and the exceptions of a place or a vendor into the
intervals in which a visit may lie, past midnight and across days, and finds its earliest start.
`ItineraryEngine` is `createItinerary`: a pure function whose loops are steps, so that a search
that is cut short is seen in the middle. State: `input`, `stage`, `pool` and `rank` (the
candidates and their order), `pinned` (food the schedule must keep), `beam`, `frontier`,
`visited` and `best` (the two searches), `repaired` and `outcome`.

| Action | Code |
|---|---|
| `RefuseInput`, `FilterCandidates` | `engine.ts` with `candidate-filter.ts`, `money.ts` and the rank order of `scoring.ts` |
| `ExpandBeam`, `SettleBeam`, `StartSearch`, `Visit`, `SettleSearch` | `scheduler.ts`: the beam, and the depth-first search if the beam lost the locked stops |
| `Accept`, `RepairAgain`, `RefuseRepair`, `RefuseResult` | `validator.ts`, `repair.ts` and the engine's one repair |

The validator is translated apart from the scheduler, as it is written apart in the code, so
that their agreement is a property and not an identity. `EngineProperties` holds references
for opening hours and whole itineraries that know nothing of the search.

### DemoPortal, DemoCheckout

The demonstration keeps two records in the browser. `DemoPortal` is `portal-repository.ts`: one
envelope of roles, requests, bookings, quotes, cancellations, reviews and assignments. Every
operation first validates the whole envelope (`Readable`), and some validate what they write
while others do not (`Write`, `ValidateAndWrite`), as in the code. `DemoCheckout` is the local
booking of `mock-booking.ts` and the page `booking-flow.tsx` in several tabs: `SubmitBooking`,
`RunPaymentOutcome` (a timer is set), `PaymentTimer` (it fires, however late), `CancelCheckout`,
`RetryPayment`, `LeavePage`, with `CancelInPortal`, `ResetPortal` and `MinutePasses` around them.
The two meet in one function, `SyncedStatus` of `DemoHandoff`; `CopyFollowsHandoff` is what the
local checkout assumes of the portal, checked in `DemoPortal`.

### GuideAssignment

An administrator's `assign_fixed_departure_guide`, lock by lock: `TakeKey`, `TakeTrip`,
`TakeDeparture`, `TakeSchedule`, `PlaceAssignment`, `CommitAssignment`, or `Abort`. What a call
writes is seen by others when it commits. Beside it run checkout procedures, of which only
the locks in their shared order and the confirmation are kept (`AskCheckout`,
`TakeCheckoutLock`, `CommitCheckout`).

### QuotaReservation

`reserve_quota`: `BeginReservation` fixes the period, `LockBucket` locks and reads the rows of
the device, the address and, for the language model, of all callers; `CommitReservation` writes
them and the receipt, or replays, or refuses; `AbortReservation`, `HourPasses`. It refines nothing
of `PlannerOperation`, where a reservation succeeds or not nondeterministically: it shows what
stands behind that choice.

### SeoRelease

`UpsertContentDraft`; `publish_seo` in two statements (`BeginPublish` checks the drafts and
`CommitPublish` copies those there are by then); `FinalizeSeoPublish` and `FailSeoPublish` by the
build worker; `TimePasses` for the capability's 15 minutes. A dead worker takes no step.

### PlannerTab

The planner's page in one tab with the adapter it calls. State: `account` (who is signed in),
`pending` and `pointer` (the two records in the browser's storage), `page` (the mounted page, its
`intent` being `retryIntentRef`, `busy` `inFlightRef`, `outdated` `needsFreshRevision`), `epoch`,
`awaited` (calls without an answer), `asked` (what each key stands for), and the server as
`PlanLedger` describes it, the same module that `PlannerOperation` implements: `Decide` is any of
its steps for a key that has reached it.

| Action | Code |
|---|---|
| `OpenPage`, `ClosePage`, `ChangeAccount` | mounting, cleanup and the session listener |
| `AnswerNoSession`, `AnswerSession`, `AnswerRestore` | the session effect and `restorePersistedPlan` |
| `Generate`, `Refine`, `RetrySame`, `RetryNew`, `RetryRestore`, `RefreshLatest` | `generateProposal`, `submitRefinement`, `retryLastOperation`, `refreshLatest`, with `Execute` |
| `AnswerExecute`, `AnswerRefresh` | the rest of `execute` and `refreshLatest`, by the table of errors |
| `LateAnswer` | an answer whose epoch is over: the three early returns |

Errors are kept as far as the page tells them apart: what button they lead to, and whether they
drop the pending record. The answer "the key stands for another request" is left out: a key is
stored with its request, so that one browser never sends it with another.

## 3. Runs

| Run | Question | Size |
|---|---|---|
| `checkout` | do the safety properties hold, and the refinement of `SeatLedger`; does a closed session settle its booking? | 1.4 million states, 100 s |
| `planner` | safety properties and refinement of `PlanLedger` | 880 thousand states (symmetry), 45 s |
| `planner_liveness` | is a claimed key decided? | 27 thousand states, 3 s |
| `engine` | is every answer right, and every refusal? | 8,958 states, 5 s |
| `satellites` | the components around the cores, one at a time | 702 thousand states, 130 s |
| `checkout_oversell`, `checkout_late_paid`, `checkout_acceptance`, `checkout_audit`, `planner_race`, `planner_pending`, `lock_order` | does the code keep what a document says? It does not: section 5 | until the counterexample |

Bounds and why they are enough:

- `checkout`: two keys, of one customer, one departure of two seats and parties of 1 or 2, one
  quote of party 1. Two checkouts are what a race takes: both for the departure, both for the
  quote, or one of each, with every split of the seats that fits, fills or exceeds the capacity.
  Sales are per departure and per quote, so more of either only multiply independent copies;
  a third booking of one departure adds sums, not cases, and the proof of capacity covers it.
- Clock: `HoldTime` 2, sessions that last 1 (end inside the hold) or 3 (outlive it),
  `ValidUntil` 3, departure at 4, `CancelNotice` 3, `MaxTime` 4: every order of deadline,
  validity, session end and start of the trip occurs. A start needs its deadlines within
  `MaxTime`, so that no run is cut before they matter, and liveness is checked with the rest.
- `planner`: three keys of one owner (one creates the plan, two race to refine it, or create
  others), requests for a new plan and for refinements of revisions 1 and 2, two handlers in
  flight, a lease of 1 and `MaxTime` 2: a lease may lapse before, between and after a
  handler's calls, and a key be claimed after another's lapsed. The two keys no request
  refines and the handlers are interchangeable (`SYMMETRY`); `planner_liveness` uses none.
- `engine`: three catalogues of four places (by day, around midnight, at the rounding of a
  dollar), with vendors that open late or are dear, exceptions, touching windows and a trip that
  does not exist; requests with every combination of start, duration, budget, party, taste,
  locked stops in either order, ranking and food choice. A beam of 2 and a cap of 8 make both
  searches lose paths, which 50 and the code's cap would only do with catalogues out of reach.
- `satellites`, portal: three identities (a customer, a guide, an administrator), one new request, quotes
  valid for 1 of 2 moments: a quote is issued, expires, is paid and cancelled while roles change.
  The reader's bound of 200 records is 6 here: with the fixture's four bookings, two quotes and a
  local booking make one too many, and the portal becomes unreadable as it would at 201.
  Local checkout: two tabs, a hold of 2 minutes, a session of 1, two attempts: a timer fires before
  and after either ends, in the other tab's booking, and after a reload.
- `satellites`, guides: two sessions, guides, keys and two bookings of overlapping departures: a race
  takes two, and a replacement a second guide. `lock_order`: three bookings, two of one departure.
- `satellites`, quota: two calls, three reservations, two devices and addresses, limits of 2 and
  1, over the end of an hour in a day of two: the last unit of each bucket is contested, from one
  side or from both.
- `satellites`, releases: two pages, two administrators, two releases, a capability of 2 of 3 moments:
  a second release starts before and after the first one's capability ends.
- `satellites`, page: two customers, three keys (a request, its refinement, one in place of either),
  two sessions of the page: between them lies a reload, or a change of customer, with calls of the
  first still unanswered. `planner_pending` takes one customer: a plan and two refinements of it.
- Deadlock is not checked: keys, operations and the clock are bounded, and when all are used
  up the system rightly has nothing left to do.

Every property of a passing run has a mutant in `PROJECT.json`: a plausible mistake in one
definition that makes TLC find the property violated.

## 4. Properties

Checkout (`CheckoutProperties`): `CapacityNeverExceeded` (holds and the seats taken through
them fit the capacity, however holds lapse and webhooks come late), `QuoteSoldOnce`,
`PaidExactlyOnce` (by the provider or by the simulation, never by both), `HoldFollowsBooking`,
`QuoteFollowsAttempt`, `CancellationIsFinal`, `NoLateConfirmation` (after its deadline only
an administrator confirms a departure booking), `TriggersNeverRefuse` (the procedures' own
guards already keep to the triggers' transition tables), `RefinesSeatLedger`, and
`ClosedSessionSettles`.

Planner (`PlannerProperties`): `TerminalAnswersAgree` (all decided answers for a key are the
ledger's), `PersistedOnce`, `RevisionChain` (no fork and no gap in a plan), `ProviderCalledOnce`,
`RefinesPlanLedger`, and `ClaimedSettles`.

Engine (`EngineProperties`): `PathsKeepRules` (of whatever a search holds), `AnswerIsFeasible`
(by the reference, after a repair too), `RefusesOnlyTheImpossible` (without food, no order of
candidates and no start times would have done), `BestWhenComplete`, `ValidatorAgrees` (with two
exceptions, both of food stops, spelled out there), `LockedFoodIsKept`, `WithinBudget` (in
dollars too), `EngineAnswers`.

Demonstration (`DemoProperties`): `EnvelopeIsSound` (no order of operations breaks a rule of the
reader, but for the owners of requests, which a change of role overlooks, and the length of lists,
which nobody compares before writing: section 5), `QuotesAreForApprovedRequests`,
`PortalConfirmsOnlyPaid`, `CopyFollowsHandoff`, `SettledIsFinal` (and in time), `PaymentsSettle`.

Guides (`GuideProperties`): `NoDoubleBookedGuide`; `OnlyMixedCallsGetStuck` (assignments alone, and
checkouts alone, never deadlock). Quota: `QuotaMatchesReceipts` (each count equals the
receipts that claim it, within its limit). Releases: `LiveIsWhole` (published, newest, complete in
both languages). Page (`PlannerTab`): `PageServesItsCustomer` (the page waits exactly for a call
of its own session, and shows and remembers plans of the customer it serves) and
`UnresolvedIsRemembered` (what it offers to check again is what is stored; it offers a new key only
for an operation that was rejected or interrupted for good). The latter is about what the page
offers for the operation it shows. That no other action replaces the stored record of an operation
under way is `PendingHasPrecedence`, which the code does not keep (section 5).

Fairness. `Checkout`: weak fairness of the two finalizers for each key, which is the
provider's documented behaviour of redelivering an event until it is accepted; nothing is
assumed of the browser, the administrator or the session's recording. `PlannerOperation`:
weak fairness of the clock, and of the claim of an overdue key, which is the customer pressing
"check again" on the operation the browser holds as pending; no fairness of the handlers,
which may all die. `ItineraryEngine`: weak fairness of its steps, a function that is running.
`MCSatellites`: weak fairness of a payment timer that is set, which the browser fires while the
page is there, however late; nothing is assumed of customers.

## 5. Where code and documents disagree

Each is a run of its own whose counterexample TLC finds.

1. **Overselling by reconciliation** (`checkout_oversell`): `reconcile_payment` confirms a
   booking out of payment review without locking the departure or counting its seats, which
   may have been sold again after the hold lapsed. The design promises that concurrent booking
   attempts never exceed capacity.
2. **A late payment that is never recorded** (`checkout_late_paid`): once the attempt was
   compensated (by `compensate_checkout_failure` or by cancelling the pending booking), attaching
   the session raises in the attempt's own trigger and every delivery of the paid event rolls
   back. The comment in the code says a late paid fact is still recorded.
3. **Acceptance without validity** (`checkout_acceptance`): a completed event accepts a quote
   without reading its validity again, which the design says is rechecked.
4. **An audit of what did not happen** (`checkout_audit`): reconciliation audits a payment moving
   out of `review`, a status no code sets; a booking cancelled out of payment review keeps its
   payment `paid` while the audit says `failed`.
5. **A lost race answered as an outage** (`planner_race`): a refinement refused by the
   compare-and-set is taken for an ambiguous commit: the answer is 503, and the key stays
   claimed until its lease lapses, though the handler's document says `409 STALE_REVISION`.
6. **A pending operation overwritten** (`planner_pending`): the refinement form stays open beside
   a refinement whose answer was lost or still in progress, and submitting it (`Refine`) stores
   a new key over the old one, which the server may still complete and nobody checks again.
   `docs/acceptance/planner-operation-contract.md` (lines 53-55) gives a pending operation
   precedence and says an unresolved one is never silently converted into a new one.
   `Generate` overwrites a record likewise, after a restore that found no plan (`AnswerRestore`).
7. **Two lock orders** (`lock_order`): `assign_fixed_departure_guide` locks a booking before its
   departure, every checkout procedure the departure before the booking; the design gives one
   order for all. An assignment and a payment of one booking may wait for each other until
   the database aborts one.

Also met, without a run:

- Checkout: the hold of a departure lasts 15 minutes where the design speaks of 35 minutes and
  provider sessions of 30, so a session of the documented length outlives its hold and
  `record_checkout_session` refuses it. Nothing sweeps an abandoned pending booking: its
  seats are free by the deadline, but it stays pending. A session that expires after its quote
  was locked expires the booking but leaves the attempt open and the quote `checkout_pending` or
  `accepted` (`FinalizeExpired`): `QuoteFollowsAttempt` holds, for quote and attempt agree, and
  the quote cannot be bought again. No document promises that it can, so no property claims it.
- Planner's page, against `docs/acceptance/planner-operation-contract.md` (lines 52-57: a pending
  operation has precedence over a fresh one and is never silently converted into one; lines
  86-92: a conflict preserves the original record). A failed read of the session or of the areas,
  on the way to a retry, counts as a final refusal and drops the pending record
  (`AnswerInadmissible`), so that Generate makes a second plan after a reload. A conflict drops the
  record too. With an expired personalization the
  button to check again does nothing. A sign-out before the page has learned who is signed in is
  ignored (`ChangeAccount`), and the page then opens for a customer who has left.
- Demonstration: changing the role of a customer who owns a request but no booking makes the
  envelope invalid, so that every operation but a reset refuses (`UpdateUserRole`). A 201st
  request or booking is written without a check and then cannot be read. The fixture's request
  can be quoted and paid a second time. A request under changes may be approved at once and a
  booking confirmed without `payment_processing`, which `lib/domain/data/state-machine.ts` forbids
  though `tests/unit/portal/demo-repository.test.ts:631` calls the states domain-aligned. A booking
  cancelled in the portal can still be paid locally. With two tabs, a tab whose attempt the other
  has settled shows the outcome it asked for; when both succeed the second shows an error though
  the booking is paid; after an expired hold a retry keeps its old key, and Cancel throws.
- Engine: a visit to a food stop across two windows that touch is scheduled and then rejected by
  the validator. An exception may last past midnight into a morning that opens again at midnight and
  closes sooner, which `contracts.ts` does not compare: the night is then cut short. Choosing dishes greedily may refuse what a cheaper dish would have allowed.
- Guides: no guide takes two bookings of one departure, for it overlaps itself. Releases: a refused
  `publish_seo` rolls the failing of an expired release back, which stays `publishing` until
  drafts are complete.

## 6. Proofs

TLC checks one instance; the theorems hold for every value of the constants under the
assumptions their modules name (types of the constants; a party has at least one member, a
refinement a target, a departure ends after its start; keys are finitely many in the checkout and
places in the engine; prices, trips and menus cost natural numbers, weights are 0 to 5, vendors and
menus are sequences, an input has one rate at most, a window opens and closes at different times),
which TLC evaluates on every run.

`CheckoutProofs`

- `TypeCorrect`: `TypeOK` is inductive.
- `HoldsFollowBookings`: `HoldInv` adds that only departure bookings hold seats; without it the
  expiry of a quote booking could leave a hold behind.
- `CapacityKept`: `CapacityInv` counts each departure's travellers. A start adds a party only
  after counting all others with those already lapsed left out; every other step turns a
  held party into a seated one, or removes it. `OtherStepsTakeNoSeats` says so once for all
  other actions, and `PartySumOfUnion` and `FewerTravellers` do the counting with the library's
  theorems on finite sets, since the sum is the cardinality of a set of pairs.
- `ConfirmationNeverLate`: an action property from the same invariant.
- `PaymentsExactlyOnce`: `PaymentInv` adds that a booking in payment review has a provider
  payment, without which a reconciliation could confirm an unpaid one.
- `CancellationsAreFinal`: `RowsInv` relates an attempt to its booking (`AttemptFollowsBooking`: a
  session is stored only in an open attempt, an attempt with neither session nor receipt has a
  waiting booking, a compensated one a booking that is over) and adds `CancelledForGood`: a
  cancelled booking's attempt is compensated exactly when nothing was paid.
- `QuotesSoldOnce`, `QuotesFollowAttempts`: `QuoteInv` adds `QuoteHeld`, that a quote is out of
  sale exactly as long as one checkout, and no other, has an open attempt for it, and is accepted
  only once that attempt has a session.
- `TriggersAreRedundant`: from `QuoteInv`, each step moves the rows of bookings, holds and quotes
  only along the triggers' tables (`TablesAllow`), so no procedure is ever refused by one.
- `ImplementsSeatLedger`: refinement. `SeatSteps` sorts the actions into lapsing, giving back,
  taking, holding and leaving the seats alone; that a hold fits is `CapacityInv`.

`PlannerProofs`

- `PlannerTypeCorrect`: `TypeOK` is inductive; in particular a handler past its claim has a key.
- `LedgerSteps` reduces the 15 actions to four: claim, close, commit, or nothing. On it rest
- `WritesWhatItReports` (`PersistedOnce` is inductive given the types) and
- `ImplementsPlanLedger`: refinement, with `LatestWritten` (the latest number of a plan is that
  of a revision that is there), which makes the compare-and-set imply a predecessor.
- `AnswersAgree`: with `UndecidedIsBlank` (an undecided key carries no result), every decision
  is the first one told.
- `AsksProviderOnce`: `AskingInv` adds that a key is in the hands of one delivery at most, that
  such a key is claimed, and that until that delivery has asked there was no call and its
  quotas are reserved in order. A second claim is thus the only way to ask twice.
- `PlansAreChains`: `ChainInv` adds that a plan's revisions are finitely many. That a refinement
  never writes the first revision of a plan follows from `PersistedOnce`: the writer of the
  first is completed, so it cannot be the one that now commits.

`EngineProofs`

- `PathsFollowRules`: `SearchInv` says that the searches hold only paths built by extension;
  an extension arrives after the trip, starts within a merged interval (`VisitStartsInTime`) and
  adds its cost.
- `AnswersAreFeasible`: the engine answers only with what the validator accepts, so its eight
  checks are shown to imply the reference. The hard step is `VisitInOneWindow`: the intervals
  in which the validator places a visit are fragments of days and carry-overs past midnight,
  merged; each is shown to lie in one window (`FragmentCovers`, `CarryOverCovers`).
- `LockedFoodStays`: selections of locked stops stay pinned through the repair.
- `SchedulerAndValidatorAgree`: `ReckonInv` says of every path on the searches' stacks what its
  stops, sums and dishes were computed from (`Reckoned`), so that the validator, which computes them
  again from the places, finds the same. A visit looked for from its own start begins there
  (`VisitBeginsAgain`, `MealBeginsAgain`); what is left to report is a food stop kept without food
  and the two windows that touch. The lemmas are about sums over the stops (`SumIsDefined`,
  `SumOfOneMore`, by a least counterexample), about `InOrder`, which lists a finite set of numbers
  completely, and about the place of a lock in the lock order.
- `TypeCorrect`: `TypeInv` says that every path is reached from the empty one by a chain of
  extensions. One extension visits each stop at most, so the names of its stops decide a path
  (`ReachedIsDecided`), the extensions of a frontier are finitely many (`ExpandedIsFinite`), and
  `comparePaths` is a strict order on them (`PreferenceIsOrder`); cutting the beam to those with
  fewer than `BEAM_WIDTH` preferred before them hence leaves no more than that (`TrimIsNarrow`).
- `CompleteSearchesFindTheBest`: `CompleteInv` says of a beam that was never cut that it holds all
  paths of its length and that the best so far beats all shorter ones; of a search that was not
  stopped, that every path is beaten or continues one still on the stack. The reference is recursive;
  that it exists is shown by a least counterexample (`ReachableIsDefined`).
- `AnswersAreWithinBudget`: the validator's sum is the path's cost, which every extension kept
  within the budget; rounding down to make the budget and up to state the price never loses a cent
  (`RoundedTwice`).
- `RefusalsAreRight`: every trip of the reference, which may start its visits at any minute, is
  followed by a path of the same stops and cost that is free again no later (`Followed`). A later
  start never helps, since a visit that the hours allow is found by the earliest start
  (`VisitIsFound`), and the locks a trip has still to reach are what the scheduler lets in
  (`LocksAreDue`). Hence a possible itinerary is a valid path (`PossibleIsReached`), which
  `CompleteInv` and `RefuseInv` show is not given up: only a complete search refuses, for a beam
  that found nothing is followed by the fallback and a fallback that was stopped does not call the
  request infeasible. The reference is recursive;
  that it exists is again a least counterexample (`PossibleIsDefined`). The theorem assumes
  `HoursGoOn`: what a night carries past midnight is the first opening of its day
  (`NightGoesOn`), since of two openings that begin at midnight the engine prolongs the night only
  by the shorter one. `WeeksGoOn` derives it from the contracts for every place whose exceptions
  end by midnight; for a later one the contracts leave it open (section 5). TLC evaluates it
  for the catalogues of the run.

`GuideProofs`

- `GuideNeverDoubleBooked`: a session that has placed an assignment still holds the guide's
  schedule, locks are exclusive, and so no other session has read that schedule before the commit.
- `OneKindNeverDeadlocks`: within one kind of call the locks have a rank (`AssignOrder`,
  `CheckoutOrder`) and every call waits for a lock above those it holds (`OneKindClimbs`); a
  circle of waiting calls therefore mixes the kinds (`CirclesAreMixed`).

`QuotaProofs`, `QuotaIsExact`: the rows a call has locked had units left when it read them, only
the holder of a row changes it, and no two calls hold one reservation.

`SeoProofs`, `LiveReleaseIsWhole`: at most one release is publishing and it is newer than the
live one; the row an administrator is failing is locked.

`PlannerTabProofs`: one invariant, `TabInv`, proves both `PagesServeTheirCustomers` and
`UnresolvedRequestsAreRemembered`; the second rests on `PageIsOwn`, which ties the button a page
shows to the stored record and to the server's outcome, and on `DecidingIsSound`, by which a
refused operation stays refused. A page's effects and its calls end at different times, so it
says separately of the stored records (`RecordsAreOwn`), of the calls under way (`CallsAreOwn`,
`OneCallAtATime`) and of a mounted page (`AccessFollowsAccount`, `PageIsOwn`, `PageWaits`) whose
they are; an unmounted page is free to be stale.

`DemoProofs`

- `PortalsConfirmOnlyPaid`, `SettledPaymentsAreFinal`: `LocalInv` says of each local booking which
  of its records its state requires (`BookingIsSound`); every step `Continues` a settled booking
  or `Leaves` it.
- `EnvelopeStaysSound`: the stored envelope always passes the checks its reader makes
  (`Sound`: unique keys and references, kinds, quotes), without any assumption on its size. It
  says nothing of the length of lists: the writers (`portal-repository.ts` 1855-1862, 2014-2057)
  never compare with the limit of 200 which the reader enforces at line 394, so that an envelope
  may outgrow it (section 5). In the proof such an envelope is one more that only a reset leaves.
- `QuotesKeepTheirApproval`, `DemonstrationTypes` from the same invariant; `CopiesFollowHandoffs`: the
  portal's copies of a local checkout only follow what was handed to it.

Only model-checked: `ClosedSessionSettles`, `ClaimedSettles`, `EngineAnswers` and `PaymentsSettle`,
liveness under fairness, which the provers cannot express. All other properties of the passing runs are theorems.

## 7. Not modelled

- Content: prices, itineraries, request digests, fingerprints, response shapes. A value is a
  model value where a property tells values apart, else absent.
- Access control, which only narrows who may take a step: each action belongs to a caller the
  grants and checks admit. Authentication of the webhook is the provider's signature.
- The thesis demonstration's QA slots in `start_checkout_tx`: a fixed list of users and
  departures whose checkouts skip the capacity on purpose.
- Lock waits inside a transaction: procedures are atomic, except in `GuideAssignment`,
  `QuotaReservation` and `SeoRelease`, where what happens between two locks matters.
- Guest plans: bindings, tokens, the advance and the claim by an account have no page and no Edge
  function; only `scripts/test-db-concurrency.mjs` calls them. Likewise the submission, review,
  quoting and revocation of custom requests, and a guide's older procedures, which are
  withdrawn from every role.
- Releases: the text rules of drafts, the list of admissible source domains and the read-only export.
- Engine: parsing and fingerprints of inputs; the clock is in minutes and prices are small numbers.
- Demonstration: edits of texts and profiles, and `createTestPayment`, which no page calls.
- Page: feedback texts, locked places, parsing of the stored records, several tabs of the planner,
  and a storage that refuses even to be read.
- The research and the reviewed demonstrations, snapshots and tours: section 8. Row security, pages,
  styles, messages, seeds and smoke scripts: nothing concurrent, no state of their own.
- `lib/domain/data/state-machine.ts` repeats the triggers' tables in TypeScript; those of bookings,
  holds and quotes are equal to `BookingTransition`, `HoldTransition` and `QuoteTransition`.

## 8. Plan

Left, with their properties, runs, mutants and proofs:

- `ResearchDemo` and `ReviewedDemo`: request, quote, booking and refund of the demonstrations,
  with one refund per booking and completion racing cancellation.
