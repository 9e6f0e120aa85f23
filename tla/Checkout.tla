------------------------------ MODULE Checkout ------------------------------
(***************************************************************************)
(* The checkout authority of LocalLens: fixed-tour departures with a       *)
(* bounded capacity, custom quotes, capacity holds, the provider session,  *)
(* the webhook finalizer, the simulated payment, compensation, customer    *)
(* cancellation and admin reconciliation.                                  *)
(*                                                                         *)
(* Every stored procedure is one PostgreSQL transaction that takes its row *)
(* locks in the order idempotency, source, booking, hold, attempt, payment *)
(* before it reads what it decides on, and a RAISE rolls all of it back:   *)
(* each is one action here, and a call that raises or replays is no step.  *)
(*                                                                         *)
(* A checkout is named by its client idempotency key (unique with its      *)
(* owner), which has exactly one booking, attempt and routing row, at most *)
(* one hold, payment, simulated receipt and cancellation row.              *)
(***************************************************************************)
EXTENDS Naturals, FiniteSets

CONSTANTS
  Key,          \* client idempotency keys, each scoped to its owner
  Customer,     \* customer accounts
  Owner,        \* Owner[k]: the customer a key belongs to
  Departure,    \* scheduled fixed-tour departures
  Capacity,     \* Capacity[d]: seats of a departure, immutable
  StartAt,      \* StartAt[d]: when the departure leaves
  Quote,        \* custom quotes
  QuoteOwner,   \* QuoteOwner[q]: the customer of the quoted request
  QuoteParty,   \* QuoteParty[q]: party size of the quoted revision
  ValidUntil,   \* ValidUntil[q]: end of the quote's validity
  TripStart,    \* TripStart[q]: first item of the quoted revision
  MaxParty,     \* largest accepted party (100 in the code)
  HoldTime,     \* length of a capacity hold (15 minutes in the code)
  CancelNotice, \* notice a confirmed booking needs (48 hours in the code)
  SessionLife,  \* lengths a provider session may be created with
  RequestKey,   \* idempotency keys of payment and cancellation requests
  MaxTime,      \* bound on the clock
  None          \* no value

ASSUME CheckoutAssumption ==
  /\ IsFiniteSet(Key)
  /\ Owner \in [Key -> Customer]
  /\ Capacity \in [Departure -> Nat]
  /\ StartAt \in [Departure -> Nat]
  /\ QuoteOwner \in [Quote -> Customer]
  /\ MaxParty \in Nat
  /\ QuoteParty \in [Quote -> 1..MaxParty]
  /\ ValidUntil \in [Quote -> Nat]
  /\ TripStart \in [Quote -> Nat]
  /\ HoldTime \in Nat /\ CancelNotice \in Nat /\ MaxTime \in Nat
  /\ SessionLife \subseteq Nat
  /\ Departure \cap Quote = {}
  /\ None \notin Departure \cup Quote \cup RequestKey

VARIABLES
  now,          \* clock_timestamp(), sampled once the locks are held
  booking,      \* bookings.status, "none" before the checkout starts
  terms,        \* what the booking snapshots: source, party size, deadline
  hold,         \* capacity_holds.status, "none" for a quote booking
  attempt,      \* checkout_attempts.status
  linked,       \* the attempt's session columns: "none", "bare" (no expiry), "dated"
  quote,        \* custom_quotes.status
  payment,      \* payments.status
  receipt,      \* simulated_payment_receipts: result and request key
  cancellation, \* request key of the booking_cancellations row
  webhook,      \* type of the processed webhook_events row of the session
  audited,      \* payment state the reconciliation audit row claims
  session       \* the payment provider's own session (external)

vars == <<now, booking, terms, hold, attempt, linked, quote, payment, receipt,
          cancellation, webhook, audited, session>>

Source == Departure \cup Quote

BookingStatus == {"pending_payment", "payment_processing", "confirmed",
                  "payment_failed", "expired", "payment_review", "cancelled",
                  "completed"}
HoldStatus    == {"active", "consumed", "released", "expired"}
AttemptStatus == {"created", "session_recorded", "compensated", "failed"}
QuoteStatus   == {"active", "checkout_pending", "accepted", "expired", "revoked"}
PaymentStatus == {"pending", "paid", "failed", "review"}

\* The tables of the transition trigger, which raises on any other change of status.
BookingTransition ==
  ({"pending_payment"} \X {"payment_processing", "expired", "cancelled"})
  \cup ({"payment_processing"} \X {"confirmed", "payment_failed", "expired",
                                   "payment_review", "cancelled"})
  \cup ({"confirmed"} \X {"completed", "cancelled"})
  \cup ({"payment_review"} \X {"confirmed", "cancelled"})
HoldTransition == {"active"} \X {"consumed", "released", "expired"}
QuoteTransition ==
  ({"active"} \X {"checkout_pending", "expired", "revoked"})
  \cup ({"checkout_pending"} \X {"accepted", "active", "expired", "revoked"})

Terms     == [source : Source \cup {None}, size : Nat, deadline : Nat]
NoTerms   == [source |-> None, size |-> 0, deadline |-> 0]
Receipt   == [result : {"none", "confirmed", "expired"}, key : RequestKey \cup {None}]
NoReceipt == [result |-> "none", key |-> None]
Session   == [state : {"none", "open", "complete", "expired"}, expires : Nat]
NoSession == [state |-> "none", expires |-> 0]

-----------------------------------------------------------------------------

IsDeparture(k) == terms[k].source \in Departure
IsQuote(k)     == terms[k].source \in Quote

AwaitingPayment == {"pending_payment", "payment_processing"}
SeatedStatus    == {"confirmed", "completed"}
OpenAttempt     == {"created", "session_recorded"}

Live(k)     == hold[k] = "active" /\ terms[k].deadline > now
Overdue(k)  == hold[k] = "active" /\ terms[k].deadline <= now

\* Mutated forms, to show that the properties can fail: each stands for a
\* plausible mistake in the definition named in its comment.
UntimedHoldBacksPayment(k) ==      \* HoldBacksPayment: the deadline is not read again
  hold[k] = "active" /\ booking[k] \in AwaitingPayment
UntimedSimulationOver(k) ==        \* SimulationOver: the deadline is not read again
  hold[k] = "expired" \/ booking[k] = "expired"
QuoteUnlocked(k, q) ==             \* QuoteForSale: neither status nor index is consulted
  Owner[k] = QuoteOwner[q] /\ ValidUntil[q] > now
InsertAfterSimulation(k) ==        \* PaymentInsertAllowed: the receipt trigger is missing
  cancellation[k] = None
HoldKept(k) == hold[k]             \* HoldOncePaid: the hold is left alone
FreedLikeBooking(k) == "cancelled" \* Freed: a booking's status written to a hold
ExpiredUnlessPaid(k) ==            \* BookingOnceExpired: the status filter is missing
  IF booking[k] \in {"confirmed", "payment_review"} THEN booking[k] ELSE "expired"
OnlyRecordedSession(k) ==          \* AttachSession: an event ahead of its session is refused
  linked[k] # "none" /\ UNCHANGED <<attempt, linked>>

\* One element per traveller, so that sum(party_size) is a cardinality.
Travellers(S) == {t \in S \X (1..MaxParty) : t[2] <= terms[t[1]].size}
PartySum(S)   == Cardinality(Travellers(S))

Confirmed(d) == {k \in Key : terms[k].source = d /\ booking[k] \in SeatedStatus}
Held(d) ==
  {k \in Key : /\ terms[k].source = d
               /\ Live(k)
               /\ booking[k] \notin SeatedStatus}

\* A status an active or overdue hold is given when its checkout ends unpaid.
Freed(k) == IF terms[k].deadline <= now THEN "expired" ELSE "released"

-----------------------------------------------------------------------------

Init ==
  /\ now = 0
  /\ booking = [k \in Key |-> "none"]
  /\ terms = [k \in Key |-> NoTerms]
  /\ hold = [k \in Key |-> "none"]
  /\ attempt = [k \in Key |-> "none"]
  /\ linked = [k \in Key |-> "none"]
  /\ quote = [q \in Quote |-> "active"]
  /\ payment = [k \in Key |-> "none"]
  /\ receipt = [k \in Key |-> NoReceipt]
  /\ cancellation = [k \in Key |-> None]
  /\ webhook = [k \in Key |-> "none"]
  /\ audited = [k \in Key |-> "none"]
  /\ session = [k \in Key |-> NoSession]

Tick ==
  /\ now < MaxTime
  /\ now' = now + 1
  /\ UNCHANGED <<booking, terms, hold, attempt, linked, quote, payment, receipt,
                 cancellation, webhook, audited, session>>

-----------------------------------------------------------------------------
\* start_checkout_tx: the first call with a key (a later one resumes or conflicts)

InsertBooking(k, s, n, end) ==
  /\ booking[k] = "none"
  /\ booking' = [booking EXCEPT ![k] = "pending_payment"]
  /\ terms' = [terms EXCEPT ![k] = [source |-> s, size |-> n, deadline |-> end]]
  /\ attempt' = [attempt EXCEPT ![k] = "created"]
  /\ UNCHANGED <<now, linked, payment, receipt, cancellation, webhook, audited, session>>

StartDepartureCheckout(k, d, n) ==
  /\ StartAt[d] > now
  /\ PartySum(Confirmed(d)) + PartySum(Held(d)) + n <= Capacity[d]
  /\ InsertBooking(k, d, n, now + HoldTime)
  /\ hold' = [hold EXCEPT ![k] = "active"]
  /\ UNCHANGED quote

\* The last conjunct is the unique index checkout_attempts_one_active_quote.
QuoteForSale(k, q) ==
  /\ Owner[k] = QuoteOwner[q]
  /\ quote[q] = "active"
  /\ ValidUntil[q] > now
  /\ \A j \in Key : terms[j].source = q => attempt[j] \notin OpenAttempt

StartQuoteCheckout(k, q) ==
  /\ QuoteForSale(k, q)
  /\ InsertBooking(k, q, QuoteParty[q], ValidUntil[q])
  /\ quote' = [quote EXCEPT ![q] = "checkout_pending"]
  /\ UNCHANGED hold

-----------------------------------------------------------------------------
\* The payment provider (external): one session per attempt, by the durable
\* provider key, asked for while the attempt is open; it is paid while open or
\* expires at its own deadline.

CreateSession(k, life) ==
  /\ attempt[k] = "created"
  /\ session[k].state = "none"
  /\ session' = [session EXCEPT ![k] = [state |-> "open", expires |-> now + life]]
  /\ UNCHANGED <<now, booking, terms, hold, attempt, linked, quote, payment, receipt,
                 cancellation, webhook, audited>>

EndSession(k) ==
  /\ session[k].state = "open"
  /\ session' = [session EXCEPT ![k].state =
                   IF now < session[k].expires THEN "complete" ELSE "expired"]
  /\ UNCHANGED <<now, booking, terms, hold, attempt, linked, quote, payment, receipt,
                 cancellation, webhook, audited>>

-----------------------------------------------------------------------------
\* record_checkout_session: the browser side stores the session it was given

SourceStillSellable(k) ==
  \/ IsDeparture(k) /\ Live(k)
  \/ /\ IsQuote(k)
     /\ quote[terms[k].source] = "checkout_pending"
     /\ ValidUntil[terms[k].source] > now

RecordCheckoutSession(k) ==
  /\ session[k].state # "none"
  /\ linked[k] = "none"
  /\ attempt[k] = "created"
  /\ booking[k] = "pending_payment"
  /\ SourceStillSellable(k)
  /\ session[k].expires > now
  /\ session[k].expires < terms[k].deadline
  /\ quote' = [q \in Quote |-> IF q = terms[k].source THEN "accepted" ELSE quote[q]]
  /\ attempt' = [attempt EXCEPT ![k] = "session_recorded"]
  /\ linked' = [linked EXCEPT ![k] = "dated"]
  /\ booking' = [booking EXCEPT ![k] = "payment_processing"]
  /\ UNCHANGED <<now, terms, hold, payment, receipt, cancellation, webhook, audited,
                 session>>

\* The webhook came first and attached the session: only its expiry is filled in.
HydrateCheckoutSession(k) ==
  LET settled == booking[k] \in {"confirmed", "payment_review", "expired", "cancelled"} IN
  /\ linked[k] = "bare"
  /\ attempt[k] = "session_recorded"
  /\ session[k].expires < terms[k].deadline
  /\ settled \/ session[k].expires > now
  /\ settled \/ IsQuote(k) \/ Live(k)
  /\ linked' = [linked EXCEPT ![k] = "dated"]
  /\ UNCHANGED <<now, booking, terms, hold, attempt, quote, payment, receipt,
                 cancellation, webhook, audited, session>>

-----------------------------------------------------------------------------
\* finalize_stripe_event: a verified provider event, delivered any number of
\* times; once the receipt row is processed a delivery is a replay

\* Attaching a session to a compensated attempt raises in the attempt's trigger.
AttachSession(k) ==
  IF linked[k] = "none"
  THEN /\ attempt[k] = "created"
       /\ attempt' = [attempt EXCEPT ![k] = "session_recorded"]
       /\ linked' = [linked EXCEPT ![k] = "bare"]
  ELSE UNCHANGED <<attempt, linked>>

HoldBacksPayment(k) == Live(k) /\ booking[k] \in AwaitingPayment

BookingOncePaid(k) ==
  IF booking[k] \notin AwaitingPayment THEN booking[k]
  ELSE IF HoldBacksPayment(k) \/ IsQuote(k) THEN "confirmed"
  ELSE "payment_review"

HoldOncePaid(k) ==
  CASE HoldBacksPayment(k) -> "consumed"
    [] Overdue(k)          -> "expired"
    [] OTHER               -> hold[k]

\* Triggers on the payment insert refuse it after a simulated receipt or a
\* customer cancellation.
PaymentInsertAllowed(k) == receipt[k].result = "none" /\ cancellation[k] = None

FinalizeCompleted(k) ==
  /\ session[k].state = "complete"
  /\ webhook[k] = "none"
  /\ payment[k] = "none"
  /\ PaymentInsertAllowed(k)
  /\ AttachSession(k)
  /\ payment' = [payment EXCEPT ![k] = "paid"]
  /\ hold' = [hold EXCEPT ![k] = HoldOncePaid(k)]
  /\ booking' = [booking EXCEPT ![k] = BookingOncePaid(k)]
  /\ quote' = [q \in Quote |-> IF q = terms[k].source /\ quote[q] = "checkout_pending"
                               THEN "accepted" ELSE quote[q]]
  /\ webhook' = [webhook EXCEPT ![k] = "completed"]
  /\ UNCHANGED <<now, terms, receipt, cancellation, audited, session>>

BookingOnceExpired(k) == IF booking[k] \in AwaitingPayment THEN "expired" ELSE booking[k]

FinalizeExpired(k) ==
  /\ session[k].state = "expired"
  /\ webhook[k] = "none"
  /\ AttachSession(k)
  /\ hold' = [hold EXCEPT ![k] = IF @ = "active" THEN Freed(k) ELSE @]
  /\ booking' = [booking EXCEPT ![k] = BookingOnceExpired(k)]
  /\ webhook' = [webhook EXCEPT ![k] = "expired"]
  /\ UNCHANGED <<now, terms, quote, payment, receipt, cancellation, audited, session>>

-----------------------------------------------------------------------------
\* complete_simulated_fixed_tour_payment

\* No receipt yet, and the owner's request key is not spent on another booking.
ReceiptFree(k, r) ==
  /\ receipt[k].result = "none"
  /\ \A j \in Key : Owner[j] = Owner[k] => receipt[j].key # r

SimulationOver(k) ==
  terms[k].deadline <= now \/ hold[k] = "expired" \/ booking[k] = "expired"

CompleteSimulatedPayment(k, r) ==
  /\ IsDeparture(k)
  /\ payment[k] = "none"
  /\ ReceiptFree(k, r)
  /\ cancellation[k] = None
  /\ ~SimulationOver(k)
  /\ booking[k] = "pending_payment"
  /\ hold[k] = "active"
  /\ attempt[k] = "created"
  /\ linked[k] = "none"
  /\ booking' = [booking EXCEPT ![k] = "confirmed"]
  /\ hold' = [hold EXCEPT ![k] = "consumed"]
  /\ receipt' = [receipt EXCEPT ![k] = [result |-> "confirmed", key |-> r]]
  /\ UNCHANGED <<now, terms, attempt, linked, quote, payment, cancellation, webhook,
                 audited, session>>

ExpireSimulatedPayment(k, r) ==
  /\ IsDeparture(k)
  /\ payment[k] = "none"
  /\ ReceiptFree(k, r)
  /\ cancellation[k] = None
  /\ SimulationOver(k)
  /\ hold[k] \in {"active", "expired"}
  /\ booking[k] \in {"pending_payment", "expired"}
  /\ hold' = [hold EXCEPT ![k] = "expired"]
  /\ booking' = [booking EXCEPT ![k] = "expired"]
  /\ receipt' = [receipt EXCEPT ![k] = [result |-> "expired", key |-> r]]
  /\ UNCHANGED <<now, terms, attempt, linked, quote, payment, cancellation, webhook,
                 audited, session>>

-----------------------------------------------------------------------------
\* compensate_checkout_failure: the provider call failed before a session was stored

CompensateCheckoutFailure(k) ==
  LET next == IF Overdue(k) THEN "expired" ELSE "cancelled" IN
  /\ payment[k] = "none"
  /\ receipt[k].result = "none"
  /\ attempt[k] = "created"
  /\ linked[k] = "none"
  /\ hold' = [hold EXCEPT ![k] = IF @ = "active" THEN Freed(k) ELSE @]
  /\ booking' = [booking EXCEPT ![k] = next]
  /\ quote' = [q \in Quote |->
                 IF q # terms[k].source \/ quote[q] # "checkout_pending" THEN quote[q]
                 ELSE IF ValidUntil[q] > now THEN "active" ELSE "expired"]
  /\ attempt' = [attempt EXCEPT ![k] = "compensated"]
  /\ UNCHANGED <<now, terms, linked, payment, receipt, cancellation, webhook, audited,
                 session>>

-----------------------------------------------------------------------------
\* cancel_booking: a pending checkout, or a paid booking with enough notice

CancellationFree(k, r) ==
  /\ cancellation[k] = None
  /\ \A j \in Key : Owner[j] = Owner[k] => cancellation[j] # r

CancelPending(k, r) ==
  /\ CancellationFree(k, r)
  /\ booking[k] = "pending_payment"
  /\ attempt[k] = "created"
  /\ linked[k] = "none"
  /\ payment[k] \notin {"pending", "review", "paid"}
  /\ receipt[k].result = "none"
  /\ SourceStillSellable(k)
  /\ terms[k].deadline > now
  /\ booking' = [booking EXCEPT ![k] = "cancelled"]
  /\ hold' = [hold EXCEPT ![k] = IF IsDeparture(k) THEN "released" ELSE @]
  /\ quote' = [q \in Quote |-> IF q = terms[k].source THEN "revoked" ELSE quote[q]]
  /\ attempt' = [attempt EXCEPT ![k] = "compensated"]
  /\ cancellation' = [cancellation EXCEPT ![k] = r]
  /\ UNCHANGED <<now, terms, linked, payment, receipt, webhook, audited, session>>

TripStartOf(k) ==
  IF IsDeparture(k) THEN StartAt[terms[k].source] ELSE TripStart[terms[k].source]

CancelConfirmed(k, r) ==
  /\ CancellationFree(k, r)
  /\ booking[k] = "confirmed"
  /\ payment[k] = "paid" \/ receipt[k].result = "confirmed"
  /\ TripStartOf(k) >= now + CancelNotice
  /\ booking' = [booking EXCEPT ![k] = "cancelled"]
  /\ cancellation' = [cancellation EXCEPT ![k] = r]
  /\ UNCHANGED <<now, terms, hold, attempt, linked, quote, payment, receipt, webhook,
                 audited, session>>

-----------------------------------------------------------------------------
\* reconcile_payment: the administrator resolves a payment review. It locks
\* the booking and the payment, not the departure, and counts no seats.

ResolvedPayment(resolution) == IF resolution = "confirmed" THEN "paid" ELSE "failed"

ReconcilePayment(k, resolution) ==
  /\ booking[k] = "payment_review"
  /\ payment' = [payment EXCEPT ![k] = IF @ = "review" THEN ResolvedPayment(resolution)
                                       ELSE @]
  /\ booking' = [booking EXCEPT ![k] = resolution]
  /\ audited' = [audited EXCEPT ![k] = IF payment[k] = "none" THEN @
                                       ELSE ResolvedPayment(resolution)]
  /\ UNCHANGED <<now, terms, hold, attempt, linked, quote, receipt, cancellation,
                 webhook, session>>

-----------------------------------------------------------------------------

Next ==
  \/ Tick
  \/ \E k \in Key :
       \/ \E d \in Departure, n \in 1..MaxParty : StartDepartureCheckout(k, d, n)
       \/ \E q \in Quote : StartQuoteCheckout(k, q)
       \/ \E life \in SessionLife : CreateSession(k, life)
       \/ EndSession(k)
       \/ RecordCheckoutSession(k)
       \/ HydrateCheckoutSession(k)
       \/ FinalizeCompleted(k)
       \/ FinalizeExpired(k)
       \/ \E r \in RequestKey : \/ CompleteSimulatedPayment(k, r)
                                \/ ExpireSimulatedPayment(k, r)
                                \/ CancelPending(k, r)
                                \/ CancelConfirmed(k, r)
       \/ CompensateCheckoutFailure(k)
       \/ \E resolution \in {"confirmed", "cancelled"} : ReconcilePayment(k, resolution)

Spec == Init /\ [][Next]_vars

\* The provider redelivers an event until a delivery succeeds.
Fairness == \A k \in Key : WF_vars(FinalizeCompleted(k) \/ FinalizeExpired(k))

FairSpec == Spec /\ Fairness
=============================================================================
