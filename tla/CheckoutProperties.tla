------------------------- MODULE CheckoutProperties -------------------------
(***************************************************************************)
(* What the checkout authority promises: the type invariant, the safety    *)
(* invariants, the action properties and the liveness property of module   *)
(* Checkout, and its refinement of the seat ledger.                        *)
(***************************************************************************)
EXTENDS Checkout

-----------------------------------------------------------------------------
\* Invariants

\* Every variable ranges over the column values the schema declares.
TypeOK ==
  /\ now \in Nat
  /\ booking \in [Key -> BookingStatus \cup {"none"}]
  /\ terms \in [Key -> Terms]
  /\ hold \in [Key -> HoldStatus \cup {"none"}]
  /\ attempt \in [Key -> AttemptStatus \cup {"none"}]
  /\ linked \in [Key -> {"none", "bare", "dated"}]
  /\ quote \in [Quote -> QuoteStatus]
  /\ payment \in [Key -> PaymentStatus \cup {"none"}]
  /\ receipt \in [Key -> Receipt]
  /\ cancellation \in [Key -> RequestKey \cup {None}]
  /\ webhook \in [Key -> {"none", "completed", "expired"}]
  /\ audited \in [Key -> {"none", "paid", "failed"}]
  /\ session \in [Key -> Session]

\* The bookings whose own hold was consumed when they were paid.
Seated(d) ==
  {k \in Key : /\ terms[k].source = d
               /\ hold[k] = "consumed"
               /\ booking[k] \in SeatedStatus}

\* Concurrent checkouts never sell a departure beyond its capacity: the parties
\* seated through their holds and those still holding seats fit together, however
\* holds lapse, payments arrive late and bookings are cancelled in between.
CapacityNeverExceeded ==
  \A d \in Departure : PartySum(Seated(d) \cup Held(d)) <= Capacity[d]

\* A quote is sold at most once: of all the checkouts started from it, at most
\* one is awaiting payment, under review, confirmed or completed.
QuoteSoldOnce ==
  \A j, k \in Key :
    /\ IsQuote(j) /\ terms[j].source = terms[k].source
    /\ {booking[j], booking[k]} \subseteq AwaitingPayment \cup SeatedStatus \cup {"payment_review"}
    => j = k

\* A confirmed booking was paid for exactly once, by the provider or by the
\* simulation, and nothing paid for by one is also paid for by the other.
PaidExactlyOnce ==
  \A k \in Key :
    /\ booking[k] \in SeatedStatus => (payment[k] = "paid") # (receipt[k].result = "confirmed")
    /\ payment[k] = "none" \/ receipt[k].result = "none"

\* A hold follows its booking: seats are blocked only while the booking awaits
\* payment, and stay consumed only for a booking that was confirmed.
HoldFollowsBooking ==
  \A k \in Key :
    /\ hold[k] = "active" => booking[k] \in AwaitingPayment
    /\ hold[k] = "consumed" => booking[k] \in SeatedStatus \cup {"cancelled"}

\* A quote that can be bought has no checkout holding it, and one taken out of
\* sale for a checkout still has the attempt that took it.
QuoteFollowsAttempt ==
  \A q \in Quote :
    LET open == {k \in Key : terms[k].source = q /\ attempt[k] \in OpenAttempt} IN
    /\ quote[q] = "active" => open = {}
    /\ quote[q] \in {"checkout_pending", "accepted"} => \E k \in open : open = {k}

\* A customer's cancellation is final: its booking stays cancelled and no payment
\* is taken for it afterwards.
CancellationIsFinal ==
  \A k \in Key :
    cancellation[k] # None =>
      /\ booking[k] = "cancelled"
      /\ attempt[k] = "compensated" => payment[k] = "none" /\ receipt[k].result = "none"

-----------------------------------------------------------------------------
\* Action properties

\* A late click or a late webhook never confirms a departure booking whose hold
\* is no longer live: only the administrator does, out of payment review.
NoLateConfirmation ==
  [][\A k \in Key :
       (booking'[k] = "confirmed" /\ booking[k] # "confirmed" /\ IsDeparture(k))
         => Live(k) \/ booking[k] = "payment_review"]_vars

\* The transition triggers are a second line of defence: whichever procedures
\* interleave, their own guards already move bookings, holds and quotes only
\* along the triggers' tables (a paid pending booking passes through processing
\* within its transaction), so what is terminal stays so.
TriggersNeverRefuse ==
  [][/\ \A k \in Key :
          \/ booking'[k] = booking[k]
          \/ booking[k] = "none" /\ booking'[k] = "pending_payment"
          \/ <<booking[k], booking'[k]>> \in BookingTransition
          \/ /\ <<booking[k], "payment_processing">> \in BookingTransition
             /\ <<"payment_processing", booking'[k]>> \in BookingTransition
     /\ \A k \in Key :
          \/ hold'[k] = hold[k]
          \/ hold[k] = "none" /\ hold'[k] = "active"
          \/ <<hold[k], hold'[k]>> \in HoldTransition
     /\ \A q \in Quote :
          quote'[q] = quote[q] \/ <<quote[q], quote'[q]>> \in QuoteTransition]_vars

-----------------------------------------------------------------------------
\* Liveness

\* Once the provider has closed a session, paid or not, its booking does not
\* wait for payment for ever: some redelivery settles it.
ClosedSessionSettles ==
  \A k \in Key :
    (session[k].state \in {"complete", "expired"} /\ booking[k] \in AwaitingPayment)
      ~> booking[k] \notin AwaitingPayment

-----------------------------------------------------------------------------
\* Refinement

\* The seats of a departure form a ledger: they are held within the capacity,
\* taken only while held, and given back. Seats an administrator confirms out of
\* payment review have no live hold and are no part of it.
Ledger == INSTANCE SeatLedger WITH
            Traveller <- Key \X (1..MaxParty),
            held      <- [d \in Departure |-> Travellers(Held(d))],
            taken     <- [d \in Departure |-> Travellers(Seated(d))]

\* Every step of the checkout authority is a step of the ledger or none of it.
RefinesSeatLedger == Ledger!Spec

-----------------------------------------------------------------------------
\* Statements of the project's documents that the code does not keep

\* Design, quality gates: concurrent booking attempts never exceed capacity.
ConfirmedWithinCapacity ==
  \A d \in Departure : PartySum(Confirmed(d)) <= Capacity[d]

\* Comment of finalize_stripe_event: a late paid fact is still recorded. A session
\* the customer paid, for a booking no simulated receipt settles, ends as a payment.
PaidFactRecorded ==
  \A k \in Key :
    (session[k].state = "complete" /\ receipt[k].result = "none")
      ~> (payment[k] = "paid" \/ receipt[k].result # "none")

\* Design, state transitions: acceptance of a quote rechecks its validity.
AcceptanceRechecksValidity ==
  [][\A q \in Quote :
       quote'[q] = "accepted" /\ quote[q] # "accepted" => now < ValidUntil[q]]_vars

\* Plan, payment states: the audited reconciliation is what moved the payment.
AuditMatchesPayment ==
  \A k \in Key : audited[k] # "none" => payment[k] = audited[k]

=============================================================================
