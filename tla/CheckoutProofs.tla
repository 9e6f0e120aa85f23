--------------------------- MODULE CheckoutProofs ---------------------------
(***************************************************************************)
(* Proofs about module Checkout, for every set of keys, departures and     *)
(* quotes and every capacity, hold length and clock bound: its types, its  *)
(* capacity, what a booking's payment rows say of it, the single use of    *)
(* quotes, the finality of cancellations, the triggers, and that it        *)
(* implements the ledger of seats.                                         *)
(***************************************************************************)
EXTENDS CheckoutProperties, FiniteSetTheorems, TLAPS

-----------------------------------------------------------------------------
\* Type correctness

\* The initial rows are of the declared column types.
LEMMA TypeInit == Init => TypeOK
BY CheckoutAssumption
DEF Init, TypeOK, Terms, NoTerms, Receipt, NoReceipt, Session, NoSession, QuoteStatus

\* No procedure writes a value a column is not declared to hold.
LEMMA TypeStep == TypeOK /\ [Next]_vars => TypeOK'
<1> SUFFICES ASSUME TypeOK, [Next]_vars PROVE TypeOK'
  OBVIOUS
<1> USE DEF TypeOK, BookingStatus, HoldStatus, AttemptStatus, QuoteStatus
<1>1. CASE Tick
  BY <1>1 DEF Tick
<1>2. ASSUME NEW k \in Key, NEW d \in Departure, NEW n \in 1..MaxParty,
             StartDepartureCheckout(k, d, n)
      PROVE  TypeOK'
  BY <1>2, CheckoutAssumption DEF StartDepartureCheckout, InsertBooking, Terms, Source
<1>3. ASSUME NEW k \in Key, NEW q \in Quote, StartQuoteCheckout(k, q)
      PROVE  TypeOK'
  <2>1. [source |-> q, size |-> QuoteParty[q], deadline |-> ValidUntil[q]] \in Terms
    <3>1. QuoteParty[q] \in Nat /\ ValidUntil[q] \in Nat
      BY CheckoutAssumption
    <3> QED
      BY <3>1 DEF Terms, Source
  <2> QED
    BY <1>3, <2>1 DEF StartQuoteCheckout, InsertBooking
<1>4. ASSUME NEW k \in Key, NEW life \in SessionLife, CreateSession(k, life)
      PROVE  TypeOK'
  BY <1>4, CheckoutAssumption DEF CreateSession, Session
<1>5. ASSUME NEW k \in Key, EndSession(k) PROVE TypeOK'
  BY <1>5 DEF EndSession, Session
<1>6. ASSUME NEW k \in Key, RecordCheckoutSession(k) PROVE TypeOK'
  BY <1>6 DEF RecordCheckoutSession
<1>7. ASSUME NEW k \in Key, HydrateCheckoutSession(k) PROVE TypeOK'
  BY <1>7 DEF HydrateCheckoutSession
<1>8. ASSUME NEW k \in Key, FinalizeCompleted(k) PROVE TypeOK'
  <2>1. HoldOncePaid(k) \in HoldStatus \cup {"none"}
    BY DEF HoldOncePaid, HoldBacksPayment, Overdue
  <2>2. BookingOncePaid(k) \in BookingStatus \cup {"none"}
    BY DEF BookingOncePaid, HoldBacksPayment
  <2> QED
    BY <1>8, <2>1, <2>2 DEF FinalizeCompleted, AttachSession, PaymentStatus
<1>9. ASSUME NEW k \in Key, FinalizeExpired(k) PROVE TypeOK'
  <2>1. Freed(k) \in HoldStatus
    BY DEF Freed
  <2>2. BookingOnceExpired(k) \in BookingStatus \cup {"none"}
    BY DEF BookingOnceExpired
  <2> QED
    BY <1>9, <2>1, <2>2 DEF FinalizeExpired, AttachSession
<1>10. ASSUME NEW k \in Key, NEW r \in RequestKey, CompleteSimulatedPayment(k, r)
       PROVE  TypeOK'
  BY <1>10 DEF CompleteSimulatedPayment, Receipt
<1>11. ASSUME NEW k \in Key, NEW r \in RequestKey, ExpireSimulatedPayment(k, r)
       PROVE  TypeOK'
  BY <1>11 DEF ExpireSimulatedPayment, Receipt
<1>12. ASSUME NEW k \in Key, CompensateCheckoutFailure(k) PROVE TypeOK'
  <2>1. Freed(k) \in HoldStatus
    BY DEF Freed
  <2> QED
    BY <1>12, <2>1 DEF CompensateCheckoutFailure
<1>13. ASSUME NEW k \in Key, NEW r \in RequestKey, CancelPending(k, r)
       PROVE  TypeOK'
  BY <1>13 DEF CancelPending
<1>14. ASSUME NEW k \in Key, NEW r \in RequestKey, CancelConfirmed(k, r)
       PROVE  TypeOK'
  BY <1>14 DEF CancelConfirmed
<1>15. ASSUME NEW k \in Key, NEW resolution \in {"confirmed", "cancelled"},
              ReconcilePayment(k, resolution)
       PROVE  TypeOK'
  BY <1>15 DEF ReconcilePayment, ResolvedPayment, PaymentStatus
<1>16. CASE UNCHANGED vars
  BY <1>16 DEF vars
<1> QED
  BY <1>1, <1>2, <1>3, <1>4, <1>5, <1>6, <1>7, <1>8, <1>9, <1>10, <1>11, <1>12, <1>13,
     <1>14, <1>15, <1>16
  DEF Next

\* Every row the checkout procedures ever write is of its declared column types.
THEOREM TypeCorrect == Spec => []TypeOK
BY TypeInit, TypeStep, PTL DEF Spec

-----------------------------------------------------------------------------
\* Holds

\* A quote is locked by its own status: only a departure booking has a hold.
HoldOnDeparture == \A k \in Key : hold[k] = "active" => IsDeparture(k)

HoldInv == TypeOK /\ HoldFollowsBooking /\ HoldOnDeparture

LEMMA HoldInit == Init => HoldInv
BY TypeInit DEF Init, HoldInv, HoldFollowsBooking, HoldOnDeparture

\* No procedure leaves an active hold on a booking that stopped waiting, nor a
\* consumed one on a booking that still waits.
LEMMA HoldStep == HoldInv /\ [Next]_vars => HoldInv'
<1> SUFFICES ASSUME HoldInv, [Next]_vars PROVE HoldInv'
  OBVIOUS
<1> USE DEF HoldInv, HoldFollowsBooking, HoldOnDeparture, IsDeparture, AwaitingPayment,
            SeatedStatus
<1>0. TypeOK'
  BY TypeStep
<1>1. CASE Tick
  BY <1>0, <1>1 DEF Tick
<1>2. ASSUME NEW k \in Key, NEW d \in Departure, NEW n \in 1..MaxParty,
             StartDepartureCheckout(k, d, n)
      PROVE  HoldInv'
  BY <1>0, <1>2 DEF TypeOK, StartDepartureCheckout, InsertBooking
<1>3. ASSUME NEW k \in Key, NEW q \in Quote, StartQuoteCheckout(k, q)
      PROVE  HoldInv'
  BY <1>0, <1>3 DEF TypeOK, StartQuoteCheckout, InsertBooking
<1>4. ASSUME NEW k \in Key, NEW life \in SessionLife, CreateSession(k, life)
      PROVE  HoldInv'
  BY <1>0, <1>4 DEF CreateSession
<1>5. ASSUME NEW k \in Key, EndSession(k) PROVE HoldInv'
  BY <1>0, <1>5 DEF EndSession
<1>6. ASSUME NEW k \in Key, RecordCheckoutSession(k) PROVE HoldInv'
  BY <1>0, <1>6 DEF TypeOK, RecordCheckoutSession
<1>7. ASSUME NEW k \in Key, HydrateCheckoutSession(k) PROVE HoldInv'
  BY <1>0, <1>7 DEF HydrateCheckoutSession
<1>8. ASSUME NEW k \in Key, FinalizeCompleted(k) PROVE HoldInv'
  BY <1>0, <1>8 DEF TypeOK, FinalizeCompleted, HoldOncePaid, BookingOncePaid,
     HoldBacksPayment, Live, Overdue, Terms
<1>9. ASSUME NEW k \in Key, FinalizeExpired(k) PROVE HoldInv'
  BY <1>0, <1>9 DEF TypeOK, FinalizeExpired, Freed, BookingOnceExpired
<1>10. ASSUME NEW k \in Key, NEW r \in RequestKey, CompleteSimulatedPayment(k, r)
       PROVE  HoldInv'
  BY <1>0, <1>10 DEF TypeOK, CompleteSimulatedPayment
<1>11. ASSUME NEW k \in Key, NEW r \in RequestKey, ExpireSimulatedPayment(k, r)
       PROVE  HoldInv'
  BY <1>0, <1>11 DEF TypeOK, ExpireSimulatedPayment
<1>12. ASSUME NEW k \in Key, CompensateCheckoutFailure(k) PROVE HoldInv'
  BY <1>0, <1>12 DEF TypeOK, CompensateCheckoutFailure, Freed, Overdue
<1>13. ASSUME NEW k \in Key, NEW r \in RequestKey, CancelPending(k, r)
       PROVE  HoldInv'
  BY <1>0, <1>13 DEF TypeOK, CancelPending
<1>14. ASSUME NEW k \in Key, NEW r \in RequestKey, CancelConfirmed(k, r)
       PROVE  HoldInv'
  BY <1>0, <1>14 DEF TypeOK, CancelConfirmed
<1>15. ASSUME NEW k \in Key, NEW resolution \in {"confirmed", "cancelled"},
              ReconcilePayment(k, resolution)
       PROVE  HoldInv'
  BY <1>0, <1>15 DEF TypeOK, ReconcilePayment
<1>16. CASE UNCHANGED vars
  BY <1>0, <1>16 DEF vars
<1> QED
  BY <1>1, <1>2, <1>3, <1>4, <1>5, <1>6, <1>7, <1>8, <1>9, <1>10, <1>11, <1>12, <1>13,
     <1>14, <1>15, <1>16
  DEF Next

\* Seats are blocked only while a booking awaits payment, and stay consumed only
\* for a booking that was confirmed.
THEOREM HoldsFollowBookings == Spec => []HoldFollowsBooking
<1>1. HoldInv => HoldFollowsBooking
  BY DEF HoldInv
<1> QED
  BY HoldInit, HoldStep, <1>1, PTL DEF Spec

-----------------------------------------------------------------------------
\* Capacity

\* What any step but the start of a checkout may do to the seats of checkout k:
\* its terms stay, no hold becomes active, and a seat is only taken out of a live
\* hold.
SeatStep(k) ==
  /\ terms'[k] = terms[k]
  /\ hold'[k] = "active" => hold[k] = "active"
  /\ hold'[k] = "consumed" /\ booking'[k] \in SeatedStatus
       => Live(k) \/ (hold[k] = "consumed" /\ booking[k] \in SeatedStatus)

Starting ==
  \E k \in Key :
    \/ \E d \in Departure, n \in 1..MaxParty : StartDepartureCheckout(k, d, n)
    \/ \E q \in Quote : StartQuoteCheckout(k, q)

LEMMA OtherStepsTakeNoSeats ==
  HoldInv /\ [Next]_vars /\ ~Starting => now' >= now /\ \A j \in Key : SeatStep(j)
<1> SUFFICES ASSUME HoldInv, [Next]_vars, ~Starting
             PROVE  now' >= now /\ \A j \in Key : SeatStep(j)
  OBVIOUS
<1> USE DEF HoldInv, HoldFollowsBooking, AwaitingPayment, SeatedStatus, SeatStep, Live
<1> DEFINE Goal == now' >= now /\ \A j \in Key : SeatStep(j)
<1>0. now \in Nat /\ now >= now
  BY DEF TypeOK
<1>1. CASE Tick
  BY <1>0, <1>1 DEF Tick
<1>2. ASSUME NEW k \in Key, NEW life \in SessionLife, CreateSession(k, life)
      PROVE  Goal
  BY <1>0, <1>2 DEF CreateSession
<1>3. ASSUME NEW k \in Key, EndSession(k) PROVE Goal
  BY <1>0, <1>3 DEF EndSession
<1>4. ASSUME NEW k \in Key, RecordCheckoutSession(k) PROVE Goal
  BY <1>0, <1>4 DEF TypeOK, RecordCheckoutSession
<1>5. ASSUME NEW k \in Key, HydrateCheckoutSession(k) PROVE Goal
  BY <1>0, <1>5 DEF HydrateCheckoutSession
<1>6. ASSUME NEW k \in Key, FinalizeCompleted(k) PROVE Goal
  <2>1. /\ hold' = [hold EXCEPT ![k] = HoldOncePaid(k)]
        /\ booking' = [booking EXCEPT ![k] = BookingOncePaid(k)]
        /\ UNCHANGED <<now, terms>>
    BY <1>6 DEF FinalizeCompleted
  <2>2. /\ HoldOncePaid(k) = "active" => hold[k] = "active"
        /\ HoldOncePaid(k) = "consumed" => Live(k) \/ hold[k] = "consumed"
    BY DEF HoldOncePaid, HoldBacksPayment
  <2>3. hold[k] = "consumed" => BookingOncePaid(k) = booking[k]
    BY DEF BookingOncePaid, TypeOK
  <2>4. SeatStep(k)
    <3>1. hold'[k] = HoldOncePaid(k) /\ booking'[k] = BookingOncePaid(k)
      BY <2>1 DEF TypeOK
    <3> QED
      BY <2>1, <2>2, <2>3, <3>1
  <2>5. ASSUME NEW j \in Key, j # k PROVE SeatStep(j)
    BY <2>1, <2>5 DEF TypeOK
  <2> QED
    BY <1>0, <2>1, <2>4, <2>5
<1>7. ASSUME NEW k \in Key, FinalizeExpired(k) PROVE Goal
  BY <1>0, <1>7 DEF TypeOK, FinalizeExpired, Freed, BookingOnceExpired
<1>8. ASSUME NEW k \in Key, NEW r \in RequestKey, CompleteSimulatedPayment(k, r)
      PROVE  Goal
  <2>1. Live(k)
    BY <1>8 DEF CompleteSimulatedPayment, SimulationOver, TypeOK, Terms
  <2> QED
    BY <1>0, <1>8, <2>1 DEF TypeOK, CompleteSimulatedPayment
<1>9. ASSUME NEW k \in Key, NEW r \in RequestKey, ExpireSimulatedPayment(k, r)
      PROVE  Goal
  BY <1>0, <1>9 DEF TypeOK, ExpireSimulatedPayment
<1>10. ASSUME NEW k \in Key, CompensateCheckoutFailure(k) PROVE Goal
  BY <1>0, <1>10 DEF TypeOK, CompensateCheckoutFailure, Freed, Overdue
<1>11. ASSUME NEW k \in Key, NEW r \in RequestKey, CancelPending(k, r) PROVE Goal
  BY <1>0, <1>11 DEF TypeOK, CancelPending
<1>12. ASSUME NEW k \in Key, NEW r \in RequestKey, CancelConfirmed(k, r) PROVE Goal
  BY <1>0, <1>12 DEF TypeOK, CancelConfirmed
<1>13. ASSUME NEW k \in Key, NEW resolution \in {"confirmed", "cancelled"},
              ReconcilePayment(k, resolution)
       PROVE  Goal
  BY <1>0, <1>13 DEF TypeOK, ReconcilePayment
<1>14. CASE UNCHANGED vars
  BY <1>0, <1>14 DEF vars
<1> QED
  BY <1>1, <1>2, <1>3, <1>4, <1>5, <1>6, <1>7, <1>8, <1>9, <1>10, <1>11, <1>12, <1>13,
     <1>14
  DEF Next, Starting

\* The parties of finitely many checkouts are finitely many travellers.
LEMMA TravellersFinite ==
  ASSUME NEW S \in SUBSET Key
  PROVE  IsFiniteSet(Travellers(S)) /\ PartySum(S) \in Nat
<1>1. IsFiniteSet(S)
  BY FS_Subset, CheckoutAssumption
<1>2. IsFiniteSet(1..MaxParty)
  BY FS_Interval, CheckoutAssumption
<1>3. IsFiniteSet(S \X (1..MaxParty))
  BY <1>1, <1>2, FS_Product
<1>4. Travellers(S) \in SUBSET (S \X (1..MaxParty))
  BY DEF Travellers
<1>5. IsFiniteSet(Travellers(S))
  BY <1>3, <1>4, FS_Subset
<1> QED
  BY <1>5, FS_CardinalityType DEF PartySum

\* Two groups together are no more travellers than one group and the other.
LEMMA PartySumOfUnion ==
  ASSUME NEW S \in SUBSET Key, NEW T \in SUBSET Key
  PROVE  PartySum(S \cup T) <= PartySum(S) + PartySum(T)
<1>1. /\ IsFiniteSet(Travellers(S)) /\ PartySum(S) \in Nat
      /\ IsFiniteSet(Travellers(T)) /\ PartySum(T) \in Nat
  BY TravellersFinite
<1>2. Travellers(S \cup T) = Travellers(S) \cup Travellers(T)
  BY DEF Travellers
<1>3. Cardinality(Travellers(S) \cap Travellers(T)) \in Nat
  BY <1>1, FS_Intersection, FS_CardinalityType
<1>4. Cardinality(Travellers(S) \cup Travellers(T))
        = PartySum(S) + PartySum(T) - Cardinality(Travellers(S) \cap Travellers(T))
  BY <1>1, FS_Union DEF PartySum
<1>5. PartySum(S \cup T)
        = PartySum(S) + PartySum(T) - Cardinality(Travellers(S) \cap Travellers(T))
  BY <1>2, <1>4 DEF PartySum
<1> QED
  BY <1>1, <1>3, <1>5

\* A smaller set of travellers, before or after a step, is a smaller sum.
LEMMA FewerTravellers ==
  ASSUME NEW S \in SUBSET Key, NEW T, T \subseteq Travellers(S)
  PROVE  IsFiniteSet(T) /\ Cardinality(T) \in Nat /\ Cardinality(T) <= PartySum(S)
BY TravellersFinite, FS_Subset, FS_CardinalityType DEF PartySum

Occupied(d) == Seated(d) \cup Held(d)

CapacityInv == HoldInv /\ CapacityNeverExceeded

LEMMA CapacityInit == Init => CapacityInv
<1> SUFFICES ASSUME Init PROVE CapacityInv
  OBVIOUS
<1>1. ASSUME NEW d \in Departure PROVE PartySum(Occupied(d)) <= Capacity[d]
  <2>1. Occupied(d) = {}
    BY DEF Init, Occupied, Seated, Held, Live
  <2>2. Travellers(Occupied(d)) = {}
    BY <2>1 DEF Travellers
  <2> QED
    BY <2>2, FS_EmptySet, CheckoutAssumption DEF PartySum
<1> QED
  BY <1>1, HoldInit DEF CapacityInv, CapacityNeverExceeded, Occupied

\* Payment, expiry, compensation, cancellation and reconciliation add nobody.
LEMMA OtherStepsKeepCapacity ==
  CapacityInv /\ [Next]_vars /\ ~Starting => CapacityNeverExceeded'
<1> SUFFICES ASSUME CapacityInv, [Next]_vars, ~Starting, NEW d \in Departure
             PROVE  PartySum(Occupied(d))' <= Capacity[d]
  BY DEF CapacityNeverExceeded, Occupied
<1>1. now \in Nat /\ now' \in Nat /\ terms \in [Key -> Terms]
  BY TypeStep DEF CapacityInv, HoldInv, TypeOK
<1>2. now' >= now /\ \A j \in Key : SeatStep(j)
  BY OtherStepsTakeNoSeats DEF CapacityInv
<1>3. ASSUME NEW j \in Key, j \in Occupied(d)' PROVE j \in Occupied(d)
  <2>1. terms[j].source = d /\ terms'[j] = terms[j]
    BY <1>2, <1>3 DEF Occupied, Seated, Held, SeatStep
  <2>2. CASE j \in Seated(d)'
    BY <1>2, <2>1, <2>2
    DEF Seated, SeatStep, Occupied, Held, Live, CapacityInv, HoldInv, HoldFollowsBooking,
        AwaitingPayment, SeatedStatus
  <2>3. CASE j \in Held(d)'
    <3>1. hold[j] = "active"
      BY <1>2, <2>3 DEF Held, Live, SeatStep
    <3>2. terms[j].deadline > now
      BY <1>1, <1>2, <2>1, <2>3 DEF Held, Live, Terms
    <3>3. booking[j] \notin SeatedStatus
      BY <3>1 DEF CapacityInv, HoldInv, HoldFollowsBooking, AwaitingPayment, SeatedStatus
    <3> QED
      BY <2>1, <3>1, <3>2, <3>3 DEF Occupied, Held, Live
  <2> QED
    BY <1>3, <2>2, <2>3 DEF Occupied
<1>4. Travellers(Occupied(d))' \subseteq Travellers(Occupied(d))
  <2> SUFFICES ASSUME NEW t \in Travellers(Occupied(d))' PROVE t \in Travellers(Occupied(d))
    OBVIOUS
  <2>1. /\ t \in Occupied(d)' \X (1..MaxParty)
        /\ t[2] <= terms'[t[1]].size
    BY DEF Travellers
  <2>2. t[1] \in Key /\ t[1] \in Occupied(d)'
    BY <2>1 DEF Occupied, Seated, Held
  <2>3. t[1] \in Occupied(d) /\ terms'[t[1]] = terms[t[1]]
    BY <1>2, <1>3, <2>2 DEF SeatStep
  <2> QED
    BY <2>1, <2>3 DEF Travellers
<1>5. Occupied(d) \in SUBSET Key
  BY DEF Occupied, Seated, Held
<1>6. PartySum(Occupied(d)) \in Nat /\ PartySum(Occupied(d)) <= Capacity[d]
  BY <1>5, TravellersFinite DEF CapacityInv, CapacityNeverExceeded, Occupied
<1>7. /\ PartySum(Occupied(d))' \in Nat
      /\ PartySum(Occupied(d))' <= PartySum(Occupied(d))
  BY <1>4, <1>5, FewerTravellers DEF PartySum
<1> QED
  BY <1>6, <1>7, CheckoutAssumption

\* A quote checkout occupies no seat of any departure.
LEMMA QuoteStartKeepsCapacity ==
  ASSUME CapacityInv, NEW k \in Key, NEW q \in Quote, StartQuoteCheckout(k, q)
  PROVE  CapacityNeverExceeded'
<1> SUFFICES ASSUME NEW d \in Departure PROVE PartySum(Occupied(d))' <= Capacity[d]
  BY DEF CapacityNeverExceeded, Occupied
<1>1. /\ terms' = [terms EXCEPT ![k] = [source |-> q, size |-> QuoteParty[q],
                                        deadline |-> ValidUntil[q]]]
      /\ booking' = [booking EXCEPT ![k] = "pending_payment"]
      /\ UNCHANGED <<now, hold>>
  BY DEF StartQuoteCheckout, InsertBooking
<1>2. q # d
  BY CheckoutAssumption
<1>3. terms \in [Key -> Terms] /\ booking \in [Key -> BookingStatus \cup {"none"}]
  BY DEF CapacityInv, HoldInv, TypeOK
<1>4. ASSUME NEW j \in Key, j \in Occupied(d)'
      PROVE  j \in Occupied(d) /\ terms'[j] = terms[j]
  <2>1. terms'[j].source = d
    BY <1>4 DEF Occupied, Seated, Held
  <2>2. j # k
    BY <1>1, <1>2, <1>3, <2>1
  <2>3. terms'[j] = terms[j] /\ booking'[j] = booking[j]
    BY <1>1, <1>3, <2>2
  <2> QED
    BY <1>1, <1>4, <2>3 DEF Occupied, Seated, Held, Live
<1>5. Travellers(Occupied(d))' \subseteq Travellers(Occupied(d))
  <2> SUFFICES ASSUME NEW t \in Travellers(Occupied(d))' PROVE t \in Travellers(Occupied(d))
    OBVIOUS
  <2>1. /\ t \in Occupied(d)' \X (1..MaxParty)
        /\ t[2] <= terms'[t[1]].size
    BY DEF Travellers
  <2>2. t[1] \in Key /\ t[1] \in Occupied(d)'
    BY <2>1 DEF Occupied, Seated, Held
  <2> QED
    BY <1>4, <2>1, <2>2 DEF Travellers
<1>6. Occupied(d) \in SUBSET Key
  BY DEF Occupied, Seated, Held
<1>7. PartySum(Occupied(d)) \in Nat /\ PartySum(Occupied(d)) <= Capacity[d]
  BY <1>6, TravellersFinite DEF CapacityInv, CapacityNeverExceeded, Occupied
<1>8. PartySum(Occupied(d))' \in Nat /\ PartySum(Occupied(d))' <= PartySum(Occupied(d))
  BY <1>5, <1>6, FewerTravellers DEF PartySum
<1> QED
  BY <1>7, <1>8, CheckoutAssumption

\* A departure checkout adds its party to one departure, where the check left room
\* for it beside every confirmed party and every live hold.
LEMMA DepartureStartKeepsCapacity ==
  ASSUME CapacityInv, NEW k \in Key, NEW c \in Departure, NEW n \in 1..MaxParty,
         StartDepartureCheckout(k, c, n)
  PROVE  CapacityNeverExceeded'
<1> SUFFICES ASSUME NEW d \in Departure PROVE PartySum(Occupied(d))' <= Capacity[d]
  BY DEF CapacityNeverExceeded, Occupied
<1> DEFINE Party == {k} \X (1..n)
<1>1. /\ terms' = [terms EXCEPT ![k] = [source |-> c, size |-> n,
                                        deadline |-> now + HoldTime]]
      /\ booking' = [booking EXCEPT ![k] = "pending_payment"]
      /\ hold' = [hold EXCEPT ![k] = "active"]
      /\ UNCHANGED now
      /\ PartySum(Confirmed(c)) + PartySum(Held(c)) + n <= Capacity[c]
  BY DEF StartDepartureCheckout, InsertBooking
<1>2. /\ terms \in [Key -> Terms]
      /\ booking \in [Key -> BookingStatus \cup {"none"}]
      /\ hold \in [Key -> HoldStatus \cup {"none"}]
  BY DEF CapacityInv, HoldInv, TypeOK
<1>3. ASSUME NEW j \in Key, j # k, j \in Occupied(d)'
      PROVE  j \in Occupied(d) /\ terms'[j] = terms[j]
  <2>1. terms'[j] = terms[j] /\ booking'[j] = booking[j] /\ hold'[j] = hold[j]
    BY <1>1, <1>2, <1>3
  <2> QED
    BY <1>1, <1>3, <2>1 DEF Occupied, Seated, Held, Live
<1>4. k \in Occupied(d)' => d = c
  BY <1>1, <1>2 DEF Occupied, Seated, Held
<1>5. ASSUME NEW t \in Travellers(Occupied(d))'
      PROVE  t \in Travellers(Occupied(d)) \/ (d = c /\ t \in Party)
  <2>1. /\ t \in Occupied(d)' \X (1..MaxParty)
        /\ t[2] <= terms'[t[1]].size
    BY <1>5 DEF Travellers
  <2>2. t[1] \in Key /\ t[1] \in Occupied(d)'
    BY <2>1 DEF Occupied, Seated, Held
  <2>3. CASE t[1] # k
    <3>1. t[1] \in Occupied(d) /\ terms'[t[1]] = terms[t[1]]
      BY <1>3, <2>2, <2>3
    <3> QED
      BY <2>1, <3>1 DEF Travellers
  <2>4. CASE t[1] = k
    <3>1. d = c /\ terms'[k].size = n
      BY <1>1, <1>2, <1>4, <2>2, <2>4
    <3>2. t = <<k, t[2]>> /\ t[2] \in 1..MaxParty /\ t[2] <= n
      BY <2>1, <2>4, <3>1
    <3>3. t[2] \in 1..n
      BY <3>2, CheckoutAssumption
    <3> QED
      BY <3>1, <3>2, <3>3
  <2> QED
    BY <2>3, <2>4
<1>6. Occupied(d) \in SUBSET Key /\ Confirmed(d) \in SUBSET Key /\ Held(d) \in SUBSET Key
  BY DEF Occupied, Seated, Held, Confirmed
<1>7. PartySum(Occupied(d)) \in Nat /\ PartySum(Occupied(d)) <= Capacity[d]
  BY <1>6, TravellersFinite DEF CapacityInv, CapacityNeverExceeded, Occupied
<1>8. CASE d # c
  <2>1. Travellers(Occupied(d))' \subseteq Travellers(Occupied(d))
    BY <1>5, <1>8
  <2>2. PartySum(Occupied(d))' \in Nat /\ PartySum(Occupied(d))' <= PartySum(Occupied(d))
    BY <1>6, <2>1, FewerTravellers DEF PartySum
  <2> QED
    BY <1>7, <2>2, CheckoutAssumption
<1>9. CASE d = c
  <2>1. IsFiniteSet(Party) /\ Cardinality(Party) = n
    <3>1. IsFiniteSet({k}) /\ Cardinality({k}) = 1
      BY FS_Singleton
    <3>2. IsFiniteSet(1..n) /\ Cardinality(1..n) = n
      BY FS_Interval, CheckoutAssumption
    <3>3. IsFiniteSet(Party) /\ Cardinality(Party) = 1 * n
      BY <3>1, <3>2, FS_Product
    <3>4. n \in Nat
      BY CheckoutAssumption
    <3> QED
      BY <3>3, <3>4
  <2>2. IsFiniteSet(Travellers(Occupied(d))) /\ PartySum(Occupied(d)) \in Nat
    BY <1>6, TravellersFinite
  <2>3. PartySum(Occupied(d)) <= PartySum(Confirmed(d)) + PartySum(Held(d))
    <3>1. Travellers(Occupied(d)) \subseteq Travellers(Confirmed(d) \cup Held(d))
      BY DEF Travellers, Occupied, Seated, Confirmed
    <3>2. Confirmed(d) \cup Held(d) \in SUBSET Key
      BY <1>6
    <3>3. PartySum(Occupied(d)) <= PartySum(Confirmed(d) \cup Held(d))
      BY <3>1, <3>2, FewerTravellers DEF PartySum
    <3>4. PartySum(Confirmed(d) \cup Held(d)) <= PartySum(Confirmed(d)) + PartySum(Held(d))
      BY <1>6, PartySumOfUnion
    <3>5. /\ PartySum(Confirmed(d)) \in Nat /\ PartySum(Held(d)) \in Nat
          /\ PartySum(Confirmed(d) \cup Held(d)) \in Nat
      BY <1>6, <3>2, TravellersFinite
    <3> QED
      BY <2>2, <3>3, <3>4, <3>5
  <2>4. Travellers(Occupied(d))' \in SUBSET (Travellers(Occupied(d)) \cup Party)
    BY <1>5, <1>9
  <2>5. /\ IsFiniteSet(Travellers(Occupied(d)) \cup Party)
        /\ Cardinality(Travellers(Occupied(d)) \cup Party)
             = PartySum(Occupied(d)) + n - Cardinality(Travellers(Occupied(d)) \cap Party)
    BY <2>1, <2>2, FS_Union DEF PartySum
  <2>6. Cardinality(Travellers(Occupied(d)) \cap Party) \in Nat
    BY <2>2, FS_Intersection, FS_CardinalityType
  <2>7. Cardinality(Travellers(Occupied(d))') \in Nat
        /\ Cardinality(Travellers(Occupied(d))')
             <= Cardinality(Travellers(Occupied(d)) \cup Party)
    BY <2>4, <2>5, FS_Subset, FS_CardinalityType
  <2>8. PartySum(Confirmed(d)) \in Nat /\ PartySum(Held(d)) \in Nat
    BY <1>6, TravellersFinite
  <2>9. PartySum(Occupied(d))' <= PartySum(Occupied(d)) + n
    <3>1. PartySum(Occupied(d))' = Cardinality(Travellers(Occupied(d))')
      BY DEF PartySum
    <3> QED
      BY <2>2, <2>5, <2>6, <2>7, <3>1, CheckoutAssumption
  <2>10. PartySum(Occupied(d))' \in Nat /\ Capacity[d] \in Nat /\ n \in Nat
    BY <2>7, CheckoutAssumption DEF PartySum
  <2> QED
    BY <1>1, <1>9, <2>2, <2>3, <2>8, <2>9, <2>10
<1> QED
  BY <1>8, <1>9

LEMMA CapacityStep == CapacityInv /\ [Next]_vars => CapacityInv'
<1> SUFFICES ASSUME CapacityInv, [Next]_vars PROVE CapacityInv'
  OBVIOUS
<1>1. HoldInv'
  BY HoldStep DEF CapacityInv
<1>2. CASE ~Starting
  BY <1>1, <1>2, OtherStepsKeepCapacity DEF CapacityInv
<1>3. CASE Starting
  BY <1>1, <1>3, QuoteStartKeepsCapacity, DepartureStartKeepsCapacity
  DEF Starting, CapacityInv
<1> QED
  BY <1>2, <1>3

\* Concurrent checkouts never sell a departure beyond its capacity, whatever its
\* capacity, the number of checkouts and the order of their payments.
THEOREM CapacityKept == Spec => []CapacityNeverExceeded
<1>1. CapacityInv => CapacityNeverExceeded
  BY DEF CapacityInv
<1> QED
  BY CapacityInit, CapacityStep, <1>1, PTL DEF Spec

-----------------------------------------------------------------------------
\* Late confirmation

\* A step that confirms a departure booking found its hold live, or was the
\* administrator's.
LEMMA ConfirmationStep ==
  ASSUME TypeOK, Next, NEW j \in Key, IsDeparture(j),
         booking'[j] = "confirmed", booking[j] # "confirmed"
  PROVE  Live(j) \/ booking[j] = "payment_review"
<1> USE DEF TypeOK
<1>1. CASE Tick
  BY <1>1 DEF Tick
<1>2. ASSUME NEW k \in Key, NEW d \in Departure, NEW n \in 1..MaxParty,
             StartDepartureCheckout(k, d, n)
      PROVE  FALSE
  BY <1>2 DEF StartDepartureCheckout, InsertBooking
<1>3. ASSUME NEW k \in Key, NEW q \in Quote, StartQuoteCheckout(k, q) PROVE FALSE
  BY <1>3 DEF StartQuoteCheckout, InsertBooking
<1>4. ASSUME NEW k \in Key, NEW life \in SessionLife, CreateSession(k, life) PROVE FALSE
  BY <1>4 DEF CreateSession
<1>5. ASSUME NEW k \in Key, EndSession(k) PROVE FALSE
  BY <1>5 DEF EndSession
<1>6. ASSUME NEW k \in Key, RecordCheckoutSession(k) PROVE FALSE
  BY <1>6 DEF RecordCheckoutSession
<1>7. ASSUME NEW k \in Key, HydrateCheckoutSession(k) PROVE FALSE
  BY <1>7 DEF HydrateCheckoutSession
<1>8. ASSUME NEW k \in Key, FinalizeCompleted(k) PROVE Live(j)
  <2>1. j = k /\ BookingOncePaid(k) = "confirmed"
    BY <1>8 DEF FinalizeCompleted
  <2>2. ~IsQuote(k)
    BY <2>1, CheckoutAssumption DEF IsDeparture, IsQuote
  <2> QED
    BY <2>1, <2>2 DEF BookingOncePaid, HoldBacksPayment
<1>9. ASSUME NEW k \in Key, FinalizeExpired(k) PROVE FALSE
  BY <1>9 DEF FinalizeExpired, BookingOnceExpired
<1>10. ASSUME NEW k \in Key, NEW r \in RequestKey, CompleteSimulatedPayment(k, r)
       PROVE  Live(j)
  <2>1. j = k
    BY <1>10 DEF CompleteSimulatedPayment
  <2> QED
    BY <1>10, <2>1 DEF CompleteSimulatedPayment, SimulationOver, Live, Terms
<1>11. ASSUME NEW k \in Key, NEW r \in RequestKey, ExpireSimulatedPayment(k, r)
       PROVE  FALSE
  BY <1>11 DEF ExpireSimulatedPayment
<1>12. ASSUME NEW k \in Key, CompensateCheckoutFailure(k) PROVE FALSE
  BY <1>12 DEF CompensateCheckoutFailure
<1>13. ASSUME NEW k \in Key, NEW r \in RequestKey, CancelPending(k, r) PROVE FALSE
  BY <1>13 DEF CancelPending
<1>14. ASSUME NEW k \in Key, NEW r \in RequestKey, CancelConfirmed(k, r) PROVE FALSE
  BY <1>14 DEF CancelConfirmed
<1>15. ASSUME NEW k \in Key, NEW resolution \in {"confirmed", "cancelled"},
              ReconcilePayment(k, resolution)
       PROVE  booking[j] = "payment_review"
  BY <1>15 DEF ReconcilePayment
<1> QED
  BY <1>1, <1>2, <1>3, <1>4, <1>5, <1>6, <1>7, <1>8, <1>9, <1>10, <1>11, <1>12, <1>13,
     <1>14, <1>15
  DEF Next

\* A late click or a late webhook never confirms a departure booking whose hold is
\* no longer live: only the administrator does, out of payment review.
THEOREM ConfirmationNeverLate == Spec => NoLateConfirmation
<1>1. TypeOK /\ [Next]_vars =>
        [\A k \in Key :
           (booking'[k] = "confirmed" /\ booking[k] # "confirmed" /\ IsDeparture(k))
             => Live(k) \/ booking[k] = "payment_review"]_vars
  BY ConfirmationStep
<1> QED
  BY TypeCorrect, <1>1, PTL DEF Spec, NoLateConfirmation

-----------------------------------------------------------------------------
\* Payments

\* Reviews are of payments the provider reported: no code leaves a payment
\* pending, failed or in review.
ReviewedPayment ==
  \A k \in Key :
    /\ payment[k] \in {"none", "paid"}
    /\ booking[k] = "payment_review" => payment[k] = "paid"

PaymentInv == TypeOK /\ ReviewedPayment /\ PaidExactlyOnce

LEMMA PaymentInit == Init => PaymentInv
BY TypeInit DEF Init, PaymentInv, ReviewedPayment, PaidExactlyOnce, SeatedStatus, NoReceipt

\* No procedure pays for a booking a second time, nor confirms one unpaid.
LEMMA PaymentStep == PaymentInv /\ [Next]_vars => PaymentInv'
<1> SUFFICES ASSUME PaymentInv, [Next]_vars PROVE PaymentInv'
  OBVIOUS
<1> USE DEF PaymentInv, ReviewedPayment, PaidExactlyOnce, SeatedStatus
<1>0. TypeOK'
  BY TypeStep
<1>1. CASE Tick
  BY <1>0, <1>1 DEF Tick
<1>2. ASSUME NEW k \in Key, NEW d \in Departure, NEW n \in 1..MaxParty,
             StartDepartureCheckout(k, d, n)
      PROVE  PaymentInv'
  BY <1>0, <1>2 DEF TypeOK, StartDepartureCheckout, InsertBooking
<1>3. ASSUME NEW k \in Key, NEW q \in Quote, StartQuoteCheckout(k, q)
      PROVE  PaymentInv'
  BY <1>0, <1>3 DEF TypeOK, StartQuoteCheckout, InsertBooking
<1>4. ASSUME NEW k \in Key, NEW life \in SessionLife, CreateSession(k, life)
      PROVE  PaymentInv'
  BY <1>0, <1>4 DEF CreateSession
<1>5. ASSUME NEW k \in Key, EndSession(k) PROVE PaymentInv'
  BY <1>0, <1>5 DEF EndSession
<1>6. ASSUME NEW k \in Key, RecordCheckoutSession(k) PROVE PaymentInv'
  BY <1>0, <1>6 DEF TypeOK, RecordCheckoutSession
<1>7. ASSUME NEW k \in Key, HydrateCheckoutSession(k) PROVE PaymentInv'
  BY <1>0, <1>7 DEF HydrateCheckoutSession
<1>8. ASSUME NEW k \in Key, FinalizeCompleted(k) PROVE PaymentInv'
  BY <1>0, <1>8 DEF TypeOK, FinalizeCompleted, PaymentInsertAllowed
<1>9. ASSUME NEW k \in Key, FinalizeExpired(k) PROVE PaymentInv'
  BY <1>0, <1>9 DEF TypeOK, FinalizeExpired, BookingOnceExpired
<1>10. ASSUME NEW k \in Key, NEW r \in RequestKey, CompleteSimulatedPayment(k, r)
       PROVE  PaymentInv'
  BY <1>0, <1>10 DEF TypeOK, CompleteSimulatedPayment
<1>11. ASSUME NEW k \in Key, NEW r \in RequestKey, ExpireSimulatedPayment(k, r)
       PROVE  PaymentInv'
  BY <1>0, <1>11 DEF TypeOK, ExpireSimulatedPayment
<1>12. ASSUME NEW k \in Key, CompensateCheckoutFailure(k) PROVE PaymentInv'
  BY <1>0, <1>12 DEF TypeOK, CompensateCheckoutFailure
<1>13. ASSUME NEW k \in Key, NEW r \in RequestKey, CancelPending(k, r)
       PROVE  PaymentInv'
  BY <1>0, <1>13 DEF TypeOK, CancelPending
<1>14. ASSUME NEW k \in Key, NEW r \in RequestKey, CancelConfirmed(k, r)
       PROVE  PaymentInv'
  BY <1>0, <1>14 DEF TypeOK, CancelConfirmed
<1>15. ASSUME NEW k \in Key, NEW resolution \in {"confirmed", "cancelled"},
              ReconcilePayment(k, resolution)
       PROVE  PaymentInv'
  BY <1>0, <1>15 DEF TypeOK, ReconcilePayment
<1>16. CASE UNCHANGED vars
  BY <1>0, <1>16 DEF vars
<1> QED
  BY <1>1, <1>2, <1>3, <1>4, <1>5, <1>6, <1>7, <1>8, <1>9, <1>10, <1>11, <1>12, <1>13,
     <1>14, <1>15, <1>16
  DEF Next

\* A confirmed booking was paid for exactly once, by the provider or by the
\* simulation.
THEOREM PaymentsExactlyOnce == Spec => []PaidExactlyOnce
<1>1. PaymentInv => PaidExactlyOnce
  BY DEF PaymentInv
<1> QED
  BY PaymentInit, PaymentStep, <1>1, PTL DEF Spec

-----------------------------------------------------------------------------
\* How the rows of one checkout hang together

Sellable == AwaitingPayment \cup SeatedStatus \cup {"payment_review"}

\* Nothing is written before the booking. A session is only stored with an open
\* attempt, and an attempt without one and without a receipt has a booking that
\* still waits; one that was compensated has a booking that is over.
AttemptFollowsBooking(k) ==
  /\ booking[k] = "none" => terms[k] = NoTerms /\ attempt[k] = "none" /\ hold[k] = "none"
  /\ linked[k] # "none" => attempt[k] = "session_recorded"
  /\ attempt[k] = "created" /\ receipt[k].result = "none" => booking[k] = "pending_payment"
  /\ attempt[k] = "compensated" => booking[k] \in {"cancelled", "expired"}
  /\ IsQuote(k) /\ booking[k] \in Sellable => attempt[k] \in OpenAttempt

\* A booking the customer cancelled was either paid for, or its attempt was given
\* up with it.
CancelledForGood(k) ==
  cancellation[k] # None =>
    /\ booking[k] = "cancelled"
    /\ attempt[k] = "compensated" <=> payment[k] = "none" /\ receipt[k].result = "none"

RowsInv ==
  /\ PaymentInv
  /\ HoldInv
  /\ \A k \in Key : AttemptFollowsBooking(k) /\ CancelledForGood(k)

LEMMA RowsInit == Init => RowsInv
BY PaymentInit, HoldInit, CheckoutAssumption
DEF Init, RowsInv, AttemptFollowsBooking, CancelledForGood, Sellable, AwaitingPayment,
    SeatedStatus, OpenAttempt, IsQuote, NoTerms, NoReceipt

\* Whatever procedure runs keeps the rows of every checkout consistent.
LEMMA RowsStep == RowsInv /\ [Next]_vars => RowsInv'
<1> SUFFICES ASSUME RowsInv, [Next]_vars PROVE RowsInv'
  OBVIOUS
<1> DEFINE Rows(k) == AttemptFollowsBooking(k) /\ CancelledForGood(k)
<1> USE DEF AttemptFollowsBooking, CancelledForGood, Sellable, AwaitingPayment, SeatedStatus,
            OpenAttempt, IsQuote, IsDeparture
<1>0. PaymentInv' /\ HoldInv'
  BY PaymentStep, HoldStep DEF RowsInv
<1>a. TypeOK /\ TypeOK' /\ \A k \in Key : Rows(k)
  BY <1>0 DEF RowsInv, PaymentInv
<1>b. \A k \in Key : payment[k] \in {"none", "paid"}
  BY DEF RowsInv, PaymentInv, ReviewedPayment
<1> SUFFICES \A j \in Key : Rows(j)'
  BY <1>0 DEF RowsInv
<1>1. CASE Tick
  BY <1>a, <1>1 DEF Tick
<1>2. ASSUME NEW k \in Key, NEW d \in Departure, NEW n \in 1..MaxParty,
             StartDepartureCheckout(k, d, n)
      PROVE  \A j \in Key : Rows(j)'
  BY <1>a, <1>2, CheckoutAssumption DEF TypeOK, StartDepartureCheckout, InsertBooking
<1>3. ASSUME NEW k \in Key, NEW q \in Quote, StartQuoteCheckout(k, q)
      PROVE  \A j \in Key : Rows(j)'
  BY <1>a, <1>3 DEF TypeOK, StartQuoteCheckout, InsertBooking
<1>4. ASSUME NEW k \in Key, NEW life \in SessionLife, CreateSession(k, life)
      PROVE  \A j \in Key : Rows(j)'
  BY <1>a, <1>4 DEF CreateSession
<1>5. ASSUME NEW k \in Key, EndSession(k) PROVE \A j \in Key : Rows(j)'
  BY <1>a, <1>5 DEF EndSession
<1>6. ASSUME NEW k \in Key, RecordCheckoutSession(k) PROVE \A j \in Key : Rows(j)'
  BY <1>a, <1>6 DEF TypeOK, RecordCheckoutSession
<1>7. ASSUME NEW k \in Key, HydrateCheckoutSession(k) PROVE \A j \in Key : Rows(j)'
  BY <1>a, <1>7 DEF TypeOK, HydrateCheckoutSession
<1>8. ASSUME NEW k \in Key, FinalizeCompleted(k) PROVE \A j \in Key : Rows(j)'
  BY <1>a, <1>8 DEF TypeOK, FinalizeCompleted, AttachSession, PaymentInsertAllowed,
     BookingOncePaid, HoldOncePaid, HoldBacksPayment
<1>9. ASSUME NEW k \in Key, FinalizeExpired(k) PROVE \A j \in Key : Rows(j)'
  BY <1>a, <1>9 DEF TypeOK, FinalizeExpired, AttachSession, BookingOnceExpired, Freed
<1>10. ASSUME NEW k \in Key, NEW r \in RequestKey, CompleteSimulatedPayment(k, r)
       PROVE  \A j \in Key : Rows(j)'
  BY <1>a, <1>10, CheckoutAssumption DEF TypeOK, CompleteSimulatedPayment
<1>11. ASSUME NEW k \in Key, NEW r \in RequestKey, ExpireSimulatedPayment(k, r)
       PROVE  \A j \in Key : Rows(j)'
  BY <1>a, <1>11, CheckoutAssumption DEF TypeOK, ExpireSimulatedPayment
<1>12. ASSUME NEW k \in Key, CompensateCheckoutFailure(k) PROVE \A j \in Key : Rows(j)'
  BY <1>a, <1>12 DEF TypeOK, CompensateCheckoutFailure, Overdue, Freed
<1>13. ASSUME NEW k \in Key, NEW r \in RequestKey, CancelPending(k, r)
       PROVE  \A j \in Key : Rows(j)'
  BY <1>a, <1>b, <1>13 DEF TypeOK, CancelPending
<1>14. ASSUME NEW k \in Key, NEW r \in RequestKey, CancelConfirmed(k, r)
       PROVE  \A j \in Key : Rows(j)'
  BY <1>a, <1>14 DEF TypeOK, CancelConfirmed
<1>15. ASSUME NEW k \in Key, NEW resolution \in {"confirmed", "cancelled"},
              ReconcilePayment(k, resolution)
       PROVE  \A j \in Key : Rows(j)'
  BY <1>a, <1>b, <1>15 DEF TypeOK, ReconcilePayment
<1>16. CASE UNCHANGED vars
  BY <1>a, <1>16 DEF vars
<1> QED
  BY <1>1, <1>2, <1>3, <1>4, <1>5, <1>6, <1>7, <1>8, <1>9, <1>10, <1>11, <1>12, <1>13,
     <1>14, <1>15, <1>16
  DEF Next

\* A customer's cancellation is final, whether the booking was paid or not: no
\* webhook, click or reconciliation that comes later reopens or charges it.
THEOREM CancellationsAreFinal == Spec => []CancellationIsFinal
<1>1. RowsInv => CancellationIsFinal
  BY DEF RowsInv, CancellationIsFinal, CancelledForGood
<1> QED
  BY RowsInit, RowsStep, <1>1, PTL DEF Spec

-----------------------------------------------------------------------------
\* Quotes

OpenFor(k, q) == terms[k].source = q /\ attempt[k] \in OpenAttempt

\* A quote is taken out of sale exactly as long as one checkout, and no other, has
\* an open attempt for it; and it is accepted only once that attempt has a session,
\* so that no compensation gives an accepted quote back.
QuoteHeld(q) ==
  /\ \A j, k \in Key : OpenFor(j, q) /\ OpenFor(k, q) => j = k
  /\ quote[q] \in {"checkout_pending", "accepted"} <=> \E k \in Key : OpenFor(k, q)
  /\ quote[q] = "accepted" => \A k \in Key : terms[k].source = q => attempt[k] # "created"

QuoteInv == RowsInv /\ \A q \in Quote : QuoteHeld(q)

\* A quote, every checkout's source and whether its attempt is created, stored or
\* over are as before.
QuoteUntouched(q) ==
  /\ quote'[q] = quote[q]
  /\ \A j \in Key : terms'[j].source = q <=> terms[j].source = q
  /\ \A j \in Key : terms[j].source = q => attempt'[j] = attempt[j]

LEMMA QuoteStays ==
  ASSUME NEW q \in Quote, QuoteHeld(q), QuoteUntouched(q)
  PROVE  QuoteHeld(q)'
BY DEF QuoteHeld, QuoteUntouched, OpenFor

LEMMA QuoteInit == Init => QuoteInv
BY RowsInit, CheckoutAssumption DEF Init, QuoteInv, QuoteHeld, OpenFor, OpenAttempt, NoTerms

\* A session is stored with an attempt that was created.
LEMMA SessionAttaches ==
  ASSUME RowsInv, NEW k \in Key, AttachSession(k)
  PROVE  /\ attempt \in [Key -> AttemptStatus \cup {"none"}]
         /\ \A j \in Key : j # k => attempt'[j] = attempt[j]
         /\ attempt[k] \in OpenAttempt /\ attempt'[k] = "session_recorded"
<1>1. linked[k] # "none" => attempt[k] = "session_recorded"
  BY DEF RowsInv, AttemptFollowsBooking
<1>2. attempt \in [Key -> AttemptStatus \cup {"none"}]
  BY DEF RowsInv, HoldInv, TypeOK
<1> QED
  BY <1>1, <1>2 DEF AttachSession, OpenAttempt

\* Every procedure leaves each quote with the one checkout it is held for.
LEMMA QuoteStep == QuoteInv /\ [Next]_vars => QuoteInv'
<1> SUFFICES ASSUME QuoteInv, [Next]_vars, NEW q \in Quote PROVE QuoteHeld(q)'
  BY RowsStep DEF QuoteInv
<1>a. RowsInv /\ TypeOK /\ QuoteHeld(q)
  BY DEF QuoteInv, RowsInv, HoldInv
<1>b. /\ terms \in [Key -> Terms] /\ quote \in [Quote -> QuoteStatus]
      /\ attempt \in [Key -> AttemptStatus \cup {"none"}]
  BY <1>a DEF TypeOK
<1>c. \A k \in Key : AttemptFollowsBooking(k)
  BY <1>a DEF RowsInv
<1>1. ASSUME Tick PROVE QuoteHeld(q)'
  BY <1>a, <1>1, QuoteStays DEF Tick, QuoteUntouched
<1>2. ASSUME NEW k \in Key, NEW d \in Departure, NEW n \in 1..MaxParty,
             StartDepartureCheckout(k, d, n)
      PROVE  QuoteHeld(q)'
  <2>1. terms[k] = NoTerms /\ q # d /\ q # None
    BY <1>2, <1>c, CheckoutAssumption
    DEF StartDepartureCheckout, InsertBooking, AttemptFollowsBooking
  <2>2. QuoteUntouched(q)
    BY <1>2, <1>b, <2>1 DEF StartDepartureCheckout, InsertBooking, QuoteUntouched, NoTerms
  <2> QED
    BY <1>a, <2>2, QuoteStays
<1>3. ASSUME NEW k \in Key, NEW p \in Quote, StartQuoteCheckout(k, p)
      PROVE  QuoteHeld(q)'
  <2>1. terms[k] = NoTerms /\ attempt[k] = "none" /\ q # None
    BY <1>3, <1>c, CheckoutAssumption
    DEF StartQuoteCheckout, InsertBooking, AttemptFollowsBooking
  <2>2. CASE p # q
    <3>1. QuoteUntouched(q)
      BY <1>3, <1>b, <2>1, <2>2 DEF StartQuoteCheckout, InsertBooking, QuoteUntouched, NoTerms
    <3> QED
      BY <1>a, <3>1, QuoteStays
  <2>3. CASE p = q
    <3>1. /\ terms'[k].source = q /\ attempt'[k] = "created"
          /\ \A j \in Key \ {k} : terms'[j] = terms[j] /\ attempt'[j] = attempt[j]
          /\ \A j \in Key : ~OpenFor(j, q)
          /\ quote'[q] = "checkout_pending"
      BY <1>3, <1>b, <2>3 DEF StartQuoteCheckout, InsertBooking, QuoteForSale, OpenFor
    <3> QED
      BY <3>1 DEF QuoteHeld, OpenFor, OpenAttempt
  <2> QED
    BY <2>2, <2>3
<1>4. ASSUME NEW k \in Key, NEW life \in SessionLife, CreateSession(k, life)
      PROVE  QuoteHeld(q)'
  BY <1>a, <1>4, QuoteStays DEF CreateSession, QuoteUntouched
<1>5. ASSUME NEW k \in Key, EndSession(k) PROVE QuoteHeld(q)'
  BY <1>a, <1>5, QuoteStays DEF EndSession, QuoteUntouched
<1>6. ASSUME NEW k \in Key, RecordCheckoutSession(k) PROVE QuoteHeld(q)'
  <2>1. /\ attempt[k] = "created" /\ attempt'[k] = "session_recorded"
        /\ \A j \in Key \ {k} : attempt'[j] = attempt[j]
        /\ quote'[q] = (IF q = terms[k].source THEN "accepted" ELSE quote[q])
        /\ UNCHANGED terms
    BY <1>6, <1>b DEF RecordCheckoutSession
  <2>2. q = terms[k].source => \A j \in Key \ {k} : ~OpenFor(j, q)
    BY <1>a, <2>1 DEF QuoteHeld, OpenFor, OpenAttempt
  <2> QED
    BY <1>a, <2>1, <2>2 DEF QuoteHeld, OpenFor, OpenAttempt
<1>7. ASSUME NEW k \in Key, HydrateCheckoutSession(k) PROVE QuoteHeld(q)'
  BY <1>a, <1>7, QuoteStays DEF HydrateCheckoutSession, QuoteUntouched
<1>8. ASSUME NEW k \in Key, FinalizeCompleted(k) PROVE QuoteHeld(q)'
  <2>1. /\ attempt[k] \in OpenAttempt /\ attempt'[k] = "session_recorded"
        /\ \A j \in Key : j # k => attempt'[j] = attempt[j]
    BY <1>8, <1>a, SessionAttaches DEF FinalizeCompleted
  <2>2. /\ quote'[q] = (IF q = terms[k].source /\ quote[q] = "checkout_pending"
                        THEN "accepted" ELSE quote[q])
        /\ UNCHANGED terms
    BY <1>8 DEF FinalizeCompleted
  <2> QED
    BY <1>a, <2>1, <2>2 DEF QuoteHeld, OpenFor, OpenAttempt
<1>9. ASSUME NEW k \in Key, FinalizeExpired(k) PROVE QuoteHeld(q)'
  <2>1. /\ attempt[k] \in OpenAttempt /\ attempt'[k] = "session_recorded"
        /\ \A j \in Key : j # k => attempt'[j] = attempt[j]
    BY <1>9, <1>a, SessionAttaches DEF FinalizeExpired
  <2>2. UNCHANGED <<quote, terms>>
    BY <1>9 DEF FinalizeExpired
  <2> QED
    BY <1>a, <2>1, <2>2 DEF QuoteHeld, OpenFor, OpenAttempt
<1>10. ASSUME NEW k \in Key, NEW r \in RequestKey, CompleteSimulatedPayment(k, r)
       PROVE  QuoteHeld(q)'
  BY <1>a, <1>10, QuoteStays DEF CompleteSimulatedPayment, QuoteUntouched
<1>11. ASSUME NEW k \in Key, NEW r \in RequestKey, ExpireSimulatedPayment(k, r)
       PROVE  QuoteHeld(q)'
  BY <1>a, <1>11, QuoteStays DEF ExpireSimulatedPayment, QuoteUntouched
<1>12. ASSUME NEW k \in Key, CompensateCheckoutFailure(k) PROVE QuoteHeld(q)'
  <2>1. /\ attempt[k] = "created" /\ attempt'[k] = "compensated"
        /\ \A j \in Key \ {k} : attempt'[j] = attempt[j]
        /\ quote'[q] = (IF q # terms[k].source \/ quote[q] # "checkout_pending" THEN quote[q]
                        ELSE IF ValidUntil[q] > now THEN "active" ELSE "expired")
        /\ UNCHANGED terms
    BY <1>12, <1>b DEF CompensateCheckoutFailure
  <2>2. q = terms[k].source =>
          quote[q] = "checkout_pending" /\ \A j \in Key \ {k} : ~OpenFor(j, q)
    BY <1>a, <2>1 DEF QuoteHeld, OpenFor, OpenAttempt
  <2> QED
    BY <1>a, <2>1, <2>2 DEF QuoteHeld, OpenFor, OpenAttempt
<1>13. ASSUME NEW k \in Key, NEW r \in RequestKey, CancelPending(k, r)
       PROVE  QuoteHeld(q)'
  <2>1. /\ attempt[k] = "created" /\ attempt'[k] = "compensated"
        /\ \A j \in Key \ {k} : attempt'[j] = attempt[j]
        /\ quote'[q] = (IF q = terms[k].source THEN "revoked" ELSE quote[q])
        /\ UNCHANGED terms
    BY <1>13, <1>b DEF CancelPending
  <2>2. q = terms[k].source => \A j \in Key \ {k} : ~OpenFor(j, q)
    BY <1>a, <2>1 DEF QuoteHeld, OpenFor, OpenAttempt
  <2> QED
    BY <1>a, <2>1, <2>2 DEF QuoteHeld, OpenFor, OpenAttempt
<1>14. ASSUME NEW k \in Key, NEW r \in RequestKey, CancelConfirmed(k, r)
       PROVE  QuoteHeld(q)'
  BY <1>a, <1>14, QuoteStays DEF CancelConfirmed, QuoteUntouched
<1>15. ASSUME NEW k \in Key, NEW resolution \in {"confirmed", "cancelled"},
              ReconcilePayment(k, resolution)
       PROVE  QuoteHeld(q)'
  BY <1>a, <1>15, QuoteStays DEF ReconcilePayment, QuoteUntouched
<1>16. CASE UNCHANGED vars
  BY <1>a, <1>16, QuoteStays DEF vars, QuoteUntouched
<1> QED
  BY <1>1, <1>2, <1>3, <1>4, <1>5, <1>6, <1>7, <1>8, <1>9, <1>10, <1>11, <1>12, <1>13,
     <1>14, <1>15, <1>16
  DEF Next

\* A quote is sold at most once, however many checkouts are started from it and
\* compensated or cancelled.
THEOREM QuotesSoldOnce == Spec => []QuoteSoldOnce
<1>1. QuoteInv => QuoteSoldOnce
  <2> SUFFICES ASSUME QuoteInv, NEW j \in Key, NEW k \in Key,
                      IsQuote(j), terms[j].source = terms[k].source,
                      booking[j] \in Sellable, booking[k] \in Sellable
               PROVE  j = k
    BY DEF QuoteSoldOnce, Sellable
  <2>1. IsQuote(k) /\ attempt[j] \in OpenAttempt /\ attempt[k] \in OpenAttempt
    BY DEF QuoteInv, RowsInv, AttemptFollowsBooking, IsQuote
  <2> QED
    BY <2>1 DEF QuoteInv, QuoteHeld, OpenFor, IsQuote
<1> QED
  BY QuoteInit, QuoteStep, <1>1, PTL DEF Spec

\* A quote that can be bought has no checkout holding it, and one taken out of sale
\* still has the attempt that took it, and that one only.
THEOREM QuotesFollowAttempts == Spec => []QuoteFollowsAttempt
<1>1. QuoteInv => QuoteFollowsAttempt
  <2> SUFFICES ASSUME QuoteInv, NEW q \in Quote
               PROVE  LET open == {k \in Key : terms[k].source = q /\ attempt[k] \in OpenAttempt}
                      IN  /\ quote[q] = "active" => open = {}
                          /\ quote[q] \in {"checkout_pending", "accepted"} =>
                               \E k \in open : open = {k}
    BY DEF QuoteFollowsAttempt
  <2>1. QuoteHeld(q)
    BY DEF QuoteInv
  <2> QED
    BY <2>1 DEF QuoteHeld, OpenFor
<1> QED
  BY QuoteInit, QuoteStep, <1>1, PTL DEF Spec

-----------------------------------------------------------------------------
\* The transition triggers

\* What the triggers' tables allow one checkout and one quote in a step.
BookingAllowed(k) ==
  \/ booking'[k] = booking[k]
  \/ booking[k] = "none" /\ booking'[k] = "pending_payment"
  \/ <<booking[k], booking'[k]>> \in BookingTransition
  \/ /\ <<booking[k], "payment_processing">> \in BookingTransition
     /\ <<"payment_processing", booking'[k]>> \in BookingTransition

HoldAllowed(k) ==
  \/ hold'[k] = hold[k]
  \/ hold[k] = "none" /\ hold'[k] = "active"
  \/ <<hold[k], hold'[k]>> \in HoldTransition

QuoteAllowed(q) == quote'[q] = quote[q] \/ <<quote[q], quote'[q]>> \in QuoteTransition

TablesAllow ==
  /\ \A k \in Key : BookingAllowed(k)
  /\ \A k \in Key : HoldAllowed(k)
  /\ \A q \in Quote : QuoteAllowed(q)

\* The guards of the procedures are at least as strict as the triggers.
LEMMA GuardsImplyTables == QuoteInv /\ [Next]_vars => TablesAllow
<1> SUFFICES ASSUME QuoteInv, [Next]_vars PROVE TablesAllow
  OBVIOUS
<1> USE DEF TablesAllow, BookingAllowed, HoldAllowed, QuoteAllowed, BookingTransition,
            HoldTransition, QuoteTransition, AwaitingPayment
<1>a. /\ booking \in [Key -> BookingStatus \cup {"none"}]
      /\ hold \in [Key -> HoldStatus \cup {"none"}]
      /\ quote \in [Quote -> QuoteStatus]
      /\ receipt \in [Key -> Receipt]
  BY DEF QuoteInv, RowsInv, HoldInv, TypeOK
<1>b. \A k \in Key : AttemptFollowsBooking(k)
  BY DEF QuoteInv, RowsInv
<1>c. HoldFollowsBooking /\ HoldOnDeparture
  BY DEF QuoteInv, RowsInv, HoldInv
<1>1. ASSUME Tick PROVE TablesAllow
  BY <1>1 DEF Tick
<1>2. ASSUME NEW k \in Key, NEW d \in Departure, NEW n \in 1..MaxParty,
             StartDepartureCheckout(k, d, n)
      PROVE  TablesAllow
  BY <1>a, <1>b, <1>2 DEF StartDepartureCheckout, InsertBooking, AttemptFollowsBooking
<1>3. ASSUME NEW k \in Key, NEW q \in Quote, StartQuoteCheckout(k, q)
      PROVE  TablesAllow
  BY <1>a, <1>3 DEF StartQuoteCheckout, InsertBooking, QuoteForSale
<1>4. ASSUME NEW k \in Key, NEW life \in SessionLife, CreateSession(k, life)
      PROVE  TablesAllow
  BY <1>4 DEF CreateSession
<1>5. ASSUME NEW k \in Key, EndSession(k) PROVE TablesAllow
  BY <1>5 DEF EndSession
<1>6. ASSUME NEW k \in Key, RecordCheckoutSession(k) PROVE TablesAllow
  BY <1>a, <1>6, CheckoutAssumption
  DEF RecordCheckoutSession, SourceStillSellable, IsDeparture
<1>7. ASSUME NEW k \in Key, HydrateCheckoutSession(k) PROVE TablesAllow
  BY <1>7 DEF HydrateCheckoutSession
<1>8. ASSUME NEW k \in Key, FinalizeCompleted(k) PROVE TablesAllow
  BY <1>a, <1>8
  DEF FinalizeCompleted, BookingOncePaid, HoldOncePaid, HoldBacksPayment, Live, Overdue
<1>9. ASSUME NEW k \in Key, FinalizeExpired(k) PROVE TablesAllow
  BY <1>a, <1>9 DEF FinalizeExpired, BookingOnceExpired, Freed
<1>10. ASSUME NEW k \in Key, NEW r \in RequestKey, CompleteSimulatedPayment(k, r)
       PROVE  TablesAllow
  BY <1>a, <1>10 DEF CompleteSimulatedPayment
<1>11. ASSUME NEW k \in Key, NEW r \in RequestKey, ExpireSimulatedPayment(k, r)
       PROVE  TablesAllow
  BY <1>a, <1>11 DEF ExpireSimulatedPayment
<1>12. ASSUME NEW k \in Key, CompensateCheckoutFailure(k) PROVE TablesAllow
  BY <1>a, <1>b, <1>12 DEF CompensateCheckoutFailure, Freed, Overdue, AttemptFollowsBooking
<1>13. ASSUME NEW k \in Key, NEW r \in RequestKey, CancelPending(k, r)
       PROVE  TablesAllow
  BY <1>a, <1>13, CheckoutAssumption
  DEF CancelPending, SourceStillSellable, IsDeparture, IsQuote, Live
<1>14. ASSUME NEW k \in Key, NEW r \in RequestKey, CancelConfirmed(k, r)
       PROVE  TablesAllow
  BY <1>a, <1>14 DEF CancelConfirmed
<1>15. ASSUME NEW k \in Key, NEW resolution \in {"confirmed", "cancelled"},
              ReconcilePayment(k, resolution)
       PROVE  TablesAllow
  BY <1>a, <1>15 DEF ReconcilePayment
<1>16. CASE UNCHANGED vars
  BY <1>16 DEF vars
<1> QED
  BY <1>1, <1>2, <1>3, <1>4, <1>5, <1>6, <1>7, <1>8, <1>9, <1>10, <1>11, <1>12, <1>13,
     <1>14, <1>15, <1>16
  DEF Next

\* Whichever procedures interleave, bookings, holds and quotes move only along the
\* triggers' tables: the second line of defence is never what refuses a call.
THEOREM TriggersAreRedundant == Spec => TriggersNeverRefuse
<1>1. QuoteInv /\ [Next]_vars => [TablesAllow]_vars
  BY GuardsImplyTables
<1>2. Spec => [][TablesAllow]_vars
  BY QuoteInit, QuoteStep, <1>1, PTL DEF Spec
<1> QED
  BY <1>2 DEF TriggersNeverRefuse, TablesAllow, BookingAllowed, HoldAllowed, QuoteAllowed

-----------------------------------------------------------------------------
\* Refinement of the seat ledger

\* Whether a checkout's party is held, or seated, on the departure it is for.
Holding(k) == Live(k) /\ booking[k] \notin SeatedStatus
Sitting(k) == hold[k] = "consumed" /\ booking[k] \in SeatedStatus

\* What a step of the authority does to the seats once a checkout has started.
Lapses ==
  /\ UNCHANGED terms
  /\ \A j \in Key : (Holding(j)' => Holding(j)) /\ (Sitting(j)' <=> Sitting(j))

Takes(k) ==
  /\ UNCHANGED terms
  /\ IsDeparture(k) /\ Holding(k) /\ ~Holding(k)' /\ Sitting(k)'
  /\ \A j \in Key : j # k => (Holding(j)' <=> Holding(j)) /\ (Sitting(j)' <=> Sitting(j))

GivesBack ==
  /\ UNCHANGED terms
  /\ \A j \in Key : (Holding(j)' <=> Holding(j)) /\ (Sitting(j)' => Sitting(j))

\* A party is seated out of its live hold only, one checkout at a time; every other
\* step lets holds go or gives seats back.
LEMMA SeatSteps ==
  ASSUME RowsInv, [Next]_vars, ~Starting
  PROVE  Lapses \/ GivesBack \/ \E k \in Key : Takes(k)
<1> DEFINE Goal == Lapses \/ GivesBack \/ \E k \in Key : Takes(k)
<1> USE DEF Lapses, Holding, Sitting, Live, SeatedStatus
<1>a. /\ booking \in [Key -> BookingStatus \cup {"none"}]
      /\ hold \in [Key -> HoldStatus \cup {"none"}]
      /\ terms \in [Key -> Terms] /\ now \in Nat
  BY DEF RowsInv, HoldInv, TypeOK
<1>b. \A k \in Key : /\ hold[k] = "active" => booking[k] \in AwaitingPayment /\ IsDeparture(k)
                     /\ hold[k] = "consumed" => booking[k] \in SeatedStatus \cup {"cancelled"}
  BY DEF RowsInv, HoldInv, HoldFollowsBooking, HoldOnDeparture
<1>c. \A k \in Key : terms[k].deadline \in Nat
  BY <1>a DEF Terms
<1>1. ASSUME Tick PROVE Goal
  BY <1>1, <1>a, <1>c DEF Tick
<1>2. ASSUME NEW k \in Key, NEW life \in SessionLife, CreateSession(k, life)
      PROVE  Goal
  BY <1>2 DEF CreateSession
<1>3. ASSUME NEW k \in Key, EndSession(k) PROVE Goal
  BY <1>3 DEF EndSession
<1>4. ASSUME NEW k \in Key, RecordCheckoutSession(k) PROVE Goal
  BY <1>4, <1>a DEF RecordCheckoutSession
<1>5. ASSUME NEW k \in Key, HydrateCheckoutSession(k) PROVE Goal
  BY <1>5 DEF HydrateCheckoutSession
<1>6. ASSUME NEW k \in Key, FinalizeCompleted(k) PROVE Goal
  <2>1. /\ hold' = [hold EXCEPT ![k] = HoldOncePaid(k)]
        /\ booking' = [booking EXCEPT ![k] = BookingOncePaid(k)]
        /\ UNCHANGED <<now, terms>>
    BY <1>6 DEF FinalizeCompleted
  <2>2. CASE HoldBacksPayment(k)
    <3>1. HoldOncePaid(k) = "consumed" /\ BookingOncePaid(k) = "confirmed"
      BY <1>a, <1>c, <2>2 DEF HoldOncePaid, BookingOncePaid, HoldBacksPayment, Overdue
    <3>2. Takes(k)
      BY <1>a, <1>b, <2>1, <2>2, <3>1 DEF Takes, HoldBacksPayment, AwaitingPayment
    <3> QED
      BY <3>2
  <2>3. CASE ~HoldBacksPayment(k)
    <3>1. ~Live(k)
      BY <1>b, <2>3 DEF HoldBacksPayment
    <3>2. HoldOncePaid(k) = IF hold[k] = "active" THEN "expired" ELSE hold[k]
      BY <1>a, <1>c, <2>3, <3>1 DEF HoldOncePaid, Overdue
    <3>3. hold[k] = "consumed" => BookingOncePaid(k) = booking[k]
      BY <1>b DEF BookingOncePaid, AwaitingPayment
    <3>4. Lapses
      BY <1>a, <2>1, <3>1, <3>2, <3>3
    <3> QED
      BY <3>4
  <2> QED
    BY <2>2, <2>3
<1>7. ASSUME NEW k \in Key, FinalizeExpired(k) PROVE Goal
  BY <1>7, <1>a, <1>b DEF FinalizeExpired, Freed, BookingOnceExpired, AwaitingPayment
<1>8. ASSUME NEW k \in Key, NEW r \in RequestKey, CompleteSimulatedPayment(k, r)
      PROVE  Goal
  <2>1. Holding(k)
    BY <1>8, <1>a, <1>c DEF CompleteSimulatedPayment, SimulationOver
  <2>2. Takes(k)
    BY <1>8, <1>a, <2>1 DEF Takes, CompleteSimulatedPayment
  <2> QED
    BY <2>2
<1>9. ASSUME NEW k \in Key, NEW r \in RequestKey, ExpireSimulatedPayment(k, r)
      PROVE  Goal
  BY <1>9, <1>a DEF ExpireSimulatedPayment
<1>10. ASSUME NEW k \in Key, CompensateCheckoutFailure(k) PROVE Goal
  <2>1. booking[k] = "pending_payment"
    BY <1>10 DEF CompensateCheckoutFailure, RowsInv, AttemptFollowsBooking
  <2> QED
    BY <1>10, <1>a, <1>b, <2>1 DEF CompensateCheckoutFailure, Freed
<1>11. ASSUME NEW k \in Key, NEW r \in RequestKey, CancelPending(k, r) PROVE Goal
  BY <1>11, <1>a, <1>b DEF CancelPending
<1>12. ASSUME NEW k \in Key, NEW r \in RequestKey, CancelConfirmed(k, r) PROVE Goal
  <2>1. hold[k] # "active"
    BY <1>12, <1>b DEF CancelConfirmed, AwaitingPayment
  <2>2. GivesBack
    BY <1>12, <1>a, <2>1 DEF CancelConfirmed, GivesBack
  <2> QED
    BY <2>2
<1>13. ASSUME NEW k \in Key, NEW resolution \in {"confirmed", "cancelled"},
              ReconcilePayment(k, resolution)
       PROVE  Goal
  <2>1. hold[k] # "active" /\ hold[k] # "consumed"
    BY <1>13, <1>b DEF ReconcilePayment, AwaitingPayment
  <2> QED
    BY <1>13, <1>a, <2>1 DEF ReconcilePayment
<1>14. CASE UNCHANGED vars
  BY <1>14 DEF vars
<1> QED
  BY <1>1, <1>2, <1>3, <1>4, <1>5, <1>6, <1>7, <1>8, <1>9, <1>10, <1>11, <1>12, <1>13,
     <1>14
  DEF Next, Starting

\* The travellers of the checkouts of one departure, and what makes them so.
HeldOn(d)  == Travellers(Held(d))
TakenOn(d) == Travellers(Seated(d))

PartyOf(t, d) ==
  t \in Key \X (1..MaxParty) /\ t[2] <= terms[t[1]].size /\ terms[t[1]].source = d

TravellersAre ==
  \A d \in Departure, t \in Key \X (1..MaxParty) :
    /\ t \in HeldOn(d) <=> PartyOf(t, d) /\ Holding(t[1])
    /\ t \in TakenOn(d) <=> PartyOf(t, d) /\ Sitting(t[1])

LEMMA TravellersNow == TravellersAre
BY DEF TravellersAre, HeldOn, TakenOn, PartyOf, Travellers, Held, Seated, Holding, Sitting

LEMMA TravellersThen == TravellersAre'
BY TravellersNow, PTL

LEMMA LedgerTypes ==
  ASSUME NEW d \in Departure
  PROVE  /\ HeldOn(d) \subseteq Key \X (1..MaxParty)
         /\ HeldOn(d)' \subseteq Key \X (1..MaxParty)
         /\ TakenOn(d) \subseteq Key \X (1..MaxParty)
         /\ TakenOn(d)' \subseteq Key \X (1..MaxParty)
BY DEF HeldOn, TakenOn, Travellers, Held, Seated

LEMMA LapsesLapse == Lapses => Ledger!Lapse
<1> SUFFICES ASSUME Lapses PROVE Ledger!Lapse
  OBVIOUS
<1>1. ASSUME NEW d \in Departure
      PROVE  HeldOn(d)' \subseteq HeldOn(d) /\ TakenOn(d)' = TakenOn(d)
  BY TravellersNow, TravellersThen, LedgerTypes DEF TravellersAre, PartyOf, Lapses
<1> QED
  BY <1>1, LedgerTypes DEF Ledger!Lapse, Ledger!Ledgers, HeldOn, TakenOn

LEMMA GivesBackGivesBack == GivesBack => Ledger!GiveBack
<1> SUFFICES ASSUME GivesBack PROVE Ledger!GiveBack
  OBVIOUS
<1>1. ASSUME NEW d \in Departure
      PROVE  HeldOn(d)' = HeldOn(d) /\ TakenOn(d)' \subseteq TakenOn(d)
  BY TravellersNow, TravellersThen, LedgerTypes DEF TravellersAre, PartyOf, GivesBack
<1> QED
  BY <1>1, LedgerTypes DEF Ledger!GiveBack, Ledger!Ledgers, HeldOn, TakenOn

\* The travellers of a departure are as before if its checkouts are.
LEMMA SameHeld ==
  ASSUME NEW d \in Departure,
         \A j \in Key : (terms[j].source = d /\ Holding(j)) \/ (terms'[j].source = d /\ Holding(j)')
                          => terms'[j] = terms[j] /\ Holding(j) /\ Holding(j)'
  PROVE  HeldOn(d)' = HeldOn(d)
<1>1. ASSUME NEW t \in Key \X (1..MaxParty) PROVE t \in HeldOn(d)' <=> t \in HeldOn(d)
  <2>1. t[1] \in Key
    OBVIOUS
  <2> QED
    BY <2>1, TravellersNow, TravellersThen DEF TravellersAre, PartyOf
<1> QED
  BY <1>1, LedgerTypes

LEMMA SameTaken ==
  ASSUME NEW d \in Departure,
         \A j \in Key : (terms[j].source = d /\ Sitting(j)) \/ (terms'[j].source = d /\ Sitting(j)')
                          => terms'[j] = terms[j] /\ Sitting(j) /\ Sitting(j)'
  PROVE  TakenOn(d)' = TakenOn(d)
<1>1. ASSUME NEW t \in Key \X (1..MaxParty) PROVE t \in TakenOn(d)' <=> t \in TakenOn(d)
  <2>1. t[1] \in Key
    OBVIOUS
  <2> QED
    BY <2>1, TravellersNow, TravellersThen DEF TravellersAre, PartyOf
<1> QED
  BY <1>1, LedgerTypes

\* A payment seats the party that its live hold held, and only that one.
LEMMA TakesTake ==
  ASSUME NEW k \in Key, Takes(k)
  PROVE  \E d \in Departure : Ledger!Take(d)
<1>1. PICK c \in Departure : terms[k].source = c
  BY DEF Takes, IsDeparture
<1> DEFINE heldThere == [d \in Departure |-> HeldOn(d)]
           takenThere == [d \in Departure |-> TakenOn(d)]
<1>2. ASSUME NEW d \in Departure, d # c
      PROVE  HeldOn(d)' = HeldOn(d) /\ TakenOn(d)' = TakenOn(d)
  BY <1>1, <1>2, SameHeld, SameTaken DEF Takes
<1>3. /\ TakenOn(c) \subseteq TakenOn(c)'
      /\ TakenOn(c)' \subseteq TakenOn(c) \cup HeldOn(c)
  BY <1>1, TravellersNow, TravellersThen, LedgerTypes
  DEF TravellersAre, PartyOf, Takes, Holding, Sitting
<1>4. HeldOn(c)' = HeldOn(c) \ TakenOn(c)'
  <2>1. ASSUME NEW t \in Key \X (1..MaxParty)
        PROVE  t \in HeldOn(c)' <=> t \in HeldOn(c) /\ t \notin TakenOn(c)'
    <3>1. t[1] # k /\ Holding(t[1]) => ~Sitting(t[1])'
      BY DEF Takes, Holding, Sitting
    <3> QED
      BY <1>1, <3>1, TravellersNow, TravellersThen DEF TravellersAre, PartyOf, Takes
  <2> QED
    BY <2>1, LedgerTypes
<1>5. takenThere' \in Ledger!Ledgers
  BY LedgerTypes DEF Ledger!Ledgers
<1>6. /\ takenThere[c] \subseteq takenThere'[c]
      /\ takenThere'[c] \subseteq takenThere[c] \cup heldThere[c]
  BY <1>1, <1>3
<1>7. heldThere' = [heldThere EXCEPT ![c] = @ \ takenThere'[c]]
  BY <1>1, <1>2, <1>4
<1>8. \A e \in Departure \ {c} : takenThere'[e] = takenThere[e]
  BY <1>2
<1>9. Ledger!Take(c)
  BY <1>5, <1>6, <1>7, <1>8 DEF Ledger!Take, HeldOn, TakenOn
<1> QED
  BY <1>1, <1>9

\* The start of a departure checkout holds its party within the capacity.
LEMMA StartHolds ==
  ASSUME RowsInv, CapacityNeverExceeded', NEW k \in Key, NEW c \in Departure,
         NEW n \in 1..MaxParty, StartDepartureCheckout(k, c, n)
  PROVE  Ledger!Hold(c)
<1> DEFINE heldThere == [d \in Departure |-> HeldOn(d)]
           takenThere == [d \in Departure |-> TakenOn(d)]
<1>a. /\ booking \in [Key -> BookingStatus \cup {"none"}]
      /\ hold \in [Key -> HoldStatus \cup {"none"}] /\ terms \in [Key -> Terms]
  BY DEF RowsInv, HoldInv, TypeOK
<1>1. terms[k].source = None /\ terms'[k].source = c /\ hold'[k] = "active"
  BY <1>a
  DEF StartDepartureCheckout, InsertBooking, RowsInv, AttemptFollowsBooking, NoTerms
<1>2. \A j \in Key : j # k =>
        terms'[j] = terms[j] /\ (Holding(j)' <=> Holding(j)) /\ (Sitting(j)' <=> Sitting(j))
  BY <1>a DEF StartDepartureCheckout, InsertBooking, Holding, Sitting, Live
<1>3. None \notin Departure
  BY CheckoutAssumption
<1>4. ASSUME NEW d \in Departure PROVE TakenOn(d)' = TakenOn(d)
  <2>1. ~Sitting(k)'
    BY <1>1 DEF Sitting
  <2> QED
    BY <1>1, <1>2, <1>3, <2>1, SameTaken
<1>5. HeldOn(c) \subseteq HeldOn(c)'
  BY <1>1, <1>2, <1>3, TravellersNow, TravellersThen, LedgerTypes DEF TravellersAre, PartyOf
<1>6. ASSUME NEW d \in Departure, d # c PROVE HeldOn(d)' = HeldOn(d)
  BY <1>1, <1>2, <1>3, <1>6, SameHeld
<1>7. Cardinality(HeldOn(c)' \cup TakenOn(c)) <= Capacity[c]
  <2>1. Travellers(Seated(c) \cup Held(c))' = HeldOn(c)' \cup TakenOn(c)'
    BY DEF Travellers, HeldOn, TakenOn
  <2> QED
    BY <1>4, <2>1 DEF CapacityNeverExceeded, PartySum
<1>8. heldThere' \in Ledger!Ledgers
  BY LedgerTypes DEF Ledger!Ledgers
<1>9. /\ heldThere[c] \subseteq heldThere'[c]
      /\ \A e \in Departure \ {c} : heldThere'[e] = heldThere[e]
      /\ Cardinality(heldThere'[c] \cup takenThere[c]) <= Capacity[c]
      /\ takenThere' = takenThere
  BY <1>4, <1>5, <1>6, <1>7
<1>10. Ledger!Cardinality(heldThere'[c] \cup takenThere[c]) <= Capacity[c]
  BY <1>9 DEF Cardinality, Ledger!Cardinality
<1> QED
  BY <1>8, <1>9, <1>10 DEF Ledger!Hold, HeldOn, TakenOn

\* A quote checkout is no step of the ledger.
LEMMA QuoteStartStutters ==
  ASSUME RowsInv, NEW k \in Key, NEW q \in Quote, StartQuoteCheckout(k, q)
  PROVE  UNCHANGED Ledger!ledgerVars
<1>a. /\ booking \in [Key -> BookingStatus \cup {"none"}] /\ terms \in [Key -> Terms]
  BY DEF RowsInv, HoldInv, TypeOK
<1>1. terms[k].source = None /\ terms'[k].source = q
  BY <1>a DEF StartQuoteCheckout, InsertBooking, RowsInv, AttemptFollowsBooking, NoTerms
<1>2. \A j \in Key : j # k =>
        terms'[j] = terms[j] /\ (Holding(j)' <=> Holding(j)) /\ (Sitting(j)' <=> Sitting(j))
  BY <1>a DEF StartQuoteCheckout, InsertBooking, Holding, Sitting, Live
<1>3. None \notin Departure /\ q \notin Departure
  BY CheckoutAssumption
<1>4. ASSUME NEW d \in Departure PROVE HeldOn(d)' = HeldOn(d) /\ TakenOn(d)' = TakenOn(d)
  BY <1>1, <1>2, <1>3, SameHeld, SameTaken
<1> QED
  BY <1>4 DEF Ledger!ledgerVars, HeldOn, TakenOn

LEMMA LedgerInit == Init => Ledger!Init
BY DEF Init, Ledger!Init, Travellers, Held, Seated, Live

LEMMA LedgerStep ==
  ASSUME RowsInv, CapacityInv, CapacityInv', [Next]_vars
  PROVE  [Ledger!Next]_(Ledger!ledgerVars)
<1>1. CASE ~Starting
  BY <1>1, SeatSteps, LapsesLapse, GivesBackGivesBack, TakesTake DEF Ledger!Next
<1>2. ASSUME NEW k \in Key, NEW d \in Departure, NEW n \in 1..MaxParty,
             StartDepartureCheckout(k, d, n)
      PROVE  Ledger!Next
  BY <1>2, StartHolds DEF Ledger!Next, CapacityInv
<1>3. ASSUME NEW k \in Key, NEW q \in Quote, StartQuoteCheckout(k, q)
      PROVE  UNCHANGED Ledger!ledgerVars
  BY <1>3, QuoteStartStutters
<1> QED
  BY <1>1, <1>2, <1>3 DEF Starting

\* The checkout authority, with its sessions, webhooks, late clicks, compensations
\* and reconciliations, implements the seat ledger.
THEOREM ImplementsSeatLedger == Spec => RefinesSeatLedger
<1>1. RowsInv /\ CapacityInv /\ CapacityInv' /\ [Next]_vars => [Ledger!Next]_(Ledger!ledgerVars)
  BY LedgerStep
<1> QED
  BY RowsInit, RowsStep, CapacityInit, CapacityStep, LedgerInit, <1>1, PTL
  DEF Spec, RefinesSeatLedger, Ledger!Spec
=============================================================================
