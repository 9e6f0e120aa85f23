------------------------------ MODULE DemoPortal ------------------------------
(***************************************************************************)
(* The demonstration portal: one envelope of users, requests, bookings,    *)
(* cancellations, reviews and guide assignments kept as one value of a     *)
(* browser tab's session storage.  Every operation reads the envelope,     *)
(* refuses it unless all its cross references hold, checks the role of the *)
(* selected identity, changes the envelope and writes it back.  Some       *)
(* operations validate what they are about to write and some do not: what  *)
(* an unchecked one writes is first looked at by the next read.            *)
(*                                                                         *)
(* Titles, prices, profiles and planner drafts are left out; a request     *)
(* keeps the payable total its draft fixes, and of the time of its latest  *)
(* decision whether it is set.  Operations have the repository's names.    *)
(***************************************************************************)
EXTENDS DemoHandoff, Naturals, FiniteSets

CONSTANTS
  Identity,        \* the fixture's users that somebody signs in as
  RoleTarget,      \* the users whose role an administrator edits
  Booker,          \* the users whose local booking is handed over
  NewRequest,      \* ids of the requests submitted after the fixture's own
  Total,           \* what a confirmed draft may leave to be paid
  CancelKey,       \* idempotency keys of cancellations
  QuoteValidity,   \* how long a quote may be accepted
  MaxRecords,      \* the longest list the envelope's reader accepts
  MaxTime          \* bound on the clock

VARIABLES
  store,           \* the envelope, or None before the first visit
  clock            \* the browser's clock

portalVars == <<store, clock>>

User == {"customer", "customer2", "guide", "guide2", "admin"}
Role == {"customer", "guide", "admin"}
Request == {"seeded"} \cup NewRequest

-----------------------------------------------------------------------------
\* Identifiers and records

Seeded(name) == <<"seeded", name>>
FixedId(u)   == <<"fixed", u>>
QuoteId(r)   == <<"quote", r>>
Booking == {Seeded(n) : n \in {"completed", "cancellation", "secondary", "personalized"}}
             \cup {FixedId(u) : u \in User} \cup {QuoteId(r) : r \in Request}
FixedDeparture == {"completed", "cancellation", "secondary", "handoff"}

RequestRecord ==
  [id : Request, owner : User, decided : BOOLEAN, total : Total \cup {1},
   status : {"pending_review", "changes_requested", "approved", "rejected"}]

BookingRecord ==
  [source : {"departure", "quote"}, departure : FixedDeparture \cup {None}, owner : User,
   status : {"pending_payment", "confirmed", "cancelled", "completed"},
   payment : {None, "pending", "paid"}, guide : User \cup {None},
   created : Nat, expires : Nat, accepted : Nat \cup {None}, total : Nat,
   request : RequestRecord \cup {None}]

Cancellation == [booking : Booking, customer : User, key : CancelKey, source : {"departure", "quote"}]
Review == [booking : Booking, customer : User]

Envelope ==
  [session : User \cup {None}, role : [User -> Role],
   requests : [Request -> RequestRecord \cup {None}],
   bookings : [Booking -> BookingRecord \cup {None}],
   cancellations : SUBSET Cancellation, reviews : SUBSET Review,
   assignments : [Booking -> User \cup {None}], departures : SUBSET FixedDeparture]

PortalAssumption ==
  /\ Identity \subseteq User /\ RoleTarget \subseteq User /\ Booker \subseteq User
  /\ Total \subseteq Nat
  /\ QuoteValidity \in Nat \ {0} /\ MaxTime \in Nat
  /\ MaxRecords \in Nat /\ MaxRecords >= Cardinality(User)
  /\ None \notin User /\ None \notin Nat /\ None \notin {"pending", "paid"}
  /\ None \notin RequestRecord /\ None \notin BookingRecord /\ None \notin Envelope
ASSUME PortalAssumption

DepartureBooking(owner, departure, status, payment) ==
  [source |-> "departure", departure |-> departure, owner |-> owner, status |-> status,
   payment |-> payment, guide |-> None, created |-> 0, expires |-> 0, accepted |-> None,
   total |-> 1, request |-> None]

QuoteBooking(request, status, payment, created, accepted) ==
  [source |-> "quote", departure |-> None, owner |-> request.owner, status |-> status,
   payment |-> payment, guide |-> None, created |-> created,
   expires |-> created + QuoteValidity, accepted |-> accepted,
   total |-> request.total, request |-> request]

NewRequestRecord(r, owner, total) ==
  [id |-> r, owner |-> owner, status |-> "pending_review", decided |-> FALSE, total |-> total]

-----------------------------------------------------------------------------
\* The fixture every demonstration starts from

FixtureRole == [u \in User |-> CASE u \in {"customer", "customer2"} -> "customer"
                                 [] u \in {"guide", "guide2"} -> "guide"
                                 [] OTHER -> "admin"]

SeededRequest == NewRequestRecord("seeded", "customer", 1)

\* A paid quote booking goes with a request that is still to be reviewed.
FixtureBookings == [b \in Booking |->
  CASE b = Seeded("completed") ->
         [DepartureBooking("customer", "completed", "completed", "paid") EXCEPT !.guide = "guide"]
    [] b = Seeded("cancellation") ->
         DepartureBooking("customer", "cancellation", "pending_payment", None)
    [] b = Seeded("secondary") ->
         DepartureBooking("customer2", "secondary", "confirmed", "paid")
    [] b = Seeded("personalized") -> QuoteBooking(SeededRequest, "confirmed", "paid", 0, 0)
    [] OTHER -> None]

Fixture ==
  [session |-> None,
   role |-> FixtureRole,
   requests |-> [r \in Request |-> IF r = "seeded" THEN SeededRequest ELSE None],
   bookings |-> FixtureBookings,
   cancellations |-> {},
   reviews |-> {},
   assignments |-> [b \in Booking |-> IF b = Seeded("completed") THEN "guide" ELSE None],
   departures |-> {"completed", "cancellation", "secondary"}]

-----------------------------------------------------------------------------
\* What a read of the envelope insists on

Bookings(s) == {b \in Booking : s.bookings[b] # None}
Requests(s) == {r \in Request : s.requests[r] # None}
Assigned(s) == {b \in Booking : s.assignments[b] # None}
HasRole(s, u, role) == u # None /\ s.role[u] = role

EveryRoleIsHeld(s) == \A role \in Role : \E u \in User : s.role[u] = role

RequestOwnersAreCustomers(s) ==
  \A r \in Requests(s) : HasRole(s, s.requests[r].owner, "customer")

DecidedOnceReviewed(request) == request.status = "pending_review" <=> ~request.decided

DepartureReferencesHold(s, booking) ==
  /\ booking.departure \in s.departures
  /\ booking.request = None /\ booking.accepted = None

QuoteReferencesHold(s, booking) ==
  /\ booking.request # None
  /\ booking.request.owner = booking.owner
  /\ booking.request = s.requests[booking.request.id]
  /\ booking.total = booking.request.total
  /\ booking.expires = booking.created + QuoteValidity
  /\ booking.accepted # None => booking.accepted \in booking.created .. booking.expires - 1
  /\ booking.status = "confirmed" /\ booking.payment = "paid" => booking.accepted # None
  /\ DecidedOnceReviewed(booking.request)

BookingReferencesHold(s) == \A b \in Bookings(s) :
  LET booking == s.bookings[b] IN
    /\ HasRole(s, booking.owner, "customer")
    /\ IF booking.source = "departure" THEN DepartureReferencesHold(s, booking)
                                       ELSE QuoteReferencesHold(s, booking)
    /\ booking.guide # None => HasRole(s, booking.guide, "guide")
    /\ booking.guide = s.assignments[b]
    /\ booking.status = "cancelled" <=> \E event \in s.cancellations : event.booking = b

CancellationReferencesHold(s) == \A event \in s.cancellations :
  LET booking == s.bookings[event.booking] IN
    /\ booking # None
    /\ HasRole(s, event.customer, "customer") /\ booking.owner = event.customer
    /\ booking.source = event.source
    /\ booking.status = "cancelled" /\ booking.payment = None
    /\ booking.source = "quote" => booking.accepted = None

AssignmentReferencesHold(s) == \A b \in Assigned(s) :
  /\ s.bookings[b] # None /\ s.bookings[b].source = "departure"
  /\ s.bookings[b].guide = s.assignments[b]
  /\ HasRole(s, s.assignments[b], "guide")

ReviewReferencesHold(s) == \A review \in s.reviews :
  /\ s.bookings[review.booking] # None
  /\ s.bookings[review.booking].status = "completed"
  /\ s.bookings[review.booking].owner = review.customer
  /\ HasRole(s, review.customer, "customer")
  /\ \A other \in s.reviews : other.booking = review.booking => other = review

\* Everything but the rule on the owners of requests.
OtherReferencesHold(s) ==
  /\ EveryRoleIsHeld(s)
  /\ \A r \in Requests(s) : DecidedOnceReviewed(s.requests[r])
  /\ BookingReferencesHold(s)
  /\ CancellationReferencesHold(s)
  /\ AssignmentReferencesHold(s)
  /\ ReviewReferencesHold(s)

CrossReferencesHold(s) == RequestOwnersAreCustomers(s) /\ OtherReferencesHold(s)

\* The reader also bounds every list and wants identifiers to be unique.
ListsAreBounded(s) ==
  /\ Cardinality(Requests(s)) <= MaxRecords
  /\ Cardinality(Bookings(s)) <= MaxRecords
  /\ Cardinality(s.cancellations) <= MaxRecords
  /\ Cardinality(s.reviews) <= MaxRecords

KeysAreUnique(s) == \A e, f \in s.cancellations :
  e.booking = f.booking \/ (e.customer = f.customer /\ e.key = f.key) => e = f

Readable(s) ==
  /\ s # None
  /\ ListsAreBounded(s)
  /\ KeysAreUnique(s)
  /\ CrossReferencesHold(s)

-----------------------------------------------------------------------------
\* Reading and writing

Write(s) == store' = s /\ UNCHANGED clock
ValidateAndWrite(s) == CrossReferencesHold(s) /\ Write(s)

\* readEnvelope and actorWithRole: what every operation of a role starts with.
Acting(role) == Readable(store) /\ HasRole(store, store.session, role)
Me == store.session

PortalInit == store = None /\ clock = 0

\* A first visit writes the fixture; a later one only reads what is there.
Initialize == store = None /\ Write(Fixture)

\* The only operation that does not read what it replaces.
Reset == store # None /\ Write(Fixture)

SelectDemoIdentity(u) == Write([store EXCEPT !.session = u])
SignOut == Write([store EXCEPT !.session = None])

Tick == clock < MaxTime /\ clock' = clock + 1 /\ UNCHANGED store

-----------------------------------------------------------------------------
\* A customer's operations

\* What the store of the tab knows of the local booking of the user u.
CopyOf(s, u) == IF s = None \/ s.bookings[FixedId(u)] = None THEN "absent"
                ELSE s.bookings[FixedId(u)].status

SyncFixedBooking(paid) ==
  LET b == FixedId(Me)
      present == CopyOf(store, Me)
      status == SyncedStatus(present, paid)
  IN /\ Me \in Booker
     /\ status \notin {"refused", present}
     /\ ValidateAndWrite(
          [store EXCEPT
             !.departures = @ \cup {"handoff"},
             !.bookings[b] =
               IF present = "absent"
                 THEN DepartureBooking(Me, "handoff", status, IF paid THEN "paid" ELSE "pending")
                 ELSE [@ EXCEPT !.status = status, !.payment = IF paid THEN "paid" ELSE "pending"]])

SubmitPersonalizedRequest(r, total) ==
  /\ store.requests[r] = None
  /\ ValidateAndWrite([store EXCEPT !.requests[r] = NewRequestRecord(r, Me, total)])

\* What an acceptance and a checkout of the quote booking b have in common.
MyOpenQuote(b) ==
  LET booking == store.bookings[b] IN
    /\ booking # None
    /\ booking.owner = Me
    /\ booking.source = "quote"
    /\ store.requests[booking.request.id].owner = Me
    /\ store.requests[booking.request.id].status = "approved"
    /\ booking.status = "pending_payment" /\ booking.payment = None
    /\ clock < booking.expires

AcceptPersonalizedQuote(b) ==
  /\ MyOpenQuote(b)
  /\ ValidateAndWrite([store EXCEPT !.bookings[b].accepted = IF @ = None THEN clock ELSE @])

CompletePersonalizedCheckout(b) ==
  /\ MyOpenQuote(b)
  /\ store.bookings[b].accepted # None
  /\ ValidateAndWrite([store EXCEPT !.bookings[b].status = "confirmed",
                                    !.bookings[b].payment = "paid"])

\* Mutant: whatever is not over may be cancelled.
CancelBookingAnyTime(b, key) ==
  LET booking == store.bookings[b] IN
    /\ booking # None /\ booking.owner = Me
    /\ \A event \in store.cancellations :
         event.booking # b /\ ~(event.customer = Me /\ event.key = key)
    /\ booking.status \notin {"cancelled", "completed"}
    /\ ValidateAndWrite(
         [store EXCEPT
            !.bookings[b] = [booking EXCEPT !.status = "cancelled", !.payment = None,
                                            !.accepted = IF booking.source = "quote" THEN None ELSE @],
            !.cancellations = @ \cup {[booking |-> b, customer |-> Me, key |-> key,
                                       source |-> booking.source]}])

CancelBooking(b, key) ==
  LET booking == store.bookings[b] IN
    /\ booking # None /\ booking.owner = Me
    /\ \A event \in store.cancellations :
         event.booking # b /\ ~(event.customer = Me /\ event.key = key)
    /\ booking.status = "pending_payment"
    /\ booking.payment \notin {"paid", "review"}
    /\ ValidateAndWrite(
         [store EXCEPT
            !.bookings[b] = [booking EXCEPT !.status = "cancelled", !.payment = None,
                                            !.accepted = IF booking.source = "quote" THEN None ELSE @],
            !.cancellations = @ \cup {[booking |-> b, customer |-> Me, key |-> key,
                                       source |-> booking.source]}])

SubmitTourReview(b) ==
  /\ store.bookings[b] # None /\ store.bookings[b].owner = Me
  /\ store.bookings[b].status = "completed"
  /\ \A review \in store.reviews : review.booking # b
  /\ Write([store EXCEPT !.reviews = @ \cup {[booking |-> b, customer |-> Me]}])

-----------------------------------------------------------------------------
\* An administrator's operations

\* Mutant: the decision is not copied into the bookings that carry the request.
ReviewRequestOnly(r, decision) ==
  LET request == store.requests[r] IN
    /\ request # None
    /\ request.status \in {"pending_review", "changes_requested"}
    /\ Write([store EXCEPT !.requests[r] = [request EXCEPT !.status = decision,
                                                           !.decided = TRUE]])

\* Mutant: a decision may be changed for another.
ReviewRequestAgain(r, decision) ==
  LET request == store.requests[r]
      reviewed == [request EXCEPT !.status = decision, !.decided = TRUE]
      Refreshed(booking) ==
        IF booking # None /\ booking.source = "quote" /\ booking.request.id = r
          THEN [booking EXCEPT !.request = reviewed]
          ELSE booking
  IN /\ request # None
     /\ Write([store EXCEPT !.requests[r] = reviewed,
                            !.bookings = [b \in Booking |-> Refreshed(store.bookings[b])]])

\* A decision is copied into every booking that carries the request.
ReviewPersonalizedRequest(r, decision) ==
  LET request == store.requests[r]
      reviewed == [request EXCEPT !.status = decision, !.decided = TRUE]
      Refreshed(booking) ==
        IF booking # None /\ booking.source = "quote" /\ booking.request.id = r
          THEN [booking EXCEPT !.request = reviewed]
          ELSE booking
  IN /\ request # None
     /\ request.status \in {"pending_review", "changes_requested"}
     /\ Write([store EXCEPT !.requests[r] = reviewed,
                            !.bookings = [b \in Booking |-> Refreshed(store.bookings[b])]])

IssueDemoQuote(r) ==
  LET request == store.requests[r] IN
    /\ store.bookings[Seeded("personalized")] # None
    /\ request # None
    /\ request.status = "approved"
    /\ request.total >= 1
    /\ store.bookings[QuoteId(r)] = None
    /\ ValidateAndWrite([store EXCEPT !.bookings[QuoteId(r)] =
                           QuoteBooking(request, "pending_payment", None, clock, None)])

AssignGuideToFixedDeparture(b, u) ==
  /\ store.bookings[b] # None
  /\ HasRole(store, u, "guide")
  /\ store.bookings[b].status = "confirmed" /\ store.bookings[b].source = "departure"
  /\ Write([store EXCEPT !.assignments[b] = u, !.bookings[b].guide = u])

\* The owner of a booking stays a customer and an assigned guide a guide.
UpdateUserRole(u, role) ==
  /\ role # store.role[u] => \E v \in User \ {u} : store.role[v] = store.role[u]
  /\ role # "customer" => \A b \in Bookings(store) : store.bookings[b].owner # u
  /\ role # "guide" => \A b \in Assigned(store) : store.assignments[b] # u
  /\ Write([store EXCEPT !.role[u] = role])

-----------------------------------------------------------------------------
SessionOperation == (\E u \in Identity : SelectDemoIdentity(u)) \/ SignOut

CustomerOperation ==
  \/ \E paid \in BOOLEAN : SyncFixedBooking(paid)
  \/ \E r \in NewRequest, total \in Total : SubmitPersonalizedRequest(r, total)
  \/ \E b \in Booking : AcceptPersonalizedQuote(b)
  \/ \E b \in Booking : CompletePersonalizedCheckout(b)
  \/ \E b \in Booking, key \in CancelKey : CancelBooking(b, key)
  \/ \E b \in Booking : SubmitTourReview(b)

AdminOperation ==
  \/ \E r \in Request, decision \in {"changes_requested", "approved", "rejected"} :
       ReviewPersonalizedRequest(r, decision)
  \/ \E r \in Request : IssueDemoQuote(r)
  \/ \E b \in Booking, u \in User : AssignGuideToFixedDeparture(b, u)
  \/ \E u \in RoleTarget, role \in Role : UpdateUserRole(u, role)

PortalNext ==
  \/ Initialize
  \/ Reset
  \/ Readable(store) /\ SessionOperation
  \/ Tick
  \/ Acting("customer") /\ CustomerOperation
  \/ Acting("admin") /\ AdminOperation

PortalSpec == PortalInit /\ [][PortalNext]_portalVars
=============================================================================
