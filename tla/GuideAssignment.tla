---------------------------- MODULE GuideAssignment ----------------------------
(***************************************************************************)
(* An administrator assigns guides to confirmed departure bookings while   *)
(* checkout procedures work on the same departures and bookings.  Every    *)
(* call is a database transaction: it takes its locks one after the other, *)
(* reads what is committed once it has each, and ends by committing, by    *)
(* refusing or by being aborted, which frees its locks at once.            *)
(*                                                                         *)
(* Nothing in the code unschedules a departure or ends an assignment other *)
(* than by reassigning it, and the procedures by which guides accepted and *)
(* completed assignments are withdrawn from every browser role.  Of the    *)
(* checkout only its shared lock order and the confirmation are kept.      *)
(***************************************************************************)
EXTENDS Naturals, Sequences

CONSTANTS
  Nobody,          \* no guide, no receipt
  TourGuide,       \* users with the guide role and a profile
  Trip,            \* departure bookings
  Departure, DepartureOf,
  From, Until,     \* when each departure starts and ends
  AssignKey,       \* the administrator's idempotency keys
  Session          \* the database sessions that serve the calls

VARIABLES
  assigned,        \* the guide of each booking's active assignment
  receipt,         \* the ledger of assignment calls
  confirmed,       \* the bookings that are confirmed
  session          \* the transaction of each session

guideVars == <<assigned, receipt, confirmed, session>>

GuideAssumption ==
  /\ DepartureOf \in [Trip -> Departure]
  /\ From \in [Departure -> Nat] /\ Until \in [Departure -> Nat]
  /\ \A d \in Departure : From[d] < Until[d]
  /\ Nobody \notin TourGuide
ASSUME GuideAssumption

-----------------------------------------------------------------------------
\* Transactions and their locks

NoWork == [work |-> "none", trip |-> Nobody, guide |-> Nobody, key |-> Nobody,
           held |-> 0, placed |-> FALSE]

\* Mutant: nothing keeps two sessions from reading one guide's schedule.
AssignLocksUnscheduled(s) ==
  << <<"key", s.key>>, <<"trip", s.trip>>, <<"departure", DepartureOf[s.trip]>> >>

\* Mutant: the schedule of the guide who is replaced is locked as well.
AssignLocksBothGuides(s) ==
  << <<"key", s.key>>, <<"trip", s.trip>>, <<"departure", DepartureOf[s.trip]>>,
     <<"schedule", s.guide>>, <<"schedule", assigned[s.trip]>> >>

AssignLocks(s) ==
  << <<"key", s.key>>, <<"trip", s.trip>>, <<"departure", DepartureOf[s.trip]>>,
     <<"schedule", s.guide>> >>

\* The order that the checkout procedures share.
CheckoutLocks(s) ==
  << <<"checkout", s.trip>>, <<"departure", DepartureOf[s.trip]>>, <<"trip", s.trip>> >>

LocksOf(s) == CASE s.work = "assign"   -> AssignLocks(s)
                [] s.work = "checkout" -> CheckoutLocks(s)
                [] OTHER               -> << >>

HeldBy(i) == {LocksOf(session[i])[n] : n \in 1 .. session[i].held}
Waiting(i) == session[i].held < Len(LocksOf(session[i]))
Wanted(i) == LocksOf(session[i])[session[i].held + 1]
WaitsFor(i, j) == i # j /\ Waiting(i) /\ Wanted(i) \in HeldBy(j)
Granted(i) == Waiting(i) /\ \A j \in Session \ {i} : Wanted(i) \notin HeldBy(j)

TakeLock(i) == session' = [session EXCEPT ![i].held = @ + 1]
End(i) == session' = [session EXCEPT ![i] = NoWork]

-----------------------------------------------------------------------------
\* Schedules: the half-open ranges of two departures overlap

Overlap(d, e) == From[d] < Until[e] /\ From[e] < Until[d]

Free(guide, trip) == \A other \in Trip \ {trip} :
  assigned[other] = guide => ~Overlap(DepartureOf[trip], DepartureOf[other])

\* Some bookings are confirmed, and some of those assigned, already.
GuideInit ==
  /\ confirmed \in SUBSET Trip
  /\ assigned \in [Trip -> TourGuide \cup {Nobody}]
  /\ \A trip \in Trip : assigned[trip] # Nobody => trip \in confirmed /\ Free(assigned[trip], trip)
  /\ receipt = [k \in AssignKey |-> Nobody]
  /\ session = [i \in Session |-> NoWork]

-----------------------------------------------------------------------------
\* assign_fixed_departure_guide

AskAssignment(i, trip, guide, key) ==
  /\ session[i] = NoWork
  /\ session' = [session EXCEPT ![i] = [NoWork EXCEPT !.work = "assign", !.trip = trip,
                                                      !.guide = guide, !.key = key]]
  /\ UNCHANGED <<assigned, receipt, confirmed>>

Assigning(i, held) == session[i].work = "assign" /\ session[i].held = held /\ Granted(i)

\* A key that was used is replayed, or refused for another booking or guide.
TakeKey(i) ==
  /\ Assigning(i, 0)
  /\ IF receipt[session[i].key] # Nobody THEN End(i) ELSE TakeLock(i)
  /\ UNCHANGED <<assigned, receipt, confirmed>>

TakeTrip(i) ==
  /\ Assigning(i, 1)
  /\ IF session[i].trip \in confirmed THEN TakeLock(i) ELSE End(i)
  /\ UNCHANGED <<assigned, receipt, confirmed>>

RecordReceipt(i) ==
  receipt' = [receipt EXCEPT ![session[i].key] =
                [trip |-> session[i].trip, guide |-> session[i].guide]]

\* The guide who is assigned already stays, and the call is recorded.
TakeDeparture(i) ==
  /\ Assigning(i, 2)
  /\ IF assigned[session[i].trip] = session[i].guide
       THEN RecordReceipt(i) /\ End(i)
       ELSE UNCHANGED receipt /\ TakeLock(i)
  /\ UNCHANGED <<assigned, confirmed>>

TakeSchedule(i) ==
  /\ session[i].work = "assign" /\ session[i].held >= 3 /\ Granted(i)
  /\ TakeLock(i)
  /\ UNCHANGED <<assigned, receipt, confirmed>>

\* The schedule is read and the assignment inserted, but not committed yet.
\* (Both procedures check alike under these locks; the second check stands.)
PlaceAssignment(i) ==
  /\ session[i].work = "assign" /\ ~Waiting(i) /\ ~session[i].placed
  /\ IF Free(session[i].guide, session[i].trip)
       THEN session' = [session EXCEPT ![i].placed = TRUE]
       ELSE End(i)
  /\ UNCHANGED <<assigned, receipt, confirmed>>

CommitAssignment(i) ==
  /\ session[i].placed
  /\ assigned' = [assigned EXCEPT ![session[i].trip] = session[i].guide]
  /\ RecordReceipt(i)
  /\ End(i)
  /\ UNCHANGED confirmed

-----------------------------------------------------------------------------
\* A checkout procedure on an existing booking: a replayed start, a webhook, a
\* recorded session, a compensation, a simulated payment or a cancellation.

AskCheckout(i, trip) ==
  /\ session[i] = NoWork
  /\ session' = [session EXCEPT ![i] = [NoWork EXCEPT !.work = "checkout", !.trip = trip]]
  /\ UNCHANGED <<assigned, receipt, confirmed>>

TakeCheckoutLock(i) ==
  /\ session[i].work = "checkout" /\ Granted(i)
  /\ TakeLock(i)
  /\ UNCHANGED <<assigned, receipt, confirmed>>

\* Whether this call is one that confirms the booking is left open.
CommitCheckout(i) ==
  /\ session[i].work = "checkout" /\ ~Waiting(i)
  /\ confirmed' \in {confirmed, confirmed \cup {session[i].trip}}
  /\ End(i)
  /\ UNCHANGED <<assigned, receipt>>

\* A statement timeout, a lost connection or the victim of a deadlock.
Abort(i) ==
  /\ session[i].work # "none"
  /\ End(i)
  /\ UNCHANGED <<assigned, receipt, confirmed>>

GuideNext == \E i \in Session :
  \/ \E trip \in Trip, guide \in TourGuide, key \in AssignKey : AskAssignment(i, trip, guide, key)
  \/ TakeKey(i) \/ TakeTrip(i) \/ TakeDeparture(i) \/ TakeSchedule(i)
  \/ PlaceAssignment(i) \/ CommitAssignment(i)
  \/ \E trip \in Trip : AskCheckout(i, trip)
  \/ TakeCheckoutLock(i) \/ CommitCheckout(i)
  \/ Abort(i)

GuideSpec == GuideInit /\ [][GuideNext]_guideVars
=============================================================================
