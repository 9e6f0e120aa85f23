------------------------------ MODULE GuideProofs ------------------------------
(***************************************************************************)
(* No guide is ever booked twice, for any number of sessions, bookings,    *)
(* guides and departures.  A session that has checked a guide's schedule   *)
(* and not committed yet still holds that schedule's lock, so that nothing *)
(* it has read can have changed: that is the inductive invariant.          *)
(* And calls of one kind never wait for each other in a circle, because    *)
(* they take their locks in one order.                                     *)
(***************************************************************************)
EXTENDS GuideProperties, TLAPS

Work == [work : {"none", "assign", "checkout"}, trip : Trip \cup {Nobody},
         guide : TourGuide \cup {Nobody}, key : AssignKey \cup {Nobody},
         held : Nat, placed : BOOLEAN]

GuideTypeOK ==
  /\ assigned \in [Trip -> TourGuide \cup {Nobody}]
  /\ session \in [Session -> Work]
  /\ \A i \in Session : session[i].work = "assign" =>
       session[i].trip \in Trip /\ session[i].guide \in TourGuide

LocksAreExclusive == \A i, j \in Session : i # j => HeldBy(i) \cap HeldBy(j) = {}

PlacedHoldsSchedule ==
  \A i \in Session : session[i].placed =>
    /\ session[i].work = "assign"
    /\ <<"schedule", session[i].guide>> \in HeldBy(i)
    /\ Free(session[i].guide, session[i].trip)

GuideInv == GuideTypeOK /\ LocksAreExclusive /\ PlacedHoldsSchedule /\ NoDoubleBookedGuide

-----------------------------------------------------------------------------
\* Locks

LEMMA HeldStays ==
  ASSUME NEW j \in Session, session'[j] = session[j]
  PROVE  HeldBy(j)' = HeldBy(j)
BY DEF HeldBy, LocksOf, AssignLocks, CheckoutLocks

(* A session that starts or ends holds no lock. *)
LEMMA RestartKeepsLocks ==
  ASSUME LocksAreExclusive, GuideTypeOK, NEW i \in Session, NEW s \in Work, s.held = 0,
         session' = [session EXCEPT ![i] = s]
  PROVE  LocksAreExclusive'
<1>1. HeldBy(i)' = {}
  BY DEF HeldBy, GuideTypeOK
<1>2. \A j \in Session \ {i} : HeldBy(j)' = HeldBy(j)
  BY HeldStays DEF GuideTypeOK
<1> QED
  BY <1>1, <1>2 DEF LocksAreExclusive

(* A lock that is granted adds itself to those of its session. *)
LEMMA TakenLock ==
  ASSUME GuideTypeOK, NEW i \in Session, TakeLock(i)
  PROVE  /\ session'[i] = [session[i] EXCEPT !.held = @ + 1]
         /\ \A j \in Session \ {i} : session'[j] = session[j]
         /\ HeldBy(i)' = HeldBy(i) \cup {Wanted(i)}
<1>1. /\ session'[i] = [session[i] EXCEPT !.held = @ + 1]
      /\ \A j \in Session \ {i} : session'[j] = session[j]
  BY DEF TakeLock, GuideTypeOK
<1>2. session[i].held \in Nat /\ session'[i].held = session[i].held + 1
  BY <1>1 DEF GuideTypeOK, Work
<1>3. LocksOf(session'[i]) = LocksOf(session[i])
  BY <1>1 DEF GuideTypeOK, Work, LocksOf, AssignLocks, CheckoutLocks
<1>4. HeldBy(i)' = {LocksOf(session[i])[n] : n \in 1 .. session[i].held + 1}
  BY <1>2, <1>3 DEF HeldBy
<1>5. 1 .. session[i].held + 1 = (1 .. session[i].held) \cup {session[i].held + 1}
  BY <1>2
<1> QED
  BY <1>1, <1>4, <1>5 DEF HeldBy, Wanted

LEMMA TakeKeepsLocks ==
  ASSUME LocksAreExclusive, GuideTypeOK, NEW i \in Session, Granted(i), TakeLock(i)
  PROVE  LocksAreExclusive'
<1>1. \A j \in Session \ {i} : HeldBy(j)' = HeldBy(j)
  BY HeldStays, TakenLock
<1>2. HeldBy(i)' = HeldBy(i) \cup {Wanted(i)}
  BY TakenLock
<1>3. \A j \in Session \ {i} : Wanted(i) \notin HeldBy(j)
  BY DEF Granted
<1> QED
  BY <1>1, <1>2, <1>3 DEF LocksAreExclusive

-----------------------------------------------------------------------------
\* The three ways in which a step can change a session

LEMMA RestartKeepsInv ==
  ASSUME GuideInv, GuideAssumption, NEW i \in Session, NEW s \in Work, s.held = 0, ~s.placed,
         s.work = "assign" => s.trip \in Trip /\ s.guide \in TourGuide,
         session' = [session EXCEPT ![i] = s], assigned' = assigned
  PROVE  GuideInv'
<1>1. GuideTypeOK'
  BY DEF GuideInv, GuideTypeOK
<1>2. LocksAreExclusive'
  BY RestartKeepsLocks DEF GuideInv
<1>3. PlacedHoldsSchedule'
  <2> SUFFICES ASSUME NEW j \in Session, session'[j].placed
               PROVE  /\ session'[j].work = "assign"
                      /\ <<"schedule", session'[j].guide>> \in HeldBy(j)'
                      /\ Free(session[j].guide, session[j].trip)'
    BY DEF PlacedHoldsSchedule
  <2>1. j # i /\ session'[j] = session[j]
    BY DEF GuideInv, GuideTypeOK
  <2> QED
    BY <2>1, HeldStays DEF GuideInv, PlacedHoldsSchedule, Free
<1>4. NoDoubleBookedGuide'
  BY DEF GuideInv, NoDoubleBookedGuide, Free
<1> QED
  BY <1>1, <1>2, <1>3, <1>4 DEF GuideInv

LEMMA IdleIsWork == NoWork \in Work /\ NoWork.held = 0 /\ ~NoWork.placed /\ NoWork.work # "assign"
BY DEF NoWork, Work

LEMMA EndKeepsInv ==
  ASSUME GuideInv, GuideAssumption, NEW i \in Session, End(i), assigned' = assigned
  PROVE  GuideInv'
BY IdleIsWork, RestartKeepsInv DEF End

LEMMA TakeKeepsInv ==
  ASSUME GuideInv, NEW i \in Session, Granted(i), TakeLock(i), assigned' = assigned
  PROVE  GuideInv'
<1>1. GuideTypeOK'
  BY DEF GuideInv, GuideTypeOK, TakeLock, Work
<1>2. LocksAreExclusive'
  BY TakeKeepsLocks DEF GuideInv
<1>3. PlacedHoldsSchedule'
  <2> SUFFICES ASSUME NEW j \in Session, session'[j].placed
               PROVE  /\ session'[j].work = "assign"
                      /\ <<"schedule", session'[j].guide>> \in HeldBy(j)'
                      /\ Free(session[j].guide, session[j].trip)'
    BY DEF PlacedHoldsSchedule
  <2>1. /\ session'[j].placed = session[j].placed
        /\ session'[j].work = session[j].work
        /\ session'[j].guide = session[j].guide
        /\ session'[j].trip = session[j].trip
    BY DEF TakeLock, GuideInv, GuideTypeOK, Work
  <2>2. HeldBy(j) \subseteq HeldBy(j)'
    BY TakenLock, HeldStays DEF GuideInv
  <2> QED
    BY <2>1, <2>2 DEF GuideInv, PlacedHoldsSchedule, Free
<1>4. NoDoubleBookedGuide'
  BY DEF GuideInv, NoDoubleBookedGuide, Free
<1> QED
  BY <1>1, <1>2, <1>3, <1>4 DEF GuideInv

(* An assignment that found the schedule free holds the schedule's lock. *)
LEMMA PlacingKeepsInv ==
  ASSUME GuideInv, NEW i \in Session, session[i].work = "assign", ~Waiting(i),
         Free(session[i].guide, session[i].trip),
         session' = [session EXCEPT ![i].placed = TRUE], assigned' = assigned
  PROVE  GuideInv'
<1>1. GuideTypeOK'
  BY DEF GuideInv, GuideTypeOK, Work
<1>2. /\ session'[i] = [session[i] EXCEPT !.placed = TRUE]
      /\ \A j \in Session \ {i} : session'[j] = session[j]
  BY DEF GuideInv, GuideTypeOK
<1>3. /\ session'[i].work = session[i].work /\ session'[i].guide = session[i].guide
      /\ session'[i].trip = session[i].trip /\ session'[i].key = session[i].key
      /\ session'[i].held = session[i].held
  BY <1>2 DEF GuideInv, GuideTypeOK, Work
<1>4. LocksOf(session'[i]) = LocksOf(session[i])
  BY <1>3 DEF LocksOf, AssignLocks, CheckoutLocks
<1>5. \A j \in Session : HeldBy(j)' = HeldBy(j)
  <2> SUFFICES ASSUME NEW j \in Session PROVE HeldBy(j)' = HeldBy(j)
    OBVIOUS
  <2>1. CASE j = i
    BY <2>1, <1>3, <1>4 DEF HeldBy
  <2>2. CASE j # i
    BY <2>2, <1>2, HeldStays
  <2> QED BY <2>1, <2>2
<1>6. LocksAreExclusive'
  BY <1>5 DEF GuideInv, LocksAreExclusive
<1>7. <<"schedule", session[i].guide>> \in HeldBy(i)
  <2>1. LocksOf(session[i]) = AssignLocks(session[i])
    BY DEF LocksOf
  <2>2. Len(AssignLocks(session[i])) = 4 /\ AssignLocks(session[i])[4] = <<"schedule", session[i].guide>>
    BY DEF AssignLocks
  <2>3. session[i].held \in Nat /\ ~(session[i].held < 4)
    BY <2>1, <2>2 DEF Waiting, GuideInv, GuideTypeOK, Work
  <2>4. 4 \in 1 .. session[i].held
    BY <2>3
  <2> QED
    BY <2>1, <2>2, <2>4 DEF HeldBy
<1>8. PlacedHoldsSchedule'
  <2> SUFFICES ASSUME NEW j \in Session, session'[j].placed
               PROVE  /\ session'[j].work = "assign"
                      /\ <<"schedule", session'[j].guide>> \in HeldBy(j)'
                      /\ Free(session[j].guide, session[j].trip)'
    BY DEF PlacedHoldsSchedule
  <2>1. CASE j = i
    BY <2>1, <1>3, <1>5, <1>7 DEF Free
  <2>2. CASE j # i
    BY <2>2, <1>2, <1>5 DEF GuideInv, PlacedHoldsSchedule, Free
  <2> QED BY <2>1, <2>2
<1>9. NoDoubleBookedGuide'
  BY DEF GuideInv, NoDoubleBookedGuide, Free
<1> QED
  BY <1>1, <1>6, <1>8, <1>9 DEF GuideInv

(* Committing an assignment: no schedule that another session relies on is *)
(* the one that changes.                                                   *)
LEMMA CommitKeepsInv ==
  ASSUME GuideInv, GuideAssumption, NEW i \in Session, CommitAssignment(i)
  PROVE  GuideInv'
<1> DEFINE trip == session[i].trip
           guide == session[i].guide
<1>1. /\ trip \in Trip /\ guide \in TourGuide /\ guide # Nobody
      /\ Free(guide, trip) /\ <<"schedule", guide>> \in HeldBy(i)
  BY DEF GuideInv, PlacedHoldsSchedule, GuideTypeOK, CommitAssignment, GuideAssumption
<1>2. /\ assigned' = [assigned EXCEPT ![trip] = guide]
      /\ session' = [session EXCEPT ![i] = NoWork]
  BY DEF CommitAssignment, End
<1>3. assigned'[trip] = guide /\ \A other \in Trip \ {trip} : assigned'[other] = assigned[other]
  BY <1>1, <1>2 DEF GuideInv, GuideTypeOK
<1>4. session'[i] = NoWork /\ \A j \in Session \ {i} : session'[j] = session[j]
  BY <1>2 DEF GuideInv, GuideTypeOK
<1>5. GuideTypeOK'
  BY <1>1, <1>2, <1>4, IdleIsWork DEF GuideInv, GuideTypeOK
<1>6. LocksAreExclusive'
  BY <1>2, IdleIsWork, RestartKeepsLocks DEF GuideInv
<1>7. PlacedHoldsSchedule'
  <2> SUFFICES ASSUME NEW j \in Session, session'[j].placed
               PROVE  /\ session'[j].work = "assign"
                      /\ <<"schedule", session'[j].guide>> \in HeldBy(j)'
                      /\ Free(session[j].guide, session[j].trip)'
    BY DEF PlacedHoldsSchedule
  <2>1. j # i /\ session'[j] = session[j] /\ session[j].placed
    BY <1>4, IdleIsWork
  <2>2. /\ session[j].work = "assign" /\ <<"schedule", session[j].guide>> \in HeldBy(j)
        /\ Free(session[j].guide, session[j].trip)
    BY <2>1 DEF GuideInv, PlacedHoldsSchedule
  <2>3. session[j].guide # guide
    BY <2>1, <2>2, <1>1 DEF GuideInv, LocksAreExclusive
  <2>4. \A other \in Trip \ {session[j].trip} :
          assigned'[other] = session[j].guide => assigned[other] = session[j].guide
    BY <2>3, <1>3
  <2>5. Free(session[j].guide, session[j].trip)'
    BY <2>1, <2>2, <2>4 DEF Free, Overlap
  <2> QED
    BY <2>1, <2>2, <2>5, HeldStays
<1>8. NoDoubleBookedGuide'
  <2> SUFFICES ASSUME NEW one \in Trip, NEW other \in Trip \ {one},
                      assigned'[one] # Nobody, assigned'[other] = assigned'[one]
               PROVE  ~Overlap(DepartureOf[one], DepartureOf[other])
    BY DEF NoDoubleBookedGuide, Free, Overlap
  <2>1. CASE one = trip
    BY <2>1, <1>1, <1>3 DEF Free
  <2>2. CASE other = trip
    <3>1. ~Overlap(DepartureOf[other], DepartureOf[one])
      BY <2>2, <1>1, <1>3 DEF Free
    <3> QED
      BY <3>1 DEF Overlap
  <2>3. CASE one # trip /\ other # trip
    BY <2>3, <1>3 DEF GuideInv, NoDoubleBookedGuide, Free
  <2> QED BY <2>1, <2>2, <2>3
<1> QED
  BY <1>5, <1>6, <1>7, <1>8 DEF GuideInv

-----------------------------------------------------------------------------
LEMMA InitGuideInv ==
  ASSUME GuideInit, GuideAssumption
  PROVE  GuideInv
<1>1. \A i \in Session : session[i] = NoWork
  BY DEF GuideInit
<1>2. GuideTypeOK
  BY <1>1, IdleIsWork DEF GuideInit, GuideTypeOK
<1>3. LocksAreExclusive
  <2>1. \A i \in Session : HeldBy(i) = {}
    BY <1>1 DEF HeldBy, NoWork
  <2> QED BY <2>1 DEF LocksAreExclusive
<1>4. PlacedHoldsSchedule
  BY <1>1, IdleIsWork DEF PlacedHoldsSchedule
<1>5. NoDoubleBookedGuide
  BY DEF GuideInit, NoDoubleBookedGuide
<1> QED
  BY <1>2, <1>3, <1>4, <1>5 DEF GuideInv

LEMMA NextGuideInv ==
  ASSUME GuideInv, GuideAssumption, [GuideNext]_guideVars
  PROVE  GuideInv'
<1>1. CASE UNCHANGED guideVars
  <2>1. assigned' = assigned /\ session' = session
    BY <1>1 DEF guideVars
  <2>2. \A j \in Session : HeldBy(j)' = HeldBy(j)
    BY <2>1, HeldStays
  <2>3. GuideTypeOK' /\ LocksAreExclusive'
    BY <2>1, <2>2 DEF GuideInv, GuideTypeOK, LocksAreExclusive
  <2>4. PlacedHoldsSchedule' /\ NoDoubleBookedGuide'
    BY <2>1, <2>2 DEF GuideInv, PlacedHoldsSchedule, NoDoubleBookedGuide, Free
  <2> QED
    BY <2>3, <2>4 DEF GuideInv
<1>2. ASSUME NEW i \in Session, NEW trip \in Trip, NEW guide \in TourGuide, NEW key \in AssignKey,
             AskAssignment(i, trip, guide, key)
      PROVE  GuideInv'
  <2> DEFINE s == [NoWork EXCEPT !.work = "assign", !.trip = trip, !.guide = guide, !.key = key]
  <2>1. /\ s \in Work /\ s.held = 0 /\ ~s.placed /\ s.trip \in Trip /\ s.guide \in TourGuide
    BY DEF NoWork, Work
  <2>2. session' = [session EXCEPT ![i] = s] /\ assigned' = assigned
    BY <1>2 DEF AskAssignment
  <2> HIDE DEF s
  <2> QED
    BY <2>1, <2>2, RestartKeepsInv
<1>3. ASSUME NEW i \in Session, TakeKey(i) \/ TakeTrip(i) \/ TakeDeparture(i) \/ TakeSchedule(i)
      PROVE  GuideInv'
  <2>1. /\ assigned' = assigned
        /\ Granted(i)
        /\ End(i) \/ TakeLock(i)
    BY <1>3 DEF TakeKey, TakeTrip, TakeDeparture, TakeSchedule, Assigning
  <2> QED
    BY <2>1, EndKeepsInv, TakeKeepsInv
<1>4. ASSUME NEW i \in Session, PlaceAssignment(i)
      PROVE  GuideInv'
  <2>1. CASE Free(session[i].guide, session[i].trip)
    BY <2>1, <1>4, PlacingKeepsInv DEF PlaceAssignment
  <2>2. CASE ~Free(session[i].guide, session[i].trip)
    BY <2>2, <1>4, EndKeepsInv DEF PlaceAssignment
  <2> QED BY <2>1, <2>2
<1>5. ASSUME NEW i \in Session, CommitAssignment(i)
      PROVE  GuideInv'
  BY <1>5, CommitKeepsInv
<1>6. ASSUME NEW i \in Session, NEW trip \in Trip, AskCheckout(i, trip)
      PROVE  GuideInv'
  <2> DEFINE s == [NoWork EXCEPT !.work = "checkout", !.trip = trip]
  <2>1. s \in Work /\ s.held = 0 /\ ~s.placed /\ s.work # "assign"
    BY DEF NoWork, Work
  <2>2. session' = [session EXCEPT ![i] = s] /\ assigned' = assigned
    BY <1>6 DEF AskCheckout
  <2> HIDE DEF s
  <2> QED
    BY <2>1, <2>2, RestartKeepsInv
<1>7. ASSUME NEW i \in Session, TakeCheckoutLock(i)
      PROVE  GuideInv'
  BY <1>7, TakeKeepsInv DEF TakeCheckoutLock
<1>8. ASSUME NEW i \in Session, CommitCheckout(i) \/ Abort(i)
      PROVE  GuideInv'
  BY <1>8, EndKeepsInv DEF CommitCheckout, Abort
<1> QED
  BY <1>1, <1>2, <1>3, <1>4, <1>5, <1>6, <1>7, <1>8 DEF GuideNext

(* No guide has active assignments to two bookings whose departures        *)
(* overlap, however many sessions assign at once: assign_fixed_departure_  *)
(* guide locks the guide's schedule until it commits.                      *)
THEOREM GuideNeverDoubleBooked == GuideSpec => []NoDoubleBookedGuide
<1> USE GuideAssumption
<1>1. GuideInit => GuideInv
  BY InitGuideInv
<1>2. GuideInv /\ [GuideNext]_guideVars => GuideInv'
  BY NextGuideInv
<1>3. GuideInv => NoDoubleBookedGuide
  BY DEF GuideInv
<1> QED
  BY <1>1, <1>2, <1>3, PTL DEF GuideSpec

-----------------------------------------------------------------------------
\* Circles of waiting sessions

(* Calls of one kind take locks of the same kinds in the same order, and   *)
(* locks of two kinds are never the same lock.                             *)
LEMMA AssignOrder ==
  ASSUME GuideTypeOK, NEW i \in Session, NEW j \in Session, WaitsFor(i, j),
         session[i].work = "assign", session[j].work = "assign"
  PROVE  session[i].held < session[j].held /\ session[i].held < 4
<1>1. session[i].held \in Nat /\ session[j].held \in Nat
  BY DEF GuideTypeOK, Work
<1>2. LocksOf(session[i]) = AssignLocks(session[i]) /\ LocksOf(session[j]) = AssignLocks(session[j])
  BY DEF LocksOf
<1>3. session[i].held < 4
  BY <1>1, <1>2 DEF WaitsFor, Waiting, AssignLocks
<1>4. PICK n \in 1 .. session[j].held :
        AssignLocks(session[i])[session[i].held + 1] = AssignLocks(session[j])[n]
  BY <1>2 DEF WaitsFor, Wanted, HeldBy
<1>5. CASE n > 4
  BY <1>1, <1>3, <1>5
<1>6. CASE n \in 1 .. 4
  <2>1. /\ AssignLocks(session[i])[session[i].held + 1][1] = AssignLocks(session[j])[n][1]
    BY <1>4
  <2>2. session[i].held = 0 \/ session[i].held = 1 \/ session[i].held = 2 \/ session[i].held = 3
    BY <1>1, <1>3
  <2>3. n = 1 \/ n = 2 \/ n = 3 \/ n = 4
    BY <1>6
  <2>4. n = session[i].held + 1
    BY <2>1, <2>2, <2>3 DEF AssignLocks
  <2> QED
    BY <1>1, <1>3, <2>4
<1> QED
  BY <1>1, <1>5, <1>6

LEMMA CheckoutOrder ==
  ASSUME GuideTypeOK, NEW i \in Session, NEW j \in Session, WaitsFor(i, j),
         session[i].work = "checkout", session[j].work = "checkout"
  PROVE  session[i].held < session[j].held /\ session[i].held < 4
<1>1. session[i].held \in Nat /\ session[j].held \in Nat
  BY DEF GuideTypeOK, Work
<1>2. /\ LocksOf(session[i]) = CheckoutLocks(session[i])
      /\ LocksOf(session[j]) = CheckoutLocks(session[j])
  BY DEF LocksOf
<1>3. session[i].held < 3
  BY <1>1, <1>2 DEF WaitsFor, Waiting, CheckoutLocks
<1>4. PICK n \in 1 .. session[j].held :
        CheckoutLocks(session[i])[session[i].held + 1] = CheckoutLocks(session[j])[n]
  BY <1>2 DEF WaitsFor, Wanted, HeldBy
<1>5. CASE n > 3
  BY <1>1, <1>3, <1>5
<1>6. CASE n \in 1 .. 3
  <2>1. CheckoutLocks(session[i])[session[i].held + 1][1] = CheckoutLocks(session[j])[n][1]
    BY <1>4
  <2>2. session[i].held = 0 \/ session[i].held = 1 \/ session[i].held = 2
    BY <1>1, <1>3
  <2>3. n = 1 \/ n = 2 \/ n = 3
    BY <1>6
  <2>4. n = session[i].held + 1
    BY <2>1, <2>2, <2>3 DEF CheckoutLocks
  <2> QED
    BY <1>1, <1>3, <2>4
<1> QED
  BY <1>1, <1>5, <1>6

(* A session without work wants no lock.                                   *)
LEMMA WaitingWorks ==
  ASSUME GuideTypeOK, NEW i \in Session, Waiting(i)
  PROVE  session[i].work \in {"assign", "checkout"}
<1>1. session[i].work \in {"none", "assign", "checkout"} /\ session[i].held \in Nat
  BY DEF GuideTypeOK, Work
<1>2. session[i].work = "none" => Len(LocksOf(session[i])) = 0
  BY DEF LocksOf
<1> QED
  BY <1>1, <1>2 DEF Waiting

(* In a circle of one kind each session would hold fewer locks than the    *)
(* next, and after four of them none that waits is left.                   *)
LEMMA OneKindClimbs ==
  ASSUME GuideTypeOK, NEW group \in SUBSET Session, Stuck(group), NEW work,
         \A i \in group : session[i].work = work
  PROVE  FALSE
<1>1. \A i \in group : \E j \in group : WaitsFor(i, j)
  BY DEF Stuck
<1>2. PICK a \in group : TRUE
  BY DEF Stuck
<1>3. work \in {"assign", "checkout"}
  BY <1>1, <1>2, WaitingWorks DEF WaitsFor
<1>4. ASSUME NEW i \in group
      PROVE  \E j \in group : session[i].held < session[j].held /\ session[i].held < 4
  BY <1>1, <1>3, AssignOrder, CheckoutOrder
<1>5. \A i \in group : session[i].held \in Nat
  BY DEF GuideTypeOK, Work
<1>6. PICK b \in group : session[a].held < session[b].held
  BY <1>2, <1>4
<1>7. PICK c \in group : session[b].held < session[c].held
  BY <1>6, <1>4
<1>8. PICK d \in group : session[c].held < session[d].held
  BY <1>7, <1>4
<1>9. PICK e \in group : session[d].held < session[e].held /\ session[e].held < 4
  BY <1>8, <1>4
<1> QED
  BY <1>2, <1>5, <1>6, <1>7, <1>8, <1>9

LEMMA CirclesAreMixed ==
  ASSUME GuideTypeOK
  PROVE  OnlyMixedCallsGetStuck
<1> SUFFICES ASSUME NEW group \in SUBSET Session, Stuck(group)
             PROVE  {session[i].work : i \in group} = {"assign", "checkout"}
  BY DEF OnlyMixedCallsGetStuck
<1>1. \A i \in group : session[i].work \in {"assign", "checkout"}
  BY WaitingWorks DEF Stuck, WaitsFor
<1>2. \E i \in group : session[i].work # "assign"
  BY OneKindClimbs
<1>3. \E i \in group : session[i].work # "checkout"
  BY OneKindClimbs
<1> QED
  BY <1>1, <1>2, <1>3

(* Any number of guide assignments alone never deadlock, and neither do    *)
(* any number of checkout procedures: the locks of each kind of call are   *)
(* taken in one order, and only the two kinds together can close a circle. *)
THEOREM OneKindNeverDeadlocks == GuideSpec => []OnlyMixedCallsGetStuck
<1> USE GuideAssumption
<1>1. GuideInit => GuideInv
  BY InitGuideInv
<1>2. GuideInv /\ [GuideNext]_guideVars => GuideInv'
  BY NextGuideInv
<1>3. GuideInv => OnlyMixedCallsGetStuck
  BY CirclesAreMixed DEF GuideInv
<1> QED
  BY <1>1, <1>2, <1>3, PTL DEF GuideSpec
=============================================================================
