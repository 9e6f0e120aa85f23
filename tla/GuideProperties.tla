---------------------------- MODULE GuideProperties ----------------------------
(***************************************************************************)
(* What guide assignment must keep to, whatever runs beside it.            *)
(***************************************************************************)
EXTENDS GuideAssignment

(* No guide has active assignments to two bookings whose departures        *)
(* overlap, though the assignments of other sessions that have checked the *)
(* schedule are invisible until they commit.                               *)
NoDoubleBookedGuide ==
  \A trip \in Trip : assigned[trip] # Nobody => Free(assigned[trip], trip)

\* Sessions each of which waits for another of them: none of them ever moves.
Stuck(group) ==
  /\ group # {}
  /\ \A i \in group : \E j \in group : WaitsFor(i, j)

(* Guide assignments alone never deadlock, whatever bookings, guides and   *)
(* keys they are for, and neither do checkout procedures: it takes a call  *)
(* of each kind to close a circle.                                         *)
OnlyMixedCallsGetStuck ==
  \A group \in SUBSET Session :
    Stuck(group) => {session[i].work : i \in group} = {"assign", "checkout"}

(* No deadlock at all, as there would be none if "lock order is always     *)
(* idempotency row -> quote/departure -> booking -> hold/payment row"      *)
(* (docs/superpowers/plans/2026-08-23-localens-data-foundation.md:24): one *)
(* order for all calls leaves no circle.  Guide assignment takes the       *)
(* booking before its departure.                                           *)
NoCallGetsStuck == \A group \in SUBSET Session : ~Stuck(group)
=============================================================================
