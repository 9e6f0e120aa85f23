------------------------------- MODULE DemoProofs -------------------------------
(***************************************************************************)
(* Proofs about the two stores of the demonstration, for any number of     *)
(* tabs, identities, requests and keys: a local booking is paid once and   *)
(* for good, and the portal's envelope keeps the rules of its reader.      *)
(***************************************************************************)
EXTENDS DemoProperties, FiniteSetTheorems, TLAPS

-----------------------------------------------------------------------------
\* The local booking

Outcome == {"pending", "succeeded", "failed", "cancelled", "expired"}

Attempt == [key : Nat, expires : Nat, by : Tab, outcome : Outcome]

LocalBooking == [status : {"absent", "held", "paid"}, hold : Nat, session : Nat,
                 attempts : Seq(Attempt)]

TabState == [seen : Nat \cup {None}, key : Nat \cup {None},
             phase : {"idle", "processing", "success"} \cup Failures,
             error : {"none", "generic", "holdExpired", "sessionExpired"},
             timer : {None, "succeeded", "failed"}]

(* A booking is paid by its one attempt that succeeded, and no attempt     *)
(* outlives the payment session, which ends with the hold at the latest.   *)
BookingIsSound(booking) ==
  /\ booking \in LocalBooking
  /\ booking.session <= booking.hold
  /\ Len(booking.attempts) <= AttemptLimit
  /\ booking.status = "absent" => booking = NoBooking
  /\ booking.status = "paid" <=> Successes(booking) # {}
  /\ Savable(booking)
  /\ \A i \in DOMAIN booking.attempts : booking.attempts[i].expires <= booking.session

LocalInv ==
  /\ minute \in 0 .. LastMinute
  /\ tab \in [Tab -> TabState]
  /\ portal \in [Tab -> {"absent", "pending_payment", "confirmed", "cancelled"}]
  /\ BookingIsSound(saved)
  /\ PortalConfirmsOnlyPaid

(* What no call may undo: a payment and the end of an attempt; and nothing *)
(* becomes paid after its hold or its session.                             *)
Continues(from, to) ==
  /\ from.status = "paid" => to.status = "paid"
  /\ DOMAIN from.attempts \subseteq DOMAIN to.attempts
  /\ \A i \in DOMAIN from.attempts :
       from.attempts[i].outcome # "pending" => to.attempts[i] = from.attempts[i]
  /\ from.status = "held" /\ to.status = "paid" => minute < from.hold /\ minute < from.session

LEMMA ContinuesItself ==
  ASSUME NEW booking, BookingIsSound(booking)
  PROVE  Continues(booking, booking)
BY DEF Continues

(* An attempt that is finished succeeds or does not; nothing else changes. *)
LEMMA FinishedAttempt ==
  ASSUME NEW booking \in LocalBooking, NEW i \in DOMAIN booking.attempts, NEW outcome \in Outcome,
         booking.attempts[i].outcome = "pending",
         NEW result, result = Finish(booking, i, outcome)
  PROVE  /\ result \in LocalBooking
         /\ result.status = booking.status /\ result.hold = booking.hold
         /\ result.session = booking.session
         /\ Len(result.attempts) = Len(booking.attempts)
         /\ DOMAIN result.attempts = DOMAIN booking.attempts
         /\ result.attempts[i] = [booking.attempts[i] EXCEPT !.outcome = outcome]
         /\ \A j \in DOMAIN booking.attempts \ {i} : result.attempts[j] = booking.attempts[j]
         /\ Successes(result) = Successes(booking) \cup (IF outcome = "succeeded" THEN {i} ELSE {})
<1>1. booking.attempts \in Seq(Attempt) /\ booking.attempts[i] \in Attempt
  BY DEF LocalBooking
<1>2. PICK a : a = [booking.attempts[i] EXCEPT !.outcome = outcome]
  OBVIOUS
<1>3. a \in Attempt /\ a.outcome = outcome
  BY <1>1, <1>2 DEF Attempt
<1>4. result = [booking EXCEPT !.attempts = [booking.attempts EXCEPT ![i] = a]]
  BY <1>2 DEF Finish
<1>5. PICK attempts : attempts = [booking.attempts EXCEPT ![i] = a]
  OBVIOUS
<1>6. /\ attempts \in Seq(Attempt) /\ Len(attempts) = Len(booking.attempts)
      /\ DOMAIN attempts = DOMAIN booking.attempts /\ attempts[i] = a
      /\ \A j \in DOMAIN booking.attempts \ {i} : attempts[j] = booking.attempts[j]
  BY <1>1, <1>3, <1>5
<1>7. /\ result \in LocalBooking /\ result.attempts = attempts
      /\ result.status = booking.status /\ result.hold = booking.hold
      /\ result.session = booking.session
  BY <1>4, <1>5, <1>6 DEF LocalBooking
<1>8. Successes(result) = Successes(booking) \cup (IF outcome = "succeeded" THEN {i} ELSE {})
  BY <1>3, <1>6, <1>7 DEF Successes
<1> QED
  BY <1>2, <1>6, <1>7, <1>8

(* An attempt that ends without success leaves the booking as paid as it was. *)
LEMMA FailingKeepsSound ==
  ASSUME NEW booking, BookingIsSound(booking), NEW i \in DOMAIN booking.attempts,
         NEW outcome \in {"failed", "cancelled", "expired"},
         booking.attempts[i].outcome = "pending",
         NEW result, result = Finish(booking, i, outcome)
  PROVE  /\ BookingIsSound(result) /\ Continues(booking, result)
         /\ result.status = booking.status
<1>1. booking \in LocalBooking /\ outcome \in Outcome /\ outcome # "succeeded"
  BY DEF BookingIsSound, Outcome
<1>2. /\ result \in LocalBooking
      /\ result.status = booking.status /\ result.hold = booking.hold
      /\ result.session = booking.session
      /\ Len(result.attempts) = Len(booking.attempts)
      /\ DOMAIN result.attempts = DOMAIN booking.attempts
      /\ result.attempts[i] = [booking.attempts[i] EXCEPT !.outcome = outcome]
      /\ \A j \in DOMAIN booking.attempts \ {i} : result.attempts[j] = booking.attempts[j]
      /\ Successes(result) = Successes(booking) \cup (IF outcome = "succeeded" THEN {i} ELSE {})
  BY <1>1, FinishedAttempt
<1>3. result.attempts[i].expires = booking.attempts[i].expires
  <2>1. PICK a \in Attempt : a = booking.attempts[i]
    BY <1>1 DEF LocalBooking
  <2> QED
    BY <1>2, <2>1 DEF Attempt
<1>6. Successes(result) = Successes(booking)
  BY <1>1, <1>2
<1>4. booking.status # "absent"
  BY DEF BookingIsSound, NoBooking
<1>5. BookingIsSound(result)
  BY <1>2, <1>3, <1>4, <1>6 DEF BookingIsSound, Savable
<1> QED
  BY <1>2, <1>5 DEF Continues

(* An attempt that ends settles the booking, in time if it pays for it.    *)
LEMMA SettlingKeepsSound ==
  ASSUME NEW booking, BookingIsSound(booking), NEW i \in DOMAIN booking.attempts,
         NEW outcome \in {"succeeded", "failed", "cancelled"},
         booking.attempts[i].outcome = "pending", minute \in Nat, minute < booking.hold,
         NEW result, result = Settled(booking, i, outcome), Savable(result)
  PROVE  /\ BookingIsSound(result) /\ Continues(booking, result)
         /\ outcome # "succeeded" => result.status = booking.status
<1>1. PICK end : end = IF minute >= booking.attempts[i].expires THEN "expired" ELSE outcome
  OBVIOUS
<1>2. booking \in LocalBooking /\ end \in Outcome
  BY <1>1 DEF BookingIsSound, Outcome
<1>3. PICK finished : finished = Finish(booking, i, end)
  OBVIOUS
<1>4. /\ finished \in LocalBooking
      /\ finished.status = booking.status /\ finished.hold = booking.hold
      /\ finished.session = booking.session
      /\ Len(finished.attempts) = Len(booking.attempts)
      /\ DOMAIN finished.attempts = DOMAIN booking.attempts
      /\ finished.attempts[i] = [booking.attempts[i] EXCEPT !.outcome = end]
      /\ \A j \in DOMAIN booking.attempts \ {i} : finished.attempts[j] = booking.attempts[j]
      /\ Successes(finished) = Successes(booking) \cup (IF end = "succeeded" THEN {i} ELSE {})
  BY <1>2, <1>3, FinishedAttempt
<1>5. result = [finished EXCEPT !.status = IF Successes(finished) # {} THEN "paid" ELSE "held"]
  BY <1>1, <1>3 DEF Settled
<1>6. /\ result \in LocalBooking /\ result.hold = booking.hold /\ result.session = booking.session
      /\ result.attempts = finished.attempts
      /\ result.status = IF Successes(finished) # {} THEN "paid" ELSE "held"
  BY <1>4, <1>5 DEF LocalBooking
<1>7. Successes(result) = Successes(finished)
  BY <1>6 DEF Successes
<1>8. /\ booking.attempts[i] \in Attempt
      /\ result.attempts[i].expires = booking.attempts[i].expires
  <2>1. PICK a \in Attempt : a = booking.attempts[i]
    BY <1>2 DEF LocalBooking
  <2> QED
    BY <1>4, <1>6, <2>1 DEF Attempt
<1>9. booking.status \in {"held", "paid"}
  BY <1>2 DEF BookingIsSound, NoBooking, LocalBooking
<1>10. BookingIsSound(result)
  BY <1>4, <1>6, <1>7, <1>8 DEF BookingIsSound
<1>11. end # "succeeded" => result.status = booking.status
  BY <1>4, <1>6, <1>9 DEF BookingIsSound
<1>12. end = "succeeded" => minute < booking.session
  BY <1>1, <1>2, <1>8 DEF BookingIsSound, LocalBooking, Attempt
<1>13. Continues(booking, result)
  <2>1. booking.status = "paid" => result.status = "paid"
    BY <1>4, <1>6 DEF BookingIsSound
  <2>2. booking.status = "held" /\ result.status = "paid" => minute < booking.hold /\ minute < booking.session
    BY <1>11, <1>12
  <2> QED
    BY <1>4, <1>6, <2>1, <2>2 DEF Continues
<1> QED
  BY <1>1, <1>10, <1>11, <1>13

LEMMA FirstOfPrior ==
  ASSUME NEW booking, NEW key, Prior(booking, key) # {}
  PROVE  (CHOOSE i \in Prior(booking, key) : TRUE) \in DOMAIN booking.attempts
BY DEF Prior

(* A call that ends an attempt is answered with a sound booking, or throws. *)
LEMMA FinalizedIsSound ==
  ASSUME NEW booking, BookingIsSound(booking), NEW key,
         NEW outcome \in {"succeeded", "failed", "cancelled"}, minute \in Nat,
         NEW answer, answer = Finalized(booking, key, outcome)
  PROVE  \/ answer.error # "none" /\ answer.booking = saved
         \/ /\ BookingIsSound(answer.booking) /\ Continues(booking, answer.booking)
            /\ outcome # "succeeded" => answer.booking.status = booking.status
<1>1. PICK i : i = CHOOSE j \in Prior(booking, key) : TRUE
  OBVIOUS
<1>2. CASE answer = Thrown("generic") \/ answer = Thrown("holdExpired")
  BY <1>2 DEF Thrown
<1>3. CASE answer = Answer(booking)
  BY <1>3, ContinuesItself DEF Answer
<1>4. CASE /\ Prior(booking, key) # {} /\ booking.attempts[i].outcome = "pending"
           /\ ~ (minute >= booking.hold) /\ Savable(Settled(booking, i, outcome))
           /\ answer = Answer(Settled(booking, i, outcome))
  <2>1. i \in DOMAIN booking.attempts
    BY <1>1, <1>4, FirstOfPrior
  <2>2. minute < booking.hold
    BY <1>4 DEF BookingIsSound, LocalBooking
  <2>3. PICK result : result = Settled(booking, i, outcome)
    OBVIOUS
  <2>4. answer.booking = result /\ Savable(result)
    BY <1>4, <2>3 DEF Answer
  <2> QED
    BY <1>4, <2>1, <2>2, <2>3, <2>4, SettlingKeepsSound
<1> QED
  BY <1>1, <1>2, <1>3, <1>4 DEF Finalized

(* An attempt that starts may prolong the session, to the hold at the most. *)
LEMMA SessionsOnlyGrow ==
  ASSUME NEW booking \in LocalBooking, booking.session <= booking.hold, minute \in Nat
  PROVE  /\ SessionEnd(booking) \in Nat
         /\ booking.session <= SessionEnd(booking) /\ SessionEnd(booking) <= booking.hold
BY LocalAssumption DEF LocalAssumption, SessionEnd, LocalBooking

LEMMA AddingKeepsSound ==
  ASSUME NEW booking, BookingIsSound(booking), minute \in Nat, minute < booking.hold,
         booking.status # "paid", Len(booking.attempts) < AttemptLimit,
         NEW key \in Nat, NEW t \in Tab, NEW result, result = WithAttempt(booking, key, t)
  PROVE  /\ BookingIsSound(result) /\ Continues(booking, result)
         /\ result.status = booking.status
<1>1. booking \in LocalBooking /\ booking.session <= booking.hold
  BY DEF BookingIsSound
<1>2. PICK end : end = SessionEnd(booking)
  OBVIOUS
<1>3. end \in Nat /\ booking.session <= end /\ end <= booking.hold
  BY <1>1, <1>2, SessionsOnlyGrow
<1>4. PICK a : a = [key |-> key, expires |-> end, by |-> t,
                    outcome |-> IF minute >= end THEN "expired" ELSE "pending"]
  OBVIOUS
<1>5. a \in Attempt /\ a.outcome # "succeeded" /\ a.expires = end
  BY <1>3, <1>4 DEF Attempt, Outcome
<1>6. result = [booking EXCEPT !.session = end, !.attempts = Append(@, a)]
  BY <1>2, <1>4 DEF WithAttempt
<1>7. PICK attempts : attempts = Append(booking.attempts, a)
  OBVIOUS
<1>8. /\ attempts \in Seq(Attempt) /\ Len(attempts) = Len(booking.attempts) + 1
      /\ booking.attempts \in Seq(Attempt) /\ Len(booking.attempts) \in Nat
      /\ attempts[Len(booking.attempts) + 1] = a
      /\ \A j \in 1 .. Len(booking.attempts) : attempts[j] = booking.attempts[j]
  BY <1>1, <1>5, <1>7 DEF LocalBooking
<1>9. /\ result \in LocalBooking /\ result.attempts = attempts
      /\ result.status = booking.status /\ result.hold = booking.hold
      /\ result.session = end
  BY <1>1, <1>3, <1>6, <1>7, <1>8 DEF LocalBooking
<1>10. /\ DOMAIN result.attempts = 1 .. Len(booking.attempts) + 1
       /\ DOMAIN booking.attempts = 1 .. Len(booking.attempts)
  BY <1>8, <1>9
<1>11. Successes(result) = Successes(booking)
  BY <1>5, <1>8, <1>9, <1>10 DEF Successes
<1>12. booking.status # "absent"
  BY DEF BookingIsSound, NoBooking
<1>13. \A i \in DOMAIN result.attempts : result.attempts[i].expires <= end
  <2> SUFFICES ASSUME NEW i \in DOMAIN result.attempts
               PROVE  result.attempts[i].expires <= end
    OBVIOUS
  <2>1. CASE i = Len(booking.attempts) + 1
    BY <2>1, <1>3, <1>5, <1>8, <1>9
  <2>2. CASE i \in DOMAIN booking.attempts
    <3>1. booking.attempts[i].expires <= booking.session /\ result.attempts[i] = booking.attempts[i]
      BY <2>2, <1>8, <1>9, <1>10 DEF BookingIsSound
    <3>2. PICK b \in Attempt : b = booking.attempts[i]
      BY <2>2, <1>8
    <3> QED
      BY <1>1, <1>3, <3>1, <3>2 DEF Attempt, LocalBooking
  <2> QED
    BY <2>1, <2>2, <1>8, <1>10
<1>14. AttemptLimit \in Nat
  BY LocalAssumption DEF LocalAssumption
<1>15. BookingIsSound(result)
  BY <1>3, <1>8, <1>9, <1>11, <1>12, <1>13, <1>14 DEF BookingIsSound, Savable
<1> QED
  BY <1>8, <1>9, <1>10, <1>15 DEF Continues

(* A call that starts an attempt never makes a booking paid.               *)
LEMMA StartedIsSound ==
  ASSUME BookingIsSound(saved), minute \in Nat, NEW key \in Nat, NEW t \in Tab,
         NEW answer, answer = Started(saved, key, t)
  PROVE  /\ BookingIsSound(answer.booking) /\ Continues(saved, answer.booking)
         /\ answer.booking.status = saved.status
<1>1. PICK i : i = CHOOSE j \in Prior(saved, key) : TRUE
  OBVIOUS
<1>2. CASE answer.booking = saved
  BY <1>2, ContinuesItself
<1>3. CASE /\ Prior(saved, key) # {} /\ saved.attempts[i].outcome = "pending"
           /\ answer.booking = Finish(saved, i, "expired")
  <2>1. i \in DOMAIN saved.attempts
    BY <1>1, <1>3, FirstOfPrior
  <2>2. PICK outcome \in {"failed", "cancelled", "expired"} : outcome = "expired"
    OBVIOUS
  <2>3. PICK result : result = Finish(saved, i, outcome)
    OBVIOUS
  <2>4. BookingIsSound(result) /\ Continues(saved, result) /\ result.status = saved.status
    BY <1>3, <2>1, <2>3, FailingKeepsSound
  <2> QED
    BY <1>3, <2>2, <2>3, <2>4
<1>4. CASE /\ minute < saved.hold /\ saved.status # "paid" /\ Len(saved.attempts) < AttemptLimit
           /\ answer.booking = WithAttempt(saved, key, t)
  <2>1. PICK result : result = WithAttempt(saved, key, t)
    OBVIOUS
  <2>2. BookingIsSound(result) /\ Continues(saved, result) /\ result.status = saved.status
    BY <1>4, <2>1, AddingKeepsSound
  <2> QED
    BY <1>4, <2>1, <2>2
<1>5. saved.hold \in Nat /\ Len(saved.attempts) \in Nat /\ AttemptLimit \in Nat
  BY LocalAssumption DEF LocalAssumption, BookingIsSound, LocalBooking
<1> QED
  BY <1>1, <1>2, <1>3, <1>4, <1>5 DEF Started, Answer, Thrown

(* The form resumes the booking or replaces an unpaid one by a fresh one.  *)
LEMMA CreatedIsSound ==
  ASSUME BookingIsSound(saved), minute \in Nat
  PROVE  /\ BookingIsSound(CreatedOrResumed)
         /\ \/ CreatedOrResumed = saved
            \/ /\ saved.status # "paid" /\ CreatedOrResumed.attempts = <<>>
               /\ CreatedOrResumed.status = "held"
<1>1. PICK fresh : fresh = NewBooking
  OBVIOUS
<1>2. fresh \in LocalBooking /\ fresh.session <= fresh.hold /\ fresh.attempts = <<>>
      /\ fresh.status = "held"
  BY <1>1, LocalAssumption DEF LocalAssumption, NewBooking, LocalBooking
<1>3. Successes(fresh) = {}
  BY <1>2 DEF Successes
<1>4. BookingIsSound(fresh)
  BY <1>2, <1>3, LocalAssumption DEF LocalAssumption, BookingIsSound, Savable
<1> QED
  BY <1>1, <1>2, <1>4 DEF CreatedOrResumed, StillActive

(* Cancelling starts an attempt and ends it: neither makes a booking paid. *)
LEMMA CancelledIsSound ==
  ASSUME BookingIsSound(saved), minute \in Nat, NEW key \in Nat, NEW t \in Tab,
         NEW started, started = Started(saved, key, t) \/ started = Answer(saved),
         NEW answer, answer = Finalized(started.booking, key, "cancelled"),
         answer.error = "none"
  PROVE  /\ BookingIsSound(answer.booking) /\ Continues(saved, answer.booking)
         /\ answer.booking.status = saved.status
<1>1. PICK booking : booking = started.booking
  OBVIOUS
<1>2. BookingIsSound(booking) /\ Continues(saved, booking) /\ booking.status = saved.status
  <2>1. CASE started = Started(saved, key, t)
    BY <1>1, <2>1, StartedIsSound
  <2>2. CASE started = Answer(saved)
    BY <1>1, <2>2, ContinuesItself DEF Answer
  <2> QED
    BY <2>1, <2>2
<1>3. PICK outcome \in {"succeeded", "failed", "cancelled"} : outcome = "cancelled"
  OBVIOUS
<1>4. answer = Finalized(booking, key, outcome)
  BY <1>1, <1>3
<1>5. /\ BookingIsSound(answer.booking) /\ Continues(booking, answer.booking)
      /\ answer.booking.status = booking.status
  BY <1>2, <1>3, <1>4, FinalizedIsSound
<1>6. Continues(saved, answer.booking)
  BY <1>2, <1>5 DEF Continues
<1> QED
  BY <1>2, <1>5, <1>6

-----------------------------------------------------------------------------
\* One step of a tab

(* What a step leaves of the saved booking: it goes on with it or replaces *)
(* one that is not paid.                                                   *)
Leaves(booking) ==
  /\ BookingIsSound(booking)
  /\ \/ Continues(saved, booking)
     \/ saved.status # "paid" /\ booking.attempts = <<>> /\ booking.status = "held"

(* A handover confirms a copy only for a paid booking.                     *)
LEMMA HandoverConfirmsOnlyPaid ==
  ASSUME portal \in [Tab -> {"absent", "pending_payment", "confirmed", "cancelled"}],
         NEW t \in Tab, NEW booking, SyncPortal(t, booking),
         PortalConfirmsOnlyPaid, saved.status = "paid" => booking.status = "paid"
  PROVE  /\ portal' \in [Tab -> {"absent", "pending_payment", "confirmed", "cancelled"}]
         /\ \A u \in Tab : portal'[u] = "confirmed" => booking.status = "paid"
BY DEF SyncPortal, SyncedStatus, Refused, PortalConfirmsOnlyPaid

LEMMA ShownIsTabState ==
  ASSUME tab \in [Tab -> TabState], NEW t \in Tab, NEW booking, BookingIsSound(booking),
         NEW phase \in {"idle", "processing", "success"} \cup Failures,
         NEW error \in {"none", "generic", "holdExpired", "sessionExpired"},
         Show(t, booking, phase, error)
  PROVE  tab' \in [Tab -> TabState]
<1>1. PICK n \in Nat : n = Len(booking.attempts)
  BY DEF BookingIsSound, LocalBooking
<1>2. tab' = [tab EXCEPT ![t] = [tab[t] EXCEPT !.seen = n, !.phase = phase, !.error = error,
                                               !.timer = None]]
  BY <1>1 DEF Show
<1>3. tab[t] \in TabState
  OBVIOUS
<1>4. [tab[t] EXCEPT !.seen = n, !.phase = phase, !.error = error, !.timer = None] \in TabState
  BY <1>1, <1>3 DEF TabState
<1> QED
  BY <1>2, <1>4

LEMMA ErrorIsTabState ==
  ASSUME tab \in [Tab -> TabState], NEW t \in Tab, NEW key \in Nat \cup {None},
         NEW error \in {"none", "generic", "holdExpired", "sessionExpired"},
         ShowError(t, key, error)
  PROVE  tab' \in [Tab -> TabState]
<1>1. tab[t] \in TabState
  OBVIOUS
<1>2. [tab[t] EXCEPT !.phase = "error", !.error = error, !.key = key, !.timer = None] \in TabState
  BY <1>1 DEF TabState, Failures
<1>3. tab' = [tab EXCEPT ![t] = [tab[t] EXCEPT !.phase = "error", !.error = error, !.key = key,
                                               !.timer = None]]
  BY DEF ShowError
<1> QED
  BY <1>2, <1>3

(* Every call that throws says one of the two reasons.                     *)
LEMMA ReasonsAreKnown ==
  ASSUME NEW booking, NEW key, NEW t, NEW outcome
  PROVE  /\ Started(booking, key, t).error \in {"none", "generic", "holdExpired"}
         /\ Finalized(booking, key, outcome).error \in {"none", "generic", "holdExpired"}
BY DEF Started, Finalized, Answer, Thrown

LEMMA SubmitStep ==
  ASSUME LocalInv, NEW t \in Tab, SubmitBooking(t)
  PROVE  /\ Leaves(saved') /\ tab' \in [Tab -> TabState]
         /\ portal' \in [Tab -> {"absent", "pending_payment", "confirmed", "cancelled"}]
         /\ \A u \in Tab : portal'[u] = "confirmed" => saved'.status = "paid"
<1>1. PICK booking : booking = CreatedOrResumed
  OBVIOUS
<1>2. /\ saved' = booking /\ SyncPortal(t, booking) /\ minute \in Nat
      /\ tab \in [Tab -> TabState] /\ BookingIsSound(saved) /\ PortalConfirmsOnlyPaid
      /\ portal \in [Tab -> {"absent", "pending_payment", "confirmed", "cancelled"}]
  BY <1>1, LocalAssumption DEF LocalAssumption, SubmitBooking, LocalInv
<1>3. /\ BookingIsSound(booking)
      /\ \/ booking = saved
         \/ saved.status # "paid" /\ booking.attempts = <<>> /\ booking.status = "held"
  BY <1>1, <1>2, CreatedIsSound
<1>4. Leaves(booking)
  BY <1>2, <1>3, ContinuesItself DEF Leaves
<1>5. /\ portal' \in [Tab -> {"absent", "pending_payment", "confirmed", "cancelled"}]
      /\ \A u \in Tab : portal'[u] = "confirmed" => booking.status = "paid"
  BY <1>2, <1>3, HandoverConfirmsOnlyPaid
<1>6. tab' \in [Tab -> TabState]
  <2>1. CASE tab' = tab
    BY <1>2, <2>1
  <2>2. PICK phase : phase = IF booking.status = "paid" THEN "success" ELSE "idle"
    OBVIOUS
  <2>3. CASE Show(t, booking, phase, "none")
    BY <1>2, <1>3, <2>2, <2>3, ShownIsTabState
  <2> QED
    BY <1>2, <2>1, <2>2, <2>3 DEF SubmitBooking
<1> QED
  BY <1>2, <1>4, <1>5, <1>6

LEMMA PaymentStep ==
  ASSUME LocalInv, NEW t \in Tab, NEW outcome \in {"succeeded", "failed"},
         RunPaymentOutcome(t, outcome)
  PROVE  /\ Leaves(saved') /\ tab' \in [Tab -> TabState]
         /\ portal' \in [Tab -> {"absent", "pending_payment", "confirmed", "cancelled"}]
         /\ \A u \in Tab : portal'[u] = "confirmed" => saved'.status = "paid"
<1>1. /\ minute \in Nat /\ tab \in [Tab -> TabState] /\ BookingIsSound(saved)
      /\ PortalConfirmsOnlyPaid
      /\ portal \in [Tab -> {"absent", "pending_payment", "confirmed", "cancelled"}]
  BY LocalAssumption DEF LocalAssumption, LocalInv
<1>2. PICK key \in Nat : key = NextKey(t)
  <2>1. tab[t] \in TabState /\ tab[t].seen # None
    BY <1>1 DEF RunPaymentOutcome
  <2> QED
    BY <2>1 DEF TabState, NextKey
<1>3. PICK answer : answer = Started(saved, key, t)
  OBVIOUS
<1>4. PICK booking : booking = answer.booking
  OBVIOUS
<1>5. /\ BookingIsSound(booking) /\ Continues(saved, booking)
      /\ booking.status = saved.status
  BY <1>1, <1>3, <1>4, StartedIsSound
<1>6. saved' = booking
  BY <1>2, <1>3, <1>4 DEF RunPaymentOutcome
<1>7. /\ portal' \in [Tab -> {"absent", "pending_payment", "confirmed", "cancelled"}]
      /\ \A u \in Tab : portal'[u] = "confirmed" => booking.status = "paid"
  <2>1. CASE portal' = portal
    BY <1>1, <1>5, <2>1 DEF PortalConfirmsOnlyPaid
  <2>2. CASE SyncPortal(t, booking)
    BY <1>1, <1>5, <2>2, HandoverConfirmsOnlyPaid
  <2> QED
    BY <1>6, <2>1, <2>2 DEF RunPaymentOutcome
<1>8. tab' \in [Tab -> TabState]
  <2>1. CASE ShowError(t, key, answer.error)
    <3>1. answer.error \in {"none", "generic", "holdExpired"}
      BY <1>3, ReasonsAreKnown
    <3> QED
      BY <1>1, <2>1, <3>1, ErrorIsTabState
  <2>2. PICK n \in Nat : n = Len(booking.attempts)
    BY <1>5 DEF BookingIsSound, LocalBooking
  <2>3. CASE tab' = [tab EXCEPT ![t] = [seen |-> n, phase |-> "expired",
                       error |-> "sessionExpired", key |-> key, timer |-> None]]
    BY <1>1, <1>2, <2>2, <2>3 DEF TabState, Failures
  <2>4. CASE tab' = [tab EXCEPT ![t].phase = "processing", ![t].error = "none",
                                ![t].key = key, ![t].timer = outcome]
    <3>1. tab[t] \in TabState
      BY <1>1
    <3>2. tab' = [tab EXCEPT ![t] = [tab[t] EXCEPT !.phase = "processing", !.error = "none",
                                                   !.key = key, !.timer = outcome]]
      BY <2>4
    <3>3. [tab[t] EXCEPT !.phase = "processing", !.error = "none", !.key = key,
                         !.timer = outcome] \in TabState
      BY <1>2, <3>1 DEF TabState
    <3> QED
      BY <1>1, <3>2, <3>3
  <2> QED
    BY <1>2, <1>3, <1>6, <2>1, <2>2, <2>3, <2>4 DEF RunPaymentOutcome
<1> QED
  BY <1>5, <1>6, <1>7, <1>8 DEF Leaves

LEMMA TimerStep ==
  ASSUME LocalInv, NEW t \in Tab, PaymentTimer(t)
  PROVE  /\ Leaves(saved') /\ tab' \in [Tab -> TabState]
         /\ portal' \in [Tab -> {"absent", "pending_payment", "confirmed", "cancelled"}]
         /\ \A u \in Tab : portal'[u] = "confirmed" => saved'.status = "paid"
<1>1. /\ minute \in Nat /\ tab \in [Tab -> TabState] /\ BookingIsSound(saved)
      /\ PortalConfirmsOnlyPaid
      /\ portal \in [Tab -> {"absent", "pending_payment", "confirmed", "cancelled"}]
  BY LocalAssumption DEF LocalAssumption, LocalInv
<1>2. tab[t] \in TabState /\ tab[t].timer # None
  BY <1>1 DEF PaymentTimer
<1>3. PICK key \in Nat \cup {None} : key = tab[t].key
  BY <1>2 DEF TabState
<1>4. PICK outcome \in {"succeeded", "failed", "cancelled"} : outcome = tab[t].timer
  BY <1>2 DEF TabState
<1>5. PICK answer : answer = Finalized(saved, key, outcome)
  OBVIOUS
<1>6. PICK booking : booking = answer.booking
  OBVIOUS
<1>7. saved' = booking
  BY <1>3, <1>4, <1>5, <1>6 DEF PaymentTimer
<1>8. BookingIsSound(booking) /\ Continues(saved, booking)
  <2>1. \/ answer.error # "none" /\ booking = saved
        \/ BookingIsSound(booking) /\ Continues(saved, booking)
    BY <1>1, <1>5, <1>6, FinalizedIsSound
  <2> QED
    BY <1>1, <2>1, ContinuesItself
<1>9. saved.status = "paid" => booking.status = "paid"
  BY <1>8 DEF Continues
<1>10. /\ portal' \in [Tab -> {"absent", "pending_payment", "confirmed", "cancelled"}]
       /\ \A u \in Tab : portal'[u] = "confirmed" => booking.status = "paid"
  <2>1. CASE portal' = portal
    BY <1>1, <1>9, <2>1 DEF PortalConfirmsOnlyPaid
  <2>2. CASE SyncPortal(t, booking)
    BY <1>1, <1>9, <2>2, HandoverConfirmsOnlyPaid
  <2> QED
    BY <1>7, <2>1, <2>2 DEF PaymentTimer
<1>11. tab' \in [Tab -> TabState]
  <2>1. CASE ShowError(t, key, answer.error)
    <3>1. answer.error \in {"none", "generic", "holdExpired"}
      BY <1>5, ReasonsAreKnown
    <3> QED
      BY <1>1, <2>1, <3>1, ErrorIsTabState
  <2>2. CASE ShowError(t, key, "generic")
    BY <1>1, <2>2, ErrorIsTabState
  <2>3. CASE Show(t, booking, "expired", "sessionExpired")
    BY <1>1, <1>8, <2>3, ShownIsTabState DEF Failures
  <2>4. PICK phase : phase = IF tab[t].timer = "succeeded" THEN "success" ELSE "failed"
    OBVIOUS
  <2>5. CASE Show(t, booking, phase, tab[t].error)
    <3>1. /\ phase \in {"idle", "processing", "success"} \cup Failures
          /\ tab[t].error \in {"none", "generic", "holdExpired", "sessionExpired"}
      BY <1>2, <2>4 DEF Failures, TabState
    <3> QED
      BY <1>1, <1>8, <2>5, <3>1, ShownIsTabState
  <2> QED
    BY <1>3, <1>4, <1>5, <1>7, <2>1, <2>2, <2>3, <2>4, <2>5 DEF PaymentTimer
<1> QED
  BY <1>7, <1>8, <1>10, <1>11 DEF Leaves

LEMMA CancelStep ==
  ASSUME LocalInv, NEW t \in Tab, CancelCheckout(t)
  PROVE  /\ Leaves(saved') /\ tab' \in [Tab -> TabState]
         /\ portal' \in [Tab -> {"absent", "pending_payment", "confirmed", "cancelled"}]
         /\ \A u \in Tab : portal'[u] = "confirmed" => saved'.status = "paid"
<1>1. /\ minute \in Nat /\ tab \in [Tab -> TabState] /\ BookingIsSound(saved)
      /\ PortalConfirmsOnlyPaid
      /\ portal \in [Tab -> {"absent", "pending_payment", "confirmed", "cancelled"}]
  BY LocalAssumption DEF LocalAssumption, LocalInv
<1>2. tab[t] \in TabState /\ tab[t].seen # None
  BY <1>1 DEF CancelCheckout
<1>3. PICK key \in Nat : key = IF tab[t].key = None THEN NextKey(t) ELSE tab[t].key
  BY <1>2 DEF TabState, NextKey
<1>4. PICK started : started = IF tab[t].key = None THEN Started(saved, key, t) ELSE Answer(saved)
  OBVIOUS
<1>5. PICK ended : ended = Finalized(started.booking, key, "cancelled")
  OBVIOUS
<1>6. PICK answer : answer = IF started.error # "none" THEN started ELSE ended
  OBVIOUS
<1>7. PICK booking : booking = IF answer.error # "none" THEN started.booking ELSE answer.booking
  OBVIOUS
<1>8. /\ saved' = booking
      /\ IF answer.error # "none" THEN ShowError(t, tab[t].key, answer.error) /\ UNCHANGED portal
         ELSE SyncPortal(t, booking) /\ Show(t, booking, "cancelled", "none")
  BY <1>3, <1>4, <1>5, <1>6, <1>7 DEF CancelCheckout
<1>9. /\ BookingIsSound(started.booking) /\ Continues(saved, started.booking)
      /\ started.booking.status = saved.status
  <2>1. CASE started = Started(saved, key, t)
    BY <1>1, <2>1, StartedIsSound
  <2>2. CASE started = Answer(saved)
    BY <1>1, <2>2, ContinuesItself DEF Answer
  <2> QED
    BY <1>4, <2>1, <2>2
<1>10. /\ BookingIsSound(booking) /\ Continues(saved, booking)
       /\ booking.status = saved.status
  <2>1. CASE answer.error # "none"
    BY <1>7, <1>9, <2>1
  <2>2. CASE answer.error = "none"
    <3>1. answer = ended
      BY <1>6, <2>2
    <3>2. started = Started(saved, key, t) \/ started = Answer(saved)
      BY <1>4
    <3> QED
      BY <1>1, <1>5, <1>7, <2>2, <3>1, <3>2, CancelledIsSound
  <2> QED
    BY <2>1, <2>2
<1>11. /\ portal' \in [Tab -> {"absent", "pending_payment", "confirmed", "cancelled"}]
       /\ \A u \in Tab : portal'[u] = "confirmed" => booking.status = "paid"
  <2>1. CASE portal' = portal
    BY <1>1, <1>10, <2>1 DEF PortalConfirmsOnlyPaid
  <2>2. CASE SyncPortal(t, booking)
    BY <1>1, <1>10, <2>2, HandoverConfirmsOnlyPaid
  <2> QED
    BY <1>8, <2>1, <2>2
<1>12. tab' \in [Tab -> TabState]
  <2>1. CASE ShowError(t, tab[t].key, answer.error)
    <3>1. answer.error \in {"none", "generic", "holdExpired"}
      <4>1. Answer(saved).error = "none"
        BY DEF Answer
      <4> QED
        BY <1>4, <1>5, <1>6, <4>1, ReasonsAreKnown
    <3>2. tab[t].key \in Nat \cup {None}
      BY <1>2 DEF TabState
    <3> QED
      BY <1>1, <2>1, <3>1, <3>2, ErrorIsTabState
  <2>2. CASE Show(t, booking, "cancelled", "none")
    BY <1>1, <1>10, <2>2, ShownIsTabState DEF Failures
  <2> QED
    BY <1>8, <2>1, <2>2
<1> QED
  BY <1>8, <1>10, <1>11, <1>12 DEF Leaves

-----------------------------------------------------------------------------
\* The local checkout as a whole

LEMMA LocalInitially == LocalInit => LocalInv
<1> SUFFICES ASSUME LocalInit
             PROVE  LocalInv
  OBVIOUS
<1>1. minute \in 0 .. LastMinute
  BY LocalAssumption DEF LocalAssumption, LocalInit
<1>2. ClosedTab \in TabState
  BY DEF ClosedTab, TabState
<1>3. NoBooking \in LocalBooking /\ NoBooking.attempts = <<>> /\ NoBooking.status = "absent"
      /\ NoBooking.session = 0 /\ NoBooking.hold = 0
  BY DEF NoBooking, LocalBooking
<1>4. Successes(NoBooking) = {}
  BY <1>3 DEF Successes
<1>5. BookingIsSound(NoBooking)
  BY <1>3, <1>4, LocalAssumption DEF LocalAssumption, BookingIsSound, Savable
<1> QED
  BY <1>1, <1>2, <1>5 DEF LocalInit, LocalInv, PortalConfirmsOnlyPaid

(* A step keeps the invariant, and of the saved booking what Leaves says.  *)
LEMMA LocalStep ==
  ASSUME LocalInv, [LocalNext]_localVars
  PROVE  LocalInv' /\ Leaves(saved')
<1>1. /\ minute \in 0 .. LastMinute /\ tab \in [Tab -> TabState] /\ BookingIsSound(saved)
      /\ PortalConfirmsOnlyPaid
      /\ portal \in [Tab -> {"absent", "pending_payment", "confirmed", "cancelled"}]
  BY DEF LocalInv
<1>2. Leaves(saved)
  BY <1>1, ContinuesItself DEF Leaves
<1>3. ASSUME /\ Leaves(saved') /\ tab' \in [Tab -> TabState] /\ minute' = minute
             /\ portal' \in [Tab -> {"absent", "pending_payment", "confirmed", "cancelled"}]
             /\ \A u \in Tab : portal'[u] = "confirmed" => saved'.status = "paid"
      PROVE  LocalInv' /\ Leaves(saved')
  <2>1. BookingIsSound(saved')
    BY <1>3 DEF Leaves
  <2> QED
    BY <1>1, <1>3, <2>1 DEF LocalInv, PortalConfirmsOnlyPaid, BookingIsSound, Savable, Successes
<1>4. ASSUME NEW t \in Tab, SubmitBooking(t)
      PROVE  LocalInv' /\ Leaves(saved')
  <2>1. minute' = minute
    BY <1>4 DEF SubmitBooking
  <2> QED
    BY <1>3, <1>4, <2>1, SubmitStep
<1>5. ASSUME NEW t \in Tab, NEW outcome \in {"succeeded", "failed"}, RunPaymentOutcome(t, outcome)
      PROVE  LocalInv' /\ Leaves(saved')
  <2>1. minute' = minute
    BY <1>5 DEF RunPaymentOutcome
  <2> QED
    BY <1>3, <1>5, <2>1, PaymentStep
<1>6. ASSUME NEW t \in Tab, PaymentTimer(t)
      PROVE  LocalInv' /\ Leaves(saved')
  <2>1. minute' = minute
    BY <1>6 DEF PaymentTimer
  <2> QED
    BY <1>3, <1>6, <2>1, TimerStep
<1>7. ASSUME NEW t \in Tab, CancelCheckout(t)
      PROVE  LocalInv' /\ Leaves(saved')
  <2>1. minute' = minute
    BY <1>7 DEF CancelCheckout
  <2> QED
    BY <1>3, <1>7, <2>1, CancelStep
<1>8. ASSUME NEW t \in Tab, RetryPayment(t)
      PROVE  LocalInv' /\ Leaves(saved')
  <2>1. tab[t] \in TabState
    BY <1>1
  <2>2. [ClosedTab EXCEPT !.key = tab[t].key] \in TabState
    BY <2>1 DEF ClosedTab, TabState
  <2>3. [tab[t] EXCEPT !.phase = "idle", !.error = "none", !.key = None] \in TabState
    BY <2>1 DEF TabState
  <2>4. tab' \in [Tab -> TabState]
    BY <1>1, <1>8, <2>2, <2>3 DEF RetryPayment
  <2> QED
    BY <1>1, <1>2, <1>3, <1>8, <2>4 DEF RetryPayment, PortalConfirmsOnlyPaid
<1>9. ASSUME NEW t \in Tab, LeavePage(t)
      PROVE  LocalInv' /\ Leaves(saved')
  <2>1. ClosedTab \in TabState
    BY DEF ClosedTab, TabState
  <2> QED
    BY <1>1, <1>2, <1>3, <1>9, <2>1 DEF LeavePage, PortalConfirmsOnlyPaid
<1>10. ASSUME NEW t \in Tab, CancelInPortal(t) \/ ResetPortal(t)
       PROVE  LocalInv' /\ Leaves(saved')
  BY <1>1, <1>2, <1>3, <1>10 DEF CancelInPortal, ResetPortal, PortalConfirmsOnlyPaid
<1>11. ASSUME MinutePasses
       PROVE  LocalInv' /\ Leaves(saved')
  <2>1. minute' \in 0 .. LastMinute
    BY <1>1, <1>11, LocalAssumption DEF LocalAssumption, MinutePasses
  <2> QED
    BY <1>1, <1>2, <1>11, <2>1
       DEF MinutePasses, LocalInv, PortalConfirmsOnlyPaid, BookingIsSound, Savable, Successes
<1>12. ASSUME UNCHANGED localVars
       PROVE  LocalInv' /\ Leaves(saved')
  BY <1>1, <1>2, <1>12
     DEF localVars, LocalInv, PortalConfirmsOnlyPaid, BookingIsSound, Savable, Successes
<1> QED
  BY <1>4, <1>5, <1>6, <1>7, <1>8, <1>9, <1>10, <1>11, <1>12 DEF LocalNext

(* What a step leaves is what SettledIsFinal asks for.                     *)
LEMMA LeavingIsFinal ==
  ASSUME LocalInv, Leaves(saved')
  PROVE  /\ saved.status = "paid" => saved'.status = "paid"
         /\ \/ saved.status # "paid" /\ saved'.attempts = <<>>
            \/ \A i \in DOMAIN saved.attempts :
                 saved.attempts[i].outcome # "pending" => saved'.attempts[i] = saved.attempts[i]
         /\ saved.status = "held" /\ saved'.status = "paid" =>
              minute < saved.hold /\ minute < saved.session
BY DEF Leaves, Continues

LEMMA LocalInvariant == LocalSpec => []LocalInv
<1>1. LocalInv /\ [LocalNext]_localVars => LocalInv'
  BY LocalStep
<1> QED
  BY LocalInitially, <1>1, PTL DEF LocalSpec

(* The portal of a tab, which is stored apart from the booking, shows it as *)
(* confirmed only when it is paid (hand-over of the booking flow).         *)
THEOREM PortalsConfirmOnlyPaid == LocalSpec => []PortalConfirmsOnlyPaid
<1>1. LocalInv => PortalConfirmsOnlyPaid
  BY DEF LocalInv
<1> QED
  BY LocalInvariant, <1>1, PTL

(* Whatever the tabs do in whatever order, a payment and the end of an     *)
(* attempt are final and a payment is in time (local booking repository).  *)
THEOREM SettledPaymentsAreFinal == LocalSpec => SettledIsFinal
<1>1. LocalInv /\ [LocalNext]_localVars =>
        [/\ saved.status = "paid" => saved'.status = "paid"
         /\ \/ saved.status # "paid" /\ saved'.attempts = <<>>
            \/ \A i \in DOMAIN saved.attempts :
                 saved.attempts[i].outcome # "pending" => saved'.attempts[i] = saved.attempts[i]
         /\ saved.status = "held" /\ saved'.status = "paid" =>
              minute < saved.hold /\ minute < saved.session]_saved
  BY LocalStep, LeavingIsFinal
<1> QED
  BY LocalInvariant, <1>1, PTL DEF LocalSpec, SettledIsFinal

-----------------------------------------------------------------------------
\* The portal's envelope

(* An identifier says what the booking is, and a quote what it is for.     *)
KindsFit(s) ==
  /\ \A u \in User : s.bookings[FixedId(u)] # None => s.bookings[FixedId(u)].source = "departure"
  /\ \A r \in Request : s.bookings[QuoteId(r)] # None =>
       /\ s.bookings[QuoteId(r)].source = "quote" /\ s.bookings[QuoteId(r)].request # None
       /\ s.bookings[QuoteId(r)].request.id = r
  /\ \A r \in Request : s.requests[r] # None => s.requests[r].id = r

\* QuotesAreForApprovedRequests of any envelope.
QuotesHold(s) == \A r \in Request :
  LET booking == s.bookings[QuoteId(r)] IN
    booking # None =>
      /\ s.requests[r].status = "approved"
      /\ booking.payment = "paid" => booking.accepted \in booking.created .. booking.expires - 1

Sound(s) ==
  /\ s \in Envelope
  /\ OtherReferencesHold(s) /\ KeysAreUnique(s)
  /\ KindsFit(s) /\ QuotesHold(s)

PortalInv ==
  /\ clock \in 0 .. MaxTime
  /\ store = None \/ Sound(store)

LEMMA IdentifiersDiffer ==
  /\ \A u \in User, r \in Request : FixedId(u) # QuoteId(r)
  /\ \A u, v \in User : FixedId(u) = FixedId(v) => u = v
  /\ \A q, r \in Request : QuoteId(q) = QuoteId(r) => q = r
BY DEF FixedId, QuoteId

LEMMA SeededDiffer ==
  /\ \A n \in {"completed", "cancellation", "secondary", "personalized"} : Seeded(n) \in Booking
  /\ \A n, o : Seeded(n) = Seeded(o) => n = o
BY DEF Seeded, Booking

(* What is set is a record.                                                *)
LEMMA SetMeansRecord ==
  ASSUME NEW s \in Envelope
  PROVE  /\ \A b \in Bookings(s) : s.bookings[b] \in BookingRecord
         /\ \A r \in Requests(s) : s.requests[r] \in RequestRecord
         /\ \A b \in Assigned(s) : s.assignments[b] \in User
BY DEF Envelope, Bookings, Requests, Assigned

-----------------------------------------------------------------------------
\* The fixture

LEMMA FixtureRequestIsRecord == SeededRequest \in RequestRecord
BY PortalAssumption DEF PortalAssumption, SeededRequest, NewRequestRecord, RequestRecord, Request, User

LEMMA FixtureBookingsAre ==
  /\ FixtureBookings[Seeded("completed")] =
       [DepartureBooking("customer", "completed", "completed", "paid") EXCEPT !.guide = "guide"]
  /\ FixtureBookings[Seeded("cancellation")] =
       DepartureBooking("customer", "cancellation", "pending_payment", None)
  /\ FixtureBookings[Seeded("secondary")] =
       DepartureBooking("customer2", "secondary", "confirmed", "paid")
  /\ FixtureBookings[Seeded("personalized")] = QuoteBooking(SeededRequest, "confirmed", "paid", 0, 0)
  /\ \A b \in Booking :
       \/ b \in {Seeded("completed"), Seeded("cancellation"), Seeded("secondary"), Seeded("personalized")}
       \/ FixtureBookings[b] = None
  /\ \A b : b \in {Seeded("completed"), Seeded("cancellation"), Seeded("secondary"), Seeded("personalized")}
            => b \in Booking
<1>1. /\ Seeded("completed") # Seeded("cancellation") /\ Seeded("completed") # Seeded("secondary")
      /\ Seeded("completed") # Seeded("personalized") /\ Seeded("cancellation") # Seeded("secondary")
      /\ Seeded("cancellation") # Seeded("personalized") /\ Seeded("secondary") # Seeded("personalized")
  BY SeededDiffer
<1>2. \A n \in {"completed", "cancellation", "secondary", "personalized"} : Seeded(n) \in Booking
  BY SeededDiffer
<1> QED
  BY <1>1, <1>2 DEF FixtureBookings

LEMMA FixtureRecords ==
  /\ FixtureBookings \in [Booking -> BookingRecord \cup {None}]
  /\ \A b \in Booking : FixtureBookings[b] # None =>
       b \in {Seeded("completed"), Seeded("cancellation"), Seeded("secondary"), Seeded("personalized")}
<1>1. SeededRequest \in RequestRecord /\ SeededRequest.owner = "customer" /\ SeededRequest.total = 1
  BY FixtureRequestIsRecord DEF SeededRequest, NewRequestRecord
<1>2. DepartureBooking("customer", "completed", "completed", "paid") \in BookingRecord
  BY DEF DepartureBooking, BookingRecord, User, FixedDeparture
<1>3. [DepartureBooking("customer", "completed", "completed", "paid") EXCEPT !.guide = "guide"] \in BookingRecord
  BY <1>2 DEF BookingRecord, User
<1>4. DepartureBooking("customer", "cancellation", "pending_payment", None) \in BookingRecord
  BY DEF DepartureBooking, BookingRecord, User, FixedDeparture
<1>5. DepartureBooking("customer2", "secondary", "confirmed", "paid") \in BookingRecord
  BY DEF DepartureBooking, BookingRecord, User, FixedDeparture
<1>6. QuoteBooking(SeededRequest, "confirmed", "paid", 0, 0) \in BookingRecord
  BY <1>1, PortalAssumption DEF PortalAssumption, QuoteBooking, BookingRecord, User
<1>7. FixtureBookings = [b \in Booking |-> FixtureBookings[b]]
  BY DEF FixtureBookings
<1>8. \A b \in Booking : FixtureBookings[b] \in BookingRecord \cup {None}
  BY <1>3, <1>4, <1>5, <1>6, FixtureBookingsAre
<1> QED
  BY <1>7, <1>8, FixtureBookingsAre

LEMMA FixtureFields ==
  /\ Fixture.session = None /\ Fixture.role = FixtureRole
  /\ Fixture.requests = [r \in Request |-> IF r = "seeded" THEN SeededRequest ELSE None]
  /\ Fixture.bookings = FixtureBookings
  /\ Fixture.cancellations = {} /\ Fixture.reviews = {}
  /\ Fixture.assignments = [b \in Booking |-> IF b = Seeded("completed") THEN "guide" ELSE None]
  /\ Fixture.departures = {"completed", "cancellation", "secondary"}
  /\ FixtureRole \in [User -> Role]
  /\ FixtureRole["customer"] = "customer" /\ FixtureRole["customer2"] = "customer"
  /\ FixtureRole["guide"] = "guide" /\ FixtureRole["admin"] = "admin"
<1>1. \A u \in User : FixtureRole[u] = CASE u \in {"customer", "customer2"} -> "customer"
                                         [] u \in {"guide", "guide2"} -> "guide"
                                         [] OTHER -> "admin"
  BY DEF FixtureRole
<1> QED
  BY <1>1 DEF Fixture, FixtureRole, User, Role

LEMMA FixtureIsEnvelope == Fixture \in Envelope
<1>1. Fixture.requests \in [Request -> RequestRecord \cup {None}]
  BY FixtureFields, FixtureRequestIsRecord
<1>2. Fixture.assignments \in [Booking -> User \cup {None}]
  BY FixtureFields DEF User
<1>3. /\ Fixture.bookings \in [Booking -> BookingRecord \cup {None}]
      /\ Fixture.role \in [User -> Role] /\ Fixture.session \in User \cup {None}
      /\ Fixture.cancellations \in SUBSET Cancellation /\ Fixture.reviews \in SUBSET Review
      /\ Fixture.departures \in SUBSET FixedDeparture
  BY FixtureFields, FixtureRecords DEF FixedDeparture
<1>4. Fixture = [session |-> Fixture.session, role |-> Fixture.role, requests |-> Fixture.requests,
                 bookings |-> Fixture.bookings, cancellations |-> Fixture.cancellations,
                 reviews |-> Fixture.reviews, assignments |-> Fixture.assignments,
                 departures |-> Fixture.departures]
  BY DEF Fixture
<1> QED
  BY <1>1, <1>2, <1>3, <1>4 DEF Envelope

LEMMA FixtureReferencesHold == OtherReferencesHold(Fixture)
<1>1. EveryRoleIsHeld(Fixture)
  BY FixtureFields DEF EveryRoleIsHeld, Role, User
<1>2. \A r \in Requests(Fixture) : DecidedOnceReviewed(Fixture.requests[r])
  BY FixtureFields DEF Requests, DecidedOnceReviewed, SeededRequest, NewRequestRecord
<1>3. \A u \in User : HasRole(Fixture, u, "customer") <=> FixtureRole[u] = "customer"
  BY FixtureFields, PortalAssumption DEF PortalAssumption, HasRole
<1>4. BookingReferencesHold(Fixture)
  <2> SUFFICES ASSUME NEW b \in Bookings(Fixture), NEW booking, booking = Fixture.bookings[b]
               PROVE  /\ HasRole(Fixture, booking.owner, "customer")
                      /\ IF booking.source = "departure" THEN DepartureReferencesHold(Fixture, booking)
                                                         ELSE QuoteReferencesHold(Fixture, booking)
                      /\ booking.guide # None => HasRole(Fixture, booking.guide, "guide")
                      /\ booking.guide = Fixture.assignments[b]
                      /\ booking.status = "cancelled" <=>
                           \E event \in Fixture.cancellations : event.booking = b
    BY DEF BookingReferencesHold
  <2>1. b \in {Seeded("completed"), Seeded("cancellation"), Seeded("secondary"), Seeded("personalized")}
        /\ b \in Booking
    BY FixtureFields, FixtureRecords DEF Bookings
  <2>2. Fixture.cancellations = {}
    BY FixtureFields
  <2>3. Fixture.assignments[b] = IF b = Seeded("completed") THEN "guide" ELSE None
    BY <2>1, FixtureFields
  <2>4. \A n \in {"cancellation", "secondary", "personalized"} : Seeded(n) # Seeded("completed")
    BY SeededDiffer
  <2>5. CASE b = Seeded("completed")
    <3>1. booking = [DepartureBooking("customer", "completed", "completed", "paid") EXCEPT !.guide = "guide"]
      BY <2>5, FixtureFields, FixtureBookingsAre
    <3>2. /\ booking.owner = "customer" /\ booking.source = "departure" /\ booking.guide = "guide"
          /\ booking.departure = "completed" /\ booking.request = None /\ booking.accepted = None
          /\ booking.status = "completed"
      BY <3>1 DEF DepartureBooking
    <3>3. DepartureReferencesHold(Fixture, booking)
      BY <3>2, FixtureFields DEF DepartureReferencesHold
    <3>4. HasRole(Fixture, "guide", "guide")
      BY FixtureFields, PortalAssumption DEF PortalAssumption, HasRole, User
    <3> QED
      BY <1>3, <2>2, <2>3, <2>5, <3>2, <3>3, <3>4, FixtureFields DEF User
  <2>6. CASE b = Seeded("cancellation") \/ b = Seeded("secondary")
    <3>1. \/ booking = DepartureBooking("customer", "cancellation", "pending_payment", None)
          \/ booking = DepartureBooking("customer2", "secondary", "confirmed", "paid")
      BY <2>6, FixtureFields, FixtureBookingsAre
    <3>2. /\ booking.owner \in {"customer", "customer2"} /\ booking.source = "departure"
          /\ booking.guide = None /\ booking.departure \in {"cancellation", "secondary"}
          /\ booking.request = None /\ booking.accepted = None
          /\ booking.status \in {"pending_payment", "confirmed"}
      BY <3>1 DEF DepartureBooking
    <3>3. DepartureReferencesHold(Fixture, booking)
      BY <3>2, FixtureFields DEF DepartureReferencesHold
    <3> QED
      BY <1>3, <2>2, <2>3, <2>4, <2>6, <3>2, <3>3, FixtureFields DEF User
  <2>7. CASE b = Seeded("personalized")
    <3>1. booking = QuoteBooking(SeededRequest, "confirmed", "paid", 0, 0)
      BY <2>7, FixtureFields, FixtureBookingsAre
    <3>2. /\ SeededRequest.owner = "customer" /\ SeededRequest.id = "seeded"
          /\ SeededRequest.total = 1 /\ DecidedOnceReviewed(SeededRequest)
      BY DEF SeededRequest, NewRequestRecord, DecidedOnceReviewed
    <3>3. /\ booking.owner = "customer" /\ booking.source = "quote" /\ booking.guide = None
          /\ booking.request = SeededRequest /\ booking.accepted = 0 /\ booking.created = 0
          /\ booking.expires = 0 + QuoteValidity /\ booking.total = 1
          /\ booking.status = "confirmed"
      BY <3>1, <3>2 DEF QuoteBooking
    <3>4. Fixture.requests["seeded"] = SeededRequest
      BY FixtureFields DEF Request
    <3>5. SeededRequest # None
      BY FixtureRequestIsRecord, PortalAssumption DEF PortalAssumption
    <3>6. 0 \in 0 .. (0 + QuoteValidity) - 1 /\ None # 0
      BY PortalAssumption DEF PortalAssumption
    <3>7. QuoteReferencesHold(Fixture, booking)
      BY <3>2, <3>3, <3>4, <3>5, <3>6 DEF QuoteReferencesHold
    <3> QED
      BY <1>3, <2>2, <2>3, <2>4, <2>7, <3>3, <3>7, FixtureFields DEF User
  <2> QED
    BY <2>1, <2>5, <2>6, <2>7
<1>5. CancellationReferencesHold(Fixture) /\ ReviewReferencesHold(Fixture)
  BY FixtureFields DEF CancellationReferencesHold, ReviewReferencesHold
<1>6. AssignmentReferencesHold(Fixture)
  <2> SUFFICES ASSUME NEW b \in Assigned(Fixture)
               PROVE  /\ Fixture.bookings[b] # None /\ Fixture.bookings[b].source = "departure"
                      /\ Fixture.bookings[b].guide = Fixture.assignments[b]
                      /\ HasRole(Fixture, Fixture.assignments[b], "guide")
    BY DEF AssignmentReferencesHold
  <2>1. b = Seeded("completed") /\ Fixture.assignments[b] = "guide"
    BY FixtureFields DEF Assigned
  <2>2. PICK booking : booking = Fixture.bookings[b]
    OBVIOUS
  <2>3. booking = [DepartureBooking("customer", "completed", "completed", "paid") EXCEPT !.guide = "guide"]
    BY <2>1, <2>2, FixtureFields, FixtureBookingsAre
  <2>4. booking.source = "departure" /\ booking.guide = "guide"
    BY <2>3 DEF DepartureBooking
  <2>5. booking \in BookingRecord
    BY <2>3 DEF DepartureBooking, BookingRecord, User, FixedDeparture
  <2>6. HasRole(Fixture, "guide", "guide")
    BY FixtureFields, PortalAssumption DEF PortalAssumption, HasRole, User
  <2> QED
    BY <2>1, <2>2, <2>4, <2>5, <2>6, PortalAssumption DEF PortalAssumption
<1> QED
  BY <1>1, <1>2, <1>4, <1>5, <1>6 DEF OtherReferencesHold

LEMMA FixtureIsSound == Sound(Fixture)
<1>1. /\ \A u \in User : Fixture.bookings[FixedId(u)] = None
      /\ \A r \in Request : Fixture.bookings[QuoteId(r)] = None
  <2>1. \A b \in Booking : Fixture.bookings[b] # None =>
          b \in {Seeded("completed"), Seeded("cancellation"), Seeded("secondary"), Seeded("personalized")}
    BY FixtureFields, FixtureRecords
  <2>2. ASSUME NEW u \in User
        PROVE  Fixture.bookings[FixedId(u)] = None
    <3>1. FixedId(u) \in Booking /\ \A n : Seeded(n) # FixedId(u)
      BY DEF Booking, Seeded, FixedId
    <3> QED
      BY <2>1, <3>1
  <2>3. ASSUME NEW r \in Request
        PROVE  Fixture.bookings[QuoteId(r)] = None
    <3>1. QuoteId(r) \in Booking /\ \A n : Seeded(n) # QuoteId(r)
      BY DEF Booking, Seeded, QuoteId
    <3> QED
      BY <2>1, <3>1
  <2> QED
    BY <2>2, <2>3
<1>2. \A r \in Request : Fixture.requests[r] # None => Fixture.requests[r].id = r
  BY FixtureFields DEF SeededRequest, NewRequestRecord
<1>4. KindsFit(Fixture) /\ QuotesHold(Fixture)
  BY <1>1, <1>2 DEF KindsFit, QuotesHold
<1>3. KeysAreUnique(Fixture)
  BY FixtureFields DEF KeysAreUnique
<1> QED
  BY <1>3, <1>4, FixtureIsEnvelope, FixtureReferencesHold DEF Sound

-----------------------------------------------------------------------------
\* One change of one booking

WithBooking(s, b, booking) == [s EXCEPT !.bookings = [s.bookings EXCEPT ![b] = booking]]

(* The envelope with one booking set: the rest is as it was.               *)
LEMMA SettingBooking ==
  ASSUME NEW s \in Envelope, NEW b \in Booking, NEW booking \in BookingRecord,
         NEW result, result = WithBooking(s, b, booking)
  PROVE  /\ result \in Envelope
         /\ result.session = s.session /\ result.role = s.role /\ result.requests = s.requests
         /\ result.cancellations = s.cancellations /\ result.reviews = s.reviews
         /\ result.assignments = s.assignments /\ result.departures = s.departures
         /\ result.bookings[b] = booking
         /\ \A c \in Booking \ {b} : result.bookings[c] = s.bookings[c]
<1>1. PICK bookings : bookings = [s.bookings EXCEPT ![b] = booking]
  OBVIOUS
<1>2. s.bookings \in [Booking -> BookingRecord \cup {None}]
  BY DEF Envelope
<1>3. /\ bookings \in [Booking -> BookingRecord \cup {None}] /\ bookings[b] = booking
      /\ \A c \in Booking \ {b} : bookings[c] = s.bookings[c]
  BY <1>1, <1>2
<1>4. result = [s EXCEPT !.bookings = bookings]
  BY <1>1 DEF WithBooking
<1> QED
  BY <1>3, <1>4 DEF Envelope

(* What the identifier of a booking and the approval of its request ask.   *)
Fits(s, b, booking) ==
  /\ \A u \in User : b = FixedId(u) => booking.source = "departure"
  /\ \A r \in Request : b = QuoteId(r) =>
       /\ booking.source = "quote" /\ booking.request # None /\ booking.request.id = r
       /\ s.requests[r].status = "approved"
       /\ booking.payment = "paid" => booking.accepted \in booking.created .. booking.expires - 1

LEMMA OneBookingFits ==
  ASSUME NEW s, Sound(s), NEW b \in Booking, NEW booking, NEW result,
         result.requests = s.requests, result.bookings[b] = booking,
         \A c \in Booking \ {b} : result.bookings[c] = s.bookings[c],
         Fits(s, b, booking)
  PROVE  KindsFit(result) /\ QuotesHold(result)
<1>1. KindsFit(s) /\ QuotesHold(s)
  BY DEF Sound
<1>2. ASSUME NEW u \in User, result.bookings[FixedId(u)] # None
      PROVE  result.bookings[FixedId(u)].source = "departure"
  <2>1. FixedId(u) \in Booking
    BY IdentifiersDiffer DEF Booking
  <2>2. CASE FixedId(u) = b
    BY <2>2 DEF Fits
  <2>3. CASE FixedId(u) # b
    <3>1. result.bookings[FixedId(u)] = s.bookings[FixedId(u)]
      BY <2>1, <2>3
    <3> QED
      BY <1>1, <1>2, <3>1 DEF KindsFit
  <2> QED
    BY <2>2, <2>3
<1>3. ASSUME NEW r \in Request, result.bookings[QuoteId(r)] # None
      PROVE  /\ result.bookings[QuoteId(r)].source = "quote"
             /\ result.bookings[QuoteId(r)].request # None
             /\ result.bookings[QuoteId(r)].request.id = r
             /\ result.requests[r].status = "approved"
             /\ result.bookings[QuoteId(r)].payment = "paid" =>
                  result.bookings[QuoteId(r)].accepted \in
                    result.bookings[QuoteId(r)].created .. result.bookings[QuoteId(r)].expires - 1
  <2>1. QuoteId(r) \in Booking
    BY DEF Booking
  <2>2. CASE QuoteId(r) = b
    BY <2>2 DEF Fits
  <2>3. CASE QuoteId(r) # b
    <3>1. result.bookings[QuoteId(r)] = s.bookings[QuoteId(r)]
      BY <2>1, <2>3
    <3> QED
      BY <1>1, <1>3, <3>1 DEF KindsFit, QuotesHold
  <2> QED
    BY <2>2, <2>3
<1> QED
  BY <1>1, <1>2, <1>3 DEF KindsFit, QuotesHold

(* What an old booking fits, one with the same request fits that is paid   *)
(* no more than it was.                                                    *)
LEMMA StillFits ==
  ASSUME NEW s, Sound(s), NEW b \in Bookings(s), NEW booking,
         booking.source = s.bookings[b].source, booking.request = s.bookings[b].request,
         \/ booking.payment # "paid"
         \/ /\ booking.payment = s.bookings[b].payment /\ booking.accepted = s.bookings[b].accepted
            /\ booking.created = s.bookings[b].created /\ booking.expires = s.bookings[b].expires
         \/ booking.accepted \in booking.created .. booking.expires - 1
  PROVE  Fits(s, b, booking)
<1>1. KindsFit(s) /\ QuotesHold(s) /\ b \in Booking /\ s.bookings[b] # None
  BY DEF Sound, Bookings
<1>2. \A u \in User : b = FixedId(u) => booking.source = "departure"
  BY <1>1 DEF KindsFit
<1>3. ASSUME NEW r \in Request, b = QuoteId(r)
      PROVE  /\ booking.source = "quote" /\ booking.request # None /\ booking.request.id = r
             /\ s.requests[r].status = "approved"
             /\ booking.payment = "paid" => booking.accepted \in booking.created .. booking.expires - 1
  BY <1>1, <1>3 DEF KindsFit, QuotesHold
<1> QED
  BY <1>2, <1>3 DEF Fits

(* One booking set, and the whole checked before it is written.            *)
LEMMA CheckedBookingIsSound ==
  ASSUME NEW s, Sound(s), NEW b \in Booking, NEW booking, Fits(s, b, booking),
         NEW result, result \in Envelope, result.requests = s.requests,
         result.bookings[b] = booking,
         \A c \in Booking \ {b} : result.bookings[c] = s.bookings[c],
         CrossReferencesHold(result), KeysAreUnique(result)
  PROVE  Sound(result)
<1>1. KindsFit(result) /\ QuotesHold(result)
  BY OneBookingFits
<1> QED
  BY <1>1 DEF Sound, CrossReferencesHold

-----------------------------------------------------------------------------
\* Operations that write what nobody has checked

(* What a read asks of one booking.                                        *)
RefersWell(s, b, booking) ==
  /\ HasRole(s, booking.owner, "customer")
  /\ IF booking.source = "departure" THEN DepartureReferencesHold(s, booking)
                                     ELSE QuoteReferencesHold(s, booking)
  /\ booking.guide # None => HasRole(s, booking.guide, "guide")
  /\ booking.guide = s.assignments[b]
  /\ booking.status = "cancelled" <=> \E event \in s.cancellations : event.booking = b

LEMMA EachRefersWell ==
  ASSUME NEW s
  PROVE  BookingReferencesHold(s) <=> \A b \in Bookings(s) : RefersWell(s, b, s.bookings[b])
BY DEF BookingReferencesHold, RefersWell

(* What is not about reviews and the session does not depend on them.      *)
LEMMA OnlySessionOrReviews ==
  ASSUME NEW s, Sound(s), NEW result, result.role = s.role, result.requests = s.requests,
         result.bookings = s.bookings, result.cancellations = s.cancellations,
         result.assignments = s.assignments, result.departures = s.departures
  PROVE  /\ EveryRoleIsHeld(result) /\ BookingReferencesHold(result)
         /\ CancellationReferencesHold(result) /\ AssignmentReferencesHold(result)
         /\ \A r \in Requests(result) : DecidedOnceReviewed(result.requests[r])
         /\ KeysAreUnique(result) /\ KindsFit(result) /\ QuotesHold(result)
         /\ \A v, role : HasRole(result, v, role) = HasRole(s, v, role)
<1>1. Bookings(result) = Bookings(s) /\ Requests(result) = Requests(s) /\ Assigned(result) = Assigned(s)
  BY DEF Bookings, Requests, Assigned
<1>2. \A v, role : HasRole(result, v, role) = HasRole(s, v, role)
  BY DEF HasRole
<1>3. OtherReferencesHold(s)
  BY DEF Sound
<1>4. BookingReferencesHold(result)
  BY <1>1, <1>2, <1>3
     DEF OtherReferencesHold, BookingReferencesHold, DepartureReferencesHold, QuoteReferencesHold
<1>5. KeysAreUnique(result) /\ KindsFit(result) /\ QuotesHold(result)
  BY DEF Sound, KeysAreUnique, KindsFit, QuotesHold
<1> QED
  BY <1>1, <1>2, <1>3, <1>4, <1>5
     DEF OtherReferencesHold, EveryRoleIsHeld, CancellationReferencesHold, AssignmentReferencesHold

(* Signing in and out touches nothing a rule is about.                     *)
LEMMA SigningInIsSound ==
  ASSUME NEW s, Sound(s), NEW u \in User \cup {None}, NEW result, result = [s EXCEPT !.session = u]
  PROVE  Sound(result)
<1>1. s \in Envelope /\ ReviewReferencesHold(s)
  BY DEF Sound, OtherReferencesHold
<1>2. /\ result \in Envelope /\ result.role = s.role /\ result.requests = s.requests
      /\ result.bookings = s.bookings /\ result.cancellations = s.cancellations
      /\ result.assignments = s.assignments /\ result.departures = s.departures
      /\ result.reviews = s.reviews
  BY <1>1 DEF Envelope
<1>3. ReviewReferencesHold(result)
  BY <1>1, <1>2 DEF ReviewReferencesHold, HasRole
<1> QED
  BY <1>2, <1>3, OnlySessionOrReviews DEF Sound, OtherReferencesHold

(* A review is of a tour that is over and of a customer, the first one.    *)
LEMMA ReviewingIsSound ==
  ASSUME NEW s, Sound(s), NEW b \in Bookings(s), NEW u \in User, HasRole(s, u, "customer"),
         s.bookings[b].owner = u, s.bookings[b].status = "completed",
         \A review \in s.reviews : review.booking # b,
         NEW result, result = [s EXCEPT !.reviews = s.reviews \cup {[booking |-> b, customer |-> u]}]
  PROVE  Sound(result)
<1>1. s \in Envelope /\ b \in Booking /\ s.bookings[b] # None /\ ReviewReferencesHold(s)
  BY DEF Sound, Bookings, OtherReferencesHold
<1>2. PICK review \in Review : review = [booking |-> b, customer |-> u]
  BY <1>1 DEF Review
<1>3. review.booking = b /\ review.customer = u
  BY <1>2
<1>4. PICK reviews \in SUBSET Review : reviews = s.reviews \cup {review}
  BY <1>1 DEF Envelope
<1>5. result = [s EXCEPT !.reviews = reviews]
  BY <1>2, <1>4
<1>6. /\ result \in Envelope /\ result.role = s.role /\ result.requests = s.requests
      /\ result.bookings = s.bookings /\ result.cancellations = s.cancellations
      /\ result.assignments = s.assignments /\ result.departures = s.departures
      /\ result.reviews = reviews
  BY <1>1, <1>5 DEF Envelope
<1>7. ReviewReferencesHold(result)
  <2> SUFFICES ASSUME NEW q \in reviews
               PROVE  /\ s.bookings[q.booking] # None
                      /\ s.bookings[q.booking].status = "completed"
                      /\ s.bookings[q.booking].owner = q.customer
                      /\ HasRole(result, q.customer, "customer")
                      /\ \A other \in reviews : other.booking = q.booking => other = q
    BY <1>6 DEF ReviewReferencesHold
  <2>1. \A v : HasRole(result, v, "customer") = HasRole(s, v, "customer")
    BY <1>6 DEF HasRole
  <2>2. CASE q = review
    BY <1>1, <1>3, <1>4, <2>1, <2>2
  <2>3. CASE q \in s.reviews
    BY <1>1, <1>3, <1>4, <2>1, <2>3 DEF ReviewReferencesHold
  <2> QED
    BY <1>4, <2>2, <2>3
<1> QED
  BY <1>6, <1>7, OnlySessionOrReviews DEF Sound, OtherReferencesHold

(* Who owns a booking stays a customer, who is assigned a guide, and the   *)
(* last holder of a role keeps it.                                         *)
LEMMA ChangingRoleIsSound ==
  ASSUME NEW s, Sound(s), NEW u \in User, NEW role \in Role,
         role # s.role[u] => \E v \in User \ {u} : s.role[v] = s.role[u],
         role # "customer" => \A b \in Bookings(s) : s.bookings[b].owner # u,
         role # "guide" => \A b \in Assigned(s) : s.assignments[b] # u,
         NEW result, result = [s EXCEPT !.role = [s.role EXCEPT ![u] = role]]
  PROVE  Sound(result)
<1>1. s \in Envelope /\ OtherReferencesHold(s)
  BY DEF Sound
<1>2. PICK roles : roles = [s.role EXCEPT ![u] = role]
  OBVIOUS
<1>3. /\ roles \in [User -> Role] /\ roles[u] = role
      /\ \A v \in User \ {u} : roles[v] = s.role[v]
  BY <1>1, <1>2 DEF Envelope
<1>4. /\ result \in Envelope /\ result.role = roles /\ result.requests = s.requests
      /\ result.bookings = s.bookings /\ result.cancellations = s.cancellations
      /\ result.reviews = s.reviews /\ result.assignments = s.assignments
      /\ result.departures = s.departures
  BY <1>1, <1>2, <1>3 DEF Envelope
<1>5. Bookings(result) = Bookings(s) /\ Requests(result) = Requests(s) /\ Assigned(result) = Assigned(s)
  BY <1>4 DEF Bookings, Requests, Assigned
<1>6. EveryRoleIsHeld(result)
  <2> SUFFICES ASSUME NEW held \in Role
               PROVE  \E v \in User : roles[v] = held
    BY <1>4 DEF EveryRoleIsHeld
  <2>1. PICK v \in User : s.role[v] = held
    BY <1>1 DEF OtherReferencesHold, EveryRoleIsHeld
  <2>2. CASE v # u
    BY <1>3, <2>1, <2>2
  <2>3. CASE v = u
    BY <1>3, <2>1, <2>3
  <2> QED
    BY <2>2, <2>3
<1>7. \A b \in Bookings(s) : HasRole(result, s.bookings[b].owner, "customer")
  <2> SUFFICES ASSUME NEW b \in Bookings(s)
               PROVE  HasRole(result, s.bookings[b].owner, "customer")
    OBVIOUS
  <2>1. HasRole(s, s.bookings[b].owner, "customer") /\ s.bookings[b] \in BookingRecord
    BY <1>1, SetMeansRecord DEF OtherReferencesHold, BookingReferencesHold
  <2>2. s.bookings[b].owner \in User
    BY <2>1 DEF BookingRecord
  <2> QED
    BY <1>3, <1>4, <2>1, <2>2 DEF HasRole
<1>8. \A b \in Assigned(s) : HasRole(result, s.assignments[b], "guide")
  <2> SUFFICES ASSUME NEW b \in Assigned(s)
               PROVE  HasRole(result, s.assignments[b], "guide")
    OBVIOUS
  <2>1. HasRole(s, s.assignments[b], "guide") /\ s.assignments[b] \in User
    BY <1>1, SetMeansRecord DEF OtherReferencesHold, AssignmentReferencesHold
  <2> QED
    BY <1>3, <1>4, <2>1 DEF HasRole
<1>9. BookingReferencesHold(result)
  <2> SUFFICES ASSUME NEW b \in Bookings(s), NEW booking, booking = s.bookings[b]
               PROVE  /\ HasRole(result, booking.owner, "customer")
                      /\ IF booking.source = "departure" THEN DepartureReferencesHold(result, booking)
                                                         ELSE QuoteReferencesHold(result, booking)
                      /\ booking.guide # None => HasRole(result, booking.guide, "guide")
                      /\ booking.guide = result.assignments[b]
                      /\ booking.status = "cancelled" <=>
                           \E event \in result.cancellations : event.booking = b
    BY <1>4, <1>5 DEF BookingReferencesHold
  <2>1. /\ IF booking.source = "departure" THEN DepartureReferencesHold(s, booking)
                                           ELSE QuoteReferencesHold(s, booking)
        /\ booking.guide = s.assignments[b]
        /\ booking.status = "cancelled" <=> \E event \in s.cancellations : event.booking = b
    BY <1>1 DEF OtherReferencesHold, BookingReferencesHold
  <2>2. IF booking.source = "departure" THEN DepartureReferencesHold(result, booking)
                                        ELSE QuoteReferencesHold(result, booking)
    BY <1>4, <2>1 DEF DepartureReferencesHold, QuoteReferencesHold
  <2>3. booking.guide # None => HasRole(result, booking.guide, "guide")
    BY <1>8, <2>1 DEF Assigned, Bookings
  <2> QED
    BY <1>4, <1>7, <2>1, <2>2, <2>3
<1>10. CancellationReferencesHold(result)
  <2> SUFFICES ASSUME NEW event \in s.cancellations
               PROVE  /\ s.bookings[event.booking] # None
                      /\ HasRole(result, event.customer, "customer")
                      /\ s.bookings[event.booking].owner = event.customer
                      /\ s.bookings[event.booking].source = event.source
                      /\ s.bookings[event.booking].status = "cancelled"
                      /\ s.bookings[event.booking].payment = None
                      /\ s.bookings[event.booking].source = "quote" =>
                           s.bookings[event.booking].accepted = None
    BY <1>4 DEF CancellationReferencesHold
  <2>1. event.booking \in Booking
    BY <1>1 DEF Envelope, Cancellation
  <2>2. CancellationReferencesHold(s)
    BY <1>1 DEF OtherReferencesHold
  <2> QED
    BY <1>7, <2>1, <2>2 DEF CancellationReferencesHold, Bookings
<1>11. AssignmentReferencesHold(result)
  BY <1>1, <1>4, <1>5, <1>8 DEF OtherReferencesHold, AssignmentReferencesHold
<1>12. ReviewReferencesHold(result)
  <2> SUFFICES ASSUME NEW review \in s.reviews
               PROVE  /\ s.bookings[review.booking] # None
                      /\ s.bookings[review.booking].status = "completed"
                      /\ s.bookings[review.booking].owner = review.customer
                      /\ HasRole(result, review.customer, "customer")
                      /\ \A other \in s.reviews : other.booking = review.booking => other = review
    BY <1>4 DEF ReviewReferencesHold
  <2>1. review.booking \in Booking
    BY <1>1 DEF Envelope, Review
  <2>2. ReviewReferencesHold(s)
    BY <1>1 DEF OtherReferencesHold
  <2> QED
    BY <1>7, <2>1, <2>2 DEF ReviewReferencesHold, Bookings
<1>13. \A r \in Requests(result) : DecidedOnceReviewed(result.requests[r])
  BY <1>1, <1>4, <1>5 DEF OtherReferencesHold
<1>14. KeysAreUnique(result) /\ KindsFit(result) /\ QuotesHold(result)
  BY <1>4 DEF Sound, KeysAreUnique, KindsFit, QuotesHold
<1> QED
  BY <1>4, <1>6, <1>9, <1>10, <1>11, <1>12, <1>13, <1>14 DEF Sound, OtherReferencesHold

(* What the envelope is once a guide is assigned to a booking.             *)
AssignedEnvelope(s, b, u) ==
  [WithBooking(s, b, [s.bookings[b] EXCEPT !.guide = u])
     EXCEPT !.assignments = [s.assignments EXCEPT ![b] = u]]

(* A guide is assigned to a booking, which says so too.                    *)
LEMMA AssigningIsSound ==
  ASSUME NEW s, Sound(s), NEW b \in Bookings(s), NEW u \in User, HasRole(s, u, "guide"),
         s.bookings[b].status = "confirmed", s.bookings[b].source = "departure",
         NEW result,
         result = AssignedEnvelope(s, b, u)
  PROVE  /\ Sound(result)
         /\ result.bookings[b] # None /\ result.bookings[b].status = s.bookings[b].status
         /\ \A c \in Booking \ {b} : result.bookings[c] = s.bookings[c]
<1>1. s \in Envelope /\ OtherReferencesHold(s) /\ b \in Booking /\ s.bookings[b] \in BookingRecord
  BY SetMeansRecord DEF Sound, Bookings
<1>2. PICK old \in BookingRecord : old = s.bookings[b]
  BY <1>1
<1>3. PICK new : new = [old EXCEPT !.guide = u]
  OBVIOUS
<1>4. /\ new \in BookingRecord /\ new.guide = u /\ new.source = old.source
      /\ new.departure = old.departure /\ new.owner = old.owner /\ new.status = old.status
      /\ new.payment = old.payment /\ new.created = old.created /\ new.expires = old.expires
      /\ new.accepted = old.accepted /\ new.total = old.total /\ new.request = old.request
  BY <1>3 DEF BookingRecord
<1>5. PICK middle : middle = WithBooking(s, b, new)
  OBVIOUS
<1>6. /\ middle \in Envelope
      /\ middle.session = s.session /\ middle.role = s.role /\ middle.requests = s.requests
      /\ middle.cancellations = s.cancellations /\ middle.reviews = s.reviews
      /\ middle.assignments = s.assignments /\ middle.departures = s.departures
      /\ middle.bookings[b] = new
      /\ \A c \in Booking \ {b} : middle.bookings[c] = s.bookings[c]
  <2>1. s \in Envelope /\ b \in Booking /\ new \in BookingRecord
    BY <1>1, <1>4
  <2> QED
    BY <2>1, <1>5, SettingBooking
<1>7. PICK assignments : assignments = [s.assignments EXCEPT ![b] = u]
  OBVIOUS
<1>8. /\ assignments \in [Booking -> User \cup {None}] /\ assignments[b] = u
      /\ \A c \in Booking \ {b} : assignments[c] = s.assignments[c]
  BY <1>1, <1>7 DEF Envelope
<1>9. result = [middle EXCEPT !.assignments = assignments]
  BY <1>2, <1>3, <1>5, <1>7 DEF AssignedEnvelope
<1>10. /\ result \in Envelope /\ result.role = s.role /\ result.requests = s.requests
       /\ result.cancellations = s.cancellations /\ result.reviews = s.reviews
       /\ result.assignments = assignments /\ result.departures = s.departures
       /\ result.bookings[b] = new
       /\ \A c \in Booking \ {b} : result.bookings[c] = s.bookings[c]
  BY <1>6, <1>8, <1>9 DEF Envelope
<1>11. \A v, role : HasRole(result, v, role) <=> HasRole(s, v, role)
  BY <1>10 DEF HasRole
<1>12. new # None /\ u # None
  BY <1>4, PortalAssumption DEF PortalAssumption
<1>13. Requests(result) = Requests(s) /\ Bookings(result) = Bookings(s)
  BY <1>1, <1>10, <1>12 DEF Requests, Bookings
<1>14. BookingReferencesHold(result)
  <2> SUFFICES ASSUME NEW c \in Bookings(s)
               PROVE  RefersWell(result, c, result.bookings[c])
    BY <1>13, EachRefersWell
  <2>1. BookingReferencesHold(s) /\ c \in Booking
    BY <1>1 DEF OtherReferencesHold, Bookings
  <2>2. CASE c = b
    <3>1. HasRole(s, old.owner, "customer") /\ DepartureReferencesHold(s, old)
      BY <1>2, <2>1, <2>2 DEF BookingReferencesHold
    <3>2. old.status = "cancelled" <=> \E event \in s.cancellations : event.booking = c
      BY <1>2, <2>1, <2>2 DEF BookingReferencesHold
    <3>3. DepartureReferencesHold(result, new)
      BY <1>4, <1>10, <3>1 DEF DepartureReferencesHold
    <3> QED
      <4>1. /\ result.bookings[c] = new /\ result.assignments[c] = u
            /\ result.cancellations = s.cancellations
        BY <1>8, <1>10, <2>2
      <4>2. HasRole(result, new.owner, "customer") /\ HasRole(result, u, "guide")
        BY <1>4, <1>11, <3>1
      <4>3. new.guide = u /\ new.source = "departure" /\ new.status = old.status
        BY <1>2, <1>4
      <4> QED
        BY <3>2, <3>3, <4>1, <4>2, <4>3 DEF RefersWell
  <2>3. CASE c # b
    <3>1. result.bookings[c] = s.bookings[c] /\ assignments[c] = s.assignments[c]
      BY <1>8, <1>10, <2>1, <2>3
    <3>2. PICK booking : booking = s.bookings[c]
      OBVIOUS
    <3>3. /\ HasRole(s, booking.owner, "customer")
          /\ IF booking.source = "departure" THEN DepartureReferencesHold(s, booking)
                                             ELSE QuoteReferencesHold(s, booking)
          /\ booking.guide # None => HasRole(s, booking.guide, "guide")
          /\ booking.guide = s.assignments[c]
          /\ booking.status = "cancelled" <=> \E event \in s.cancellations : event.booking = c
      BY <2>1, <3>2 DEF BookingReferencesHold
    <3>4. IF booking.source = "departure" THEN DepartureReferencesHold(result, booking)
                                          ELSE QuoteReferencesHold(result, booking)
      BY <1>10, <3>3 DEF DepartureReferencesHold, QuoteReferencesHold
    <3> QED
      <4>1. result.assignments[c] = s.assignments[c] /\ result.cancellations = s.cancellations
        BY <1>10, <3>1
      <4> QED
        BY <1>11, <3>1, <3>2, <3>3, <3>4, <4>1 DEF RefersWell
  <2> QED
    BY <2>2, <2>3
<1>15. CancellationReferencesHold(result)
  <2>1. CancellationReferencesHold(s) /\ BookingReferencesHold(s)
    BY <1>1 DEF OtherReferencesHold
  <2>2. \A event \in s.cancellations : event.booking \in Booking \ {b}
    BY <1>1, <2>1 DEF CancellationReferencesHold, Envelope, Cancellation
  <2>3. \A event \in s.cancellations : result.bookings[event.booking] = s.bookings[event.booking]
    BY <1>10, <2>2
  <2> QED
    BY <1>10, <1>11, <2>1, <2>3 DEF CancellationReferencesHold
<1>16. AssignmentReferencesHold(result)
  <2> SUFFICES ASSUME NEW c \in Booking, assignments[c] # None
               PROVE  /\ result.bookings[c] # None /\ result.bookings[c].source = "departure"
                      /\ result.bookings[c].guide = assignments[c]
                      /\ HasRole(result, assignments[c], "guide")
    BY <1>10 DEF AssignmentReferencesHold, Assigned
  <2>1. CASE c = b
    BY <1>2, <1>4, <1>8, <1>10, <1>11, <1>12, <2>1
  <2>2. CASE c # b
    <3>1. result.bookings[c] = s.bookings[c] /\ assignments[c] = s.assignments[c]
      BY <1>8, <1>10, <2>2
    <3> QED
      BY <1>1, <1>11, <3>1 DEF OtherReferencesHold, AssignmentReferencesHold, Assigned
  <2> QED
    BY <2>1, <2>2
<1>17. ReviewReferencesHold(result)
  <2>1. ReviewReferencesHold(s)
    BY <1>1 DEF OtherReferencesHold
  <2>2. \A review \in s.reviews : review.booking \in Booking \ {b}
    BY <1>1, <2>1 DEF ReviewReferencesHold, Envelope, Review
  <2>3. \A review \in s.reviews : result.bookings[review.booking] = s.bookings[review.booking]
    BY <1>10, <2>2
  <2> QED
    BY <1>10, <1>11, <2>1, <2>3 DEF ReviewReferencesHold
<1>18. /\ EveryRoleIsHeld(result) /\ KeysAreUnique(result)
       /\ \A r \in Requests(result) : DecidedOnceReviewed(result.requests[r])
  BY <1>1, <1>10, <1>13 DEF Sound, OtherReferencesHold, EveryRoleIsHeld, KeysAreUnique
<1>19. Fits(s, b, new)
  BY <1>2, <1>4, StillFits
<1>20. KindsFit(result) /\ QuotesHold(result)
  <2>1. /\ b \in Booking /\ result.requests = s.requests /\ result.bookings[b] = new
        /\ \A c \in Booking \ {b} : result.bookings[c] = s.bookings[c]
    BY <1>1, <1>10
  <2> QED
    BY <2>1, <1>19, OneBookingFits
<1>21. Sound(result)
  BY <1>10, <1>14, <1>15, <1>16, <1>17, <1>18, <1>20 DEF Sound, OtherReferencesHold
<1> QED
  BY <1>2, <1>4, <1>10, <1>12, <1>21

(* A decision reaches every copy of the request; none of them is a quote's, *)
(* for a quote is issued only after the decision that ends the review.     *)
Decided(s, r, booking, reviewed) ==
  IF booking # None /\ booking.source = "quote" /\ booking.request.id = r
    THEN [booking EXCEPT !.request = reviewed]
    ELSE booking

ReviewedAs(request, decision) == [request EXCEPT !.status = decision, !.decided = TRUE]

DecidedEnvelope(s, r, reviewed) ==
  [s EXCEPT !.requests = [s.requests EXCEPT ![r] = reviewed],
            !.bookings = [b \in Booking |-> Decided(s, r, s.bookings[b], reviewed)]]

LEMMA DecidedCopy ==
  ASSUME NEW s, NEW r, NEW booking \in BookingRecord, NEW reviewed \in RequestRecord,
         NEW copy, copy = Decided(s, r, booking, reviewed)
  PROVE  /\ copy \in BookingRecord /\ copy.source = booking.source
         /\ copy.departure = booking.departure /\ copy.owner = booking.owner
         /\ copy.status = booking.status /\ copy.payment = booking.payment
         /\ copy.guide = booking.guide /\ copy.created = booking.created
         /\ copy.expires = booking.expires /\ copy.accepted = booking.accepted
         /\ copy.total = booking.total
         /\ copy.request = IF booking.source = "quote" /\ booking.request.id = r
                             THEN reviewed ELSE booking.request
BY PortalAssumption DEF PortalAssumption, Decided, BookingRecord

LEMMA DecidingIsSound ==
  ASSUME NEW s, Sound(s), NEW r \in Requests(s),
         s.requests[r].status \in {"pending_review", "changes_requested"},
         NEW decision \in {"changes_requested", "approved", "rejected"},
         NEW reviewed, reviewed = ReviewedAs(s.requests[r], decision),
         NEW result, result = DecidedEnvelope(s, r, reviewed)
  PROVE  /\ Sound(result)
         /\ \A b \in Booking : /\ result.bookings[b] = None <=> s.bookings[b] = None
                               /\ s.bookings[b] # None =>
                                    result.bookings[b].status = s.bookings[b].status
<1>1. s \in Envelope /\ OtherReferencesHold(s) /\ r \in Request /\ s.requests[r] \in RequestRecord
      /\ KindsFit(s) /\ QuotesHold(s) /\ KeysAreUnique(s)
  BY SetMeansRecord DEF Sound, Requests
<1>2. PICK request \in RequestRecord : request = s.requests[r]
  BY <1>1
<1>3. /\ reviewed \in RequestRecord /\ reviewed.id = request.id /\ reviewed.owner = request.owner
      /\ reviewed.total = request.total /\ reviewed.status = decision /\ reviewed.decided
  BY <1>2 DEF ReviewedAs, RequestRecord
<1>4. reviewed # None /\ None \notin BookingRecord /\ None \notin RequestRecord
  BY <1>3, PortalAssumption DEF PortalAssumption
<1>5. PICK requests : requests = [s.requests EXCEPT ![r] = reviewed]
  OBVIOUS
<1>6. /\ requests \in [Request -> RequestRecord \cup {None}] /\ requests[r] = reviewed
      /\ \A q \in Request \ {r} : requests[q] = s.requests[q]
  BY <1>1, <1>3, <1>5 DEF Envelope
<1>7. PICK bookings : bookings = [b \in Booking |-> Decided(s, r, s.bookings[b], reviewed)]
  OBVIOUS
<1>8. \A b \in Booking : bookings[b] = Decided(s, r, s.bookings[b], reviewed)
  BY <1>7
<1>9. ASSUME NEW b \in Booking, s.bookings[b] = None
      PROVE  bookings[b] = None
  BY <1>8, <1>9 DEF Decided
<1>10. ASSUME NEW b \in Booking, s.bookings[b] # None, NEW old, old = s.bookings[b],
              NEW copy, copy = bookings[b]
       PROVE  /\ old \in BookingRecord /\ copy \in BookingRecord /\ copy.source = old.source
              /\ copy.departure = old.departure /\ copy.owner = old.owner
              /\ copy.status = old.status /\ copy.payment = old.payment
              /\ copy.guide = old.guide /\ copy.created = old.created
              /\ copy.expires = old.expires /\ copy.accepted = old.accepted
              /\ copy.total = old.total
              /\ copy.request = IF old.source = "quote" /\ old.request.id = r
                                  THEN reviewed ELSE old.request
  <2>1. old \in BookingRecord
    BY <1>1, <1>10 DEF Envelope
  <2>2. copy = Decided(s, r, old, reviewed)
    BY <1>8, <1>10
  <2> QED
    BY <1>3, <2>1, <2>2, DecidedCopy
<1>11. bookings \in [Booking -> BookingRecord \cup {None}]
  <2>1. \A b \in Booking : bookings[b] \in BookingRecord \cup {None}
    BY <1>9, <1>10
  <2> QED
    BY <1>7, <2>1
<1>12. result = [s EXCEPT !.requests = requests, !.bookings = bookings]
  BY <1>5, <1>7 DEF DecidedEnvelope
<1>13. /\ result \in Envelope /\ result.role = s.role /\ result.requests = requests
       /\ result.cancellations = s.cancellations /\ result.reviews = s.reviews
       /\ result.assignments = s.assignments /\ result.departures = s.departures
       /\ result.bookings = bookings
  BY <1>1, <1>6, <1>11, <1>12 DEF Envelope
<1>14. Bookings(result) = Bookings(s) /\ Requests(result) = Requests(s) /\ Assigned(result) = Assigned(s)
  <2>1. \A b \in Booking : bookings[b] = None <=> s.bookings[b] = None
    BY <1>4, <1>9, <1>10
  <2>2. \A q \in Request : requests[q] = None <=> s.requests[q] = None
    BY <1>2, <1>4, <1>6
  <2> QED
    BY <1>13, <2>1, <2>2 DEF Bookings, Requests, Assigned
<1>15. \A v, role : HasRole(result, v, role) <=> HasRole(s, v, role)
  BY <1>13 DEF HasRole
<1>16. BookingReferencesHold(result)
  <2> SUFFICES ASSUME NEW b \in Bookings(s)
               PROVE  RefersWell(result, b, bookings[b])
    <3>1. result.bookings = bookings
      BY <1>13
    <3> QED
      BY <3>1, <1>14, EachRefersWell
  <2>0. PICK old, copy : old = s.bookings[b] /\ copy = bookings[b]
    OBVIOUS
  <2>1. b \in Booking /\ s.bookings[b] # None
    BY DEF Bookings
  <2>2. /\ HasRole(s, old.owner, "customer")
        /\ IF old.source = "departure" THEN DepartureReferencesHold(s, old)
                                       ELSE QuoteReferencesHold(s, old)
        /\ old.guide # None => HasRole(s, old.guide, "guide")
        /\ old.guide = s.assignments[b]
        /\ old.status = "cancelled" <=> \E event \in s.cancellations : event.booking = b
    BY <1>1, <2>0 DEF OtherReferencesHold, BookingReferencesHold
  <2>3. /\ old \in BookingRecord /\ copy.source = old.source
        /\ copy.departure = old.departure /\ copy.owner = old.owner
        /\ copy.status = old.status /\ copy.payment = old.payment
        /\ copy.guide = old.guide /\ copy.created = old.created
        /\ copy.expires = old.expires /\ copy.accepted = old.accepted
        /\ copy.total = old.total
        /\ copy.request = IF old.source = "quote" /\ old.request.id = r
                            THEN reviewed ELSE old.request
    BY <1>10, <2>0, <2>1
  <2>4. CASE old.source = "departure"
    <3>1. DepartureReferencesHold(result, copy)
      BY <1>13, <2>2, <2>3, <2>4 DEF DepartureReferencesHold
    <3> QED
      BY <1>13, <2>0, <1>15, <2>2, <2>3, <2>4, <3>1 DEF RefersWell
  <2>5. CASE old.source # "departure"
    <3>1. QuoteReferencesHold(s, old) /\ old.source = "quote"
      BY <2>2, <2>3, <2>5 DEF BookingRecord
    <3>2. old.request # None /\ old.request \in RequestRecord /\ old.request.id \in Request
      BY <2>3, <3>1 DEF QuoteReferencesHold, BookingRecord, RequestRecord
    <3>3. CASE old.request.id = r
      <4>1. old.request = request /\ copy.request = reviewed /\ request.id = r
        BY <1>2, <2>3, <3>1, <3>3 DEF QuoteReferencesHold
      <4>2. DecidedOnceReviewed(reviewed)
        BY <1>3 DEF DecidedOnceReviewed
      <4>3. /\ reviewed # None /\ requests[reviewed.id] = reviewed
            /\ reviewed.owner = request.owner /\ reviewed.total = request.total
        BY <1>3, <1>4, <1>6, <4>1
      <4>4. result.requests = requests
        BY <1>13
      <4>5. QuoteReferencesHold(result, copy)
        <5>1. /\ copy.request = reviewed /\ copy.owner = old.owner /\ copy.total = old.total
              /\ copy.status = old.status /\ copy.payment = old.payment
              /\ copy.created = old.created /\ copy.expires = old.expires
              /\ copy.accepted = old.accepted
          BY <2>3, <4>1
        <5>2. /\ request.owner = old.owner /\ old.total = request.total
              /\ old.expires = old.created + QuoteValidity
              /\ old.accepted # None => old.accepted \in old.created .. old.expires - 1
              /\ old.status = "confirmed" /\ old.payment = "paid" => old.accepted # None
          BY <3>1, <4>1 DEF QuoteReferencesHold
        <5> QED
          BY <4>2, <4>3, <4>4, <5>1, <5>2 DEF QuoteReferencesHold
      <4> QED
        BY <1>13, <2>0, <1>15, <2>2, <2>3, <2>5, <4>5 DEF RefersWell
    <3>4. CASE old.request.id # r
      <4>1. copy.request = old.request /\ requests[old.request.id] = s.requests[old.request.id]
        BY <1>6, <2>3, <3>2, <3>4
      <4>2. QuoteReferencesHold(result, copy)
        BY <1>13, <2>3, <3>1, <4>1 DEF QuoteReferencesHold
      <4> QED
        BY <1>13, <2>0, <1>15, <2>2, <2>3, <2>5, <4>2 DEF RefersWell
    <3> QED
      BY <3>3, <3>4
  <2> QED
    BY <2>4, <2>5
<1>17. CancellationReferencesHold(result)
  <2>1. CancellationReferencesHold(s)
    BY <1>1 DEF OtherReferencesHold
  <2> SUFFICES ASSUME NEW event \in s.cancellations
               PROVE  /\ bookings[event.booking] # None
                      /\ HasRole(s, event.customer, "customer")
                      /\ bookings[event.booking].owner = event.customer
                      /\ bookings[event.booking].source = event.source
                      /\ bookings[event.booking].status = "cancelled"
                      /\ bookings[event.booking].payment = None
                      /\ bookings[event.booking].source = "quote" =>
                           bookings[event.booking].accepted = None
    <3>1. result.cancellations = s.cancellations /\ result.bookings = bookings
      BY <1>13
    <3> QED
      BY <3>1, <1>15 DEF CancellationReferencesHold
  <2>0. PICK copy : copy = bookings[event.booking]
    OBVIOUS
  <2>2. event.booking \in Booking
    BY <1>1 DEF Envelope, Cancellation
  <2>3. PICK old : old = s.bookings[event.booking]
    OBVIOUS
  <2>4. /\ old # None
        /\ HasRole(s, event.customer, "customer") /\ old.owner = event.customer
        /\ old.source = event.source
        /\ old.status = "cancelled" /\ old.payment = None
        /\ old.source = "quote" => old.accepted = None
    BY <2>1, <2>3 DEF CancellationReferencesHold
  <2>5. /\ copy \in BookingRecord /\ copy.source = old.source /\ copy.owner = old.owner
        /\ copy.status = old.status /\ copy.payment = old.payment
        /\ copy.accepted = old.accepted
    BY <1>10, <2>0, <2>2, <2>3, <2>4
  <2> QED
    BY <1>4, <2>0, <2>4, <2>5
<1>18. AssignmentReferencesHold(result)
  <2> SUFFICES ASSUME NEW b \in Assigned(s)
               PROVE  /\ bookings[b] # None /\ bookings[b].source = "departure"
                      /\ bookings[b].guide = s.assignments[b]
                      /\ HasRole(s, s.assignments[b], "guide")
    <3>1. result.assignments = s.assignments /\ result.bookings = bookings
      BY <1>13
    <3> QED
      BY <3>1, <1>14, <1>15 DEF AssignmentReferencesHold
  <2>1. PICK old, copy : old = s.bookings[b] /\ copy = bookings[b]
    OBVIOUS
  <2>2. /\ old # None /\ old.source = "departure" /\ old.guide = s.assignments[b]
        /\ HasRole(s, s.assignments[b], "guide") /\ b \in Booking
    BY <1>1, <2>1 DEF OtherReferencesHold, AssignmentReferencesHold, Assigned
  <2>3. copy \in BookingRecord /\ copy.source = old.source /\ copy.guide = old.guide
    BY <1>10, <2>1, <2>2
  <2> QED
    BY <1>4, <2>1, <2>2, <2>3
<1>19. ReviewReferencesHold(result)
  <2> SUFFICES ASSUME NEW review \in s.reviews
               PROVE  /\ bookings[review.booking] # None
                      /\ bookings[review.booking].status = "completed"
                      /\ bookings[review.booking].owner = review.customer
                      /\ HasRole(s, review.customer, "customer")
                      /\ \A other \in s.reviews : other.booking = review.booking => other = review
    <3>1. result.reviews = s.reviews /\ result.bookings = bookings
      BY <1>13
    <3> QED
      BY <3>1, <1>15 DEF ReviewReferencesHold
  <2>1. PICK old, copy : old = s.bookings[review.booking] /\ copy = bookings[review.booking]
    OBVIOUS
  <2>2. /\ old # None /\ old.status = "completed" /\ old.owner = review.customer
        /\ HasRole(s, review.customer, "customer")
        /\ \A other \in s.reviews : other.booking = review.booking => other = review
    BY <1>1, <2>1 DEF OtherReferencesHold, ReviewReferencesHold
  <2>3. review.booking \in Booking
    BY <1>1 DEF Envelope, Review
  <2>4. copy \in BookingRecord /\ copy.status = old.status /\ copy.owner = old.owner
    BY <1>10, <2>1, <2>2, <2>3
  <2> QED
    BY <1>4, <2>1, <2>2, <2>4
<1>20. \A q \in Requests(result) : DecidedOnceReviewed(result.requests[q])
  <2> SUFFICES ASSUME NEW q \in Requests(s)
               PROVE  DecidedOnceReviewed(requests[q])
    BY <1>13, <1>14
  <2>1. CASE q = r
    BY <1>3, <1>6, <2>1 DEF DecidedOnceReviewed
  <2>2. CASE q # r
    BY <1>1, <1>6, <2>2 DEF OtherReferencesHold, Requests
  <2> QED
    BY <2>1, <2>2
<1>21. EveryRoleIsHeld(result) /\ KeysAreUnique(result)
  BY <1>1, <1>13 DEF OtherReferencesHold, EveryRoleIsHeld, KeysAreUnique
<1>22. KindsFit(result)
  <2>1. ASSUME NEW u \in User, bookings[FixedId(u)] # None
        PROVE  bookings[FixedId(u)].source = "departure"
    <3>1. FixedId(u) \in Booking
      BY DEF Booking
    <3>2. s.bookings[FixedId(u)] # None
      BY <1>9, <2>1, <3>1
    <3>3. bookings[FixedId(u)].source = s.bookings[FixedId(u)].source
      BY <1>10, <3>1, <3>2
    <3> QED
      BY <1>1, <3>2, <3>3 DEF KindsFit
  <2>2. ASSUME NEW q \in Request, bookings[QuoteId(q)] # None
        PROVE  /\ bookings[QuoteId(q)].source = "quote" /\ bookings[QuoteId(q)].request # None
               /\ bookings[QuoteId(q)].request.id = q
    <3>1. QuoteId(q) \in Booking
      BY DEF Booking
    <3>2. s.bookings[QuoteId(q)] # None
      BY <1>9, <2>2, <3>1
    <3>3. PICK old, copy : old = s.bookings[QuoteId(q)] /\ copy = bookings[QuoteId(q)]
      OBVIOUS
    <3>4. /\ copy.source = old.source
          /\ copy.request = IF old.source = "quote" /\ old.request.id = r
                              THEN reviewed ELSE old.request
      BY <1>10, <3>1, <3>2, <3>3
    <3>5. old.source = "quote" /\ old.request # None /\ old.request.id = q
      BY <1>1, <3>2, <3>3 DEF KindsFit
    <3>6. QuoteReferencesHold(s, old)
      BY <1>1, <3>1, <3>2, <3>3, <3>5 DEF OtherReferencesHold, BookingReferencesHold, Bookings
    <3>7. old.request.id = r => reviewed.id = r
      BY <1>2, <1>3, <3>6 DEF QuoteReferencesHold
    <3> QED
      BY <1>4, <3>3, <3>4, <3>5, <3>7
  <2>3. ASSUME NEW q \in Request, requests[q] # None
        PROVE  requests[q].id = q
    <3>1. q # r => requests[q] = s.requests[q]
      BY <1>6
    <3> QED
      BY <1>1, <1>2, <1>3, <1>4, <1>6, <2>3, <3>1 DEF KindsFit
  <2> QED
    BY <1>13, <2>1, <2>2, <2>3 DEF KindsFit
<1>23. QuotesHold(result)
  <2> SUFFICES ASSUME NEW q \in Request, bookings[QuoteId(q)] # None,
                      NEW copy, copy = bookings[QuoteId(q)]
               PROVE  /\ requests[q].status = "approved"
                      /\ copy.payment = "paid" => copy.accepted \in copy.created .. copy.expires - 1
    BY <1>13 DEF QuotesHold
  <2>1. QuoteId(q) \in Booking
    BY DEF Booking
  <2>2. s.bookings[QuoteId(q)] # None
    BY <1>9, <2>1
  <2>3. PICK old : old = s.bookings[QuoteId(q)]
    OBVIOUS
  <2>4. /\ s.requests[q].status = "approved"
        /\ old.payment = "paid" => old.accepted \in old.created .. old.expires - 1
    BY <1>1, <2>2, <2>3 DEF QuotesHold
  <2>5. /\ copy.payment = old.payment /\ copy.accepted = old.accepted
        /\ copy.created = old.created /\ copy.expires = old.expires
    BY <1>10, <2>1, <2>2, <2>3
  <2> QED
    BY <1>6, <2>4, <2>5
<1>24. Sound(result)
  BY <1>13, <1>16, <1>17, <1>18, <1>19, <1>20, <1>21, <1>22, <1>23 DEF Sound, OtherReferencesHold
<1>25. \A b \in Booking : /\ bookings[b] = None <=> s.bookings[b] = None
                          /\ s.bookings[b] # None => bookings[b].status = s.bookings[b].status
  BY <1>4, <1>9, <1>10
<1> QED
  BY <1>13, <1>24, <1>25

-----------------------------------------------------------------------------
\* The operations

LEMMA ActorIsUser ==
  ASSUME NEW role, Sound(store), HasRole(store, Me, role)
  PROVE  Me \in User /\ store \in Envelope
BY DEF Sound, Envelope, HasRole, Me

LEMMA SyncStep ==
  ASSUME Sound(store), HasRole(store, Me, "customer"), NEW paid \in BOOLEAN, SyncFixedBooking(paid)
  PROVE  /\ Sound(store')
         /\ store'.bookings[FixedId(Me)] # None
         /\ store'.bookings[FixedId(Me)].status = SyncedStatus(CopyOf(store, Me), paid)
         /\ \A c \in Booking \ {FixedId(Me)} : store'.bookings[c] = store.bookings[c]
<1>1. Me \in User /\ store \in Envelope /\ None \notin BookingRecord
  BY ActorIsUser, PortalAssumption DEF PortalAssumption
<1>2. PICK b \in Booking : b = FixedId(Me)
  BY <1>1 DEF Booking
<1>3. PICK status : status = SyncedStatus(CopyOf(store, Me), paid)
  OBVIOUS
<1>4. PICK payment \in {None, "pending", "paid"} : payment = IF paid THEN "paid" ELSE "pending"
  OBVIOUS
<1>5. status \notin {"refused", CopyOf(store, Me)}
  BY <1>3 DEF SyncFixedBooking
<1>6. status \in {"confirmed", "pending_payment"}
  BY <1>3, <1>5 DEF SyncedStatus
<1>7. CopyOf(store, Me) # "absent" => store.bookings[b] # None
  BY <1>2 DEF CopyOf
<1>8. PICK booking : booking = IF CopyOf(store, Me) = "absent"
                                 THEN DepartureBooking(Me, "handoff", status, payment)
                                 ELSE [store.bookings[b] EXCEPT !.status = status, !.payment = payment]
  OBVIOUS
<1>9. booking \in BookingRecord /\ booking.source = "departure" /\ booking.status = status
  <2>1. CASE CopyOf(store, Me) = "absent"
    BY <1>1, <1>4, <1>6, <1>8, <2>1 DEF DepartureBooking, BookingRecord, FixedDeparture
  <2>2. CASE CopyOf(store, Me) # "absent"
    <3>1. PICK old \in BookingRecord : old = store.bookings[b]
      BY <1>1, <1>7, <2>2 DEF Envelope
    <3>2. old.source = "departure"
      BY <1>1, <1>2, <1>7, <2>2, <3>1 DEF Sound, KindsFit
    <3>3. booking = [old EXCEPT !.status = status, !.payment = payment]
      BY <1>8, <2>2, <3>1
    <3> QED
      BY <1>4, <1>6, <3>1, <3>2, <3>3, ZenonT(30) DEF BookingRecord
  <2> QED
    BY <2>1, <2>2
<1>10. PICK middle : middle = WithBooking(store, b, booking)
  OBVIOUS
<1>11. /\ middle \in Envelope /\ middle.requests = store.requests
       /\ middle.cancellations = store.cancellations
       /\ middle.bookings[b] = booking
       /\ \A c \in Booking \ {b} : middle.bookings[c] = store.bookings[c]
       /\ middle.departures = store.departures
  <2>1. booking \in BookingRecord /\ store \in Envelope
    BY <1>1, <1>9
  <2> QED
    BY <1>10, <2>1, SettingBooking
<1>12. PICK departures \in SUBSET FixedDeparture : departures = store.departures \cup {"handoff"}
  BY <1>1 DEF Envelope, FixedDeparture
<1>13. store' = [middle EXCEPT !.departures = departures]
  BY <1>2, <1>3, <1>4, <1>8, <1>10, <1>12
     DEF SyncFixedBooking, ValidateAndWrite, Write, WithBooking
<1>14. /\ store' \in Envelope /\ store'.requests = store.requests
       /\ store'.cancellations = store.cancellations
       /\ store'.bookings[b] = booking
       /\ \A c \in Booking \ {b} : store'.bookings[c] = store.bookings[c]
  BY <1>11, <1>12, <1>13 DEF Envelope
<1>15. Fits(store, b, booking)
  BY <1>1, <1>2, <1>9, IdentifiersDiffer DEF Fits
<1>16. PICK result : result = store'
  OBVIOUS
<1>17. CrossReferencesHold(result)
  BY <1>16 DEF SyncFixedBooking, ValidateAndWrite, Write
<1>18. KeysAreUnique(result)
  BY <1>14, <1>16 DEF Sound, KeysAreUnique
<1>19. Sound(store')
  BY <1>14, <1>15, <1>16, <1>17, <1>18, CheckedBookingIsSound
<1> QED
  BY <1>1, <1>2, <1>3, <1>9, <1>14, <1>19

LEMMA SubmitRequestStep ==
  ASSUME Sound(store), HasRole(store, Me, "customer"), NEW r \in NewRequest, NEW total \in Total,
         SubmitPersonalizedRequest(r, total)
  PROVE  Sound(store')
<1>1. Me \in User /\ store \in Envelope /\ r \in Request /\ store.requests[r] = None
      /\ KindsFit(store) /\ QuotesHold(store) /\ KeysAreUnique(store) /\ OtherReferencesHold(store)
  BY ActorIsUser DEF Request, SubmitPersonalizedRequest, Sound
<1>2. PICK request : request = NewRequestRecord(r, Me, total)
  OBVIOUS
<1>3. request \in RequestRecord /\ request.id = r
  BY <1>1, <1>2 DEF NewRequestRecord, RequestRecord
<1>4. PICK requests : requests = [store.requests EXCEPT ![r] = request]
  OBVIOUS
<1>5. /\ requests \in [Request -> RequestRecord \cup {None}] /\ requests[r] = request
      /\ \A q \in Request \ {r} : requests[q] = store.requests[q]
  BY <1>1, <1>3, <1>4 DEF Envelope
<1>6. PICK result : result = [store EXCEPT !.requests = requests]
  OBVIOUS
<1>7. store' = result /\ CrossReferencesHold(result)
  BY <1>2, <1>4, <1>6 DEF SubmitPersonalizedRequest, ValidateAndWrite, Write
<1>8. /\ result \in Envelope /\ result.requests = requests /\ result.bookings = store.bookings
      /\ result.cancellations = store.cancellations
  BY <1>1, <1>5, <1>6 DEF Envelope
<1>9. KeysAreUnique(result)
  BY <1>1, <1>8 DEF KeysAreUnique
<1>10. KindsFit(result)
  <2>1. \A q \in Request : requests[q] # None => requests[q].id = q
    BY <1>1, <1>3, <1>5 DEF KindsFit
  <2> QED
    BY <1>1, <1>8, <2>1 DEF KindsFit
<1>11. store.bookings[QuoteId(r)] = None
  <2> SUFFICES ASSUME store.bookings[QuoteId(r)] # None
               PROVE  FALSE
    OBVIOUS
  <2>1. QuoteId(r) \in Bookings(store)
    BY <1>1 DEF Bookings, Booking
  <2>2. PICK booking : booking = store.bookings[QuoteId(r)]
    OBVIOUS
  <2>3. booking.source = "quote" /\ booking.request # None /\ booking.request.id = r
    BY <1>1, <2>2 DEF KindsFit
  <2>4. QuoteReferencesHold(store, booking)
    BY <1>1, <2>1, <2>2, <2>3 DEF OtherReferencesHold, BookingReferencesHold
  <2> QED
    BY <1>1, <2>3, <2>4 DEF QuoteReferencesHold
<1>12. QuotesHold(result)
  <2>1. \A q \in Request : store.bookings[QuoteId(q)] # None => requests[q] = store.requests[q]
    BY <1>5, <1>11
  <2> QED
    BY <1>1, <1>8, <2>1 DEF QuotesHold
<1> QED
  BY <1>7, <1>8, <1>9, <1>10, <1>12 DEF Sound, CrossReferencesHold

(* A quote that is accepted or paid is still open, and stays what it is.   *)
LEMMA OpenQuoteStep ==
  ASSUME Sound(store), NEW b \in Booking, NEW old, old = store.bookings[b], old # None,
         NEW booking \in BookingRecord,
         booking.source = old.source, booking.request = old.request,
         booking.payment # "paid" \/ booking.source = "quote",
         booking.payment = "paid" => booking.accepted # None,
         NEW result, result = WithBooking(store, b, booking),
         CrossReferencesHold(result)
  PROVE  Sound(result)
<1>1. store \in Envelope /\ KeysAreUnique(store) /\ b \in Bookings(store)
  BY DEF Sound, Bookings
<1>2. /\ result \in Envelope /\ result.requests = store.requests
      /\ result.cancellations = store.cancellations
      /\ result.bookings[b] = booking
      /\ \A c \in Booking \ {b} : result.bookings[c] = store.bookings[c]
  <2>1. store \in Envelope
    BY <1>1
  <2> QED
    BY <2>1, SettingBooking
<1>3. booking # None
  BY PortalAssumption DEF PortalAssumption
<1>4. booking.payment = "paid" => booking.accepted \in booking.created .. booking.expires - 1
  <2> SUFFICES ASSUME booking.payment = "paid"
               PROVE  booking.accepted \in booking.created .. booking.expires - 1
    OBVIOUS
  <2>1. b \in Bookings(result) /\ BookingReferencesHold(result)
    BY <1>2, <1>3 DEF Bookings, CrossReferencesHold, OtherReferencesHold
  <2>2. QuoteReferencesHold(result, booking)
    BY <1>2, <2>1 DEF BookingReferencesHold
  <2> QED
    BY <2>2 DEF QuoteReferencesHold
<1>5. Fits(store, b, booking)
  <2>1. booking.source = store.bookings[b].source /\ booking.request = store.bookings[b].request
    OBVIOUS
  <2>2. booking.payment # "paid" \/ booking.accepted \in booking.created .. booking.expires - 1
    BY <1>4
  <2> QED
    BY <1>1, <2>1, <2>2, StillFits
<1>6. KeysAreUnique(result)
  BY <1>1, <1>2 DEF KeysAreUnique
<1> QED
  BY <1>2, <1>5, <1>6, CheckedBookingIsSound

LEMMA AcceptStep ==
  ASSUME Sound(store), NEW b \in Booking, AcceptPersonalizedQuote(b), clock \in Nat
  PROVE  Sound(store')
<1>1. PICK old : old = store.bookings[b]
  OBVIOUS
<1>2. old # None /\ old.source = "quote" /\ old.payment = None /\ old \in BookingRecord
  BY <1>1 DEF AcceptPersonalizedQuote, MyOpenQuote, Sound, Envelope
<1>3. PICK booking : booking = [old EXCEPT !.accepted = IF @ = None THEN clock ELSE @]
  OBVIOUS
<1>4. /\ booking \in BookingRecord /\ booking.source = old.source /\ booking.request = old.request
      /\ booking.payment = old.payment
  BY <1>2, <1>3 DEF BookingRecord
<1>5. booking.payment # "paid"
  BY <1>2, <1>4, PortalAssumption DEF PortalAssumption
<1>6. PICK result : result = WithBooking(store, b, booking)
  OBVIOUS
<1>7. store' = result /\ CrossReferencesHold(result)
  BY <1>1, <1>3, <1>6 DEF AcceptPersonalizedQuote, ValidateAndWrite, Write, WithBooking
<1> QED
  BY <1>1, <1>2, <1>4, <1>5, <1>6, <1>7, OpenQuoteStep

LEMMA CompleteStep ==
  ASSUME Sound(store), NEW b \in Booking, CompletePersonalizedCheckout(b)
  PROVE  Sound(store')
<1>1. PICK old : old = store.bookings[b]
  OBVIOUS
<1>2. old # None /\ old.source = "quote" /\ old.accepted # None /\ old \in BookingRecord
  BY <1>1 DEF CompletePersonalizedCheckout, MyOpenQuote, Sound, Envelope
<1>3. PICK booking : booking = [old EXCEPT !.status = "confirmed", !.payment = "paid"]
  OBVIOUS
<1>4. /\ booking \in BookingRecord /\ booking.source = old.source /\ booking.request = old.request
      /\ booking.accepted = old.accepted
  BY <1>2, <1>3 DEF BookingRecord
<1>5. PICK result : result = WithBooking(store, b, booking)
  OBVIOUS
<1>6. store' = result /\ CrossReferencesHold(result)
  BY <1>1, <1>3, <1>5 DEF CompletePersonalizedCheckout, ValidateAndWrite, Write, WithBooking
<1>7. booking.source = "quote" /\ booking.accepted # None
  BY <1>2, <1>4
<1> QED
  BY <1>1, <1>2, <1>4, <1>5, <1>6, <1>7, OpenQuoteStep

LEMMA CancelBookingStep ==
  ASSUME Sound(store), HasRole(store, Me, "customer"), NEW b \in Booking, NEW key \in CancelKey,
         CancelBooking(b, key)
  PROVE  /\ Sound(store')
         /\ store.bookings[b] # None /\ store.bookings[b].status = "pending_payment"
         /\ store'.bookings[b] # None /\ store'.bookings[b].status = "cancelled"
         /\ \A c \in Booking \ {b} : store'.bookings[c] = store.bookings[c]
<1>1. PICK old : old = store.bookings[b]
  OBVIOUS
<1>2. /\ old # None /\ old \in BookingRecord /\ Me \in User /\ store \in Envelope
      /\ b \in Bookings(store) /\ KeysAreUnique(store)
      /\ \A event \in store.cancellations :
           event.booking # b /\ ~(event.customer = Me /\ event.key = key)
  BY <1>1, ActorIsUser DEF CancelBooking, Sound, Envelope, Bookings
<1>3. PICK booking : booking = [old EXCEPT !.status = "cancelled", !.payment = None,
                                           !.accepted = IF old.source = "quote" THEN None ELSE @]
  OBVIOUS
<1>4. /\ booking \in BookingRecord /\ booking.source = old.source /\ booking.request = old.request
      /\ booking.payment = None /\ booking.status = "cancelled"
  BY <1>2, <1>3 DEF BookingRecord
<1>5. PICK event : event = [booking |-> b, customer |-> Me, key |-> key, source |-> old.source]
  OBVIOUS
<1>6. event \in Cancellation /\ event.booking = b /\ event.customer = Me /\ event.key = key
  BY <1>2, <1>5 DEF Cancellation, BookingRecord
<1>7. PICK cancellations \in SUBSET Cancellation : cancellations = store.cancellations \cup {event}
  BY <1>2, <1>6 DEF Envelope
<1>8. PICK middle : middle = WithBooking(store, b, booking)
  OBVIOUS
<1>9. /\ middle \in Envelope /\ middle.requests = store.requests
      /\ middle.bookings[b] = booking
      /\ \A c \in Booking \ {b} : middle.bookings[c] = store.bookings[c]
      /\ middle.cancellations = store.cancellations
  <2>1. booking \in BookingRecord /\ store \in Envelope
    BY <1>2, <1>4
  <2> QED
    BY <1>8, <2>1, SettingBooking
<1>10. PICK result : result = [middle EXCEPT !.cancellations = cancellations]
  OBVIOUS
<1>11. /\ result \in Envelope /\ result.requests = store.requests
       /\ result.bookings[b] = booking
       /\ \A c \in Booking \ {b} : result.bookings[c] = store.bookings[c]
       /\ result.cancellations = cancellations
  BY <1>7, <1>9, <1>10 DEF Envelope
<1>12. store' = result /\ CrossReferencesHold(result)
  <2>1. /\ store' = [store EXCEPT !.bookings[b] = booking, !.cancellations = cancellations]
        /\ CrossReferencesHold(store')
    <3>1. cancellations = store.cancellations \cup {[booking |-> b, customer |-> Me, key |-> key,
                                                     source |-> store.bookings[b].source]}
      BY <1>1, <1>5, <1>7
    <3>2. booking = [store.bookings[b] EXCEPT !.status = "cancelled", !.payment = None,
                       !.accepted = IF store.bookings[b].source = "quote" THEN None ELSE @]
      BY <1>1, <1>3
    <3>3. ValidateAndWrite([store EXCEPT !.bookings[b] = booking, !.cancellations = cancellations])
      BY <3>1, <3>2 DEF CancelBooking
    <3> QED
      BY <3>3 DEF ValidateAndWrite, Write
  <2>2. result = [store EXCEPT !.bookings[b] = booking, !.cancellations = cancellations]
    BY <1>2, <1>8, <1>10 DEF WithBooking, Envelope
  <2> QED
    BY <2>1, <2>2
<1>13. KeysAreUnique(result)
  <2> SUFFICES ASSUME NEW e \in cancellations, NEW f \in cancellations,
                      e.booking = f.booking \/ (e.customer = f.customer /\ e.key = f.key)
               PROVE  e = f
    BY <1>11 DEF KeysAreUnique
  <2> QED
    BY <1>2, <1>6, <1>7 DEF KeysAreUnique
<1>14. booking.payment # "paid"
  BY <1>4, PortalAssumption DEF PortalAssumption
<1>15. Fits(store, b, booking)
  BY <1>1, <1>2, <1>4, <1>14, StillFits
<1>16. Sound(store')
  BY <1>11, <1>12, <1>13, <1>15, CheckedBookingIsSound
<1>17. booking # None /\ old.status = "pending_payment"
  BY <1>1, <1>4, PortalAssumption DEF PortalAssumption, CancelBooking
<1> QED
  BY <1>1, <1>2, <1>4, <1>11, <1>12, <1>16, <1>17

LEMMA IssueStep ==
  ASSUME Sound(store), NEW r \in Request, IssueDemoQuote(r), clock \in Nat
  PROVE  Sound(store')
<1>1. PICK request : request = store.requests[r]
  OBVIOUS
<1>2. /\ request # None /\ request.status = "approved" /\ request \in RequestRecord
      /\ request.id = r /\ store \in Envelope /\ KeysAreUnique(store)
  BY <1>1 DEF IssueDemoQuote, Sound, Envelope, KindsFit
<1>3. PICK b \in Booking : b = QuoteId(r)
  BY DEF Booking
<1>4. PICK booking : booking = QuoteBooking(request, "pending_payment", None, clock, None)
  OBVIOUS
<1>5. booking \in BookingRecord /\ booking.source = "quote" /\ booking.request = request
      /\ booking.payment = None
  <2>1. request.owner \in User /\ request.total \in Nat
    BY <1>2, PortalAssumption DEF PortalAssumption, RequestRecord
  <2>2. clock + QuoteValidity \in Nat
    BY PortalAssumption DEF PortalAssumption
  <2> QED
    BY <1>2, <1>4, <2>1, <2>2 DEF QuoteBooking, BookingRecord
<1>6. PICK result : result = WithBooking(store, b, booking)
  OBVIOUS
<1>7. /\ result \in Envelope /\ result.requests = store.requests
      /\ result.cancellations = store.cancellations
      /\ result.bookings[b] = booking
      /\ \A c \in Booking \ {b} : result.bookings[c] = store.bookings[c]
  <2>1. booking \in BookingRecord /\ store \in Envelope
    BY <1>2, <1>5
  <2> QED
    BY <1>6, <2>1, SettingBooking
<1>8. store' = result /\ CrossReferencesHold(result)
  BY <1>1, <1>3, <1>4, <1>6 DEF IssueDemoQuote, ValidateAndWrite, Write, WithBooking
<1>9. KeysAreUnique(result)
  BY <1>2, <1>7 DEF KeysAreUnique
<1>10. Fits(store, b, booking)
  <2>1. \A u \in User : b # FixedId(u)
    BY <1>3, IdentifiersDiffer
  <2>2. \A q \in Request : b = QuoteId(q) => q = r
    BY <1>3, IdentifiersDiffer
  <2>3. booking.payment # "paid"
    BY <1>5, PortalAssumption DEF PortalAssumption
  <2> QED
    BY <1>1, <1>2, <1>5, <2>1, <2>2, <2>3 DEF Fits
<1> QED
  BY <1>7, <1>8, <1>9, <1>10, CheckedBookingIsSound

LEMMA ReviewStep ==
  ASSUME Sound(store), HasRole(store, Me, "customer"), NEW b \in Booking, SubmitTourReview(b)
  PROVE  Sound(store')
<1>1. PICK u \in User : u = Me
  BY ActorIsUser
<1>2. PICK result :
        result = [store EXCEPT !.reviews = store.reviews \cup {[booking |-> b, customer |-> u]}]
  OBVIOUS
<1>3. store' = result
  BY <1>1, <1>2 DEF SubmitTourReview, Write
<1>4. /\ b \in Bookings(store) /\ store.bookings[b].owner = u
      /\ store.bookings[b].status = "completed"
      /\ \A review \in store.reviews : review.booking # b
  BY <1>1 DEF SubmitTourReview, Bookings
<1> QED
  BY <1>1, <1>2, <1>3, <1>4, ReviewingIsSound

LEMMA DecideStep ==
  ASSUME Sound(store), NEW r \in Request,
         NEW decision \in {"changes_requested", "approved", "rejected"},
         ReviewPersonalizedRequest(r, decision)
  PROVE  /\ Sound(store')
         /\ \A b \in Booking : /\ store'.bookings[b] = None <=> store.bookings[b] = None
                               /\ store.bookings[b] # None =>
                                    store'.bookings[b].status = store.bookings[b].status
<1>1. PICK reviewed : reviewed = ReviewedAs(store.requests[r], decision)
  OBVIOUS
<1>2. PICK result : result = DecidedEnvelope(store, r, reviewed)
  OBVIOUS
<1>3. store' = result
  BY <1>1, <1>2
     DEF ReviewPersonalizedRequest, Write, Decided, DecidedEnvelope, ReviewedAs
<1>4. /\ r \in Requests(store)
      /\ store.requests[r].status \in {"pending_review", "changes_requested"}
  BY DEF ReviewPersonalizedRequest, Requests
<1> QED
  BY <1>1, <1>2, <1>3, <1>4, DecidingIsSound

LEMMA AssignStep ==
  ASSUME Sound(store), NEW b \in Booking, NEW u \in User, AssignGuideToFixedDeparture(b, u)
  PROVE  /\ Sound(store')
         /\ store'.bookings[b] # None /\ store'.bookings[b].status = store.bookings[b].status
         /\ \A c \in Booking \ {b} : store'.bookings[c] = store.bookings[c]
<1>1. /\ b \in Bookings(store) /\ HasRole(store, u, "guide") /\ store \in Envelope
      /\ store.bookings[b].status = "confirmed" /\ store.bookings[b].source = "departure"
  BY DEF AssignGuideToFixedDeparture, Bookings, Sound
<1>2. PICK result : result = AssignedEnvelope(store, b, u)
  OBVIOUS
<1>3. store' = result
  BY <1>1, <1>2 DEF AssignGuideToFixedDeparture, Write, AssignedEnvelope, WithBooking, Envelope
<1> QED
  BY <1>1, <1>2, <1>3, AssigningIsSound

LEMMA RoleStep ==
  ASSUME Sound(store), NEW u \in User, NEW role \in Role, UpdateUserRole(u, role)
  PROVE  Sound(store')
<1>1. PICK result : result = [store EXCEPT !.role = [store.role EXCEPT ![u] = role]]
  OBVIOUS
<1>2. store' = result
  BY <1>1 DEF UpdateUserRole, Write
<1> QED
  BY <1>1, <1>2, ChangingRoleIsSound DEF UpdateUserRole

LEMMA SessionStep ==
  ASSUME Sound(store), SessionOperation
  PROVE  Sound(store')
<1>1. PICK u \in User \cup {None} : store' = [store EXCEPT !.session = u]
  BY PortalAssumption
     DEF PortalAssumption, SessionOperation, SelectDemoIdentity, SignOut, Write
<1>2. PICK result : result = [store EXCEPT !.session = u]
  OBVIOUS
<1> QED
  BY <1>1, <1>2, SigningInIsSound

-----------------------------------------------------------------------------
\* The portal as a whole

LEMMA PortalInitially == PortalInit => PortalInv
BY PortalAssumption DEF PortalAssumption, PortalInit, PortalInv

LEMMA OperationKeepsSound ==
  ASSUME PortalInv, store # None,
         \/ SessionOperation
         \/ HasRole(store, Me, "customer") /\ CustomerOperation
         \/ HasRole(store, Me, "admin") /\ AdminOperation
  PROVE  Sound(store')
<1>1. Sound(store) /\ clock \in Nat /\ RoleTarget \subseteq User
  BY PortalAssumption DEF PortalAssumption, PortalInv
<1>2. CASE SessionOperation
  BY <1>1, <1>2, SessionStep
<1>3. CASE HasRole(store, Me, "customer") /\ CustomerOperation
  <2>1. ASSUME NEW paid \in BOOLEAN, SyncFixedBooking(paid)
        PROVE  Sound(store')
    BY <1>1, <1>3, <2>1, SyncStep
  <2>2. ASSUME NEW r \in NewRequest, NEW total \in Total, SubmitPersonalizedRequest(r, total)
        PROVE  Sound(store')
    BY <1>1, <1>3, <2>2, SubmitRequestStep
  <2>3. ASSUME NEW b \in Booking, AcceptPersonalizedQuote(b)
        PROVE  Sound(store')
    BY <1>1, <2>3, AcceptStep
  <2>4. ASSUME NEW b \in Booking, CompletePersonalizedCheckout(b)
        PROVE  Sound(store')
    BY <1>1, <2>4, CompleteStep
  <2>5. ASSUME NEW b \in Booking, NEW key \in CancelKey, CancelBooking(b, key)
        PROVE  Sound(store')
    BY <1>1, <1>3, <2>5, CancelBookingStep
  <2>6. ASSUME NEW b \in Booking, SubmitTourReview(b)
        PROVE  Sound(store')
    BY <1>1, <1>3, <2>6, ReviewStep
  <2> QED
    BY <1>3, <2>1, <2>2, <2>3, <2>4, <2>5, <2>6 DEF CustomerOperation
<1>4. CASE HasRole(store, Me, "admin") /\ AdminOperation
  <2>1. ASSUME NEW r \in Request, NEW decision \in {"changes_requested", "approved", "rejected"},
               ReviewPersonalizedRequest(r, decision)
        PROVE  Sound(store')
    BY <1>1, <2>1, DecideStep
  <2>2. ASSUME NEW r \in Request, IssueDemoQuote(r)
        PROVE  Sound(store')
    BY <1>1, <2>2, IssueStep
  <2>3. ASSUME NEW b \in Booking, NEW u \in User, AssignGuideToFixedDeparture(b, u)
        PROVE  Sound(store')
    BY <1>1, <2>3, AssignStep
  <2>4. ASSUME NEW u \in RoleTarget, NEW role \in Role, UpdateUserRole(u, role)
        PROVE  Sound(store')
    BY <1>1, <2>4, RoleStep
  <2> QED
    BY <1>4, <2>1, <2>2, <2>3, <2>4 DEF AdminOperation
<1> QED
  BY <1>2, <1>3, <1>4

Operates ==
  \/ Readable(store) /\ SessionOperation
  \/ Acting("customer") /\ CustomerOperation
  \/ Acting("admin") /\ AdminOperation

LEMMA PortalStep ==
  ASSUME PortalInv, [PortalNext]_portalVars
  PROVE  PortalInv'
<1>1. MaxTime \in Nat /\ clock \in 0 .. MaxTime
  BY PortalAssumption DEF PortalAssumption, PortalInv
<1>2. ASSUME Sound(store'), clock' = clock
      PROVE  PortalInv'
  BY <1>1, <1>2 DEF PortalInv, Sound, OtherReferencesHold, EveryRoleIsHeld
<1>3. CASE Initialize \/ Reset
  BY <1>1, <1>2, <1>3, FixtureIsSound DEF Initialize, Reset, Write
<1>4. CASE UNCHANGED portalVars
  BY <1>1, <1>2, <1>4 DEF portalVars, PortalInv
<1>5. CASE Tick
  <2>1. clock' \in 0 .. MaxTime
    BY <1>1, <1>5 DEF Tick
  <2>2. store' = None \/ Sound(store')
    BY <1>5 DEF Tick, PortalInv
  <2> QED
    BY <2>1, <2>2 DEF PortalInv, Sound, OtherReferencesHold, EveryRoleIsHeld
<1>6. CASE Operates
  <2>1. store # None /\ clock' = clock
    BY <1>6 DEF Operates, Readable, Acting, SessionOperation, SelectDemoIdentity, SignOut, Write,
       CustomerOperation, SyncFixedBooking, SubmitPersonalizedRequest, AcceptPersonalizedQuote,
       CompletePersonalizedCheckout, CancelBooking, SubmitTourReview, AdminOperation,
       ReviewPersonalizedRequest, IssueDemoQuote, AssignGuideToFixedDeparture, UpdateUserRole,
       ValidateAndWrite
  <2>2. \/ SessionOperation
        \/ HasRole(store, Me, "customer") /\ CustomerOperation
        \/ HasRole(store, Me, "admin") /\ AdminOperation
    BY <1>6 DEF Operates, Acting, Me
  <2> QED
    BY <1>2, <2>1, <2>2, OperationKeepsSound
<1> QED
  BY <1>3, <1>4, <1>5, <1>6 DEF PortalNext, Operates

LEMMA PortalInvariant == PortalSpec => []PortalInv
<1>1. PortalInv /\ [PortalNext]_portalVars => PortalInv'
  BY PortalStep
<1> QED
  BY PortalInitially, <1>1, PTL DEF PortalSpec

-----------------------------------------------------------------------------
\* The properties of the portal

(* Whatever the identities do in whatever order, also by the operations    *)
(* that write unchecked, the next read finds every rule of the envelope    *)
(* kept but those on the owners of requests and on the length of the lists *)
(* (validateCrossReferences and the uniqueness of parseEnvelope).          *)
THEOREM EnvelopeStaysSound == PortalSpec => []EnvelopeIsSound
<1>1. PortalInv => EnvelopeIsSound
  BY DEF PortalInv, Sound, EnvelopeIsSound
<1> QED
  BY PortalInvariant, <1>1, PTL

(* A quote's request stays approved, and what is paid was accepted in time *)
(* (issueDemoQuote, reviewPersonalizedRequest, acceptPersonalizedQuote).   *)
THEOREM QuotesKeepTheirApproval == PortalSpec => []QuotesAreForApprovedRequests
<1>1. PortalInv => QuotesAreForApprovedRequests
  BY DEF PortalInv, Sound, QuotesHold, QuotesAreForApprovedRequests
<1> QED
  BY PortalInvariant, <1>1, PTL

(* Both stores hold what the parsers of the code accept.                   *)
THEOREM DemonstrationTypes == PortalSpec /\ LocalSpec => []DemoTypeOK
<1>1. PortalInv /\ LocalInv => DemoTypeOK
  <2> SUFFICES ASSUME PortalInv, LocalInv
               PROVE  DemoTypeOK
    OBVIOUS
  <2>1. store \in Envelope \cup {None}
    BY DEF PortalInv, Sound
  <2>2. saved # NoBooking => IsLocalBooking(saved)
    BY DEF LocalInv, BookingIsSound, LocalBooking, IsLocalBooking
  <2>3. \A t \in Tab : tab[t].phase \in {"idle", "processing", "success"} \cup Failures
    <3>1. \A t \in Tab : tab[t] \in TabState
      BY DEF LocalInv
    <3> QED
      BY <3>1 DEF TabState
  <2> QED
    BY <2>1, <2>2, <2>3 DEF PortalInv, LocalInv, DemoTypeOK
<1> QED
  BY PortalInvariant, LocalInvariant, <1>1, PTL

-----------------------------------------------------------------------------
\* The portal's copy of a local booking

(* What a step may do to the copy of the user u.                           *)
MovesAsHandedOver(u) ==
  \/ CopyOf(store', u) = CopyOf(store, u)
  \/ store' = Fixture
  \/ \E paid \in BOOLEAN : CopyOf(store', u) = SyncedStatus(CopyOf(store, u), paid)
  \/ CopyOf(store, u) = "pending_payment" /\ CopyOf(store', u) = "cancelled"

(* A step on a booking that is not the copy leaves the copy alone.         *)
LEMMA OtherBookingMoves ==
  ASSUME NEW u \in User, store # None, store' # None, NEW b \in Booking, b # FixedId(u),
         \A c \in Booking \ {b} : store'.bookings[c] = store.bookings[c]
  PROVE  MovesAsHandedOver(u)
<1>1. store'.bookings[FixedId(u)] = store.bookings[FixedId(u)]
  BY DEF Booking
<1> QED
  BY <1>1 DEF MovesAsHandedOver, CopyOf

(* One that keeps the status keeps the copy as well.                       *)
LEMMA SameStatusMoves ==
  ASSUME NEW u \in User, store # None, store' # None,
         \A c \in Booking : /\ store'.bookings[c] = None <=> store.bookings[c] = None
                            /\ store.bookings[c] # None =>
                                 store'.bookings[c].status = store.bookings[c].status
  PROVE  MovesAsHandedOver(u)
<1>1. FixedId(u) \in Booking
  BY DEF Booking
<1> QED
  BY <1>1 DEF MovesAsHandedOver, CopyOf

LEMMA OperationMovesCopy ==
  ASSUME PortalInv, store # None, NEW u \in User, Sound(store'),
         \/ SessionOperation
         \/ HasRole(store, Me, "customer") /\ CustomerOperation
         \/ HasRole(store, Me, "admin") /\ AdminOperation
  PROVE  MovesAsHandedOver(u)
<1>1. /\ Sound(store) /\ store \in Envelope /\ store' # None /\ clock \in Nat
      /\ FixedId(u) \in Booking
  BY PortalAssumption DEF PortalAssumption, PortalInv, Sound, Booking
<1>2. ASSUME store'.bookings = store.bookings
      PROVE  MovesAsHandedOver(u)
  BY <1>1, <1>2 DEF MovesAsHandedOver, CopyOf
<1>3. CASE SessionOperation
  BY <1>1, <1>2, <1>3 DEF SessionOperation, SelectDemoIdentity, SignOut, Write, Envelope
<1>4. ASSUME HasRole(store, Me, "customer"), NEW paid \in BOOLEAN, SyncFixedBooking(paid)
      PROVE  MovesAsHandedOver(u)
  <2>1. /\ store'.bookings[FixedId(Me)] # None
        /\ store'.bookings[FixedId(Me)].status = SyncedStatus(CopyOf(store, Me), paid)
        /\ \A c \in Booking \ {FixedId(Me)} : store'.bookings[c] = store.bookings[c]
    BY <1>1, <1>4, SyncStep
  <2>2. CASE u = Me
    BY <1>1, <2>1, <2>2 DEF MovesAsHandedOver, CopyOf
  <2>3. CASE u # Me
    <3>1. Me \in User
      BY <1>1, <1>4, ActorIsUser
    <3>2. FixedId(u) # FixedId(Me)
      BY <2>3, <3>1, IdentifiersDiffer
    <3>3. store'.bookings[FixedId(u)] = store.bookings[FixedId(u)]
      BY <1>1, <2>1, <3>2
    <3> QED
      BY <1>1, <3>3 DEF MovesAsHandedOver, CopyOf
  <2> QED
    BY <2>2, <2>3
<1>5. ASSUME NEW r, NEW total, SubmitPersonalizedRequest(r, total)
      PROVE  MovesAsHandedOver(u)
  BY <1>1, <1>2, <1>5 DEF SubmitPersonalizedRequest, ValidateAndWrite, Write, Envelope
<1>6. ASSUME NEW b \in Booking, AcceptPersonalizedQuote(b) \/ CompletePersonalizedCheckout(b)
      PROVE  MovesAsHandedOver(u)
  <2>1. store.bookings[b] # None /\ store.bookings[b].source = "quote"
    BY <1>6 DEF AcceptPersonalizedQuote, CompletePersonalizedCheckout, MyOpenQuote
  <2>2. b # FixedId(u)
    BY <1>1, <2>1 DEF Sound, KindsFit
  <2>3. \A c \in Booking \ {b} : store'.bookings[c] = store.bookings[c]
    BY <1>1, <1>6, ZenonT(30)
       DEF AcceptPersonalizedQuote, CompletePersonalizedCheckout, ValidateAndWrite, Write, Envelope
  <2> QED
    BY <1>1, <2>2, <2>3, OtherBookingMoves
<1>7. ASSUME HasRole(store, Me, "customer"), NEW b \in Booking, NEW key \in CancelKey,
             CancelBooking(b, key)
      PROVE  MovesAsHandedOver(u)
  <2>1. /\ store.bookings[b] # None /\ store.bookings[b].status = "pending_payment"
        /\ store'.bookings[b] # None /\ store'.bookings[b].status = "cancelled"
        /\ \A c \in Booking \ {b} : store'.bookings[c] = store.bookings[c]
    BY <1>1, <1>7, CancelBookingStep
  <2>2. CASE b = FixedId(u)
    BY <1>1, <2>1, <2>2 DEF MovesAsHandedOver, CopyOf
  <2>3. CASE b # FixedId(u)
    BY <1>1, <2>1, <2>3, OtherBookingMoves
  <2> QED
    BY <2>2, <2>3
<1>8. ASSUME NEW b, SubmitTourReview(b)
      PROVE  MovesAsHandedOver(u)
  BY <1>1, <1>2, <1>8 DEF SubmitTourReview, Write, Envelope
<1>9. ASSUME NEW r \in Request, NEW decision \in {"changes_requested", "approved", "rejected"},
             ReviewPersonalizedRequest(r, decision)
      PROVE  MovesAsHandedOver(u)
  BY <1>1, <1>9, DecideStep, SameStatusMoves
<1>10. ASSUME NEW r \in Request, IssueDemoQuote(r)
       PROVE  MovesAsHandedOver(u)
  <2>1. PICK b \in Booking : b = QuoteId(r)
    BY DEF Booking
  <2>2. \A c \in Booking \ {b} : store'.bookings[c] = store.bookings[c]
    BY <1>1, <1>10, <2>1 DEF IssueDemoQuote, ValidateAndWrite, Write, Envelope
  <2>3. b # FixedId(u)
    BY <2>1, IdentifiersDiffer
  <2> QED
    BY <1>1, <2>2, <2>3, OtherBookingMoves
<1>11. ASSUME NEW b \in Booking, NEW v \in User, AssignGuideToFixedDeparture(b, v)
       PROVE  MovesAsHandedOver(u)
  <2>1. /\ store'.bookings[b] # None /\ store'.bookings[b].status = store.bookings[b].status
        /\ \A c \in Booking \ {b} : store'.bookings[c] = store.bookings[c]
    BY <1>1, <1>11, AssignStep
  <2>2. store.bookings[b] # None
    BY <1>11 DEF AssignGuideToFixedDeparture
  <2> QED
    BY <1>1, <2>1, <2>2, SameStatusMoves
<1>12. ASSUME NEW v, NEW role, UpdateUserRole(v, role)
       PROVE  MovesAsHandedOver(u)
  BY <1>1, <1>2, <1>12 DEF UpdateUserRole, Write, Envelope
<1> QED
  BY <1>3, <1>4, <1>5, <1>6, <1>7, <1>8, <1>9, <1>10, <1>11, <1>12
     DEF CustomerOperation, AdminOperation

LEMMA StepMovesCopy ==
  ASSUME PortalInv, PortalNext, store' # store, NEW u \in User
  PROVE  MovesAsHandedOver(u)
<1>1. CASE Initialize \/ Reset
  BY <1>1 DEF Initialize, Reset, Write, MovesAsHandedOver
<1>2. CASE Tick
  BY <1>2 DEF Tick
<1>3. CASE Operates
  <2>1. store # None
    BY <1>3 DEF Operates, Readable, Acting
  <2>2. \/ SessionOperation
        \/ HasRole(store, Me, "customer") /\ CustomerOperation
        \/ HasRole(store, Me, "admin") /\ AdminOperation
    BY <1>3 DEF Operates, Acting, Me
  <2>3. Sound(store')
    BY <2>1, <2>2, OperationKeepsSound
  <2> QED
    BY <2>1, <2>2, <2>3, OperationMovesCopy
<1> QED
  BY <1>1, <1>2, <1>3 DEF PortalNext, Operates

(* Between resets no operation moves the copy of a local booking but as    *)
(* the checkout hands it over or from awaiting payment to cancelled        *)
(* (syncFixedBooking, cancelBooking).                                      *)
THEOREM CopiesFollowHandoffs == PortalSpec => CopyFollowsHandoff
<1>1. PortalInv /\ [PortalNext]_portalVars =>
        [\A u \in Booker : CopyOf(store', u) # CopyOf(store, u) =>
           \/ store' = Fixture
           \/ \E paid \in BOOLEAN : CopyOf(store', u) = SyncedStatus(CopyOf(store, u), paid)
           \/ CopyOf(store, u) = "pending_payment" /\ CopyOf(store', u) = "cancelled"]_store
  <2> SUFFICES ASSUME PortalInv, [PortalNext]_portalVars, store' # store,
                      NEW u \in Booker, CopyOf(store', u) # CopyOf(store, u)
               PROVE  \/ store' = Fixture
                      \/ \E paid \in BOOLEAN : CopyOf(store', u) = SyncedStatus(CopyOf(store, u), paid)
                      \/ CopyOf(store, u) = "pending_payment" /\ CopyOf(store', u) = "cancelled"
    OBVIOUS
  <2>1. u \in User /\ PortalNext
    BY PortalAssumption DEF PortalAssumption, portalVars
  <2> QED
    BY <2>1, StepMovesCopy DEF MovesAsHandedOver
<1> QED
  BY PortalInvariant, <1>1, PTL DEF PortalSpec, CopyFollowsHandoff
=============================================================================
