----------------------------- MODULE DemoCheckout -----------------------------
(***************************************************************************)
(* The demonstration checkout: a customer books one departure and pays for *)
(* it in one of several tabs.  The booking is one record of the browser's  *)
(* local storage, which the tabs share and each reads and replaces whole;  *)
(* what a tab shows, its payment timer and its portal (session storage)    *)
(* are its own.  A tab works on a copy of the booking that grows stale     *)
(* when another tab pays.                                                  *)
(*                                                                         *)
(* A click, and the payment timer, run to the end before anything else of  *)
(* that tab happens: the promises they await are settled already.          *)
(***************************************************************************)
EXTENDS DemoHandoff, Naturals, Sequences

CONSTANTS
  Tab,             \* the tabs the customer has open
  HoldMinutes,     \* how long a local booking is held
  SessionMinutes,  \* how long a payment session lasts
  AttemptLimit,    \* the longest list of payment attempts
  LastMinute       \* bound on the clock

VARIABLES
  saved,           \* the booking in local storage
  tab,             \* what each tab shows and remembers
  portal,          \* the status of each portal's copy of the booking
  minute           \* the clock

localVars == <<saved, tab, portal, minute>>

LocalAssumption ==
  /\ SessionMinutes \in Nat \ {0} /\ HoldMinutes \in Nat /\ SessionMinutes <= HoldMinutes
  /\ AttemptLimit \in Nat \ {0} /\ LastMinute \in Nat
ASSUME LocalAssumption

\* A tab without a booking: the form.  "seen" counts the attempts of its copy.
ClosedTab == [seen |-> None, phase |-> "idle", error |-> "none", key |-> None, timer |-> None]

Failures == {"failed", "cancelled", "expired", "error"}

-----------------------------------------------------------------------------
\* The local booking

NoBooking == [status |-> "absent", hold |-> 0, session |-> 0, attempts |-> <<>>]

NewBooking ==
  [status |-> "held", hold |-> minute + HoldMinutes, session |-> minute + SessionMinutes,
   attempts |-> <<>>]

StillActive(booking) ==
  booking.status = "paid" \/ (booking.hold > minute /\ booking.session > minute)

\* Mutant: a paid booking is resumed only while its hold lasts.
ResumedWhileHeld ==
  IF saved.hold > minute /\ saved.session > minute THEN saved ELSE NewBooking

\* A booking that is held no longer is replaced, whatever its attempts.
CreatedOrResumed == IF StillActive(saved) THEN saved ELSE NewBooking

Prior(booking, key) == {i \in DOMAIN booking.attempts : booking.attempts[i].key = key}
Successes(booking) == {i \in DOMAIN booking.attempts : booking.attempts[i].outcome = "succeeded"}
Finish(booking, i, outcome) == [booking EXCEPT !.attempts[i].outcome = outcome]

\* The end of the session of an attempt that starts now.
SessionEnd(booking) ==
  IF booking.attempts = <<>> \/ minute < booking.session THEN booking.session
  ELSE IF minute + SessionMinutes < booking.hold THEN minute + SessionMinutes
  ELSE booking.hold

WithAttempt(booking, key, t) ==
  [booking EXCEPT
     !.session = SessionEnd(booking),
     !.attempts = Append(@, [key |-> key, expires |-> SessionEnd(booking), by |-> t,
                             outcome |-> IF minute >= SessionEnd(booking) THEN "expired"
                                                                          ELSE "pending"])]

\* A call's answer: the booking it leaves, and why it threw if it did.
Answer(booking) == [booking |-> booking, error |-> "none"]
Thrown(reason) == [booking |-> saved, error |-> reason]

\* Mutant: one attempt too many is accepted.
StartedOneMore(booking, key, t) ==
  IF Prior(booking, key) # {} THEN Answer(booking)
  ELSE IF minute >= booking.hold THEN Thrown("holdExpired")
  ELSE IF booking.status = "paid" \/ Len(booking.attempts) > AttemptLimit THEN Thrown("generic")
  ELSE Answer(WithAttempt(booking, key, t))

\* The attempt with this key, started now unless there is one.
Started(booking, key, t) ==
  IF Prior(booking, key) # {} THEN
    LET i == CHOOSE i \in Prior(booking, key) : TRUE IN
      IF booking.attempts[i].outcome = "pending" /\ minute >= booking.attempts[i].expires
        THEN Answer(Finish(booking, i, "expired"))
        ELSE Answer(booking)
  ELSE IF minute >= booking.hold THEN Thrown("holdExpired")
  ELSE IF booking.status = "paid" \/ Len(booking.attempts) >= AttemptLimit THEN Thrown("generic")
  ELSE Answer(WithAttempt(booking, key, t))

\* Mutant: the booking's status follows the attempt that ended last.
SettledByLast(booking, i, outcome) ==
  LET result == Finish(booking, i, IF minute >= booking.attempts[i].expires THEN "expired"
                                                                            ELSE outcome)
  IN [result EXCEPT !.status = IF result.attempts[i].outcome = "succeeded" THEN "paid"
                                                                          ELSE "held"]

\* Mutant: the last minute of a session is still in time.
SettledLate(booking, i, outcome) ==
  LET result == Finish(booking, i, IF minute > booking.attempts[i].expires THEN "expired"
                                                                           ELSE outcome)
  IN [result EXCEPT !.status = IF Successes(result) # {} THEN "paid" ELSE "held"]

\* What is left to do when the attempt i ends: one success makes the booking
\* paid for good, and a second one is refused by the check before the save.
Settled(booking, i, outcome) ==
  LET result == Finish(booking, i, IF minute >= booking.attempts[i].expires THEN "expired"
                                                                            ELSE outcome)
  IN [result EXCEPT !.status = IF Successes(result) # {} THEN "paid" ELSE "held"]

Savable(booking) == \A i, j \in Successes(booking) : i = j

Finalized(booking, key, outcome) ==
  IF Prior(booking, key) = {} THEN Thrown("generic")
  ELSE LET i == CHOOSE i \in Prior(booking, key) : TRUE IN
    IF booking.attempts[i].outcome # "pending" THEN Answer(booking)
    ELSE IF minute >= booking.hold THEN Thrown("holdExpired")
    ELSE IF Savable(Settled(booking, i, outcome)) THEN Answer(Settled(booking, i, outcome))
    ELSE Thrown("generic")

OutcomeOf(booking, key) ==
  LET i == CHOOSE i \in Prior(booking, key) : TRUE IN booking.attempts[i].outcome

-----------------------------------------------------------------------------
\* The tab's portal

Refused(t, booking) == SyncedStatus(portal[t], booking.status = "paid") = "refused"

SyncPortal(t, booking) ==
  portal' = IF Refused(t, booking) THEN portal
            ELSE [portal EXCEPT ![t] = SyncedStatus(@, booking.status = "paid")]

\* The tab keeps the booking it was answered and shows how it went.
Show(t, booking, phase, error) ==
  tab' = [tab EXCEPT ![t].seen = Len(booking.attempts), ![t].phase = phase,
                     ![t].error = error, ![t].timer = None]

\* Mutant: an error message does not end the phase.
ShowErrorOnly(t, key, error) ==
  tab' = [tab EXCEPT ![t].error = error, ![t].key = key, ![t].timer = None]

ShowError(t, key, error) ==
  tab' = [tab EXCEPT ![t].phase = "error", ![t].error = error, ![t].key = key, ![t].timer = None]

-----------------------------------------------------------------------------
LocalInit ==
  /\ saved = NoBooking
  /\ tab = [t \in Tab |-> ClosedTab]
  /\ portal = [t \in Tab |-> "absent"]
  /\ minute = 0

\* The form: the booking is saved even when the portal then refuses it.
SubmitBooking(t) ==
  /\ tab[t].seen = None
  /\ saved' = CreatedOrResumed
  /\ SyncPortal(t, saved')
  /\ IF Refused(t, saved') THEN UNCHANGED tab
     ELSE Show(t, saved', IF saved'.status = "paid" THEN "success" ELSE "idle", "none")
  /\ UNCHANGED minute

NextKey(t) == tab[t].seen + 1

RunPaymentOutcome(t, outcome) ==
  LET answer == Started(saved, NextKey(t), t) IN
    /\ tab[t].seen # None /\ tab[t].phase = "idle"
    /\ saved' = answer.booking
    /\ IF answer.error # "none" THEN ShowError(t, NextKey(t), answer.error) /\ UNCHANGED portal
       ELSE IF OutcomeOf(saved', NextKey(t)) = "expired"
         THEN /\ SyncPortal(t, saved')
              /\ tab' = [tab EXCEPT ![t] = [seen |-> Len(saved'.attempts), phase |-> "expired",
                                            error |-> "sessionExpired", key |-> NextKey(t),
                                            timer |-> None]]
         ELSE /\ UNCHANGED portal
              /\ tab' = [tab EXCEPT ![t].phase = "processing", ![t].error = "none",
                                    ![t].key = NextKey(t), ![t].timer = outcome]
    /\ UNCHANGED minute

\* The timer settles the attempt; what is shown is the outcome asked for.
PaymentTimer(t) ==
  LET answer == Finalized(saved, tab[t].key, tab[t].timer) IN
    /\ tab[t].timer # None
    /\ saved' = answer.booking
    /\ IF answer.error # "none" THEN ShowError(t, tab[t].key, answer.error) /\ UNCHANGED portal
       ELSE /\ SyncPortal(t, saved')
            /\ IF Refused(t, saved') THEN ShowError(t, tab[t].key, "generic")
               ELSE IF OutcomeOf(saved', tab[t].key) = "expired"
                 THEN Show(t, saved', "expired", "sessionExpired")
               ELSE Show(t, saved', IF tab[t].timer = "succeeded" THEN "success" ELSE "failed",
                         tab[t].error)
    /\ UNCHANGED minute

\* A click on cancel stops the timer, starts an attempt unless one is under
\* way, and settles it as cancelled.
CancelCheckout(t) ==
  LET key == IF tab[t].key = None THEN NextKey(t) ELSE tab[t].key
      started == IF tab[t].key = None THEN Started(saved, key, t) ELSE Answer(saved)
      answer == IF started.error # "none" THEN started
                ELSE Finalized(started.booking, key, "cancelled")
  IN /\ tab[t].seen # None /\ tab[t].phase \in {"idle", "processing"}
     /\ saved' = IF answer.error # "none" THEN started.booking ELSE answer.booking
     /\ IF answer.error # "none" THEN ShowError(t, tab[t].key, answer.error) /\ UNCHANGED portal
        ELSE SyncPortal(t, saved') /\ Show(t, saved', "cancelled", "none")
     /\ UNCHANGED minute

\* After an expired hold the form comes back; the key of the last attempt stays.
RetryPayment(t) ==
  /\ tab[t].phase \in Failures
  /\ tab' = [tab EXCEPT
               ![t] = IF @.error = "holdExpired" THEN [ClosedTab EXCEPT !.key = tab[t].key]
                      ELSE [@ EXCEPT !.phase = "idle", !.error = "none", !.key = None]]
  /\ UNCHANGED <<saved, portal, minute>>

\* The page is left or reloaded: its state and its timer are gone.
LeavePage(t) ==
  /\ tab[t] # ClosedTab
  /\ tab' = [tab EXCEPT ![t] = ClosedTab]
  /\ UNCHANGED <<saved, portal, minute>>

\* On the account page of the tab: the portal's copy is cancelled, or the
\* whole portal starts again from its fixture.
CancelInPortal(t) ==
  /\ tab[t] = ClosedTab
  /\ portal[t] = "pending_payment"
  /\ portal' = [portal EXCEPT ![t] = "cancelled"]
  /\ UNCHANGED <<saved, tab, minute>>

ResetPortal(t) ==
  /\ tab[t] = ClosedTab
  /\ portal' = [portal EXCEPT ![t] = "absent"]
  /\ UNCHANGED <<saved, tab, minute>>

MinutePasses ==
  /\ minute < LastMinute
  /\ minute' = minute + 1
  /\ UNCHANGED <<saved, tab, portal>>

LocalNext ==
  \/ \E t \in Tab :
       \/ SubmitBooking(t)
       \/ \E outcome \in {"succeeded", "failed"} : RunPaymentOutcome(t, outcome)
       \/ PaymentTimer(t)
       \/ CancelCheckout(t)
       \/ RetryPayment(t)
       \/ LeavePage(t)
       \/ CancelInPortal(t)
       \/ ResetPortal(t)
  \/ MinutePasses

LocalSpec == LocalInit /\ [][LocalNext]_localVars

\* A browser fires the timers that are set.
LocalFairSpec == LocalSpec /\ \A t \in Tab : WF_localVars(PaymentTimer(t))
=============================================================================
