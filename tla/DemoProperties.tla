---------------------------- MODULE DemoProperties ----------------------------
(***************************************************************************)
(* What the two stores of the browser demonstration must keep to: the      *)
(* portal's envelope and the checkout's local booking.                     *)
(***************************************************************************)
EXTENDS DemoPortal, DemoCheckout

-----------------------------------------------------------------------------
\* Types

IsLocalBooking(booking) ==
  /\ booking.status \in {"held", "paid"}
  /\ booking.session <= booking.hold
  /\ Len(booking.attempts) <= AttemptLimit

\* Every list, status and index of both stores is of the kind the code's
\* parsers insist on.
DemoTypeOK ==
  /\ clock \in 0 .. MaxTime /\ minute \in 0 .. LastMinute
  /\ store \in Envelope \cup {None}
  /\ saved # NoBooking => IsLocalBooking(saved)
  /\ portal \in [Tab -> {"absent", "pending_payment", "confirmed", "cancelled"}]
  /\ \A t \in Tab : tab[t].phase \in {"idle", "processing", "success"} \cup Failures

-----------------------------------------------------------------------------
\* The portal's envelope

(* Operations write what they like and only the next read looks at it: an  *)
(* envelope that breaks one rule makes every operation but a reset throw.  *)
(* Whatever the identities do, and in whatever order, the envelope keeps   *)
(* every rule of validateCrossReferences and the uniqueness of             *)
(* parseEnvelope, but for two: the owners of requests, which a change of   *)
(* role overlooks (see UpdateUserRole), and the length of the lists, which *)
(* nobody compares before writing.                                         *)
EnvelopeIsSound ==
  store # None => OtherReferencesHold(store) /\ KeysAreUnique(store)

(* No quote outlives the approval of its request: whoever was issued one   *)
(* can count on it until it expires, and one that is paid was accepted in  *)
(* time.  The fixture's own paid quote, of a request nobody has reviewed   *)
(* yet, is the exception.                                                  *)
QuotesAreForApprovedRequests ==
  store # None => \A r \in Request :
    LET booking == store.bookings[QuoteId(r)] IN
      booking # None =>
        /\ store.requests[r].status = "approved"
        /\ booking.payment = "paid" =>
             booking.accepted \in booking.created .. booking.expires - 1

(* The checkout's idea of its copy in the portal is right: between resets  *)
(* the copy of a local booking moves only as a handover says, or from      *)
(* awaiting payment to cancelled; no operation of any role moves it        *)
(* otherwise, and a settled copy stays settled.                            *)
CopyFollowsHandoff ==
  [][\A u \in Booker : CopyOf(store', u) # CopyOf(store, u) =>
       \/ store' = Fixture
       \/ \E paid \in BOOLEAN : CopyOf(store', u) = SyncedStatus(CopyOf(store, u), paid)
       \/ CopyOf(store, u) = "pending_payment" /\ CopyOf(store', u) = "cancelled"]_store

-----------------------------------------------------------------------------
\* The local checkout and its tabs

(* No portal shows a booking as confirmed that is not paid locally, though *)
(* the two are stored apart and several tabs write the one and the other.  *)
PortalConfirmsOnlyPaid ==
  \A t \in Tab : portal[t] = "confirmed" => saved.status = "paid"

(* A payment is for good: a paid booking is never replaced or unpaid, an   *)
(* attempt that ended is never changed, by whichever tab, unless the       *)
(* unpaid booking as a whole is replaced by a fresh one; and a booking     *)
(* becomes paid only before its hold and its payment session end, however  *)
(* long the timer of the tab was delayed.                                  *)
SettledIsFinal ==
  [][/\ saved.status = "paid" => saved'.status = "paid"
     /\ \/ saved.status # "paid" /\ saved'.attempts = <<>>
        \/ \A i \in DOMAIN saved.attempts :
             saved.attempts[i].outcome # "pending" => saved'.attempts[i] = saved.attempts[i]
     /\ saved.status = "held" /\ saved'.status = "paid" =>
          minute < saved.hold /\ minute < saved.session]_saved

(* "Processing" ends: a payment is settled or given up under the one       *)
(* assumption that a browser fires the timers that are set.                *)
PaymentsSettle == \A t \in Tab : tab[t].phase = "processing" ~> tab[t].phase # "processing"
=============================================================================
