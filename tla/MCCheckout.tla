----------------------------- MODULE MCCheckout -----------------------------
(***************************************************************************)
(* Small instances of Checkout: one departure with two seats, one quote,   *)
(* two customers, a hold of two ticks and provider sessions that end       *)
(* inside it or outlive it.                                                *)
(***************************************************************************)
EXTENDS CheckoutProperties

CONSTANTS k1, k2, k3, c1, c2, d1, q1

MCOwner      == [k \in Key |-> IF k = k3 THEN c2 ELSE c1]
MCCapacity   == [d \in Departure |-> 2]
MCStartAt    == [d \in Departure |-> 4]
MCQuoteOwner == [q \in Quote |-> c1]
MCQuoteParty == [q \in Quote |-> 1]
MCValidUntil == [q \in Quote |-> 3]
MCTripStart  == [q \in Quote |-> 4]
=============================================================================
