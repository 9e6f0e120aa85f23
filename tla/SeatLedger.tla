----------------------------- MODULE SeatLedger -----------------------------
(***************************************************************************)
(* What the checkout authority promises about the seats of departures,     *)
(* with no bookings, payments or clock: travellers are held within the     *)
(* capacity, only a held traveller takes a seat, and any number of holds   *)
(* may lapse at once.                                                      *)
(***************************************************************************)
EXTENDS Naturals, FiniteSets

CONSTANTS
  Traveller,   \* whoever may occupy a seat
  Departure,   \* departures
  Capacity     \* Capacity[d]: seats of a departure

VARIABLES
  held,        \* held[d]: travellers whose seat is reserved
  taken        \* taken[d]: travellers whose seat is paid

ledgerVars == <<held, taken>>

Ledgers == [Departure -> SUBSET Traveller]

Init == held = [d \in Departure |-> {}] /\ taken = [d \in Departure |-> {}]

\* A party is held on one departure if it fits beside all who are there.
Hold(d) ==
  /\ held' \in Ledgers
  /\ held[d] \subseteq held'[d]
  /\ \A e \in Departure \ {d} : held'[e] = held[e]
  /\ Cardinality(held'[d] \cup taken[d]) <= Capacity[d]
  /\ UNCHANGED taken

\* Held travellers of one departure take their seats.
Take(d) ==
  /\ taken' \in Ledgers
  /\ taken[d] \subseteq taken'[d] /\ taken'[d] \subseteq taken[d] \cup held[d]
  /\ held' = [held EXCEPT ![d] = @ \ taken'[d]]
  /\ \A e \in Departure \ {d} : taken'[e] = taken[e]

\* Holds lapse or are released, on any departures at once.
Lapse ==
  /\ held' \in Ledgers
  /\ \A d \in Departure : held'[d] \subseteq held[d]
  /\ UNCHANGED taken

\* A cancelled party gives its seats back.
GiveBack ==
  /\ taken' \in Ledgers
  /\ \A d \in Departure : taken'[d] \subseteq taken[d]
  /\ UNCHANGED held

Next ==
  \/ \E d \in Departure : Hold(d) \/ Take(d)
  \/ Lapse
  \/ GiveBack

Spec == Init /\ [][Next]_ledgerVars
=============================================================================
