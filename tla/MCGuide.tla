-------------------------------- MODULE MCGuide --------------------------------
(***************************************************************************)
(* Two departures that overlap: one has two bookings, the other has one.   *)
(***************************************************************************)
EXTENDS GuideProperties, TLC

CONSTANTS b1, b2, b3, d1, d2

TwoDepartures == b1 :> d1 @@ b2 :> d1 @@ b3 :> d2
Starts == d1 :> 1 @@ d2 :> 2
Ends == d1 :> 3 @@ d2 :> 4
=============================================================================
