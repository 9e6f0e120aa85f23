------------------------------ MODULE MCEngine ------------------------------
(***************************************************************************)
(* Small instances of the itinerary engine: three catalogues of four       *)
(* places, by day, around midnight and at a dollar's rounding, and every   *)
(* combination of a few requests.                                          *)
(***************************************************************************)
EXTENDS EngineProperties

Hour(h) == 60 * h

Window(weekday, from, to) == [weekday |-> weekday, open |-> Hour(from), close |-> Hour(to)]

Dishes(min, max, shared) == [fits |-> TRUE, min |-> min, max |-> max, shared |-> shared]

Plain(types, price, hours) ==
  [fits |-> TRUE, types |-> types, price |-> price, duration |-> 60, hours |-> hours,
   exceptions |-> {}, vendors |-> <<>>]

Vendor(hours, menu) == [fits |-> TRUE, hours |-> hours, exceptions |-> {}, menu |-> menu]

\* By day: a museum, a workshop that closes early, a food street whose first
\* vendor opens late and whose second is dear, and a place of no chosen type.
Daytime ==
  <<Plain({"history"}, 2, <<Window(0, 9, 17)>>),
    Plain({"traditional_craft"}, 1, <<Window(0, 9, 11)>>),
    [Plain({"street_food"}, 0, <<Window(0, 8, 22)>>) EXCEPT
       !.vendors = <<Vendor(<<Window(0, 11, 22)>>, <<Dishes(2, 3, FALSE), Dishes(1, 1, TRUE)>>),
                     Vendor(<<Window(0, 8, 22)>>, <<Dishes(3, 4, TRUE)>>)>>],
    Plain({"traditional_market"}, 1, <<Window(0, 9, 10), Window(0, 13, 17)>>)>>

\* Around midnight: a bar open past it, a walk that the next day's exception ends
\* at midnight, and two food stops of two windows that touch there.
Midnight ==
  <<Plain({"history"}, 1, <<Window(0, 20, 2)>>),
    [Plain({"traditional_craft"}, 1, <<Window(0, 20, 3)>>) EXCEPT
       !.exceptions = {[day |-> 1, windows |-> <<>>]}],
    [Plain({"street_food"}, 0, <<Window(0, 18, 0), Window(1, 0, 4)>>) EXCEPT
       !.vendors = <<Vendor(<<Window(0, 18, 3)>>, <<Dishes(1, 2, FALSE), Dishes(1, 1, TRUE)>>)>>],
    [Plain({"traditional_market"}, 1, <<Window(0, 22, 0), Window(1, 0, 4)>>) EXCEPT
       !.vendors = <<Vendor(<<Window(0, 20, 3)>>, <<Dishes(1, 1, TRUE)>>)>>]>>

\* A museum that a rounded-up budget would buy.
Rounding == [Daytime EXCEPT ![1].price = 260974]

Trip(minutes, cost) == [minutes |-> minutes, cost |-> cost]

\* Every trip takes 20 minutes, but there is none from 2 to 1.
MCTravel == [e \in {e \in Place \X Place : e[1] # e[2] /\ e # <<2, 1>>} |-> Trip(20, 1)]

\* The customer's priority weights.
Liking(taste) ==
  [t \in {"history", "traditional_craft", "street_food", "traditional_market"} |->
     CASE t = "street_food" -> IF taste = "sights" THEN 0 ELSE 4
       [] t = "traditional_market" -> 1
       [] taste = "food"    -> 0
       [] t = "history"     -> 2
       [] OTHER             -> 3]

Vnd(amount) == [currency |-> "VND", amount |-> amount]
Usd(cents)  == [currency |-> "USD", amount |-> cents]

Rate(age) == {[num |-> 261235, den |-> 10, age |-> age]}

Dish2 == [vendor |-> 1, item |-> 2, quantity |-> 1, min |-> 1, max |-> 1]

Requests(catalog, starts, budgets, fx, parties, tastes, locks, rankings, selections) ==
  {[catalog |-> catalog, start |-> s, duration |-> d, budget |-> b, fx |-> f, party |-> n,
    pace |-> "relaxed", weights |-> Liking(w), locked |-> l, ranked |-> r, selections |-> c] :
     s \in starts, d \in {Hour(2), Hour(4)}, b \in budgets, f \in fx, n \in parties, w \in tastes,
     l \in locks, r \in rankings, c \in selections}

Locks    == {<<>>, <<1>>, <<3>>, <<3, 1>>, <<2, 4>>, <<4, 3>>}
Rankings == {<<>>, <<3, 2>>}
NoChoice == <<>>

MCCatalog == <<Daytime, Midnight, Rounding>>

MCInputs ==
  Requests(1, {Hour(9), Hour(10)}, {Vnd(4), Vnd(9)}, {{}}, {1, 2}, {"sights", "both"}, Locks, Rankings,
           {NoChoice, 3 :> Dish2, 3 :> Foodless})
  \cup
  Requests(2, {Hour(22), Hour(23) + 30}, {Vnd(3), Vnd(9)}, {{}}, {1}, {"sights", "both", "food"}, Locks, Rankings,
           {NoChoice, 3 :> Dish2, 3 :> Foodless})
  \cup
  Requests(3, {Hour(9)}, {Usd(999), Usd(1000)}, {{}, Rate(-1), Rate(168), Rate(169)}, {1}, {"sights"}, {<<>>, <<1>>},
           {<<>>}, {NoChoice})

\* A week around the days of these requests.
ASSUME MCNightsGoOn ==
  \A c \in DOMAIN MCCatalog : \A p \in Place, day \in -7 .. 7 : NightGoesOn(MCCatalog[c][p], day)
=============================================================================
