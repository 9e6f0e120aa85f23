---------------------------- MODULE EngineProofs ----------------------------
(***************************************************************************)
(* Theorems about the itinerary engine, for every catalogue, travel        *)
(* snapshot, request, beam width and search cap.                           *)
(***************************************************************************)
EXTENDS EngineProperties, SequenceTheorems, FiniteSetTheorems, TLAPS

-----------------------------------------------------------------------------
\* The strengthening

\* The stops of a path are those its names say, and end when it ends.
WellFormed(path) ==
  /\ path.ids \in Seq(Place)
  /\ \E S : path.stops \in Seq(S)
  /\ Len(path.stops) = Len(path.ids)
  /\ \A i \in 1 .. Len(path.ids) :
       /\ path.stops[i].place = path.ids[i]
       /\ path.stops[i].start \in Int /\ path.stops[i].end \in Int
  /\ path.finish \in Int
  /\ path.finish = IF path.ids = <<>> THEN input.start ELSE path.stops[Len(path.ids)].end

Ordered(path) ==
  /\ IsInjective(path.ids)
  /\ Len(path.ids) <= PaceCap
  /\ \A i \in DOMAIN path.ids :
       path.ids[i] \in Locked =>
         path.ids[i] = input.locked[Cardinality(ToSet(SubSeq(path.ids, 1, i - 1)) \cap Locked) + 1]

Timed(path) ==
  \A i \in DOMAIN path.stops :
    path.stops[i].start >=
      IF i = 1 THEN input.start
      ELSE path.stops[i - 1].end + path.stops[i].minutes + TransitionBuffer

\* Food is what was pinned, wherever something was.
Eats(path) ==
  \A i \in DOMAIN path.stops :
    path.stops[i].place \in DOMAIN pinned /\ NeedsFood(path.stops[i].place) =>
      path.stops[i].food = pinned[path.stops[i].place]

PathOk(path) ==
  /\ WellFormed(path)
  /\ Ordered(path)
  /\ path.cost <= Budget /\ path.finish <= Latest
  /\ Timed(path)
  /\ Eats(path)

\* Whatever the customer chose for a locked stop is still pinned there.
LocksPinned ==
  \A p \in Locked \cap DOMAIN input.selections :
    NeedsFood(p) /\ p \in DOMAIN pinned /\ pinned[p] = input.selections[p]

SearchInv ==
  /\ input \in Inputs
  /\ pool \subseteq Place
  /\ stage \in {"beam", "search", "validate"} => 0 <= Budget /\ LocksPinned
  /\ stage = "validate" => best # {}
  /\ \A path \in Paths : PathOk(path)
  /\ \A path \in best : PathIsValid(path)

-----------------------------------------------------------------------------
\* When a visit begins

LEMMA EarliestIsMember ==
  ASSUME NEW S, NEW s \in Earliest(S)
  PROVE  s \in S
BY DEF Earliest

\* Openings are those of the catalogue.
LEMMA WindowsAreWindows ==
  ASSUME NEW venue, IsVenue(venue), NEW d \in Int, NEW w \in WindowsOn(venue, d)
  PROVE  IsTime(w.open) /\ IsTime(w.close) /\ w.open # w.close
<1>1. CASE ExceptionsOn(venue, d) # {}
  <2>1. PICK e \in ExceptionsOn(venue, d) :
          \E i \in DOMAIN e.windows : w.open = e.windows[i].open /\ w.close = e.windows[i].close
    BY <1>1 DEF WindowsOn
  <2>2. PICK i \in DOMAIN e.windows : w.open = e.windows[i].open /\ w.close = e.windows[i].close
    BY <2>1
  <2>3. IsWindow(e.windows[i])
    BY <2>1, <2>2 DEF ExceptionsOn, IsVenue
  <2>4. QED
    BY <2>2, <2>3, Zenon DEF IsWindow
<1>2. CASE ExceptionsOn(venue, d) = {}
  <2>1. PICK i \in DOMAIN venue.hours : w.open = venue.hours[i].open /\ w.close = venue.hours[i].close
    BY <1>2 DEF WindowsOn
  <2>2. IsWindow(venue.hours[i])
    BY <2>1 DEF IsVenue
  <2>3. QED
    BY <2>1, <2>2, Zenon DEF IsWindow
<1>3. QED
  BY <1>1, <1>2

LEMMA WindowsAreTimed ==
  ASSUME NEW venue, IsVenue(venue), NEW d \in Int, NEW w \in WindowsOn(venue, d)
  PROVE  w.open \in 0 .. 1439 /\ w.close \in 0 .. 1439
<1>1. IsTime(w.open) /\ IsTime(w.close)
  BY WindowsAreWindows
<1>2. QED
  BY <1>1 DEF IsTime, MinutesPerDay

\* Openings begin at whole minutes.
LEMMA OpeningTimes ==
  ASSUME NEW venue, IsVenue(venue), NEW earliest \in Int, NEW latest \in Int,
         NEW f \in IntervalsBetween(venue, earliest, latest)
  PROVE  f.from \in Int
<1>1. PICK day \in DayOf(earliest) .. DayOf(latest) : f \in OpeningIntervals(venue, day)
  BY DEF IntervalsBetween
<1>2. day \in Int
  BY <1>1 DEF DayOf, MinutesPerDay
<1>3. ASSUME NEW d \in Int, NEW w \in WindowsOn(venue, d)
      PROVE  w.open \in Int
  <2>1. IsTime(w.open)
    BY WindowsAreWindows
  <2>2. QED
    BY <2>1 DEF IsTime
<1>4. QED
  <2>1. CASE \E w \in WindowsOn(venue, day) : f = Fragment(day, w)
    BY <2>1, <1>2, <1>3 DEF Fragment, MinutesPerDay
  <2>2. CASE \E w \in WindowsOn(venue, day - 1) : f = CarryOver(day, w)
    BY <2>2, <1>2 DEF CarryOver, MinutesPerDay
  <2>3. QED
    BY <1>1, <2>1, <2>2 DEF OpeningIntervals

\* A visit to an open venue never begins before it could.
LEMMA VisitStartsInTime ==
  ASSUME NEW venue, IsVenue(venue), NEW earliest \in Int, NEW latest \in Int, NEW duration,
         NEW s \in EarliestVisitStart(venue, earliest, latest, duration)
  PROVE  s \in Int /\ s >= earliest
<1>1. PICK j \in Merged(IntervalsBetween(venue, earliest, latest)) : s = Later(earliest, j.from)
  BY EarliestIsMember DEF EarliestVisitStart
<1>2. PICK f \in IntervalsBetween(venue, earliest, latest) : j.from = f.from
  BY <1>1 DEF Merged
<1>3. f.from \in Int
  BY <1>2, OpeningTimes
<1>4. QED
  BY <1>1, <1>2, <1>3 DEF Later

\* Neither does a visit to a food stop.
LEMMA FoodStartsInTime ==
  ASSUME NEW place, NEW vendor, IsVenue(place), IsVenue(vendor),
         NEW earliest \in Int, NEW latest \in Int, NEW duration,
         NEW s \in EarliestFoodVisitStart(place, vendor, earliest, latest, duration)
  PROVE  s \in Int /\ s >= earliest
<1> DEFINE P == IntervalsBetween(place, earliest, latest)
           V == IntervalsBetween(vendor, earliest, latest)
<1>1. s \in {earliest} \cup {i.from : i \in P \cup V} /\ s >= earliest
  BY EarliestIsMember DEF EarliestFoodVisitStart
<1>2. \A i \in P \cup V : i.from \in Int
  BY OpeningTimes
<1>3. QED
  BY <1>1, <1>2

-----------------------------------------------------------------------------
\* A path with one more stop

\* One more element leaves a sequence as it was before it.
LEMMA AppendKeeps ==
  ASSUME NEW S, NEW s \in Seq(S), NEW e
  PROVE  /\ Append(s, e) \in Seq(S \cup {e})
         /\ Len(Append(s, e)) = Len(s) + 1
         /\ DOMAIN Append(s, e) = 1 .. Len(s) + 1
         /\ \A i \in 1 .. Len(s) : Append(s, e)[i] = s[i]
         /\ Append(s, e)[Len(s) + 1] = e
         /\ Len(s) \in Nat /\ DOMAIN s = 1 .. Len(s)
<1>1. s \in Seq(S \cup {e}) /\ e \in S \cup {e}
  BY SeqMonotonic
<1>2. QED
  BY <1>1

LEMMA PrefixOfAppend ==
  ASSUME NEW S, NEW s \in Seq(S), NEW e \in S, NEW i \in 1 .. Len(s) + 1
  PROVE  SubSeq(Append(s, e), 1, i - 1) = SubSeq(s, 1, i - 1)
<1>1. \A j \in 1 .. i - 1 : Append(s, e)[j] \in S /\ s[j] \in S
  BY AppendKeeps
<1>2. /\ SubSeq(Append(s, e), 1, i - 1) \in Seq(S)
      /\ SubSeq(s, 1, i - 1) \in Seq(S)
      /\ Len(SubSeq(Append(s, e), 1, i - 1)) = Len(SubSeq(s, 1, i - 1))
  BY <1>1, SubSeqProperties
<1>3. \A j \in 1 .. Len(SubSeq(s, 1, i - 1)) : SubSeq(Append(s, e), 1, i - 1)[j] = SubSeq(s, 1, i - 1)[j]
  BY <1>1, SubSeqProperties, AppendKeeps
<1>4. QED
  BY <1>2, <1>3, SeqEqual

\* What the search knows of the path it extends.
LEMMA ArrivalIsLater ==
  ASSUME input \in Inputs, pool \subseteq Place, NEW path, WellFormed(path),
         NEW a \in Arrivals(path)
  PROVE  /\ a.place \in Place
         /\ a.earliest \in Int
         /\ a.earliest = IF path.ids = <<>> THEN input.start
                         ELSE path.finish + a.leg.minutes + TransitionBuffer
         /\ a.leg.minutes \in Nat
         /\ CanAppend(path, a.place) /\ Len(path.ids) < PaceCap
<1>1. PICK p \in pool : /\ CanAppend(path, p) /\ Len(path.ids) < PaceCap /\ HasEdge(path, p)
                        /\ a = [place |-> p, leg |-> Leg(path, p),
                               earliest |-> path.finish + Leg(path, p).minutes + Leg(path, p).buffer,
                               base |-> path.cost + PlaceCost(p) + Leg(path, p).cost]
  BY DEF Arrivals
<1>2. a.place = p /\ a.leg = Leg(path, p) /\ a.earliest = path.finish + a.leg.minutes + a.leg.buffer
  BY <1>1
<1>3. CASE path.ids = <<>>
  <2>1. a.leg.minutes = 0 /\ a.leg.buffer = 0
    BY <1>2, <1>3 DEF Leg
  <2>2. input.start \in Int
    BY InputAssumption
  <2>3. a.earliest = input.start
    BY <1>2, <1>3, <2>1, <2>2 DEF WellFormed
  <2>4. QED
    BY <1>1, <1>2, <1>3, <2>1, <2>2, <2>3
<1>4. CASE path.ids # <<>>
  <2>1. <<Last(path.ids), p>> \in DOMAIN Travel
    BY <1>1, <1>4 DEF HasEdge
  <2>2. a.leg.minutes = Travel[<<Last(path.ids), p>>].minutes /\ a.leg.buffer = TransitionBuffer
    BY <1>2, <1>4 DEF Leg
  <2>3. a.leg.minutes \in Nat
    BY <2>1, <2>2, TravelAssumption
  <2>4. TransitionBuffer \in Nat
    BY DEF TransitionBuffer
  <2>5. QED
    BY <1>1, <1>2, <1>4, <2>2, <2>3, <2>4 DEF WellFormed
<1>5. QED
  BY <1>3, <1>4

\* A visit begins after the arrival, with the food that was pinned there.
LEMMA VisitIsLater ==
  ASSUME input \in Inputs, NEW a, a.place \in Place, a.earliest \in Int, NEW visit \in VisitsAfter(a)
  PROVE  /\ visit.start \in Int /\ visit.start >= a.earliest
         /\ a.place \in DOMAIN pinned /\ NeedsFood(a.place) => visit.selection = pinned[a.place]
<1> DEFINE p == a.place
<1>1. /\ IsVenue(Here(p)) /\ Here(p).duration \in Nat
      /\ \A v \in DOMAIN Here(p).vendors : IsVenue(Here(p).vendors[v])
      /\ Latest \in Int
  BY CatalogAssumption, InputAssumption DEF Here, Latest
<1>2. ASSUME NEW s \in VisitStart(p, a.earliest)
      PROVE  s \in Int /\ s >= a.earliest
  BY <1>1, <1>2, VisitStartsInTime DEF VisitStart
<1>3. ASSUME NEW v \in DOMAIN Here(p).vendors, NEW s \in FoodStart(p, v, a.earliest)
      PROVE  s \in Int /\ s >= a.earliest
  BY <1>1, <1>3, FoodStartsInTime DEF FoodStart
<1>4. CASE ~ NeedsFood(p)
  BY <1>2, <1>4 DEF VisitsAfter
<1>5. CASE NeedsFood(p)
  <2>1. visit \in ChooseScheduledFood(p, a.earliest, a.base)
    BY <1>5 DEF VisitsAfter
  <2>2. CASE p \in DOMAIN pinned
    <3>1. CASE pinned[p] = Foodless
      BY <2>1, <2>2, <3>1, <1>2 DEF ChooseScheduledFood
    <3>2. CASE pinned[p] # Foodless
      <4>1. /\ VerifyFoodSelection(p, pinned[p])
            /\ visit \in {[selection |-> pinned[p], start |-> s] : s \in FoodStart(p, pinned[p].vendor, a.earliest)}
        BY <2>1, <2>2, <3>2 DEF ChooseScheduledFood
      <4>2. pinned[p].vendor \in DOMAIN Here(p).vendors
        BY <4>1 DEF VerifyFoodSelection
      <4>3. QED
        BY <4>1, <4>2, <1>3
    <3>3. QED
      BY <3>1, <3>2
  <2>3. CASE p \notin DOMAIN pinned
    <3>1. PICK v \in Earliest(OpenVendors(p, a.earliest, a.base)) :
            \E i \in Earliest(Affordable(p, v, Budget - a.base)), s \in FoodStart(p, v, a.earliest) :
              visit = [selection |-> Dish(p, v, i), start |-> s]
      BY <2>1, <2>3 DEF ChooseScheduledFood
    <3>2. v \in DOMAIN Here(p).vendors
      BY <3>1, EarliestIsMember DEF OpenVendors
    <3>3. QED
      BY <2>3, <3>1, <3>2, <1>3
  <2>4. QED
    BY <2>2, <2>3
<1>6. QED
  BY <1>4, <1>5

\* Extending a path keeps all the rules.
LEMMA ExtensionIsOk ==
  ASSUME input \in Inputs, pool \subseteq Place, NEW path, PathOk(path), NEW next \in Extensions(path)
  PROVE  PathOk(next)
<1>1. PICK a \in Arrivals(path) : \E visit \in VisitsAfter(a) :
        next = AppendStop(path, a, visit) /\ next.finish <= Latest /\ next.cost <= Budget
  BY DEF Extensions
<1>2. PICK visit \in VisitsAfter(a) : next = AppendStop(path, a, visit)
  BY <1>1
<1>3. next.finish <= Latest /\ next.cost <= Budget
  BY <1>1
<1>4. /\ a.place \in Place /\ a.earliest \in Int /\ a.leg.minutes \in Nat
      /\ a.earliest = IF path.ids = <<>> THEN input.start ELSE path.finish + a.leg.minutes + TransitionBuffer
      /\ CanAppend(path, a.place) /\ Len(path.ids) < PaceCap
  BY ArrivalIsLater DEF PathOk
<1>5. /\ visit.start \in Int /\ visit.start >= a.earliest
      /\ a.place \in DOMAIN pinned /\ NeedsFood(a.place) => visit.selection = pinned[a.place]
  BY <1>2, <1>4, VisitIsLater
<1>6. Here(a.place).duration \in Nat
  BY <1>4, CatalogAssumption, InputAssumption DEF Here
<1> DEFINE n == Len(path.ids)
           stop == [place |-> a.place, start |-> visit.start, end |-> visit.start + Here(a.place).duration,
                    minutes |-> a.leg.minutes, buffer |-> a.leg.buffer, travelCost |-> a.leg.cost,
                    placeCost |-> PlaceCost(a.place), food |-> visit.selection, score |-> ScoreCandidate(a.place)]
<1>7. /\ next.ids = Append(path.ids, a.place) /\ next.stops = Append(path.stops, stop)
      /\ next.finish = visit.start + Here(a.place).duration
  BY <1>2 DEF AppendStop
<1>8. /\ next.ids \in Seq(Place) /\ Len(next.ids) = n + 1 /\ DOMAIN next.ids = 1 .. n + 1
      /\ \A i \in 1 .. n : next.ids[i] = path.ids[i]
      /\ next.ids[n + 1] = a.place /\ n \in Nat /\ DOMAIN path.ids = 1 .. n
  <2>1. path.ids \in Seq(Place) /\ Place \cup {a.place} = Place
    BY <1>4 DEF PathOk, WellFormed
  <2>2. QED
    BY <2>1, <1>7, AppendKeeps
<1>9. /\ \E S : next.stops \in Seq(S)
      /\ Len(next.stops) = n + 1 /\ DOMAIN next.stops = 1 .. n + 1
      /\ \A i \in 1 .. n : next.stops[i] = path.stops[i]
      /\ next.stops[n + 1] = stop /\ DOMAIN path.stops = 1 .. n
  <2>1. PICK S : path.stops \in Seq(S)
    BY DEF PathOk, WellFormed
  <2>2. Len(path.stops) = n
    BY DEF PathOk, WellFormed
  <2> HIDE DEF stop, n
  <2>3. /\ Append(path.stops, stop) \in Seq(S \cup {stop})
        /\ Len(Append(path.stops, stop)) = Len(path.stops) + 1
        /\ DOMAIN Append(path.stops, stop) = 1 .. Len(path.stops) + 1
        /\ \A i \in 1 .. Len(path.stops) : Append(path.stops, stop)[i] = path.stops[i]
        /\ Append(path.stops, stop)[Len(path.stops) + 1] = stop
        /\ DOMAIN path.stops = 1 .. Len(path.stops)
    BY <2>1, AppendKeeps
  <2>4. QED
    BY <2>2, <2>3, <1>7
<1>10. /\ stop.place = a.place /\ stop.start = visit.start /\ stop.start \in Int
       /\ stop.minutes = a.leg.minutes /\ stop.end = visit.start + Here(a.place).duration /\ stop.end \in Int /\ stop.food = visit.selection
  BY <1>5, <1>6
<1>11. WellFormed(next)
  <2>1. \A i \in 1 .. n + 1 : /\ next.stops[i].place = next.ids[i]
                              /\ next.stops[i].start \in Int /\ next.stops[i].end \in Int
    <3>1. \A i \in 1 .. n : /\ next.stops[i].place = next.ids[i]
                            /\ next.stops[i].start \in Int /\ next.stops[i].end \in Int
      BY <1>8, <1>9 DEF PathOk, WellFormed
    <3>2. /\ next.stops[n + 1].place = next.ids[n + 1]
          /\ next.stops[n + 1].start \in Int /\ next.stops[n + 1].end \in Int
      BY <1>8, <1>9, <1>10
    <3>3. \A i \in 1 .. n + 1 : i \in 1 .. n \/ i = n + 1
      BY <1>8
    <3>4. QED
      BY <3>1, <3>2, <3>3
  <2>2. next.ids # <<>>
    BY <1>8
  <2>3. next.finish = next.stops[n + 1].end
    BY <1>7, <1>9, <1>10
  <2> HIDE DEF stop, n
  <2>4. QED
    BY <2>1, <2>2, <2>3, <1>7, <1>8, <1>9, <1>10 DEF WellFormed
<1> HIDE DEF stop
<1>12. Ordered(next)
  <2>1. IsInjective(next.ids)
    <3>1. \A i \in 1 .. n : path.ids[i] # a.place
      BY <1>4, <1>8 DEF CanAppend, ToSet
    <3>2. QED
      BY <3>1, <1>8, SMTT(60) DEF IsInjective, PathOk, Ordered
  <2>2. Len(next.ids) <= PaceCap
    BY <1>4, <1>8 DEF PaceCap, GlobalStopCap
  <2>3. ASSUME NEW i \in 1 .. n + 1, next.ids[i] \in Locked
        PROVE  next.ids[i] = input.locked[Cardinality(ToSet(SubSeq(next.ids, 1, i - 1)) \cap Locked) + 1]
    <3>1. SubSeq(next.ids, 1, i - 1) = SubSeq(path.ids, 1, i - 1)
      BY <1>4, <1>7, PrefixOfAppend DEF PathOk, WellFormed
    <3>2. CASE i \in 1 .. n
      BY <3>1, <3>2, <2>3, <1>8 DEF PathOk, Ordered
    <3>3. CASE i = n + 1
      <4>1. SubSeq(path.ids, 1, i - 1) = path.ids
        BY <3>3, SubSeqFull, <1>8 DEF PathOk, WellFormed
      <4>2. QED
        BY <3>1, <3>3, <4>1, <2>3, <1>4, <1>8 DEF CanAppend
    <3>4. QED
      BY <3>2, <3>3
  <2>4. QED
    BY <2>1, <2>2, <2>3, <1>8 DEF Ordered
<1>13. Timed(next)
  <2>1. ASSUME NEW i \in 1 .. n
        PROVE  next.stops[i].start >= IF i = 1 THEN input.start
                 ELSE next.stops[i - 1].end + next.stops[i].minutes + TransitionBuffer
    <3>1. CASE i = 1
      BY <3>1, <1>8, <1>9 DEF PathOk, Timed
    <3>2. CASE i # 1
      <4>1. i - 1 \in 1 .. n
        BY <3>2, <1>8
      <4>2. next.stops[i] = path.stops[i] /\ next.stops[i - 1] = path.stops[i - 1]
        BY <4>1, <1>9
      <4>3. path.stops[i].start >= path.stops[i - 1].end + path.stops[i].minutes + TransitionBuffer
        BY <3>2, <1>9 DEF PathOk, Timed
      <4>4. QED
        BY <3>2, <4>2, <4>3
    <3>3. QED
      BY <3>1, <3>2
  <2>2. stop.start >= IF n + 1 = 1 THEN input.start
          ELSE next.stops[n].end + stop.minutes + TransitionBuffer
    <3>1. CASE n = 0
      <4>1. path.ids = <<>>
        BY <3>1 DEF PathOk, WellFormed
      <4>2. QED
        BY <4>1, <3>1, <1>4, <1>5, <1>10
    <3>2. CASE n # 0
      <4>1. path.ids # <<>> /\ path.finish = path.stops[n].end
        BY <3>2 DEF PathOk, WellFormed
      <4>2. n \in 1 .. n
        BY <3>2, <1>8
      <4>3. QED
        BY <4>1, <4>2, <3>2, <1>4, <1>5, <1>8, <1>9, <1>10, SMTT(60)
    <3>3. QED
      BY <3>1, <3>2
  <2>3. QED
    BY <2>1, <2>2, <1>8, <1>9, SMTT(60) DEF Timed
<1>14. Eats(next)
  BY <1>5, <1>8, <1>9, <1>10, SMTT(60) DEF PathOk, Eats
<1>15. QED
  BY <1>3, <1>11, <1>12, <1>13, <1>14 DEF PathOk

LEMMA ExtensionsAreOk ==
  ASSUME input \in Inputs, pool \subseteq Place, NEW S, \A path \in S : PathOk(path)
  PROVE  \A next \in UNION {Extensions(path) : path \in S} : PathOk(next)
BY ExtensionIsOk

LEMMA RootIsOk ==
  ASSUME input \in Inputs, 0 <= Budget
  PROVE  PathOk(Root)
<1>1. /\ Root.ids = <<>> /\ Root.stops = <<>> /\ Root.cost = 0 /\ Root.finish = input.start
      /\ Len(Root.ids) = 0 /\ Len(Root.stops) = 0 /\ DOMAIN Root.ids = {} /\ DOMAIN Root.stops = {}
  BY DEF Root
<1>2. input.start \in Int /\ input.start <= Latest
  BY InputAssumption DEF Latest
<1>3. WellFormed(Root)
  <2>1. Root.ids \in Seq(Place) /\ Root.stops \in Seq(Place)
    BY <1>1, EmptySeq
  <2>2. QED
    BY <2>1, <1>1, <1>2 DEF WellFormed
<1>4. Ordered(Root)
  <2>1. IsInjective(Root.ids)
    BY <1>1 DEF IsInjective
  <2>2. QED
    BY <2>1, <1>1 DEF Ordered, PaceCap, GlobalStopCap
<1>5. Timed(Root) /\ Eats(Root)
  BY <1>1 DEF Timed, Eats
<1>6. QED
  BY <1>1, <1>2, <1>3, <1>4, <1>5 DEF PathOk

-----------------------------------------------------------------------------
\* What only the input decides stays as it is

LEMMA InputDecides ==
  ASSUME input' = input
  PROVE  /\ Budget' = Budget /\ Latest' = Latest /\ Locked' = Locked /\ PaceCap' = PaceCap
         /\ \A p : NeedsFood(p)' = NeedsFood(p)
         /\ \A path : PathIsValid(path)' = PathIsValid(path)
         /\ Root' = Root
<1>1. Budget' = Budget
  BY DEF Budget, UsdCentsToVndFloor
<1>2. Latest' = Latest /\ Locked' = Locked /\ PaceCap' = PaceCap /\ Root' = Root
  BY DEF Latest, Locked, PaceCap, Root
<1>3. ASSUME NEW p PROVE NeedsFood(p)' = NeedsFood(p)
  BY DEF NeedsFood, Here
<1>4. ASSUME NEW path PROVE PathIsValid(path)' = PathIsValid(path)
  BY <1>2 DEF PathIsValid
<1>5. QED
  BY <1>1, <1>2, <1>3, <1>4

\* The rules of a path change with nothing but the input and what is pinned.
LEMMA RulesStay ==
  ASSUME input' = input, NEW path, PathOk(path), pinned' = pinned \/ path = Root
  PROVE  PathOk(path)'
<1>1. WellFormed(path)'
  BY DEF PathOk, WellFormed
<1>2. Ordered(path)'
  BY InputDecides DEF PathOk, Ordered
<1>3. Timed(path)'
  BY DEF PathOk, Timed
<1>4. Eats(path)'
  <2>1. CASE pinned' = pinned
    BY <2>1, InputDecides DEF PathOk, Eats
  <2>2. CASE path = Root
    <3>1. DOMAIN path.stops = {}
      BY <2>2 DEF Root
    <3>2. QED
      BY <3>1 DEF Eats
  <2>3. QED
    BY <2>1, <2>2
<1>5. QED
  BY <1>1, <1>2, <1>3, <1>4, InputDecides DEF PathOk

LEMMA LocksStayPinned ==
  ASSUME input' = input, pinned' = pinned, LocksPinned
  PROVE  LocksPinned'
BY InputDecides DEF LocksPinned

LEMMA BetterIsOneOf ==
  ASSUME NEW S
  PROVE  BetterOf(S) \subseteq S \cup best /\ \A path \in BetterOf(S) : path \in best \/ PathIsValid(path)
BY DEF BetterOf, BestOf

-----------------------------------------------------------------------------
\* The search keeps the rules

LEMMA SearchInvInit == Init => SearchInv
BY DEF Init, SearchInv, Paths

\* Scheduling starts with the root alone.
LEMMA ScheduleIsOk ==
  ASSUME SearchInv, input' = input, 0 <= Budget, LocksPinned',
         stage' = "beam", pool' \subseteq Place, beam' = {Root}, frontier' = {}, best' = {}
  PROVE  SearchInv'
<1>1. input' \in Inputs /\ 0 <= Budget' /\ Root' = Root
  BY InputDecides DEF SearchInv
<1>2. PICK root : root = Root
  OBVIOUS
<1>3. PathOk(root)'
  BY <1>2, RootIsOk, RulesStay DEF SearchInv
<1>4. Paths' = {root}
  BY <1>1, <1>2 DEF Paths
<1>5. QED
  BY <1>1, <1>3, <1>4 DEF SearchInv

\* A budget that is no error is an amount.
LEMMA BudgetIsNatural ==
  ASSUME input \in Inputs, BudgetError = "none"
  PROVE  Budget \in Nat
<1>1. CASE input.budget.currency = "VND"
  BY <1>1, InputAssumption DEF Budget
<1>2. CASE input.budget.currency # "VND"
  <2>1. input.fx # {}
    BY <1>2 DEF BudgetError
  <2> DEFINE rate == CHOOSE r \in input.fx : TRUE
  <2>2. rate \in input.fx
    BY <2>1
  <2>3. rate.num \in Nat /\ rate.den \in Nat \ {0} /\ input.budget.amount \in Nat
    BY <2>2, InputAssumption
  <2>4. Budget = (input.budget.amount * rate.num) \div (100 * rate.den)
    BY <1>2 DEF Budget, UsdCentsToVndFloor
  <2> HIDE DEF rate
  <2>5. input.budget.amount * rate.num \in Nat /\ 100 * rate.den \in Nat \ {0}
    BY <2>3
  <2>6. QED
    BY <2>4, <2>5
<1>3. QED
  BY <1>1, <1>2

\* What the customer chose for a locked stop is what a repair pins again.
LEMMA LockedFoodIsCarried ==
  ASSUME SearchInv, stage = "validate", LocksPinned, NEW p \in Locked \cap DOMAIN input.selections
  PROVE  NeedsFood(p) /\ p \in DOMAIN LockedFoodSelections /\ LockedFoodSelections[p] = input.selections[p]
<1>1. NeedsFood(p) /\ p \in DOMAIN pinned /\ pinned[p] = input.selections[p]
  BY DEF LocksPinned
<1>2. PICK path \in best : PathOk(path) /\ PathIsValid(path)
  BY DEF SearchInv, Paths
<1>3. PICK i \in DOMAIN path.ids : path.ids[i] = p
  <2>1. input.locked # <<>>
    BY DEF Locked, ToSet
  <2>2. p \in ToSet(path.ids)
    BY <1>2, <2>1 DEF PathIsValid
  <2>3. QED
    BY <2>2 DEF ToSet
<1>4. i \in DOMAIN path.stops /\ path.stops[i].place = p
  BY <1>2, <1>3 DEF PathOk, WellFormed
<1>5. path.stops[i] \in LockedFoodStops
  BY <1>1, <1>2, <1>4 DEF LockedFoodStops, ToSet
<1>6. ASSUME NEW stop \in LockedFoodStops, stop.place = p
      PROVE  stop.food = input.selections[p]
  <2>1. PICK other \in best : stop \in ToSet(other.stops)
    BY <1>6 DEF LockedFoodStops
  <2>2. PathOk(other)
    BY <2>1 DEF SearchInv, Paths
  <2>3. PICK j \in DOMAIN other.stops : other.stops[j] = stop
    BY <2>1 DEF ToSet
  <2>4. QED
    BY <1>1, <1>6, <2>2, <2>3 DEF PathOk, Eats
<1>7. p \in {stop.place : stop \in LockedFoodStops}
  BY <1>4, <1>5
<1>8. LockedFoodSelections[p] = (CHOOSE stop \in LockedFoodStops : stop.place = p).food
  BY <1>7 DEF LockedFoodSelections
<1>9. /\ (CHOOSE stop \in LockedFoodStops : stop.place = p) \in LockedFoodStops
      /\ (CHOOSE stop \in LockedFoodStops : stop.place = p).place = p
  BY <1>4, <1>5
<1>10. QED
  BY <1>1, <1>6, <1>7, <1>8, <1>9 DEF LockedFoodSelections

\* While nothing is scheduled anew, the new paths have to be right and no more.
LEMMA SearchGoesOn ==
  ASSUME SearchInv, input' = input, pinned' = pinned, pool' = pool,
         stage \in {"beam", "search", "validate"},
         stage' = "validate" => best' # {},
         \A path \in Paths' : PathOk(path),
         \A path \in best' : PathIsValid(path)
  PROVE  SearchInv'
<1>1. \A path \in Paths' : PathOk(path)'
  BY RulesStay
<1>2. Budget' = Budget /\ LocksPinned'
  BY InputDecides, LocksStayPinned DEF SearchInv
<1>3. \A path \in best' : PathIsValid(path)'
  BY InputDecides
<1>4. QED
  BY <1>1, <1>2, <1>3 DEF SearchInv

LEMMA SearchInvNext == SearchInv /\ [Next]_vars => SearchInv'
<1> SUFFICES ASSUME SearchInv, [Next]_vars PROVE SearchInv'
  OBVIOUS
<1> USE DEF SearchInv
<1>1. CASE RefuseInput
  <2>1. /\ input' = input /\ pinned' = pinned /\ pool' = pool /\ Paths' = Paths /\ best' = best
        /\ stage' = "done"
    BY <1>1 DEF RefuseInput, Answer, Paths
  <2>2. \A path \in Paths' : PathOk(path)'
    BY <2>1, RulesStay
  <2>3. QED
    BY <2>1, <2>2, InputDecides
<1>2. CASE FilterCandidates
  <2>1. /\ input' = input /\ stage' = "beam" /\ pool' = Eligible /\ pinned' = input.selections
        /\ beam' = {Root} /\ frontier' = {} /\ best' = {}
    BY <1>2 DEF FilterCandidates, Schedule
  <2>2. BudgetError = "none" /\ SelectionsAreAtFoodStops
    BY <1>2 DEF FilterCandidates, Refusal
  <2>3. 0 <= Budget
    BY <2>2, BudgetIsNatural
  <2>4. LocksPinned'
    BY <2>1, <2>2, InputDecides DEF LocksPinned, SelectionsAreAtFoodStops
  <2>5. Eligible \subseteq Place
    BY DEF Eligible
  <2>6. QED
    BY <2>1, <2>3, <2>4, <2>5, ScheduleIsOk
<1>3. CASE ExpandBeam
  <2>1. /\ input' = input /\ pinned' = pinned /\ pool' = pool /\ frontier' = frontier
        /\ stage = "beam" /\ stage' = stage
        /\ best' = BetterOf(Expanded) /\ beam' = Trim(Expanded)
    BY <1>3 DEF ExpandBeam
  <2>2. \A path \in Expanded : PathOk(path)
    BY ExtensionsAreOk DEF Expanded, Paths
  <2>3. beam' \subseteq Expanded
    BY <2>1 DEF Trim
  <2>4. /\ \A path \in Paths' : PathOk(path)
        /\ \A path \in best' : PathIsValid(path)
    BY <2>1, <2>2, <2>3, BetterIsOneOf DEF Paths
  <2>5. QED
    BY <2>1, <2>4, SearchGoesOn
<1>4. CASE SettleBeam
  <2>1. /\ input' = input /\ pinned' = pinned /\ pool' = pool /\ frontier' = frontier /\ beam' = beam
        /\ stage = "beam"
        /\ best' = best \/ best' = BetterOf(Extensions(Root))
        /\ stage' = "validate" => best' # {}
    BY <1>4 DEF SettleBeam, Answer
  <2>2. \A path \in Extensions(Root) : PathOk(path)
    BY <2>1, RootIsOk, ExtensionIsOk
  <2>3. /\ \A path \in Paths' : PathOk(path)
        /\ \A path \in best' : PathIsValid(path)
    BY <2>1, <2>2, BetterIsOneOf DEF Paths
  <2>4. QED
    BY <2>1, <2>3, SearchGoesOn
<1>5. CASE StartSearch
  <2>1. /\ input' = input /\ pinned' = pinned /\ pool' = pool /\ frontier' = {Root} /\ beam' = beam
        /\ stage = "beam" /\ stage' = "search" /\ best' = best
    BY <1>5 DEF StartSearch
  <2>2. \A path \in Paths' : PathOk(path)
    BY <2>1, RootIsOk DEF Paths
  <2>3. QED
    BY <2>1, <2>2, SearchGoesOn
<1>6. CASE Visit
  <2>1. /\ input' = input /\ pinned' = pinned /\ pool' = pool /\ beam' = beam
        /\ stage = "search" /\ stage' \in {"search", "done"}
    BY <1>6 DEF Visit, Answer
  <2>2. PICK path \in frontier :
          \/ frontier' = frontier /\ best' = best
          \/ frontier' = (frontier \ {path}) \cup Extensions(path) /\ best' = BetterOf({path})
    BY <1>6 DEF Visit
  <2>3. PathOk(path) /\ \A next \in Extensions(path) : PathOk(next)
    BY ExtensionIsOk DEF Paths
  <2>4. /\ \A p \in Paths' : PathOk(p)
        /\ \A p \in best' : PathIsValid(p)
    BY <2>1, <2>2, <2>3, BetterIsOneOf DEF Paths
  <2>5. QED
    BY <2>1, <2>4, SearchGoesOn
<1>7. CASE SettleSearch
  <2>1. /\ input' = input /\ pinned' = pinned /\ pool' = pool /\ Paths' = Paths /\ best' = best
        /\ stage = "search" /\ (stage' = "validate" => best' # {})
    BY <1>7 DEF SettleSearch, Answer, Paths
  <2>2. QED
    BY <2>1, SearchGoesOn
<1>8. CASE Accept \/ RefuseRepair \/ RefuseResult
  <2>1. /\ input' = input /\ pinned' = pinned /\ pool' = pool /\ Paths' = Paths /\ best' = best
        /\ stage = "validate" /\ stage' = "done"
    BY <1>8 DEF Accept, RefuseRepair, RefuseResult, Answer, Paths
  <2>2. QED
    BY <2>1, SearchGoesOn
<1>9. CASE Repair
  <2>1. /\ input' = input /\ stage = "validate" /\ stage' = "beam" /\ pinned' = LockedFoodSelections
        /\ pool' \subseteq pool
        /\ beam' = {Root} /\ frontier' = {} /\ best' = {}
    BY <1>9 DEF Repair, Schedule
  <2>2. LocksPinned'
    <3>1. ASSUME NEW p \in Locked \cap DOMAIN input.selections
          PROVE  NeedsFood(p) /\ p \in DOMAIN LockedFoodSelections /\ LockedFoodSelections[p] = input.selections[p]
      BY <2>1, <3>1, LockedFoodIsCarried DEF LocksPinned
    <3>2. QED
      BY <3>1, <2>1, InputDecides DEF LocksPinned
  <2>3. QED
    BY <2>1, <2>2, ScheduleIsOk
<1>10. CASE UNCHANGED vars
  <2>1. /\ input' = input /\ pinned' = pinned /\ pool' = pool /\ Paths' = Paths /\ best' = best
        /\ stage' = stage
    BY <1>10 DEF vars, Paths
  <2>2. \A path \in Paths' : PathOk(path)'
    BY <2>1, RulesStay
  <2>3. LocksPinned => LocksPinned'
    BY <2>1, LocksStayPinned
  <2>4. QED
    BY <2>1, <2>2, <2>3, InputDecides
<1>11. QED
  BY <1>1, <1>2, <1>3, <1>4, <1>5, <1>6, <1>7, <1>8, <1>9, <1>10 DEF Next

\* Every path the search ever holds keeps the scheduler's rules: scheduler.ts.
THEOREM PathsFollowRules == Spec => []PathsKeepRules
<1>1. SearchInv => PathsKeepRules
  BY DEF SearchInv, PathsKeepRules, PathOk, Ordered, Timed
<1>2. QED
  BY <1>1, SearchInvInit, SearchInvNext, PTL DEF Spec

-----------------------------------------------------------------------------
\* A visit lies in one opening

LEMMA KeyParts ==
  ASSUME NEW k, NEW a, NEW b, NEW c, k = <<a, b, c>>, NEW x, NEW y, NEW z, k = <<x, y, z>>
  PROVE  a = x /\ b = y /\ c = z
OBVIOUS

\* The key of a window tells the day it belongs to from the next, and the windows
\* of a day from each other.
LEMMA KeyNamesWindow ==
  ASSUME NEW venue, IsVenue(venue), NEW d \in Int, NEW e \in Int, e = d \/ e = d + 1,
         NEW w \in WindowsOn(venue, d), NEW x \in WindowsOn(venue, e), w.key = x.key
  PROVE  e = d /\ w.open = x.open /\ w.close = x.close
<1>1. ASSUME NEW c \in Int, NEW y \in WindowsOn(venue, c)
      PROVE  \/ \E i \in DOMAIN venue.hours :
                 /\ y.open = venue.hours[i].open /\ y.close = venue.hours[i].close
                 /\ y.key = <<"normal", Weekday(c), i>>
             \/ \E s \in ExceptionsOn(venue, c) : \E i \in DOMAIN s.windows :
                 /\ y.open = s.windows[i].open /\ y.close = s.windows[i].close
                 /\ y.key = <<"exception", c, i>>
  BY <1>1 DEF WindowsOn
<1>2. Weekday(d + 1) # Weekday(d)
  BY DEF Weekday
<1>3. CASE \E i \in DOMAIN venue.hours :
             /\ w.open = venue.hours[i].open /\ w.close = venue.hours[i].close
             /\ w.key = <<"normal", Weekday(d), i>>
  <2>1. PICK i \in DOMAIN venue.hours : /\ w.open = venue.hours[i].open /\ w.close = venue.hours[i].close
                                        /\ w.key = <<"normal", Weekday(d), i>>
    BY <1>3
  <2>2. PICK j \in DOMAIN venue.hours : /\ x.open = venue.hours[j].open /\ x.close = venue.hours[j].close
                                        /\ x.key = <<"normal", Weekday(e), j>>
    <3>1. \A s, j : x.key # <<"exception", s, j>>
      <4>1. SUFFICES ASSUME NEW s, NEW j, x.key = <<"exception", s, j>> PROVE FALSE
        OBVIOUS
      <4>2. w.key = <<"exception", s, j>>
        BY <4>1
      <4>3. "normal" = "exception"
        BY <2>1, <4>2, KeyParts
      <4>4. QED
        BY <4>3
    <3>2. QED
      BY <1>1, <3>1
  <2>3. i = j /\ Weekday(d) = Weekday(e)
    <3>1. w.key = <<"normal", Weekday(e), j>>
      BY <2>2
    <3>2. QED
      BY <2>1, <3>1, KeyParts
  <2>4. QED
    BY <2>1, <2>2, <2>3, <1>2
<1>4. CASE \E s \in ExceptionsOn(venue, d) : \E i \in DOMAIN s.windows :
             /\ w.open = s.windows[i].open /\ w.close = s.windows[i].close
             /\ w.key = <<"exception", d, i>>
  <2>1. PICK s \in ExceptionsOn(venue, d) : \E i \in DOMAIN s.windows :
             /\ w.open = s.windows[i].open /\ w.close = s.windows[i].close
             /\ w.key = <<"exception", d, i>>
    BY <1>4
  <2>2. PICK i \in DOMAIN s.windows : /\ w.open = s.windows[i].open /\ w.close = s.windows[i].close
                                      /\ w.key = <<"exception", d, i>>
    BY <2>1
  <2>3. PICK r \in ExceptionsOn(venue, e) : \E j \in DOMAIN r.windows :
             /\ x.open = r.windows[j].open /\ x.close = r.windows[j].close
             /\ x.key = <<"exception", e, j>>
    <3>1. \A s1, j : x.key # <<"normal", s1, j>>
      <4>1. SUFFICES ASSUME NEW s1, NEW j, x.key = <<"normal", s1, j>> PROVE FALSE
        OBVIOUS
      <4>2. w.key = <<"normal", s1, j>>
        BY <4>1
      <4>3. "normal" = "exception"
        BY <2>2, <4>2, KeyParts
      <4>4. QED
        BY <4>3
    <3>2. QED
      BY <1>1, <3>1
  <2>4. PICK j \in DOMAIN r.windows : /\ x.open = r.windows[j].open /\ x.close = r.windows[j].close
                                      /\ x.key = <<"exception", e, j>>
    BY <2>3
  <2>5. i = j /\ d = e
    <3>1. w.key = <<"exception", e, j>>
      BY <2>4
    <3>2. QED
      BY <2>2, <3>1, KeyParts
  <2>6. r = s
    BY <2>5 DEF ExceptionsOn, IsVenue
  <2>7. QED
    BY <2>2, <2>4, <2>5, <2>6
<1>5. QED
  BY <1>1, <1>3, <1>4

\* A window from o to c of a day has room for a visit from s to e.
Spans(venue, day, o, c, s, e) ==
  /\ day * 1440 + o <= s
  /\ e <= day * 1440 + c + (IF c > o THEN 0 ELSE 1440)
  /\ e > (day + 1) * 1440 => ExceptionsOn(venue, day + 1) = {}

\* It is a window of the visit's day or the day before.
Roomy(venue, day, w, o, c, s, e) ==
  /\ s \in Int /\ e \in Int /\ s < e /\ day \in Int
  /\ w \in WindowsOn(venue, day)
  /\ o \in 0 .. 1439 /\ c \in 0 .. 1439
  /\ w.open = o /\ w.close = c
  /\ Spans(venue, day, o, c, s, e)

LEMMA WithinWindow ==
  ASSUME NEW venue, NEW day, NEW w, NEW o, NEW c, NEW s, NEW e, Roomy(venue, day, w, o, c, s, e)
  PROVE  OneWindowCovers(venue, s, e)
<1>0. /\ s \in Int /\ e \in Int /\ s < e /\ day \in Int
      /\ w \in WindowsOn(venue, day)
      /\ o \in 0 .. 1439 /\ c \in 0 .. 1439
      /\ w.open = o /\ w.close = c
      /\ Spans(venue, day, o, c, s, e)
  BY DEF Roomy
<1>1. /\ day * 1440 + o <= s
      /\ e <= day * 1440 + c + (IF c > o THEN 0 ELSE 1440)
      /\ e > (day + 1) * 1440 => ExceptionsOn(venue, day + 1) = {}
  BY <1>0 DEF Spans
<1>2. day \in DayOf(s) - 1 .. DayOf(s)
  <2>1. day * 1440 <= s /\ s < day * 1440 + 2880
    BY <1>0, <1>1, SMTT(30)
  <2>2. QED
    BY <1>0, <2>1, SMTT(30) DEF DayOf, MinutesPerDay
<1>3. /\ day * MinutesPerDay + w.open <= s
      /\ e <= day * MinutesPerDay + w.close + (IF w.close > w.open THEN 0 ELSE MinutesPerDay)
      /\ e > (day + 1) * MinutesPerDay => ExceptionsOn(venue, day + 1) = {}
  <2>1. MinutesPerDay = 1440
    BY DEF MinutesPerDay
  <2>2. QED
    BY <1>0, <1>1, <2>1
<1>4. QED
  BY <1>0, <1>2, <1>3 DEF OneWindowCovers

\* The interval of a window's first day, merged with what follows it or not.
\* What is at t, where the interval of window w ends, for a visit until e.
GoesOn(venue, t, w, e) ==
  \/ e <= t
  \/ \E d \in Int : \E x \in WindowsOn(venue, d) : Fragment(d, x).from = t /\ x.key = w.key
  \/ \E d \in Int : \E x \in WindowsOn(venue, d - 1) :
       ExceptionsOn(venue, d) = {} /\ d * MinutesPerDay = t /\ x.key = w.key /\ e <= d * MinutesPerDay + x.close

FromFragment(venue, day, w, o, c, t, s, e) ==
  /\ s \in Int /\ e \in Int /\ s < e /\ day \in Int
  /\ w \in WindowsOn(venue, day) /\ Fragment(day, w).from <= s /\ Fragment(day, w).to = t
  /\ o \in 0 .. 1439 /\ c \in 0 .. 1439 /\ w.open = o /\ w.close = c
  /\ GoesOn(venue, t, w, e)

LEMMA FragmentCovers ==
  ASSUME NEW venue, IsVenue(venue), NEW day, NEW w, NEW o, NEW c, NEW t, NEW s, NEW e,
         FromFragment(venue, day, w, o, c, t, s, e)
  PROVE  OneWindowCovers(venue, s, e)
<1> /\ s \in Int /\ e \in Int /\ s < e /\ day \in Int
    /\ w \in WindowsOn(venue, day) /\ Fragment(day, w).from <= s
    /\ o \in 0 .. 1439 /\ c \in 0 .. 1439 /\ w.open = o /\ w.close = c
  BY DEF FromFragment
<1>1. t \in Int /\ t = Fragment(day, w).to
  BY DEF FromFragment, Fragment, MinutesPerDay
<1>2. /\ day * 1440 + o <= s
      /\ c > o => t = day * 1440 + c
      /\ ~ (c > o) => t = day * 1440 + 1440
  BY <1>1 DEF Fragment, MinutesPerDay
<1>3. CASE e <= t
  <2>1. CASE c > o
    <3>1. e <= day * 1440 + c + 0 /\ ~ (e > (day + 1) * 1440)
      BY <1>2, <1>3, <2>1, SMTT(30)
    <3>2. Spans(venue, day, o, c, s, e)
      BY <1>2, <2>1, <3>1 DEF Spans
    <3>3. Roomy(venue, day, w, o, c, s, e)
      BY <3>2 DEF Roomy
    <3>4. QED
      BY <3>3, WithinWindow
  <2>2. CASE ~ (c > o)
    <3>1. e <= day * 1440 + c + 1440 /\ ~ (e > (day + 1) * 1440)
      BY <1>2, <1>3, <2>2, SMTT(30)
    <3>2. Spans(venue, day, o, c, s, e)
      BY <1>2, <2>2, <3>1 DEF Spans
    <3>3. Roomy(venue, day, w, o, c, s, e)
      BY <3>2 DEF Roomy
    <3>4. QED
      BY <3>3, WithinWindow
  <2>3. QED
    BY <2>1, <2>2
<1>4. ASSUME NEW d \in Int, NEW x \in WindowsOn(venue, d), Fragment(d, x).from = t, x.key = w.key
      PROVE  FALSE
  <2>1. x.open \in 0 .. 1439
    BY WindowsAreTimed
  <2>2. PICK p \in 0 .. 1439 : x.open = p
    BY <2>1
  <2>3. t = d * 1440 + p
    BY <1>4, <2>2 DEF Fragment, MinutesPerDay
  <2>4. (d = day /\ p = c /\ c > o) \/ d = day + 1
    <3>1. CASE c > o
      <4>1. d * 1440 + p = day * 1440 + c
        BY <1>2, <2>3, <3>1
      <4>2. QED
        BY <3>1, <4>1, SMTT(30)
    <3>2. CASE ~ (c > o)
      <4>1. d * 1440 + p = day * 1440 + 1440
        BY <1>2, <2>3, <3>2
      <4>2. QED
        BY <4>1, SMTT(30)
    <3>3. QED
      BY <3>1, <3>2
  <2>5. d = day \/ d = day + 1
    BY <2>4
  <2>6. d = day /\ w.open = x.open
    BY <1>4, <2>5, KeyNamesWindow
  <2>7. o = p
    BY <2>2, <2>6
  <2>8. p = c /\ c > o
    BY <2>4, <2>6
  <2>9. QED
    BY <2>7, <2>8
<1>5. GoesOn(venue, t, w, e)
  BY DEF FromFragment
<1>6. CASE \E d \in Int : \E x \in WindowsOn(venue, d) : Fragment(d, x).from = t /\ x.key = w.key
  <2>1. PICK d \in Int : \E x \in WindowsOn(venue, d) : Fragment(d, x).from = t /\ x.key = w.key
    BY <1>6
  <2>2. PICK x \in WindowsOn(venue, d) : Fragment(d, x).from = t /\ x.key = w.key
    BY <2>1
  <2>3. QED
    BY <1>4, <2>2
<1>7. CASE \E d \in Int : \E x \in WindowsOn(venue, d - 1) :
             ExceptionsOn(venue, d) = {} /\ d * MinutesPerDay = t /\ x.key = w.key /\ e <= d * MinutesPerDay + x.close
  <2>1. PICK d \in Int : \E x \in WindowsOn(venue, d - 1) :
             ExceptionsOn(venue, d) = {} /\ d * MinutesPerDay = t /\ x.key = w.key /\ e <= d * MinutesPerDay + x.close
    BY <1>7
  <2>2. PICK x \in WindowsOn(venue, d - 1) :
             ExceptionsOn(venue, d) = {} /\ d * MinutesPerDay = t /\ x.key = w.key /\ e <= d * MinutesPerDay + x.close
    BY <2>1
  <2>3. d = day + 1 /\ ~ (c > o)
    <3>1. CASE c > o
      <4>1. d * 1440 = day * 1440 + c
        BY <1>2, <2>2, <3>1 DEF MinutesPerDay
      <4>2. FALSE
        BY <3>1, <4>1, SMTT(30)
      <4>3. QED
        BY <4>2
    <3>2. CASE ~ (c > o)
      <4>1. d * 1440 = day * 1440 + 1440
        BY <1>2, <2>2, <3>2 DEF MinutesPerDay
      <4>2. QED
        BY <3>2, <4>1, SMTT(30)
    <3>3. QED
      BY <3>1, <3>2
  <2>4. d - 1 = day
    BY <2>3
  <2>5. x \in WindowsOn(venue, day)
    BY <2>4
  <2>6. x.close = w.close
    BY <2>2, <2>5, KeyNamesWindow
  <2>7. e <= d * 1440 + c
    BY <2>2, <2>6 DEF MinutesPerDay
  <2>8. e <= day * 1440 + c + 1440
    BY <2>3, <2>7, SMTT(30)
  <2>9. ExceptionsOn(venue, day + 1) = {}
    BY <2>2, <2>3
  <2>10. Spans(venue, day, o, c, s, e)
    BY <1>2, <2>3, <2>8, <2>9 DEF Spans
  <2>11. Roomy(venue, day, w, o, c, s, e)
    BY <2>10 DEF Roomy
  <2>12. QED
    BY <2>11, WithinWindow
<1>8. QED
  BY <1>3, <1>5, <1>6, <1>7, Zenon DEF GoesOn

\* What a window has left after midnight follows no interval of the next day.
FromCarryOver(venue, day, b, w, o, c, s, e) ==
  /\ s \in Int /\ e \in Int /\ s < e /\ day \in Int /\ b \in Int /\ b = day - 1
  /\ w \in WindowsOn(venue, b) /\ CarriesOver(w) /\ ExceptionsOn(venue, day) = {}
  /\ o \in 0 .. 1439 /\ c \in 0 .. 1439 /\ w.open = o /\ w.close = c
  /\ day * 1440 <= s
  /\ \/ e <= day * MinutesPerDay + c
     \/ \E d \in Int : \E x \in WindowsOn(venue, d) :
          Fragment(d, x).from = day * MinutesPerDay + c /\ x.key = w.key
     \/ \E d \in Int : d * MinutesPerDay = day * MinutesPerDay + c

LEMMA CarryOverCovers ==
  ASSUME NEW venue, IsVenue(venue), NEW day, NEW b, NEW w, NEW o, NEW c, NEW s, NEW e,
         FromCarryOver(venue, day, b, w, o, c, s, e)
  PROVE  OneWindowCovers(venue, s, e)
<1> /\ s \in Int /\ e \in Int /\ s < e /\ day \in Int /\ b \in Int /\ b = day - 1
    /\ w \in WindowsOn(venue, b) /\ CarriesOver(w) /\ ExceptionsOn(venue, day) = {}
    /\ o \in 0 .. 1439 /\ c \in 0 .. 1439 /\ w.open = o /\ w.close = c
    /\ day * 1440 <= s
  BY DEF FromCarryOver
<1>1. c < o /\ c # 0
  BY DEF CarriesOver
<1>2. CASE e <= day * MinutesPerDay + c
  <2>1. e <= b * 1440 + c + 1440 /\ ~ (c > o)
    BY <1>1, <1>2 DEF MinutesPerDay
  <2>2. b * 1440 + o <= s
    OBVIOUS
  <2>3. ExceptionsOn(venue, b + 1) = {}
    <3>1. b + 1 = day
      OBVIOUS
    <3>2. QED
      BY <3>1
  <2>4. Spans(venue, b, o, c, s, e)
    BY <2>1, <2>2, <2>3 DEF Spans
  <2>5. Roomy(venue, b, w, o, c, s, e)
    BY <2>4 DEF Roomy
  <2>6. QED
    BY <2>5, WithinWindow
<1>3. ASSUME NEW d \in Int, NEW x \in WindowsOn(venue, d),
             Fragment(d, x).from = day * MinutesPerDay + c, x.key = w.key
      PROVE  FALSE
  <2>1. x.open \in 0 .. 1439
    BY WindowsAreTimed
  <2>2. PICK p \in 0 .. 1439 : x.open = p
    BY <2>1
  <2>3. d * 1440 + p = day * 1440 + c
    BY <1>3, <2>2 DEF Fragment, MinutesPerDay
  <2>4. d = b + 1
    BY <2>3, SMTT(30)
  <2>5. d = b
    BY <1>3, <2>4, KeyNamesWindow
  <2>6. QED
    BY <2>4, <2>5
<1>4. ASSUME NEW d \in Int, d * MinutesPerDay = day * MinutesPerDay + c
      PROVE  FALSE
  <2>1. d * 1440 = day * 1440 + c
    BY <1>4 DEF MinutesPerDay
  <2>2. QED
    BY <1>1, <2>1, SMTT(30)
<1>5. \/ e <= day * MinutesPerDay + c
      \/ \E d \in Int : \E x \in WindowsOn(venue, d) :
           Fragment(d, x).from = day * MinutesPerDay + c /\ x.key = w.key
      \/ \E d \in Int : d * MinutesPerDay = day * MinutesPerDay + c
  BY DEF FromCarryOver
<1>6. ASSUME \E d \in Int : \E x \in WindowsOn(venue, d) :
               Fragment(d, x).from = day * MinutesPerDay + c /\ x.key = w.key
      PROVE  FALSE
  <2>1. PICK d \in Int : \E x \in WindowsOn(venue, d) :
               Fragment(d, x).from = day * MinutesPerDay + c /\ x.key = w.key
    BY <1>6
  <2>2. PICK x \in WindowsOn(venue, d) : Fragment(d, x).from = day * MinutesPerDay + c /\ x.key = w.key
    BY <2>1
  <2>3. QED
    BY <1>3, <2>2
<1>7. ASSUME \E d \in Int : d * MinutesPerDay = day * MinutesPerDay + c
      PROVE  FALSE
  BY <1>4, <1>7
<1>8. QED
  BY <1>2, <1>5, <1>6, <1>7

\* From the merged interval of a visit to the one window behind it.
LEMMA VisitInOneWindow ==
  ASSUME NEW venue, IsVenue(venue), NEW earliest \in Int, NEW latest \in Int, NEW duration \in Nat \ {0},
         NEW s \in EarliestVisitStart(venue, earliest, latest, duration)
  PROVE  OneWindowCovers(venue, s, s + duration)
<1> DEFINE all == IntervalsBetween(venue, earliest, latest)
<1>1. s \in Int /\ s + duration \in Int /\ s < s + duration
  BY VisitStartsInTime
<1>2. PICK e \in Int : e = s + duration /\ s < e
  BY <1>1
<1>3. PICK j \in Merged(all) : s = Later(earliest, j.from) /\ e <= j.to
  BY <1>2, EarliestIsMember DEF EarliestVisitStart
<1>4. PICK f \in all :
        /\ j.from = f.from
        /\ \/ j.to = f.to
           \/ \E c \in all : c.from = f.to /\ c.key = f.key /\ j.to = c.to
  <2>1. PICK f \in all :
          j = [from |-> f.from,
               to   |-> LET rest == {c \in all : c.from = f.to /\ c.key = f.key /\ FirstOfDay(c, all)}
                        IN IF rest = {} THEN f.to ELSE (CHOOSE c \in rest : TRUE).to]
    BY <1>3 DEF Merged
  <2> DEFINE rest == {c \in all : c.from = f.to /\ c.key = f.key /\ FirstOfDay(c, all)}
  <2>2. CASE rest = {}
    BY <2>1, <2>2
  <2>3. CASE rest # {}
    <3>1. (CHOOSE c \in rest : TRUE) \in rest
      BY <2>3
    <3>2. j.to = (CHOOSE c \in rest : TRUE).to /\ j.from = f.from
      BY <2>1, <2>3
    <3>3. QED
      BY <3>1, <3>2
  <2>4. QED
    BY <2>2, <2>3
<1>5. f.from \in Int /\ f.from <= s
  BY <1>3, <1>4, OpeningTimes DEF Later
<1>6. ASSUME NEW c \in all
      PROVE  \E day \in Int :
               \/ \E w \in WindowsOn(venue, day) : c = Fragment(day, w)
               \/ /\ ExceptionsOn(venue, day) = {}
                  /\ \E w \in WindowsOn(venue, day - 1) : CarriesOver(w) /\ c = CarryOver(day, w)
  <2>1. PICK day \in DayOf(earliest) .. DayOf(latest) : c \in OpeningIntervals(venue, day)
    BY DEF IntervalsBetween
  <2>2. day \in Int
    BY <2>1 DEF DayOf, MinutesPerDay
  <2>3. QED
    BY <2>1, <2>2 DEF OpeningIntervals
<1>7. e <= f.to \/ \E c \in all : c.from = f.to /\ c.key = f.key /\ e <= c.to
  BY <1>3, <1>4
<1>8. PICK day \in Int :
        \/ \E w \in WindowsOn(venue, day) : f = Fragment(day, w)
        \/ /\ ExceptionsOn(venue, day) = {}
           /\ \E w \in WindowsOn(venue, day - 1) : CarriesOver(w) /\ f = CarryOver(day, w)
  BY <1>4, <1>6
<1>9. ASSUME NEW d, NEW x
      PROVE  /\ Fragment(d, x).key = x.key
             /\ CarryOver(d, x).from = d * 1440 /\ CarryOver(d, x).to = d * 1440 + x.close
             /\ CarryOver(d, x).key = x.key
  BY DEF Fragment, CarryOver, MinutesPerDay
<1>10. CASE \E w \in WindowsOn(venue, day) : f = Fragment(day, w)
  <2>1. PICK w \in WindowsOn(venue, day) : f = Fragment(day, w)
    BY <1>10
  <2>2. PICK t : t = Fragment(day, w).to
    OBVIOUS
  <2>3. t = f.to /\ f.key = w.key
    BY <1>9, <2>1, <2>2
  <2>4. ASSUME NEW k \in all, k.from = f.to, k.key = f.key, e <= k.to
        PROVE  GoesOn(venue, t, w, e)
    <3>1. PICK d \in Int :
            \/ \E x \in WindowsOn(venue, d) : k = Fragment(d, x)
            \/ /\ ExceptionsOn(venue, d) = {}
               /\ \E x \in WindowsOn(venue, d - 1) : CarriesOver(x) /\ k = CarryOver(d, x)
      BY <1>6
    <3>2. CASE \E x \in WindowsOn(venue, d) : k = Fragment(d, x)
      <4>1. PICK x \in WindowsOn(venue, d) : k = Fragment(d, x)
        BY <3>2
      <4>2. Fragment(d, x).from = t /\ x.key = w.key
        BY <1>9, <2>3, <2>4, <4>1
      <4>3. QED
        BY <4>2 DEF GoesOn
    <3>3. CASE /\ ExceptionsOn(venue, d) = {}
               /\ \E x \in WindowsOn(venue, d - 1) : CarriesOver(x) /\ k = CarryOver(d, x)
      <4>1. PICK x \in WindowsOn(venue, d - 1) : k = CarryOver(d, x)
        BY <3>3
      <4>2. d * MinutesPerDay = t /\ x.key = w.key /\ e <= d * MinutesPerDay + x.close
        BY <1>9, <2>3, <2>4, <4>1 DEF MinutesPerDay
      <4>3. QED
        BY <3>3, <4>2 DEF GoesOn
    <3>4. QED
      BY <3>1, <3>2, <3>3
  <2>5. GoesOn(venue, t, w, e)
    <3>1. CASE e <= f.to
      BY <2>3, <3>1 DEF GoesOn
    <3>2. QED
      BY <1>7, <2>4, <3>1
  <2>6. /\ Fragment(day, w).from <= s
        /\ w.open \in 0 .. 1439 /\ w.close \in 0 .. 1439
    BY <1>5, <2>1, WindowsAreTimed
  <2>7. FromFragment(venue, day, w, w.open, w.close, t, s, e)
    BY <1>1, <1>2, <2>2, <2>5, <2>6 DEF FromFragment
  <2>8. OneWindowCovers(venue, s, e)
    BY <2>7, FragmentCovers
  <2>9. QED
    BY <1>2, <2>8
<1>11. CASE /\ ExceptionsOn(venue, day) = {}
            /\ \E w \in WindowsOn(venue, day - 1) : CarriesOver(w) /\ f = CarryOver(day, w)
  <2>1. PICK w \in WindowsOn(venue, day - 1) : CarriesOver(w) /\ f = CarryOver(day, w)
    BY <1>11
  <2>2. f.from = day * 1440 /\ f.to = day * 1440 + w.close /\ f.key = w.key
    BY <1>9, <2>1
  <2>3. ASSUME NEW c \in all, c.from = f.to, c.key = f.key
        PROVE  \/ \E d \in Int : \E x \in WindowsOn(venue, d) :
                    Fragment(d, x).from = day * MinutesPerDay + w.close /\ x.key = w.key
               \/ \E d \in Int : d * MinutesPerDay = day * MinutesPerDay + w.close
    BY <1>6, <1>9, <2>2, <2>3 DEF MinutesPerDay
  <2>4. day * 1440 <= s
    BY <1>5, <2>2
  <2>5. PICK b \in Int : b = day - 1
    OBVIOUS
  <2>6. w \in WindowsOn(venue, b)
    BY <2>5
  <2>7. w.open \in 0 .. 1439 /\ w.close \in 0 .. 1439
    BY <2>6, WindowsAreTimed
  <2>8. PICK c \in 0 .. 1439 : w.close = c
    BY <2>7
  <2>9. e <= day * MinutesPerDay + c \/ \E k \in all : k.from = f.to /\ k.key = f.key
    BY <1>7, <2>2, <2>8 DEF MinutesPerDay
  <2>10. \/ e <= day * MinutesPerDay + c
         \/ \E d \in Int : \E x \in WindowsOn(venue, d) :
              Fragment(d, x).from = day * MinutesPerDay + c /\ x.key = w.key
         \/ \E d \in Int : d * MinutesPerDay = day * MinutesPerDay + c
    <3>1. CASE e <= day * MinutesPerDay + c
      BY <3>1
    <3>2. CASE \E k \in all : k.from = f.to /\ k.key = f.key
      <4>1. \/ \E d \in Int : \E x \in WindowsOn(venue, d) :
                  Fragment(d, x).from = day * MinutesPerDay + w.close /\ x.key = w.key
            \/ \E d \in Int : d * MinutesPerDay = day * MinutesPerDay + w.close
        BY <2>3, <3>2
      <4>2. QED
        BY <2>8, <4>1
    <3>3. QED
      BY <2>9, <3>1, <3>2
  <2>11. FromCarryOver(venue, day, b, w, w.open, c, s, e)
    BY <1>1, <1>2, <1>11, <2>1, <2>4, <2>5, <2>6, <2>7, <2>8, <2>10 DEF FromCarryOver
  <2>12. OneWindowCovers(venue, s, e)
    BY <2>11, CarryOverCovers
  <2>13. QED
    BY <1>2, <2>12
<1>12. QED
  BY <1>8, <1>10, <1>11

-----------------------------------------------------------------------------
\* The answer

\* What the validator says of an accepted schedule, read as a fact about it.
LEMMA NothingReported ==
  ASSUME Acceptable, NEW cond, NEW key, NEW p, Report(cond, key, p) \subseteq Issues,
         key # "food.selection.missing"
  PROVE  ~ cond
<1>1. \A issue \in Issues : issue.key = "food.selection.missing"
  BY DEF Acceptable, OnlyExplicitFoodless
<1>2. SUFFICES ASSUME cond PROVE FALSE
  OBVIOUS
<1>3. [key |-> key, place |-> p] \in Issues
  BY <1>2 DEF Report
<1>4. QED
  BY <1>1, <1>3

LEMMA ItemsAreChecked ==
  ASSUME NEW path \in best, NEW i \in DOMAIN path.stops
  PROVE  ItemIssues(path.stops, i) \subseteq Issues
<1>1. ValidateItinerary(path) \subseteq Issues
  BY Zenon DEF Issues
<1>2. ItemIssues(path.stops, i) \subseteq ValidateItinerary(path)
  BY Zenon DEF ValidateItinerary
<1>3. QED
  BY <1>1, <1>2

LEMMA LocksAreChecked ==
  ASSUME NEW path \in best
  PROVE  LockIssues(path.stops) \subseteq Issues
<1>1. ValidateItinerary(path) \subseteq Issues
  BY Zenon DEF Issues
<1>2. LockIssues(path.stops) \subseteq ValidateItinerary(path)
  BY Zenon DEF ValidateItinerary
<1>3. QED
  BY <1>1, <1>2

\* A visit the validator accepts may take place.
LEMMA AcceptedVisit ==
  ASSUME input \in Inputs, Acceptable, NEW path \in best, PathOk(path), NEW i \in DOMAIN path.stops
  PROVE  /\ path.stops[i].place \in Place
         /\ MayVisit(path.stops[i].place, path.stops[i].start)
         /\ path.stops[i].end = path.stops[i].start + Here(path.stops[i].place).duration
<1> DEFINE s == path.stops[i]
<1>1. i \in 1 .. Len(path.ids) /\ s.place = path.ids[i]
  BY DEF PathOk, WellFormed
<1>2. s.place \in Place /\ s.start \in Int /\ s.end \in Int
  BY <1>1 DEF PathOk, WellFormed
<1>3. /\ IsVenue(Here(s.place)) /\ Here(s.place).duration \in Nat \ {0}
      /\ input.start \in Nat /\ Latest \in Int
  BY <1>2, CatalogAssumption, InputAssumption DEF Here, Latest
<1>4. /\ Report(s.end - s.start # Here(s.place).duration, "item.duration", s.place) \subseteq Issues
      /\ Report(s.start < input.start, "request.start", s.place) \subseteq Issues
      /\ Report(s.end > Latest, "request.duration", s.place) \subseteq Issues
      /\ Report(VisitStart(s.place, s.start) # {s.start}, "opening_hours", s.place) \subseteq Issues
  BY ItemsAreChecked, ZenonT(60) DEF ItemIssues
<1>5. /\ ~ (s.end - s.start # Here(s.place).duration)
      /\ ~ (s.start < input.start)
      /\ ~ (s.end > Latest)
      /\ ~ (VisitStart(s.place, s.start) # {s.start})
  <2>1. ~ (s.end - s.start # Here(s.place).duration)
    BY <1>4, NothingReported, ZenonT(30)
  <2>2. ~ (s.start < input.start)
    BY <1>4, NothingReported, ZenonT(30)
  <2>3. ~ (s.end > Latest)
    BY <1>4, NothingReported, ZenonT(30)
  <2>4. ~ (VisitStart(s.place, s.start) # {s.start})
    BY <1>4, NothingReported, ZenonT(30)
  <2>5. QED
    BY <2>1, <2>2, <2>3, <2>4
<1>6. s.start \in EarliestVisitStart(Here(s.place), s.start, Latest, Here(s.place).duration)
  BY <1>5 DEF VisitStart
<1>7. OneWindowCovers(Here(s.place), s.start, s.start + Here(s.place).duration)
  BY <1>2, <1>3, <1>6, VisitInOneWindow, ZenonT(30)
<1>8. s.end = s.start + Here(s.place).duration
  BY <1>2, <1>3, <1>5
<1>9. QED
  BY <1>2, <1>3, <1>5, <1>7, <1>8 DEF MayVisit

\* There is time for the trip to every stop it accepts.
LEMMA AcceptedTrip ==
  ASSUME input \in Inputs, Acceptable, NEW path \in best, PathOk(path),
         NEW i \in DOMAIN path.stops, i # 1
  PROVE  LET before == path.stops[i - 1]
             edge   == <<before.place, path.stops[i].place>>
         IN /\ edge \in DOMAIN Travel
            /\ path.stops[i].start >= before.end + Travel[edge].minutes + TransitionBuffer
<1> DEFINE s      == path.stops[i]
           before == path.stops[i - 1]
           edge   == <<before.place, s.place>>
<1>1. TravelIssues(path.stops, i) \subseteq Issues
  BY ItemsAreChecked DEF ItemIssues
<1>2. edge \in DOMAIN Travel
  <2>1. SUFFICES ASSUME edge \notin DOMAIN Travel PROVE FALSE
    OBVIOUS
  <2>2. Report(TRUE, "travel.missing", s.place) \subseteq Issues
    BY <1>1, <2>1 DEF TravelIssues
  <2>3. QED
    BY <2>2, NothingReported, ZenonT(30)
<1>3. Report(s.start < before.end + Travel[edge].minutes + TransitionBuffer, "travel.transition", s.place)
        \subseteq Issues
  BY <1>1, <1>2 DEF TravelIssues
<1>4. ~ (s.start < before.end + Travel[edge].minutes + TransitionBuffer)
  BY <1>3, NothingReported, ZenonT(30)
<1>5. i \in 1 .. Len(path.ids) /\ i - 1 \in 1 .. Len(path.ids)
  BY DEF PathOk, WellFormed
<1>6. s.start \in Int /\ before.end \in Int
  BY <1>5 DEF PathOk, WellFormed
<1>7. Travel[edge].minutes \in Int
  BY <1>2, TravelAssumption
<1>8. \A a, b, m \in Int : ~ (a < b + m + TransitionBuffer) => a >= b + m + TransitionBuffer
  BY DEF TransitionBuffer
<1>9. s.start >= before.end + Travel[edge].minutes + TransitionBuffer
  BY <1>4, <1>6, <1>7, <1>8
<1>10. QED
  BY <1>2, <1>9

\* Something to eat, or a customer who wants nothing.
LEMMA AcceptedFood ==
  ASSUME Acceptable, NEW path \in best, NEW i \in DOMAIN path.stops, NeedsFood(path.stops[i].place)
  PROVE  \/ VerifyFoodSelection(path.stops[i].place, path.stops[i].food)
         \/ /\ path.stops[i].place \in DOMAIN input.selections
            /\ input.selections[path.stops[i].place] = Foodless
<1> DEFINE s == path.stops[i]
<1>1. FoodIssues(s) \subseteq Issues
  BY ItemsAreChecked DEF ItemIssues
<1>2. CASE s.food = Foodless
  <2>1. [key |-> "food.selection.missing", place |-> s.place] \in Issues
    BY <1>1, <1>2 DEF FoodIssues, Report
  <2>2. QED
    BY <2>1 DEF Acceptable, OnlyExplicitFoodless
<1>3. CASE s.food # Foodless
  <2>1. Report(~ VerifyFoodSelection(s.place, s.food), "food.menu", s.place) \subseteq Issues
    BY <1>1, <1>3 DEF FoodIssues
  <2>2. ~ ~ VerifyFoodSelection(s.place, s.food)
    BY <2>1, NothingReported, ZenonT(30)
  <2>3. QED
    BY <2>2
<1>4. QED
  BY <1>2, <1>3

\* Locked stops, all of them, and in their order.
LEMMA AcceptedLocks ==
  ASSUME input \in Inputs, Acceptable, NEW path \in best, PathOk(path), PathIsValid(path)
  PROVE  path.ids # <<>> /\ InLockOrder(path.ids)
<1>1. Locked \subseteq ToSet(path.ids)
  <2>1. CASE input.locked = <<>>
    <3>1. Locked = {}
      BY <2>1 DEF Locked, ToSet
    <3>2. QED
      BY <3>1
  <2>2. CASE input.locked # <<>>
    BY <2>2 DEF PathIsValid
  <2>3. QED
    BY <2>1, <2>2
<1>2. path.ids # <<>>
  <2>1. CASE input.locked = <<>>
    BY <2>1 DEF PathIsValid
  <2>2. CASE input.locked # <<>>
    <3>1. input.locked \in Seq(Place)
      BY InputAssumption
    <3>2. 1 \in DOMAIN input.locked
      BY <2>2, <3>1
    <3>3. input.locked[1] \in ToSet(path.ids)
      BY <1>1, <3>2 DEF Locked, ToSet
    <3>4. QED
      BY <3>3 DEF ToSet
  <2>3. QED
    BY <2>1, <2>2
<1>3. ASSUME NEW k \in 2 .. Len(input.locked), NEW i \in DOMAIN path.ids, NEW j \in DOMAIN path.ids,
             path.ids[i] = input.locked[k - 1], path.ids[j] = input.locked[k]
      PROVE  i < j
  <2> DEFINE At(p) == {n \in DOMAIN path.stops : path.stops[n].place = p}
             bad   == k > 1 /\ \E m \in At(input.locked[k]), n \in At(input.locked[k - 1]) : m <= n
  <2>1. k \in DOMAIN input.locked
    <3>1. input.locked \in Seq(Place)
      BY InputAssumption
    <3>2. QED
      BY <3>1
  <2>2. Report(bad, "lock.order", input.locked[k]) \subseteq Issues
    BY <2>1, LocksAreChecked DEF LockIssues
  <2>3. ~ bad
    <3> HIDE DEF bad
    <3>1. QED
      BY <2>2, NothingReported, ZenonT(30)
  <2>4. DOMAIN path.ids = 1 .. Len(path.ids) /\ Len(path.ids) \in Nat
    BY DEF PathOk, WellFormed
  <2>5. j \in At(input.locked[k]) /\ i \in At(input.locked[k - 1])
    <3>1. DOMAIN path.stops = DOMAIN path.ids
      BY DEF PathOk, WellFormed
    <3>2. path.stops[i].place = path.ids[i] /\ path.stops[j].place = path.ids[j]
      BY <2>4 DEF PathOk, WellFormed
    <3>3. QED
      BY <1>3, <3>1, <3>2
  <2>6. ~ (j <= i)
    BY <2>3, <2>5
  <2>7. i \in Int /\ j \in Int
    BY <2>4
  <2>8. QED
    BY <2>6, <2>7
<1>4. QED
  BY <1>1, <1>2, <1>3 DEF InLockOrder

\* An accepted schedule is feasible.
LEMMA AcceptedIsFeasible ==
  ASSUME SearchInv, Acceptable, NEW path \in best
  PROVE  Feasible(path)
<1> DEFINE stops == path.stops
           ids   == [i \in DOMAIN stops |-> stops[i].place]
<1>1. input \in Inputs /\ PathOk(path) /\ PathIsValid(path)
  BY DEF SearchInv, Paths
<1>2. /\ DOMAIN stops = 1 .. Len(path.ids) /\ DOMAIN path.ids = 1 .. Len(path.ids)
      /\ Len(stops) = Len(path.ids) /\ Len(path.ids) \in Nat
      /\ \A i \in 1 .. Len(path.ids) : stops[i].place = path.ids[i]
  BY <1>1 DEF PathOk, WellFormed
<1>3. ids = path.ids
  <2>1. path.ids = [i \in 1 .. Len(path.ids) |-> path.ids[i]]
    BY <1>1 DEF PathOk, WellFormed
  <2>2. QED
    BY <1>2, <2>1
<1>4. path.ids # <<>> /\ InLockOrder(ids) /\ IsInjective(ids)
  BY <1>1, <1>3, AcceptedLocks DEF PathOk, Ordered
<1>5. stops # <<>>
  <2>1. Len(path.ids) # 0
    BY <1>1, <1>4 DEF PathOk, WellFormed
  <2>2. QED
    BY <1>2, <2>1
<1>6. \A i \in DOMAIN stops : /\ MayVisit(stops[i].place, stops[i].start)
                              /\ stops[i].end = stops[i].start + Here(stops[i].place).duration
  BY <1>1, AcceptedVisit
<1>7. ASSUME NEW i \in 2 .. Len(stops)
      PROVE  /\ <<stops[i - 1].place, stops[i].place>> \in DOMAIN Travel
             /\ stops[i].start >= stops[i - 1].start + Here(stops[i - 1].place).duration
                  + Travel[<<stops[i - 1].place, stops[i].place>>].minutes + TransitionBuffer
  <2>1. i \in DOMAIN stops /\ i - 1 \in DOMAIN stops /\ i # 1
    BY <1>2
  <2>2. stops[i - 1].end = stops[i - 1].start + Here(stops[i - 1].place).duration
    BY <1>6, <2>1
  <2>3. QED
    BY <1>1, <2>1, <2>2, AcceptedTrip
<1>8. ASSUME NEW i \in DOMAIN stops, NeedsFood(stops[i].place)
      PROVE  \/ VerifyFoodSelection(stops[i].place, stops[i].food)
             \/ /\ stops[i].place \in DOMAIN input.selections
                /\ input.selections[stops[i].place] = Foodless
  BY <1>8, AcceptedFood
<1>9. \A i \in DOMAIN stops : ids[i] = stops[i].place
  OBVIOUS
<1>10. \A i \in 2 .. Len(stops) : ids[i] = stops[i].place /\ ids[i - 1] = stops[i - 1].place
  <2>1. \A i \in 2 .. Len(stops) : i \in DOMAIN stops /\ i - 1 \in DOMAIN stops
    BY <1>2
  <2>2. QED
    BY <1>9, <2>1
<1> HIDE DEF ids
<1>11. /\ \A i \in DOMAIN stops : MayVisit(ids[i], stops[i].start)
       /\ \A i \in 2 .. Len(stops) :
            /\ <<ids[i - 1], ids[i]>> \in DOMAIN Travel
            /\ stops[i].start >= stops[i - 1].start + Here(ids[i - 1]).duration
                                   + Travel[<<ids[i - 1], ids[i]>>].minutes + TransitionBuffer
       /\ \A i \in DOMAIN stops :
            NeedsFood(ids[i]) =>
              \/ VerifyFoodSelection(ids[i], stops[i].food)
              \/ ids[i] \in DOMAIN input.selections /\ input.selections[ids[i]] = Foodless
  BY <1>6, <1>7, <1>8, <1>9, <1>10
<1>12. QED
  BY <1>4, <1>5, <1>11 DEF Feasible, ids

\* The answer is given once, and nothing takes it back.
AnswerInv ==
  /\ outcome.code = "ok" => stage = "done"
  /\ AnswerIsFeasible
  /\ LockedFoodIsKept

LEMMA FeasibleStays ==
  ASSUME input' = input, NEW path, Feasible(path)
  PROVE  Feasible(path)'
<1>1. \A p, s : MayVisit(p, s)' = MayVisit(p, s)
  BY InputDecides DEF MayVisit, Here
<1>2. \A p, s : VerifyFoodSelection(p, s)' = VerifyFoodSelection(p, s)
  BY DEF VerifyFoodSelection, Here, Dish, Quantity
<1>3. \A ids : InLockOrder(ids)' = InLockOrder(ids)
  BY InputDecides DEF InLockOrder
<1>4. \A p : Here(p)' = Here(p)
  BY DEF Here
<1>5. \A p : NeedsFood(p)' = NeedsFood(p)
  BY InputDecides
<1>6. QED
  BY <1>1, <1>2, <1>3, <1>4, <1>5 DEF Feasible

\* Nothing but an acceptance answers "ok".
LEMMA AnswerStays ==
  ASSUME AnswerInv, [Next]_vars, ~ Accept, outcome'.code = "ok"
  PROVE  outcome' = outcome /\ input' = input /\ stage = "done" /\ stage' = stage
<1>1. outcome' = outcome
  <2>1. ASSUME RefuseInput PROVE FALSE
    <3>1. outcome'.code = Refusal
      BY <2>1 DEF RefuseInput, Answer
    <3> QED
      BY <3>1 DEF Refusal, BudgetError
  <2>2. ASSUME NEW code, Answer(code, NoPath), code # "ok" PROVE FALSE
    BY <2>2 DEF Answer
  <2>3. ASSUME FilterCandidates \/ ExpandBeam \/ StartSearch \/ Repair PROVE outcome' = outcome
    BY <2>3 DEF FilterCandidates, ExpandBeam, StartSearch, Repair, Schedule
  <2>4. ASSUME SettleBeam \/ SettleSearch PROVE outcome' = outcome
    BY <2>2, <2>4 DEF SettleBeam, SettleSearch
  <2>5. ASSUME Visit PROVE outcome' = outcome
    BY <2>2, <2>5 DEF Visit
  <2>6. ASSUME RefuseRepair \/ RefuseResult PROVE FALSE
    BY <2>2, <2>6 DEF RefuseRepair, RefuseResult
  <2>7. ASSUME UNCHANGED vars PROVE outcome' = outcome
    BY <2>7 DEF vars
  <2> QED
    BY <2>1, <2>3, <2>4, <2>5, <2>6, <2>7 DEF Next
<1>2. stage = "done"
  BY <1>1 DEF AnswerInv
<1>3. UNCHANGED vars
  BY <1>2 DEF Next, RefuseInput, FilterCandidates, ExpandBeam, SettleBeam, StartSearch, Visit, SettleSearch,
    Repair, RefuseRepair, RefuseResult
<1> QED
  BY <1>1, <1>2, <1>3 DEF vars

LEMMA AnswerInvInit == Init => AnswerInv
BY DEF Init, AnswerInv, AnswerIsFeasible, LockedFoodIsKept, Pending

LEMMA AnswerInvNext == SearchInv /\ AnswerInv /\ [Next]_vars => AnswerInv'
<1> SUFFICES ASSUME SearchInv, AnswerInv, [Next]_vars PROVE AnswerInv'
  OBVIOUS
<1>1. CASE Accept
  <2>1. PICK path \in best : outcome'.code = "ok" /\ outcome'.path = path
    BY <1>1 DEF Accept, Answer
  <2>2. input' = input /\ pinned' = pinned /\ Acceptable /\ stage = "validate" /\ stage' = "done"
    BY <1>1 DEF Accept, Answer
  <2>3. Feasible(path)'
    BY <2>2, AcceptedIsFeasible, FeasibleStays
  <2>4. ASSUME NEW i \in DOMAIN path.stops, path.stops[i].place \in Locked \cap DOMAIN input.selections
        PROVE  path.stops[i].food = input.selections[path.stops[i].place]
    <3>1. PathOk(path) /\ LocksPinned
      BY <2>2 DEF SearchInv, Paths
    <3>2. QED
      BY <2>4, <3>1 DEF PathOk, Eats, LocksPinned
  <2>5. LockedFoodIsKept'
    BY <2>1, <2>2, <2>4, InputDecides DEF LockedFoodIsKept
  <2>6. QED
    BY <2>1, <2>2, <2>3, <2>5 DEF AnswerInv, AnswerIsFeasible
<1>2. CASE outcome'.code # "ok"
  BY <1>2 DEF AnswerInv, AnswerIsFeasible, LockedFoodIsKept
<1>3. CASE ~ Accept /\ outcome'.code = "ok"
  <2>1. outcome' = outcome /\ input' = input /\ stage = "done" /\ stage' = stage
    BY <1>3, AnswerStays
  <2>2. Feasible(outcome.path)'
    <3>1. PICK path : path = outcome.path
      OBVIOUS
    <3>2. Feasible(path)
      BY <1>3, <2>1, <3>1 DEF AnswerInv, AnswerIsFeasible
    <3>3. Feasible(path)'
      BY <2>1, <3>2, FeasibleStays
    <3>4. QED
      BY <2>1, <3>1, <3>3
  <2>3. LockedFoodIsKept'
    BY <2>1, InputDecides DEF AnswerInv, LockedFoodIsKept
  <2>4. QED
    BY <2>1, <2>2, <2>3 DEF AnswerInv, AnswerIsFeasible
<1>4. QED
  BY <1>1, <1>2, <1>3

LEMMA SpecAnswerInv == Spec => [](SearchInv /\ AnswerInv)
BY SearchInvInit, SearchInvNext, AnswerInvInit, AnswerInvNext, PTL DEF Spec

\* Whatever the engine returns can be carried out, for every catalogue whose
\* windows keep the contract: each visit lies in one opening of its place although
\* the scheduler only ever looked at merged intervals. engine.ts, validator.ts.
THEOREM AnswersAreFeasible == Spec => []AnswerIsFeasible
BY SpecAnswerInv, PTL DEF AnswerInv

\* The dish chosen for a locked stop survives both schedules: scheduler.ts, repair.ts.
THEOREM LockedFoodStays == Spec => []LockedFoodIsKept
BY SpecAnswerInv, PTL DEF AnswerInv

-----------------------------------------------------------------------------
\* Counting and adding

\* Among some naturals one is the least, on which the inductions below rest.
LEMMA LeastExists ==
  ASSUME NEW N \in SUBSET Nat, N # {}
  PROVE  \E n \in N : \A m \in N : n <= m
<1>1. IsWellFoundedOn(OpToRel(<, Nat), Nat)
  BY NatLessThanWellFounded
<1>2. PICK n \in N : \A m \in N : ~ (<<m, n>> \in OpToRel(<, Nat))
  BY <1>1, WFMin
<1>3. \A m \in N : ~ (m < n)
  BY <1>2 DEF OpToRel
<1> QED
  BY <1>3

\* What FoldFunctionOnSet recurs on: one element of a set after the other.
Adds(f, S, g) ==
  g = [s \in SUBSET S |-> IF s = {} THEN 0 ELSE f[CHOOSE x \in s : TRUE] + g[s \ {CHOOSE x \in s : TRUE}]]

LEMMA SumUnfolds ==
  ASSUME NEW f, NEW S
  PROVE  SumFunctionOnSet(f, S) = (CHOOSE g : Adds(f, S, g))[S]
BY DEF SumFunctionOnSet, FoldFunctionOnSet, MapThenFoldSet, Adds

\* A finite set has such a function: each size of subsets extends the one before.
LEMMA SumIsDefined ==
  ASSUME NEW f, NEW S, IsFiniteSet(S)
  PROVE  Adds(f, S, CHOOSE g : Adds(f, S, g))
<1> DEFINE Sized(k)   == {s \in SUBSET S : Cardinality(s) <= k}
           One(s)     == CHOOSE x \in s : TRUE
           Step(g, s) == IF s = {} THEN 0 ELSE f[One(s)] + g[s \ {One(s)}]
           Level(k)   == \E g : g = [s \in Sized(k) |-> Step(g, s)]
           Missing    == {k \in Nat : ~ Level(k)}
<1>1. \A s \in SUBSET S : IsFiniteSet(s) /\ Cardinality(s) \in Nat /\ Cardinality(s) <= Cardinality(S)
  BY FS_Subset, FS_CardinalityType
<1>2. \A s \in SUBSET S : s # {} => One(s) \in s
  OBVIOUS
<1>3. \A s \in SUBSET S : s # {} => s \ {One(s)} \in SUBSET S /\ Cardinality(s \ {One(s)}) = Cardinality(s) - 1
  BY <1>1, <1>2, FS_RemoveElement
<1>4. \A s \in SUBSET S : Cardinality(s) <= 0 <=> s = {}
  BY <1>1, FS_EmptySet
<1> HIDE DEF One
<1>5. Level(0)
  <2> DEFINE g == [s \in Sized(0) |-> 0]
  <2>1. \A s \in Sized(0) : s = {}
    BY <1>4
  <2>2. g = [s \in Sized(0) |-> Step(g, s)]
    BY <2>1
  <2> QED
    BY <2>2
<1>6. ASSUME NEW k \in Nat, Level(k)
      PROVE  Level(k + 1)
  <2>1. PICK g : g = [s \in Sized(k) |-> Step(g, s)]
    BY <1>6
  <2> DEFINE h == [s \in Sized(k + 1) |-> Step(g, s)]
  <2>2. \A s \in Sized(k) : s \in Sized(k + 1) /\ g[s] = Step(g, s)
    <3>1. \A s \in Sized(k) : Cardinality(s) <= k + 1
      BY <1>1
    <3>2. \A s \in Sized(k) : g[s] = Step(g, s)
      <4> HIDE DEF Sized, Step
      <4> QED
        BY <2>1
    <3> QED
      BY <3>1, <3>2
  <2>3. \A s \in Sized(k) : h[s] = g[s]
    BY <2>2
  <2>4. \A s \in Sized(k + 1) : s # {} => s \ {One(s)} \in Sized(k)
    BY <1>1, <1>3
  <2> HIDE DEF Sized
  <2>5. \A s \in Sized(k + 1) : Step(g, s) = Step(h, s)
    BY <2>3, <2>4
  <2>6. h = [s \in Sized(k + 1) |-> Step(h, s)]
    BY <2>5
  <2> QED
    BY <2>6
<1> HIDE DEF Level
<1>7. Missing = {}
  <2>1. SUFFICES ASSUME Missing # {} PROVE FALSE
    OBVIOUS
  <2>2. PICK n \in Missing : \A m \in Missing : n <= m
    BY <2>1, LeastExists
  <2>3. n # 0 /\ n \in Nat
    BY <1>5, <2>2
  <2>4. n - 1 \in Nat /\ n - 1 \notin Missing
    BY <2>2, <2>3
  <2>5. Level(n - 1)
    BY <2>4
  <2>6. Level(n - 1 + 1) /\ n - 1 + 1 = n
    BY <1>6, <2>3, <2>4, <2>5
  <2> QED
    BY <2>2, <2>6
<1>8. Level(Cardinality(S))
  BY <1>1, <1>7
<1>9. Sized(Cardinality(S)) = SUBSET S
  BY <1>1
<1>10. \E g : Adds(f, S, g)
  BY <1>8, <1>9 DEF Adds, Level, One
<1> QED
  BY <1>10

\* Two such functions agree wherever what they add is the same.
LEMMA SameIsAdded ==
  ASSUME NEW f, NEW S, NEW g, NEW d, NEW T, NEW h, NEW U \in SUBSET (S \cap T),
         IsFiniteSet(U), Adds(f, S, g), Adds(d, T, h), \A x \in U : f[x] = d[x]
  PROVE  g[U] = h[U]
<1> DEFINE Differ == {s \in SUBSET U : g[s] # h[s]}
           Sizes  == {Cardinality(s) : s \in Differ}
<1>1. SUFFICES ASSUME Differ # {} PROVE FALSE
  OBVIOUS
<1>2. \A s \in SUBSET U : IsFiniteSet(s) /\ Cardinality(s) \in Nat
  BY FS_Subset, FS_CardinalityType
<1>3. PICK n \in Sizes : \A m \in Sizes : n <= m
  <2>1. Sizes \in SUBSET Nat /\ Sizes # {}
    BY <1>1, <1>2
  <2> QED
    BY <2>1, LeastExists
<1>4. PICK s \in Differ : Cardinality(s) = n
  BY <1>3
<1>5. PICK x : x = CHOOSE y \in s : TRUE
  OBVIOUS
<1>6. CASE s = {}
  BY <1>4, <1>6 DEF Adds
<1>7. CASE s # {}
  <2>1. x \in s
    BY <1>5, <1>7
  <2>2. s \ {x} \in SUBSET U /\ Cardinality(s \ {x}) = n - 1
    BY <1>2, <1>4, <2>1, FS_RemoveElement
  <2>3. s \ {x} \notin Differ
    <3>1. ~ (n <= n - 1)
      BY <1>2, <1>4
    <3> QED
      BY <1>3, <2>2, <3>1
  <2>4. g[s \ {x}] = h[s \ {x}] /\ f[x] = d[x]
    BY <2>1, <2>2, <2>3
  <2>5. g[s] = f[x] + g[s \ {x}] /\ h[s] = d[x] + h[s \ {x}]
    BY <1>4, <1>5, <1>7 DEF Adds
  <2> QED
    BY <1>4, <2>4, <2>5
<1> QED
  BY <1>6, <1>7

\* What is added are integers, and the order does not matter.
LEMMA AnyIsAdded ==
  ASSUME NEW f, NEW S, NEW g, NEW T \in SUBSET S,
         IsFiniteSet(S), \A x \in S : f[x] \in Int, Adds(f, S, g)
  PROVE  g[T] \in Int /\ \A x \in T : g[T] = f[x] + g[T \ {x}]
<1> DEFINE Good(s) == /\ g[s] \in Int
                      /\ \A x \in s : g[s] = f[x] + g[s \ {x}]
           Bad     == {s \in SUBSET S : ~ Good(s)}
           Sizes   == {Cardinality(s) : s \in Bad}
<1>1. SUFFICES ASSUME Bad # {} PROVE FALSE
  <2>1. Bad = {} => Good(T)
    <3> HIDE DEF Good
    <3> QED
      OBVIOUS
  <2> QED
    BY <2>1, Zenon
<1>2. \A s \in SUBSET S : IsFiniteSet(s) /\ Cardinality(s) \in Nat
  BY FS_Subset, FS_CardinalityType
<1>3. PICK n \in Sizes : \A m \in Sizes : n <= m
  <2>1. Sizes \in SUBSET Nat /\ Sizes # {}
    BY <1>1, <1>2
  <2> QED
    BY <2>1, LeastExists
<1>4. PICK s \in Bad : Cardinality(s) = n
  BY <1>3
<1>5. ASSUME NEW x \in s
      PROVE  /\ s \ {x} \in SUBSET S /\ Cardinality(s \ {x}) = n - 1
             /\ Good(s \ {x})
  <2>1. s \ {x} \in SUBSET S /\ Cardinality(s \ {x}) = n - 1
    BY <1>2, <1>4, FS_RemoveElement
  <2>2. ~ (n <= n - 1)
    BY <1>2, <1>4
  <2>3. s \ {x} \notin Bad
    <3> HIDE DEF Bad
    <3> QED
      BY <1>3, <2>1, <2>2
  <2> QED
    BY <2>1, <2>3
<1>6. PICK c : c = CHOOSE y \in s : TRUE
  OBVIOUS
<1>7. s = {} => g[s] = 0
  BY <1>4 DEF Adds
<1>8. CASE s # {}
  <2>1. c \in s /\ f[c] \in Int
    BY <1>4, <1>6, <1>8
  <2>2. g[s] = f[c] + g[s \ {c}]
    BY <1>4, <1>6, <1>8 DEF Adds
  <2>3. g[s \ {c}] \in Int
    BY <1>5, <2>1
  <2>4. ASSUME NEW x \in s, x # c
        PROVE  g[s] = f[x] + g[s \ {x}]
    <3>1. x \in s \ {c} /\ c \in s \ {x}
      BY <2>1, <2>4
    <3>2. g[s \ {c}] = f[x] + g[(s \ {c}) \ {x}]
      BY <1>5, <2>1, <3>1
    <3>3. g[s \ {x}] = f[c] + g[(s \ {x}) \ {c}] /\ g[s \ {x}] \in Int
      BY <1>5, <2>1, <3>1
    <3>4. (s \ {c}) \ {x} = (s \ {x}) \ {c}
      OBVIOUS
    <3>5. f[x] \in Int
      BY <1>4
    <3>6. g[(s \ {c}) \ {x}] \in Int
      <4>1. PICK t \in SUBSET S : t = s \ {c} /\ Cardinality(t) = n - 1
        BY <1>5, <2>1
      <4>2. (s \ {c}) \ {x} \in SUBSET S /\ Cardinality((s \ {c}) \ {x}) = n - 2
        <5>1. x \in t /\ IsFiniteSet(t) /\ n \in Nat
          BY <1>2, <1>4, <3>1, <4>1
        <5>2. Cardinality(t \ {x}) = n - 1 - 1
          <6>1. Cardinality(t \ {x}) = Cardinality(t) - 1
            BY <5>1, FS_RemoveElement, Zenon
          <6> QED
            BY <4>1, <5>1, <6>1
        <5> QED
          BY <4>1, <5>1, <5>2
      <4>3. ~ (n <= n - 2)
        BY <1>2, <1>4
      <4>4. (s \ {c}) \ {x} \notin Bad
        <5> HIDE DEF Bad
        <5> QED
          BY <1>3, <4>2, <4>3
      <4> QED
        BY <4>2, <4>4
    <3>7. PICK rest \in Int : rest = g[(s \ {c}) \ {x}]
      BY <3>6
    <3>8. g[s] = f[c] + (f[x] + rest) /\ g[s \ {x}] = f[c] + rest
      BY <2>2, <3>2, <3>3, <3>4, <3>7
    <3> QED
      BY <2>1, <3>5, <3>7, <3>8
  <2>5. \A x \in s : g[s] = f[x] + g[s \ {x}]
    BY <2>2, <2>4
  <2>6. g[s] \in Int
    BY <2>1, <2>2, <2>3
  <2> QED
    BY <1>4, <2>5, <2>6
<1> QED
  BY <1>4, <1>7, <1>8

\* The sum of a longer sequence.
LEMMA SumOfNone == SumFunction(<<>>) = 0
<1>1. DOMAIN <<>> = {} /\ IsFiniteSet({})
  BY FS_EmptySet
<1>2. PICK g : g = CHOOSE h : Adds(<<>>, {}, h)
  OBVIOUS
<1>3. Adds(<<>>, {}, g)
  BY <1>1, <1>2, SumIsDefined
<1>4. g[{}] = 0
  BY <1>3 DEF Adds
<1> QED
  BY <1>1, <1>2, <1>4, SumUnfolds DEF SumFunction

LEMMA SumOfOneMore ==
  ASSUME NEW n \in Nat, NEW f, DOMAIN f = 1 .. n, \A i \in 1 .. n : f[i] \in Int,
         NEW h, DOMAIN h = 1 .. n + 1, \A i \in 1 .. n : h[i] = f[i], h[n + 1] \in Int
  PROVE  /\ SumFunction(f) \in Int
         /\ SumFunction(h) = SumFunction(f) + h[n + 1]
<1>1. IsFiniteSet(1 .. n) /\ IsFiniteSet(1 .. n + 1)
  BY FS_Interval
<1>2. PICK g : g = CHOOSE a : Adds(f, 1 .. n, a)
  OBVIOUS
<1>3. PICK k : k = CHOOSE a : Adds(h, 1 .. n + 1, a)
  OBVIOUS
<1>4. Adds(f, 1 .. n, g) /\ Adds(h, 1 .. n + 1, k)
  BY <1>1, <1>2, <1>3, SumIsDefined
<1>5. SumFunction(f) = g[1 .. n] /\ SumFunction(h) = k[1 .. n + 1]
  BY <1>2, <1>3, SumUnfolds DEF SumFunction
<1>6. g[1 .. n] \in Int
  BY <1>1, <1>4, AnyIsAdded
<1>7. k[1 .. n + 1] = h[n + 1] + k[(1 .. n + 1) \ {n + 1}]
  <2>1. \A i \in 1 .. n + 1 : h[i] \in Int
    <3>1. \A i \in 1 .. n + 1 : i \in 1 .. n \/ i = n + 1
      OBVIOUS
    <3> QED
      BY <3>1
  <2>2. n + 1 \in 1 .. n + 1
    OBVIOUS
  <2>3. PICK all : all = 1 .. n + 1
    OBVIOUS
  <2>4. ASSUME NEW x \in all
        PROVE  k[all] = h[x] + k[all \ {x}]
    <3>1. IsFiniteSet(all) /\ (\A i \in all : h[i] \in Int) /\ Adds(h, all, k) /\ all \in SUBSET all
      BY <1>1, <1>4, <2>1, <2>3
    <3> QED
      <4>1. k[all] \in Int /\ \A y \in all : k[all] = h[y] + k[all \ {y}]
        <5>1. IsFiniteSet(all)
          BY <3>1
        <5>2. \A y \in all : h[y] \in Int
          BY <3>1
        <5>3. Adds(h, all, k)
          BY <3>1
        <5>4. all \in SUBSET all
          BY <3>1
        <5> QED
          BY ONLY <5>1, <5>2, <5>3, <5>4, AnyIsAdded
      <4> QED
        BY <4>1
  <2> QED
    BY <2>2, <2>3, <2>4
<1>8. (1 .. n + 1) \ {n + 1} = 1 .. n
  OBVIOUS
<1>9. k[1 .. n] = g[1 .. n]
  <2>1. 1 .. n \in SUBSET ((1 .. n + 1) \cap (1 .. n))
    OBVIOUS
  <2>2. \A i \in 1 .. n : h[i] = f[i]
    OBVIOUS
  <2> QED
    BY <1>1, <1>4, <2>1, <2>2, SameIsAdded
<1>10. SumFunction(h) = h[n + 1] + SumFunction(f)
  BY <1>5, <1>7, <1>8, <1>9
<1> QED
  BY <1>5, <1>6, <1>10

-----------------------------------------------------------------------------
\* The order of the ranking

\* Numbers in their order are all there, and each of them once.
LEMMA InOrderIsComplete ==
  ASSUME NEW S \in SUBSET Int, IsFiniteSet(S)
  PROVE  InOrder(S) \in Seq(S) /\ ToSet(InOrder(S)) = S /\ IsInjective(InOrder(S))
<1> DEFINE upTo(x) == {y \in S : y <= x}
           n == Cardinality(S)
           place == [x \in S |-> Cardinality(upTo(x))]
<1>1. n \in Nat /\ IsFiniteSet(1 .. n) /\ Cardinality(1 .. n) = n
  BY FS_CardinalityType, FS_Interval
<1>2. \A x \in S : IsFiniteSet(upTo(x)) /\ Cardinality(upTo(x)) \in 0 .. n
  <2>1. ASSUME NEW x \in S PROVE IsFiniteSet(upTo(x)) /\ Cardinality(upTo(x)) \in 0 .. n
    <3>1. upTo(x) \in SUBSET S
      OBVIOUS
    <3>2. IsFiniteSet(upTo(x)) /\ Cardinality(upTo(x)) <= n
      BY <3>1, FS_Subset
    <3> QED
      BY <1>1, <3>2, FS_CardinalityType
  <2> QED
    BY <2>1
<1>3. \A x \in S : Cardinality(upTo(x)) # 0
  <2>1. \A x \in S : x \in upTo(x)
    OBVIOUS
  <2> HIDE DEF upTo
  <2> QED
    BY <1>2, <2>1, FS_EmptySet
<1>4. ASSUME NEW x \in S, NEW y \in S, Cardinality(upTo(x)) = Cardinality(upTo(y))
      PROVE  x = y
  <2>1. ASSUME NEW a \in S, NEW b \in S, a < b, Cardinality(upTo(a)) = Cardinality(upTo(b))
        PROVE  FALSE
    <3>1. upTo(a) \in SUBSET upTo(b)
      <4>1. \A z \in S : z <= a => z <= b
        BY <2>1
      <4> QED
        BY <4>1
    <3>2. upTo(a) = upTo(b)
      <4> HIDE DEF upTo
      <4> QED
        BY <1>2, <2>1, <3>1, FS_Subset
    <3>3. b \in upTo(b) /\ b \notin upTo(a)
      BY <2>1
    <3> QED
      BY <3>2, <3>3
  <2> QED
    BY <1>4, <2>1
<1>5. place \in Injection(S, 1 .. n)
  <2>1. \A x \in S : Cardinality(upTo(x)) \in 1 .. n
    BY <1>1, <1>2, <1>3
  <2> HIDE DEF upTo, n
  <2> QED
    BY <1>4, <2>1 DEF Injection, IsInjective
<1>6. place \in Surjection(S, 1 .. n)
  BY <1>1, <1>5, FS_Injection
<1>7. \A k \in 1 .. n : \E x \in S : Cardinality(upTo(x)) = k
  <2>1. \A k \in 1 .. n : \E x \in S : place[x] = k
    <3> HIDE DEF place, n
    <3> QED
      BY <1>6 DEF Surjection
  <2> QED
    BY <2>1
<1> DEFINE nth(k) == CHOOSE x \in S : Cardinality(upTo(x)) = k
<1>8. InOrder(S) = [k \in 1 .. n |-> nth(k)]
  BY DEF InOrder
<1>9. \A k \in 1 .. n : nth(k) \in S /\ Cardinality(upTo(nth(k))) = k
  BY <1>7
<1>10. \A x \in S : Cardinality(upTo(x)) \in 1 .. n /\ nth(Cardinality(upTo(x))) = x
  <2>1. \A x \in S : Cardinality(upTo(x)) \in 1 .. n
    BY <1>1, <1>2, <1>3
  <2> HIDE DEF upTo, n
  <2> QED
    BY <1>4, <2>1
<1> HIDE DEF nth, upTo, n
<1>11. InOrder(S) \in Seq(S)
  BY <1>1, <1>8, <1>9
<1>12. ToSet(InOrder(S)) = S
  BY <1>8, <1>9, <1>10 DEF ToSet
<1>13. IsInjective(InOrder(S))
  BY <1>8, <1>9 DEF IsInjective
<1> QED
  BY <1>11, <1>12, <1>13

LEMMA ConcatIsComplete ==
  ASSUME NEW s \in Seq(Nat), NEW t \in Seq(Nat), IsInjective(s), IsInjective(t),
         ToSet(s) \cap ToSet(t) = {}
  PROVE  s \o t \in Seq(Nat) /\ ToSet(s \o t) = ToSet(s) \cup ToSet(t) /\ IsInjective(s \o t)
<1>1. /\ s \o t \in Seq(Nat) /\ Len(s) \in Nat /\ Len(t) \in Nat
      /\ DOMAIN s = 1 .. Len(s) /\ DOMAIN t = 1 .. Len(t) /\ DOMAIN (s \o t) = 1 .. Len(s) + Len(t)
      /\ \A i \in 1 .. Len(s) : (s \o t)[i] = s[i]
      /\ \A i \in Len(s) + 1 .. Len(s) + Len(t) : (s \o t)[i] = t[i - Len(s)]
  OBVIOUS
<1>2. PICK m \in Nat, n \in Nat : m = Len(s) /\ n = Len(t)
  BY <1>1
<1>3. PICK c : c = s \o t
  OBVIOUS
<1>4. /\ DOMAIN s = 1 .. m /\ DOMAIN t = 1 .. n /\ DOMAIN c = 1 .. m + n
      /\ \A i \in 1 .. m : c[i] = s[i]
      /\ \A i \in m + 1 .. m + n : c[i] = t[i - m]
  BY <1>1, <1>2, <1>3
<1>5. \A i \in 1 .. n : i + m \in m + 1 .. m + n /\ (i + m) - m = i
  OBVIOUS
<1>6. \A i \in 1 .. m + n : i \in 1 .. m \/ (i \in m + 1 .. m + n /\ i - m \in 1 .. n)
  OBVIOUS
<1>7. \A i \in 1 .. n : c[i + m] = t[i] /\ i + m \in 1 .. m + n
  BY <1>4, <1>5
<1>8. \A i \in 1 .. m : c[i] = s[i] /\ i \in 1 .. m + n
  BY <1>4
<1>9. ToSet(c) = ToSet(s) \cup ToSet(t)
  <2>1. ToSet(c) \subseteq ToSet(s) \cup ToSet(t)
    BY <1>4, <1>6 DEF ToSet
  <2>2. ToSet(s) \subseteq ToSet(c)
    BY <1>4, <1>8 DEF ToSet
  <2>3. ToSet(t) \subseteq ToSet(c)
    BY <1>4, <1>7 DEF ToSet
  <2> QED
    BY <2>1, <2>2, <2>3
<1>10. ASSUME NEW i \in 1 .. m + n, NEW j \in 1 .. m + n, c[i] = c[j]
       PROVE  i = j
  <2>1. CASE i \in 1 .. m /\ j \in 1 .. m
    BY <1>4, <1>10, <2>1 DEF IsInjective
  <2>2. CASE i \notin 1 .. m /\ j \notin 1 .. m
    <3>1. /\ i \in m + 1 .. m + n /\ i - m \in 1 .. n
          /\ j \in m + 1 .. m + n /\ j - m \in 1 .. n
      BY <1>6, <2>2
    <3>2. t[i - m] = t[j - m]
      BY <1>4, <1>10, <3>1
    <3>3. i - m = j - m
      BY <1>4, <3>1, <3>2 DEF IsInjective
    <3> QED
      BY <3>3
  <2>3. ASSUME NEW k \in 1 .. m, NEW l \in 1 .. m + n, l \notin 1 .. m
        PROVE  c[k] # c[l]
    <3>1. l \in m + 1 .. m + n /\ l - m \in 1 .. n
      BY <1>6, <2>3
    <3>2. c[k] = s[k] /\ c[l] = t[l - m]
      BY <1>4, <3>1
    <3>3. s[k] \in ToSet(s) /\ t[l - m] \in ToSet(t)
      BY <1>4, <3>1 DEF ToSet
    <3> QED
      BY <3>2, <3>3
  <2> QED
    BY <1>10, <2>1, <2>2, <2>3
<1>11. IsInjective(c)
  BY <1>4, <1>10 DEF IsInjective
<1> QED
  BY <1>1, <1>3, <1>9, <1>11

\* Whatever the ranker leaves out follows in its text order.
LEMMA RankOrderIsComplete ==
  ASSUME NEW candidates \in SUBSET Nat, NEW ranked \in Seq(Nat), IsFiniteSet(candidates),
         ValidRanking(candidates, ranked)
  PROVE  /\ BuildRankOrder(candidates, ranked) \in Seq(Nat)
         /\ ToSet(BuildRankOrder(candidates, ranked)) = candidates
         /\ IsInjective(BuildRankOrder(candidates, ranked))
<1> DEFINE rest == candidates \ ToSet(ranked)
<1>1. rest \in SUBSET Int /\ IsFiniteSet(rest) /\ rest \in SUBSET Nat
  <2>1. rest \in SUBSET candidates
    OBVIOUS
  <2>2. IsFiniteSet(rest)
    <3> HIDE DEF rest
    <3> QED
      BY <2>1, FS_Subset
  <2>3. rest \in SUBSET Nat
    BY <2>1
  <2>4. SUBSET Nat \subseteq SUBSET Int
    OBVIOUS
  <2> QED
    BY <2>2, <2>3, <2>4, Zenon
<1>2. PICK others : others = InOrder(rest)
  OBVIOUS
<1>3. others \in Seq(rest) /\ ToSet(others) = rest /\ IsInjective(others)
  <2> HIDE DEF rest
  <2> QED
    BY <1>1, <1>2, InOrderIsComplete
<1>4. others \in Seq(Nat)
  <2> HIDE DEF rest
  <2> QED
    BY <1>1, <1>3, SeqMonotonic
<1>5. IsInjective(ranked) /\ ToSet(ranked) \subseteq candidates /\ ToSet(ranked) \cap ToSet(others) = {}
  BY <1>3 DEF ValidRanking
<1>6. ToSet(ranked) \cup ToSet(others) = candidates
  BY <1>3, <1>5
<1>7. /\ ranked \o others \in Seq(Nat)
      /\ ToSet(ranked \o others) = ToSet(ranked) \cup ToSet(others)
      /\ IsInjective(ranked \o others)
  BY <1>3, <1>4, <1>5, ConcatIsComplete
<1> QED
  BY <1>2, <1>6, <1>7 DEF BuildRankOrder

RankComplete == rank \in Seq(Nat) /\ ToSet(rank) = pool /\ IsInjective(rank)

\* What a repair leaves keeps its order.
LEMMA RemainingOrderIsComplete ==
  ASSUME RankComplete, NEW left \in SUBSET pool
  PROVE  /\ RemainingRankOrder(left) \in Seq(Nat)
         /\ ToSet(RemainingRankOrder(left)) = left
         /\ IsInjective(RemainingRankOrder(left))
<1> DEFINE N == {i \in DOMAIN rank : rank[i] \in left}
<1>1. rank \in Seq(Nat) /\ DOMAIN rank = 1 .. Len(rank) /\ Len(rank) \in Nat
  BY DEF RankComplete
<1>2. N \in SUBSET Int /\ IsFiniteSet(N)
  <2>1. IsFiniteSet(1 .. Len(rank)) /\ N \in SUBSET (1 .. Len(rank))
    BY <1>1, FS_Interval
  <2>2. IsFiniteSet(N)
    <3> HIDE DEF N
    <3> QED
      BY <2>1, FS_Subset
  <2> QED
    BY <2>1, <2>2
<1>3. PICK kept : kept = InOrder(N)
  OBVIOUS
<1>4. kept \in Seq(N) /\ ToSet(kept) = N /\ IsInjective(kept)
  <2> HIDE DEF N
  <2> QED
    BY <1>2, <1>3, InOrderIsComplete
<1>5. DOMAIN kept = 1 .. Len(kept) /\ Len(kept) \in Nat /\ \A k \in DOMAIN kept : kept[k] \in N
  BY <1>4 DEF ToSet
<1>6. PICK new : new = [k \in DOMAIN kept |-> rank[kept[k]]]
  OBVIOUS
<1>7. RemainingRankOrder(left) = new
  BY <1>3, <1>6 DEF RemainingRankOrder
<1>8. new \in Seq(Nat)
  <2>1. \A k \in 1 .. Len(kept) : rank[kept[k]] \in Nat
    BY <1>1, <1>5
  <2> QED
    BY <1>5, <1>6, <2>1
<1>9. ToSet(new) = left
  <2>1. ToSet(new) \subseteq left
    BY <1>5, <1>6 DEF ToSet
  <2>2. ASSUME NEW p \in left PROVE p \in ToSet(new)
    <3>1. p \in ToSet(rank)
      BY DEF RankComplete
    <3>2. PICK i \in DOMAIN rank : rank[i] = p
      BY <3>1 DEF ToSet
    <3>3. i \in ToSet(kept)
      BY <1>4, <3>2
    <3>4. PICK k \in DOMAIN kept : kept[k] = i
      BY <3>3 DEF ToSet
    <3> QED
      BY <1>6, <3>2, <3>4 DEF ToSet
  <2> QED
    BY <2>1, <2>2
<1>10. IsInjective(new)
  <2>1. IsInjective(rank)
    BY DEF RankComplete
  <2> QED
    BY <1>4, <1>5, <1>6, <2>1 DEF IsInjective
<1> QED
  BY <1>7, <1>8, <1>9, <1>10

-----------------------------------------------------------------------------
\* Amounts

LEMMA WeightIsNumber ==
  ASSUME input \in Inputs, NEW p \in Place
  PROVE  MaxWeight(p) \in 0 .. 5
<1> DEFINE W == {0} \cup {input.weights[t] : t \in Here(p).types}
<1>1. W \in SUBSET (0 .. 5) /\ W # {}
  <2>1. \A t \in Here(p).types : input.weights[t] \in 0 .. 5
    BY InputAssumption DEF Here
  <2> QED
    BY <2>1
<1>2. PICK n \in {5 - x : x \in W} : \A m \in {5 - x : x \in W} : n <= m
  <2>1. {5 - x : x \in W} \in SUBSET Nat /\ {5 - x : x \in W} # {}
    <3>1. \A x \in 0 .. 5 : 5 - x \in Nat
      OBVIOUS
    <3> HIDE DEF W
    <3> QED
      BY <1>1, <3>1
  <2> HIDE DEF W
  <2> QED
    BY <2>1, LeastExists
<1> HIDE DEF W
<1>3. PICK x \in W : n = 5 - x
  BY <1>2
<1>4. \A y \in W : x >= y
  <2>1. \A y \in W : n <= 5 - y
    BY <1>2
  <2> QED
    BY <1>1, <1>3, <2>1
<1>5. Max(W) \in W
  BY <1>4 DEF Max
<1> QED
  BY <1>1, <1>5 DEF MaxWeight, W

LEMMA ScoreIsNumber ==
  ASSUME input \in Inputs, RankComplete, pool \subseteq Place, NEW p \in pool
  PROVE  ScoreCandidate(p) \in Int
<1>1. \E i \in DOMAIN rank : rank[i] = p
  BY DEF RankComplete, ToSet
<1>2. DOMAIN rank = 1 .. Len(rank) /\ Len(rank) \in Nat
  BY DEF RankComplete
<1>3. (CHOOSE i \in DOMAIN rank : rank[i] = p) \in 1 .. Len(rank)
  BY <1>1, <1>2
<1>4. RankIndex(p) \in Int
  BY <1>2, <1>3 DEF RankIndex
<1>5. MaxWeight(p) \in Int
  BY WeightIsNumber
<1> QED
  BY <1>2, <1>4, <1>5 DEF ScoreCandidate

LEMMA AmountsAreNumbers ==
  ASSUME input \in Inputs, NEW p \in Place
  PROVE  /\ PlaceCost(p) \in Nat
         /\ \A s : VerifyFoodSelection(p, s) => FoodMax(s) \in Nat
         /\ FoodMax(Foodless) = 0
<1>1. Here(p).price \in Nat /\ input.party \in Nat
  BY CatalogAssumption, InputAssumption DEF Here
<1>2. PlaceCost(p) \in Nat
  BY <1>1 DEF PlaceCost
<1>3. ASSUME NEW s, VerifyFoodSelection(p, s) PROVE FoodMax(s) \in Nat
  <2>1. /\ s.vendor \in DOMAIN Here(p).vendors
        /\ s.item \in DOMAIN Here(p).vendors[s.vendor].menu
        /\ s = Dish(p, s.vendor, s.item)
    BY <1>3 DEF VerifyFoodSelection
  <2> DEFINE dish == Here(p).vendors[s.vendor].menu[s.item]
  <2>2. dish.max \in Nat
    BY <2>1, CatalogAssumption, InputAssumption DEF Here
  <2>3. s.max = dish.max /\ s.quantity = Quantity(dish)
    BY <2>1 DEF Dish
  <2>4. Quantity(dish) \in Nat
    BY <1>1 DEF Quantity
  <2> HIDE DEF dish
  <2>5. \A a, b \in Nat : a * b \in Nat
    OBVIOUS
  <2> QED
    BY <2>2, <2>3, <2>4, <2>5 DEF FoodMax
<1>4. FoodMax(Foodless) = 0
  BY DEF FoodMax, Foodless
<1> QED
  BY <1>2, <1>3, <1>4

-----------------------------------------------------------------------------
\* The validator asks for the start of a visit from that start on, and is told it

\* An opening from one minute to another of a day, or to its midnight.
Lies(day, o, t, from, to) ==
  /\ o \in Int /\ 0 <= o /\ o < 1440
  /\ t \in Int /\ o <= t /\ t <= 1440
  /\ from = day * 1440 + o
  /\ to = day * 1440 + t

LEMMA TimesOfDay ==
  ASSUME NEW day \in Int, NEW o, NEW t, NEW from, NEW to, Lies(day, o, t, from, to)
  PROVE  /\ from \in Int /\ to \in Int
         /\ DayOf(from) = day
         /\ from <= to /\ to <= (day + 1) * MinutesPerDay
BY DEF Lies, DayOf, MinutesPerDay

\* An opening begins on its day, and ends on it.
LEMMA OpeningOfDay ==
  ASSUME NEW venue, IsVenue(venue), NEW day \in Int, NEW f \in OpeningIntervals(venue, day)
  PROVE  /\ f.from \in Int /\ f.to \in Int
         /\ DayOf(f.from) = day
         /\ f.from <= f.to /\ f.to <= (day + 1) * MinutesPerDay
<1>1. CASE \E w \in WindowsOn(venue, day) : f = Fragment(day, w)
  <2>1. PICK w \in WindowsOn(venue, day) : f = Fragment(day, w)
    BY <1>1
  <2>2. w.open \in 0 .. 1439 /\ w.close \in 0 .. 1439
    BY WindowsAreTimed
  <2>3. PICK o \in 0 .. 1439 : o = w.open
    BY <2>2
  <2>4. PICK c \in 0 .. 1439 : c = w.close
    BY <2>2
  <2>5. f.from = day * 1440 + o
    BY <2>1, <2>3 DEF Fragment, MinutesPerDay
  <2>6. f.to = day * 1440 + (IF c > o THEN c ELSE 1440)
    BY <2>1, <2>3, <2>4 DEF Fragment, MinutesPerDay
  <2>7. Lies(day, o, IF c > o THEN c ELSE 1440, f.from, f.to)
    BY <2>5, <2>6 DEF Lies
  <2> QED
    BY <2>7, TimesOfDay
<1>2. CASE \E w \in WindowsOn(venue, day - 1) : f = CarryOver(day, w)
  <2>1. PICK w \in WindowsOn(venue, day - 1) : f = CarryOver(day, w)
    BY <1>2
  <2>2. w.close \in 0 .. 1439
    BY WindowsAreTimed
  <2>3. PICK c \in 0 .. 1439 : c = w.close
    BY <2>2
  <2>4. f.from = day * 1440 + 0 /\ f.to = day * 1440 + c
    BY <2>1, <2>3 DEF CarryOver, MinutesPerDay
  <2>5. Lies(day, 0, c, f.from, f.to)
    BY <2>4 DEF Lies
  <2> QED
    BY <2>5, TimesOfDay
<1> QED
  BY <1>1, <1>2 DEF OpeningIntervals

\* From a later minute on, the openings are those that begin on its day or after it.
LEMMA LaterOpenings ==
  ASSUME NEW venue, IsVenue(venue), NEW earliest \in Int, NEW s \in Int, NEW latest \in Int,
         earliest <= s
  PROVE  /\ IntervalsBetween(venue, s, latest) \subseteq IntervalsBetween(venue, earliest, latest)
         /\ \A f \in IntervalsBetween(venue, earliest, latest) :
              /\ f.from \in Int /\ f.to \in Int /\ f.from <= f.to
              /\ s <= f.from \/ s < f.to => f \in IntervalsBetween(venue, s, latest)
<1>1. /\ DayOf(earliest) \in Int /\ DayOf(s) \in Int /\ DayOf(latest) \in Int
      /\ DayOf(earliest) <= DayOf(s)
      /\ DayOf(s) * MinutesPerDay <= s
  BY DEF DayOf, MinutesPerDay
<1>2. IntervalsBetween(venue, s, latest) \subseteq IntervalsBetween(venue, earliest, latest)
  <2>1. DayOf(s) .. DayOf(latest) \subseteq DayOf(earliest) .. DayOf(latest)
    BY <1>1
  <2> QED
    BY <2>1 DEF IntervalsBetween
<1>3. ASSUME NEW f \in IntervalsBetween(venue, earliest, latest)
      PROVE  /\ f.from \in Int /\ f.to \in Int /\ f.from <= f.to
             /\ s <= f.from \/ s < f.to => f \in IntervalsBetween(venue, s, latest)
  <2>1. PICK day \in DayOf(earliest) .. DayOf(latest) : f \in OpeningIntervals(venue, day)
    BY DEF IntervalsBetween
  <2>2. /\ f.from \in Int /\ f.to \in Int /\ DayOf(f.from) = day
        /\ f.from <= f.to /\ f.to <= (day + 1) * MinutesPerDay
    BY <1>1, <2>1, OpeningOfDay
  <2>3. s <= f.from \/ s < f.to => DayOf(s) <= day
    <3>1. CASE s <= f.from
      BY <2>2, <3>1 DEF DayOf, MinutesPerDay
    <3>2. CASE s < f.to
      BY <1>1, <2>2, <3>2 DEF DayOf, MinutesPerDay
    <3> QED
      BY <3>1, <3>2
  <2>4. DayOf(s) <= day => f \in IntervalsBetween(venue, s, latest)
    BY <1>1, <2>1 DEF IntervalsBetween
  <2> QED
    BY <2>2, <2>3, <2>4
<1> QED
  BY <1>2, <1>3

LEMMA EarliestOfAll ==
  ASSUME NEW S, NEW s \in S, s \in Int, \A t \in S : t \in Int /\ s <= t
  PROVE  Earliest(S) = {s}
<1>1. s \in Earliest(S)
  BY DEF Earliest
<1>2. ASSUME NEW t \in Earliest(S) PROVE t = s
  <2>1. t \in S /\ t <= s
    BY DEF Earliest
  <2> QED
    BY <2>1
<1> QED
  BY <1>1, <1>2

\* From its start on a visit can begin at once.
LEMMA VisitBeginsAgain ==
  ASSUME NEW venue, IsVenue(venue), NEW earliest \in Int, NEW latest \in Int, NEW duration \in Nat,
         NEW s \in EarliestVisitStart(venue, earliest, latest, duration)
  PROVE  EarliestVisitStart(venue, s, latest, duration) = {s}
<1> DEFINE All(e)    == IntervalsBetween(venue, e, latest)
           Starts(e) == {t \in {Later(e, i.from) : i \in {j \in Merged(All(e)) : Later(e, j.from) + duration <= j.to}} :
                           t + duration <= latest}
           Rest(f, e) == {c \in All(e) : c.from = f.to /\ c.key = f.key /\ FirstOfDay(c, All(e))}
           Joined(f, e) == [from |-> f.from,
                            to   |-> IF Rest(f, e) = {} THEN f.to ELSE (CHOOSE c \in Rest(f, e) : TRUE).to]
<1>1. \A e : EarliestVisitStart(venue, e, latest, duration) = Earliest(Starts(e))
  BY DEF EarliestVisitStart
<1>2. s \in Starts(earliest)
  BY <1>1, EarliestIsMember
<1>3. s \in Int /\ earliest <= s
  BY VisitStartsInTime
<1>4. \A e : Merged(All(e)) = {Joined(f, e) : f \in All(e)}
  BY DEF Merged
<1>5. /\ All(s) \subseteq All(earliest)
      /\ \A f \in All(earliest) : /\ f.from \in Int /\ f.to \in Int /\ f.from <= f.to
                                  /\ s <= f.from => f \in All(s)
  BY <1>3, LaterOpenings
<1> HIDE DEF All
<1>6. PICK f \in All(earliest) : /\ s = Later(earliest, f.from)
                                 /\ s + duration <= Joined(f, earliest).to
                                 /\ s + duration <= latest
  <2>1. PICK j \in Merged(All(earliest)) : s = Later(earliest, j.from) /\ Later(earliest, j.from) + duration <= j.to
    BY <1>2
  <2>2. PICK f \in All(earliest) : j = Joined(f, earliest)
    BY <1>4, <2>1
  <2>3. j.from = f.from
    BY <2>2
  <2>4. s + duration <= latest
    BY <1>2
  <2> HIDE DEF Joined
  <2> QED
    BY <2>1, <2>2, <2>3, <2>4
<1>7. s \in Starts(s)
  <2>1. CASE s = earliest
    BY <1>2, <2>1
  <2>2. CASE s # earliest
    <3>1. s = f.from
      BY <1>3, <1>5, <1>6, <2>2 DEF Later
    <3>2. f \in All(s)
      BY <1>3, <1>5, <3>1
    <3>3. \A c \in All(earliest) : c.from = f.to => c \in All(s)
      BY <1>5, <3>1
    <3>4. \A c \in All(earliest) : c.from = f.to => (FirstOfDay(c, All(earliest)) <=> FirstOfDay(c, All(s)))
      <4>1. ASSUME NEW c \in All(earliest), c.from = f.to
            PROVE  FirstOfDay(c, All(earliest)) <=> FirstOfDay(c, All(s))
        <5>1. \A other \in All(earliest) : other.from = c.from => other \in All(s)
          BY <3>3, <4>1
        <5> QED
          BY <1>5, <5>1 DEF FirstOfDay
      <4> QED
        BY <4>1
    <3>5. Rest(f, earliest) = Rest(f, s)
      BY <1>5, <3>3, <3>4, Zenon
    <3>6. Joined(f, earliest) = Joined(f, s)
      <4> HIDE DEF Rest
      <4> QED
        BY <3>5
    <3>7. Joined(f, s) \in Merged(All(s)) /\ Joined(f, s).from = s
      <4>1. Joined(f, s).from = s
        BY <3>1
      <4> HIDE DEF Joined
      <4> QED
        BY <1>4, <3>2, <4>1
    <3>8. Later(s, s) = s
      BY DEF Later
    <3> HIDE DEF Joined
    <3> QED
      BY <1>6, <3>6, <3>7, <3>8
  <2> QED
    BY <2>1, <2>2
<1>8. \A t \in Starts(s) : t \in Int /\ s <= t
  <2>1. \A j \in Merged(All(s)) : j.from \in Int
    <3>1. \A g \in All(s) : Joined(g, s).from = g.from /\ g.from \in Int
      BY <1>5
    <3> HIDE DEF Joined
    <3> QED
      BY <1>4, <3>1
  <2>2. \A t \in Starts(s) : \E j \in Merged(All(s)) : t = Later(s, j.from)
    OBVIOUS
  <2> HIDE DEF Starts
  <2> QED
    BY <1>3, <2>1, <2>2 DEF Later
<1> HIDE DEF Starts
<1> QED
  BY <1>1, <1>3, <1>7, <1>8, EarliestOfAll

\* Neither does it close in between.
LEMMA CoveredFromThere ==
  ASSUME NEW venue, IsVenue(venue), NEW earliest \in Int, NEW latest \in Int, NEW s \in Int, NEW e \in Int,
         earliest <= s, CoveredThrough(IntervalsBetween(venue, earliest, latest), s, e)
  PROVE  CoveredThrough(IntervalsBetween(venue, s, latest), s, e)
<1> DEFINE before == IntervalsBetween(venue, earliest, latest)
           after  == IntervalsBetween(venue, s, latest)
<1>1. /\ after \subseteq before
      /\ \A f \in before : f.to \in Int /\ (s < f.to => f \in after)
  BY LaterOpenings
<1>2. CoveredThrough(before, s, e)
  OBVIOUS
<1> HIDE DEF before, after
<1>3. ASSUME NEW q \in {s} \cup {i.to : i \in after}, s <= q, q < e
      PROVE  \E i \in after : i.from <= q /\ q < i.to
  <2>1. q \in Int /\ q \in {s} \cup {i.to : i \in before}
    BY <1>1
  <2>2. PICK i \in before : i.from <= q /\ q < i.to
    BY <1>2, <1>3, <2>1 DEF CoveredThrough
  <2>3. s < i.to
    BY <1>1, <1>3, <2>1, <2>2
  <2> QED
    BY <1>1, <2>2, <2>3
<1>4. CoveredThrough(after, s, e)
  BY <1>3 DEF CoveredThrough
<1> QED
  BY <1>4 DEF after

LEMMA MealBeginsAgain ==
  ASSUME NEW place, NEW vendor, IsVenue(place), IsVenue(vendor),
         NEW earliest \in Int, NEW latest \in Int, NEW duration \in Nat,
         NEW s \in EarliestFoodVisitStart(place, vendor, earliest, latest, duration)
  PROVE  EarliestFoodVisitStart(place, vendor, s, latest, duration) = {s}
<1> DEFINE P(e) == IntervalsBetween(place, e, latest)
           V(e) == IntervalsBetween(vendor, e, latest)
           Starts(e) == {t \in {e} \cup {i.from : i \in P(e) \cup V(e)} :
                           /\ t >= e
                           /\ t + duration <= latest
                           /\ CoveredThrough(P(e), t, t + duration)
                           /\ CoveredThrough(V(e), t, t + duration)}
<1>1. \A e : EarliestFoodVisitStart(place, vendor, e, latest, duration) = Earliest(Starts(e))
  BY DEF EarliestFoodVisitStart
<1>2. s \in Starts(earliest)
  BY <1>1, EarliestIsMember
<1>3. s \in Int /\ earliest <= s
  BY FoodStartsInTime
<1>4. /\ CoveredThrough(P(s), s, s + duration)
      /\ CoveredThrough(V(s), s, s + duration)
  BY <1>2, <1>3, CoveredFromThere
<1>5. s + duration <= latest
  BY <1>2
<1>6. \A i \in P(s) \cup V(s) : i.from \in Int
  BY <1>3, OpeningTimes
<1> HIDE DEF P, V
<1>7. s \in Starts(s)
  BY <1>3, <1>4, <1>5
<1>8. \A t \in Starts(s) : t \in Int /\ s <= t
  BY <1>3, <1>6
<1> HIDE DEF Starts
<1> QED
  BY <1>1, <1>3, <1>7, <1>8, EarliestOfAll

-----------------------------------------------------------------------------
\* What the validator will compute again

\* What is eaten at a stop, and that its visit can begin when it does.
FoodReckoned(p, start, food) ==
  \/ NeedsFood(p) /\ food = Foodless
  \/ NeedsFood(p) /\ VerifyFoodSelection(p, food) /\ FoodStart(p, food.vendor, start) = {start}
  \/ ~ NeedsFood(p) /\ food = Foodless /\ VisitStart(p, start) = {start}

StopReckoned(s) ==
  /\ s.place \in pool
  /\ s.start \in Int /\ s.start >= input.start
  /\ s.end = s.start + Here(s.place).duration /\ s.end <= Latest
  /\ s.placeCost = PlaceCost(s.place)
  /\ s.score = ScoreCandidate(s.place)
  /\ FoodReckoned(s.place, s.start, s.food)

TripReckoned(stops, i) ==
  LET s    == stops[i]
      edge == <<stops[i - 1].place, s.place>>
  IN IF i = 1 THEN s.minutes = 0 /\ s.buffer = 0 /\ s.travelCost = 0
     ELSE /\ edge \in DOMAIN Travel
          /\ s.minutes = Travel[edge].minutes /\ s.buffer = TransitionBuffer
          /\ s.travelCost = Travel[edge].cost

ScoreSum(stops) == SumFunction([i \in DOMAIN stops |-> stops[i].score])

SumsReckoned(path) ==
  /\ path.cost \in Int /\ path.cost = GroupCostMax(path.stops)
  /\ path.score \in Int /\ path.score = ScoreSum(path.stops)

Reckoned(path) ==
  /\ \A i \in DOMAIN path.stops : StopReckoned(path.stops[i]) /\ TripReckoned(path.stops, i)
  /\ SumsReckoned(path)

ReckonInv ==
  /\ RankComplete
  /\ stage \in {"beam", "search", "validate"} => pool \subseteq Eligible /\ Budget \in Nat
  /\ \A path \in Paths : Reckoned(path)

\* The validator computes a visit again from its start on and finds the same.
LEMMA VisitIsReckoned ==
  ASSUME input \in Inputs, NEW a, a.place \in Place, a.earliest \in Int, NEW visit \in VisitsAfter(a)
  PROVE  FoodReckoned(a.place, visit.start, visit.selection)
<1> DEFINE p == a.place
<1>1. /\ IsVenue(Here(p)) /\ Here(p).duration \in Nat
      /\ \A v \in DOMAIN Here(p).vendors : IsVenue(Here(p).vendors[v])
      /\ Latest \in Int
  BY CatalogAssumption, InputAssumption DEF Here, Latest
<1>2. ASSUME NEW s \in VisitStart(p, a.earliest)
      PROVE  VisitStart(p, s) = {s}
  BY <1>1, <1>2, VisitBeginsAgain DEF VisitStart
<1>3. ASSUME NEW v \in DOMAIN Here(p).vendors, NEW s \in FoodStart(p, v, a.earliest)
      PROVE  FoodStart(p, v, s) = {s}
  BY <1>1, <1>3, MealBeginsAgain DEF FoodStart
<1>4. CASE ~ NeedsFood(p)
  BY <1>2, <1>4 DEF VisitsAfter, FoodReckoned
<1>5. CASE NeedsFood(p)
  <2>1. visit \in ChooseScheduledFood(p, a.earliest, a.base)
    BY <1>5 DEF VisitsAfter
  <2>2. CASE p \in DOMAIN pinned
    <3>1. CASE pinned[p] = Foodless
      BY <1>5, <2>1, <2>2, <3>1 DEF ChooseScheduledFood, FoodReckoned
    <3>2. CASE pinned[p] # Foodless
      <4>1. /\ VerifyFoodSelection(p, pinned[p])
            /\ visit \in {[selection |-> pinned[p], start |-> s] : s \in FoodStart(p, pinned[p].vendor, a.earliest)}
        BY <2>1, <2>2, <3>2 DEF ChooseScheduledFood
      <4>2. pinned[p].vendor \in DOMAIN Here(p).vendors
        BY <4>1 DEF VerifyFoodSelection
      <4> QED
        BY <1>3, <1>5, <4>1, <4>2 DEF FoodReckoned
    <3> QED
      BY <3>1, <3>2
  <2>3. CASE p \notin DOMAIN pinned
    <3>1. PICK v \in Earliest(OpenVendors(p, a.earliest, a.base)) :
            \E i \in Earliest(Affordable(p, v, Budget - a.base)), s \in FoodStart(p, v, a.earliest) :
              visit = [selection |-> Dish(p, v, i), start |-> s]
      BY <2>1, <2>3 DEF ChooseScheduledFood
    <3>2. v \in DOMAIN Here(p).vendors
      BY <3>1, EarliestIsMember DEF OpenVendors
    <3>3. PICK i \in Earliest(Affordable(p, v, Budget - a.base)) :
            \E s \in FoodStart(p, v, a.earliest) : visit = [selection |-> Dish(p, v, i), start |-> s]
      BY <3>1
    <3>4. PICK s \in FoodStart(p, v, a.earliest) : visit = [selection |-> Dish(p, v, i), start |-> s]
      BY <3>3
    <3>5. i \in Affordable(p, v, Budget - a.base)
      BY <3>3, EarliestIsMember
    <3>6. i \in DOMAIN Here(p).vendors[v].menu /\ Here(p).vendors[v].fits /\ Here(p).vendors[v].menu[i].fits
      BY <3>5 DEF Affordable
    <3>7. PICK food : food = Dish(p, v, i)
      OBVIOUS
    <3>8. food.vendor = v /\ food.item = i
      BY <3>7 DEF Dish
    <3>9. VerifyFoodSelection(p, food)
      BY <3>2, <3>6, <3>7, <3>8 DEF VerifyFoodSelection
    <3>10. FoodStart(p, v, s) = {s}
      BY <1>3, <3>2, <3>4
    <3>11. visit.selection = food /\ visit.start = s
      BY <3>4, <3>7
    <3> QED
      BY <1>5, <3>8, <3>9, <3>10, <3>11 DEF FoodReckoned
  <2> QED
    BY <2>2, <2>3
<1> QED
  BY <1>4, <1>5

LEMMA MealIsNumber ==
  ASSUME input \in Inputs, NEW p \in Place, NEW start, NEW food, FoodReckoned(p, start, food)
  PROVE  FoodMax(food) \in Int
<1>1. FoodMax(food) \in Nat
  BY AmountsAreNumbers DEF FoodReckoned
<1> QED
  BY <1>1

\* What the search knows of a trip, the validator finds in the travel snapshot.
LEMMA ArrivalIsReckoned ==
  ASSUME input \in Inputs, NEW path, WellFormed(path), NEW a \in Arrivals(path)
  PROVE  /\ a.place \in pool
         /\ a.base = path.cost + PlaceCost(a.place) + a.leg.cost
         /\ a.leg.cost \in Nat
         /\ path.ids = <<>> => a.leg.minutes = 0 /\ a.leg.buffer = 0 /\ a.leg.cost = 0
         /\ path.ids # <<>> =>
              LET edge == <<path.ids[Len(path.ids)], a.place>> IN
              /\ edge \in DOMAIN Travel
              /\ a.leg.minutes = Travel[edge].minutes /\ a.leg.buffer = TransitionBuffer
              /\ a.leg.cost = Travel[edge].cost
<1>1. PICK p \in pool : /\ HasEdge(path, p)
                        /\ a = [place |-> p, leg |-> Leg(path, p),
                               earliest |-> path.finish + Leg(path, p).minutes + Leg(path, p).buffer,
                               base |-> path.cost + PlaceCost(p) + Leg(path, p).cost]
  BY DEF Arrivals
<1>2. a.place = p /\ a.leg = Leg(path, p) /\ a.base = path.cost + PlaceCost(p) + a.leg.cost
  BY <1>1
<1>3. CASE path.ids = <<>>
  <2>1. a.leg.minutes = 0 /\ a.leg.buffer = 0 /\ a.leg.cost = 0
    BY <1>2, <1>3 DEF Leg
  <2> QED
    BY <1>2, <1>3, <2>1
<1>4. CASE path.ids # <<>>
  <2>1. PICK edge : edge = <<path.ids[Len(path.ids)], p>>
    OBVIOUS
  <2>2. edge \in DOMAIN Travel
    BY <1>1, <1>4, <2>1 DEF HasEdge, Last
  <2>3. a.leg.minutes = Travel[edge].minutes /\ a.leg.buffer = TransitionBuffer /\ a.leg.cost = Travel[edge].cost
    BY <1>2, <1>4, <2>1 DEF Leg, Last
  <2>4. a.leg.cost \in Nat
    BY <2>2, <2>3, TravelAssumption
  <2> QED
    BY <1>2, <1>4, <2>1, <2>2, <2>3, <2>4
<1> QED
  BY <1>3, <1>4

\* The sums of one more stop.
Amounts(s) ==
  /\ s.placeCost \in Int /\ s.travelCost \in Int
  /\ FoodMax(s.food) \in Int /\ s.score \in Int

\* A column of amounts, and the same with one more.
Longer(n, f, h) ==
  /\ DOMAIN f = 1 .. n /\ \A i \in 1 .. n : f[i] \in Int
  /\ DOMAIN h = 1 .. n + 1 /\ \A i \in 1 .. n : h[i] = f[i]
  /\ h[n + 1] \in Int

LEMMA ColumnGoesOn ==
  ASSUME NEW n \in Nat, NEW f, NEW h, Longer(n, f, h)
  PROVE  SumFunction(f) \in Int /\ SumFunction(h) = SumFunction(f) + h[n + 1]
<1>1. /\ DOMAIN f = 1 .. n /\ \A i \in 1 .. n : f[i] \in Int
      /\ DOMAIN h = 1 .. n + 1 /\ \A i \in 1 .. n : h[i] = f[i]
      /\ h[n + 1] \in Int
  BY DEF Longer
<1> QED
  BY <1>1, SumOfOneMore

LEMMA SumsGoOn ==
  ASSUME NEW n \in Nat, NEW stops, DOMAIN stops = 1 .. n, NEW more, DOMAIN more = 1 .. n + 1,
         \A i \in 1 .. n : more[i] = stops[i], \A i \in 1 .. n : Amounts(stops[i]), Amounts(more[n + 1])
  PROVE  /\ GroupCostMax(stops) \in Int
         /\ GroupCostMax(more) = GroupCostMax(stops) + more[n + 1].placeCost
                                   + more[n + 1].travelCost + FoodMax(more[n + 1].food)
         /\ ScoreSum(more) = ScoreSum(stops) + more[n + 1].score
<1>1. n + 1 \in 1 .. n + 1 /\ \A i \in 1 .. n : i \in 1 .. n + 1
  OBVIOUS
<1> DEFINE A(s) == [i \in DOMAIN s |-> s[i].placeCost]
           T(s) == [i \in DOMAIN s |-> s[i].travelCost]
           F(s) == [i \in DOMAIN s |-> FoodMax(s[i].food)]
           S(s) == [i \in DOMAIN s |-> s[i].score]
<1>2. /\ Longer(n, A(stops), A(more)) /\ A(more)[n + 1] = more[n + 1].placeCost
      /\ more[n + 1].placeCost \in Int
  BY <1>1 DEF Longer, Amounts
<1>3. /\ Longer(n, T(stops), T(more)) /\ T(more)[n + 1] = more[n + 1].travelCost
      /\ more[n + 1].travelCost \in Int
  BY <1>1 DEF Longer, Amounts
<1>4. /\ Longer(n, F(stops), F(more)) /\ F(more)[n + 1] = FoodMax(more[n + 1].food)
      /\ FoodMax(more[n + 1].food) \in Int
  BY <1>1 DEF Longer, Amounts
<1>5. /\ Longer(n, S(stops), S(more)) /\ S(more)[n + 1] = more[n + 1].score
      /\ more[n + 1].score \in Int
  BY <1>1 DEF Longer, Amounts
<1>6. \A s : GroupCostMax(s) = SumFunction(A(s)) + SumFunction(T(s)) + SumFunction(F(s)) /\ ScoreSum(s) = SumFunction(S(s))
  BY DEF GroupCostMax, Totals, ScoreSum
<1> HIDE DEF A, T, F, S
<1>7. SumFunction(A(stops)) \in Int /\ SumFunction(A(more)) = SumFunction(A(stops)) + more[n + 1].placeCost
  BY <1>2, ColumnGoesOn
<1>8. SumFunction(T(stops)) \in Int /\ SumFunction(T(more)) = SumFunction(T(stops)) + more[n + 1].travelCost
  BY <1>3, ColumnGoesOn
<1>9. SumFunction(F(stops)) \in Int /\ SumFunction(F(more)) = SumFunction(F(stops)) + FoodMax(more[n + 1].food)
  BY <1>4, ColumnGoesOn
<1>10. SumFunction(S(stops)) \in Int /\ SumFunction(S(more)) = SumFunction(S(stops)) + more[n + 1].score
  BY <1>5, ColumnGoesOn
<1>11. PICK a \in Int, b \in Int, c \in Int :
         a = SumFunction(A(stops)) /\ b = SumFunction(T(stops)) /\ c = SumFunction(F(stops))
  BY <1>7, <1>8, <1>9
<1>12. PICK x \in Int, y \in Int, z \in Int :
         x = more[n + 1].placeCost /\ y = more[n + 1].travelCost /\ z = FoodMax(more[n + 1].food)
  BY <1>2, <1>3, <1>4
<1>13. GroupCostMax(stops) = a + b + c /\ GroupCostMax(more) = (a + x) + (b + y) + (c + z)
  BY <1>6, <1>7, <1>8, <1>9, <1>11, <1>12
<1>14. a + b + c \in Int /\ (a + x) + (b + y) + (c + z) = a + b + c + x + y + z
  OBVIOUS
<1> QED
  BY <1>6, <1>10, <1>12, <1>13, <1>14

LEMMA StopHasAmounts ==
  ASSUME input \in Inputs, pool \subseteq Place, RankComplete, NEW s, StopReckoned(s), s.travelCost \in Int
  PROVE  Amounts(s)
<1>1. /\ s.place \in pool /\ s.place \in Place /\ s.placeCost = PlaceCost(s.place)
      /\ s.score = ScoreCandidate(s.place) /\ FoodReckoned(s.place, s.start, s.food)
  BY DEF StopReckoned
<1>2. s.placeCost \in Int
  BY <1>1, AmountsAreNumbers
<1>3. s.score \in Int
  BY <1>1, ScoreIsNumber
<1>4. FoodMax(s.food) \in Int
  BY <1>1, MealIsNumber
<1> QED
  BY <1>2, <1>3, <1>4 DEF Amounts

LEMMA TripHasCost ==
  ASSUME NEW stops, NEW i, TripReckoned(stops, i)
  PROVE  stops[i].travelCost \in Int
<1>1. CASE i = 1
  BY <1>1 DEF TripReckoned
<1>2. CASE i # 1
  <2>1. PICK edge : edge = <<stops[i - 1].place, stops[i].place>>
    OBVIOUS
  <2>2. edge \in DOMAIN Travel /\ stops[i].travelCost = Travel[edge].cost
    BY <1>2, <2>1 DEF TripReckoned
  <2> QED
    BY <2>2, TravelAssumption
<1> QED
  BY <1>1, <1>2

\* A stop more is reckoned like those before it.
LEMMA ExtensionIsReckoned ==
  ASSUME input \in Inputs, pool \subseteq Place, RankComplete,
         NEW path, PathOk(path), Reckoned(path), NEW next \in Extensions(path)
  PROVE  Reckoned(next)
<1>1. PICK a \in Arrivals(path) : \E visit \in VisitsAfter(a) :
        next = AppendStop(path, a, visit) /\ next.finish <= Latest
  BY DEF Extensions
<1>2. PICK visit \in VisitsAfter(a) : next = AppendStop(path, a, visit)
  BY <1>1
<1>3. WellFormed(path) /\ next.finish <= Latest
  BY <1>1 DEF PathOk
<1>4. /\ a.place \in Place /\ a.earliest \in Int /\ a.leg.minutes \in Nat
      /\ a.earliest = IF path.ids = <<>> THEN input.start ELSE path.finish + a.leg.minutes + TransitionBuffer
  BY <1>3, ArrivalIsLater
<1>5. visit.start \in Int /\ visit.start >= a.earliest
  BY <1>2, <1>4, VisitIsLater
<1>6. FoodReckoned(a.place, visit.start, visit.selection)
  BY <1>2, <1>4, VisitIsReckoned
<1>7. Here(a.place).duration \in Nat /\ input.start \in Nat
  BY <1>4, CatalogAssumption, InputAssumption DEF Here
<1>8. PICK edge : edge = <<path.ids[Len(path.ids)], a.place>>
  OBVIOUS
<1>9. /\ a.place \in pool
      /\ a.base = path.cost + PlaceCost(a.place) + a.leg.cost
      /\ path.ids = <<>> => a.leg.minutes = 0 /\ a.leg.buffer = 0 /\ a.leg.cost = 0
      /\ path.ids # <<>> =>
           /\ edge \in DOMAIN Travel
           /\ a.leg.minutes = Travel[edge].minutes /\ a.leg.buffer = TransitionBuffer
           /\ a.leg.cost = Travel[edge].cost
  BY <1>3, <1>8, ArrivalIsReckoned
<1>10. PICK n : n = Len(path.ids)
  OBVIOUS
<1>11. PICK stop : stop =
         [place |-> a.place, start |-> visit.start, end |-> visit.start + Here(a.place).duration,
          minutes |-> a.leg.minutes, buffer |-> a.leg.buffer, travelCost |-> a.leg.cost,
          placeCost |-> PlaceCost(a.place), food |-> visit.selection, score |-> ScoreCandidate(a.place)]
  OBVIOUS
<1>12. /\ stop.place = a.place /\ stop.start = visit.start /\ stop.end = visit.start + Here(a.place).duration
       /\ stop.minutes = a.leg.minutes /\ stop.buffer = a.leg.buffer /\ stop.travelCost = a.leg.cost
       /\ stop.placeCost = PlaceCost(a.place) /\ stop.food = visit.selection
       /\ stop.score = ScoreCandidate(a.place)
  BY <1>11
<1>13. /\ next.stops = Append(path.stops, stop)
       /\ next.finish = visit.start + Here(a.place).duration
       /\ next.cost = a.base + FoodMax(visit.selection)
       /\ next.score = path.score + ScoreCandidate(a.place)
  BY <1>2, <1>11 DEF AppendStop
<1>14. /\ n \in Nat /\ DOMAIN path.stops = 1 .. n /\ DOMAIN next.stops = 1 .. n + 1
       /\ \A i \in 1 .. n : next.stops[i] = path.stops[i]
       /\ next.stops[n + 1] = stop
  <2>1. PICK S : path.stops \in Seq(S)
    BY <1>3 DEF WellFormed
  <2>2. Len(path.stops) = n
    BY <1>3, <1>10 DEF WellFormed
  <2> QED
    BY <2>1, <2>2, <1>13, AppendKeeps
<1>15. path.ids = <<>> <=> n = 0
  BY <1>3, <1>10 DEF WellFormed
<1>16. path.ids # <<>> => n \in 1 .. n /\ path.finish = path.stops[n].end /\ path.stops[n].place = path.ids[n]
  BY <1>3, <1>10, <1>14, <1>15 DEF WellFormed
<1>17. \A i \in 1 .. n : StopReckoned(path.stops[i]) /\ TripReckoned(path.stops, i)
  BY <1>14 DEF Reckoned
<1>18. stop.start >= input.start
  <2>1. CASE path.ids = <<>>
    BY <1>4, <1>5, <1>7, <1>12, <2>1
  <2>2. CASE path.ids # <<>>
    <3>1. StopReckoned(path.stops[n]) /\ path.finish = path.stops[n].end
      BY <1>16, <1>17, <2>2
    <3>2. path.stops[n].place \in Place
      BY <3>1 DEF StopReckoned
    <3>3. Here(path.stops[n].place).duration \in Nat
      BY <3>2, CatalogAssumption, InputAssumption DEF Here
    <3>4. path.finish \in Int /\ path.finish >= input.start
      BY <1>7, <3>1, <3>3 DEF StopReckoned
    <3>5. a.earliest = path.finish + a.leg.minutes + 10
      BY <1>4, <2>2 DEF TransitionBuffer
    <3> QED
      BY <1>4, <1>5, <1>7, <1>12, <3>4, <3>5
  <2> QED
    BY <2>1, <2>2
<1>19. StopReckoned(stop)
  BY <1>3, <1>5, <1>6, <1>9, <1>12, <1>13, <1>18 DEF StopReckoned
<1>20. TripReckoned(next.stops, n + 1)
  <2>1. CASE path.ids = <<>>
    BY <1>9, <1>12, <1>14, <1>15, <2>1 DEF TripReckoned
  <2>2. CASE path.ids # <<>>
    <3>1. n + 1 # 1 /\ n + 1 - 1 = n
      BY <1>14, <1>15, <2>2
    <3>2. edge = <<next.stops[n].place, stop.place>>
      BY <1>8, <1>10, <1>12, <1>14, <1>16, <2>2
    <3> QED
      BY <1>9, <1>12, <1>14, <2>2, <3>1, <3>2 DEF TripReckoned
  <2> QED
    BY <2>1, <2>2
<1>21. \A i \in 1 .. n : TripReckoned(next.stops, i)
  <2>1. ASSUME NEW i \in 1 .. n PROVE TripReckoned(next.stops, i)
    <3>1. TripReckoned(path.stops, i) /\ next.stops[i] = path.stops[i]
      BY <1>14, <1>17
    <3>2. CASE i = 1
      BY <3>1, <3>2 DEF TripReckoned
    <3>3. CASE i # 1
      <4>1. i - 1 \in 1 .. n
        BY <1>14, <3>3
      <4>2. next.stops[i - 1] = path.stops[i - 1]
        BY <1>14, <4>1
      <4> QED
        BY <3>1, <3>3, <4>2 DEF TripReckoned
    <3> QED
      BY <3>2, <3>3
  <2> QED
    BY <2>1
<1>22. \A i \in 1 .. n : Amounts(path.stops[i])
  BY <1>17, TripHasCost, StopHasAmounts
<1>23. Amounts(stop)
  BY <1>14, <1>19, <1>20, TripHasCost, StopHasAmounts
<1>24. SumsReckoned(next)
  <2>1. /\ GroupCostMax(path.stops) \in Int
        /\ GroupCostMax(next.stops) = GroupCostMax(path.stops) + stop.placeCost + stop.travelCost + FoodMax(stop.food)
        /\ ScoreSum(next.stops) = ScoreSum(path.stops) + stop.score
    <3>1. PICK stops, more : stops = path.stops /\ more = next.stops
      OBVIOUS
    <3>2. /\ DOMAIN stops = 1 .. n /\ DOMAIN more = 1 .. n + 1
          /\ \A i \in 1 .. n : more[i] = stops[i]
          /\ \A i \in 1 .. n : Amounts(stops[i])
          /\ more[n + 1] = stop /\ Amounts(more[n + 1])
      BY <1>14, <1>22, <1>23, <3>1
    <3>3. n \in Nat
      BY <1>14
    <3>4. /\ GroupCostMax(stops) \in Int
          /\ GroupCostMax(more) = GroupCostMax(stops) + more[n + 1].placeCost
                                   + more[n + 1].travelCost + FoodMax(more[n + 1].food)
          /\ ScoreSum(more) = ScoreSum(stops) + more[n + 1].score
      BY <3>2, <3>3, SumsGoOn
    <3> QED
      BY <3>1, <3>2, <3>4
  <2>2. /\ path.cost \in Int /\ path.cost = GroupCostMax(path.stops)
        /\ path.score \in Int /\ path.score = ScoreSum(path.stops)
    BY DEF Reckoned, SumsReckoned
  <2>3. stop.placeCost \in Int /\ stop.travelCost \in Int /\ FoodMax(stop.food) \in Int /\ stop.score \in Int
    BY <1>23 DEF Amounts
  <2>4. next.cost = path.cost + stop.placeCost + stop.travelCost + FoodMax(stop.food)
    BY <1>9, <1>12, <1>13
  <2>5. next.cost \in Int
    BY <2>2, <2>3, <2>4
  <2>6. next.score = ScoreSum(path.stops) + stop.score /\ next.score \in Int
    BY <1>12, <1>13, <2>2, <2>3
  <2> QED
    BY <2>1, <2>2, <2>4, <2>5, <2>6 DEF SumsReckoned
<1>25. \A i \in 1 .. n + 1 : i \in 1 .. n \/ i = n + 1
  BY <1>14
<1> QED
  BY <1>14, <1>17, <1>19, <1>20, <1>21, <1>24, <1>25 DEF Reckoned

LEMMA RootIsReckoned == Reckoned(Root)
<1>1. Root.stops = <<>> /\ Root.cost = 0 /\ Root.score = 0 /\ DOMAIN <<>> = {}
  BY DEF Root
<1>2. GroupCostMax(<<>>) = 0 /\ ScoreSum(<<>>) = 0
  <2>1. /\ [i \in DOMAIN <<>> |-> <<>>[i].placeCost] = <<>>
        /\ [i \in DOMAIN <<>> |-> <<>>[i].travelCost] = <<>>
        /\ [i \in DOMAIN <<>> |-> FoodMax(<<>>[i].food)] = <<>>
        /\ [i \in DOMAIN <<>> |-> <<>>[i].score] = <<>>
    OBVIOUS
  <2>2. /\ Totals(<<>>).admission = SumFunction(<<>>)
        /\ Totals(<<>>).travel = SumFunction(<<>>)
        /\ Totals(<<>>).foodMax = SumFunction(<<>>)
    BY <2>1 DEF Totals
  <2>3. ScoreSum(<<>>) = SumFunction(<<>>)
    BY <2>1 DEF ScoreSum
  <2> QED
    BY <2>2, <2>3, SumOfNone DEF GroupCostMax
<1>3. SumsReckoned(Root)
  BY <1>1, <1>2 DEF SumsReckoned
<1> QED
  BY <1>1, <1>3 DEF Reckoned

\* Neither places nor their hours change.
LEMMA CatalogueStays ==
  ASSUME input' = input
  PROVE  /\ \A p : Here(p)' = Here(p) /\ PlaceCost(p)' = PlaceCost(p) /\ MaxWeight(p)' = MaxWeight(p)
         /\ \A p, s : VerifyFoodSelection(p, s)' = VerifyFoodSelection(p, s)
         /\ \A p, v, s : FoodStart(p, v, s)' = FoodStart(p, v, s)
         /\ \A p, s : VisitStart(p, s)' = VisitStart(p, s)
         /\ Eligible' = Eligible
<1>1. \A p : Here(p)' = Here(p)
  BY DEF Here
<1>2. \A p : PlaceCost(p)' = PlaceCost(p)
  BY DEF PlaceCost, Here
<1>3. \A p : MaxWeight(p)' = MaxWeight(p)
  BY DEF MaxWeight, Here
<1>4. \A p, s : VerifyFoodSelection(p, s)' = VerifyFoodSelection(p, s)
  BY DEF VerifyFoodSelection, Here, Dish, Quantity
<1>5. \A p, v, s : FoodStart(p, v, s)' = FoodStart(p, v, s)
  BY InputDecides DEF FoodStart, Here
<1>6. \A p, s : VisitStart(p, s)' = VisitStart(p, s)
  BY InputDecides DEF VisitStart, Here
<1>7. \A p, v, b : Affordable(p, v, b)' = Affordable(p, v, b)
  BY DEF Affordable, Here, FoodMax, Dish, Quantity
<1>8. \A p : FoodObtainable(p)' = FoodObtainable(p)
  <2>1. ASSUME NEW p PROVE FoodObtainable(p)' = FoodObtainable(p)
    <3>1. \A v : Affordable(p, v, Budget - PlaceCost(p))' = Affordable(p, v, Budget - PlaceCost(p))
      BY <1>2, <1>7, InputDecides
    <3> QED
      BY <1>1, <1>5, <3>1, InputDecides DEF FoodObtainable
  <2> QED
    BY <2>1
<1>9. Eligible' = Eligible
  BY <1>1, <1>2, <1>3, <1>8, InputDecides DEF Eligible
<1> QED
  BY <1>1, <1>2, <1>3, <1>4, <1>5, <1>6, <1>9

LEMMA ReckoningStays ==
  ASSUME input' = input, pool' = pool, rank' = rank, NEW path, Reckoned(path)
  PROVE  Reckoned(path)'
<1>1. \A p : ScoreCandidate(p)' = ScoreCandidate(p)
  BY CatalogueStays DEF ScoreCandidate, RankIndex
<1>2. \A p, s, f : FoodReckoned(p, s, f)' = FoodReckoned(p, s, f)
  BY CatalogueStays, InputDecides DEF FoodReckoned
<1>3. \A s : StopReckoned(s)' = StopReckoned(s)
  BY <1>1, <1>2, CatalogueStays, InputDecides DEF StopReckoned
<1>4. \A stops, i : TripReckoned(stops, i)' = TripReckoned(stops, i)
  BY DEF TripReckoned
<1>5. SumsReckoned(path)'
  BY DEF Reckoned, SumsReckoned
<1> QED
  BY <1>3, <1>4, <1>5 DEF Reckoned

-----------------------------------------------------------------------------
\* The search reckons right

LEMMA ReckonInvInit == Init => ReckonInv
<1> SUFFICES ASSUME Init PROVE ReckonInv
  OBVIOUS
<1>1. rank = <<>> /\ pool = {} /\ stage = "input" /\ Paths = {}
  BY DEF Init, Paths
<1>2. RankComplete
  BY <1>1 DEF RankComplete, ToSet, IsInjective
<1> QED
  BY <1>1, <1>2 DEF ReckonInv

\* Scheduling starts with the root alone, some of the candidates and all their ranks.
LEMMA ScheduleIsReckoned ==
  ASSUME input' = input, pool' \subseteq Eligible, RankComplete', Budget \in Nat,
         beam' = {Root}, frontier' = {}, best' = {}
  PROVE  ReckonInv'
<1>1. Paths' = {Root}
  BY InputDecides DEF Paths
<1>2. Reckoned(Root)'
  BY InputDecides, RootIsReckoned, PTL
<1> QED
  BY <1>1, <1>2, CatalogueStays, InputDecides DEF ReckonInv

\* Otherwise candidates and ranks stay, and the new paths have to be reckoned.
LEMMA ReckoningGoesOn ==
  ASSUME ReckonInv, input' = input, pool' = pool, rank' = rank,
         stage' \in {"beam", "search", "validate"} => stage \in {"beam", "search", "validate"},
         \A path \in Paths' : Reckoned(path)
  PROVE  ReckonInv'
<1>1. \A path \in Paths' : Reckoned(path)'
  BY ReckoningStays
<1>2. RankComplete => RankComplete'
  BY DEF RankComplete
<1> QED
  BY <1>1, <1>2, CatalogueStays, InputDecides DEF ReckonInv

LEMMA ReckonInvNext == SearchInv /\ ReckonInv /\ [Next]_vars => ReckonInv'
<1> SUFFICES ASSUME SearchInv, ReckonInv, [Next]_vars PROVE ReckonInv'
  OBVIOUS
<1>1. /\ input \in Inputs /\ pool \subseteq Place
      /\ \A path \in Paths : PathOk(path) /\ Reckoned(path)
  BY DEF SearchInv, ReckonInv
<1>2. ASSUME stage \in {"beam", "search"}, NEW path \in Paths, NEW next \in Extensions(path)
      PROVE  Reckoned(next)
  BY <1>1, <1>2, ExtensionIsReckoned DEF ReckonInv
<1>3. CASE RefuseInput \/ SettleSearch \/ Accept \/ RefuseRepair \/ RefuseResult \/ UNCHANGED vars
  <2>1. /\ input' = input /\ pool' = pool /\ rank' = rank /\ Paths' = Paths
        /\ stage' \in {"beam", "search", "validate"} => stage \in {"beam", "search", "validate"}
    BY <1>3 DEF RefuseInput, SettleSearch, Accept, RefuseRepair, RefuseResult, Answer, Paths, vars
  <2> QED
    BY <1>1, <2>1, ReckoningGoesOn
<1>4. CASE FilterCandidates
  <2>1. /\ input' = input /\ pool' = Eligible /\ rank' = BuildRankOrder(Eligible, input.ranked)
        /\ beam' = {Root} /\ frontier' = {} /\ best' = {} /\ Refusal = "none"
    BY <1>4 DEF FilterCandidates, Schedule
  <2>2. ValidRanking(Eligible, input.ranked)
    BY <2>1 DEF Refusal
  <2>3. Eligible \in SUBSET Nat /\ IsFiniteSet(Eligible)
    BY PlaceAssumption, FS_Subset DEF Eligible
  <2>4. input.ranked \in Seq(Nat)
    BY <1>1, InputAssumption
  <2>5. /\ BuildRankOrder(Eligible, input.ranked) \in Seq(Nat)
        /\ ToSet(BuildRankOrder(Eligible, input.ranked)) = Eligible
        /\ IsInjective(BuildRankOrder(Eligible, input.ranked))
    BY <2>2, <2>3, <2>4, RankOrderIsComplete
  <2>6. RankComplete'
    BY <2>1, <2>5 DEF RankComplete
  <2>7. Budget \in Nat
    BY <1>1, <2>1, BudgetIsNatural DEF Refusal
  <2> QED
    BY <2>1, <2>6, <2>7, ScheduleIsReckoned
<1>5. CASE ExpandBeam
  <2>1. /\ input' = input /\ pool' = pool /\ rank' = rank /\ frontier' = frontier
        /\ stage = "beam" /\ stage' = stage
        /\ best' = BetterOf(Expanded) /\ beam' = Trim(Expanded)
    BY <1>5 DEF ExpandBeam
  <2>2. \A path \in Expanded : Reckoned(path)
    BY <1>2, <2>1 DEF Expanded, Paths
  <2>3. \A path \in Paths' : Reckoned(path)
    BY <1>1, <2>1, <2>2, BetterIsOneOf DEF Paths, Trim
  <2> QED
    BY <2>1, <2>3, ReckoningGoesOn
<1>6. CASE SettleBeam
  <2>1. /\ input' = input /\ pool' = pool /\ rank' = rank /\ frontier' = frontier /\ beam' = beam
        /\ stage = "beam"
        /\ best' = best \/ best' = BetterOf(Extensions(Root))
    BY <1>6 DEF SettleBeam, Answer
  <2>2. 0 <= Budget
    BY <2>1 DEF SearchInv
  <2>3. \A path \in Extensions(Root) : Reckoned(path)
    BY <1>1, <2>1, <2>2, RootIsOk, RootIsReckoned, ExtensionIsReckoned DEF ReckonInv
  <2>4. \A path \in Paths' : Reckoned(path)
    BY <1>1, <2>1, <2>3, BetterIsOneOf DEF Paths
  <2> QED
    BY <2>1, <2>4, ReckoningGoesOn
<1>7. CASE StartSearch
  <2>1. /\ input' = input /\ pool' = pool /\ rank' = rank /\ frontier' = {Root} /\ beam' = beam
        /\ stage = "beam" /\ best' = best
    BY <1>7 DEF StartSearch
  <2>2. \A path \in Paths' : Reckoned(path)
    BY <1>1, <2>1, RootIsReckoned DEF Paths
  <2> QED
    BY <2>1, <2>2, ReckoningGoesOn
<1>8. CASE Visit
  <2>1. /\ input' = input /\ pool' = pool /\ rank' = rank /\ beam' = beam
        /\ stage = "search"
    BY <1>8 DEF Visit, Answer
  <2>2. PICK path \in frontier :
          \/ frontier' = frontier /\ best' = best
          \/ frontier' = (frontier \ {path}) \cup Extensions(path) /\ best' = BetterOf({path})
    BY <1>8 DEF Visit
  <2>3. Reckoned(path) /\ \A next \in Extensions(path) : Reckoned(next)
    BY <1>1, <1>2, <2>1 DEF Paths
  <2>4. \A p \in Paths' : Reckoned(p)
    BY <1>1, <2>1, <2>2, <2>3, BetterIsOneOf DEF Paths
  <2> QED
    BY <2>1, <2>4, ReckoningGoesOn
<1>9. CASE Repair
  <2>1. PICK left \in SUBSET pool :
          /\ input' = input /\ pool' = left /\ rank' = RemainingRankOrder(left)
          /\ beam' = {Root} /\ frontier' = {} /\ best' = {} /\ stage = "validate"
    BY <1>9 DEF Repair, Schedule
  <2>2. RankComplete /\ pool \subseteq Eligible /\ Budget \in Nat
    BY <2>1 DEF ReckonInv
  <2>3. /\ RemainingRankOrder(left) \in Seq(Nat)
        /\ ToSet(RemainingRankOrder(left)) = left
        /\ IsInjective(RemainingRankOrder(left))
    BY <2>2, RemainingOrderIsComplete
  <2>4. RankComplete'
    BY <2>1, <2>3 DEF RankComplete
  <2> QED
    BY <2>1, <2>2, <2>4, ScheduleIsReckoned
<1> QED
  BY <1>3, <1>4, <1>5, <1>6, <1>7, <1>8, <1>9 DEF Next

-----------------------------------------------------------------------------
\* The order of locked stops

LEMMA PrefixElements ==
  ASSUME NEW S, NEW s \in Seq(S), NEW i \in 1 .. Len(s)
  PROVE  ToSet(SubSeq(s, 1, i - 1)) = {s[m] : m \in 1 .. i - 1}
<1>1. \A j \in 1 .. i - 1 : s[j] \in S
  OBVIOUS
<1>2. /\ SubSeq(s, 1, i - 1) \in Seq(S) /\ Len(SubSeq(s, 1, i - 1)) = i - 1
      /\ \A j \in 1 .. i - 1 : SubSeq(s, 1, i - 1)[j] = s[j]
  BY <1>1, SubSeqProperties
<1>3. DOMAIN SubSeq(s, 1, i - 1) = 1 .. i - 1
  BY <1>2
<1> QED
  BY <1>2, <1>3 DEF ToSet

LEMMA LocksAreFinite ==
  ASSUME input \in Inputs
  PROVE  /\ IsFiniteSet(Locked) /\ Cardinality(Locked) <= Len(input.locked)
         /\ DOMAIN input.locked = 1 .. Len(input.locked) /\ Len(input.locked) \in Nat
         /\ IsInjective(input.locked)
<1>1. PICK locked : locked = input.locked
  OBVIOUS
<1>2. locked \in Seq(Place) /\ IsInjective(locked)
  BY <1>1, InputAssumption
<1>3. DOMAIN locked = 1 .. Len(locked) /\ Len(locked) \in Nat /\ locked = [i \in 1 .. Len(locked) |-> locked[i]]
  BY <1>2
<1>4. Locked = {locked[i] : i \in 1 .. Len(locked)}
  BY <1>1, <1>3 DEF Locked, ToSet
<1>5. locked \in Surjection(1 .. Len(locked), Locked)
  BY <1>3, <1>4 DEF Surjection
<1>6. IsFiniteSet(1 .. Len(locked)) /\ Cardinality(1 .. Len(locked)) = Len(locked)
  BY <1>3, FS_Interval
<1>7. IsFiniteSet(Locked) /\ Cardinality(Locked) <= Len(locked)
  BY <1>5, <1>6, FS_Surjection
<1> QED
  BY <1>1, <1>2, <1>3, <1>7

\* As many locked stops come before a locked stop as before it in the request.
LEMMA LockIsAtItsPlace ==
  ASSUME input \in Inputs, NEW path, PathOk(path), NEW i \in DOMAIN path.ids,
         NEW k \in DOMAIN input.locked, path.ids[i] = input.locked[k]
  PROVE  Cardinality({path.ids[m] : m \in 1 .. i - 1} \cap Locked) = k - 1
<1>1. PICK ids : ids = path.ids
  OBVIOUS
<1>2. ids \in Seq(Place) /\ DOMAIN ids = 1 .. Len(ids) /\ i \in 1 .. Len(ids)
  BY <1>1 DEF PathOk, WellFormed
<1>3. PICK before : before = {ids[m] : m \in 1 .. i - 1} \cap Locked
  OBVIOUS
<1>4. ids[i] \in Locked
  BY <1>1 DEF Locked, ToSet
<1>5. ids[i] = input.locked[Cardinality(before) + 1]
  <2>1. ids[i] = input.locked[Cardinality(ToSet(SubSeq(ids, 1, i - 1)) \cap Locked) + 1]
    BY <1>1, <1>4 DEF PathOk, Ordered
  <2> QED
    BY <1>2, <1>3, <2>1, PrefixElements
<1>6. ids[i] \notin before
  <2>1. \A m \in 1 .. i - 1 : m \in DOMAIN ids /\ m # i
    BY <1>2
  <2>2. \A m \in 1 .. i - 1 : ids[m] # ids[i]
    BY <1>1, <1>2, <2>1 DEF PathOk, Ordered, IsInjective
  <2> QED
    BY <1>3, <2>2
<1>7. Cardinality(before) \in Nat /\ Cardinality(before) < Len(input.locked)
  <2>1. before \in SUBSET Locked /\ IsFiniteSet(Locked)
    BY <1>3, LocksAreFinite
  <2>2. before # Locked
    BY <1>4, <1>6
  <2>3. IsFiniteSet(before) /\ Cardinality(before) <= Cardinality(Locked) /\ Cardinality(before) # Cardinality(Locked)
    BY <2>1, <2>2, FS_Subset
  <2>4. Cardinality(before) \in Nat /\ Cardinality(Locked) \in Nat
    BY <2>1, <2>3, FS_CardinalityType
  <2> QED
    BY <2>3, <2>4, LocksAreFinite
<1>8. Cardinality(before) + 1 \in DOMAIN input.locked
  BY <1>7, LocksAreFinite
<1>9. Cardinality(before) + 1 = k
  BY <1>1, <1>5, <1>8, LocksAreFinite DEF IsInjective
<1> QED
  BY <1>1, <1>3, <1>7, <1>9

LEMMA LocksAreInOrder ==
  ASSUME input \in Inputs, NEW path, PathOk(path), NEW i \in DOMAIN path.ids, NEW j \in DOMAIN path.ids,
         NEW k \in DOMAIN input.locked, k > 1,
         path.ids[i] = input.locked[k], path.ids[j] = input.locked[k - 1]
  PROVE  ~ (i <= j)
<1>1. SUFFICES ASSUME i <= j PROVE FALSE
  OBVIOUS
<1>2. DOMAIN path.ids = 1 .. Len(path.ids)
  BY DEF PathOk, WellFormed
<1>3. k - 1 \in DOMAIN input.locked /\ k \in Nat
  BY LocksAreFinite
<1>4. PICK I, J : /\ I = {path.ids[m] : m \in 1 .. i - 1} \cap Locked
                  /\ J = {path.ids[m] : m \in 1 .. j - 1} \cap Locked
  OBVIOUS
<1>5. Cardinality(I) = k - 1
  BY <1>4, LockIsAtItsPlace
<1>6. Cardinality(J) = k - 1 - 1
  BY <1>3, <1>4, LockIsAtItsPlace
<1>7. I \in SUBSET J
  <2>1. \A m \in 1 .. i - 1 : m \in 1 .. j - 1
    BY <1>1, <1>2
  <2> QED
    BY <1>4, <2>1
<1>8. IsFiniteSet(J)
  <2>1. J \in SUBSET Locked
    BY <1>4
  <2> QED
    BY <2>1, LocksAreFinite, FS_Subset
<1>9. Cardinality(I) <= Cardinality(J)
  BY <1>7, <1>8, FS_Subset
<1> QED
  BY <1>3, <1>5, <1>6, <1>9

-----------------------------------------------------------------------------
\* The validator agrees

\* What the validator may say of a schedule: something about a food stop.
Expected(issue) ==
  /\ issue.key \in {"food.selection.missing", "opening_hours"}
  /\ issue.place \in Place /\ NeedsFood(issue.place)

\* The trip to a stop is the one of the travel snapshot, and there is time for it.
LEMMA TripAgrees ==
  ASSUME input \in Inputs, NEW path, PathOk(path), Reckoned(path), NEW i \in DOMAIN path.stops
  PROVE  /\ TravelIssues(path.stops, i) = {}
         /\ ~ (i > 1 /\ path.stops[i].start < path.stops[i - 1].end)
<1>1. TripReckoned(path.stops, i)
  BY DEF Reckoned
<1>2. CASE i = 1
  BY <1>1, <1>2 DEF TripReckoned, TravelIssues, Report
<1>3. CASE i # 1
  <2>1. PICK s, before : s = path.stops[i] /\ before = path.stops[i - 1]
    OBVIOUS
  <2>2. PICK edge : edge = <<before.place, s.place>>
    OBVIOUS
  <2>3. /\ edge \in DOMAIN Travel
        /\ s.minutes = Travel[edge].minutes /\ s.buffer = TransitionBuffer
        /\ s.travelCost = Travel[edge].cost
    BY <1>1, <1>3, <2>1, <2>2 DEF TripReckoned
  <2>4. Travel[edge].minutes \in Nat
    BY <2>3, TravelAssumption
  <2>5. s.start \in Int /\ before.end \in Int
    <3>1. i \in 1 .. Len(path.ids) /\ i - 1 \in 1 .. Len(path.ids)
      BY <1>3 DEF PathOk, WellFormed
    <3> QED
      BY <2>1, <3>1 DEF PathOk, WellFormed
  <2>6. s.start >= before.end + s.minutes + TransitionBuffer
    BY <1>3, <2>1 DEF PathOk, Timed
  <2>7. ~ (s.start < before.end + Travel[edge].minutes + TransitionBuffer) /\ ~ (s.start < before.end)
    <3>1. \A a, b \in Int, m \in Nat : a >= b + m + TransitionBuffer =>
            ~ (a < b + m + TransitionBuffer) /\ ~ (a < b)
      BY DEF TransitionBuffer
    <3> QED
      BY <2>3, <2>4, <2>5, <2>6, <3>1
  <2>8. TravelIssues(path.stops, i) = {}
    BY <1>3, <2>1, <2>2, <2>3, <2>7 DEF TravelIssues, Report
  <2> QED
    BY <2>1, <2>7, <2>8
<1> QED
  BY <1>2, <1>3

LEMMA FoodAgrees ==
  ASSUME NEW s, StopReckoned(s), s.place \in Place, s.end - s.start = Here(s.place).duration, NEW issue \in FoodIssues(s)
  PROVE  Expected(issue)
<1>1. FoodReckoned(s.place, s.start, s.food)
  BY DEF StopReckoned
<1>2. CASE s.food = Foodless
  BY <1>2 DEF FoodIssues, Report, Expected
<1>3. CASE s.food # Foodless
  <2>1. NeedsFood(s.place) /\ VerifyFoodSelection(s.place, s.food) /\ FoodStart(s.place, s.food.vendor, s.start) = {s.start}
    BY <1>1, <1>3 DEF FoodReckoned
  <2>2. EarliestFoodVisitStart(Here(s.place), Here(s.place).vendors[s.food.vendor], s.start, Latest, s.end - s.start)
          = {s.start}
    BY <2>1 DEF FoodStart
  <2>3. FoodIssues(s) = {}
    BY <1>3, <2>1, <2>2 DEF FoodIssues, Report
  <2> QED
    BY <2>3
<1> QED
  BY <1>2, <1>3

LEMMA ItemAgrees ==
  ASSUME input \in Inputs, pool \subseteq Eligible, Budget \in Nat,
         NEW path, PathOk(path), Reckoned(path), NEW i \in DOMAIN path.stops,
         NEW issue \in ItemIssues(path.stops, i)
  PROVE  Expected(issue)
<1>1. PICK s : s = path.stops[i]
  OBVIOUS
<1>2. /\ StopReckoned(s)
      /\ s.place \in pool /\ s.place \in Eligible /\ s.place \in Place
      /\ s.start \in Int /\ s.start >= input.start
      /\ s.end = s.start + Here(s.place).duration /\ s.end <= Latest
      /\ s.placeCost = PlaceCost(s.place)
      /\ s.score = ScoreCandidate(s.place)
      /\ FoodReckoned(s.place, s.start, s.food)
  BY <1>1 DEF Reckoned, StopReckoned, Eligible
<1>3. Here(s.place).duration \in Nat /\ input.start \in Nat /\ Latest \in Int
  BY <1>2, CatalogAssumption, InputAssumption DEF Here, Latest
<1>4. s.end - s.start = Here(s.place).duration
  BY <1>2, <1>3
<1>5. Report(s.place \notin pool \cap Eligible, "candidate.membership", s.place) = {}
  BY <1>2 DEF Report
<1>6. Report(\E j \in 1 .. i - 1 : path.stops[j].place = s.place, "items.duplicate", s.place) = {}
  <2>1. i \in 1 .. Len(path.ids) /\ DOMAIN path.ids = 1 .. Len(path.ids) /\ Len(path.ids) \in Nat
    BY DEF PathOk, WellFormed
  <2>2. \A j \in 1 .. i - 1 : j \in 1 .. Len(path.ids) /\ j # i
    BY <2>1
  <2>3. \A j \in 1 .. i - 1 : path.stops[j].place # s.place
    BY <1>1, <2>1, <2>2 DEF PathOk, WellFormed, Ordered, IsInjective
  <2> QED
    BY <2>3 DEF Report
<1>7. Report(s.placeCost # PlaceCost(s.place), "item.place_cost", s.place) = {}
  BY <1>2 DEF Report
<1>8. Report(PlaceCost(s.place) > Budget, "budget.exceeded", s.place) = {}
  <2>1. PlaceCost(s.place) <= Budget
    BY <1>2 DEF Eligible
  <2>2. PlaceCost(s.place) \in Int /\ Budget \in Int
    BY <1>2, AmountsAreNumbers
  <2> QED
    BY <2>1, <2>2 DEF Report
<1>9. Report(s.score # ScoreCandidate(s.place), "item.score", s.place) = {}
  BY <1>2 DEF Report
<1>10. Report(s.end - s.start # Here(s.place).duration, "item.duration", s.place) = {}
  BY <1>4 DEF Report
<1>11. Report(s.start < input.start, "request.start", s.place) = {}
  BY <1>2, <1>3 DEF Report
<1>12. Report(s.end > Latest, "request.duration", s.place) = {}
  BY <1>2, <1>3 DEF Report
<1>13. Report(i > 1 /\ s.start < path.stops[i - 1].end, "timeline.overlap", s.place) = {}
  BY <1>1, TripAgrees DEF Report
<1>14. TravelIssues(path.stops, i) = {}
  BY TripAgrees
<1>15. CASE issue \in Report(VisitStart(s.place, s.start) # {s.start}, "opening_hours", s.place)
  <2>1. VisitStart(s.place, s.start) # {s.start} /\ issue = [key |-> "opening_hours", place |-> s.place]
    BY <1>15 DEF Report
  <2>2. NeedsFood(s.place)
    BY <1>2, <2>1 DEF FoodReckoned
  <2> QED
    BY <1>2, <2>1, <2>2 DEF Expected
<1>16. CASE issue \in FoodIssues(s)
  BY <1>2, <1>4, <1>16, FoodAgrees
<1>17. \/ issue \in Report(VisitStart(s.place, s.start) # {s.start}, "opening_hours", s.place)
       \/ issue \in FoodIssues(s)
  BY <1>1, <1>5, <1>6, <1>7, <1>8, <1>9, <1>10, <1>11, <1>12, <1>13, <1>14, ZenonT(60) DEF ItemIssues
<1> QED
  BY <1>15, <1>16, <1>17

LEMMA LocksAgree ==
  ASSUME input \in Inputs, NEW path, PathOk(path), PathIsValid(path)
  PROVE  LockIssues(path.stops) = {}
<1> DEFINE At(p) == {i \in DOMAIN path.stops : path.stops[i].place = p}
<1>1. /\ DOMAIN path.stops = DOMAIN path.ids
      /\ \A i \in DOMAIN path.ids : path.stops[i].place = path.ids[i]
  BY DEF PathOk, WellFormed
<1>2. ASSUME NEW k \in DOMAIN input.locked
      PROVE  /\ Report(At(input.locked[k]) = {}, "lock.missing", input.locked[k]) = {}
             /\ Report(k > 1 /\ \E i \in At(input.locked[k]), j \in At(input.locked[k - 1]) : i <= j,
                       "lock.order", input.locked[k]) = {}
  <2>1. input.locked # <<>>
    BY <1>2
  <2>2. input.locked[k] \in ToSet(path.ids)
    BY <2>1 DEF PathIsValid, Locked, ToSet
  <2>3. PICK m \in DOMAIN path.ids : path.ids[m] = input.locked[k]
    BY <2>2 DEF ToSet
  <2>4. m \in At(input.locked[k])
    BY <1>1, <2>3
  <2>5. ~ (k > 1 /\ \E i \in At(input.locked[k]), j \in At(input.locked[k - 1]) : i <= j)
    <3>1. SUFFICES ASSUME k > 1, NEW i \in At(input.locked[k]), NEW j \in At(input.locked[k - 1]), i <= j
                   PROVE  FALSE
      OBVIOUS
    <3> QED
      BY <1>1, <3>1, LocksAreInOrder
  <2> HIDE DEF At
  <2>6. ~ (At(input.locked[k]) = {})
    BY <2>4
  <2>7. Report(At(input.locked[k]) = {}, "lock.missing", input.locked[k]) = {}
    BY <2>6 DEF Report
  <2>8. Report(k > 1 /\ \E i \in At(input.locked[k]), j \in At(input.locked[k - 1]) : i <= j,
               "lock.order", input.locked[k]) = {}
    BY <2>5 DEF Report
  <2> QED
    BY <2>7, <2>8
<1>3. LockIssues(path.stops) =
        UNION {Report(At(input.locked[k]) = {}, "lock.missing", input.locked[k])
                 \cup Report(k > 1 /\ \E i \in At(input.locked[k]), j \in At(input.locked[k - 1]) : i <= j,
                            "lock.order", input.locked[k]) : k \in DOMAIN input.locked}
  BY DEF LockIssues
<1> HIDE DEF At
<1> QED
  BY <1>2, <1>3

LEMMA TotalsAgree ==
  ASSUME input \in Inputs, Budget \in Nat, NEW path, PathOk(path), Reckoned(path)
  PROVE  TotalIssues(path.stops, path.score) = {}
<1>1. Len(path.stops) <= PaceCap /\ Len(path.stops) \in Nat /\ PaceCap \in Nat
  BY DEF PathOk, WellFormed, Ordered, PaceCap, GlobalStopCap
<1>2. GroupCostMax(path.stops) <= Budget /\ GroupCostMax(path.stops) \in Int /\ Budget \in Int
  BY DEF PathOk, Reckoned, SumsReckoned
<1>3. path.score = SumFunction([i \in DOMAIN path.stops |-> path.stops[i].score])
  BY DEF Reckoned, SumsReckoned, ScoreSum
<1>4. ~ (Len(path.stops) > PaceCap)
  BY <1>1
<1>5. ~ (GroupCostMax(path.stops) > Budget)
  BY <1>2
<1>6. /\ Report(Len(path.stops) > PaceCap, "pace", 0) = {}
      /\ Report(GroupCostMax(path.stops) > Budget, "budget.exceeded", 0) = {}
      /\ Report(path.score # SumFunction([i \in DOMAIN path.stops |-> path.stops[i].score]), "totals.score", 0) = {}
  BY <1>3, <1>4, <1>5, Zenon DEF Report
<1> QED
  BY <1>6, Zenon DEF TotalIssues

\* The scheduler and the validator agree on every schedule.
LEMMA ScheduleAgrees ==
  ASSUME SearchInv, ReckonInv, stage = "validate", NEW issue \in Issues
  PROVE  Expected(issue)
<1>1. input \in Inputs /\ pool \subseteq Eligible /\ Budget \in Nat
  BY DEF SearchInv, ReckonInv
<1>2. PICK path \in best : issue \in ValidateItinerary(path)
  BY DEF Issues
<1>3. PathOk(path) /\ PathIsValid(path) /\ Reckoned(path)
  BY <1>2 DEF SearchInv, ReckonInv, Paths
<1>4. LockIssues(path.stops) = {} /\ TotalIssues(path.stops, path.score) = {}
  BY <1>1, <1>3, LocksAgree, TotalsAgree
<1>5. PICK i \in DOMAIN path.stops : issue \in ItemIssues(path.stops, i)
  BY <1>2, <1>4 DEF ValidateItinerary
<1> QED
  BY <1>1, <1>3, <1>5, ItemAgrees

LEMMA SpecReckonInv == Spec => [](SearchInv /\ ReckonInv)
BY SearchInvInit, SearchInvNext, ReckonInvInit, ReckonInvNext, PTL DEF Spec

\* Two computations of one schedule, the scheduler's as it goes and the validator's
\* afterwards, differ in nothing but the two points at food stops.
THEOREM SchedulerAndValidatorAgree == Spec => []ValidatorAgrees
<1>1. SearchInv /\ ReckonInv => ValidatorAgrees
  BY ScheduleAgrees DEF ValidatorAgrees, Expected
<1> QED
  BY SpecReckonInv, <1>1, PTL

-----------------------------------------------------------------------------
\* The budget

\* Rounding down to VND and up to cents again stays below the cents.
LEMMA RoundedTwice ==
  ASSUME NEW c \in Nat, NEW n \in Nat \ {0}, NEW d \in Nat \ {0}, NEW g \in Int,
         g <= (c * n) \div (100 * d)
  PROVE  (g * 100 * d + n - 1) \div n <= c
<1>1. PICK x \in Nat, y \in Nat \ {0}, q \in Int : x = c * n /\ y = 100 * d /\ q = x \div y
  <2>1. c * n \in Nat /\ 100 * d \in Nat \ {0}
    OBVIOUS
  <2>2. (c * n) \div (100 * d) \in Int
    BY <2>1
  <2> QED
    BY <2>1, <2>2
<1>2. q * y <= x
  BY <1>1
<1>3. g * y <= q * y
  BY <1>1
<1>4. g * 100 * d = g * y
  BY <1>1
<1>5. PICK z \in Int : z = g * y
  BY <1>1
<1>6. z <= c * n
  BY <1>1, <1>2, <1>3, <1>5
<1>7. z + n - 1 < (c + 1) * n
  <2>1. (c + 1) * n = c * n + n /\ c * n \in Int
    OBVIOUS
  <2> QED
    BY <1>5, <1>6, <2>1
<1>8. (z + n - 1) \div n <= c
  <2>1. PICK w \in Int : w = z + n - 1
    BY <1>5
  <2>2. \A v \in Int : (w \div n) * n <= w
    BY <2>1
  <2>3. PICK r \in Int : r = w \div n
    BY <2>1
  <2>4. r * n < (c + 1) * n
    BY <1>7, <2>1, <2>2, <2>3
  <2>5. r < c + 1
    BY <2>4
  <2> QED
    BY <2>1, <2>3, <2>5
<1> QED
  BY <1>4, <1>5, <1>8

\* Whatever the highest prices add up to is within the budget of the request.
LEMMA AcceptedIsPaid ==
  ASSUME input \in Inputs, Budget \in Nat, NEW path, PathOk(path), Reckoned(path)
  PROVE  /\ GroupCostMax(path.stops) <= Budget
         /\ input.budget.currency = "USD" =>
              \A rate \in input.fx : VndToUsdCentsCeil(GroupCostMax(path.stops), rate) <= input.budget.amount
<1>1. GroupCostMax(path.stops) \in Int /\ GroupCostMax(path.stops) <= Budget
  BY DEF PathOk, Reckoned, SumsReckoned
<1>2. ASSUME input.budget.currency = "USD", NEW rate \in input.fx
      PROVE  VndToUsdCentsCeil(GroupCostMax(path.stops), rate) <= input.budget.amount
  <2>1. PICK chosen : chosen = CHOOSE r \in input.fx : TRUE
    OBVIOUS
  <2>2. chosen \in input.fx
    BY <1>2, <2>1
  <2>3. chosen = rate
    BY <1>2, <2>2, InputAssumption
  <2>4. PICK c \in Nat, n \in Nat \ {0}, d \in Nat \ {0} :
          c = input.budget.amount /\ n = rate.num /\ d = rate.den
    BY <1>2, InputAssumption
  <2>5. Budget = (c * n) \div (100 * d)
    BY <1>2, <2>1, <2>3, <2>4 DEF Budget, UsdCentsToVndFloor
  <2>6. PICK g \in Int : g = GroupCostMax(path.stops)
    BY <1>1
  <2>7. (g * 100 * d + n - 1) \div n <= c
    BY <1>1, <2>5, <2>6, RoundedTwice
  <2> QED
    BY <2>4, <2>6, <2>7 DEF VndToUsdCentsCeil
<1> QED
  BY <1>1, <1>2

LEMMA WithinBudgetNext == SearchInv /\ ReckonInv /\ AnswerInv /\ WithinBudget /\ [Next]_vars => WithinBudget'
<1> SUFFICES ASSUME SearchInv, ReckonInv, AnswerInv, WithinBudget, [Next]_vars, outcome'.code = "ok"
             PROVE  WithinBudget'
  BY DEF WithinBudget
<1>1. CASE Accept
  <2>1. PICK path \in best : outcome'.path = path
    BY <1>1 DEF Accept, Answer
  <2>2. input' = input /\ stage = "validate"
    BY <1>1 DEF Accept
  <2>3. input \in Inputs /\ Budget \in Nat /\ PathOk(path) /\ Reckoned(path)
    BY <2>2 DEF SearchInv, ReckonInv, Paths
  <2>4. /\ GroupCostMax(path.stops) <= Budget
        /\ input.budget.currency = "USD" =>
             \A rate \in input.fx : VndToUsdCentsCeil(GroupCostMax(path.stops), rate) <= input.budget.amount
    BY <2>3, AcceptedIsPaid
  <2> QED
    BY <2>1, <2>2, <2>4, InputDecides DEF WithinBudget
<1>2. CASE ~ Accept
  <2>1. outcome' = outcome /\ input' = input
    BY <1>2, AnswerStays
  <2> QED
    BY <2>1, InputDecides DEF WithinBudget
<1> QED
  BY <1>1, <1>2

\* What the engine returns is never dearer than the request allows, in the currency
\* of the request, although the budget was converted with rounding: money.ts, validator.ts.
THEOREM AnswersAreWithinBudget == Spec => []WithinBudget
<1>1. Init => WithinBudget
  BY DEF Init, WithinBudget, Pending
<1> QED
  BY SpecReckonInv, SpecAnswerInv, <1>1, WithinBudgetNext, PTL DEF Spec

-----------------------------------------------------------------------------
\* The order of paths

LEMMA TextIsIrreflexive ==
  ASSUME NEW s \in Seq(Nat)
  PROVE  ~ TextBefore(s, s)
<1>1. ASSUME NEW k \in 0 .. Len(s), k < Len(s), k = Len(s) \/ s[k + 1] < s[k + 1]
      PROVE  FALSE
  <2>1. k + 1 \in 1 .. Len(s)
    BY <1>1
  <2>2. s[k + 1] \in Nat
    BY <2>1
  <2> QED
    BY <1>1, <2>2
<1> QED
  BY <1>1 DEF TextBefore

\* The first difference decides.
LEMMA TextIsTotal ==
  ASSUME NEW s \in Seq(Nat), NEW t \in Seq(Nat), s # t
  PROVE  TextBefore(s, t) \/ TextBefore(t, s)
<1> DEFINE D == {k \in Nat : k < Len(s) /\ k < Len(t) /\ s[k + 1] # t[k + 1]}
<1>1. Len(s) \in Nat /\ Len(t) \in Nat
  OBVIOUS
<1>2. CASE D # {}
  <2>1. D \in SUBSET Nat
    OBVIOUS
  <2>2. PICK k \in D : \A m \in D : k <= m
    BY <1>2, <2>1, LeastExists
  <2>3. k \in Nat /\ k < Len(s) /\ k < Len(t) /\ s[k + 1] # t[k + 1]
    BY <2>2
  <2>4. ASSUME NEW j \in 1 .. k PROVE s[j] = t[j]
    <3>1. j - 1 \in Nat /\ j - 1 < k /\ j - 1 + 1 = j
      OBVIOUS
    <3>2. j - 1 \notin D
      BY <2>2, <2>3, <3>1
    <3>3. j - 1 < Len(s) /\ j - 1 < Len(t)
      BY <1>1, <2>3, <3>1
    <3> QED
      BY <3>1, <3>2, <3>3
  <2>5. k \in 0 .. Len(s) /\ k \in 0 .. Len(t) /\ k <= Len(s) /\ k <= Len(t)
    BY <1>1, <2>3
  <2>6. s[k + 1] \in Nat /\ t[k + 1] \in Nat
    <3>1. k + 1 \in 1 .. Len(s) /\ k + 1 \in 1 .. Len(t)
      BY <1>1, <2>3
    <3> QED
      BY <3>1
  <2>7. s[k + 1] < t[k + 1] \/ t[k + 1] < s[k + 1]
    BY <2>3, <2>6
  <2>8. (\A j \in 1 .. k : s[j] = t[j]) /\ (\A j \in 1 .. k : t[j] = s[j])
    BY <2>4
  <2> HIDE DEF D
  <2> QED
    BY <2>3, <2>5, <2>7, <2>8 DEF TextBefore
<1>3. CASE D = {}
  <2>1. ASSUME NEW j \in 1 .. Len(s), j \in 1 .. Len(t) PROVE s[j] = t[j]
    <3>1. j - 1 \in Nat /\ j - 1 < Len(s) /\ j - 1 < Len(t) /\ j - 1 + 1 = j
      BY <2>1
    <3>2. j - 1 \notin D
      BY <1>3
    <3> QED
      BY <3>1, <3>2
  <2>2. Len(s) # Len(t)
    <3>1. SUFFICES ASSUME Len(s) = Len(t) PROVE FALSE
      OBVIOUS
    <3>2. \A j \in 1 .. Len(s) : s[j] = t[j]
      BY <2>1, <3>1
    <3> QED
      BY <3>1, <3>2, SeqEqual
  <2>3. CASE Len(s) < Len(t)
    <3>1. Len(s) \in 0 .. Len(s) /\ Len(s) <= Len(t) /\ \A j \in 1 .. Len(s) : s[j] = t[j]
      BY <1>1, <2>1, <2>3
    <3> QED
      BY <2>3, <3>1 DEF TextBefore
  <2>4. CASE Len(t) < Len(s)
    <3>1. Len(t) \in 0 .. Len(t) /\ Len(t) <= Len(s) /\ \A j \in 1 .. Len(t) : t[j] = s[j]
      BY <1>1, <2>1, <2>4
    <3> QED
      BY <2>4, <3>1 DEF TextBefore
  <2> QED
    BY <1>1, <2>2, <2>3, <2>4
<1> QED
  BY <1>2, <1>3

LEMMA TextIsTransitive ==
  ASSUME NEW s \in Seq(Nat), NEW t \in Seq(Nat), NEW u \in Seq(Nat), TextBefore(s, t), TextBefore(t, u)
  PROVE  TextBefore(s, u)
<1>1. PICK k \in 0 .. Len(s) :
        /\ k <= Len(t) /\ k < Len(t)
        /\ \A j \in 1 .. k : s[j] = t[j]
        /\ k = Len(s) \/ s[k + 1] < t[k + 1]
  BY DEF TextBefore
<1>2. PICK l \in 0 .. Len(t) :
        /\ l <= Len(u) /\ l < Len(u)
        /\ \A j \in 1 .. l : t[j] = u[j]
        /\ l = Len(t) \/ t[l + 1] < u[l + 1]
  BY DEF TextBefore
<1>3. Len(s) \in Nat /\ Len(t) \in Nat /\ Len(u) \in Nat /\ k \in Nat /\ l \in Nat
  OBVIOUS
<1>4. CASE k < l
  <2>1. k + 1 \in 1 .. l /\ \A j \in 1 .. k : j \in 1 .. l
    BY <1>3, <1>4
  <2>2. (\A j \in 1 .. k : s[j] = u[j]) /\ t[k + 1] = u[k + 1]
    BY <1>1, <1>2, <2>1
  <2>3. k <= Len(u) /\ k < Len(u)
    BY <1>2, <1>3, <1>4
  <2> QED
    BY <1>1, <2>2, <2>3 DEF TextBefore
<1>5. CASE l < k
  <2>1. l + 1 \in 1 .. k /\ \A j \in 1 .. l : j \in 1 .. k
    BY <1>3, <1>5
  <2>2. (\A j \in 1 .. l : s[j] = u[j]) /\ s[l + 1] = t[l + 1]
    BY <1>1, <1>2, <2>1
  <2>3. l # Len(t) /\ l \in 0 .. Len(s)
    BY <1>1, <1>3, <1>5
  <2> QED
    BY <1>2, <2>2, <2>3 DEF TextBefore
<1>6. CASE k = l
  <2>1. \A j \in 1 .. k : s[j] = u[j]
    BY <1>1, <1>2, <1>6
  <2>2. t[k + 1] < u[k + 1] /\ k <= Len(u) /\ k < Len(u)
    BY <1>1, <1>2, <1>3, <1>6
  <2>3. k = Len(s) \/ s[k + 1] < u[k + 1]
    <3>1. CASE k = Len(s)
      BY <3>1
    <3>2. CASE k # Len(s)
      <4>1. k + 1 \in 1 .. Len(s) /\ k + 1 \in 1 .. Len(t) /\ k + 1 \in 1 .. Len(u)
        BY <1>1, <1>3, <2>2, <3>2
      <4>2. PICK a \in Nat, b \in Nat, c \in Nat : a = s[k + 1] /\ b = t[k + 1] /\ c = u[k + 1]
        BY <4>1
      <4>3. a < b /\ b < c
        BY <1>1, <2>2, <3>2, <4>2
      <4> QED
        BY <4>2, <4>3
    <3> QED
      BY <3>1, <3>2
  <2> QED
    BY <2>1, <2>2, <2>3 DEF TextBefore
<1> QED
  BY <1>3, <1>4, <1>5, <1>6

\* What can be compared: numbers and texts.
Comparable(a) ==
  a.score \in Int /\ a.cost \in Int /\ a.finish \in Int /\ a.ids \in Seq(Nat)

LEMMA PreferenceIsOrder ==
  ASSUME NEW a, NEW b, NEW c, Comparable(a), Comparable(b), Comparable(c)
  PROVE  /\ ~ Preferred(a, a)
         /\ a.ids # b.ids => Preferred(a, b) \/ Preferred(b, a)
         /\ Preferred(a, b) /\ Preferred(b, c) => Preferred(a, c)
<1>1. /\ a.score \in Int /\ a.cost \in Int /\ a.finish \in Int /\ a.ids \in Seq(Nat)
      /\ b.score \in Int /\ b.cost \in Int /\ b.finish \in Int /\ b.ids \in Seq(Nat)
      /\ c.score \in Int /\ c.cost \in Int /\ c.finish \in Int /\ c.ids \in Seq(Nat)
  BY DEF Comparable
<1>2. /\ ~ TextBefore(a.ids, a.ids)
      /\ a.ids # b.ids => TextBefore(a.ids, b.ids) \/ TextBefore(b.ids, a.ids)
      /\ TextBefore(a.ids, b.ids) /\ TextBefore(b.ids, c.ids) => TextBefore(a.ids, c.ids)
  BY <1>1, TextIsIrreflexive, TextIsTotal, TextIsTransitive
<1>3. ~ Preferred(a, a)
  BY <1>1, <1>2 DEF Preferred
<1>4. a.ids # b.ids => Preferred(a, b) \/ Preferred(b, a)
  BY <1>1, <1>2 DEF Preferred
<1>5. Preferred(a, b) /\ Preferred(b, c) => Preferred(a, c)
  BY <1>1, <1>2 DEF Preferred
<1> QED
  BY <1>3, <1>4, <1>5

\* Paths that the order tells apart.
Ranked(paths) ==
  /\ IsFiniteSet(paths)
  /\ \A a \in paths : Comparable(a)
  /\ \A a, b \in paths : a.ids = b.ids => a = b

Above(paths, a) == {b \in paths : Preferred(b, a)}

LEMMA AboveIsSmaller ==
  ASSUME NEW paths, Ranked(paths), NEW a \in paths, NEW b \in paths
  PROVE  /\ Cardinality(Above(paths, a)) \in Nat
         /\ Preferred(a, b) => Cardinality(Above(paths, a)) < Cardinality(Above(paths, b))
         /\ a # b => Cardinality(Above(paths, a)) # Cardinality(Above(paths, b))
<1>1. ASSUME NEW x \in paths
      PROVE  IsFiniteSet(Above(paths, x)) /\ Cardinality(Above(paths, x)) \in Nat
  <2>1. Above(paths, x) \in SUBSET paths
    BY DEF Above
  <2> QED
    BY <2>1, FS_Subset, FS_CardinalityType DEF Ranked
<1>2. ASSUME NEW x \in paths, NEW y \in paths, Preferred(x, y)
      PROVE  Cardinality(Above(paths, x)) < Cardinality(Above(paths, y))
  <2>1. Above(paths, x) \in SUBSET Above(paths, y)
    BY <1>2, PreferenceIsOrder DEF Above, Ranked
  <2>2. x \in Above(paths, y) /\ x \notin Above(paths, x)
    BY <1>2, PreferenceIsOrder DEF Above, Ranked
  <2>3. /\ Cardinality(Above(paths, x)) <= Cardinality(Above(paths, y))
        /\ Cardinality(Above(paths, x)) # Cardinality(Above(paths, y))
    BY <1>1, <2>1, <2>2, FS_Subset
  <2> QED
    BY <1>1, <2>3
<1>3. a # b => Preferred(a, b) \/ Preferred(b, a)
  BY PreferenceIsOrder DEF Ranked
<1>4. a # b => Cardinality(Above(paths, a)) # Cardinality(Above(paths, b))
  BY <1>1, <1>2, <1>3
<1> QED
  BY <1>1, <1>2, <1>4

\* The cut keeps no more paths than the width of the beam.
LEMMA TrimIsNarrow ==
  ASSUME NEW paths, Ranked(paths)
  PROVE  IsFiniteSet(Trim(paths)) /\ Cardinality(Trim(paths)) <= BeamWidth
<1> DEFINE f == [a \in Trim(paths) |-> Cardinality(Above(paths, a))]
<1>1. Trim(paths) \in SUBSET paths
  BY DEF Trim
<1>2. \A a \in Trim(paths) : Cardinality(Above(paths, a)) \in 0 .. BeamWidth - 1
  <2>1. ASSUME NEW a \in Trim(paths) PROVE Cardinality(Above(paths, a)) \in 0 .. BeamWidth - 1
    <3>1. Cardinality(Above(paths, a)) \in Nat
      BY <1>1, AboveIsSmaller
    <3>2. Cardinality(Above(paths, a)) < BeamWidth
      BY DEF Trim, Above
    <3> QED
      BY <3>1, <3>2, CapAssumption
  <2> QED
    BY <2>1
<1>3. \A a, b \in Trim(paths) : a # b => Cardinality(Above(paths, a)) # Cardinality(Above(paths, b))
  BY <1>1, AboveIsSmaller
<1>4. f \in Injection(Trim(paths), 0 .. BeamWidth - 1)
  BY <1>2, <1>3 DEF Injection, IsInjective
<1>5. IsFiniteSet(0 .. BeamWidth - 1) /\ Cardinality(0 .. BeamWidth - 1) = BeamWidth
  BY CapAssumption, FS_Interval
<1> HIDE DEF f
<1>6. Cardinality(Trim(paths)) <= Cardinality(0 .. BeamWidth - 1)
  BY <1>4, <1>5, FS_Injection
<1>7. IsFiniteSet(Trim(paths))
  BY <1>1, FS_Subset DEF Ranked
<1> QED
  BY <1>5, <1>6, <1>7

\* Of some paths one is the best.
LEMMA BestExists ==
  ASSUME NEW paths, Ranked(paths), paths # {}
  PROVE  \E a \in paths : BestOf(paths) = {a} /\ \A b \in paths \ {a} : Preferred(a, b)
<1> DEFINE N == {Cardinality(Above(paths, a)) : a \in paths}
<1>1. N \in SUBSET Nat /\ N # {}
  BY AboveIsSmaller
<1>2. PICK n \in N : \A m \in N : n <= m
  BY <1>1, LeastExists
<1>3. PICK a \in paths : n = Cardinality(Above(paths, a))
  BY <1>2
<1>4. ASSUME NEW b \in paths \ {a} PROVE Preferred(a, b) /\ ~ Preferred(b, a)
  <2>1. ~ Preferred(b, a)
    <3>1. SUFFICES ASSUME Preferred(b, a) PROVE FALSE
      OBVIOUS
    <3>2. Cardinality(Above(paths, b)) < n /\ Cardinality(Above(paths, b)) \in Nat
      BY <1>3, <3>1, AboveIsSmaller
    <3>3. n <= Cardinality(Above(paths, b))
      BY <1>2
    <3> QED
      BY <1>1, <3>2, <3>3
  <2>2. a.ids # b.ids
    BY DEF Ranked
  <2> QED
    BY <2>1, <2>2, PreferenceIsOrder DEF Ranked
<1>5. BestOf(paths) = {a}
  BY <1>3, <1>4 DEF BestOf
<1> QED
  BY <1>4, <1>5


-----------------------------------------------------------------------------
\* A path is decided by the names of its stops

LEMMA EarliestIsOne ==
  ASSUME NEW S, NEW s \in Earliest(S), NEW t \in Earliest(S), s \in Int, t \in Int
  PROVE  s = t
<1>1. s <= t /\ t <= s
  BY DEF Earliest
<1> QED
  BY <1>1

\* There is at most one visit after an arrival.
LEMMA VisitIsDecided ==
  ASSUME input \in Inputs, NEW a, a.place \in Place, a.earliest \in Int,
         NEW x \in VisitsAfter(a), NEW y \in VisitsAfter(a)
  PROVE  x = y
<1> DEFINE p == a.place
<1>1. /\ IsVenue(Here(p)) /\ Here(p).duration \in Nat /\ Latest \in Int
      /\ \A v \in DOMAIN Here(p).vendors : IsVenue(Here(p).vendors[v])
  BY CatalogAssumption, InputAssumption DEF Here, Latest
<1>2. ASSUME NEW s \in VisitStart(p, a.earliest), NEW t \in VisitStart(p, a.earliest)
      PROVE  s = t
  <2>1. s \in Int /\ t \in Int
    BY <1>1, VisitStartsInTime DEF VisitStart
  <2> QED
    BY <2>1, EarliestIsOne DEF VisitStart, EarliestVisitStart
<1>3. ASSUME NEW v \in DOMAIN Here(p).vendors,
             NEW s \in FoodStart(p, v, a.earliest), NEW t \in FoodStart(p, v, a.earliest)
      PROVE  s = t
  <2>1. s \in Int /\ t \in Int
    BY <1>1, FoodStartsInTime DEF FoodStart
  <2> QED
    BY <2>1, EarliestIsOne DEF FoodStart, EarliestFoodVisitStart
<1>4. CASE ~ NeedsFood(p)
  <2>1. PICK s \in VisitStart(p, a.earliest) : x = [selection |-> Foodless, start |-> s]
    BY <1>4 DEF VisitsAfter
  <2>2. PICK t \in VisitStart(p, a.earliest) : y = [selection |-> Foodless, start |-> t]
    BY <1>4 DEF VisitsAfter
  <2> QED
    BY <1>2, <2>1, <2>2
<1>5. CASE NeedsFood(p)
  <2>1. x \in ChooseScheduledFood(p, a.earliest, a.base) /\ y \in ChooseScheduledFood(p, a.earliest, a.base)
    BY <1>5 DEF VisitsAfter
  <2>2. CASE p \in DOMAIN pinned /\ pinned[p] = Foodless
    <3>1. PICK s \in VisitStart(p, a.earliest) : x = [selection |-> Foodless, start |-> s]
      BY <2>1, <2>2 DEF ChooseScheduledFood
    <3>2. PICK t \in VisitStart(p, a.earliest) : y = [selection |-> Foodless, start |-> t]
      BY <2>1, <2>2 DEF ChooseScheduledFood
    <3> QED
      BY <1>2, <3>1, <3>2
  <2>3. CASE p \in DOMAIN pinned /\ pinned[p] # Foodless
    <3>1. VerifyFoodSelection(p, pinned[p])
      BY <2>1, <2>3 DEF ChooseScheduledFood
    <3>2. pinned[p].vendor \in DOMAIN Here(p).vendors
      BY <3>1 DEF VerifyFoodSelection
    <3>3. PICK s \in FoodStart(p, pinned[p].vendor, a.earliest) : x = [selection |-> pinned[p], start |-> s]
      BY <2>1, <2>3 DEF ChooseScheduledFood
    <3>4. PICK t \in FoodStart(p, pinned[p].vendor, a.earliest) : y = [selection |-> pinned[p], start |-> t]
      BY <2>1, <2>3 DEF ChooseScheduledFood
    <3> QED
      BY <1>3, <3>2, <3>3, <3>4
  <2>4. CASE p \notin DOMAIN pinned
    <3>1. ASSUME NEW z \in ChooseScheduledFood(p, a.earliest, a.base)
          PROVE  \E v \in Earliest(OpenVendors(p, a.earliest, a.base)) :
                 \E i \in Earliest(Affordable(p, v, Budget - a.base)) :
                 \E s \in FoodStart(p, v, a.earliest) : z = [selection |-> Dish(p, v, i), start |-> s]
      BY <2>4 DEF ChooseScheduledFood
    <3>2. PICK v \in Earliest(OpenVendors(p, a.earliest, a.base)) :
                 \E i \in Earliest(Affordable(p, v, Budget - a.base)) :
                 \E s \in FoodStart(p, v, a.earliest) : x = [selection |-> Dish(p, v, i), start |-> s]
      BY <2>1, <3>1
    <3>3. PICK i \in Earliest(Affordable(p, v, Budget - a.base)) :
                 \E s \in FoodStart(p, v, a.earliest) : x = [selection |-> Dish(p, v, i), start |-> s]
      BY <3>2
    <3>4. PICK s \in FoodStart(p, v, a.earliest) : x = [selection |-> Dish(p, v, i), start |-> s]
      BY <3>3
    <3>5. PICK w \in Earliest(OpenVendors(p, a.earliest, a.base)) :
                 \E k \in Earliest(Affordable(p, w, Budget - a.base)) :
                 \E t \in FoodStart(p, w, a.earliest) : y = [selection |-> Dish(p, w, k), start |-> t]
      BY <2>1, <3>1
    <3>6. PICK k \in Earliest(Affordable(p, w, Budget - a.base)) :
                 \E t \in FoodStart(p, w, a.earliest) : y = [selection |-> Dish(p, w, k), start |-> t]
      BY <3>5
    <3>7. PICK t \in FoodStart(p, w, a.earliest) : y = [selection |-> Dish(p, w, k), start |-> t]
      BY <3>6
    <3>8. v \in DOMAIN Here(p).vendors /\ w \in DOMAIN Here(p).vendors
      BY EarliestIsMember DEF OpenVendors
    <3>9. DOMAIN Here(p).vendors \subseteq Nat /\ \A u \in DOMAIN Here(p).vendors : DOMAIN Here(p).vendors[u].menu \subseteq Nat
      BY CatalogAssumption, InputAssumption DEF Here
    <3>10. v = w
      BY <3>8, <3>9, EarliestIsOne
    <3>11. i \in DOMAIN Here(p).vendors[v].menu /\ k \in DOMAIN Here(p).vendors[v].menu
      BY <3>10, EarliestIsMember DEF Affordable
    <3>12. i = k
      BY <3>8, <3>9, <3>10, <3>11, EarliestIsOne
    <3>13. s = t
      BY <1>3, <3>8, <3>10
    <3> QED
      BY <3>4, <3>7, <3>10, <3>12, <3>13
  <2> QED
    BY <2>2, <2>3, <2>4
<1> QED
  BY <1>4, <1>5

LEMMA AppendIsDecided ==
  ASSUME NEW S, NEW s \in Seq(S), NEW t \in Seq(S), NEW e, NEW f, Append(s, e) = Append(t, f)
  PROVE  s = t /\ e = f
<1>1. PICK u : u = Append(s, e) /\ u = Append(t, f)
  OBVIOUS
<1>2. /\ Len(u) = Len(s) + 1 /\ Len(s) \in Nat /\ (\A i \in 1 .. Len(s) : u[i] = s[i]) /\ u[Len(s) + 1] = e
  BY <1>1, AppendKeeps
<1>3. /\ Len(u) = Len(t) + 1 /\ Len(t) \in Nat /\ (\A i \in 1 .. Len(t) : u[i] = t[i]) /\ u[Len(t) + 1] = f
  BY <1>1, AppendKeeps
<1>4. Len(s) = Len(t)
  BY <1>2, <1>3
<1>5. \A i \in 1 .. Len(s) : s[i] = t[i]
  BY <1>2, <1>3, <1>4
<1>6. s = t
  BY <1>4, <1>5, SeqEqual
<1> QED
  BY <1>2, <1>3, <1>4, <1>6

LEMMA ExtensionAdds ==
  ASSUME input \in Inputs, pool \subseteq Place, NEW path, WellFormed(path), NEW next \in Extensions(path)
  PROVE  \E a \in Arrivals(path) : \E visit \in VisitsAfter(a) :
           /\ next = AppendStop(path, a, visit) /\ next.ids = Append(path.ids, a.place)
           /\ a.place \in pool /\ a.place \in Place /\ a.earliest \in Int /\ Len(path.ids) < PaceCap
<1>1. PICK a \in Arrivals(path) : \E visit \in VisitsAfter(a) : next = AppendStop(path, a, visit)
  BY DEF Extensions
<1>2. PICK visit \in VisitsAfter(a) : next = AppendStop(path, a, visit)
  BY <1>1
<1>3. next.ids = Append(path.ids, a.place)
  BY <1>2 DEF AppendStop
<1>4. a.place \in pool
  BY ArrivalIsReckoned
<1>5. a.place \in Place /\ a.earliest \in Int /\ Len(path.ids) < PaceCap
  BY ArrivalIsLater
<1> QED
  BY <1>2, <1>3, <1>4, <1>5

\* The names of the stops decide the rest of a path.
LEMMA ExtensionIsDecided ==
  ASSUME input \in Inputs, pool \subseteq Place, NEW path, WellFormed(path),
         NEW x \in Extensions(path), NEW y \in Extensions(path), x.ids = y.ids
  PROVE  x = y
<1>1. PICK a \in Arrivals(path) : \E visit \in VisitsAfter(a) :
        /\ x = AppendStop(path, a, visit) /\ x.ids = Append(path.ids, a.place)
        /\ a.place \in Place /\ a.earliest \in Int
  BY ExtensionAdds
<1>2. PICK v \in VisitsAfter(a) : x = AppendStop(path, a, v)
  BY <1>1
<1>3. PICK b \in Arrivals(path) : \E visit \in VisitsAfter(b) :
        /\ y = AppendStop(path, b, visit) /\ y.ids = Append(path.ids, b.place)
        /\ b.place \in Place /\ b.earliest \in Int
  BY ExtensionAdds
<1>4. PICK w \in VisitsAfter(b) : y = AppendStop(path, b, w)
  BY <1>3
<1>5. a.place = b.place
  BY <1>1, <1>3, AppendIsDecided DEF WellFormed
<1>6. a = b
  <2> DEFINE R(p) == [place |-> p, leg |-> Leg(path, p),
                      earliest |-> path.finish + Leg(path, p).minutes + Leg(path, p).buffer,
                      base |-> path.cost + PlaceCost(p) + Leg(path, p).cost]
  <2>1. (\E p : a = R(p)) /\ (\E q : b = R(q))
    BY DEF Arrivals
  <2>2. \A p : R(p).place = p
    OBVIOUS
  <2> HIDE DEF R
  <2> QED
    BY <1>5, <2>1, <2>2
<1>7. v = w
  BY <1>1, <1>2, <1>4, <1>6, VisitIsDecided
<1> QED
  BY <1>2, <1>4, <1>6, <1>7

LEMMA ExtensionsAreFinite ==
  ASSUME input \in Inputs, pool \subseteq Place, NEW path, WellFormed(path)
  PROVE  IsFiniteSet(Extensions(path))
<1> DEFINE E == Extensions(path)
           n == Len(path.ids)
           f == [x \in E |-> x.ids[n + 1]]
<1>1. IsFiniteSet(pool)
  BY PlaceAssumption, FS_Subset
<1>2. ASSUME NEW x \in E PROVE x.ids[n + 1] \in pool /\ x.ids = Append(path.ids, x.ids[n + 1])
  <2>1. PICK a \in Arrivals(path) : x.ids = Append(path.ids, a.place) /\ a.place \in pool
    BY ExtensionAdds
  <2>2. x.ids[n + 1] = a.place
    BY <2>1, AppendKeeps DEF WellFormed
  <2> QED
    BY <2>1, <2>2
<1>3. ASSUME NEW x \in E, NEW y \in E, x.ids[n + 1] = y.ids[n + 1] PROVE x = y
  <2>1. x.ids = y.ids
    BY <1>2, <1>3
  <2> QED
    BY <2>1, ExtensionIsDecided
<1> HIDE DEF E, n
<1>4. f \in Injection(E, pool)
  BY <1>2, <1>3 DEF Injection, IsInjective
<1> HIDE DEF f
<1> QED
  BY <1>1, <1>4, FS_Injection DEF E


-----------------------------------------------------------------------------
\* Chains of extensions

\* One extension after the other, from the root on.
Chain(c, n) == c[0] = Root /\ \A k \in 0 .. n - 1 : c[k + 1] \in Extensions(c[k])

Reached(path) == \E n \in Nat : \E c : Chain(c, n) /\ c[n] = path

\* What the engine knows while it schedules.
Ready == input \in Inputs /\ pool \subseteq Place /\ RankComplete /\ Budget \in Nat

OnTrack(path, n) == PathOk(path) /\ Reckoned(path) /\ Len(path.ids) = n

LEMMA ChainIsOk ==
  ASSUME Ready, NEW n \in Nat, NEW c, Chain(c, n), NEW k \in 0 .. n
  PROVE  OnTrack(c[k], k)
<1> DEFINE Bad == {m \in 0 .. n : ~ OnTrack(c[m], m)}
<1>1. SUFFICES ASSUME Bad # {} PROVE FALSE
  OBVIOUS
<1>2. Bad \in SUBSET Nat
  OBVIOUS
<1>3. PICK m \in Bad : \A l \in Bad : m <= l
  BY <1>1, <1>2, LeastExists
<1>4. m # 0
  <2>1. OnTrack(Root, 0)
    BY RootIsOk, RootIsReckoned DEF Ready, OnTrack, Root
  <2> QED
    BY <1>3, <2>1 DEF Chain
<1>5. m - 1 \in 0 .. n - 1 /\ m - 1 \in 0 .. n /\ m - 1 + 1 = m /\ m - 1 \notin Bad
  BY <1>3, <1>4
<1>6. OnTrack(c[m - 1], m - 1) /\ c[m] \in Extensions(c[m - 1])
  BY <1>5 DEF Chain
<1>7. PathOk(c[m]) /\ Reckoned(c[m])
  BY <1>6, ExtensionIsOk, ExtensionIsReckoned DEF Ready, OnTrack
<1>8. Len(c[m].ids) = m
  <2>1. c[m - 1].ids \in Seq(Place) /\ Len(c[m - 1].ids) = m - 1
    BY <1>6 DEF OnTrack, PathOk, WellFormed
  <2>2. PICK p : c[m].ids = Append(c[m - 1].ids, p)
    BY <1>6, ExtensionAdds DEF Ready, OnTrack, PathOk
  <2> QED
    BY <1>5, <2>1, <2>2, AppendKeeps
<1> QED
  BY <1>3, <1>7, <1>8 DEF OnTrack

\* Two chains to the same names end in the same path.
LEMMA ChainIsDecided ==
  ASSUME Ready, NEW n \in Nat, NEW c, NEW d, Chain(c, n), Chain(d, n), c[n].ids = d[n].ids
  PROVE  c[n] = d[n]
<1> DEFINE Bad == {m \in 0 .. n : c[m] # d[m] /\ c[m].ids = d[m].ids}
<1>1. SUFFICES ASSUME Bad # {} PROVE FALSE
  OBVIOUS
<1>2. Bad \in SUBSET Nat
  OBVIOUS
<1>3. PICK m \in Bad : \A l \in Bad : m <= l
  BY <1>1, <1>2, LeastExists
<1>4. m # 0
  BY <1>3 DEF Chain
<1>5. m - 1 \in 0 .. n - 1 /\ m - 1 \in 0 .. n /\ m - 1 + 1 = m /\ m - 1 \notin Bad
  BY <1>3, <1>4
<1>6. c[m] \in Extensions(c[m - 1]) /\ d[m] \in Extensions(d[m - 1])
  BY <1>5 DEF Chain
<1>7. WellFormed(c[m - 1]) /\ WellFormed(d[m - 1])
  BY <1>5, ChainIsOk DEF OnTrack, PathOk
<1>8. PICK p, q : c[m].ids = Append(c[m - 1].ids, p) /\ d[m].ids = Append(d[m - 1].ids, q)
  <2>1. \E p : c[m].ids = Append(c[m - 1].ids, p)
    BY <1>6, <1>7, ExtensionAdds DEF Ready
  <2>2. \E q : d[m].ids = Append(d[m - 1].ids, q)
    BY <1>6, <1>7, ExtensionAdds DEF Ready
  <2> QED
    BY <2>1, <2>2
<1>9. c[m - 1].ids = d[m - 1].ids
  <2>1. PICK s \in Seq(Place), u \in Seq(Place) : s = c[m - 1].ids /\ u = d[m - 1].ids
    BY <1>7 DEF WellFormed
  <2>2. Append(s, p) = Append(u, q)
    BY <1>3, <1>8, <2>1
  <2> QED
    BY <2>1, <2>2, AppendIsDecided
<1>10. c[m - 1] = d[m - 1]
  BY <1>5, <1>9
<1> QED
  BY <1>3, <1>6, <1>7, <1>10, ExtensionIsDecided DEF Ready

LEMMA ReachedIsOk ==
  ASSUME Ready, NEW path, Reached(path)
  PROVE  PathOk(path) /\ Reckoned(path) /\ Comparable(path)
<1>1. PICK n \in Nat : \E c : Chain(c, n) /\ c[n] = path
  BY DEF Reached
<1>2. PICK c : Chain(c, n) /\ c[n] = path
  BY <1>1
<1>3. OnTrack(path, n)
  BY <1>2, ChainIsOk
<1>4. path.ids \in Seq(Nat)
  BY <1>3, PlaceAssumption, SeqMonotonic DEF OnTrack, PathOk, WellFormed
<1>5. path.finish \in Int
  BY <1>3 DEF OnTrack, PathOk, WellFormed
<1>6. path.cost \in Int /\ path.score \in Int
  BY <1>3 DEF OnTrack, Reckoned, SumsReckoned
<1> QED
  BY <1>3, <1>4, <1>5, <1>6 DEF OnTrack, Comparable

LEMMA ReachedIsDecided ==
  ASSUME Ready, NEW x, NEW y, Reached(x), Reached(y), x.ids = y.ids
  PROVE  x = y
<1>1. PICK n \in Nat : \E c : Chain(c, n) /\ c[n] = x
  BY DEF Reached
<1>2. PICK c : Chain(c, n) /\ c[n] = x
  BY <1>1
<1>3. PICK m \in Nat : \E d : Chain(d, m) /\ d[m] = y
  BY DEF Reached
<1>4. PICK d : Chain(d, m) /\ d[m] = y
  BY <1>3
<1>5. Len(x.ids) = n /\ Len(y.ids) = m
  BY <1>2, <1>4, ChainIsOk DEF OnTrack
<1> QED
  BY <1>2, <1>4, <1>5, ChainIsDecided

LEMMA RootIsReached == Reached(Root)
<1>1. Chain([k \in {0} |-> Root], 0)
  BY DEF Chain
<1> QED
  BY <1>1 DEF Reached

LEMMA ChainGoesOn ==
  ASSUME NEW n \in Nat, NEW c, Chain(c, n), NEW next \in Extensions(c[n])
  PROVE  \E d : Chain(d, n + 1) /\ d[n + 1] = next
<1> DEFINE d == [k \in 0 .. n + 1 |-> IF k <= n THEN c[k] ELSE next]
<1>1. d[n + 1] = next /\ \A k \in 0 .. n : d[k] = c[k]
  OBVIOUS
<1> HIDE DEF d
<1>2. ASSUME NEW k \in 0 .. n PROVE d[k + 1] \in Extensions(d[k])
  <2>1. CASE k = n
    BY <1>1, <2>1
  <2>2. CASE k # n
    <3>1. k \in 0 .. n - 1 /\ k + 1 \in 0 .. n
      BY <2>2
    <3> QED
      BY <1>1, <3>1 DEF Chain
  <2> QED
    BY <2>1, <2>2
<1>3. Chain(d, n + 1)
  BY <1>1, <1>2 DEF Chain
<1> QED
  BY <1>1, <1>3

LEMMA ReachedGoesOn ==
  ASSUME NEW path, Reached(path), NEW next \in Extensions(path)
  PROVE  Reached(next)
<1>1. PICK n \in Nat : \E c : Chain(c, n) /\ c[n] = path
  BY DEF Reached
<1>2. PICK c : Chain(c, n) /\ c[n] = path
  BY <1>1
<1>3. \E d : Chain(d, n + 1) /\ d[n + 1] = next
  BY <1>2, ChainGoesOn
<1> QED
  BY <1>3 DEF Reached

LEMMA ReachedAreRanked ==
  ASSUME Ready, NEW S, IsFiniteSet(S), \A path \in S : Reached(path)
  PROVE  Ranked(S)
BY ReachedIsOk, ReachedIsDecided DEF Ranked

LEMMA ExpandedIsFinite ==
  ASSUME Ready, NEW S, IsFiniteSet(S), \A path \in S : Reached(path)
  PROVE  /\ IsFiniteSet(UNION {Extensions(path) : path \in S})
         /\ \A next \in UNION {Extensions(path) : path \in S} : Reached(next)
<1> DEFINE T == {Extensions(path) : path \in S}
           f == [path \in S |-> Extensions(path)]
<1>1. f \in Surjection(S, T)
  BY DEF Surjection
<1>2. \A t \in T : IsFiniteSet(t)
  BY ReachedIsOk, ExtensionsAreFinite DEF Ready, PathOk
<1> HIDE DEF f
<1>3. IsFiniteSet(T)
  BY <1>1, FS_Surjection
<1>4. IsFiniteSet(UNION T)
  BY <1>2, <1>3, FS_UNION
<1>5. \A next \in UNION T : Reached(next)
  BY ReachedGoesOn
<1> QED
  BY <1>4, <1>5

\* How a path goes on changes with nothing but these.
LEMMA ExtensionsStay ==
  ASSUME input' = input, pool' = pool, rank' = rank, pinned' = pinned
  PROVE  \A path : Extensions(path)' = Extensions(path)
<1>1. \A p, v, i : Dish(p, v, i)' = Dish(p, v, i)
  BY DEF Dish, Here, Quantity
<1>2. \A p, v, b : Affordable(p, v, b)' = Affordable(p, v, b)
  BY <1>1 DEF Affordable, Here, FoodMax
<1>3. \A p, e, s : OpenVendors(p, e, s)' = OpenVendors(p, e, s)
  BY <1>2, CatalogueStays, InputDecides DEF OpenVendors
<1>4. \A p, e, s : ChooseScheduledFood(p, e, s)' = ChooseScheduledFood(p, e, s)
  <2>1. ASSUME NEW p, NEW e, NEW s PROVE ChooseScheduledFood(p, e, s)' = ChooseScheduledFood(p, e, s)
    <3> DEFINE Meals(v) == {[selection |-> Dish(p, v, i), start |-> b] :
                              i \in Earliest(Affordable(p, v, Budget - s)), b \in FoodStart(p, v, e)}
               Menu == UNION {Meals(v) : v \in Earliest(OpenVendors(p, e, s))}
               Kept == {[selection |-> Foodless, start |-> b] : b \in VisitStart(p, e)}
               Served == {[selection |-> pinned[p], start |-> b] : b \in FoodStart(p, pinned[p].vendor, e)}
    <3>1. ASSUME NEW v PROVE Meals(v)' = Meals(v)
      <4>1. Affordable(p, v, Budget - s)' = Affordable(p, v, Budget - s) /\ FoodStart(p, v, e)' = FoodStart(p, v, e)
        BY <1>2, CatalogueStays, InputDecides
      <4> QED
        BY <1>1, <4>1
    <3>2. OpenVendors(p, e, s)' = OpenVendors(p, e, s)
      BY <1>3
    <3>3. Menu' = Menu
      <4> HIDE DEF Meals
      <4> QED
        BY <3>1, <3>2
    <3>4. Kept' = Kept /\ Served' = Served
      BY CatalogueStays
    <3>5. ChooseScheduledFood(p, e, s) =
            IF p \in DOMAIN pinned
            THEN IF pinned[p] = Foodless THEN Kept
                 ELSE IF VerifyFoodSelection(p, pinned[p]) /\ s + FoodMax(pinned[p]) <= Budget THEN Served ELSE {}
            ELSE Menu
      BY DEF ChooseScheduledFood
    <3>6. ChooseScheduledFood(p, e, s)' =
            IF p \in DOMAIN pinned
            THEN IF pinned[p] = Foodless THEN Kept'
                 ELSE IF VerifyFoodSelection(p, pinned[p])' /\ s + FoodMax(pinned[p]) <= Budget' THEN Served' ELSE {}
            ELSE Menu'
      BY DEF ChooseScheduledFood
    <3> HIDE DEF Menu, Kept, Served
    <3> QED
      BY <3>3, <3>4, <3>5, <3>6, CatalogueStays, InputDecides
  <2> QED
    BY <2>1
<1>5. \A a : VisitsAfter(a)' = VisitsAfter(a)
  BY <1>4, CatalogueStays, InputDecides DEF VisitsAfter
<1>6. \A path : Arrivals(path)' = Arrivals(path)
  <2>1. ASSUME NEW path PROVE Arrivals(path)' = Arrivals(path)
    <3> DEFINE Reachables == {q \in pool : CanAppend(path, q) /\ Len(path.ids) < PaceCap /\ HasEdge(path, q)}
               At(p) == [place |-> p, leg |-> Leg(path, p),
                         earliest |-> path.finish + Leg(path, p).minutes + Leg(path, p).buffer,
                         base |-> path.cost + PlaceCost(p) + Leg(path, p).cost]
    <3>1. \A q : CanAppend(path, q)' = CanAppend(path, q)
      BY InputDecides DEF CanAppend
    <3>2. Reachables' = Reachables
      BY <3>1, InputDecides
    <3>3. \A p : At(p)' = At(p)
      BY CatalogueStays
    <3>4. Arrivals(path) = {At(p) : p \in Reachables}
      BY DEF Arrivals
    <3>5. Arrivals(path)' = {At(p)' : p \in Reachables'}
      BY DEF Arrivals
    <3> HIDE DEF Reachables, At
    <3> QED
      BY <3>2, <3>3, <3>4, <3>5
  <2> QED
    BY <2>1
<1>7. \A p : ScoreCandidate(p)' = ScoreCandidate(p)
  BY CatalogueStays DEF ScoreCandidate, RankIndex
<1>8. \A path, a, visit : AppendStop(path, a, visit)' = AppendStop(path, a, visit)
  BY <1>7, CatalogueStays DEF AppendStop
<1> QED
  BY <1>5, <1>6, <1>8, InputDecides DEF Extensions

LEMMA ChainsStay ==
  ASSUME input' = input, pool' = pool, rank' = rank, pinned' = pinned
  PROVE  /\ \A c, n : Chain(c, n)' = Chain(c, n)
         /\ \A path : Reached(path)' = Reached(path)
<1>1. \A c, n : Chain(c, n)' = Chain(c, n)
  BY ExtensionsStay, InputDecides DEF Chain
<1> QED
  BY <1>1 DEF Reached


-----------------------------------------------------------------------------
\* Types

Working == {"beam", "search", "validate"}

\* Besides the types: every path is reached from the root, so that no two of a
\* beam have the same names and the cut, which counts, keeps few enough.
TypeInv ==
  /\ stage \in {"input", "done"} \cup Working
  /\ DOMAIN pinned \subseteq Place
  /\ IsFiniteSet(beam) /\ Cardinality(beam) <= BeamWidth
  /\ visited \in 0 .. StateCap
  /\ stage # "done" => visited < StateCap
  /\ repaired \in BOOLEAN
  /\ outcome.code \in Codes
  /\ \A path \in Paths : Reached(path)

LEMMA ReadyToWork ==
  ASSUME SearchInv, ReckonInv, stage \in Working
  PROVE  Ready
BY DEF SearchInv, ReckonInv, Ready, Working

LEMMA TypeInvInit == Init => TypeInv
<1> SUFFICES ASSUME Init PROVE TypeInv
  OBVIOUS
<1>1. beam = {} /\ Paths = {} /\ stage = "input" /\ visited = 0 /\ pinned = <<>>
  BY DEF Init, Paths
<1>2. IsFiniteSet({}) /\ Cardinality({}) = 0
  BY FS_EmptySet
<1>3. outcome.code \in Codes /\ repaired \in BOOLEAN
  BY DEF Init, Pending, Codes
<1> QED
  BY <1>1, <1>2, <1>3, CapAssumption DEF TypeInv

LEMMA RefusalIsCode == Refusal # "none" => Refusal \in Codes
BY DEF Refusal, BudgetError, Codes

\* Scheduling starts over with the root alone.
LEMMA ScheduleIsTyped ==
  ASSUME TypeInv, input' = input, stage' = "beam", DOMAIN pinned' \subseteq Place, beam' = {Root},
         frontier' = {}, visited' = 0, best' = {}, repaired' \in BOOLEAN, outcome' = outcome
  PROVE  TypeInv'
<1>1. Paths' = {Root} /\ Root' = Root
  BY InputDecides DEF Paths
<1>2. Reached(Root)'
  BY RootIsReached, PTL
<1>3. IsFiniteSet({Root}) /\ Cardinality({Root}) = 1
  BY FS_Singleton
<1>4. \A path \in Paths' : Reached(path)'
  BY <1>1, <1>2
<1> QED
  BY <1>3, <1>4, CapAssumption DEF TypeInv, Working

LEMMA TypeInvNext == SearchInv /\ ReckonInv /\ TypeInv /\ [Next]_vars => TypeInv'
<1> SUFFICES ASSUME SearchInv, ReckonInv, TypeInv, [Next]_vars PROVE TypeInv'
  OBVIOUS
<1>1. ASSUME input' = input, pool' = pool, rank' = rank, pinned' = pinned, repaired' = repaired,
             stage' \in {"input", "done"} \cup Working, IsFiniteSet(beam'), Cardinality(beam') <= BeamWidth,
             visited' \in 0 .. StateCap, stage' # "done" => visited' < StateCap, outcome'.code \in Codes,
             \A path \in Paths' : Reached(path)
      PROVE  TypeInv'
  BY <1>1, ChainsStay DEF TypeInv
<1>2. IsFiniteSet(beam) /\ (\A path \in Paths : Reached(path)) /\ \A path \in beam : Reached(path)
  BY DEF TypeInv, Paths
<1>3. "done" \in {"input", "done"} \cup Working /\ {"NO_FEASIBLE_ITINERARY", "ITINERARY_SEARCH_LIMIT", "ok", "INVALID_ITINERARY_RESULT"} \subseteq Codes
      /\ \A s \in Working : s \in {"input", "done"} \cup Working
  BY DEF Codes
<1>4. CASE RefuseInput \/ Accept \/ RefuseRepair \/ RefuseResult \/ SettleSearch \/ UNCHANGED vars
  <2>1. /\ input' = input /\ pool' = pool /\ rank' = rank /\ pinned' = pinned /\ repaired' = repaired
        /\ beam' = beam /\ Paths' = Paths /\ visited' = visited
    BY <1>4 DEF RefuseInput, Accept, RefuseRepair, RefuseResult, SettleSearch, Answer, vars, Paths
  <2>2. /\ stage' \in {stage, "done", "validate"} /\ (stage' # "done" => stage # "done")
        /\ outcome'.code \in Codes
    BY <1>3, <1>4, RefusalIsCode
    DEF TypeInv, RefuseInput, Accept, RefuseRepair, RefuseResult, SettleSearch, Answer, vars
  <2>3. stage' \in {"input", "done"} \cup Working /\ visited' \in 0 .. StateCap /\ (stage' # "done" => visited' < StateCap)
    BY <2>1, <2>2 DEF TypeInv, Working
  <2>4. IsFiniteSet(beam') /\ Cardinality(beam') <= BeamWidth /\ \A path \in Paths' : Reached(path)
    BY <2>1 DEF TypeInv
  <2> QED
    BY <1>1, <2>1, <2>2, <2>3, <2>4
<1>5. CASE FilterCandidates
  <2>1. /\ input' = input /\ stage' = "beam" /\ pinned' = input.selections /\ beam' = {Root}
        /\ frontier' = {} /\ visited' = 0 /\ best' = {} /\ repaired' = repaired /\ outcome' = outcome
        /\ Refusal = "none"
    BY <1>5 DEF FilterCandidates, Schedule
  <2>2. DOMAIN pinned' \subseteq Place
    BY <2>1 DEF Refusal, SelectionsAreAtFoodStops
  <2> QED
    BY <2>1, <2>2, ScheduleIsTyped DEF TypeInv
<1>6. CASE ExpandBeam
  <2>1. /\ input' = input /\ pool' = pool /\ rank' = rank /\ pinned' = pinned /\ repaired' = repaired
        /\ frontier' = frontier /\ visited' = visited /\ outcome' = outcome
        /\ stage = "beam" /\ stage' = stage
        /\ best' = BetterOf(Expanded) /\ beam' = Trim(Expanded)
    BY <1>6 DEF ExpandBeam
  <2>2. Ready
    BY <2>1, ReadyToWork DEF Working
  <2>3. IsFiniteSet(Expanded) /\ \A path \in Expanded : Reached(path)
    BY <1>2, <2>2, ExpandedIsFinite DEF Expanded
  <2>4. Ranked(Expanded)
    BY <2>2, <2>3, ReachedAreRanked
  <2>5. IsFiniteSet(beam') /\ Cardinality(beam') <= BeamWidth
    BY <2>1, <2>4, TrimIsNarrow
  <2>6. \A path \in Paths' : Reached(path)
    BY <1>2, <2>1, <2>3, BetterIsOneOf DEF Paths, Trim
  <2> QED
    BY <1>1, <2>1, <2>5, <2>6 DEF TypeInv
<1>7. CASE SettleBeam
  <2>1. /\ input' = input /\ pool' = pool /\ rank' = rank /\ pinned' = pinned /\ repaired' = repaired
        /\ frontier' = frontier /\ beam' = beam /\ visited' = visited /\ stage = "beam"
        /\ stage' \in {"validate", "done"} /\ outcome'.code \in Codes
        /\ best' = best \/ best' = BetterOf(Extensions(Root))
    BY <1>3, <1>7 DEF TypeInv, SettleBeam, Answer
  <2>2. \A path \in Paths' : Reached(path)
    BY <1>2, <2>1, RootIsReached, ReachedGoesOn, BetterIsOneOf DEF Paths
  <2> QED
    BY <1>1, <2>1, <2>2 DEF TypeInv, Working
<1>8. CASE StartSearch
  <2>1. /\ input' = input /\ pool' = pool /\ rank' = rank /\ pinned' = pinned /\ repaired' = repaired
        /\ frontier' = {Root} /\ beam' = beam /\ best' = best /\ visited' = visited /\ outcome' = outcome
        /\ stage = "beam" /\ stage' = "search"
    BY <1>8 DEF StartSearch
  <2>2. \A path \in Paths' : Reached(path)
    BY <1>2, <2>1, RootIsReached DEF Paths
  <2> QED
    BY <1>1, <2>1, <2>2 DEF TypeInv, Working
<1>9. CASE Visit
  <2>1. /\ input' = input /\ pool' = pool /\ rank' = rank /\ pinned' = pinned /\ repaired' = repaired
        /\ beam' = beam /\ stage = "search" /\ visited' = visited + 1
    BY <1>9 DEF Visit
  <2>2. PICK path \in frontier :
          IF visited + 1 >= StateCap
          THEN Answer("ITINERARY_SEARCH_LIMIT", NoPath) /\ frontier' = frontier /\ best' = best
          ELSE /\ best' = BetterOf({path}) /\ frontier' = (frontier \ {path}) \cup Extensions(path)
               /\ stage' = stage /\ outcome' = outcome
    BY <1>9 DEF Visit
  <2>3. \A p \in Paths' : Reached(p)
    BY <1>2, <2>1, <2>2, ReachedGoesOn, BetterIsOneOf DEF Paths
  <2>4. /\ visited' \in 0 .. StateCap /\ (stage' # "done" => visited' < StateCap)
        /\ outcome'.code \in Codes /\ stage' \in {"search", "done"}
    BY <1>3, <2>1, <2>2, CapAssumption DEF TypeInv, Answer
  <2> QED
    BY <1>1, <2>1, <2>3, <2>4 DEF TypeInv, Working
<1>10. CASE Repair
  <2>1. /\ input' = input /\ stage' = "beam" /\ pinned' = LockedFoodSelections /\ beam' = {Root}
        /\ frontier' = {} /\ visited' = 0 /\ best' = {} /\ repaired' = TRUE /\ outcome' = outcome
    BY <1>10 DEF Repair, Schedule
  <2>2. Locked \subseteq Place
    BY InputAssumption DEF Locked, ToSet, SearchInv
  <2>3. DOMAIN pinned' \subseteq Place
    BY <2>1, <2>2 DEF LockedFoodSelections, LockedFoodStops
  <2> QED
    BY <2>1, <2>3, ScheduleIsTyped
<1> QED
  BY <1>4, <1>5, <1>6, <1>7, <1>8, <1>9, <1>10 DEF Next

LEMMA SpecTypeInv == Spec => [](SearchInv /\ ReckonInv /\ TypeInv)
BY SearchInvInit, SearchInvNext, ReckonInvInit, ReckonInvNext, TypeInvInit, TypeInvNext, PTL DEF Spec

\* Every variable keeps its type; in particular the paths go through candidates
\* only and a beam is never wider than BEAM_WIDTH, although scheduler.ts cuts it
\* by counting preferences and not by taking the first of a list.
THEOREM TypeCorrect == Spec => []TypeOK
<1>1. SearchInv /\ ReckonInv /\ TypeInv => TypeOK
  <2> SUFFICES ASSUME SearchInv, ReckonInv, TypeInv PROVE TypeOK
    OBVIOUS
  <2>1. ASSUME NEW path \in Paths PROVE ToSet(path.ids) \subseteq pool /\ Len(path.stops) = Len(path.ids)
    <3>1. WellFormed(path) /\ Reckoned(path)
      BY DEF SearchInv, ReckonInv, PathOk
    <3>2. PICK S : path.stops \in Seq(S)
      BY <3>1 DEF WellFormed
    <3>3. Len(path.stops) = Len(path.ids) /\ DOMAIN path.stops = 1 .. Len(path.ids) /\ DOMAIN path.ids = 1 .. Len(path.ids)
      BY <3>1, <3>2 DEF WellFormed
    <3>4. \A i \in DOMAIN path.ids : path.ids[i] \in pool
      BY <3>1, <3>3 DEF WellFormed, Reckoned, StopReckoned
    <3> QED
      BY <3>3, <3>4 DEF ToSet
  <2>2. input.catalog \in DOMAIN Catalog
    BY InputAssumption DEF SearchInv
  <2> QED
    BY <2>1, <2>2 DEF SearchInv, ReckonInv, RankComplete, TypeInv, TypeOK, Working
<1> QED
  BY SpecTypeInv, <1>1, PTL


-----------------------------------------------------------------------------
\* All paths, depth by depth

\* What the reference for all paths is defined by.
Levels(D) ==
  /\ DOMAIN D = 0 .. PaceCap
  /\ D[0] = {Root}
  /\ \A n \in 1 .. PaceCap : D[n] = UNION {Extensions(path) : path \in D[n - 1]}

NeverCut(D) == \A n \in 0 .. PaceCap : Cardinality(D[n]) <= BeamWidth

LEMMA PaceIsNatural == PaceCap \in Nat
BY DEF PaceCap, GlobalStopCap

\* The reference exists: each depth extends the one before.
LEMMA ReachableIsDefined == Levels(Reachable)
<1> DEFINE Step(g, n) == IF n = 0 THEN {Root} ELSE UNION {Extensions(path) : path \in g[n - 1]}
           Deep(k, g) == g = [n \in 0 .. k |-> Step(g, n)]
           Missing    == {k \in Nat : ~ \E g : Deep(k, g)}
<1>1. \E g : Deep(0, g)
  <2> DEFINE g == [n \in 0 .. 0 |-> {Root}]
  <2>1. \A n \in 0 .. 0 : Step(g, n) = {Root}
    OBVIOUS
  <2>2. g = [n \in 0 .. 0 |-> Step(g, n)]
    BY <2>1
  <2> QED
    BY <2>2
<1>2. ASSUME NEW k \in Nat, NEW g, Deep(k, g) PROVE \E h : Deep(k + 1, h)
  <2> DEFINE h == [n \in 0 .. k + 1 |-> Step(g, n)]
  <2>1. \A n \in 0 .. k : h[n] = g[n]
    <3>1. \A n \in 0 .. k : n \in 0 .. k + 1
      OBVIOUS
    <3>2. \A n \in 0 .. k : g[n] = Step(g, n)
      <4> HIDE DEF Step
      <4> QED
        BY <1>2
    <3> HIDE DEF Step
    <3> QED
      BY <3>1, <3>2
  <2>2. \A n \in 0 .. k + 1 : Step(g, n) = Step(h, n)
    <3>1. \A n \in 0 .. k + 1 : n # 0 => n - 1 \in 0 .. k
      OBVIOUS
    <3> HIDE DEF h
    <3> QED
      BY <2>1, <3>1
  <2>3. h = [n \in 0 .. k + 1 |-> Step(h, n)]
    <3> HIDE DEF Step
    <3> QED
      BY <2>2
  <2> QED
    BY <2>3
<1> HIDE DEF Deep
<1>3. Missing = {}
  <2>1. SUFFICES ASSUME Missing # {} PROVE FALSE
    OBVIOUS
  <2>2. PICK n \in Missing : \A m \in Missing : n <= m
    BY <2>1, LeastExists
  <2>3. n # 0 /\ n \in Nat
    BY <1>1, <2>2
  <2>4. n - 1 \in Nat /\ n - 1 \notin Missing /\ n - 1 + 1 = n
    BY <2>2, <2>3
  <2>5. \E g : Deep(n - 1, g)
    BY <2>4
  <2>6. \E h : Deep(n, h)
    BY <1>2, <2>4, <2>5
  <2> QED
    BY <2>2, <2>6
<1>4. \E g : Deep(PaceCap, g)
  BY <1>3, PaceIsNatural
<1>5. PICK deep : deep = CHOOSE g : Deep(PaceCap, g)
  OBVIOUS
<1>6. Deep(PaceCap, deep)
  BY <1>4, <1>5
<1>7. Reachable = [n \in 0 .. PaceCap |-> deep[n]]
  BY <1>5 DEF Reachable, Deep
<1>8. deep = [n \in 0 .. PaceCap |-> Step(deep, n)]
  BY <1>6 DEF Deep
<1>9. Reachable = deep
  <2> HIDE DEF Step
  <2> QED
    BY <1>7, <1>8
<1>10. DOMAIN deep = 0 .. PaceCap /\ \A n \in 0 .. PaceCap : deep[n] = Step(deep, n)
  <2> HIDE DEF Step
  <2> QED
    BY <1>8
<1>11. deep[0] = {Root} /\ \A n \in 1 .. PaceCap : deep[n] = UNION {Extensions(path) : path \in deep[n - 1]}
  <2>1. 0 \in 0 .. PaceCap /\ \A n \in 1 .. PaceCap : n \in 0 .. PaceCap /\ n # 0
    BY PaceIsNatural
  <2> QED
    BY <1>10, <2>1
<1> QED
  BY <1>9, <1>10, <1>11 DEF Levels

\* The depths hold the ends of chains ...
LEMMA LevelIsReached ==
  ASSUME NEW D, Levels(D), NEW n \in 0 .. PaceCap, NEW path \in D[n]
  PROVE  \E c : Chain(c, n) /\ c[n] = path
<1> DEFINE Bad == {m \in 0 .. PaceCap : \E p \in D[m] : ~ \E c : Chain(c, m) /\ c[m] = p}
<1>1. SUFFICES ASSUME Bad # {} PROVE FALSE
  OBVIOUS
<1>2. Bad \in SUBSET Nat
  BY PaceIsNatural
<1>3. PICK m \in Bad : \A l \in Bad : m <= l
  BY <1>1, <1>2, LeastExists
<1>4. PICK p \in D[m] : ~ \E c : Chain(c, m) /\ c[m] = p
  BY <1>3
<1>5. m # 0
  <2>1. SUFFICES ASSUME m = 0 PROVE FALSE
    OBVIOUS
  <2>2. p = Root
    BY <1>4, <2>1 DEF Levels
  <2> DEFINE c == [k \in {0} |-> Root]
  <2>3. Chain(c, 0) /\ c[0] = Root
    BY DEF Chain
  <2> QED
    BY <1>4, <2>1, <2>2, <2>3
<1>6. m \in 1 .. PaceCap /\ m - 1 \in 0 .. PaceCap /\ m - 1 \in Nat /\ m - 1 + 1 = m /\ m - 1 \notin Bad
  BY <1>3, <1>5, PaceIsNatural
<1>7. PICK q \in D[m - 1] : p \in Extensions(q)
  BY <1>4, <1>6 DEF Levels
<1>8. PICK c : Chain(c, m - 1) /\ c[m - 1] = q
  BY <1>6, <1>7
<1>9. \E d : Chain(d, m - 1 + 1) /\ d[m - 1 + 1] = p
  BY <1>6, <1>7, <1>8, ChainGoesOn
<1> QED
  BY <1>4, <1>6, <1>9

\* ... and all of them, for a chain is never longer than the pace allows.
LEMMA ReachedIsInLevel ==
  ASSUME Ready, NEW D, Levels(D), NEW n \in Nat, NEW c, Chain(c, n)
  PROVE  n <= PaceCap /\ \A k \in 0 .. n : c[k] \in D[k]
<1>1. n <= PaceCap
  <2>1. OnTrack(c[n], n)
    BY ChainIsOk
  <2> QED
    BY <2>1 DEF OnTrack, PathOk, Ordered
<1> DEFINE Bad == {k \in 0 .. n : c[k] \notin D[k]}
<1>2. Bad = {}
  <2>1. SUFFICES ASSUME Bad # {} PROVE FALSE
    OBVIOUS
  <2>2. Bad \in SUBSET Nat
    OBVIOUS
  <2>3. PICK m \in Bad : \A l \in Bad : m <= l
    BY <2>1, <2>2, LeastExists
  <2>4. m # 0
    BY <2>3 DEF Chain, Levels
  <2>5. m \in 1 .. PaceCap /\ m - 1 \in 0 .. n - 1 /\ m - 1 \in 0 .. n /\ m - 1 + 1 = m /\ m - 1 \notin Bad
    BY <1>1, <2>3, <2>4, PaceIsNatural
  <2>6. c[m - 1] \in D[m - 1] /\ c[m] \in Extensions(c[m - 1])
    BY <2>5 DEF Chain
  <2>7. c[m] \in D[m]
    BY <2>5, <2>6 DEF Levels
  <2> QED
    BY <2>3, <2>7
<1> QED
  BY <1>1, <1>2

LEMMA LevelsStay ==
  ASSUME input' = input, pool' = pool, rank' = rank, pinned' = pinned
  PROVE  \A D : Levels(D)' = Levels(D) /\ NeverCut(D)' = NeverCut(D)
BY ExtensionsStay, InputDecides DEF Levels, NeverCut

-----------------------------------------------------------------------------
\* The best so far

Beats(S, path) == S # {} /\ \A b \in S : b = path \/ Preferred(b, path)

LEMMA RootIsNotValid == input \in Inputs => ~ PathIsValid(Root)
<1> SUFFICES ASSUME input \in Inputs, PathIsValid(Root) PROVE FALSE
  OBVIOUS
<1>1. Root.ids = <<>> /\ ToSet(<<>>) = {}
  BY DEF Root, ToSet
<1>2. input.locked # <<>> /\ Locked = {}
  BY <1>1 DEF PathIsValid
<1>3. input.locked \in Seq(Place)
  BY InputAssumption
<1>4. 1 \in DOMAIN input.locked
  BY <1>2, <1>3
<1> QED
  BY <1>2, <1>4 DEF Locked, ToSet

\* What is compared with the best is beaten from then on, and nothing beaten comes back.
LEMMA BetterBeats ==
  ASSUME Ready, NEW S, IsFiniteSet(S), IsFiniteSet(best), \A path \in S \cup best : Reached(path)
  PROVE  /\ IsFiniteSet(BetterOf(S))
         /\ \A path \in S : PathIsValid(path) => Beats(BetterOf(S), path)
         /\ \A path : Reached(path) /\ Beats(best, path) => Beats(BetterOf(S), path)
<1> DEFINE T == {path \in S : PathIsValid(path)} \cup best
<1>1. IsFiniteSet(T) /\ \A path \in T : Reached(path)
  <2>1. {path \in S : PathIsValid(path)} \in SUBSET S
    OBVIOUS
  <2> QED
    BY <2>1, FS_Subset, FS_Union
<1>2. Ranked(T)
  BY <1>1, ReachedAreRanked
<1>3. BetterOf(S) = BestOf(T)
  BY DEF BetterOf
<1>4. (\A path \in S : PathIsValid(path) => path \in T) /\ best \subseteq T
  OBVIOUS
<1> HIDE DEF T
<1>5. IsFiniteSet(BetterOf(S))
  <2>1. BestOf(T) \in SUBSET T
    BY DEF BestOf
  <2> QED
    BY <1>1, <1>3, <2>1, FS_Subset
<1>6. ASSUME NEW path \in T PROVE Beats(BetterOf(S), path)
  <2>1. PICK a \in T : BestOf(T) = {a} /\ \A b \in T \ {a} : Preferred(a, b)
    BY <1>2, BestExists
  <2> QED
    BY <1>3, <2>1 DEF Beats
<1>7. ASSUME NEW path, Reached(path), Beats(best, path) PROVE Beats(BetterOf(S), path)
  <2>1. PICK b \in best : b = path \/ Preferred(b, path)
    BY <1>7 DEF Beats
  <2>2. b \in T /\ Beats(BetterOf(S), b)
    BY <1>4, <1>6
  <2>3. ASSUME NEW a \in BetterOf(S) PROVE a = path \/ Preferred(a, path)
    <3>1. a \in T /\ (a = b \/ Preferred(a, b))
      BY <1>3, <2>2 DEF BestOf, Beats
    <3>2. Comparable(a) /\ Comparable(b) /\ Comparable(path)
      BY <1>1, <1>7, <2>2, <3>1, ReachedIsOk
    <3> QED
      BY <2>1, <3>1, <3>2, PreferenceIsOrder
  <2> QED
    BY <2>2, <2>3 DEF Beats
<1> QED
  BY <1>4, <1>5, <1>6, <1>7

\* A beam no wider than its width is not cut.
LEMMA NothingIsCut ==
  ASSUME NEW S, Ranked(S), Cardinality(S) <= BeamWidth
  PROVE  Trim(S) = S
<1>1. ASSUME NEW a \in S PROVE Cardinality({b \in S : Preferred(b, a)}) < BeamWidth
  <2>1. PICK U : U = {b \in S : Preferred(b, a)}
    OBVIOUS
  <2>2. U \in SUBSET S /\ a \notin U
    BY <2>1, PreferenceIsOrder DEF Ranked
  <2>3. IsFiniteSet(S)
    BY DEF Ranked
  <2>4. Cardinality(U) <= Cardinality(S) /\ Cardinality(U) # Cardinality(S) /\ IsFiniteSet(U)
    BY <2>2, <2>3, FS_Subset
  <2>5. Cardinality(U) \in Nat /\ Cardinality(S) \in Nat /\ BeamWidth \in Nat
    BY <2>3, <2>4, FS_CardinalityType, CapAssumption
  <2> QED
    BY <2>1, <2>4, <2>5
<1> QED
  BY <1>1 DEF Trim


-----------------------------------------------------------------------------
\* A search that is not cut short finds the best

\* The beam holds all paths of its depth, and the best beats all shorter ones.
BeamIsComplete(D) ==
  \E n \in 0 .. PaceCap :
    /\ beam = D[n]
    /\ \A m \in 0 .. n : \A path \in D[m] : PathIsValid(path) => Beats(best, path)

\* Every path is beaten, or one that leads to it is still to be visited.
SearchIsComplete ==
  \A n \in Nat : \A c :
    Chain(c, n) /\ PathIsValid(c[n]) => Beats(best, c[n]) \/ \E k \in 0 .. n : c[k] \in frontier

BeatsAll(S) == \A path : Reached(path) /\ PathIsValid(path) => Beats(S, path)

CompleteInv ==
  /\ IsFiniteSet(best)
  /\ stage = "beam" => visited = 0 /\ \A D : Levels(D) /\ NeverCut(D) => BeamIsComplete(D)
  /\ stage = "search" => SearchIsComplete
  /\ stage = "validate" => \A D : Levels(D) /\ (visited > 0 \/ NeverCut(D)) => BeatsAll(best)
  /\ outcome.code = "ok" => \A D : Levels(D) /\ (visited > 0 \/ NeverCut(D)) => BeatsAll({outcome.path})

LEMMA CompleteInvInit == Init => CompleteInv
<1> SUFFICES ASSUME Init PROVE CompleteInv
  OBVIOUS
<1>1. best = {} /\ stage = "input" /\ outcome.code # "ok" /\ IsFiniteSet({})
  BY FS_EmptySet DEF Init, Pending
<1> QED
  BY <1>1 DEF CompleteInv

\* At first the root is the only path of its depth, and no itinerary.
LEMMA ScheduleIsComplete ==
  ASSUME input \in Inputs, input' = input, stage' = "beam", beam' = {Root}, best' = {}, visited' = 0,
         outcome'.code # "ok"
  PROVE  CompleteInv'
<1>1. ASSUME NEW D, Levels(D)' PROVE BeamIsComplete(D)'
  <2>1. D[0] = {Root} /\ Root' = Root
    BY <1>1, InputDecides DEF Levels
  <2>2. 0 \in 0 .. PaceCap' /\ \A m \in 0 .. 0 : m = 0
    BY PaceIsNatural, InputDecides
  <2>3. ~ PathIsValid(Root)'
    BY RootIsNotValid, InputDecides
  <2> QED
    BY <2>1, <2>2, <2>3 DEF BeamIsComplete
<1>2. IsFiniteSet({})
  BY FS_EmptySet
<1> QED
  BY <1>1, <1>2 DEF CompleteInv

LEMMA BeamGoesOn ==
  ASSUME Ready, NEW D, Levels(D), NeverCut(D), BeamIsComplete(D), IsFiniteSet(beam), IsFiniteSet(best),
         \A path \in beam \cup best : Reached(path), Expanded # {}
  PROVE  \E n \in 0 .. PaceCap :
           /\ Trim(Expanded) = D[n]
           /\ \A m \in 0 .. n : \A path \in D[m] : PathIsValid(path) => Beats(BetterOf(Expanded), path)
<1>1. PICK n \in 0 .. PaceCap :
        beam = D[n] /\ \A m \in 0 .. n : \A path \in D[m] : PathIsValid(path) => Beats(best, path)
  BY DEF BeamIsComplete
<1>2. PICK path \in beam : Extensions(path) # {}
  BY DEF Expanded
<1>3. PICK c : Chain(c, n) /\ c[n] = path
  BY <1>1, <1>2, LevelIsReached
<1>4. n < PaceCap /\ n \in Nat
  <2>1. OnTrack(path, n)
    BY <1>3, ChainIsOk
  <2> QED
    BY <1>2, <2>1, ExtensionAdds, PaceIsNatural DEF Ready, OnTrack, PathOk
<1>5. n + 1 \in 1 .. PaceCap /\ n + 1 \in 0 .. PaceCap /\ n + 1 - 1 = n
  BY <1>4, PaceIsNatural
<1>6. Expanded = D[n + 1]
  BY <1>1, <1>5 DEF Expanded, Levels
<1>7. IsFiniteSet(Expanded) /\ \A p \in Expanded : Reached(p)
  BY ExpandedIsFinite DEF Expanded
<1>8. Trim(Expanded) = Expanded
  BY <1>5, <1>6, <1>7, ReachedAreRanked, NothingIsCut DEF NeverCut
<1>9. /\ \A p \in Expanded : PathIsValid(p) => Beats(BetterOf(Expanded), p)
      /\ \A p : Reached(p) /\ Beats(best, p) => Beats(BetterOf(Expanded), p)
  BY <1>7, BetterBeats
<1>10. ASSUME NEW m \in 0 .. n + 1, NEW p \in D[m], PathIsValid(p) PROVE Beats(BetterOf(Expanded), p)
  <2>1. CASE m = n + 1
    BY <1>6, <1>9, <1>10, <2>1
  <2>2. CASE m # n + 1
    <3>1. m \in 0 .. n /\ m \in 0 .. PaceCap /\ m \in Nat
      BY <1>4, <2>2, PaceIsNatural
    <3>2. Beats(best, p)
      BY <1>1, <1>10, <3>1
    <3>3. Reached(p)
      BY <3>1, LevelIsReached DEF Reached
    <3> QED
      BY <1>9, <3>2, <3>3
  <2> QED
    BY <2>1, <2>2
<1> QED
  BY <1>5, <1>6, <1>8, <1>10

\* A beam that cannot go on and was never cut has met every path.
LEMMA BeamIsDone ==
  ASSUME Ready, NEW D, Levels(D), BeamIsComplete(D), Expanded = {}
  PROVE  BeatsAll(best)
<1>1. PICK n \in 0 .. PaceCap :
        beam = D[n] /\ \A m \in 0 .. n : \A path \in D[m] : PathIsValid(path) => Beats(best, path)
  BY DEF BeamIsComplete
<1>2. ASSUME NEW path, Reached(path), PathIsValid(path) PROVE Beats(best, path)
  <2>1. PICK l \in Nat : \E c : Chain(c, l) /\ c[l] = path
    BY <1>2 DEF Reached
  <2>2. PICK c : Chain(c, l) /\ c[l] = path
    BY <2>1
  <2>3. \A k \in 0 .. l : c[k] \in D[k]
    BY <2>2, ReachedIsInLevel
  <2>4. CASE l <= n
    <3>1. l \in 0 .. n /\ l \in 0 .. l
      BY <2>4
    <3> QED
      BY <1>1, <1>2, <2>2, <2>3, <3>1
  <2>5. CASE ~ (l <= n)
    <3>1. n \in 0 .. l - 1 /\ n \in 0 .. l
      BY <2>5, PaceIsNatural
    <3>2. c[n] \in beam /\ c[n + 1] \in Extensions(c[n])
      BY <1>1, <2>2, <2>3, <3>1 DEF Chain
    <3> QED
      BY <3>2 DEF Expanded
  <2> QED
    BY <2>4, <2>5
<1> QED
  BY <1>2 DEF BeatsAll

\* Visiting a path leaves those that go on from it to be visited.
LEMMA SearchGoesOnCompletely ==
  ASSUME Ready, SearchIsComplete, IsFiniteSet(best), \A path \in frontier \cup best : Reached(path),
         NEW path \in frontier
  PROVE  \A n \in Nat : \A c :
           Chain(c, n) /\ PathIsValid(c[n]) =>
             \/ Beats(BetterOf({path}), c[n])
             \/ \E k \in 0 .. n : c[k] \in (frontier \ {path}) \cup Extensions(path)
<1>1. IsFiniteSet({path}) /\ \A p \in {path} \cup best : Reached(p)
  BY FS_Singleton
<1>2. /\ \A p \in {path} : PathIsValid(p) => Beats(BetterOf({path}), p)
      /\ \A p : Reached(p) /\ Beats(best, p) => Beats(BetterOf({path}), p)
  BY <1>1, BetterBeats
<1>3. ASSUME NEW n \in Nat, NEW c, Chain(c, n), PathIsValid(c[n]), ~ Beats(BetterOf({path}), c[n])
      PROVE  \E k \in 0 .. n : c[k] \in (frontier \ {path}) \cup Extensions(path)
  <2>1. Reached(c[n])
    BY <1>3 DEF Reached
  <2>2. PICK k \in 0 .. n : c[k] \in frontier
    BY <1>2, <1>3, <2>1 DEF SearchIsComplete
  <2>3. CASE c[k] # path
    BY <2>2, <2>3
  <2>4. CASE c[k] = path
    <3>1. k # n
      BY <1>2, <1>3, <2>4
    <3>2. k \in 0 .. n - 1 /\ k + 1 \in 0 .. n
      BY <3>1
    <3>3. c[k + 1] \in Extensions(path)
      BY <1>3, <2>4, <3>2 DEF Chain
    <3> QED
      BY <3>2, <3>3
  <2> QED
    BY <2>3, <2>4
<1> QED
  BY <1>3

LEMMA BeatingStays ==
  ASSUME input' = input, pool' = pool, rank' = rank, pinned' = pinned
  PROVE  \A S : BeatsAll(S)' = BeatsAll(S)
BY ChainsStay, InputDecides DEF BeatsAll, Beats

LEMMA CompleteInvNext == SearchInv /\ ReckonInv /\ TypeInv /\ AnswerInv /\ CompleteInv /\ [Next]_vars => CompleteInv'
<1> SUFFICES ASSUME SearchInv, ReckonInv, TypeInv, AnswerInv, CompleteInv, [Next]_vars PROVE CompleteInv'
  OBVIOUS
<1>1. /\ IsFiniteSet(beam) /\ IsFiniteSet(best) /\ input \in Inputs
      /\ \A path \in beam \cup frontier \cup best : Reached(path)
      /\ outcome.code = "ok" => stage = "done"
  BY DEF TypeInv, Paths, CompleteInv, SearchInv, AnswerInv
<1>2. CASE RefuseInput
  <2>1. best' = best /\ stage' = "done" /\ outcome'.code = Refusal
    BY <1>2 DEF RefuseInput, Answer
  <2>2. Refusal # "ok"
    BY DEF Refusal, BudgetError
  <2> QED
    BY <1>1, <2>1, <2>2 DEF CompleteInv
<1>3. CASE FilterCandidates
  <2>1. /\ input' = input /\ stage' = "beam" /\ beam' = {Root} /\ best' = {} /\ visited' = 0
        /\ outcome' = outcome /\ stage = "input"
    BY <1>3 DEF FilterCandidates, Schedule
  <2> QED
    BY <1>1, <2>1, ScheduleIsComplete
<1>4. CASE Repair
  <2>1. /\ input' = input /\ stage' = "beam" /\ beam' = {Root} /\ best' = {} /\ visited' = 0
        /\ outcome' = outcome /\ stage = "validate"
    BY <1>4 DEF Repair, Schedule
  <2> QED
    BY <1>1, <2>1, ScheduleIsComplete
<1>5. CASE ExpandBeam
  <2>1. /\ input' = input /\ pool' = pool /\ rank' = rank /\ pinned' = pinned /\ visited' = visited
        /\ outcome' = outcome /\ stage = "beam" /\ stage' = stage /\ Expanded # {}
        /\ best' = BetterOf(Expanded) /\ beam' = Trim(Expanded)
    BY <1>5 DEF ExpandBeam
  <2>2. Ready /\ outcome.code # "ok"
    BY <1>1, <2>1, ReadyToWork DEF Working
  <2>3. IsFiniteSet(best')
    BY <1>1, <2>1, <2>2, ExpandedIsFinite, BetterBeats DEF Expanded
  <2>4. ASSUME NEW D, Levels(D)', NeverCut(D)' PROVE BeamIsComplete(D)'
    <3>1. Levels(D) /\ NeverCut(D)
      BY <2>1, <2>4, LevelsStay
    <3>2. BeamIsComplete(D)
      BY <2>1, <3>1 DEF CompleteInv
    <3>3. \E n \in 0 .. PaceCap :
            /\ beam' = D[n]
            /\ \A m \in 0 .. n : \A path \in D[m] : PathIsValid(path) => Beats(best', path)
      BY <1>1, <2>1, <2>2, <3>1, <3>2, BeamGoesOn
    <3> QED
      BY <2>1, <3>3, InputDecides DEF BeamIsComplete, Beats
  <2> QED
    BY <2>1, <2>2, <2>3, <2>4 DEF CompleteInv
<1>6. CASE SettleBeam
  <2>1. /\ input' = input /\ pool' = pool /\ rank' = rank /\ pinned' = pinned /\ visited' = visited
        /\ stage = "beam" /\ stage' \in {"validate", "done"} /\ outcome'.code # "ok" /\ Expanded = {}
        /\ best' = IF best # {} THEN best ELSE BetterOf(Extensions(Root))
    BY <1>1, <1>6 DEF SettleBeam, Answer
  <2>2. Ready
    BY <2>1, ReadyToWork DEF Working
  <2>3. IsFiniteSet(best')
    <3>1. IsFiniteSet(Extensions(Root)) /\ \A path \in Extensions(Root) : Reached(path)
      BY <2>2, RootIsReached, ReachedGoesOn, ReachedIsOk, ExtensionsAreFinite DEF Ready, PathOk
    <3>2. IsFiniteSet(BetterOf(Extensions(Root)))
      BY <1>1, <2>2, <3>1, BetterBeats
    <3> QED
      BY <1>1, <2>1, <3>2
  <2>4. ASSUME NEW D, Levels(D)', (visited > 0)' \/ NeverCut(D)' PROVE BeatsAll(best')
    <3>1. Levels(D) /\ NeverCut(D)
      BY <2>1, <2>4, LevelsStay DEF CompleteInv
    <3>2. BeatsAll(best)
      BY <2>1, <2>2, <3>1, BeamIsDone DEF CompleteInv
    <3>3. CASE best # {}
      BY <2>1, <3>2, <3>3
    <3>4. CASE best = {}
      BY <3>2, <3>4 DEF BeatsAll, Beats
    <3> QED
      BY <3>3, <3>4
  <2>5. ASSUME NEW D, Levels(D)', (visited > 0)' \/ NeverCut(D)' PROVE BeatsAll(best)'
    <3>1. PICK S : S = best'
      OBVIOUS
    <3>2. BeatsAll(S)'
      BY <2>1, <2>4, <2>5, <3>1, BeatingStays
    <3> QED
      BY <3>1, <3>2 DEF BeatsAll
  <2> QED
    BY <2>1, <2>3, <2>5 DEF CompleteInv
<1>7. CASE StartSearch
  <2>1. /\ input' = input /\ frontier' = {Root} /\ best' = best /\ stage' = "search"
        /\ outcome' = outcome /\ stage = "beam"
    BY <1>7 DEF StartSearch
  <2>2. SearchIsComplete'
    <3>1. ASSUME NEW n \in Nat, NEW c, Chain(c, n)' PROVE \E k \in 0 .. n : c[k] \in frontier'
      BY <2>1, <3>1, InputDecides DEF Chain
    <3> QED
      BY <3>1 DEF SearchIsComplete
  <2> QED
    BY <1>1, <2>1, <2>2 DEF CompleteInv
<1>8. CASE Visit
  <2>1. /\ input' = input /\ pool' = pool /\ rank' = rank /\ pinned' = pinned /\ stage = "search"
    BY <1>8 DEF Visit
  <2>2. PICK path \in frontier :
          IF visited + 1 >= StateCap
          THEN Answer("ITINERARY_SEARCH_LIMIT", NoPath) /\ frontier' = frontier /\ best' = best
          ELSE /\ best' = BetterOf({path}) /\ frontier' = (frontier \ {path}) \cup Extensions(path)
               /\ stage' = stage /\ outcome' = outcome
    BY <1>8 DEF Visit
  <2>3. CASE visited + 1 >= StateCap
    <3>1. stage' = "done" /\ outcome'.code # "ok" /\ best' = best
      BY <2>2, <2>3 DEF Answer
    <3> QED
      BY <1>1, <3>1 DEF CompleteInv
  <2>4. CASE ~ (visited + 1 >= StateCap)
    <3>1. /\ best' = BetterOf({path}) /\ frontier' = (frontier \ {path}) \cup Extensions(path)
          /\ stage' = "search" /\ outcome'.code # "ok"
      BY <1>1, <2>1, <2>2, <2>4
    <3>2. Ready
      BY <2>1, ReadyToWork DEF Working
    <3>3. IsFiniteSet(best')
      <4>1. IsFiniteSet({path}) /\ \A p \in {path} \cup best : Reached(p)
        BY <1>1, FS_Singleton
      <4> QED
        BY <1>1, <3>1, <3>2, <4>1, BetterBeats
    <3>4. SearchIsComplete
      BY <2>1 DEF CompleteInv
    <3>5. \A n \in Nat : \A c :
            Chain(c, n) /\ PathIsValid(c[n]) => Beats(best', c[n]) \/ \E k \in 0 .. n : c[k] \in frontier'
      BY <1>1, <3>1, <3>2, <3>4, SearchGoesOnCompletely
    <3>6. SearchIsComplete'
      BY <2>1, <3>5, ChainsStay, InputDecides DEF SearchIsComplete, Beats
    <3> QED
      BY <3>1, <3>3, <3>6 DEF CompleteInv
  <2> QED
    BY <2>3, <2>4
<1>9. CASE SettleSearch
  <2>1. /\ input' = input /\ pool' = pool /\ rank' = rank /\ pinned' = pinned /\ best' = best
        /\ stage = "search" /\ stage' \in {"validate", "done"} /\ outcome'.code # "ok" /\ frontier = {}
    BY <1>1, <1>9 DEF SettleSearch, Answer
  <2>2. BeatsAll(best)
    BY <2>1 DEF CompleteInv, SearchIsComplete, BeatsAll, Reached
  <2>3. BeatsAll(best)'
    <3>1. PICK S : S = best
      OBVIOUS
    <3>2. BeatsAll(S)'
      BY <2>1, <2>2, <3>1, BeatingStays
    <3> QED
      BY <2>1, <3>1, <3>2 DEF BeatsAll
  <2> QED
    BY <1>1, <2>1, <2>3 DEF CompleteInv
<1>10. CASE Accept
  <2>1. /\ input' = input /\ pool' = pool /\ rank' = rank /\ pinned' = pinned /\ best' = best
        /\ visited' = visited /\ stage = "validate" /\ stage' = "done"
    BY <1>10 DEF Accept, Answer
  <2>2. PICK path \in best : outcome'.path = path
    BY <1>10 DEF Accept, Answer
  <2>3. ASSUME NEW D, Levels(D)', (visited > 0)' \/ NeverCut(D)' PROVE BeatsAll({outcome.path})'
    <3>1. Levels(D) /\ (visited > 0 \/ NeverCut(D))
      BY <2>1, <2>3, LevelsStay
    <3>2. BeatsAll(best)
      BY <2>1, <3>1 DEF CompleteInv
    <3>3. BeatsAll({path})
      BY <2>2, <3>2 DEF BeatsAll, Beats
    <3>4. PICK S : S = {path}
      OBVIOUS
    <3>5. BeatsAll(S)'
      BY <2>1, <3>3, <3>4, BeatingStays
    <3> QED
      BY <2>2, <3>4, <3>5
  <2> QED
    BY <1>1, <2>1, <2>3 DEF CompleteInv
<1>11. CASE RefuseRepair \/ RefuseResult
  <2>1. best' = best /\ stage' = "done" /\ outcome'.code # "ok"
    BY <1>11 DEF RefuseRepair, RefuseResult, Answer
  <2> QED
    BY <1>1, <2>1 DEF CompleteInv
<1>12. CASE UNCHANGED vars
  <2>1. /\ input' = input /\ pool' = pool /\ rank' = rank /\ pinned' = pinned /\ best' = best
        /\ beam' = beam /\ frontier' = frontier /\ visited' = visited /\ stage' = stage /\ outcome' = outcome
    BY <1>12 DEF vars
  <2>2. \A D : Levels(D)' = Levels(D) /\ NeverCut(D)' = NeverCut(D) /\ BeamIsComplete(D)' = BeamIsComplete(D)
    BY <2>1, LevelsStay, InputDecides DEF BeamIsComplete, Beats
  <2>3. SearchIsComplete' = SearchIsComplete
    BY <2>1, ChainsStay, InputDecides DEF SearchIsComplete, Beats
  <2>4. BeatsAll(best)' = BeatsAll(best) /\ BeatsAll({outcome.path})' = BeatsAll({outcome.path})
    <3>1. PICK S, T : S = best /\ T = {outcome.path}
      OBVIOUS
    <3>2. BeatsAll(S)' = BeatsAll(S) /\ BeatsAll(T)' = BeatsAll(T)
      BY <2>1, BeatingStays
    <3> QED
      BY <2>1, <3>1, <3>2
  <2> QED
    BY <2>1, <2>2, <2>3, <2>4 DEF CompleteInv
<1> QED
  BY <1>2, <1>3, <1>4, <1>5, <1>6, <1>7, <1>8, <1>9, <1>10, <1>11, <1>12 DEF Next

\* The engine returns the best of all itineraries whenever its beam cut nothing
\* or its depth-first search came to an end: scheduler.ts, comparePaths.
THEOREM CompleteSearchesFindTheBest == Spec => []BestWhenComplete
<1>1. CompleteInv => BestWhenComplete
  <2> SUFFICES ASSUME CompleteInv, outcome.code = "ok", visited > 0 \/ NeverCut(Reachable),
                      NEW n \in DOMAIN Reachable, NEW path \in Reachable[n],
                      PathIsValid(path), path # outcome.path
               PROVE  Preferred(outcome.path, path)
    <3>1. DOMAIN Reachable = 0 .. PaceCap
      BY ReachableIsDefined DEF Levels
    <3> QED
      BY <3>1 DEF BestWhenComplete, NeverCut
  <2>1. Levels(Reachable) /\ DOMAIN Reachable = 0 .. PaceCap
    BY ReachableIsDefined DEF Levels
  <2>2. BeatsAll({outcome.path})
    BY <2>1 DEF CompleteInv
  <2>3. Reached(path)
    BY <2>1, LevelIsReached, PaceIsNatural DEF Reached
  <2> QED
    BY <2>2, <2>3 DEF BeatsAll, Beats
<1> QED
  BY <1>1, SpecTypeInv, SpecAnswerInv, CompleteInvInit, CompleteInvNext, PTL DEF Spec

-----------------------------------------------------------------------------
\* A visit that the hours allow is found

NightsGoOn(venue) == \A day \in Int : NightGoesOn(venue, day)

\* What hasOverlappingWeeklyWindows of contracts.ts leaves: one window of a day
\* ends after midnight at most, and the next day's begin when it has ended.
WeekIsApart(venue) ==
  \A i, j \in DOMAIN venue.hours :
    LET w == venue.hours[i]
        v == venue.hours[j]
    IN i # j /\ CarriesOver(w) =>
         /\ v.weekday = w.weekday => ~ CarriesOver(v)
         /\ v.weekday = (w.weekday + 1) % 7 => v.open >= w.close

\* No exception lasts past midnight.
ExceptionsEndByMidnight(venue) ==
  \A e \in venue.exceptions : \A i \in DOMAIN e.windows : ~ CarriesOver(e.windows[i])

\* The schemas leave it open only for the night of an exception.
LEMMA WeeksGoOn ==
  ASSUME NEW venue, IsVenue(venue), ExceptionsEndByMidnight(venue), WeekIsApart(venue)
  PROVE  NightsGoOn(venue)
<1>1. ASSUME NEW d \in Int, NEW w \in WindowsOn(venue, d), CarriesOver(w)
      PROVE  ExceptionsOn(venue, d) = {}
  <2>1. SUFFICES ASSUME ExceptionsOn(venue, d) # {}
                 PROVE  FALSE
    OBVIOUS
  <2>2. PICK e \in ExceptionsOn(venue, d) :
          \E i \in DOMAIN e.windows : w.open = e.windows[i].open /\ w.close = e.windows[i].close
    BY <1>1, <2>1 DEF WindowsOn
  <2>3. PICK i \in DOMAIN e.windows : w.open = e.windows[i].open /\ w.close = e.windows[i].close
    BY <2>2
  <2>4. e \in venue.exceptions
    BY <2>2 DEF ExceptionsOn
  <2> QED
    BY <1>1, <2>3, <2>4 DEF ExceptionsEndByMidnight, CarriesOver
<1>2. ASSUME NEW d \in Int, NEW w \in WindowsOn(venue, d), ExceptionsOn(venue, d) = {}
      PROVE  \E i \in DOMAIN venue.hours :
               /\ venue.hours[i].weekday = Weekday(d)
               /\ w.open = venue.hours[i].open /\ w.close = venue.hours[i].close
  BY <1>2 DEF WindowsOn
<1> SUFFICES ASSUME NEW day \in Int, NEW w \in WindowsOn(venue, day), CarriesOver(w),
                    ExceptionsOn(venue, day + 1) = {},
                    NEW other \in OpeningIntervals(venue, day + 1),
                    other.from = CarryOver(day + 1, w).from
             PROVE  other.to >= CarryOver(day + 1, w).to
  BY DEF NightsGoOn, NightGoesOn, FirstOfDay
<1> day + 1 \in Int
  OBVIOUS
<1>7. ExceptionsOn(venue, day) = {}
  BY <1>1
<1>3. PICK i \in DOMAIN venue.hours :
        /\ venue.hours[i].weekday = Weekday(day)
        /\ w.open = venue.hours[i].open /\ w.close = venue.hours[i].close
  BY <1>2, <1>7
<1>4. w.close \in 0 .. 1439 /\ w.close # 0 /\ CarriesOver(venue.hours[i])
  BY <1>3, WindowsAreTimed DEF CarriesOver
<1>5. CASE \E v \in WindowsOn(venue, day + 1) : other = Fragment(day + 1, v)
  <2>1. PICK v \in WindowsOn(venue, day + 1) : other = Fragment(day + 1, v)
    BY <1>5
  <2>2. PICK j \in DOMAIN venue.hours :
          /\ venue.hours[j].weekday = Weekday(day + 1)
          /\ v.open = venue.hours[j].open /\ v.close = venue.hours[j].close
    BY <1>2
  <2>3. Weekday(day + 1) = (Weekday(day) + 1) % 7 /\ Weekday(day + 1) # Weekday(day)
    BY DEF Weekday
  <2>4. v.open >= w.close
    BY <1>3, <1>4, <2>2, <2>3 DEF WeekIsApart
  <2>5. v.open \in 0 .. 1439
    BY WindowsAreTimed
  <2>6. other.from = (day + 1) * 1440 + v.open /\ CarryOver(day + 1, w).from = (day + 1) * 1440
    BY <2>1 DEF Fragment, CarryOver, MinutesPerDay
  <2>7. PICK o \in 0 .. 1439 : o = v.open
    BY <2>5
  <2>8. PICK c \in 0 .. 1439 : c = w.close
    BY <1>4
  <2>9. o >= c /\ c # 0 /\ (day + 1) * 1440 + o = (day + 1) * 1440
    BY <1>4, <2>4, <2>6, <2>7, <2>8
  <2> QED
    BY <2>9
<1>6. CASE \E v \in WindowsOn(venue, day) : CarriesOver(v) /\ other = CarryOver(day + 1, v)
  <2>1. PICK v \in WindowsOn(venue, day) : CarriesOver(v) /\ other = CarryOver(day + 1, v)
    BY <1>6
  <2>2. PICK j \in DOMAIN venue.hours :
          /\ venue.hours[j].weekday = Weekday(day)
          /\ v.open = venue.hours[j].open /\ v.close = venue.hours[j].close
    BY <1>2, <1>7
  <2>3. CarriesOver(venue.hours[j])
    BY <2>1, <2>2 DEF CarriesOver
  <2>4. i = j
    BY <1>3, <1>4, <2>2, <2>3 DEF WeekIsApart
  <2>5. other.to = CarryOver(day + 1, w).to
    BY <1>3, <2>1, <2>2, <2>4 DEF CarryOver
  <2>6. CarryOver(day + 1, w).to \in Int
    BY <1>4 DEF CarryOver, MinutesPerDay
  <2> QED
    BY <2>5, <2>6
<1> QED
  <2>1. day + 1 - 1 = day
    OBVIOUS
  <2> QED
    BY <1>5, <1>6, <2>1 DEF OpeningIntervals

LEMMA DayHolds ==
  ASSUME NEW a \in Int
  PROVE  DayOf(a) \in Int /\ DayOf(a) * 1440 <= a /\ a < (DayOf(a) + 1) * 1440
BY DEF DayOf, MinutesPerDay

LEMMA DaysAreInOrder ==
  ASSUME NEW a \in Int, NEW b \in Int, a <= b
  PROVE  DayOf(a) <= DayOf(b)
BY DEF DayOf, MinutesPerDay

LEMMA DayHasBegun ==
  ASSUME NEW d \in Int, NEW b \in Int, d * 1440 <= b
  PROVE  d <= DayOf(b)
BY DEF DayOf, MinutesPerDay

LEMMA DayOrNext ==
  ASSUME NEW n \in Int, NEW d \in n - 1 .. n
  PROVE  d \in Int /\ (d = n \/ d + 1 = n)
OBVIOUS

\* An opening of a day in question is considered.
LEMMA OpeningIsConsidered ==
  ASSUME NEW venue, NEW earliest \in Int, NEW latest \in Int, NEW day \in Int,
         DayOf(earliest) <= day, day <= DayOf(latest), NEW f \in OpeningIntervals(venue, day)
  PROVE  f \in IntervalsBetween(venue, earliest, latest)
<1>1. day \in DayOf(earliest) .. DayOf(latest)
  BY DEF DayOf, MinutesPerDay
<1> QED
  BY <1>1 DEF IntervalsBetween

\* Only the openings of a day begin at its midnight.
LEMMA FirstOfAll ==
  ASSUME NEW venue, IsVenue(venue), NEW earliest \in Int, NEW latest \in Int, NEW day \in Int,
         NEW c \in OpeningIntervals(venue, day), FirstOfDay(c, OpeningIntervals(venue, day))
  PROVE  FirstOfDay(c, IntervalsBetween(venue, earliest, latest))
<1> SUFFICES ASSUME NEW other \in IntervalsBetween(venue, earliest, latest), other.from = c.from
             PROVE  other.to >= c.to
  BY DEF FirstOfDay
<1>1. PICK d \in DayOf(earliest) .. DayOf(latest) : other \in OpeningIntervals(venue, d)
  BY DEF IntervalsBetween
<1>2. d \in Int
  BY <1>1 DEF DayOf, MinutesPerDay
<1>3. d = DayOf(other.from) /\ day = DayOf(c.from)
  BY <1>1, <1>2, OpeningOfDay
<1> QED
  BY <1>1, <1>3 DEF FirstOfDay

\* Merging never makes an opening shorter ...
LEMMA MergedReaches ==
  ASSUME NEW I, \A i \in I : i.from \in Int /\ i.to \in Int /\ i.from <= i.to, NEW f \in I
  PROVE  \E j \in Merged(I) : j.from = f.from /\ j.to \in Int /\ j.to >= f.to
<1> DEFINE rest == {c \in I : c.from = f.to /\ c.key = f.key /\ FirstOfDay(c, I)}
           j    == [from |-> f.from, to |-> IF rest = {} THEN f.to ELSE (CHOOSE c \in rest : TRUE).to]
<1>1. j \in Merged(I)
  BY DEF Merged
<1>2. j.from = f.from
  OBVIOUS
<1>3. CASE rest = {}
  BY <1>1, <1>2, <1>3
<1>4. CASE rest # {}
  <2>1. PICK c : c = CHOOSE x \in rest : TRUE
    OBVIOUS
  <2>2. c \in rest
    BY <1>4, <2>1
  <2>3. j.to = c.to
    BY <1>4, <2>1
  <2>4. c.to \in Int /\ c.to >= f.to
    BY <2>2
  <2> HIDE DEF j
  <2> QED
    BY <1>1, <1>2, <2>3, <2>4
<1> QED
  BY <1>3, <1>4

\* ... and joins to it what its window carries over.
LEMMA MergedGoesOn ==
  ASSUME NEW I, \A i \in I : i.from \in Int /\ i.to \in Int /\ i.from <= i.to, NEW f \in I, NEW x \in I,
         x.from = f.to, x.key = f.key, FirstOfDay(x, I)
  PROVE  \E j \in Merged(I) : j.from = f.from /\ j.to \in Int /\ j.to >= x.to
<1> DEFINE rest == {c \in I : c.from = f.to /\ c.key = f.key /\ FirstOfDay(c, I)}
           j    == [from |-> f.from, to |-> IF rest = {} THEN f.to ELSE (CHOOSE c \in rest : TRUE).to]
<1>1. j \in Merged(I)
  BY DEF Merged
<1>2. j.from = f.from
  OBVIOUS
<1>3. x \in rest
  OBVIOUS
<1>4. PICK c : c = CHOOSE y \in rest : TRUE
  OBVIOUS
<1>5. c \in rest
  BY <1>3, <1>4
<1>6. j.to = c.to
  BY <1>3, <1>4
<1>7. c.to \in Int /\ c.to >= x.to
  BY <1>5 DEF FirstOfDay
<1> HIDE DEF j
<1> QED
  BY <1>1, <1>2, <1>6, <1>7

\* The opening that holds what lies in one window.
Holds(I, a, b) == \E j \in Merged(I) : j.from \in Int /\ j.to \in Int /\ j.from <= a /\ b <= j.to

LEMMA WindowIsMerged ==
  ASSUME NEW venue, IsVenue(venue), NightsGoOn(venue), NEW earliest \in Int, NEW latest \in Int,
         NEW a \in Int, NEW b \in Int, earliest <= a, a < b, b <= latest, OneWindowCovers(venue, a, b)
  PROVE  Holds(IntervalsBetween(venue, earliest, latest), a, b)
<1> DEFINE I == IntervalsBetween(venue, earliest, latest)
<1>1. \A i \in I : i.from \in Int /\ i.to \in Int /\ i.from <= i.to
  BY LaterOpenings
<1>2. PICK day \in DayOf(a) - 1 .. DayOf(a) : \E w \in WindowsOn(venue, day) :
        /\ day * MinutesPerDay + w.open <= a
        /\ b <= day * MinutesPerDay + w.close + (IF w.close > w.open THEN 0 ELSE MinutesPerDay)
        /\ b > (day + 1) * MinutesPerDay => ExceptionsOn(venue, day + 1) = {}
  BY Zenon DEF OneWindowCovers
<1>3. PICK w \in WindowsOn(venue, day) :
        /\ day * MinutesPerDay + w.open <= a
        /\ b <= day * MinutesPerDay + w.close + (IF w.close > w.open THEN 0 ELSE MinutesPerDay)
        /\ b > (day + 1) * MinutesPerDay => ExceptionsOn(venue, day + 1) = {}
  BY <1>2
<1>4. /\ day \in Int /\ (day = DayOf(a) \/ day + 1 = DayOf(a))
      /\ DayOf(earliest) \in Int /\ DayOf(earliest) <= DayOf(a) /\ DayOf(a) <= DayOf(latest)
      /\ DayOf(a) * 1440 <= a /\ a < (DayOf(a) + 1) * 1440
  <2>1. a <= latest
    OBVIOUS
  <2>2. DayOf(a) \in Int /\ DayOf(earliest) \in Int /\ DayOf(a) * 1440 <= a /\ a < (DayOf(a) + 1) * 1440
    BY DayHolds
  <2>3. DayOf(earliest) <= DayOf(a) /\ DayOf(a) <= DayOf(latest)
    BY <2>1, DaysAreInOrder
  <2>4. day \in Int /\ (day = DayOf(a) \/ day + 1 = DayOf(a))
    <3>1. PICK n \in Int : n = DayOf(a)
      BY <2>2
    <3>2. day \in n - 1 .. n
      BY <3>1
    <3>3. day \in Int /\ (day = n \/ day + 1 = n)
      BY <3>2, DayOrNext
    <3> QED
      BY <3>1, <3>3
  <2> QED
    BY <2>2, <2>3, <2>4
<1>5. w.open \in 0 .. 1439 /\ w.close \in 0 .. 1439 /\ w.open # w.close
  BY <1>4, WindowsAreTimed, WindowsAreWindows
<1>6. PICK o \in 0 .. 1439 : o = w.open
  BY <1>5
<1>7. PICK c \in 0 .. 1439 : o = w.open /\ c = w.close
  BY <1>5, <1>6
<1>8. o # c
  BY <1>5, <1>7
<1>9. /\ day * 1440 + o <= a
      /\ b <= day * 1440 + c + (IF c > o THEN 0 ELSE 1440)
      /\ b > (day + 1) * 1440 => ExceptionsOn(venue, day + 1) = {}
  BY <1>3, <1>7 DEF MinutesPerDay
<1>10. Fragment(day, w) \in OpeningIntervals(venue, day)
  BY <1>3 DEF OpeningIntervals
<1>11. /\ Fragment(day, w).from = day * 1440 + o
      /\ Fragment(day, w).to = day * 1440 + (IF c > o THEN c ELSE 1440)
      /\ Fragment(day, w).key = w.key
  BY <1>7 DEF Fragment, MinutesPerDay
<1>12. ASSUME b > (day + 1) * 1440
       PROVE  /\ CarryOver(day + 1, w) \in I
              /\ CarryOver(day + 1, w).from = (day + 1) * 1440
              /\ CarryOver(day + 1, w).key = w.key
              /\ b <= CarryOver(day + 1, w).to
              /\ FirstOfDay(CarryOver(day + 1, w), I)
              /\ ~ (c > o)
  <2>1. ExceptionsOn(venue, day + 1) = {}
    BY <1>9, <1>12
  <2>2. ~ (c > o) /\ c < o /\ c # 0
    <3>1. o \in Int /\ c \in Int /\ o # c /\ 0 <= c /\ c <= 1439
      BY <1>8
    <3>2. CASE c > o
      BY <1>4, <1>9, <1>12, <3>1, <3>2
    <3>3. CASE ~ (c > o)
      BY <1>4, <1>9, <1>12, <3>1, <3>3
    <3> QED
      BY <3>2, <3>3
  <2>3. CarriesOver(w)
    BY <1>7, <2>2 DEF CarriesOver
  <2>4. day + 1 - 1 = day /\ day + 1 \in Int
    BY <1>4
  <2>5. CarryOver(day + 1, w) \in OpeningIntervals(venue, day + 1)
    BY <1>3, <2>1, <2>3, <2>4 DEF OpeningIntervals
  <2>6. DayOf(earliest) <= day + 1 /\ day + 1 <= DayOf(latest)
    <3>1. (day + 1) * 1440 <= latest
      BY <1>4, <1>12
    <3>2. day + 1 <= DayOf(latest)
      BY <2>4, <3>1, DayHasBegun
    <3> QED
      BY <1>4, <3>2
  <2>7. CarryOver(day + 1, w) \in I
    BY <2>4, <2>5, <2>6, OpeningIsConsidered
  <2>8. FirstOfDay(CarryOver(day + 1, w), OpeningIntervals(venue, day + 1))
    BY <1>3, <1>4, <2>1, <2>3 DEF NightsGoOn, NightGoesOn
  <2>9. FirstOfDay(CarryOver(day + 1, w), I)
    BY <2>4, <2>5, <2>8, FirstOfAll
  <2>10. /\ CarryOver(day + 1, w).from = (day + 1) * 1440
         /\ CarryOver(day + 1, w).to = (day + 1) * 1440 + c
         /\ CarryOver(day + 1, w).key = w.key
    BY <1>7 DEF CarryOver, MinutesPerDay
  <2>11. b <= (day + 1) * 1440 + c
    BY ONLY <1>4, <1>7, <1>9, <2>2
  <2> QED
    BY <2>2, <2>7, <2>9, <2>10, <2>11
<1>13. CASE day = DayOf(a)
  <2>1. Fragment(day, w) \in I
    BY <1>4, <1>10, <1>13, OpeningIsConsidered
  <2>2. CASE b <= (day + 1) * 1440
    <3>1. b <= Fragment(day, w).to
      <4>1. CASE c > o
        BY ONLY <1>4, <1>7, <1>9, <1>11, <4>1
      <4>2. CASE ~ (c > o)
        BY ONLY <1>4, <1>7, <1>11, <2>2, <4>2
      <4> QED
        BY <4>1, <4>2
    <3>2. PICK j \in Merged(I) : j.from = Fragment(day, w).from /\ j.to \in Int /\ j.to >= Fragment(day, w).to
      BY <1>1, <2>1, MergedReaches
    <3>3. j.from \in Int /\ j.from <= a /\ b <= j.to
      <4>1. b \in Int /\ j.to \in Int /\ Fragment(day, w).to \in Int /\ j.to >= Fragment(day, w).to
        BY <1>1, <2>1, <3>2
      <4>2. b <= j.to
        BY ONLY <3>1, <4>1
      <4>3. j.from = day * 1440 + o
        BY ONLY <1>11, <3>2
      <4>4. j.from \in Int /\ j.from <= a
        BY ONLY <1>4, <1>7, <1>9, <4>3
      <4> QED
        BY <4>2, <4>4
    <3> QED
      BY <3>2, <3>3 DEF Holds
  <2>3. CASE b > (day + 1) * 1440
    <3>1. Fragment(day, w).to = (day + 1) * 1440
      BY <1>4, <1>11, <1>12, <2>3
    <3>2. PICK j \in Merged(I) : j.from = Fragment(day, w).from /\ j.to \in Int /\ j.to >= CarryOver(day + 1, w).to
      BY <1>1, <1>11, <1>12, <2>1, <2>3, <3>1, MergedGoesOn
    <3>3. CarryOver(day + 1, w).to \in Int
      BY <1>1, <1>12, <2>3
    <3>4. j.from \in Int /\ j.from <= a /\ b <= j.to
      <4>1. b \in Int /\ j.to \in Int /\ j.to >= CarryOver(day + 1, w).to /\ b <= CarryOver(day + 1, w).to
        BY <1>12, <2>3, <3>2
      <4>2. b <= j.to
        BY ONLY <3>3, <4>1
      <4>3. j.from = day * 1440 + o
        BY ONLY <1>11, <3>2
      <4>4. j.from \in Int /\ j.from <= a
        BY ONLY <1>4, <1>7, <1>9, <4>3
      <4> QED
        BY <4>2, <4>4
    <3> QED
      BY <3>2, <3>4 DEF Holds
  <2> QED
    BY <1>4, <2>2, <2>3
<1>14. CASE day + 1 = DayOf(a)
  <2>1. b > (day + 1) * 1440
    BY <1>4, <1>14
  <2>2. PICK j \in Merged(I) : j.from = CarryOver(day + 1, w).from /\ j.to \in Int /\ j.to >= CarryOver(day + 1, w).to
    BY <1>1, <1>12, <2>1, MergedReaches
  <2>3. CarryOver(day + 1, w).to \in Int
    BY <1>1, <1>12, <2>1
  <2>4. j.from \in Int /\ j.from <= a /\ b <= j.to
    BY <1>4, <1>12, <1>14, <2>1, <2>2, <2>3
  <2> QED
    BY <2>2, <2>4 DEF Holds
<1> QED
  BY <1>4, <1>13, <1>14

\* A visit that lies in one window is found, at its own start or before.
LEMMA VisitIsFound ==
  ASSUME NEW venue, IsVenue(venue), NightsGoOn(venue), NEW earliest \in Int, NEW latest \in Int,
         NEW duration \in Nat \ {0}, NEW s \in Int, earliest <= s, s + duration <= latest,
         OneWindowCovers(venue, s, s + duration)
  PROVE  \E t \in EarliestVisitStart(venue, earliest, latest, duration) : t \in Int /\ t <= s
<1> DEFINE I      == IntervalsBetween(venue, earliest, latest)
           Starts == {t \in {Later(earliest, i.from) : i \in {j \in Merged(I) : Later(earliest, j.from) + duration <= j.to}} :
                        t + duration <= latest}
           Waits  == {t - earliest : t \in Starts}
<1>1. Holds(I, s, s + duration)
  <2>1. s + duration \in Int /\ s < s + duration
    OBVIOUS
  <2> QED
    BY <2>1, WindowIsMerged
<1>2. PICK j \in Merged(I) : j.from \in Int /\ j.to \in Int /\ j.from <= s /\ s + duration <= j.to
  BY <1>1 DEF Holds
<1>3. PICK u : u = Later(earliest, j.from)
  OBVIOUS
<1>4. u \in Int /\ u <= s /\ u + duration <= j.to /\ u + duration <= latest
  BY <1>2, <1>3 DEF Later
<1>5. u \in Starts
  BY <1>2, <1>3, <1>4
<1>6. \A t \in Starts : t \in Int /\ earliest <= t
  <2> SUFFICES ASSUME NEW t \in Starts PROVE t \in Int /\ earliest <= t
    OBVIOUS
  <2>1. PICK i \in Merged(I) : t = Later(earliest, i.from)
    OBVIOUS
  <2>2. PICK f \in I : i.from = f.from
    BY <2>1 DEF Merged
  <2>3. f.from \in Int
    BY <2>2, OpeningTimes
  <2> QED
    BY <2>1, <2>2, <2>3 DEF Later
<1> HIDE DEF Starts
<1>7. Waits \in SUBSET Nat
  BY <1>6
<1>8. Waits # {}
  BY <1>5
<1>9. PICK n \in Waits : \A m \in Waits : n <= m
  BY <1>7, <1>8, LeastExists
<1>10. PICK t \in Starts : n = t - earliest
  BY <1>9
<1>11. \A x \in Starts : t <= x
  <2> SUFFICES ASSUME NEW x \in Starts PROVE t <= x
    OBVIOUS
  <2>1. x - earliest \in Waits
    OBVIOUS
  <2>2. t - earliest <= x - earliest
    BY <1>9, <1>10, <2>1
  <2> QED
    BY <1>6, <2>2
<1>12. t \in Earliest(Starts)
  BY <1>11 DEF Earliest
<1>13. EarliestVisitStart(venue, earliest, latest, duration) = Earliest(Starts)
  BY DEF EarliestVisitStart, Starts
<1>14. t <= u /\ t \in Int
  BY <1>5, <1>6, <1>11
<1>15. t <= s
  BY <1>4, <1>14
<1> QED
  BY <1>12, <1>13, <1>14, <1>15

-----------------------------------------------------------------------------
\* The reference's trips, length by length

NoTrip == [ids |-> <<>>, free |-> input.start, cost |-> 0]

\* What the reference for all trips is defined by.
TripLevels(T) ==
  /\ DOMAIN T = 0 .. PaceCap
  /\ T[0] = {NoTrip}
  /\ \A n \in 1 .. PaceCap : T[n] = UNION {StopsAfter(trip) : trip \in T[n - 1]}

Possibly ==
  \E T : /\ TripLevels(T)
         /\ \E n \in 1 .. PaceCap : \E trip \in T[n] : trip.cost <= Budget /\ InLockOrder(trip.ids)

\* The reference exists: each length follows from the one before.
LEMMA PossibleIsDefined == Possible => Possibly
<1> DEFINE Step(g, n) == IF n = 0 THEN {NoTrip} ELSE UNION {StopsAfter(trip) : trip \in g[n - 1]}
           Deep(k, g) == g = [n \in 0 .. k |-> Step(g, n)]
           Missing    == {k \in Nat : ~ \E g : Deep(k, g)}
<1>1. \E g : Deep(0, g)
  <2> DEFINE g == [n \in 0 .. 0 |-> {NoTrip}]
  <2>1. \A n \in 0 .. 0 : Step(g, n) = {NoTrip}
    OBVIOUS
  <2>2. g = [n \in 0 .. 0 |-> Step(g, n)]
    BY <2>1
  <2> QED
    BY <2>2
<1>2. ASSUME NEW k \in Nat, NEW g, Deep(k, g) PROVE \E h : Deep(k + 1, h)
  <2> DEFINE h == [n \in 0 .. k + 1 |-> Step(g, n)]
  <2>1. \A n \in 0 .. k : h[n] = g[n]
    <3>1. \A n \in 0 .. k : n \in 0 .. k + 1
      OBVIOUS
    <3>2. \A n \in 0 .. k : g[n] = Step(g, n)
      <4> HIDE DEF Step
      <4> QED
        BY <1>2
    <3> HIDE DEF Step
    <3> QED
      BY <3>1, <3>2
  <2>2. \A n \in 0 .. k + 1 : Step(g, n) = Step(h, n)
    <3>1. \A n \in 0 .. k + 1 : n # 0 => n - 1 \in 0 .. k
      OBVIOUS
    <3> HIDE DEF h
    <3> QED
      BY <2>1, <3>1
  <2>3. h = [n \in 0 .. k + 1 |-> Step(h, n)]
    <3> HIDE DEF Step
    <3> QED
      BY <2>2
  <2> QED
    BY <2>3
<1> HIDE DEF Deep
<1>3. Missing = {}
  <2>1. SUFFICES ASSUME Missing # {} PROVE FALSE
    OBVIOUS
  <2>2. PICK n \in Missing : \A m \in Missing : n <= m
    BY <2>1, LeastExists
  <2>3. n # 0 /\ n \in Nat
    BY <1>1, <2>2
  <2>4. n - 1 \in Nat /\ n - 1 \notin Missing /\ n - 1 + 1 = n
    BY <2>2, <2>3
  <2>5. \E g : Deep(n - 1, g)
    BY <2>4
  <2>6. \E h : Deep(n, h)
    BY <1>2, <2>4, <2>5
  <2> QED
    BY <2>2, <2>6
<1>4. \E g : Deep(PaceCap, g)
  BY <1>3, PaceIsNatural
<1>5. PICK T : T = CHOOSE g : Deep(PaceCap, g)
  OBVIOUS
<1>6. Deep(PaceCap, T)
  BY <1>4, <1>5
<1>7. Possible => \E n \in 1 .. PaceCap : \E trip \in T[n] : trip.cost <= Budget /\ InLockOrder(trip.ids)
  BY <1>5 DEF Possible, Deep, NoTrip
<1>8. T = [n \in 0 .. PaceCap |-> Step(T, n)]
  BY <1>6 DEF Deep
<1>9. DOMAIN T = 0 .. PaceCap /\ \A n \in 0 .. PaceCap : T[n] = Step(T, n)
  <2> HIDE DEF Step
  <2> QED
    BY <1>8
<1>10. T[0] = {NoTrip} /\ \A n \in 1 .. PaceCap : T[n] = UNION {StopsAfter(trip) : trip \in T[n - 1]}
  <2>1. 0 \in 0 .. PaceCap /\ \A n \in 1 .. PaceCap : n \in 0 .. PaceCap /\ n # 0
    BY PaceIsNatural
  <2> QED
    BY <1>9, <2>1
<1>11. TripLevels(T)
  BY <1>9, <1>10 DEF TripLevels
<1> QED
  BY <1>7, <1>11 DEF Possibly

\* A trip visits candidates, none twice.
TripOk(trip, n) ==
  /\ trip.ids \in Seq(Eligible) /\ Len(trip.ids) = n /\ IsInjective(trip.ids)
  /\ trip.free \in Int /\ trip.cost \in Nat

\* What a stop after a trip is.
Follows(next, trip, p, start) ==
  /\ p \in Eligible \ ToSet(trip.ids) /\ start \in HalfHours /\ MayVisit(p, start)
  /\ next.ids = Append(trip.ids, p) /\ next.free = start + Here(p).duration
  /\ trip.ids = <<>> => next.cost = trip.cost + PlaceCost(p)
  /\ trip.ids # <<>> =>
       LET edge == <<Last(trip.ids), p>> IN
       /\ edge \in DOMAIN Travel
       /\ start >= trip.free + Travel[edge].minutes + TransitionBuffer
       /\ next.cost = trip.cost + PlaceCost(p) + Travel[edge].cost

LEMMA StopFollows ==
  ASSUME input \in Inputs, NEW trip, trip.cost \in Nat, NEW next \in StopsAfter(trip)
  PROVE  \E p, start : Follows(next, trip, p, start)
<1>1. PICK p \in Eligible \ ToSet(trip.ids) :
        \E start \in {s \in HalfHours :
             /\ MayVisit(p, s)
             /\ trip.ids # <<>> =>
                  /\ <<Last(trip.ids), p>> \in DOMAIN Travel
                  /\ s >= trip.free + Travel[<<Last(trip.ids), p>>].minutes + TransitionBuffer} :
          next = [ids |-> Append(trip.ids, p), free |-> start + Here(p).duration,
                  cost |-> trip.cost + PlaceCost(p) + (IF trip.ids = <<>> THEN 0 ELSE Travel[<<Last(trip.ids), p>>].cost)]
  BY DEF StopsAfter
<1>2. PICK start \in HalfHours :
        /\ MayVisit(p, start)
        /\ trip.ids # <<>> =>
             /\ <<Last(trip.ids), p>> \in DOMAIN Travel
             /\ start >= trip.free + Travel[<<Last(trip.ids), p>>].minutes + TransitionBuffer
        /\ next = [ids |-> Append(trip.ids, p), free |-> start + Here(p).duration,
                   cost |-> trip.cost + PlaceCost(p) + (IF trip.ids = <<>> THEN 0 ELSE Travel[<<Last(trip.ids), p>>].cost)]
  BY <1>1
<1>3. /\ next.ids = Append(trip.ids, p) /\ next.free = start + Here(p).duration
      /\ next.cost = trip.cost + PlaceCost(p) + (IF trip.ids = <<>> THEN 0 ELSE Travel[<<Last(trip.ids), p>>].cost)
  BY <1>2
<1>4. PlaceCost(p) \in Nat
  BY AmountsAreNumbers DEF Eligible
<1>5. trip.ids = <<>> => next.cost = trip.cost + PlaceCost(p)
  BY <1>3, <1>4
<1> QED
  BY <1>2, <1>3, <1>5, ZenonT(30) DEF Follows

LEMMA HalfHoursAreTimes == input \in Inputs => HalfHours \subseteq Int
<1> SUFFICES ASSUME input \in Inputs, NEW h \in HalfHours PROVE h \in Int
  OBVIOUS
<1>1. input.start \in Nat /\ input.duration \in Nat
  BY InputAssumption
<1>2. PICK k \in 0 .. (input.duration \div 30) : h = input.start + 30 * k
  BY DEF HalfHours
<1> QED
  BY <1>1, <1>2

LEMMA TripGoesOn ==
  ASSUME input \in Inputs, NEW n \in Nat, NEW trip, TripOk(trip, n), NEW next \in StopsAfter(trip)
  PROVE  TripOk(next, n + 1)
<1>1. trip.ids \in Seq(Eligible) /\ Len(trip.ids) = n /\ IsInjective(trip.ids) /\ trip.cost \in Nat
  BY DEF TripOk
<1>2. PICK p, start : Follows(next, trip, p, start)
  BY <1>1, StopFollows
<1>3. /\ p \in Eligible /\ p \notin ToSet(trip.ids) /\ start \in Int
      /\ next.ids = Append(trip.ids, p) /\ next.free = start + Here(p).duration
  BY <1>2, HalfHoursAreTimes DEF Follows
<1>4. Here(p).duration \in Nat
  BY <1>3, CatalogAssumption, InputAssumption DEF Here, Eligible
<1>5. PICK s, t : s \in Seq(Eligible) /\ s = trip.ids /\ t = next.ids
  BY <1>1
<1>6. /\ Append(s, p) \in Seq(Eligible \cup {p}) /\ Eligible \cup {p} = Eligible
      /\ Len(Append(s, p)) = Len(s) + 1 /\ DOMAIN Append(s, p) = 1 .. Len(s) + 1
      /\ \A i \in 1 .. Len(s) : Append(s, p)[i] = s[i]
      /\ Append(s, p)[Len(s) + 1] = p
      /\ DOMAIN s = 1 .. Len(s)
  BY <1>3, <1>5, AppendKeeps
<1>7. t \in Seq(Eligible) /\ Len(t) = n + 1 /\ DOMAIN t = 1 .. n + 1
      /\ (\A i \in 1 .. n : t[i] = s[i]) /\ t[n + 1] = p /\ DOMAIN s = 1 .. n
  BY <1>1, <1>3, <1>5, <1>6
<1>8. IsInjective(t)
  <2>1. \A i \in 1 .. n : s[i] # p
    BY <1>3, <1>5, <1>7 DEF ToSet
  <2>2. IsInjective(s)
    BY <1>1, <1>5
  <2> QED
    BY <1>7, <2>1, <2>2 DEF IsInjective
<1>9. next.cost \in Nat
  <2>1. PlaceCost(p) \in Nat
    BY <1>3, AmountsAreNumbers DEF Eligible
  <2>2. CASE trip.ids = <<>>
    BY <1>1, <1>2, <2>1, <2>2 DEF Follows
  <2>3. CASE trip.ids # <<>>
    <3>1. PICK edge \in DOMAIN Travel : next.cost = trip.cost + PlaceCost(p) + Travel[edge].cost
      BY <1>2, <2>3 DEF Follows
    <3>2. Travel[edge].cost \in Nat
      BY TravelAssumption
    <3> QED
      BY <1>1, <2>1, <3>1, <3>2
  <2> QED
    BY <2>2, <2>3
<1> QED
  BY <1>3, <1>4, <1>5, <1>7, <1>8, <1>9 DEF TripOk

LEMMA TripsAreOk ==
  ASSUME input \in Inputs, NEW T, TripLevels(T), NEW n \in 0 .. PaceCap, NEW trip \in T[n]
  PROVE  TripOk(trip, n)
<1> DEFINE Bad == {m \in 0 .. PaceCap : \E t \in T[m] : ~ TripOk(t, m)}
<1>1. SUFFICES ASSUME Bad # {} PROVE FALSE
  OBVIOUS
<1>2. Bad \in SUBSET Nat
  BY PaceIsNatural
<1>3. PICK m \in Bad : \A l \in Bad : m <= l
  BY <1>1, <1>2, LeastExists
<1>4. PICK t \in T[m] : ~ TripOk(t, m)
  BY <1>3
<1>5. m # 0
  <2>1. SUFFICES ASSUME m = 0 PROVE FALSE
    OBVIOUS
  <2>2. t = NoTrip
    BY <1>4, <2>1 DEF TripLevels
  <2>3. t.ids = <<>> /\ t.free \in Int /\ t.cost = 0
    BY <2>2, InputAssumption DEF NoTrip
  <2>4. <<>> \in Seq(Eligible) /\ Len(<<>>) = 0 /\ IsInjective(<<>>)
    BY DEF IsInjective
  <2> QED
    BY <1>4, <2>1, <2>3, <2>4 DEF TripOk
<1>6. m \in 1 .. PaceCap /\ m - 1 \in 0 .. PaceCap /\ m - 1 \in Nat /\ m - 1 + 1 = m /\ m - 1 \notin Bad
  BY <1>3, <1>5, PaceIsNatural
<1>7. PICK before \in T[m - 1] : t \in StopsAfter(before)
  BY <1>4, <1>6 DEF TripLevels
<1>8. TripOk(before, m - 1)
  BY <1>6, <1>7
<1>9. TripOk(t, m - 1 + 1)
  BY <1>6, <1>7, <1>8, TripGoesOn
<1> QED
  BY <1>4, <1>6, <1>9

-----------------------------------------------------------------------------
\* The order of the locks

LEMMA LocksOfAnyTwo ==
  ASSUME input \in Inputs, NEW ids, InLockOrder(ids), IsInjective(ids), DOMAIN ids \subseteq Int,
         NEW m \in DOMAIN input.locked, NEW k \in DOMAIN input.locked, m < k,
         NEW i \in DOMAIN ids, NEW j \in DOMAIN ids, ids[i] = input.locked[m], ids[j] = input.locked[k]
  PROVE  i < j
<1> DEFINE Bad == {l \in Nat : l \in DOMAIN input.locked /\ m < l /\ \E h \in DOMAIN ids : ids[h] = input.locked[l] /\ ~ (i < h)}
<1>1. SUFFICES ASSUME ~ (i < j) PROVE FALSE
  OBVIOUS
<1>2. DOMAIN input.locked = 1 .. Len(input.locked) /\ Len(input.locked) \in Nat
  BY LocksAreFinite
<1>3. k \in Bad
  BY <1>1, <1>2
<1>4. PICK l \in Bad : \A o \in Bad : l <= o
  <2>1. Bad \in SUBSET Nat /\ Bad # {}
    BY <1>3
  <2> HIDE DEF Bad
  <2> QED
    BY <2>1, LeastExists
<1>5. PICK h \in DOMAIN ids : ids[h] = input.locked[l] /\ ~ (i < h)
  BY <1>4
<1>6. l \in 2 .. Len(input.locked) /\ l - 1 \in DOMAIN input.locked /\ m \in Nat /\ l - 1 \in Nat
  BY <1>2, <1>4
<1>7. PICK g \in DOMAIN ids : ids[g] = input.locked[l - 1]
  <2>1. input.locked[l - 1] \in ToSet(ids)
    BY <1>6 DEF InLockOrder, Locked, ToSet
  <2> QED
    BY <2>1 DEF ToSet
<1>8. g < h
  BY <1>5, <1>6, <1>7 DEF InLockOrder
<1>9. CASE l - 1 = m
  <2>1. g = i
    BY <1>7, <1>9 DEF IsInjective
  <2> QED
    BY <1>5, <1>8, <2>1
<1>10. CASE l - 1 # m
  <2>1. m < l - 1 /\ ~ (l <= l - 1)
    BY <1>4, <1>6, <1>10
  <2>2. l - 1 \notin Bad
    BY <1>4, <2>1
  <2>3. i < g
    BY <1>6, <1>7, <2>1, <2>2
  <2>4. i \in Int /\ g \in Int /\ h \in Int
    OBVIOUS
  <2> QED
    BY <1>5, <1>8, <2>3, <2>4
<1> QED
  BY <1>9, <1>10

\* Each locked stop is the next one due.
LocksAreDue(ids) ==
  \A i \in DOMAIN ids :
    ids[i] \in Locked => ids[i] = input.locked[Cardinality(ToSet(SubSeq(ids, 1, i - 1)) \cap Locked) + 1]

LEMMA OrderedLocksAreDue ==
  ASSUME input \in Inputs, NEW ids \in Seq(Place), IsInjective(ids), InLockOrder(ids)
  PROVE  LocksAreDue(ids)
<1> SUFFICES ASSUME NEW i \in DOMAIN ids, ids[i] \in Locked
             PROVE  ids[i] = input.locked[Cardinality(ToSet(SubSeq(ids, 1, i - 1)) \cap Locked) + 1]
  BY DEF LocksAreDue
<1>1. DOMAIN ids = 1 .. Len(ids) /\ Len(ids) \in Nat /\ DOMAIN ids \subseteq Int
  OBVIOUS
<1>2. /\ DOMAIN input.locked = 1 .. Len(input.locked) /\ Len(input.locked) \in Nat
      /\ IsInjective(input.locked)
  BY LocksAreFinite
<1>3. PICK k \in DOMAIN input.locked : ids[i] = input.locked[k]
  BY DEF Locked, ToSet
<1>4. PICK S : S = ToSet(SubSeq(ids, 1, i - 1)) \cap Locked
  OBVIOUS
<1>5. S = {ids[m] : m \in 1 .. i - 1} \cap Locked
  BY <1>1, <1>4, PrefixElements
<1>6. k \in Nat /\ k >= 1 /\ k - 1 \in Nat
  BY <1>2, <1>3
<1>7. ASSUME NEW m \in 1 .. k - 1 PROVE m \in DOMAIN input.locked /\ input.locked[m] \in S
  <2>1. m \in DOMAIN input.locked /\ m < k
    BY <1>2, <1>3, <1>6
  <2>2. input.locked[m] \in Locked
    BY <2>1 DEF Locked, ToSet
  <2>3. input.locked[m] \in ToSet(ids)
    BY <2>2 DEF InLockOrder
  <2>4. PICK h \in DOMAIN ids : ids[h] = input.locked[m]
    BY <2>3 DEF ToSet
  <2>5. h < i
    BY <1>1, <1>3, <2>1, <2>4, LocksOfAnyTwo
  <2>6. h \in 1 .. i - 1
    BY <1>1, <2>5
  <2> QED
    BY <1>5, <2>1, <2>2, <2>4, <2>6
<1>8. ASSUME NEW x \in S PROVE \E m \in 1 .. k - 1 : x = input.locked[m]
  <2>1. PICK h \in 1 .. i - 1 : x = ids[h]
    BY <1>5
  <2>2. x \in Locked
    BY <1>5
  <2>3. PICK m \in DOMAIN input.locked : x = input.locked[m]
    BY <2>2 DEF Locked, ToSet
  <2>4. h \in DOMAIN ids /\ h < i /\ h # i
    BY <1>1
  <2>5. m # k
    BY <1>3, <2>1, <2>3, <2>4 DEF IsInjective
  <2>6. ~ (k < m)
    <3>1. SUFFICES ASSUME k < m PROVE FALSE
      OBVIOUS
    <3>2. i < h
      BY <1>1, <1>3, <2>1, <2>3, <2>4, <3>1, LocksOfAnyTwo
    <3> QED
      BY <1>1, <2>4, <3>2
  <2>7. m \in 1 .. k - 1
    BY <1>2, <1>3, <2>3, <2>5, <2>6
  <2> QED
    BY <2>3, <2>7
<1> DEFINE f == [m \in 1 .. k - 1 |-> input.locked[m]]
<1>9. f \in Bijection(1 .. k - 1, S)
  <2>1. f \in [1 .. k - 1 -> S]
    BY <1>7
  <2>2. \A x \in S : \E m \in 1 .. k - 1 : f[m] = x
    BY <1>8
  <2>3. \A m, n \in 1 .. k - 1 : f[m] = f[n] => m = n
    BY <1>2, <1>7 DEF IsInjective
  <2> HIDE DEF f
  <2> QED
    BY <2>1, <2>2, <2>3 DEF Bijection, Injection, Surjection, IsInjective
<1>10. Cardinality(S) = k - 1
  <2>1. ExistsBijection(1 .. k - 1, S)
    BY <1>9 DEF ExistsBijection
  <2> QED
    BY <1>6, <2>1, FS_CountingElements
<1> QED
  BY <1>3, <1>4, <1>6, <1>10

IsDue(p, ids) == p \in Locked => p = input.locked[Cardinality(ToSet(ids) \cap Locked) + 1]

\* What is due of a longer trip is due of a shorter one.
LEMMA DueAtTheEnd ==
  ASSUME NEW s \in Seq(Place), NEW p \in Place, LocksAreDue(Append(s, p))
  PROVE  LocksAreDue(s) /\ IsDue(p, s)
<1>1. PICK t : t = Append(s, p)
  OBVIOUS
<1>2. /\ Len(s) \in Nat /\ DOMAIN s = 1 .. Len(s) /\ DOMAIN t = 1 .. Len(s) + 1
      /\ (\A i \in 1 .. Len(s) : t[i] = s[i]) /\ t[Len(s) + 1] = p
  BY <1>1, AppendKeeps
<1>3. \A i \in 1 .. Len(s) + 1 : SubSeq(t, 1, i - 1) = SubSeq(s, 1, i - 1)
  BY <1>1, PrefixOfAppend
<1>4. LocksAreDue(t)
  BY <1>1
<1>5. LocksAreDue(s)
  <2> SUFFICES ASSUME NEW i \in DOMAIN s, s[i] \in Locked
               PROVE  s[i] = input.locked[Cardinality(ToSet(SubSeq(s, 1, i - 1)) \cap Locked) + 1]
    BY DEF LocksAreDue
  <2>1. i \in DOMAIN t /\ i \in 1 .. Len(s) + 1 /\ t[i] = s[i]
    BY <1>2
  <2> QED
    BY <1>3, <1>4, <2>1 DEF LocksAreDue
<1>6. ASSUME p \in Locked PROVE p = input.locked[Cardinality(ToSet(s) \cap Locked) + 1]
  <2>1. PICK i : i = Len(s) + 1
    OBVIOUS
  <2>2. i \in DOMAIN t /\ i \in 1 .. Len(s) + 1 /\ t[i] = p /\ i - 1 = Len(s)
    BY <1>2, <2>1
  <2>3. SubSeq(t, 1, i - 1) = s
    <3>1. SubSeq(s, 1, Len(s)) = s
      BY SubSeqFull
    <3> QED
      BY <1>3, <2>2, <3>1
  <2> QED
    BY <1>4, <1>6, <2>2, <2>3 DEF LocksAreDue
<1> QED
  BY <1>5, <1>6 DEF IsDue

-----------------------------------------------------------------------------
\* The searches follow every trip

HoursGoOn == \A c \in DOMAIN Catalog : \A p \in Place : NightsGoOn(Catalog[c][p])

\* A path keeps up with a trip: it makes the same stops at the same cost, and is
\* free again no later. So it does with any trip within the budget and the locks.
KeepsUp(path, trip) == path.ids = trip.ids /\ path.finish <= trip.free /\ path.cost = trip.cost

Followed(trip) ==
  trip.cost <= Budget /\ LocksAreDue(trip.ids) => \E path : Reached(path) /\ KeepsUp(path, trip)

LEMMA ArrivalIsFound ==
  ASSUME Ready, pool = Eligible, NEW trip, NEW n, TripOk(trip, n), n < PaceCap, NEW next,
         NEW p, NEW start, Follows(next, trip, p, start), start \in Int, next.cost <= Budget,
         IsDue(p, trip.ids),
         NEW path, PathOk(path), path.cost \in Int, KeepsUp(path, trip)
  PROVE  \E a \in Arrivals(path) :
           a.place = p /\ a.earliest \in Int /\ a.earliest <= start /\ a.base = next.cost
<1>1. path.ids = trip.ids /\ path.finish <= trip.free /\ path.cost = trip.cost
  BY DEF KeepsUp
<1>2. trip.free \in Int /\ trip.cost \in Nat /\ Len(trip.ids) = n
  BY DEF TripOk
<1>3. p \in Eligible /\ p \notin ToSet(trip.ids) /\ MayVisit(p, start)
  BY DEF Follows
<1>4. /\ path.finish \in Int /\ PlaceCost(p) \in Nat /\ input.start \in Nat
      /\ path.ids = <<>> => path.finish = input.start
  BY <1>3, AmountsAreNumbers, InputAssumption DEF PathOk, WellFormed, Ready, Eligible
<1>5. CanAppend(path, p) /\ Len(path.ids) < PaceCap
  BY <1>1, <1>2, <1>3 DEF CanAppend, IsDue
<1>6. PICK a : a = [place |-> p, leg |-> Leg(path, p),
                    earliest |-> path.finish + Leg(path, p).minutes + Leg(path, p).buffer,
                    base |-> path.cost + PlaceCost(p) + Leg(path, p).cost]
  OBVIOUS
<1>7. /\ a.place = p
      /\ a.earliest = path.finish + Leg(path, p).minutes + Leg(path, p).buffer
      /\ a.base = path.cost + PlaceCost(p) + Leg(path, p).cost
  BY <1>6
<1>8. HasEdge(path, p) /\ a.earliest \in Int /\ a.earliest <= start /\ a.base = next.cost
  <2>1. CASE trip.ids = <<>>
    <3>1. Leg(path, p).minutes = 0 /\ Leg(path, p).buffer = 0 /\ Leg(path, p).cost = 0
      BY <1>1, <2>1 DEF Leg
    <3>2. HasEdge(path, p)
      BY <1>1, <2>1 DEF HasEdge
    <3>3. next.cost = trip.cost + PlaceCost(p)
      BY <2>1 DEF Follows
    <3>4. start >= input.start
      BY <1>3 DEF MayVisit
    <3> QED
      BY <1>1, <1>2, <1>4, <1>7, <2>1, <3>1, <3>2, <3>3, <3>4
  <2>2. CASE trip.ids # <<>>
    <3>1. PICK edge : edge = <<Last(trip.ids), p>>
      OBVIOUS
    <3>2. /\ edge \in DOMAIN Travel
          /\ start >= trip.free + Travel[edge].minutes + TransitionBuffer
          /\ next.cost = trip.cost + PlaceCost(p) + Travel[edge].cost
      BY <2>2, <3>1 DEF Follows
    <3>3. Travel[edge].minutes \in Nat /\ Travel[edge].cost \in Nat /\ TransitionBuffer \in Nat
      BY <3>2, TravelAssumption DEF TransitionBuffer
    <3>4. /\ Leg(path, p).minutes = Travel[edge].minutes /\ Leg(path, p).buffer = TransitionBuffer
          /\ Leg(path, p).cost = Travel[edge].cost
      BY <1>1, <2>2, <3>1 DEF Leg
    <3>5. HasEdge(path, p)
      BY <1>1, <3>1, <3>2 DEF HasEdge
    <3>6. PICK m \in Nat, c \in Nat, b \in Nat :
            m = Travel[edge].minutes /\ c = Travel[edge].cost /\ b = TransitionBuffer
      BY <3>3
    <3>7. a.earliest = path.finish + m + b /\ a.base = path.cost + PlaceCost(p) + c
      BY <1>7, <3>4, <3>6
    <3>8. start >= trip.free + m + b /\ next.cost = trip.cost + PlaceCost(p) + c
      BY <3>2, <3>6
    <3> QED
      BY <1>1, <1>2, <1>4, <3>5, <3>7, <3>8
  <2> QED
    BY <2>1, <2>2
<1>9. p \in {q \in pool : CanAppend(path, q) /\ Len(path.ids) < PaceCap /\ HasEdge(path, q)}
  BY <1>3, <1>5, <1>8
<1>10. a \in Arrivals(path)
  BY <1>6, <1>9 DEF Arrivals
<1> QED
  BY <1>7, <1>8, <1>10

LEMMA StopIsFollowed ==
  ASSUME Ready, pool = Eligible, NothingNeedsFood, HoursGoOn,
         NEW n \in Nat, n < PaceCap, NEW trip, TripOk(trip, n), Followed(trip), NEW next \in StopsAfter(trip)
  PROVE  Followed(next)
<1> SUFFICES ASSUME next.cost <= Budget, LocksAreDue(next.ids)
             PROVE  \E path : Reached(path) /\ KeepsUp(path, next)
  BY DEF Followed
<1>1. trip.ids \in Seq(Eligible) /\ trip.cost \in Nat /\ trip.free \in Int
  BY DEF TripOk
<1>2. input \in Inputs /\ Budget \in Nat /\ next.cost \in Nat
  BY TripGoesOn DEF Ready, TripOk
<1>3. PICK p, start : Follows(next, trip, p, start)
  BY <1>1, <1>2, StopFollows
<1>4. /\ p \in Place /\ start \in Int /\ MayVisit(p, start)
      /\ next.ids = Append(trip.ids, p) /\ next.free = start + Here(p).duration
  BY <1>2, <1>3, HalfHoursAreTimes DEF Follows, Eligible
<1>5. trip.ids \in Seq(Place)
  <2>1. Eligible \subseteq Place
    BY DEF Eligible
  <2> QED
    BY <1>1, <2>1, SeqMonotonic
<1>6. LocksAreDue(trip.ids) /\ IsDue(p, trip.ids)
  <2>1. LocksAreDue(Append(trip.ids, p))
    BY <1>4
  <2> QED
    BY <1>4, <1>5, <2>1, DueAtTheEnd
<1>7. trip.cost <= Budget
  <2>1. PlaceCost(p) \in Nat
    BY <1>2, <1>4, AmountsAreNumbers
  <2>2. CASE trip.ids = <<>>
    <3>1. next.cost = trip.cost + PlaceCost(p)
      BY <1>3, <2>2 DEF Follows
    <3> QED
      BY <1>1, <1>2, <2>1, <3>1
  <2>3. CASE trip.ids # <<>>
    <3>1. PICK edge \in DOMAIN Travel : next.cost = trip.cost + PlaceCost(p) + Travel[edge].cost
      BY <1>3, <2>3 DEF Follows
    <3>2. Travel[edge].cost \in Nat
      BY TravelAssumption
    <3> QED
      BY <1>1, <1>2, <2>1, <3>1, <3>2
  <2> QED
    BY <2>2, <2>3
<1>8. PICK path : Reached(path) /\ KeepsUp(path, trip)
  BY <1>6, <1>7 DEF Followed
<1>9. PathOk(path) /\ path.cost \in Int
  BY <1>8, ReachedIsOk DEF Comparable
<1>10. PICK a \in Arrivals(path) :
         a.place = p /\ a.earliest \in Int /\ a.earliest <= start /\ a.base = next.cost
  BY <1>3, <1>4, <1>6, <1>8, <1>9, ArrivalIsFound
<1>11. /\ Here(p).duration \in Nat \ {0} /\ IsVenue(Here(p)) /\ NightsGoOn(Here(p))
       /\ Latest \in Int
  <2>1. input.catalog \in DOMAIN Catalog /\ input.start \in Nat /\ input.duration \in Nat
    BY <1>2, InputAssumption
  <2> QED
    BY <1>4, <2>1, CatalogAssumption DEF Here, HoursGoOn, Latest
<1>12. start + Here(p).duration <= Latest /\ OneWindowCovers(Here(p), start, start + Here(p).duration)
  BY <1>4 DEF MayVisit
<1>13. PICK t \in VisitStart(p, a.earliest) : t \in Int /\ t <= start
  <2>1. \E t \in EarliestVisitStart(Here(p), a.earliest, Latest, Here(p).duration) : t \in Int /\ t <= start
    BY <1>4, <1>10, <1>11, <1>12, VisitIsFound
  <2> QED
    BY <2>1 DEF VisitStart
<1>14. PICK visit : visit = [selection |-> Foodless, start |-> t]
  OBVIOUS
<1>15. visit \in VisitsAfter(a)
  <2>1. ~ NeedsFood(a.place)
    BY <1>4, <1>10 DEF NothingNeedsFood
  <2> QED
    BY <1>10, <1>13, <1>14, <2>1 DEF VisitsAfter
<1>16. PICK longer : longer = AppendStop(path, a, visit)
  OBVIOUS
<1>17. /\ longer.ids = Append(path.ids, p) /\ longer.cost = a.base + FoodMax(Foodless)
       /\ longer.finish = t + Here(p).duration
  BY <1>10, <1>14, <1>16 DEF AppendStop
<1>18. longer.cost = next.cost /\ longer.finish <= next.free /\ longer.finish <= Latest
  <2>1. FoodMax(Foodless) = 0
    BY <1>2, <1>4, AmountsAreNumbers
  <2>2. longer.cost = next.cost
    BY <1>2, <1>10, <1>17, <2>1
  <2> QED
    BY <1>4, <1>11, <1>12, <1>13, <1>17, <2>2
<1>19. a.earliest <= Latest /\ a.base <= Budget
  BY <1>4, <1>10, <1>11, <1>12
<1>20. longer \in Extensions(path)
  BY <1>10, <1>15, <1>16, <1>18, <1>19 DEF Extensions
<1>21. Reached(longer)
  BY <1>8, <1>20, ReachedGoesOn
<1>22. longer.ids = next.ids
  BY <1>4, <1>8, <1>17 DEF KeepsUp
<1> QED
  BY <1>18, <1>21, <1>22 DEF KeepsUp

LEMMA TripsAreFollowed ==
  ASSUME Ready, pool = Eligible, NothingNeedsFood, HoursGoOn,
         NEW T, TripLevels(T), NEW n \in 0 .. PaceCap, NEW trip \in T[n]
  PROVE  Followed(trip)
<1> DEFINE Bad == {m \in 0 .. PaceCap : \E t \in T[m] : ~ Followed(t)}
<1>1. SUFFICES ASSUME Bad # {} PROVE FALSE
  OBVIOUS
<1>2. Bad \in SUBSET Nat
  BY PaceIsNatural
<1>3. PICK m \in Bad : \A l \in Bad : m <= l
  BY <1>1, <1>2, LeastExists
<1>4. PICK t \in T[m] : ~ Followed(t)
  BY <1>3
<1>5. m # 0
  <2>1. SUFFICES ASSUME m = 0 PROVE FALSE
    OBVIOUS
  <2>2. t = NoTrip
    BY <1>4, <2>1 DEF TripLevels
  <2>3. t.ids = <<>> /\ t.free = input.start /\ t.cost = 0
    BY <2>2 DEF NoTrip
  <2>4. Root.ids = <<>> /\ Root.finish = input.start /\ Root.cost = 0
    BY DEF Root
  <2>5. input.start \in Nat
    BY InputAssumption DEF Ready
  <2>6. KeepsUp(Root, t)
    BY <2>3, <2>4, <2>5 DEF KeepsUp
  <2> QED
    BY <1>4, <2>6, RootIsReached DEF Followed
<1>6. m \in 1 .. PaceCap /\ m - 1 \in 0 .. PaceCap /\ m - 1 \in Nat /\ m - 1 < PaceCap /\ m - 1 \notin Bad
  BY <1>3, <1>5, PaceIsNatural
<1>7. PICK before \in T[m - 1] : t \in StopsAfter(before)
  BY <1>4, <1>6 DEF TripLevels
<1>8. Followed(before)
  BY <1>6, <1>7
<1>9. TripOk(before, m - 1)
  BY <1>6, <1>7, TripsAreOk DEF Ready
<1> QED
  BY <1>4, <1>6, <1>7, <1>8, <1>9, StopIsFollowed

\* What is possible, the engine can reach.
LEMMA PossibleIsReached ==
  ASSUME Ready, pool = Eligible, NothingNeedsFood, HoursGoOn, Possibly
  PROVE  \E n \in Nat : \E c : Chain(c, n) /\ PathIsValid(c[n])
<1>1. PICK T : /\ TripLevels(T)
               /\ \E n \in 1 .. PaceCap : \E trip \in T[n] : trip.cost <= Budget /\ InLockOrder(trip.ids)
  BY DEF Possibly
<1>2. PICK n \in 1 .. PaceCap : \E trip \in T[n] : trip.cost <= Budget /\ InLockOrder(trip.ids)
  BY <1>1
<1>3. PICK trip \in T[n] : trip.cost <= Budget /\ InLockOrder(trip.ids)
  BY <1>2
<1>4. n \in 0 .. PaceCap /\ n # 0
  BY PaceIsNatural
<1>5. TripOk(trip, n) /\ Followed(trip)
  BY <1>1, <1>3, <1>4, TripsAreOk, TripsAreFollowed DEF Ready
<1>6. trip.ids \in Seq(Eligible) /\ Len(trip.ids) = n /\ IsInjective(trip.ids)
  BY <1>5 DEF TripOk
<1>7. LocksAreDue(trip.ids)
  <2>1. Eligible \subseteq Place
    BY DEF Eligible
  <2>2. trip.ids \in Seq(Place)
    BY <1>6, <2>1, SeqMonotonic
  <2> QED
    BY <1>3, <1>6, <2>2, OrderedLocksAreDue DEF Ready
<1>8. PICK path : Reached(path) /\ path.ids = trip.ids
  BY <1>3, <1>5, <1>7 DEF Followed, KeepsUp
<1>9. PathIsValid(path)
  <2>1. path.ids # <<>>
    BY <1>4, <1>6, <1>8
  <2>2. Locked \subseteq ToSet(path.ids)
    BY <1>3, <1>8 DEF InLockOrder
  <2> QED
    BY <2>1, <2>2 DEF PathIsValid
<1> QED
  BY <1>8, <1>9 DEF Reached

-----------------------------------------------------------------------------
\* The engine calls only the impossible infeasible

LEMMA TripsStay ==
  ASSUME input' = input
  PROVE  Possibly' = Possibly /\ NothingNeedsFood' = NothingNeedsFood
<1>1. \A p : Here(p)' = Here(p) /\ PlaceCost(p)' = PlaceCost(p)
  BY CatalogueStays
<1>2. HalfHours' = HalfHours
  BY DEF HalfHours
<1>3. \A p, s : MayVisit(p, s)' = MayVisit(p, s)
  BY <1>1, InputDecides DEF MayVisit
<1>4. \A trip : StopsAfter(trip)' = StopsAfter(trip)
  <2> SUFFICES ASSUME NEW trip PROVE StopsAfter(trip)' = StopsAfter(trip)
    OBVIOUS
  <2> DEFINE Starts(p) ==
               {s \in HalfHours :
                  /\ MayVisit(p, s)
                  /\ trip.ids # <<>> =>
                       /\ <<Last(trip.ids), p>> \in DOMAIN Travel
                       /\ s >= trip.free + Travel[<<Last(trip.ids), p>>].minutes + TransitionBuffer}
             Stops(p) ==
               {[ids |-> Append(trip.ids, p), free |-> start + Here(p).duration,
                 cost |-> trip.cost + PlaceCost(p) + (IF trip.ids = <<>> THEN 0 ELSE Travel[<<Last(trip.ids), p>>].cost)] :
                  start \in Starts(p)}
  <2>1. Eligible' = Eligible
    BY CatalogueStays
  <2>2. \A p : Starts(p)' = Starts(p)
    BY <1>2, <1>3
  <2>3. \A p : Stops(p)' = Stops(p)
    <3> HIDE DEF Starts
    <3> QED
      BY <1>1, <2>2
  <2>4. StopsAfter(trip) = UNION {Stops(p) : p \in Eligible \ ToSet(trip.ids)}
    BY DEF StopsAfter
  <2>5. StopsAfter(trip)' = UNION {Stops(p)' : p \in Eligible' \ ToSet(trip.ids)}
    BY DEF StopsAfter
  <2> HIDE DEF Stops
  <2> QED
    BY <2>1, <2>3, <2>4, <2>5
<1>5. NoTrip' = NoTrip
  BY DEF NoTrip
<1>6. \A T : TripLevels(T)' = TripLevels(T)
  BY <1>4, <1>5, InputDecides DEF TripLevels
<1>7. \A ids : InLockOrder(ids)' = InLockOrder(ids)
  BY InputDecides DEF InLockOrder
<1>8. Possibly' = Possibly
  BY <1>6, <1>7, InputDecides DEF Possibly
<1>9. NothingNeedsFood' = NothingNeedsFood
  BY InputDecides DEF NothingNeedsFood
<1> QED
  BY <1>8, <1>9

\* Without candidates there is no trip.
LEMMA NobodyTravels ==
  ASSUME input \in Inputs, Eligible = {}
  PROVE  ~ Possibly
<1> SUFFICES ASSUME Possibly PROVE FALSE
  OBVIOUS
<1>1. PICK T : TripLevels(T) /\ \E n \in 1 .. PaceCap : \E trip \in T[n] : TRUE
  BY DEF Possibly
<1>2. PICK n \in 1 .. PaceCap : \E trip \in T[n] : TRUE
  BY <1>1
<1>3. PICK trip \in T[n] : TRUE
  BY <1>2
<1>4. n \in 0 .. PaceCap /\ n >= 1
  BY PaceIsNatural
<1>5. trip.ids \in Seq(Eligible) /\ Len(trip.ids) = n
  BY <1>1, <1>4, TripsAreOk DEF TripOk
<1>6. trip.ids[1] \in Eligible
  BY <1>4, <1>5
<1> QED
  BY <1>6

\* Without a valid path there is no trip that keeps the rules.
LEMMA NothingIsPossible ==
  ASSUME Ready, pool = Eligible, NothingNeedsFood, HoursGoOn,
         \A n \in Nat : \A c : Chain(c, n) => ~ PathIsValid(c[n])
  PROVE  ~ Possibly
BY PossibleIsReached

RefuseInv ==
  /\ stage \in Working /\ NothingNeedsFood => pool = Eligible
  /\ outcome.code = "NO_FEASIBLE_ITINERARY" /\ Locked \subseteq Eligible /\ NothingNeedsFood => ~ Possibly

LEMMA RefuseInvInit == Init => RefuseInv
BY DEF Init, Pending, RefuseInv, Working

\* Without food the validator finds nothing to repair.
LEMMA NothingToRepair ==
  ASSUME SearchInv, ReckonInv, stage = "validate", NothingNeedsFood
  PROVE  Acceptable
<1>1. Issues = {}
  BY ScheduleAgrees DEF Expected, NothingNeedsFood
<1> QED
  BY <1>1 DEF Acceptable

LEMMA RefusalStays ==
  ASSUME RefuseInv, input' = input, outcome'.code # "NO_FEASIBLE_ITINERARY" \/ outcome' = outcome,
         stage' \in Working => (stage \in Working /\ pool' = pool) \/ pool' = Eligible
  PROVE  RefuseInv'
<1>1. /\ Possibly' = Possibly /\ NothingNeedsFood' = NothingNeedsFood
      /\ Eligible' = Eligible /\ Locked' = Locked
  BY TripsStay, CatalogueStays, InputDecides
<1> QED
  BY <1>1 DEF RefuseInv, Working

LEMMA RefusalIsRight ==
  ASSUME input' = input, stage' = "done", Locked \subseteq Eligible /\ NothingNeedsFood => ~ Possibly
  PROVE  RefuseInv'
<1>1. /\ Possibly' = Possibly /\ NothingNeedsFood' = NothingNeedsFood
      /\ Eligible' = Eligible /\ Locked' = Locked
  BY TripsStay, CatalogueStays, InputDecides
<1> QED
  BY <1>1 DEF RefuseInv, Working

LEMMA RefuseInvNext ==
  ASSUME HoursGoOn
  PROVE  SearchInv /\ ReckonInv /\ TypeInv /\ CompleteInv /\ RefuseInv /\ [Next]_vars => RefuseInv'
<1> SUFFICES ASSUME SearchInv, ReckonInv, TypeInv, CompleteInv, RefuseInv, [Next]_vars PROVE RefuseInv'
  OBVIOUS
<1>1. CASE RefuseInput
  <2>1. input' = input /\ stage' = "done" /\ outcome'.code = Refusal /\ input \in Inputs
    BY <1>1 DEF RefuseInput, Answer, SearchInv
  <2>2. CASE Refusal # "NO_FEASIBLE_ITINERARY"
    BY <2>1, <2>2, RefusalStays DEF Working
  <2>3. CASE Refusal = "NO_FEASIBLE_ITINERARY"
    <3>1. Eligible = {} \/ ~ Locked \subseteq Eligible
      <4>1. BudgetError # "NO_FEASIBLE_ITINERARY"
        BY DEF BudgetError
      <4> QED
        BY <2>3, <4>1 DEF Refusal
    <3> QED
      BY <2>1, <3>1, NobodyTravels, RefusalIsRight
  <2> QED
    BY <2>2, <2>3
<1>2. CASE FilterCandidates
  <2>1. input' = input /\ outcome' = outcome /\ pool' = Eligible
    BY <1>2 DEF FilterCandidates, Schedule
  <2> QED
    BY <2>1, RefusalStays
<1>3. CASE ExpandBeam \/ StartSearch
  <2>1. input' = input /\ outcome' = outcome /\ pool' = pool /\ stage \in Working
    BY <1>3 DEF ExpandBeam, StartSearch, Working
  <2> QED
    BY <2>1, RefusalStays
<1>4. CASE SettleBeam
  <2>1. /\ input' = input /\ pool' = pool /\ stage = "beam" /\ stage \in Working
        /\ best # {} \/ input.locked = <<>>
        /\ best' = IF best # {} THEN best ELSE BetterOf(Extensions(Root))
        /\ best' # {} => outcome' = outcome
        /\ best' = {} => stage' = "done"
    BY <1>4 DEF SettleBeam, Answer, Working
  <2>2. CASE best' # {}
    BY <2>1, <2>2, RefusalStays
  <2>3. CASE best' = {}
    <3>1. Ready /\ best = {} /\ BetterOf(Extensions(Root)) = {} /\ input.locked = <<>>
      BY <2>1, <2>3, ReadyToWork
    <3>2. \A path \in Extensions(Root) : PathIsValid(path)
      <4> SUFFICES ASSUME NEW path \in Extensions(Root) PROVE PathIsValid(path)
        OBVIOUS
      <4>1. WellFormed(Root)
        BY <3>1, RootIsReached, ReachedIsOk DEF PathOk
      <4>2. PICK p : path.ids = Append(Root.ids, p)
        BY <3>1, <4>1, ExtensionAdds DEF Ready
      <4>3. path.ids # <<>>
        <5>1. Append(<<>>, p) # <<>>
          OBVIOUS
        <5> QED
          BY <4>2, <5>1 DEF Root
      <4> QED
        BY <3>1, <4>3 DEF PathIsValid
    <3>3. Extensions(Root) = {}
      <4>1. IsFiniteSet(Extensions(Root)) /\ IsFiniteSet(best)
        BY <3>1, RootIsReached, ReachedIsOk, ExtensionsAreFinite, FS_EmptySet DEF Ready, PathOk
      <4>2. \A path \in Extensions(Root) \cup best : Reached(path)
        BY <3>1, RootIsReached, ReachedGoesOn
      <4>3. \A path \in Extensions(Root) : Beats(BetterOf(Extensions(Root)), path)
        BY <3>1, <3>2, <4>1, <4>2, BetterBeats
      <4> QED
        BY <3>1, <4>3 DEF Beats
    <3>4. ASSUME NEW n \in Nat, NEW c, Chain(c, n), PathIsValid(c[n]) PROVE FALSE
      <4>1. n # 0
        BY <3>1, <3>4, RootIsNotValid DEF Chain, Ready
      <4>2. 0 \in 0 .. n - 1 /\ 0 + 1 = 1
        BY <4>1
      <4>3. c[1] \in Extensions(c[0])
        BY <3>4, <4>2 DEF Chain
      <4> QED
        BY <3>3, <3>4, <4>3 DEF Chain
    <3>5. NothingNeedsFood => pool = Eligible
      BY <2>1 DEF RefuseInv
    <3>6. NothingNeedsFood => ~ Possibly
      BY <3>1, <3>4, <3>5, NothingIsPossible
    <3> QED
      BY <2>1, <2>3, <3>6, RefusalIsRight
  <2> QED
    BY <2>2, <2>3
<1>5. CASE Visit
  <2>1. /\ input' = input /\ pool' = pool /\ stage \in Working
        /\ outcome'.code # "NO_FEASIBLE_ITINERARY" \/ outcome' = outcome
    BY <1>5 DEF Visit, Answer, Working
  <2> QED
    BY <2>1, RefusalStays
<1>6. CASE SettleSearch
  <2>1. /\ input' = input /\ pool' = pool /\ stage = "search" /\ stage \in Working /\ frontier = {}
        /\ best # {} => outcome' = outcome
        /\ best = {} => stage' = "done"
    BY <1>6 DEF SettleSearch, Answer, Working
  <2>2. CASE best # {}
    BY <2>1, <2>2, RefusalStays
  <2>3. CASE best = {}
    <3>1. Ready /\ SearchIsComplete
      BY <2>1, ReadyToWork DEF CompleteInv
    <3>2. ASSUME NEW n \in Nat, NEW c, Chain(c, n) PROVE ~ PathIsValid(c[n])
      BY <2>1, <2>3, <3>1, <3>2 DEF SearchIsComplete, Beats
    <3>3. NothingNeedsFood => pool = Eligible
      BY <2>1 DEF RefuseInv
    <3>4. NothingNeedsFood => ~ Possibly
      BY <3>1, <3>2, <3>3, NothingIsPossible
    <3> QED
      BY <2>1, <2>3, <3>4, RefusalIsRight
  <2> QED
    BY <2>2, <2>3
<1>7. CASE Accept
  <2>1. input' = input /\ stage' = "done" /\ outcome'.code = "ok"
    BY <1>7 DEF Accept, Answer
  <2> QED
    BY <2>1, RefusalStays DEF Working
<1>8. CASE Repair \/ RefuseRepair
  <2>1. stage = "validate" /\ ~ Acceptable /\ input' = input
    BY <1>8 DEF Repair, RefuseRepair
  <2>2. ~ NothingNeedsFood
    BY <2>1, NothingToRepair
  <2>3. ~ NothingNeedsFood'
    BY <2>1, <2>2, TripsStay
  <2> QED
    BY <2>3 DEF RefuseInv
<1>9. CASE RefuseResult
  <2>1. input' = input /\ stage' = "done" /\ outcome'.code = "INVALID_ITINERARY_RESULT"
    BY <1>9 DEF RefuseResult, Answer
  <2> QED
    BY <2>1, RefusalStays DEF Working
<1>10. CASE UNCHANGED vars
  <2>1. input' = input /\ outcome' = outcome /\ pool' = pool /\ stage' = stage
    BY <1>10 DEF vars
  <2> QED
    BY <2>1, RefusalStays
<1> QED
  BY <1>1, <1>2, <1>3, <1>4, <1>5, <1>6, <1>7, <1>8, <1>9, <1>10 DEF Next

\* Where nights go on as the schemas have it, the engine refuses an input without
\* food only when no order of candidates and no start times keep the rules:
\* scheduleItinerary and its fallback lose no itinerary (scheduler.ts).
THEOREM RefusalsAreRight ==
  ASSUME HoursGoOn
  PROVE  Spec => []RefusesOnlyTheImpossible
<1>1. RefuseInv => RefusesOnlyTheImpossible
  BY PossibleIsDefined DEF RefuseInv, RefusesOnlyTheImpossible
<1>2. SearchInv /\ ReckonInv /\ TypeInv /\ CompleteInv /\ RefuseInv /\ [Next]_vars => RefuseInv'
  BY RefuseInvNext
<1> QED
  BY <1>1, <1>2, SpecTypeInv, SpecAnswerInv, CompleteInvInit, CompleteInvNext, RefuseInvInit, PTL DEF Spec
=============================================================================
