-------------------------- MODULE EngineProperties --------------------------
(***************************************************************************)
(* What the itinerary engine promises, stated without its search: the      *)
(* definitions below say when a visit, a path and an answer are right, not *)
(* how the engine finds them.                                              *)
(***************************************************************************)
EXTENDS ItineraryEngine

-----------------------------------------------------------------------------
\* A reference for opening hours

\* A window that began on some day keeps the venue open from a to b, and no
\* exception takes over at the midnight in between.
OneWindowCovers(venue, a, b) ==
  \E day \in DayOf(a) - 1 .. DayOf(a) : \E w \in WindowsOn(venue, day) :
    LET opens  == day * MinutesPerDay + w.open
        closes == day * MinutesPerDay + w.close + (IF w.close > w.open THEN 0 ELSE MinutesPerDay)
    IN /\ opens <= a /\ b <= closes
       /\ b > (day + 1) * MinutesPerDay => ExceptionsOn(venue, day + 1) = {}

\* Whether a visit may take place at all.
MayVisit(p, start) ==
  /\ start >= input.start
  /\ start + Here(p).duration <= Latest
  /\ OneWindowCovers(Here(p), start, start + Here(p).duration)

InLockOrder(ids) ==
  /\ Locked \subseteq ToSet(ids)
  /\ \A k \in 2 .. Len(input.locked) : \A i, j \in DOMAIN ids :
       ids[i] = input.locked[k - 1] /\ ids[j] = input.locked[k] => i < j

-----------------------------------------------------------------------------
\* A reference for whole itineraries, without food

\* The start times the reference tries: half hours from the requested start.
HalfHours == {input.start + 30 * k : k \in 0 .. (input.duration \div 30)}

\* One more candidate, with any start time that keeps the rules.
StopsAfter(trip) ==
  UNION {{[ids |-> Append(trip.ids, p), free |-> start + Here(p).duration,
           cost |-> trip.cost + PlaceCost(p) + (IF trip.ids = <<>> THEN 0 ELSE Travel[<<Last(trip.ids), p>>].cost)] :
            start \in
              {s \in HalfHours :
                 /\ MayVisit(p, s)
                 /\ trip.ids # <<>> =>
                      /\ <<Last(trip.ids), p>> \in DOMAIN Travel
                      /\ s >= trip.free + Travel[<<Last(trip.ids), p>>].minutes + TransitionBuffer}} :
          p \in Eligible \ ToSet(trip.ids)}

\* Some order of some candidates with some start times keeps every rule.
Possible ==
  LET trips[n \in 0 .. PaceCap] ==
        IF n = 0 THEN {[ids |-> <<>>, free |-> input.start, cost |-> 0]}
        ELSE UNION {StopsAfter(trip) : trip \in trips[n - 1]}
  IN \E n \in 1 .. PaceCap : \E trip \in trips[n] : trip.cost <= Budget /\ InLockOrder(trip.ids)

NothingNeedsFood == \A p \in Place : ~ NeedsFood(p)

-----------------------------------------------------------------------------
\* Invariants

Codes == {"pending", "ok", "USD_DISABLED", "INVALID_ITINERARY_INPUT", "NO_FEASIBLE_ITINERARY",
          "ITINERARY_SEARCH_LIMIT", "INVALID_ITINERARY_RESULT"}

Paths == beam \cup frontier \cup best

\* Every variable ranges over what the engine works with: candidates of the
\* catalogue, a complete order of them, paths through them, a count under its cap.
TypeOK ==
  /\ input.catalog \in DOMAIN Catalog
  /\ stage \in {"input", "beam", "search", "validate", "done"}
  /\ pool \subseteq Place
  /\ ToSet(rank) = pool /\ IsInjective(rank)
  /\ DOMAIN pinned \subseteq Place
  /\ \A path \in Paths : ToSet(path.ids) \subseteq pool /\ Len(path.stops) = Len(path.ids)
  /\ Cardinality(beam) <= BeamWidth
  /\ visited \in 0 .. StateCap
  /\ repaired \in BOOLEAN
  /\ outcome.code \in Codes

\* Whatever the search has put together so far keeps the rules of the scheduler:
\* no stop twice, the locked ones in their order, each stop after the trip and
\* the buffer from the one before, all of it within the requested time and budget.
PathsKeepRules ==
  \A path \in Paths :
    /\ IsInjective(path.ids)
    /\ Len(path.ids) <= PaceCap
    /\ \A i \in DOMAIN path.ids :
         path.ids[i] \in Locked =>
           path.ids[i] = input.locked[Cardinality(ToSet(SubSeq(path.ids, 1, i - 1)) \cap Locked) + 1]
    /\ path.cost <= Budget /\ path.finish <= Latest
    /\ \A i \in DOMAIN path.stops :
         path.stops[i].start >=
           IF i = 1 THEN input.start
           ELSE path.stops[i - 1].end + path.stops[i].minutes + TransitionBuffer

\* A schedule that can be carried out: it keeps the locked stops and their order,
\* every visit lies in one opening of its place, there is time for every trip, and
\* there is something to eat at a food stop unless the customer keeps it without.
Feasible(path) ==
  LET stops == path.stops
      ids   == [i \in DOMAIN stops |-> stops[i].place]
  IN /\ stops # <<>>
     /\ IsInjective(ids) /\ InLockOrder(ids)
     /\ \A i \in DOMAIN stops : MayVisit(ids[i], stops[i].start)
     /\ \A i \in 2 .. Len(stops) :
          /\ <<ids[i - 1], ids[i]>> \in DOMAIN Travel
          /\ stops[i].start >= stops[i - 1].start + Here(ids[i - 1]).duration
                                 + Travel[<<ids[i - 1], ids[i]>>].minutes + TransitionBuffer
     /\ \A i \in DOMAIN stops :
          NeedsFood(ids[i]) =>
            \/ VerifyFoodSelection(ids[i], stops[i].food)
            \/ ids[i] \in DOMAIN input.selections /\ input.selections[ids[i]] = Foodless

\* An itinerary the engine returns is feasible, at once or after its repair.
AnswerIsFeasible == outcome.code = "ok" => Feasible(outcome.path)

\* Without food to choose, the engine calls only the impossible infeasible: no
\* order of candidates and no start times would have kept the rules. In
\* particular the beam's cut never loses the only way through the locked stops.
RefusesOnlyTheImpossible ==
  outcome.code = "NO_FEASIBLE_ITINERARY" /\ Locked \subseteq Eligible /\ NothingNeedsFood => ~ Possible

\* The paths the scheduler can build, in any order of stops.
Reachable ==
  LET deep[n \in 0 .. PaceCap] ==
        IF n = 0 THEN {Root} ELSE UNION {Extensions(path) : path \in deep[n - 1]}
  IN [n \in 0 .. PaceCap |-> deep[n]]

\* An itinerary is the best by the product's rule (score, cost, finish, names)
\* whenever the search was complete: the beam cut nothing, or the depth-first
\* search was not stopped.
BestWhenComplete ==
  outcome.code = "ok" =>
    LET paths == Reachable
        beamNeverCut == \A n \in DOMAIN paths : Cardinality(paths[n]) <= BeamWidth
    IN visited > 0 \/ beamNeverCut =>
         \A path \in UNION {paths[n] : n \in DOMAIN paths} :
           PathIsValid(path) /\ path # outcome.path => Preferred(outcome.path, path)

\* The scheduler and the validator, which computes times, costs, scores, trips
\* and locks once more, agree on every schedule with two exceptions, both at a
\* food stop: one kept without food, and one whose visit lies across two windows
\* that touch, which the food opening joins and the place's own does not.
ValidatorAgrees ==
  stage = "validate" =>
    \A issue \in Issues :
      /\ issue.key \in {"food.selection.missing", "opening_hours"}
      /\ NeedsFood(issue.place)

\* A dish the customer keeps at a locked stop is served there, before and after
\* a repair, at the price it was chosen for.
LockedFoodIsKept ==
  outcome.code = "ok" =>
    \A i \in DOMAIN outcome.path.stops :
      LET stop == outcome.path.stops[i] IN
      stop.place \in Locked \cap DOMAIN input.selections => stop.food = input.selections[stop.place]

\* The validator's own sum at the highest prices is within the budget, and
\* converted back to dollars, rounded up to the cent, it never costs more than the
\* dollars that were rounded down to make the budget.
WithinBudget ==
  outcome.code = "ok" =>
    /\ GroupCostMax(outcome.path.stops) <= Budget
    /\ input.budget.currency = "USD" =>
         \A rate \in input.fx :
           VndToUsdCentsCeil(GroupCostMax(outcome.path.stops), rate) <= input.budget.amount

-----------------------------------------------------------------------------
\* Liveness

\* The engine answers every input: the beam ends with the stops, the search with
\* its cap, and a schedule is repaired at most once.
EngineAnswers == <>(stage = "done")
=============================================================================
