--------------------------- MODULE ItineraryEngine ---------------------------
(***************************************************************************)
(* The itinerary engine, lib/domain/itinerary: createItinerary filters the *)
(* catalogue, ranks what is left, schedules it with a beam search and, if  *)
(* the beam loses the locked stops, a bounded depth-first search, checks   *)
(* the schedule with a validator that computes everything again, and       *)
(* repairs it at most once.                                                *)
(*                                                                         *)
(* The engine is a pure function. Its loops are the steps here, so that a  *)
(* search that is cut short is seen in the middle; its input never changes.*)
(* Support, language, area and sellability flags of a place, vendor or dish*)
(* are one Boolean, "fits". Amounts are VND and stay far below 2^53, where *)
(* money.ts would refuse them: contracts.ts caps every price.              *)
(***************************************************************************)
EXTENDS OpeningHours, FiniteSetsExt, SequencesExt

CONSTANTS
  Place,       \* the identifiers of places, numbers in their text order
  Catalog,     \* the catalogue snapshots: a function from Place to places each
  Travel,      \* the travel snapshot: from pairs of places to a trip
  Inputs,      \* the engine inputs considered
  BeamWidth,   \* BEAM_WIDTH: partial paths kept per depth
  StateCap     \* DFS_STATE_CAP: paths the fallback may visit

\* What the schemas of contracts.ts admit.
ASSUME PlaceAssumption == Place \subseteq Nat /\ IsFiniteSet(Place)
ASSUME CapAssumption   == BeamWidth \in Nat \ {0} /\ StateCap \in Nat \ {0}
ASSUME CatalogAssumption ==
  \A c \in DOMAIN Catalog : \A p \in Place :
    /\ Catalog[c][p].duration \in Nat \ {0} /\ Catalog[c][p].price \in Nat
    /\ IsVenue(Catalog[c][p])
    /\ DOMAIN Catalog[c][p].vendors \subseteq Nat
    /\ \A v \in DOMAIN Catalog[c][p].vendors : LET vendor == Catalog[c][p].vendors[v] IN
         /\ IsVenue(vendor) /\ DOMAIN vendor.menu \subseteq Nat
         /\ \A d \in DOMAIN vendor.menu : vendor.menu[d].min \in Nat /\ vendor.menu[d].max \in Nat
ASSUME TravelAssumption == \A e \in DOMAIN Travel : Travel[e].minutes \in Nat /\ Travel[e].cost \in Nat
ASSUME InputAssumption ==
  \A i \in Inputs :
    /\ i.catalog \in DOMAIN Catalog
    /\ i.start \in Nat /\ i.duration \in Nat /\ i.party \in Nat \ {0}
    /\ i.budget.amount \in Nat
    /\ \A r, s \in i.fx : r = s /\ r.num \in Nat \ {0} /\ r.den \in Nat \ {0}
    /\ i.locked \in Seq(Place) /\ IsInjective(i.locked)
    /\ i.ranked \in Seq(Nat)
    /\ \A p \in Place : \A t \in Catalog[i.catalog][p].types : i.weights[t] \in 0 .. 5

VARIABLES
  input,    \* the request, the catalogue it names, the rate and the ranking
  stage,    \* where createItinerary is
  pool,     \* the filtered candidates being scheduled
  rank,     \* their complete rank order
  pinned,   \* food selections the schedule must keep, by place
  beam,     \* the paths of the current depth
  frontier, \* the paths the depth-first search has still to visit
  visited,  \* how many it has visited
  best,     \* the best valid path so far: a set of one path, or of none
  repaired, \* whether the one repair was spent
  outcome   \* what createItinerary returned

vars == <<input, stage, pool, rank, pinned, beam, frontier, visited, best, repaired, outcome>>

GlobalStopCap    == 8
TransitionBuffer == 10
FxMaxAgeHours    == 168
FoodTypes        == {"street_food", "traditional_market"}

Foodless == [vendor |-> 0, item |-> 0, quantity |-> 0, min |-> 0, max |-> 0]
NoPath   == [ids |-> <<>>, stops |-> <<>>, score |-> -1, cost |-> 0, finish |-> 0]
Pending  == [code |-> "pending", path |-> NoPath]

\* A place in the catalogue of the input.
Here(p) == Catalog[input.catalog][p]

-----------------------------------------------------------------------------
\* Money

\* Rounded up: the budget in VND is worth more than the dollars.
UsdCentsToVndUp(cents, rate) == (cents * rate.num + 100 * rate.den - 1) \div (100 * rate.den)

UsdCentsToVndFloor(cents, rate) == (cents * rate.num) \div (100 * rate.den)

VndToUsdCentsCeil(vnd, rate) == (vnd * 100 * rate.den + rate.num - 1) \div rate.num

\* The error of normalizeBudgetToVnd, if any: a dollar budget needs a rate that
\* is neither older than a week nor observed in the future.
BudgetError ==
  CASE input.budget.currency = "VND"      -> "none"
    [] input.fx = {}                      -> "USD_DISABLED"
    [] \E r \in input.fx : r.age < 0      -> "INVALID_ITINERARY_INPUT"
    [] \E r \in input.fx : r.age > FxMaxAgeHours -> "USD_DISABLED"
    [] OTHER                              -> "none"

Budget ==
  IF input.budget.currency = "VND" THEN input.budget.amount
  ELSE UsdCentsToVndFloor(input.budget.amount, CHOOSE r \in input.fx : TRUE)

PlaceCost(p) == Here(p).price * input.party

-----------------------------------------------------------------------------
\* Food

Latest == input.start + input.duration

NeedsFood(p) == input.weights["street_food"] > 0 /\ Here(p).types \cap FoodTypes # {}

Quantity(dish) == IF dish.shared THEN 1 ELSE input.party

Dish(p, v, i) ==
  LET dish == Here(p).vendors[v].menu[i] IN
  [vendor |-> v, item |-> i, quantity |-> Quantity(dish), min |-> dish.min, max |-> dish.max]

FoodMax(selection) == selection.max * selection.quantity
FoodMin(selection) == selection.min * selection.quantity

\* The dishes of a vendor within a budget; chooseFoodSelection takes the first.
Affordable(p, v, budget) ==
  LET vendor == Here(p).vendors[v] IN
  {i \in DOMAIN vendor.menu :
     vendor.fits /\ vendor.menu[i].fits /\ FoodMax(Dish(p, v, i)) <= budget}

\* A selection carried over from an earlier schedule must still be on the menu.
VerifyFoodSelection(p, s) ==
  /\ s.vendor \in DOMAIN Here(p).vendors
  /\ s.item \in DOMAIN Here(p).vendors[s.vendor].menu
  /\ Here(p).vendors[s.vendor].fits
  /\ Here(p).vendors[s.vendor].menu[s.item].fits
  /\ s = Dish(p, s.vendor, s.item)

FoodStart(p, v, earliest) ==
  EarliestFoodVisitStart(Here(p), Here(p).vendors[v], earliest, Latest, Here(p).duration)

VisitStart(p, earliest) ==
  EarliestVisitStart(Here(p), earliest, Latest, Here(p).duration)

\* The vendors open in time whose dishes the rest of the budget buys.
OpenVendors(p, earliest, spent) ==
  {v \in DOMAIN Here(p).vendors :
     Affordable(p, v, Budget - spent) # {} /\ FoodStart(p, v, earliest) # {}}

\* What is eaten at a stop and when its visit begins: what was pinned, else the
\* first such vendor with its first such dish. A set of one choice, or of none.
ChooseScheduledFood(p, earliest, spent) ==
  IF p \in DOMAIN pinned
  THEN IF pinned[p] = Foodless
       THEN {[selection |-> Foodless, start |-> s] : s \in VisitStart(p, earliest)}
       ELSE IF VerifyFoodSelection(p, pinned[p]) /\ spent + FoodMax(pinned[p]) <= Budget
       THEN {[selection |-> pinned[p], start |-> s] : s \in FoodStart(p, pinned[p].vendor, earliest)}
       ELSE {}
  ELSE UNION {{[selection |-> Dish(p, v, i), start |-> s] :
                 i \in Earliest(Affordable(p, v, Budget - spent)), s \in FoodStart(p, v, earliest)} :
               v \in Earliest(OpenVendors(p, earliest, spent))}

-----------------------------------------------------------------------------
\* Candidates and their order

MaxWeight(p) == Max({0} \cup {input.weights[t] : t \in Here(p).types})

Locked == ToSet(input.locked)

FoodObtainable(p) ==
  NeedsFood(p) => \E v \in DOMAIN Here(p).vendors :
    /\ Affordable(p, v, Budget - PlaceCost(p)) # {}
    /\ FoodStart(p, v, input.start) # {}

Eligible ==
  {p \in Place :
     /\ Here(p).fits
     /\ PlaceCost(p) <= Budget
     /\ FoodObtainable(p)
     /\ MaxWeight(p) > 0 \/ p \in Locked}

\* Some numbers from the least to the greatest.
InOrder(numbers) ==
  [k \in 1 .. Cardinality(numbers) |->
     CHOOSE n \in numbers : Cardinality({m \in numbers : m <= n}) = k]

\* The ranker's places first, then the others in their text order.
BuildRankOrder(candidates, ranked) == ranked \o InOrder(candidates \ ToSet(ranked))

\* The order of the places that a repair leaves.
RemainingRankOrder(left) ==
  LET kept == InOrder({i \in DOMAIN rank : rank[i] \in left}) IN
  [k \in DOMAIN kept |-> rank[kept[k]]]

ValidRanking(candidates, ranked) == ToSet(ranked) \subseteq candidates /\ IsInjective(ranked)

RankIndex(p) == (CHOOSE i \in DOMAIN rank : rank[i] = p) - 1

ScoreCandidate(p) == MaxWeight(p) * 1000 + (Len(rank) - RankIndex(p))

\* A customer goes without food at a locked stop only, and chooses it at a food stop.
FoodlessStopsAreLocked   == \A p \in DOMAIN input.selections : input.selections[p] = Foodless => p \in Locked
SelectionsAreAtFoodStops == \A p \in DOMAIN input.selections : p \in Place /\ NeedsFood(p)

\* Why the engine refuses the input before it searches.
Refusal ==
  CASE BudgetError # "none"                  -> BudgetError
    [] ~ Locked \subseteq Eligible           -> "NO_FEASIBLE_ITINERARY"
    [] ~ FoodlessStopsAreLocked              -> "INVALID_ITINERARY_INPUT"
    [] ~ ValidRanking(Eligible, input.ranked) -> "INVALID_ITINERARY_INPUT"
    [] Eligible = {}                         -> "NO_FEASIBLE_ITINERARY"
    [] ~ SelectionsAreAtFoodStops            -> "INVALID_ITINERARY_INPUT"
    [] OTHER                                 -> "none"

-----------------------------------------------------------------------------
\* Paths

PaceCap ==
  CASE input.pace = "relaxed"  -> 3
    [] input.pace = "balanced" -> 5
    [] OTHER                   -> GlobalStopCap

Root == [ids |-> <<>>, stops |-> <<>>, score |-> 0, cost |-> 0, finish |-> input.start]

\* Locked stops are taken in any order.
CanAppendAnyLock(path, p) == p \notin ToSet(path.ids)

\* Locked stops are visited in their order; no stop twice.
CanAppend(path, p) ==
  /\ p \notin ToSet(path.ids)
  /\ p \in Locked => p = input.locked[Cardinality(ToSet(path.ids) \cap Locked) + 1]

HasEdge(path, p) == path.ids = <<>> \/ <<Last(path.ids), p>> \in DOMAIN Travel

\* No time to change from one stop to the next.
LegUnbuffered(path, p) ==
  IF path.ids = <<>> THEN [minutes |-> 0, buffer |-> 0, cost |-> 0]
  ELSE [minutes |-> Travel[<<Last(path.ids), p>>].minutes, buffer |-> 0,
        cost |-> Travel[<<Last(path.ids), p>>].cost]

Leg(path, p) ==
  IF path.ids = <<>> THEN [minutes |-> 0, buffer |-> 0, cost |-> 0]
  ELSE [minutes |-> Travel[<<Last(path.ids), p>>].minutes, buffer |-> TransitionBuffer,
        cost |-> Travel[<<Last(path.ids), p>>].cost]

\* Where the path could go next: the trip there, and what is spent before food.
Arrivals(path) ==
  {[place |-> p, leg |-> Leg(path, p),
    earliest |-> path.finish + Leg(path, p).minutes + Leg(path, p).buffer,
    base |-> path.cost + PlaceCost(p) + Leg(path, p).cost] :
     p \in {q \in pool : CanAppend(path, q) /\ Len(path.ids) < PaceCap /\ HasEdge(path, q)}}

\* The visit that follows an arrival, if there is one.
VisitsAfter(a) ==
  IF NeedsFood(a.place) THEN ChooseScheduledFood(a.place, a.earliest, a.base)
  ELSE {[selection |-> Foodless, start |-> s] : s \in VisitStart(a.place, a.earliest)}

AppendStop(path, a, visit) ==
  [ids    |-> Append(path.ids, a.place),
   stops  |-> Append(path.stops,
     [place |-> a.place, start |-> visit.start, end |-> visit.start + Here(a.place).duration,
      minutes |-> a.leg.minutes, buffer |-> a.leg.buffer, travelCost |-> a.leg.cost,
      placeCost |-> PlaceCost(a.place), food |-> visit.selection, score |-> ScoreCandidate(a.place)]),
   score  |-> path.score + ScoreCandidate(a.place),
   cost   |-> a.base + FoodMax(visit.selection),
   finish |-> visit.start + Here(a.place).duration]

\* A path with one more stop, in time and within the budget, in all possible ways.
Extensions(path) ==
  UNION {{next \in {AppendStop(path, a, visit) : visit \in VisitsAfter(a)} :
            next.finish <= Latest /\ next.cost <= Budget} :
          a \in {b \in Arrivals(path) : b.earliest <= Latest /\ b.base <= Budget}}

PathIsValid(path) ==
  IF input.locked = <<>> THEN path.ids # <<>> ELSE Locked \subseteq ToSet(path.ids)

TextBefore(s, t) ==
  \E k \in 0 .. Len(s) :
    /\ k <= Len(t)
    /\ \A j \in 1 .. k : s[j] = t[j]
    /\ k < Len(t) /\ (k = Len(s) \/ s[k + 1] < t[k + 1])

\* comparePaths(a, b) < 0: a is preferred.
Preferred(a, b) ==
  \/ a.score > b.score
  \/ a.score = b.score /\ a.cost < b.cost
  \/ a.score = b.score /\ a.cost = b.cost /\ a.finish < b.finish
  \/ /\ a.score = b.score /\ a.cost = b.cost /\ a.finish = b.finish
     /\ TextBefore(a.ids, b.ids)

\* The one path preferred to all others, if there is any path.
BestOf(paths) == {a \in paths : \A b \in paths \ {a} : Preferred(a, b)}

\* The first valid path is never given up for a better one.
FirstOf(paths) == IF best # {} THEN best ELSE BestOf({path \in paths : PathIsValid(path)})

\* The valid ones of some paths and the best one so far, compared. The source
\* keeps the first it meets; comparePaths leaves no ties between distinct paths.
BetterOf(paths) ==
  BestOf({path \in paths : PathIsValid(path)} \cup best)

\* The cut leaves one path too many.
TrimLate(paths) == {a \in paths : Cardinality({b \in paths : Preferred(b, a)}) <= BeamWidth}

Trim(paths) == {a \in paths : Cardinality({b \in paths : Preferred(b, a)}) < BeamWidth}

-----------------------------------------------------------------------------
\* The validator recomputes the itinerary from the input

Report(condition, key, p) == IF condition THEN {[key |-> key, place |-> p]} ELSE {}

Totals(stops) ==
  [admission |-> SumFunction([i \in DOMAIN stops |-> stops[i].placeCost]),
   travel    |-> SumFunction([i \in DOMAIN stops |-> stops[i].travelCost]),
   foodMin   |-> SumFunction([i \in DOMAIN stops |-> FoodMin(stops[i].food)]),
   foodMax   |-> SumFunction([i \in DOMAIN stops |-> FoodMax(stops[i].food)])]

GroupCostMax(stops) == Totals(stops).admission + Totals(stops).travel + Totals(stops).foodMax

FoodIssues(s) ==
  IF s.food = Foodless THEN Report(NeedsFood(s.place), "food.selection.missing", s.place)
  ELSE Report(~ NeedsFood(s.place), "food.selection.unexpected", s.place)
         \cup Report(~ VerifyFoodSelection(s.place, s.food), "food.menu", s.place)
         \cup Report(EarliestFoodVisitStart(Here(s.place), Here(s.place).vendors[s.food.vendor],
                                           s.start, Latest, s.end - s.start) # {s.start},
                    "food.vendor.opening_hours", s.place)

TravelIssues(stops, i) ==
  LET s == stops[i]
      before == stops[i - 1]
      edge   == <<before.place, s.place>>
  IN IF i = 1 THEN Report(s.minutes # 0 \/ s.buffer # 0 \/ s.travelCost # 0, "travel.minutes", s.place)
     ELSE IF edge \notin DOMAIN Travel THEN Report(TRUE, "travel.missing", s.place)
     ELSE Report(s.minutes # Travel[edge].minutes, "travel.minutes", s.place)
            \cup Report(s.buffer # TransitionBuffer, "travel.buffer", s.place)
            \cup Report(s.travelCost # Travel[edge].cost, "travel.cost", s.place)
            \cup Report(s.start < before.end + Travel[edge].minutes + TransitionBuffer,
                       "travel.transition", s.place)

ItemIssues(stops, i) ==
  LET s == stops[i] IN
  Report(s.place \notin pool \cap Eligible, "candidate.membership", s.place)
    \cup Report(\E j \in 1 .. i - 1 : stops[j].place = s.place, "items.duplicate", s.place)
    \cup Report(s.placeCost # PlaceCost(s.place), "item.place_cost", s.place)
    \cup Report(PlaceCost(s.place) > Budget, "budget.exceeded", s.place)
    \cup Report(s.score # ScoreCandidate(s.place), "item.score", s.place)
    \cup Report(s.end - s.start # Here(s.place).duration, "item.duration", s.place)
    \cup Report(s.start < input.start, "request.start", s.place)
    \cup Report(s.end > Latest, "request.duration", s.place)
    \cup Report(i > 1 /\ s.start < stops[i - 1].end, "timeline.overlap", s.place)
    \cup Report(VisitStart(s.place, s.start) # {s.start}, "opening_hours", s.place)
    \cup TravelIssues(stops, i)
    \cup FoodIssues(s)

LockIssues(stops) ==
  LET At(p) == {i \in DOMAIN stops : stops[i].place = p} IN
  UNION {Report(At(input.locked[k]) = {}, "lock.missing", input.locked[k])
           \cup Report(k > 1 /\ \E i \in At(input.locked[k]), j \in At(input.locked[k - 1]) : i <= j,
                      "lock.order", input.locked[k]) : k \in DOMAIN input.locked}

\* Issues of the whole itinerary name no place: 0.
TotalIssues(stops, score) ==
  Report(Len(stops) > PaceCap, "pace", 0)
    \cup Report(GroupCostMax(stops) > Budget, "budget.exceeded", 0)
    \cup Report(score # SumFunction([i \in DOMAIN stops |-> stops[i].score]), "totals.score", 0)

ValidateItinerary(path) ==
  (UNION {ItemIssues(path.stops, i) : i \in DOMAIN path.stops})
    \cup LockIssues(path.stops) \cup TotalIssues(path.stops, path.score)

\* A locked stop that the customer keeps without food is no reason to repair.
OnlyExplicitFoodless(issues) ==
  \A issue \in issues :
    /\ issue.key = "food.selection.missing"
    /\ issue.place \in DOMAIN input.selections /\ input.selections[issue.place] = Foodless

RemediableKeys ==
  {"candidate.membership", "items.duplicate", "budget.exceeded", "item.place_cost", "item.score",
   "item.duration", "opening_hours", "travel.missing", "travel.minutes", "travel.buffer",
   "travel.cost", "travel.transition"}

\* Repair drops the unlocked stops that are to blame.
RepairExclusions(issues) ==
  {issue.place : issue \in {x \in issues : x.key \in RemediableKeys}} \cap (pool \ Locked)

\* The locked stops at which something must be eaten, and what the schedule had.
LockedFoodStops ==
  {stop \in UNION {ToSet(path.stops) : path \in best} : stop.place \in Locked /\ NeedsFood(stop.place)}

\* A repair chooses the food at the locked stops again.
NoLockedSelections == <<>>

LockedFoodSelections ==
  [p \in {stop.place : stop \in LockedFoodStops} |->
     (CHOOSE stop \in LockedFoodStops : stop.place = p).food]

-----------------------------------------------------------------------------
\* The engine

Init ==
  /\ input \in Inputs
  /\ stage = "input"
  /\ pool = {} /\ rank = <<>> /\ pinned = <<>>
  /\ beam = {} /\ frontier = {} /\ visited = 0 /\ best = {}
  /\ repaired = FALSE
  /\ outcome = Pending

Answer(code, path) ==
  /\ stage' = "done"
  /\ outcome' = [code |-> code, path |-> path]

\* scheduleItinerary starts over with some candidates.
Schedule(candidates, order, selections) ==
  /\ stage' = "beam"
  /\ pool' = candidates
  /\ rank' = order
  /\ pinned' = selections
  /\ beam' = {Root}
  /\ frontier' = {} /\ visited' = 0 /\ best' = {}
  /\ UNCHANGED outcome

RefuseInput ==
  /\ stage = "input"
  /\ Refusal # "none"
  /\ Answer(Refusal, NoPath)
  /\ UNCHANGED <<input, pool, rank, pinned, beam, frontier, visited, best, repaired>>

FilterCandidates ==
  /\ stage = "input"
  /\ Refusal = "none"
  /\ Schedule(Eligible, BuildRankOrder(Eligible, input.ranked), input.selections)
  /\ UNCHANGED <<input, repaired>>

Expanded == UNION {Extensions(path) : path \in beam}

\* One depth of the beam: the best valid path is taken before the beam is cut.
ExpandBeam ==
  /\ stage = "beam"
  /\ \E paths \in {Expanded} :
       /\ paths # {}
       /\ best' = BetterOf(paths)
       /\ beam' = Trim(paths)
  /\ UNCHANGED <<input, stage, pool, rank, pinned, frontier, visited, repaired, outcome>>

\* What the beam lost is given up for good.
SettleBeamForGood ==
  /\ stage = "beam"
  /\ Expanded = {}
  /\ best' = IF best # {} THEN best ELSE BetterOf(Extensions(Root))
  /\ IF best' # {} THEN stage' = "validate" /\ UNCHANGED outcome
     ELSE Answer("NO_FEASIBLE_ITINERARY", NoPath)
  /\ UNCHANGED <<input, pool, rank, pinned, beam, frontier, visited, repaired>>

\* Without locks nothing is left to try but the single stops.
SettleBeam ==
  /\ stage = "beam"
  /\ Expanded = {}
  /\ best # {} \/ input.locked = <<>>
  /\ best' = IF best # {} THEN best ELSE BetterOf(Extensions(Root))
  /\ IF best' # {} THEN stage' = "validate" /\ UNCHANGED outcome
     ELSE Answer("NO_FEASIBLE_ITINERARY", NoPath)
  /\ UNCHANGED <<input, pool, rank, pinned, beam, frontier, visited, repaired>>

\* The beam may have cut every path that reaches the locked stops.
StartSearch ==
  /\ stage = "beam"
  /\ Expanded = {}
  /\ best = {}
  /\ input.locked # <<>>
  /\ stage' = "search"
  /\ frontier' = {Root}
  /\ UNCHANGED <<input, pool, rank, pinned, beam, visited, best, repaired, outcome>>

\* One call of visit. Its recursion takes the paths in the order of their names,
\* a path before those that go on from it. It gives up at the cap even if it has
\* found a path: it could not tell whether it is the best.
Visit ==
  /\ stage = "search"
  /\ \E path \in frontier :
       /\ \A other \in frontier \ {path} : TextBefore(path.ids, other.ids)
       /\ visited' = visited + 1
       /\ IF visited + 1 >= StateCap
          THEN Answer("ITINERARY_SEARCH_LIMIT", NoPath) /\ UNCHANGED <<frontier, best>>
          ELSE /\ best' = BetterOf({path})
               /\ frontier' = (frontier \ {path}) \cup Extensions(path)
               /\ UNCHANGED <<stage, outcome>>
  /\ UNCHANGED <<input, pool, rank, pinned, beam, repaired>>

SettleSearch ==
  /\ stage = "search"
  /\ frontier = {}
  /\ IF best # {} THEN stage' = "validate" /\ UNCHANGED outcome
     ELSE Answer("NO_FEASIBLE_ITINERARY", NoPath)
  /\ UNCHANGED <<input, pool, rank, pinned, beam, frontier, visited, best, repaired>>

Issues == UNION {ValidateItinerary(path) : path \in best}

Acceptable == Issues = {} \/ (~ repaired /\ OnlyExplicitFoodless(Issues))

Accept ==
  /\ stage = "validate"
  /\ Acceptable
  /\ \E path \in best : Answer("ok", path)
  /\ UNCHANGED <<input, pool, rank, pinned, beam, frontier, visited, best, repaired>>

\* Something that was pinned as eaten at a locked stop must have a selection.
Repairable ==
  /\ \A stop \in LockedFoodStops : stop.food # Foodless
  /\ pool \ RepairExclusions(Issues) # {}

\* A repaired schedule may be repaired again.
RepairAgain ==
  /\ stage = "validate"
  /\ ~ Acceptable
  /\ Repairable
  /\ LET left == pool \ RepairExclusions(Issues) IN
     Schedule(left, RemainingRankOrder(left), LockedFoodSelections)
  /\ UNCHANGED <<input, repaired>>

Repair ==
  /\ stage = "validate"
  /\ ~ Acceptable /\ ~ repaired
  /\ Repairable
  /\ repaired' = TRUE
  /\ LET left == pool \ RepairExclusions(Issues) IN
     Schedule(left, RemainingRankOrder(left), LockedFoodSelections)
  /\ UNCHANGED input

RefuseRepair ==
  /\ stage = "validate"
  /\ ~ Acceptable /\ ~ repaired
  /\ ~ Repairable
  /\ Answer("NO_FEASIBLE_ITINERARY", NoPath)
  /\ UNCHANGED <<input, pool, rank, pinned, beam, frontier, visited, best, repaired>>

RefuseResult ==
  /\ stage = "validate"
  /\ ~ Acceptable /\ repaired
  /\ Answer("INVALID_ITINERARY_RESULT", NoPath)
  /\ UNCHANGED <<input, pool, rank, pinned, beam, frontier, visited, best, repaired>>

Next ==
  \/ RefuseInput \/ FilterCandidates
  \/ ExpandBeam \/ SettleBeam \/ StartSearch
  \/ Visit \/ SettleSearch
  \/ Accept \/ Repair \/ RefuseRepair \/ RefuseResult

\* The function runs to its end once it is called.
Spec == Init /\ [][Next]_vars /\ WF_vars(Next)
=============================================================================
