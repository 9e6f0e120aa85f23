---------------------------- MODULE OpeningHours ----------------------------
(***************************************************************************)
(* When a place can be visited: lib/domain/itinerary/opening-hours.ts and  *)
(* the shared opening of a place and one of its food vendors, food-filter. *)
(*                                                                         *)
(* Time is the minute of Ho Chi Minh City since some midnight, day 0. A    *)
(* "venue" is a place or a vendor, of which only two fields matter here:   *)
(*   hours       a sequence of [weekday, open, close], close <= open when  *)
(*               the window ends after midnight (hasOverlappingWindows of  *)
(*               contracts.ts keeps the windows of a week apart);          *)
(*   exceptions  a set of [day, windows], one at most per day; a closed    *)
(*               day is one without windows.                               *)
(***************************************************************************)
EXTENDS Integers, Sequences, FiniteSets

MinutesPerDay == 24 * 60

DayOf(minute) == minute \div MinutesPerDay

Weekday(day) == day % 7

IsTime(minute) == minute \in 0 .. MinutesPerDay - 1

IsWindow(w) == IsTime(w.open) /\ IsTime(w.close) /\ w.open # w.close

IsVenue(venue) ==
  /\ \A i \in DOMAIN venue.hours : IsWindow(venue.hours[i])
  /\ \A e \in venue.exceptions : \A i \in DOMAIN e.windows : IsWindow(e.windows[i])
  /\ \A e, f \in venue.exceptions : e.day = f.day => e = f

ExceptionsOn(venue, day) == {e \in venue.exceptions : e.day = day}

\* The windows that begin on a day, each with the key of the window of the
\* venue it comes from.
WindowsOn(venue, day) ==
  LET special == ExceptionsOn(venue, day) IN
  IF special # {}
  THEN UNION {{[open |-> e.windows[i].open, close |-> e.windows[i].close, key |-> <<"exception", day, i>>] :
                 i \in DOMAIN e.windows} : e \in special}
  ELSE {[open |-> venue.hours[i].open, close |-> venue.hours[i].close,
         key |-> <<"normal", venue.hours[i].weekday, i>>] :
          i \in {j \in DOMAIN venue.hours : venue.hours[j].weekday = Weekday(day)}}

\* The part of a window on the day it begins ...
Fragment(day, w) ==
  [from |-> day * MinutesPerDay + w.open,
   to   |-> day * MinutesPerDay + (IF w.close > w.open THEN w.close ELSE MinutesPerDay),
   key  |-> w.key]

\* ... and what is left of it after midnight.
CarryOver(day, w) ==
  [from |-> day * MinutesPerDay, to |-> day * MinutesPerDay + w.close, key |-> w.key]

CarriesOver(w) == w.close < w.open /\ w.close # 0

\* Last night's hours go on although the day has hours of its own.
OpeningIntervalsCarried(venue, day) ==
  {Fragment(day, w) : w \in WindowsOn(venue, day)}
    \cup {CarryOver(day, w) : w \in {v \in WindowsOn(venue, day - 1) : CarriesOver(v)}}

\* An exception replaces what the day before carries into its day, too.
OpeningIntervals(venue, day) ==
  {Fragment(day, w) : w \in WindowsOn(venue, day)}
    \cup IF ExceptionsOn(venue, day) # {} THEN {}
         ELSE {CarryOver(day, w) : w \in {v \in WindowsOn(venue, day - 1) : CarriesOver(v)}}

IntervalsBetween(venue, earliest, latest) ==
  UNION {OpeningIntervals(venue, day) : day \in DayOf(earliest) .. DayOf(latest)}

\* A carried-over interval is the first of its day unless a shorter one also
\* begins at midnight; only then does it follow the fragment it continues.
FirstOfDay(interval, intervals) ==
  \A other \in intervals : other.from = interval.from => other.to >= interval.to

\* Two fragments of one window on either side of midnight are one interval;
\* windows that merely touch are not.
Merged(intervals) ==
  {[from |-> f.from,
    to   |-> LET rest == {c \in intervals : c.from = f.to /\ c.key = f.key /\ FirstOfDay(c, intervals)}
             IN IF rest = {} THEN f.to ELSE (CHOOSE c \in rest : TRUE).to] : f \in intervals}

Later(a, b) == IF a > b THEN a ELSE b

\* The first of some minutes: a set of one minute, or of none.
Earliest(minutes) == {s \in minutes : \A t \in minutes : s <= t}

\* When a visit can begin that ends in the same interval, if at all.
EarliestVisitStart(venue, earliest, latest, duration) ==
  Earliest({s \in {Later(earliest, i.from) : i \in
                     {j \in Merged(IntervalsBetween(venue, earliest, latest)) :
                        Later(earliest, j.from) + duration <= j.to}} :
              s + duration <= latest})

\* Open from a to b when intervals that touch or overlap count as one.
CoveredThrough(intervals, a, b) ==
  \A q \in {a} \cup {i.to : i \in intervals} :
    a <= q /\ q < b => \E i \in intervals : i.from <= q /\ q < i.to

\* Both the place and the vendor must be open, and here windows that touch do
\* make one interval.
EarliestFoodVisitStart(place, vendor, earliest, latest, duration) ==
  Earliest(UNION {{s \in {earliest} \cup {i.from : i \in open.place \cup open.vendor} :
                     /\ s >= earliest
                     /\ s + duration <= latest
                     /\ CoveredThrough(open.place, s, s + duration)
                     /\ CoveredThrough(open.vendor, s, s + duration)} :
                    open \in {[place  |-> IntervalsBetween(place, earliest, latest),
                              vendor |-> IntervalsBetween(vendor, earliest, latest)]}})

\* What a night carries past midnight is the first opening of the next day. The
\* contracts keep the windows of a week apart, and those of an exception, which
\* makes it so; they do not compare an exception with the morning after it.
NightGoesOn(venue, day) ==
  \A w \in WindowsOn(venue, day) :
    CarriesOver(w) /\ ExceptionsOn(venue, day + 1) = {} =>
      FirstOfDay(CarryOver(day + 1, w), OpeningIntervals(venue, day + 1))
=============================================================================
