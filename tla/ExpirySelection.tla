--------------------------- MODULE ExpirySelection ---------------------------
(***************************************************************************)
(* Which expiry an index trades and which symbols follow from it: the      *)
(* expiry classifier (grow/live_data/expiry_class.py), the selector of     *)
(* the nearest eligible expiry for the feed and the store                  *)
(* (grow/history/resolver.py) and the subscription planner                 *)
(* (grow/live_data/subscribe.py).  All of it is pure.                      *)
(*                                                                         *)
(* A date is its distance from a first day; a calendar is made of the      *)
(* constants below.  An option is a record [underlying, expiry, strike,    *)
(* given], where given is the class the vendor's catalog states for it.    *)
(***************************************************************************)
EXTENDS ExpiryChoice, FiniteSets

CONSTANTS
  LastDate,        \* the calendar covers 0..LastDate
  FirstWeekday,    \* weekday of date 0, 0 is Monday
  MonthOf,         \* [Dates -> Nat], months counted through the years
  SupportedDates,  \* dates of the years whose F&O calendar is loaded
  Underlyings,     \* canonical index symbols
  ScheduleOf,      \* [Underlyings -> Schedules]
  ProfileOf        \* [Underlyings -> Profiles]

Dates == 0..LastDate
NoWeekday == 7

GivenClasses == Classes \cup {"NONE", "OTHER"}

Schedules ==
  [weekly: 0..NoWeekday, monthly: 0..NoWeekday, from: Int, to: Int,
   holidays: SUBSET Dates]

ASSUME CalendarConstants ==
  /\ LastDate \in Nat
  /\ FirstWeekday \in 0..6
  /\ MonthOf \in [Dates -> Nat]
  /\ SupportedDates \subseteq Dates
  /\ \A u \in Underlyings :
       /\ ScheduleOf[u].weekly \in 0..NoWeekday
       /\ ScheduleOf[u].monthly \in 0..NoWeekday
       /\ {ScheduleOf[u].from, ScheduleOf[u].to} \subseteq Int
       /\ ScheduleOf[u].holidays \subseteq Dates
  /\ ProfileOf \in [Underlyings -> Profiles]

-----------------------------------------------------------------------------
(* The classifier                                                          *)

Weekday(d) == (FirstWeekday + d) % 7

\* is_session_day
SessionDay(d, holidays) == Weekday(d) < 5 /\ d \notin holidays

\* previous_session_day looks back over fourteen days, the day itself first.
PreviousSessionDay(d, holidays) ==
  Latest({e \in Dates : d - 13 <= e /\ e <= d /\ SessionDay(e, holidays)})

\* ExpirySchedule.active_on
ActiveOn(s, d) == s.from <= d /\ d <= s.to

DaysOfMonth(m) == {d \in Dates : MonthOf[d] = m}

\* A scheduled day moved to the session before it, if it has a calendar.
Adjusted(raw, holidays) ==
  IF raw \notin SupportedDates THEN NoDate
  ELSE LET moved == PreviousSessionDay(raw, holidays)
       IN IF moved \in SupportedDates THEN moved ELSE NoDate

\* _monthly_date: the last scheduled weekday of the month.
MonthlyDate(s, m) ==
  Adjusted(Latest({d \in DaysOfMonth(m) : Weekday(d) = s.monthly}),
           s.holidays)

\* _weekly_dates: the month of the expiry and a week on either side.
WeeklyDates(s, m) ==
  LET first == Earliest(DaysOfMonth(m))
      last == Latest(DaysOfMonth(m))
      around == {d \in Dates : first - 7 <= d /\ d <= last + 7}
  IN {Adjusted(d, s.holidays) : d \in {e \in around : Weekday(e) = s.weekly}}
       \ {NoDate}

\* _calendar_class; "NONE" when the date is no scheduled expiry.
CalendarClass(s, expiry) ==
  LET m == MonthOf[expiry]
      monthlies == {MonthlyDate(s, k) : k \in {m - 1, m, m + 1}} \ {NoDate}
  IN IF expiry \notin SupportedDates THEN "NONE"
     ELSE IF expiry \in monthlies THEN "MONTHLY"
     ELSE IF s.weekly # NoWeekday /\ expiry \in WeeklyDates(s, m) \ monthlies
       THEN "WEEKLY" ELSE "NONE"

\* ExpiryClassifier._classify: the vendor's class counts unless the calendar
\* contradicts it; without either the class stays UNKNOWN.
Classify(option, today) ==
  LET s == ScheduleOf[option.underlying]
      calendar == CalendarClass(s, option.expiry)
  IN IF ~ ActiveOn(s, today) \/ option.expiry \notin SupportedDates
       THEN "UNKNOWN"
     ELSE IF option.given \in Classes
       THEN IF calendar \in Classes \ {option.given} THEN "UNKNOWN"
                                                     ELSE option.given
     ELSE IF calendar \in Classes THEN calendar ELSE "UNKNOWN"

Tradable(option, today) == Classify(option, today) \in Classes

-----------------------------------------------------------------------------
(* The selector                                                            *)

\* resolve_nearest_expiry over records [expiry, class, firstSeen, lastSeen].
Resolve(records, profile, today, sameDay) ==
  LET usable(class) ==
        {r.expiry : r \in {q \in records : /\ q.class = class
                                           /\ q.firstSeen <= today
                                           /\ today <= q.lastSeen
                                           /\ Eligible(q.expiry, today, sameDay)}}
  IN Nearest(profile, usable("WEEKLY"), usable("MONTHLY"))

-----------------------------------------------------------------------------
(* The planner.  An option also has a name, a number that orders provider  *)
(* symbols as their text does.                                             *)

\* strike_step: the (upper) median gap between neighbouring strikes.
PlanStep(strikes) ==
  LET next(s) == Earliest({t \in strikes : t > s})
      lower == {s \in strikes : next(s) # NoDate}
      gap(s) == next(s) - s
      half == Cardinality(lower) \div 2
  IN IF lower = {} THEN 50
     ELSE CHOOSE g \in {gap(s) : s \in lower} :
            /\ Cardinality({s \in lower : gap(s) < g}) <= half
            /\ Cardinality({s \in lower : gap(s) <= g}) > half

\* atm_strike: Python rounds a half to the even side.
PlanAtm(spot, step) ==
  LET q == spot \div step
      r == spot % step
  IN IF 2 * r > step \/ (2 * r = step /\ q % 2 = 1) THEN (q + 1) * step
                                                   ELSE q * step

Gap(a, b) == IF a < b THEN b - a ELSE a - b

\* plan_subscriptions, the options half: those of the selected expiry within
\* `window' steps of the money, the nearest `room' of them when they are
\* more.  `spots' is 0 for an underlying without a spot.
PlanOptions(options, selected, spots, window, room) ==
  LET peers(u) == {o \in options : o.underlying = u /\ o.expiry = selected[u]}
      step(u) == PlanStep({o.strike : o \in peers(u)})
      far(o) == Gap(o.strike, PlanAtm(spots[o.underlying],
                                      step(o.underlying)))
      wanted ==
        {o \in options : /\ spots[o.underlying] > 0
                         /\ o \in peers(o.underlying)
                         /\ far(o) <= window * step(o.underlying)}
      nearer(o, p) ==
        LET a == far(o) * step(p.underlying)
            b == far(p) * step(o.underlying)
        IN a < b \/ (a = b /\ o.name < p.name)
  IN {o \in wanted : Cardinality({p \in wanted : nearer(p, o)}) < room}
=============================================================================
