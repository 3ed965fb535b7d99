---------------------------- MODULE MCTrueDataFeed ----------------------------
(* Values of the constants of TrueDataFeed for TLC: October and November    *)
(* 2026, date 0 is Thursday the 1st of October.                             *)
EXTENDS TrueDataFeed, TLC

CONSTANTS NIFTY, nifty, nearDay, farDay, oddDay

OneUnderlying == {NIFTY}

TwoMonths == [d \in Dates |-> IF d <= 30 THEN 0 ELSE 1]

AllDates == Dates

\* the holidays of fo_calendar.py; the 10th and the 24th of November are
\* Tuesdays
NseHolidays == {1, 19, 40, 54}

NseSchedule ==
  [u \in Underlyings |-> [weekly |-> 1, monthly |-> 1, from |-> -2000,
                          to |-> 4000, holidays |-> NseHolidays]]

WeeklyPreferred == [u \in Underlyings |-> "WEEKLY_PREFERRED"]

IndexSymbol == [u \in Underlyings |-> nifty]

ThreeOptions == {nearDay, farDay, oddDay}

Nifty(expiry, strike, name) ==
  [underlying |-> NIFTY, expiry |-> expiry, strike |-> strike,
   given |-> "NONE", name |-> name]

\* Tuesday the 17th of November, and a Wednesday that is no expiry
NiftyOptions ==
  [o \in Options |->
     CASE o = nearDay -> Nifty(47, 100, 1)
       [] o = farDay -> Nifty(47, 200, 2)
       [] OTHER -> Nifty(48, 150, 3)]

LowClose == [u \in Underlyings |-> 100]

\* an option that ticks and one that is only planned
HighSpot ==
  [s \in Symbols |->
     CASE s = nifty -> {200} [] s = nearDay -> {7} [] OTHER -> {}]

FourIds == {1, 2, 3, 4}

\* two connections that number the symbols differently
Swapped ==
  LET first == [s \in Symbols |->
                  CASE s = nifty -> 1 [] s = nearDay -> 2 [] s = farDay -> 3
                    [] OTHER -> 4]
  IN {first, [first EXCEPT ![nifty] = 2, ![nearDay] = 1]}

BothPolicies == {"bounded_backoff", "fail_closed"}
=============================================================================
