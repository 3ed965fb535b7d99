---------------------------- MODULE MCLivePaperLoop ---------------------------
(* Values of the constants of LivePaperLoop for TLC: one index, a call      *)
(* below and a put above its spot, two trading days.                        *)
EXTENDS LivePaperLoop, TLC

CONSTANTS NIFTY, call, put

OneIndex == {NIFTY}

IndexSequence == <<NIFTY>>

TwoListed == {call, put}

AllSymbols == {NIFTY, call, put}

OfIndex == [c \in Listed |-> NIFTY]

CallAndPut == [c \in Listed |-> IF c = call THEN "CE" ELSE "PE"]

Around == [c \in Listed |-> IF c = call THEN 100 ELSE 110]

SameExpiry == [c \in Listed |-> 3]

Weekly == [c \in Listed |-> "WEEKLY"]

WeeklyPreferred == [u \in Spots |-> "WEEKLY_PREFERRED"]

OneLot == [c \in Listed |-> 2]

NearMoney == {"ATM", "ITM", "OTM"}

Quote(bid, ask, ltp) ==
  [bid |-> bid, ask |-> ask, ltp |-> ltp, volume |-> 10, oi |-> 10]

\* the call may fall below its stop, or lose its buyers
CallQuotes == {Quote(20, 21, 20), Quote(15, 16, 15), Quote(0, 11, 0)}

PutQuotes == {Quote(20, 21, 20)}

Told ==
  [s \in Symbols |-> CASE s = call -> CallQuotes
                       [] s = put -> PutQuotes
                       [] OTHER -> {105}]

Rising ==
  [count |-> 30, close |-> 105, fast |-> 100, slow |-> 95, slope |-> 1,
   rsi |-> 60, roc |-> 1, atr |-> 2, high |-> 110, low |-> 90, body |-> 1,
   range |-> 2, daily |-> "up"]

Falling ==
  [count |-> 30, close |-> 95, fast |-> 100, slow |-> 105, slope |-> -1,
   rsi |-> 40, roc |-> -1, atr |-> 2, high |-> 110, low |-> 90, body |-> -1,
   range |-> 2, daily |-> "down"]

NoBars == [Rising EXCEPT !.count = 0]

UpOrDown == {Rising, Falling, NoBars}

FourStrategies == StrategyNames

\* two trading days: the first one closes at time 1
TwoDays ==
  [t \in Times |-> IF t = 1 THEN "SQUARE_OFF_WINDOW" ELSE "OPEN"]

DayOf == [t \in Times |-> IF t <= 1 THEN 0 ELSE 1]
=============================================================================
