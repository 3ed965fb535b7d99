---------------------------- MODULE MCPaperEngine ----------------------------
(* Values of the constants of PaperEngine for TLC.                         *)
EXTENDS PaperEngine, TLC

CONSTANTS d1, d2, c1

TwoDecisions == {d1, d2}

OneContract == {c1}

AllTrue == [d \in Decisions |-> TRUE]

\* d2 is a candidate the policy did not approve
OneUnapproved == [d \in Decisions |-> d # d2]

SameContract == [d \in Decisions |-> c1]

UnevenLots == [d \in Decisions |-> IF d = d1 THEN 2 ELSE 1]

StopAt5 == [d \in Decisions |-> 5]

\* the contract expires on day 0
FirstDayExpiry == [c \in Contracts |-> 0]

NoExpiry == [c \in Contracts |-> 9]

\* One trading day: open, square-off window, closed.
OneDay == [t \in Times |-> 0]

TradingDay ==
  [t \in Times |-> CASE t <= 1 -> "OPEN" [] t = 2 -> "SQUARE_OFF_WINDOW" [] OTHER -> "CLOSED"]

\* The night comes after the first instant.
NightAfterFirst == [t \in Times |-> IF t = 0 THEN 0 ELSE 1]

Quote(bid, ask, ltp, age) ==
  [ok |-> TRUE, bid |-> bid, ask |-> ask, ltp |-> ltp, age |-> age]

Steady == Quote(10, 11, 10, 0)
Low == Quote(4, 6, 5, 0)
High == Quote(15, 16, 15, 0)
Crossing == Quote(12, 8, 10, 0)
Late == Quote(9, 10, 9, 1)
Early == Quote(10, 11, 10, -1)
OneSided == Quote(0, 6, 5, 0)
BadQuality == [Steady EXCEPT !.ok = FALSE]

AllQuotes == {Steady, Low, High, Crossing, Late, Early, OneSided, BadQuality}

\* the bid disappears as the last price falls to the stop
ThinQuotes == {Steady, OneSided}

\* quotes from before and from after the snapshot among them
TimedQuotes == {Low, Late, Early}
=============================================================================
