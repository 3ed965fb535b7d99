---------------------------- MODULE MCPaperCampaign ----------------------------
(* Values of the constants of PaperCampaign for TLC: two indices with a call  *)
(* and a put each, and markets that rise, fall, disagree, are volatile, old,  *)
(* thin, or partly a fixture's.                                               *)
EXTENDS PaperCampaign, TLC

CONSTANTS Nifty, Sensex, nCall, nPut, sCall, sPut

TwoIndices == <<Nifty, Sensex>>

FourListed == {nCall, nPut, sCall, sPut}

IndexOf == [c \in Listed |-> IF c \in {nCall, nPut} THEN Nifty ELSE Sensex]

TypesOf == [c \in Listed |-> IF c \in {nCall, sCall} THEN "CE" ELSE "PE"]

AtTheMoney == [c \in Listed |-> 1000]

LaterExpiry == [c \in Listed |-> 9]

Weekly == [c \in Listed |-> "WEEKLY"]

WeeklyPreferred == [u \in {Nifty, Sensex} |-> "WEEKLY_PREFERRED"]

Money == {"ATM", "ITM", "OTM"}

Rising == [i \in 1..14 |-> 990 + i]

Falling == [i \in 1..14 |-> 1010 - i]

Swinging == [i \in 1..14 |-> 960 + 3 * i]

View(high, low, at) ==
  [ltp |-> 1000, open |-> 1000, high |-> high, low |-> low, close |-> 1000,
   at |-> at]

FlatView(at) == View(1005, 995, at)

Price(bid, ask, at) ==
  [bid |-> bid, ask |-> ask, ltp |-> bid, volume |-> 10, oi |-> 10, at |-> at,
   flagged |-> FALSE, class |-> "WEEKLY", lot |-> 1]

\* Both indices rise and every contract is offered at 20.
Calm(at) ==
  [event |-> at, fresh |-> TRUE,
   under |-> [u \in {Nifty, Sensex} |-> FlatView(at)],
   chains |-> [u \in {Nifty, Sensex} |-> FALSE],
   quotes |-> [c \in Listed |-> Price(19, 20, at)],
   closes |-> [u \in {Nifty, Sensex} |-> Rising]]

OnlyN(m) ==
  [m EXCEPT !.under = [u \in {Nifty} |-> m.under[u]],
            !.quotes = [c \in {nCall, nPut} |-> m.quotes[c]]]

Priced(m, bid, ask) == [m EXCEPT !.quotes = [c \in Listed |-> Price(bid, ask, m.event)]]

Alone(at) == OnlyN(Calm(at))

Bear(at) == [Calm(at) EXCEPT !.closes = [u \in {Nifty, Sensex} |-> Falling]]

\* Above its average at the end, below where it began.
Recovering ==
  [i \in 1..14 |-> IF i = 1 THEN 1003 ELSE IF i < 10 THEN 995 ELSE 1001]

\* The averages of Nifty point up, but only those of Sensex are looked at by all.
Disagreeing(at) ==
  [Calm(at) EXCEPT !.closes = [u \in {Nifty, Sensex} |-> IF u = Nifty THEN Recovering
                                                        ELSE Falling],
                   !.under[Nifty] = View(0, 0, at)]

PartlyFixture(at) == [Alone(at) EXCEPT !.quotes[nPut].flagged = TRUE]

Wild(at) == [OnlyN(Calm(at)) EXCEPT !.closes[Nifty] = Swinging]

Late(at) == [Calm(at) EXCEPT !.under[Nifty].at = at - 2]

NoBids(at) == Priced(Calm(at), 0, 20)

\* The second day has a small market, for the two to be combined.
Markets ==
  [day \in Days, at \in Moments |->
     IF day = 1
       THEN {Calm(at), Alone(at), Bear(at), Disagreeing(at),
             PartlyFixture(at), Wild(at), Late(at), NoBids(at),
             Priced(Calm(at), 15, 16), Priced(Calm(at), 24, 25)}
       ELSE {Calm(at), Priced(Bear(at), 15, 16)}]

Session == [at \in Moments |-> IF at < 3 THEN "OPEN" ELSE "SQUARE_OFF_WINDOW"]

OneFails == {{}, {"technical"}}
=============================================================================
