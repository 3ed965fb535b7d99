------------------------- MODULE MCHistoricalEvaluation -------------------------
(* Values of the constants of HistoricalEvaluation for TLC: four days of an   *)
(* index with three contracts and of another with one, and datasets that are  *)
(* sound, late, partly a fixture's, thin, or not qualified.                   *)
EXTENDS HistoricalEvaluation

CONSTANTS Nifty, Sensex, call, otherCall, put, far

OneIndexOnly == <<Nifty>>

AllListed == {call, otherCall, put, far}

IndexOf == [c \in Listed |-> IF c = far THEN Sensex ELSE Nifty]

Sides == [c \in Listed |-> IF c = put THEN "PE" ELSE "CE"]

TwoStrikes == [c \in Listed |-> IF c = otherCall THEN 1010 ELSE 1000]

\* The put expires on the second day.
Expiries == [c \in Listed |-> IF c = put THEN 2 ELSE 9]

AllWeekly == [c \in Listed |-> "WEEKLY"]

PreferWeekly == [u \in {Nifty, Sensex} |-> "WEEKLY_PREFERRED"]

AnyMoney == {"ATM", "ITM", "OTM"}

SessionDays == 1..4

\* A day opens at 1 and closes at 7; the last moment before is for squaring off.
Calendar ==
  [t \in 0..MomentOf(5, 0) |->
     CASE t % DayLength \in 1..5 -> "OPEN"
       [] t % DayLength = 6 -> "SQUARE_OFF_WINDOW"
       [] OTHER -> "CLOSED"]

\* The bid of a contract: it gains by the middle of odd days and loses by that
\* of even ones.
BidAt(day, offset) ==
  18 + day + (CASE offset < 4 -> 0 [] offset = 4 -> IF day % 2 = 1 THEN 5 ELSE -6
                [] OTHER -> 1)

Quoted(c, day, offset, lag) ==
  LET bid == BidAt(day, offset)
  IN [contract |-> c, at |-> MomentOf(day, offset),
      known |-> MomentOf(day, offset) + lag, bid |-> bid, ask |-> bid + 1,
      ltp |-> bid, volume |-> 10, oi |-> 10, flagged |-> FALSE]

Quarter(day, from, to, low, close, top) ==
  [index |-> Nifty, frame |-> "M15", start |-> MomentOf(day, from),
   end |-> MomentOf(day, to), known |-> MomentOf(day, to),
   low |-> low, high |-> top, close |-> close]

QuartersOf(day) ==
  {Quarter(day, 1, 2, 995, 1000, 1005),
   IF day % 2 = 1 THEN Quarter(day, 2, 4, 995, 1010, 1015)
                  ELSE Quarter(day, 2, 4, 985, 990, 1001),
   Quarter(day, 4, 6, 990, 1000, 1010)}

Sound ==
  [published |-> TRUE, fixture |-> FALSE, synthetic |-> FALSE,
   scope |-> "HISTORICAL_RESEARCH", sample |-> FALSE, metadata |-> TRUE,
   license |-> "APPROVED", status |-> "QUALIFIED", calendar |-> TRUE,
   instruments |-> {Nifty, Sensex}, claims |-> {"BID_ASK", "OI", "VOLUME"},
   cadence |-> {2, 4, 6},
   sessions |-> [d \in SessionDays |-> [status |-> "OPEN", open |-> MomentOf(d, 1),
                                        close |-> MomentOf(d, 7)]],
   master |-> [c \in Listed |-> [first |-> 0, last |-> MomentOf(5, 0), lot |-> 1]],
   quotes |-> {Quoted(c, d, o, 0) : c \in Listed, d \in SessionDays, o \in {2, 4, 6}},
   bars |-> UNION {QuartersOf(d) : d \in SessionDays}]

Twice == [Sound EXCEPT !.cadence = {2, 6}]

NoCadence == [Sound EXCEPT !.cadence = {}]

\* What is quoted becomes available one moment later; there are earlier quotes.
LateQuotes ==
  [Sound EXCEPT !.quotes =
     {Quoted(c, d, o, 1) : c \in Listed, d \in SessionDays, o \in {2, 4, 6}}
       \cup {Quoted(c, d, o, 0) : c \in Listed, d \in SessionDays, o \in {1, 3, 5}}]

Flagging(from, contracts) ==
  [Sound EXCEPT !.quotes =
     {[q EXCEPT !.flagged = DateAt(q.at) >= from /\ q.contract \in contracts] :
        q \in @}]

\* The other call is listed from the third day on, the call until the middle of
\* the first one.
Relisted ==
  [Sound EXCEPT !.master[otherCall].first = MomentOf(3, 0),
                !.master[call].last = MomentOf(1, 3)]

NoLots == [Sound EXCEPT !.master[call].lot = 0]

Gap == [Sound EXCEPT !.quotes = {q \in @ : DateAt(q.at) # 3}]

NoPrice == [Sound EXCEPT !.bars = {b \in @ : DateAt(b.start) # 1}]

OneSided ==
  [Sound EXCEPT !.quotes =
     {[q EXCEPT !.bid = IF q.contract = call /\ DateAt(q.at) = 3
                             /\ q.at > MomentOf(3, 2) THEN 0 ELSE @] : q \in @}]

Holiday == [Sound EXCEPT !.sessions[2].status = "CLOSED"]

Tested == [Sound EXCEPT !.fixture = TRUE, !.scope = "FRAMEWORK_TEST_ONLY"]

Unqualified == [Sound EXCEPT !.status = "CANDIDATE"]

Datasets ==
  {Sound, Twice, NoCadence, LateQuotes, Flagging(3, Listed), Flagging(3, {put}),
   Flagging(1, Listed), Relisted, NoLots, Gap, NoPrice, OneSided, Holiday, Tested,
   Unqualified, [Sound EXCEPT !.scope = "ADAPTER_TESTING"],
   [Sound EXCEPT !.published = FALSE], [Sound EXCEPT !.sample = TRUE]}

\* From the second day until the third no contract of Nifty is listed.
Unlisted == [Relisted EXCEPT !.master[put].last = MomentOf(2, 0)]

\* Of the 48 quotes expected some are missing.
Without(c, moments) ==
  [Sound EXCEPT !.quotes = {q \in @ : q.contract # c \/ q.at \notin moments}]

Sparse ==
  {Without(call, {MomentOf(3, 4)}),
   Without(call, {MomentOf(3, 4), MomentOf(4, 6)})}

\* The last day is closed: the probe is a contract there is.
EndsEarly == [Sound EXCEPT !.sessions[4].status = "CLOSED"]

\* What the provider evaluation does not like of a dataset, or only warns of.
Doubtful ==
  {Unlisted, EndsEarly, Ingested(Sound), Ingested(Tested), Ingested(Gap),
   [Sound EXCEPT !.instruments = {Nifty}], [Sound EXCEPT !.calendar = FALSE],
   [Sound EXCEPT !.license = "NONE"], [Sound EXCEPT !.license = "NOT_APPROVED"],
   [Sound EXCEPT !.status = "RETIRED"], [Sound EXCEPT !.master[far].first = MomentOf(3, 0)],
   [Sound EXCEPT !.cadence = {2, 4, 7}], [Sound EXCEPT !.cadence = {0, 2, 4}],
   [Tested EXCEPT !.calendar = FALSE]}

AllDatasets == Datasets \cup Doubtful \cup Sparse

-----------------------------------------------------------------------------

Size(train, validate, test, step, embargo) ==
  [train |-> train, validate |-> validate, test |-> test, step |-> step,
   embargo |-> embargo]

OnePerDay == Size(1, 1, 1, 1, 0)

SizeChoices == {OnePerDay, Size(1, 1, 2, 1, 0), Size(1, 1, 1, 1, 1)}

Buys(c, t) ==
  [of |-> t,
   candidate |-> [contract |-> c, index |-> Nifty,
                  direction |-> IF c = put THEN "BEARISH" ELSE "BULLISH",
                  price |-> BidAt(DateAt(t), 2) + 1,
                  stop |-> PremiumStop(BidAt(DateAt(t), 2) + 1), quantity |-> 1]]

Waits(t) == [of |-> t, candidate |-> NoCandidate]

SlotTimes == {MomentOf(d, o) : d \in SessionDays, o \in {2, 4, 6}}

\* Packages of the slots: the mornings buy, the rest waits; and one of a day.
Mornings(c) ==
  [slots |-> [t \in SlotTimes |->
                IF t % DayLength = 2 THEN Buys(c, t) ELSE Waits(t)],
   days |-> [d \in {} |-> Waits(0)]]

Evenings(c) ==
  [slots |-> [t \in SlotTimes |->
                IF t % DayLength = 4 THEN Buys(c, t) ELSE Waits(t)],
   days |-> [d \in {} |-> Waits(0)]]

DayPackages ==
  [slots |-> [t \in {} |-> Waits(0)],
   days |-> [d \in SessionDays |-> Buys(call, MomentOf(d, 2))]]

Missing(day) ==
  [Mornings(call) EXCEPT
     !.slots = [t \in {u \in SlotTimes : DateAt(u) # day} |-> Mornings(call).slots[t]]]

PackageChoices ==
  {Mornings(call), Mornings(put), Mornings(otherCall), Evenings(call), DayPackages, Missing(3)}

Campaign(store, packages, sizes) ==
  [kind |-> "campaign", store |-> store, index |-> Nifty, label |-> "NONE",
   record |-> NoRecord, today |-> {}, sessions |-> <<>>, sizes |-> sizes,
   packages |-> packages, listed |-> TRUE, stressed |-> TRUE]

Plain == Campaign(Sound, Mornings(call), OnePerDay)

Campaigns ==
  {Campaign(s, p, z) : s \in Datasets, p \in PackageChoices, z \in SizeChoices}
    \cup {[Plain EXCEPT !.label = l] : l \in {"HISTORICAL", "SYNTHETIC", "LIVE-PAPER"}}
    \cup {[Plain EXCEPT !.today = t] : t \in {{call}, {"listed today"}}}
    \cup {[Plain EXCEPT !.record = [status |-> s, ofStore |-> o]] :
            s \in {"QUALIFIED", "CANDIDATE"}, o \in BOOLEAN}
    \cup {[Campaign(s, Mornings(call), z) EXCEPT !.record = FromHarness] :
            s \in AllDatasets, z \in {OnePerDay}}
    \cup {[Plain EXCEPT !.sessions = s] :
            s \in {<<2, 3, 4>>, <<1, 3, 2>>, <<1, 1, 2, 3>>}}

\* Cycles a caller built: sound ones, or of a quote, a view or a contract that
\* was not there yet.
Built(store) ==
  [t \in DecisionSlots(store) |->
     [snapshot |-> HistoricalSnapshot(store, Nifty, t),
      package |-> PackageAt(Mornings(call), t)]]

Tamper(built, day, change) ==
  [t \in DOMAIN built |->
     IF DateAt(t) # day THEN built[t]
     ELSE CASE change = "row" -> [built[t] EXCEPT !.snapshot.rows[call].age = -1]
            [] change = "view" -> [built[t] EXCEPT !.snapshot.under[Nifty].age = -1]
            [] OTHER -> built[t]]

Runners ==
  {[kind |-> "runner", store |-> s, sessions |-> <<1, 2, 3, 4>>, sizes |-> z,
    cycles |-> Tamper(Built(Sound), d, h), listed |-> l, stressed |-> l] :
     s \in {Sound, Relisted}, z \in SizeChoices, d \in SessionDays,
     h \in {"none", "row", "view"}, l \in BOOLEAN}

Signalling(d) ==
  CASE d = "up" -> [direction |-> "BULLISH", stop |-> 990, target |-> 1010]
    [] d = "down" -> [direction |-> "BEARISH", stop |-> 1010, target |-> 990]
    [] d = "wide" -> [direction |-> "BULLISH", stop |-> 900, target |-> 1100]
    [] OTHER -> [direction |-> "NONE", stop |-> 0, target |-> 0]

Backtests ==
  {[kind |-> "backtest", store |-> s, record |-> r, from |-> 1, to |-> 4,
    ablation |-> a, stressed |-> TRUE,
    signals |-> [d \in SessionDays |-> Signalling(IF d <= 2 THEN f ELSE g)]] :
     s \in Datasets, r \in {[status |-> "QUALIFIED", ofStore |-> TRUE]},
     a \in Ablations, f \in {"up", "down", "wide"}, g \in {"up", "wide", "none"}}
    \cup {[kind |-> "backtest", store |-> Sound, record |-> NoRecord, from |-> 1,
           to |-> 4, ablation |-> "full", stressed |-> FALSE,
           signals |-> [d \in SessionDays |-> Signalling("up")]]}
    \cup {[kind |-> "backtest", store |-> s, record |-> FromHarness, from |-> 1,
           to |-> 4, ablation |-> "full", stressed |-> FALSE,
           signals |-> [d \in SessionDays |-> Signalling("up")]] :
            s \in AllDatasets}

Asks == Campaigns \cup Runners \cup Backtests
=============================================================================
