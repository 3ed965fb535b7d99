------------------------- MODULE SessionEngineProofs -------------------------
(***************************************************************************)
(* Theorems about the two programs that drive sessions of engines over a   *)
(* market: the campaign of paper sessions and the evaluation of history.   *)
(*                                                                         *)
(* What run() owes its caller at the end, one report of each session in    *)
(* the order of the dates, needs an invariant of run() while it is under   *)
(* way: no session has been lost, what is reported is earlier than what is *)
(* in progress, and that is earlier than what is still due.                *)
(*                                                                         *)
(* That nothing is bought on a snapshot of another kind than the label     *)
(* needs that the label was checked against all that is left of the feed,  *)
(* and that a snapshot with rows takes its source from them.               *)
(*                                                                         *)
(* That what is bought agrees with all of the evidence follows a filled    *)
(* order back through the gates to what the specialists said.              *)
(*                                                                         *)
(* That it fits the session's ledger, although decisions are made on an    *)
(* empty book, and that a report's drawdown covers its loss, need an       *)
(* invariant of the ledger: each trade is within its risk, sums over the   *)
(* trades are within the limits, and the peak of the equity curve is never *)
(* below the starting cash.                                                *)
(*                                                                         *)
(* An evaluation needs an invariant of its spans: what is done, in         *)
(* progress and to do is the plan of the request; a replay's trades are    *)
(* what its engine bought and sold on cycles of its own days, a backtest's *)
(* what its decisions filled from bars and quotes of its own days; and the *)
(* equity of a span is its starting cash, what its closed trades made and  *)
(* what it still holds.                                                    *)
(***************************************************************************)
EXTENDS PaperCampaign, HistoricalEvaluation, SharedLemmas

-----------------------------------------------------------------------------
(* A session stays on its day                                              *)

LEMMA SealedDay ==
  ASSUME NEW s, "today" \in DOMAIN s
  PROVE  Sealed(s).today = s.today
  BY DEF Sealed

LEMMA AgentDay ==
  \A m, at, day : AgentSnapshot(m, at, day).today = day
  BY SealedDay DEF AgentSnapshot

LEMMA FixtureDay ==
  \A m, i, at, day : FixtureSnapshot(m, i, at, day).today = day
  BY SealedDay DEF FixtureSnapshot

LEMMA CampaignDay ==
  \A m, at, day : CampaignSnapshot(m, at, day).today = day
  BY SealedDay DEF CampaignSnapshot, SnapshotOfFound, SnapshotOf

\* Every row is flagged or not, and rows have the last word on the source.
Flagged(rows) == FlagsOf(rows) \subseteq BOOLEAN

Honest(s) ==
  /\ Flagged(s.rows)
  /\ DOMAIN s.rows # {} => s.source = ClassifyFixtureFlags(FlagsOf(s.rows))

LEMMA SealedHonest ==
  ASSUME NEW s, "rows" \in DOMAIN s, "source" \in DOMAIN s,
         \A c \in DOMAIN s.rows : s.rows[c].fixture \in BOOLEAN
  PROVE  Honest(Sealed(s))
<1>0. Flagged(s.rows)
  BY DEF Flagged, FlagsOf
<1> DEFINE c == ClassifyFixtureFlags(FlagsOf(s.rows))
           t == [s EXCEPT !.source = c]
<1>1. CASE DOMAIN s.rows = {}
  BY <1>0, <1>1 DEF Sealed, Honest
<1>2. CASE DOMAIN s.rows # {}
  <2>1. Sealed(s) = t
    BY <1>2 DEF Sealed
  <2> HIDE DEF c
  <2>2. t.rows = s.rows /\ t.source = c
    OBVIOUS
  <2> HIDE DEF t
  <2> QED
    BY <1>0, <2>1, <2>2 DEF Honest, c
<1> QED
  BY <1>1, <1>2

LEMMA AgentHonest ==
  ASSUME NEW m, NEW at, NEW day
  PROVE  Honest(AgentSnapshot(m, at, day))
  BY SealedHonest DEF AgentSnapshot, AgedRow

LEMMA FixtureHonest ==
  ASSUME NEW m, NEW i, NEW at, NEW day
  PROVE  Honest(FixtureSnapshot(m, i, at, day))
  BY SealedHonest DEF FixtureSnapshot, AgedRow

LEMMA CampaignHonest ==
  ASSUME NEW m, NEW at, NEW day
  PROVE  Honest(CampaignSnapshot(m, at, day))
  BY SealedHonest DEF CampaignSnapshot, SnapshotOfFound, SnapshotOf, AgedRow

\* A call leaves the session's day, what is left of its feed and its equity
\* curve alone.
Shaped(s) == {"day", "left", "trades", "peak", "drawdown"} \subseteq DOMAIN s

Onward(t, s) ==
  /\ Shaped(t)
  /\ t.day = s.day /\ t.left = s.left
  /\ t.peak = s.peak /\ t.drawdown = s.drawdown

LEMMA NewSessionKept ==
  ASSUME NEW day, NEW sources
  PROVE  /\ Shaped(NewSession(day, sources))
         /\ NewSession(day, sources).day = day
         /\ NewSession(day, sources).left = sources
         /\ NewSession(day, sources).trades = <<>>
         /\ NewSession(day, sources).peak = CampaignCash
         /\ NewSession(day, sources).drawdown = 0
  BY DEF NewSession, NewEngine, Shaped

LEMMA MonitorKept ==
  ASSUME NEW s, NEW snapshot, Shaped(s)
  PROVE  Onward(Monitor(s, snapshot), s)
  BY DEF Monitor, Shaped, Onward

LEMMA EnteredKept ==
  ASSUME NEW s, NEW snapshot, NEW c, Shaped(s)
  PROVE  /\ Onward(Entered(s, snapshot, c), s)
         /\ \/ Entered(s, snapshot, c).trades = s.trades
            \/ /\ Accepts(s, snapshot, c)
               /\ Entered(s, snapshot, c).trades
                    = Append(s.trades, TradeOf(snapshot, c))
  BY DEF Entered, Shaped, Onward

LEMMA PointKept ==
  ASSUME NEW s, Shaped(s)
  PROVE  /\ Shaped(WithPoint(s))
         /\ WithPoint(s).day = s.day /\ WithPoint(s).left = s.left
         /\ WithPoint(s).trades = s.trades
  BY DEF WithPoint, Shaped

\* The day and the source of a snapshot that the runner is given.
LEMMA GivenFacts ==
  ASSUME NEW day \in Days, NEW at \in Moments, NEW snapshot \in Given[<<day, at>>]
  PROVE  snapshot.today = day /\ Honest(snapshot)
<1>1. snapshot \in SnapshotsAt(day, at)
  BY DEF Given
<1>2. snapshot.today = day
  BY <1>1, AgentDay, FixtureDay, CampaignDay DEF SnapshotsAt
<1>3. Honest(snapshot)
  BY <1>1, AgentHonest, FixtureHonest, CampaignHonest DEF SnapshotsAt
<1> QED
  BY <1>2, <1>3

\* The decision of the cycle was carried out: its trade is the last one.
Executed(t, s, snapshot, decision) ==
  /\ decision.status = "CANDIDATE"
  /\ Accepts(s, snapshot, decision.candidate)
  /\ t.trades = Append(s.trades, TradeOf(snapshot, decision.candidate))

\* A call that may buy leaves the trades alone or carries the decision out.
Grown(t, s, snapshot, decision) ==
  t.trades = s.trades \/ Executed(t, s, snapshot, decision)

LEMMA ExecuteKept ==
  ASSUME NEW s, NEW snapshot, NEW decision, Shaped(s), snapshot.today = s.day
  PROVE  /\ Onward(Execute(s, snapshot, decision), s)
         /\ Grown(Execute(s, snapshot, decision), s, snapshot, decision)
<1> DEFINE c == decision.candidate
           e == Entered(s, snapshot, c)
<1>1. Rolled(s, snapshot.today) = s
  BY DEF Rolled
<1>2. Onward(e, s)
  BY EnteredKept
<1>3. \/ e.trades = s.trades
      \/ Accepts(s, snapshot, c) /\ e.trades = Append(s.trades, TradeOf(snapshot, c))
  BY EnteredKept
<1>4. Execute(s, snapshot, decision) = IF decision.status = "CANDIDATE" THEN e ELSE s
  BY <1>1 DEF Execute
<1> HIDE DEF e
<1>5. CASE decision.status = "CANDIDATE"
  BY <1>2, <1>3, <1>4, <1>5 DEF Grown, Executed
<1>6. CASE decision.status # "CANDIDATE"
  BY <1>4, <1>6 DEF Onward, Grown
<1> QED BY <1>5, <1>6

LEMMA DecidedKept ==
  ASSUME NEW s, NEW snapshot, NEW failing, Shaped(s), snapshot.today = s.day
  PROVE  /\ Onward(Decided(s, snapshot, failing), s)
         /\ Grown(Decided(s, snapshot, failing), s, snapshot,
                  CycleDecision[<<snapshot, failing>>])
<1> DEFINE decision == CycleDecision[<<snapshot, failing>>]
           e == Execute(s, snapshot, decision)
           g == WithDecision(s, snapshot, decision)
<1>1. Onward(e, s) /\ Grown(e, s, snapshot, decision)
  BY ExecuteKept
<1>2. Onward(g, s) /\ g.trades = e.trades
  <2> DEFINE n == e.decisions + 1
             r == IF DecisionAction(decision) = "NO_TRADE" THEN e.rejected + 1
                                                           ELSE e.rejected
  <2>1. g = [e EXCEPT !.decisions = n, !.rejected = r]
    BY DEF WithDecision
  <2> HIDE DEF e, n, r, g
  <2> QED
    BY <1>1, <2>1 DEF Onward, Shaped
<1>3. Grown(g, s, snapshot, decision)
  BY <1>1, <1>2 DEF Grown, Executed
<1>4. Decided(s, snapshot, failing) \in {g, s}
  BY DEF Decided, WithCycle
<1>5. Onward(s, s) /\ Grown(s, s, snapshot, decision)
  BY DEF Onward, Grown
<1> HIDE DEF g
<1> QED
  BY <1>2, <1>3, <1>4, <1>5

\* A snapshot processed is a point of the equity curve after the entry.
LEMMA ProcessedIsPoint ==
  ASSUME NEW s, NEW snapshot, NEW failing, Shaped(s), snapshot.today = s.day
  PROVE  \E e : /\ Processed(s, snapshot, failing) = WithPoint(e)
               /\ Shaped(e) /\ e.day = s.day /\ e.left = Tail(s.left)
               /\ e.peak = s.peak /\ e.drawdown = s.drawdown
               /\ Grown(e, Monitor(s, snapshot), snapshot,
                        CycleDecision[<<snapshot, failing>>])
<1> DEFINE m == Monitor(s, snapshot)
           d == Decided(m, snapshot, failing)
           a == snapshot.at
           r == Tail(d.left)
           e == [d EXCEPT !.at = a, !.left = r]
           decision == CycleDecision[<<snapshot, failing>>]
<1>1. Onward(m, s)
  BY MonitorKept
<1>2. Shaped(m) /\ snapshot.today = m.day
  BY <1>1 DEF Onward
<1>3. Onward(d, m) /\ Grown(d, m, snapshot, decision)
  BY <1>2, DecidedKept
<1>4. Processed(s, snapshot, failing)
        = WithPoint([d EXCEPT !.at = snapshot.at, !.left = Tail(@)])
  BY DEF Processed
<1>5. [d EXCEPT !.at = snapshot.at, !.left = Tail(@)] = e
  <2> HIDE DEF d
  <2> QED
    BY <1>3 DEF Onward, Shaped
<1> HIDE DEF m, d
<1>6. /\ Shaped(e) /\ e.day = d.day /\ e.left = r /\ e.trades = d.trades
      /\ e.peak = d.peak /\ e.drawdown = d.drawdown
  <2> HIDE DEF a, r
  <2> QED
    BY <1>3 DEF Onward, Shaped
<1> HIDE DEF e
<1>7. Processed(s, snapshot, failing) = WithPoint(e)
  BY <1>4, <1>5
<1>8. /\ e.day = s.day /\ e.left = Tail(s.left)
      /\ e.peak = s.peak /\ e.drawdown = s.drawdown
  BY <1>1, <1>3, <1>6 DEF Onward
<1>9. Grown(e, m, snapshot, decision)
  BY <1>3, <1>6 DEF Grown, Executed
<1> QED
  BY <1>6, <1>7, <1>8, <1>9 DEF m

LEMMA ProcessedKept ==
  ASSUME NEW s, NEW snapshot, NEW failing, Shaped(s), snapshot.today = s.day
  PROVE  LET t == Processed(s, snapshot, failing)
         IN /\ Shaped(t) /\ t.day = s.day /\ t.left = Tail(s.left)
            /\ Grown(t, Monitor(s, snapshot), snapshot,
                     CycleDecision[<<snapshot, failing>>])
<1> DEFINE t == Processed(s, snapshot, failing)
           decision == CycleDecision[<<snapshot, failing>>]
           m == Monitor(s, snapshot)
<1>1. PICK e : /\ t = WithPoint(e)
               /\ Shaped(e) /\ e.day = s.day /\ e.left = Tail(s.left)
               /\ Grown(e, m, snapshot, decision)
  BY ProcessedIsPoint
<1> HIDE DEF t, m, decision
<1>2. Shaped(t) /\ t.day = s.day /\ t.left = Tail(s.left) /\ t.trades = e.trades
  BY <1>1, PointKept
<1>3. Grown(t, m, snapshot, decision)
  BY <1>1, <1>2 DEF Grown, Executed
<1> QED
  BY <1>2, <1>3 DEF t, m, decision

-----------------------------------------------------------------------------
(* The invariant of run()                                                  *)

IsSequence(s) == \E S : s \in Seq(S)

\* Where the reports of a run() in progress stand.
ReportsInOrder ==
  /\ begun = Len(eods) + (IF session = NoSession THEN 0 ELSE 1)
  /\ \A i, j \in 1..Len(eods) : i < j => eods[i].day < eods[j].day
  /\ \A i \in 1..Len(eods) : eods[i].day \in Days
  /\ \A i \in 1..Len(eods), d \in DOMAIN due : eods[i].day < d
  /\ session # NoSession =>
       /\ \A i \in 1..Len(eods) : eods[i].day < session.day
       /\ \A d \in DOMAIN due : session.day < d

\* What a snapshot of a labelled campaign may come from.
Allowed ==
  {x \in Sources : /\ x # "MIXED"
                   /\ label = "LIVE-PAPER" => x = "LIVE"
                   /\ label = "FIXTURE" => x = "FIXTURE"}

SessionSound ==
  /\ Shaped(session)
  /\ session.day \in Days
  /\ session.left \in Seq(Allowed)
  /\ IsSequence(session.trades)

IInv ==
  /\ label \in Labels
  /\ begun \in Nat
  /\ IsSequence(eods)
  /\ due \in Plans
  /\ session # NoSession => SessionSound
  /\ OneProvenance
  /\ status = "CREATED" =>
       eods = <<>> /\ begun = 0 /\ session = NoSession /\ ~ running
  /\ running => status = "RUNNING" /\ ReportsInOrder
  /\ status = "ENDED" => ~ running /\ session = NoSession /\ ReportsInOrder

LEMMA DaysAreNat == Days \subseteq Nat
  BY CampaignConstants

LEMMA SomeSession ==
  ASSUME NEW s, s.day \in Days
  PROVE  s # NoSession
<1>1. NoSession.day = -1
  BY DEF NoSession
<1>2. s.day \in Nat
  BY DaysAreNat
<1> QED
  BY <1>1, <1>2

LEMMA AppendFacts ==
  ASSUME NEW s, IsSequence(s), NEW e
  PROVE  /\ IsSequence(Append(s, e))
         /\ Len(s) \in Nat
         /\ Len(Append(s, e)) = Len(s) + 1
         /\ Append(s, e)[Len(s) + 1] = e
         /\ \A i \in 1..Len(s) : Append(s, e)[i] = s[i]
<1>1. PICK S : s \in Seq(S)
  BY DEF IsSequence
<1> DEFINE T == S \cup {e}
<1>2. s \in Seq(T)
  BY <1>1
<1>3. e \in T
  OBVIOUS
<1> HIDE DEF T
<1>4. Append(s, e) \in Seq(T)
  BY <1>2, <1>3
<1>5. IsSequence(Append(s, e))
  BY <1>4 DEF IsSequence
<1> QED
  BY <1>2, <1>3, <1>5

LEMMA NothingPlanned == NothingDue \in Plans
<1>1. NothingDue \in [{} -> SourceLists]
  BY DEF NothingDue
<1>2. {} \in SUBSET Days
  OBVIOUS
<1> QED
  BY <1>1, <1>2 DEF Plans

LEMMA PlanFacts ==
  ASSUME NEW plan \in Plans
  PROVE  /\ DOMAIN plan \subseteq Days
         /\ \A d \in DOMAIN plan : plan[d] \in SourceLists
         /\ \A e : [d \in DOMAIN plan \ {e} |-> plan[d]] \in Plans
<1>1. PICK S \in SUBSET Days : plan \in [S -> SourceLists]
  BY DEF Plans
<1>2. ASSUME NEW e PROVE [d \in DOMAIN plan \ {e} |-> plan[d]] \in Plans
  <2>1. [d \in DOMAIN plan \ {e} |-> plan[d]] \in [S \ {e} -> SourceLists]
    BY <1>1
  <2>2. S \ {e} \in SUBSET Days
    OBVIOUS
  <2> QED
    BY <2>1, <2>2 DEF Plans
<1> QED
  BY <1>1, <1>2

\* The check of the label before a session covers every snapshot of its feed.
LEMMA AllowedFeed ==
  ASSUME NEW sources \in SourceLists, LabelAllows(SourcesOf(sources))
  PROVE  sources \in Seq(Allowed)
<1>1. PICK n \in 1..MaxSnapshots : sources \in [1..n -> Sources]
  BY DEF SourceLists
<1>2. ASSUME NEW i \in 1..n PROVE sources[i] \in Allowed
  BY <1>1 DEF LabelAllows, SourcesOf, Allowed
<1>3. n \in Nat
  BY CampaignConstants
<1> QED
  BY <1>1, <1>2, <1>3

LEMMA InitOrder == Init => IInv
<1> SUFFICES ASSUME Init PROVE IInv
  OBVIOUS
<1>1. begun \in Nat /\ label \in Labels /\ due \in Plans /\ OneProvenance
  BY NothingPlanned DEF Init, OneProvenance, NoCycle
<1>2. IsSequence(eods)
  <2>1. eods \in Seq({})
    BY DEF Init
  <2> QED
    BY <2>1 DEF IsSequence
<1> QED
  BY <1>1, <1>2 DEF Init, IInv

LEMMA SessionBegins ==
  ASSUME IInv, NEW day \in Days, NEW sources \in SourceLists,
         Begin(day, sources)
  PROVE  /\ session' # NoSession /\ SessionSound' /\ session'.day = day
         /\ session = NoSession /\ status' = "RUNNING" /\ OneProvenance'
         /\ begun' = begun + 1 /\ UNCHANGED <<label, running, eods>>
<1>1. /\ session' = NewSession(day, sources)
      /\ session = NoSession /\ status' = "RUNNING"
      /\ begun' = begun + 1 /\ UNCHANGED <<label, running, eods>>
      /\ LabelAllows(SourcesOf(sources)) /\ cycle' = NoCycle
  BY DEF Begin
<1>2. /\ Shaped(session') /\ session'.day = day /\ session'.left = sources
      /\ session'.trades = <<>>
  BY <1>1, NewSessionKept
<1>3. session' # NoSession
  BY <1>2, SomeSession
<1>4. sources \in Seq(Allowed')
  BY <1>1, AllowedFeed DEF Allowed
<1>5. IsSequence(session'.trades)
  <2>1. session'.trades \in Seq({})
    BY <1>2
  <2> QED
    BY <2>1 DEF IsSequence
<1>6. SessionSound'
  BY <1>2, <1>4, <1>5 DEF SessionSound
<1>7. OneProvenance'
  BY <1>1 DEF OneProvenance, NoCycle
<1> QED
  BY <1>1, <1>2, <1>3, <1>6, <1>7

LEMMA SingleKeeps ==
  ASSUME IInv, NEW day \in Days, NEW sources \in SourceLists,
         RunSession(day, sources)
  PROVE  IInv'
<1>1. Begin(day, sources) /\ ~ running /\ UNCHANGED due
  BY DEF RunSession
<1>2. due' \in Plans
  BY <1>1 DEF IInv, Plans, SourceLists
<1> QED
  BY <1>1, <1>2, SessionBegins DEF IInv

LEMMA RunKeeps ==
  ASSUME IInv, NEW plan \in Plans, Run(plan)
  PROVE  IInv'
<1>1. /\ status = "CREATED" /\ status' = "RUNNING" /\ due' = plan
      /\ UNCHANGED <<label, session, cycle, eods, begun>>
  BY DEF Run, MayRun
<1>2. eods' = <<>> /\ begun' = 0 /\ session' = NoSession
  BY <1>1 DEF IInv
<1>3. due' \in Plans
  BY <1>1 DEF Plans, SourceLists
<1>4. ReportsInOrder'
  BY <1>2 DEF ReportsInOrder
<1>5. OneProvenance'
  BY <1>1 DEF IInv, OneProvenance
<1> QED
  BY <1>1, <1>2, <1>3, <1>4, <1>5 DEF IInv

LEMMA NextSessionKeeps ==
  ASSUME IInv, NEW day \in DOMAIN due, NextSession(day)
  PROVE  IInv'
<1>0. /\ DOMAIN due \subseteq Days
      /\ \A d \in DOMAIN due : due[d] \in SourceLists
      /\ [d \in DOMAIN due \ {day} |-> due[d]] \in Plans
  BY PlanFacts DEF IInv
<1>1. /\ running /\ Begin(day, due[day])
      /\ \A d \in DOMAIN due : day <= d
      /\ due' = [d \in DOMAIN due \ {day} |-> due[d]]
  BY DEF NextSession
<1>2. day \in Days /\ due[day] \in SourceLists
  BY <1>0
<1>3. /\ session' # NoSession /\ SessionSound' /\ session'.day = day
      /\ session = NoSession /\ status' = "RUNNING" /\ OneProvenance'
      /\ begun' = begun + 1 /\ UNCHANGED <<label, running, eods>>
  BY <1>1, <1>2, SessionBegins
<1>4. DOMAIN due' = DOMAIN due \ {day}
  BY <1>1
<1>5. DOMAIN due \subseteq Nat
  BY <1>0, DaysAreNat
<1>6. \A d \in DOMAIN due' : day < d
  BY <1>1, <1>4, <1>5
<1>7. ReportsInOrder
  BY <1>1 DEF IInv
<1>8. ReportsInOrder'
  <2>1. begun' = Len(eods') + 1
    <3>1. Len(eods) \in Nat
      BY AppendFacts DEF IInv
    <3> QED
      BY <1>3, <1>7, <3>1 DEF ReportsInOrder
  <2>2. \A i \in 1..Len(eods') : eods'[i].day < session'.day
    BY <1>3, <1>7 DEF ReportsInOrder
  <2>3. \A i \in 1..Len(eods'), d \in DOMAIN due' : eods'[i].day < d
    BY <1>3, <1>4, <1>7 DEF ReportsInOrder
  <2>4. \A d \in DOMAIN due' : session'.day < d
    BY <1>3, <1>6
  <2> QED
    BY <1>3, <1>7, <2>1, <2>2, <2>3, <2>4 DEF ReportsInOrder
<1>9. due' \in Plans
  BY <1>0, <1>1 DEF Plans, SourceLists
<1> QED
  BY <1>1, <1>3, <1>8, <1>9 DEF IInv

\* Marking and closing change the number of trades of no session.
LEMMA MonitorTrades ==
  ASSUME NEW s, NEW snapshot, "trades" \in DOMAIN s, IsSequence(s.trades)
  PROVE  LET m == Monitor(s, snapshot)
         IN IsSequence(m.trades) /\ Len(m.trades) = Len(s.trades)
<1> DEFINE m == Monitor(s, snapshot)
           ts == [i \in DOMAIN s.trades |-> Monitored(s.trades[i], snapshot)]
           T == {ts[i] : i \in DOMAIN s.trades}
<1>1. PICK S : s.trades \in Seq(S)
  BY DEF IsSequence
<1>2. m.trades \in {s.trades, ts}
  <2> HIDE DEF ts
  <2>1. CASE GatedQuality(snapshot) # "OK"
    BY <2>1 DEF Monitor
  <2>2. CASE GatedQuality(snapshot) = "OK"
    BY <2>2 DEF Monitor, ts
  <2> QED
    BY <2>1, <2>2
<1>3. DOMAIN s.trades = 1..Len(s.trades) /\ Len(s.trades) \in Nat
  BY <1>1
<1>4. ts \in [1..Len(s.trades) -> T]
  BY <1>3
<1>5. ts \in Seq(T) /\ Len(ts) = Len(s.trades)
  <2> HIDE DEF ts, T
  <2> QED
    BY <1>3, <1>4
<1> HIDE DEF m, ts, T
<1>6. IsSequence(m.trades) /\ Len(m.trades) = Len(s.trades)
  BY <1>1, <1>2, <1>5 DEF IsSequence
<1> QED
  BY <1>6 DEF m

\* What was bought has a row, so the rows have spoken of the source.
LEMMA BoughtFlags ==
  ASSUME label \in Labels, NEW snapshot, Honest(snapshot),
         NEW s, NEW c, Accepts(s, snapshot, c), snapshot.source \in Allowed
  PROVE  FlagsOf(snapshot.rows) = {label = "FIXTURE"}
<1> DEFINE flags == FlagsOf(snapshot.rows)
<1>2. Buyable(PaperQuote(snapshot, c.contract))
  BY DEF Accepts
<1>3. c.contract \in DOMAIN snapshot.rows
  BY <1>2 DEF Buyable, PaperQuote
<1>4. flags # {} /\ flags \subseteq BOOLEAN
  BY <1>3 DEF FlagsOf, Honest, Flagged
<1>5. snapshot.source = ClassifyFixtureFlags(flags)
  BY <1>3 DEF Honest
<1> HIDE DEF flags
<1>6. flags \in {{TRUE}, {FALSE}, {TRUE, FALSE}}
  BY <1>4
<1>7. CASE label = "FIXTURE"
  <2>1. flags = {TRUE}
    BY <1>5, <1>6, <1>7 DEF ClassifyFixtureFlags, Allowed
  <2> QED
    BY <1>7, <2>1 DEF flags
<1>8. CASE label = "LIVE-PAPER"
  <2>1. flags = {FALSE}
    BY <1>5, <1>6, <1>8 DEF ClassifyFixtureFlags, Allowed
  <2> QED
    BY <1>8, <2>1 DEF flags
<1> QED
  BY <1>7, <1>8 DEF Labels

\* A snapshot leaves the session on its day, and is of the campaign's kind if
\* something was bought on it.
LEMMA SnapshotKeeps ==
  ASSUME IInv, session # NoSession, session.left # <<>>,
         NEW at \in Moments, NEW failing \in Failings,
         NEW snapshot \in Given[<<session.day, at>>],
         ProcessSnapshot(snapshot, failing)
  PROVE  IInv'
<1> DEFINE m == Monitor(session, snapshot)
           c == [accepted |-> TRUE, snapshot |-> snapshot, failing |-> failing]
           decision == CycleDecision[<<snapshot, failing>>]
<1>1. /\ session' = Processed(session, snapshot, failing)
      /\ UNCHANGED <<label, status, due, running, eods, begun>>
      /\ snapshot.source = Head(session.left)
      /\ cycle' = IF Len(session'.trades) > Len(session.trades) THEN c
                                                                ELSE NoCycle
  BY DEF ProcessSnapshot
<1>2. SessionSound
  BY DEF IInv
<1>3. snapshot.today = session.day /\ Honest(snapshot)
  BY <1>2, GivenFacts DEF SessionSound
<1>4. /\ Shaped(session') /\ session'.day = session.day
      /\ session'.left = Tail(session.left)
      /\ Grown(session', m, snapshot, decision)
  BY <1>1, <1>2, <1>3, ProcessedKept DEF SessionSound
<1>5. session' # NoSession
  BY <1>2, <1>4, SomeSession DEF SessionSound
<1>6. ReportsInOrder => ReportsInOrder'
  BY <1>1, <1>4, <1>5 DEF ReportsInOrder
<1>7. session.left \in Seq(Allowed) /\ Head(session.left) \in Allowed
      /\ Tail(session.left) \in Seq(Allowed)
  BY <1>2 DEF SessionSound
<1>8. IsSequence(m.trades) /\ Len(m.trades) = Len(session.trades)
  BY <1>2, MonitorTrades DEF SessionSound, Shaped
<1> HIDE DEF m, decision
<1>9. IsSequence(session'.trades)
  <2>1. CASE session'.trades = m.trades
    BY <1>8, <2>1
  <2>2. CASE \E x : session'.trades = Append(m.trades, x)
    <3>1. PICK x : session'.trades = Append(m.trades, x)
      BY <2>2
    <3>2. IsSequence(Append(m.trades, x))
      BY <1>8, AppendFacts
    <3> QED
      BY <3>1, <3>2
  <2> QED
    BY <1>4, <2>1, <2>2 DEF Grown, Executed
<1>10. SessionSound'
  <2>1. Allowed' = Allowed
    BY <1>1 DEF Allowed
  <2> QED
    BY <1>2, <1>4, <1>7, <1>9, <2>1 DEF SessionSound
<1>11. OneProvenance'
  <2>1. CASE Executed(session', m, snapshot, decision)
    <3>1. FlagsOf(snapshot.rows) = {label = "FIXTURE"}
      BY <1>1, <1>3, <1>7, <2>1, BoughtFlags DEF IInv, Executed
    <3>2. cycle' \in {c, NoCycle} /\ label' = label
      BY <1>1
    <3> QED
      BY <3>1, <3>2 DEF OneProvenance, NoCycle
  <2>2. CASE session'.trades = m.trades
    <3>1. Len(session'.trades) = Len(session.trades)
      BY <1>8, <2>2
    <3>2. Len(session.trades) \in Nat
      BY <1>2, AppendFacts DEF SessionSound
    <3>3. cycle' = NoCycle
      BY <1>1, <3>1, <3>2
    <3> QED
      BY <3>3 DEF OneProvenance, NoCycle
  <2> QED
    BY <1>4, <2>1, <2>2 DEF Grown
<1>12. due' \in Plans
  BY <1>1 DEF IInv, Plans, SourceLists
<1> QED
  BY <1>1, <1>5, <1>6, <1>10, <1>11, <1>12 DEF IInv

\* The report of a session is of its day, later than all before it.
LEMMA EndKeeps ==
  ASSUME IInv, session # NoSession, EndSession
  PROVE  IInv'
<1> DEFINE e == EodOf(WithPoint(session))
           n == Len(eods)
<1>1. /\ eods' = Append(eods, e) /\ session' = NoSession
      /\ cycle' = NoCycle /\ UNCHANGED <<label, status, due, running, begun>>
  BY DEF EndSession
<1>2. Shaped(session) /\ session.day \in Days
  BY DEF IInv, SessionSound
<1>3. e.day = session.day
  <2>1. WithPoint(session).day = session.day
    BY <1>2, PointKept DEF Onward
  <2> HIDE DEF WithPoint
  <2> QED
    BY <2>1 DEF EodOf
<1> HIDE DEF e
<1>4. /\ IsSequence(eods') /\ n \in Nat /\ Len(eods') = n + 1
      /\ eods'[n + 1] = e
      /\ \A i \in 1..n : eods'[i] = eods[i]
  BY <1>1, AppendFacts DEF IInv
<1>5. ASSUME ReportsInOrder PROVE ReportsInOrder'
  <2>1. begun' = Len(eods')
    BY <1>1, <1>4, <1>5 DEF ReportsInOrder
  <2>2. ASSUME NEW i \in 1..Len(eods') PROVE i \in 1..n \/ i = n + 1
    BY <1>4
  <2>3. \A i, j \in 1..Len(eods') : i < j => eods'[i].day < eods'[j].day
    <3> SUFFICES ASSUME NEW i \in 1..Len(eods'), NEW j \in 1..Len(eods'), i < j
                 PROVE  eods'[i].day < eods'[j].day
      OBVIOUS
    <3>1. i \in 1..n
      BY <1>4
    <3>2. CASE j \in 1..n
      BY <1>4, <1>5, <3>1, <3>2 DEF ReportsInOrder
    <3>3. CASE j = n + 1
      <4>1. eods'[i] = eods[i] /\ eods'[j] = e
        BY <1>4, <3>1, <3>3
      <4>2. eods[i].day < session.day
        BY <1>5, <3>1 DEF ReportsInOrder
      <4> QED
        BY <1>3, <4>1, <4>2
    <3> QED
      BY <2>2, <3>2, <3>3
  <2>4. \A i \in 1..Len(eods') : eods'[i].day \in Days
    BY <1>2, <1>3, <1>4, <1>5, <2>2 DEF ReportsInOrder
  <2>5. \A i \in 1..Len(eods'), d \in DOMAIN due' : eods'[i].day < d
    BY <1>1, <1>3, <1>4, <1>5, <2>2 DEF ReportsInOrder
  <2> QED
    BY <1>1, <2>1, <2>3, <2>4, <2>5 DEF ReportsInOrder
<1>6. status # "CREATED" /\ status # "ENDED"
  BY DEF IInv
<1>7. due' \in Plans /\ OneProvenance'
  BY <1>1 DEF IInv, Plans, SourceLists, OneProvenance, NoCycle
<1> QED
  BY <1>1, <1>4, <1>5, <1>6, <1>7 DEF IInv

LEMMA RaiseKeeps ==
  ASSUME IInv, session # NoSession, SessionRaises
  PROVE  IInv'
<1>1. /\ session' = NoSession /\ running' = FALSE /\ due' = NothingDue
      /\ cycle' = NoCycle /\ UNCHANGED <<label, status, eods, begun>>
  BY DEF SessionRaises
<1>2. status # "CREATED" /\ status # "ENDED"
  BY DEF IInv
<1>3. due' \in Plans /\ OneProvenance'
  BY <1>1, NothingPlanned
     DEF Plans, SourceLists, NothingDue, OneProvenance, NoCycle
<1> QED
  BY <1>1, <1>2, <1>3 DEF IInv

LEMMA FinishKeeps ==
  ASSUME IInv, FinishRun
  PROVE  IInv'
<1>1. /\ running /\ session = NoSession /\ status' = "ENDED"
      /\ running' = FALSE
      /\ UNCHANGED <<label, due, session, cycle, eods, begun>>
  BY DEF FinishRun
<1>2. ReportsInOrder
  BY <1>1 DEF IInv
<1>3. ReportsInOrder'
  BY <1>1, <1>2 DEF ReportsInOrder
<1>4. due' \in Plans /\ OneProvenance'
  BY <1>1 DEF IInv, Plans, SourceLists, OneProvenance
<1> QED
  BY <1>1, <1>3, <1>4 DEF IInv

-----------------------------------------------------------------------------
(* What is bought agrees with all of the evidence                          *)

LEMMA SidesAreDirections ==
  ASSUME NEW snapshot
  PROVE  TechnicalSides(snapshot) \subseteq {"BULLISH", "BEARISH"}
<1>1. \A closes : AverageSide(closes) \in {"BULLISH", "BEARISH", "NONE"}
  BY DEF AverageSide
<1> QED
  BY <1>1 DEF TechnicalSides

LEMMA LabelsAreRegimes ==
  ASSUME NEW snapshot
  PROVE  RegimeLabels(snapshot)
           \subseteq {"BULLISH", "BEARISH", "RANGING", "HIGH_VOLATILITY"}
<1>1. ASSUME NEW u
      PROVE  RegimeLabel(snapshot, u)
               \in {"BULLISH", "BEARISH", "RANGING", "HIGH_VOLATILITY",
                    "INSUFFICIENT"}
  <2> DEFINE p == PeriodOf(snapshot, u)
             wild == 50 * p.range >= snapshot.under[u].ltp
  <2>1. RegimeLabel(snapshot, u) =
          CASE p.first = 0 -> "INSUFFICIENT"
            [] p.first # 0 /\ wild -> "HIGH_VOLATILITY"
            [] OTHER -> IF p.last > p.first THEN "BULLISH"
                        ELSE IF p.last < p.first THEN "BEARISH" ELSE "RANGING"
    BY DEF RegimeLabel
  <2> HIDE DEF p, wild
  <2>2. CASE p.first = 0
    BY <2>1, <2>2
  <2>3. CASE p.first # 0 /\ wild
    BY <2>1, <2>3
  <2>4. CASE p.first # 0 /\ ~ wild
    BY <2>1, <2>4
  <2> QED
    BY <2>2, <2>3, <2>4
<1> QED
  BY <1>1 DEF RegimeLabels

\* A set of one that is part of a finite set is the set of its member.
LEMMA OnlyMember ==
  ASSUME NEW S, NEW T, S \subseteq T, IsFiniteSet(T), Cardinality(S) = 1
  PROVE  S = {CHOOSE x \in S : TRUE}
<1>1. IsFiniteSet(S)
  BY FS_Subset
<1>2. PICK x : S = {x}
  BY <1>1, FS_Singleton
<1> QED
  BY <1>2

\* What the sides of the averages make the technical agent say.
LEMMA TechnicalSays ==
  ASSUME NEW snapshot, TechnicalSides(snapshot) # {}
  PROVE  LET a == TechnicalAgent(snapshot)
         IN /\ a.status = "PASS"
            /\ \/ TechnicalSides(snapshot) = {a.vote}
               \/ a.mentions = Directions
<1> DEFINE S == TechnicalSides(snapshot)
           s == CHOOSE x \in S : TRUE
           a == TechnicalAgent(snapshot)
<1>1. CASE Cardinality(S) = 1
  <2>1. a = Answer("PASS", s, S)
    BY <1>1 DEF TechnicalAgent
  <2>2. S = {s}
    <3>1. IsFiniteSet({"BULLISH", "BEARISH"})
      BY FS_Singleton, FS_AddElement, IsFiniteSet({"BULLISH"}),
         {"BULLISH"} \cup {"BEARISH"} = {"BULLISH", "BEARISH"}
    <3> HIDE DEF S
    <3> QED
      BY <1>1, <3>1, SidesAreDirections, OnlyMember DEF S
  <2> HIDE DEF a, s, S
  <2> QED
    BY <2>1, <2>2 DEF Answer, a, S
<1>2. CASE Cardinality(S) # 1
  <2>1. a = Answer("PASS", "NONE", Directions)
    BY <1>2 DEF TechnicalAgent
  <2> QED
    BY <2>1 DEF Answer
<1> QED
  BY <1>1, <1>2

\* What one regime makes the regime agent say.
LEMMA RegimeSays ==
  ASSUME NEW snapshot, Cardinality(RegimeLabels(snapshot)) = 1
  PROVE  LET a == RegimeAgent(snapshot)
             L == RegimeLabels(snapshot)
         IN /\ a.status = "PASS"
            /\ \/ L = {a.vote} /\ a.vote \in Directions
               \/ L = {"HIGH_VOLATILITY"} /\ a.volatile
               \/ L = {"RANGING"}
<1> DEFINE L == RegimeLabels(snapshot)
           l == CHOOSE x \in L : TRUE
           a == RegimeAgent(snapshot)
<1>1. L = {l}
  <2> DEFINE T == {"BULLISH", "BEARISH", "RANGING", "HIGH_VOLATILITY"}
  <2>1. IsFiniteSet(T)
    <3>1. IsFiniteSet({"BULLISH"})
      BY FS_Singleton
    <3>2. IsFiniteSet({"BULLISH"} \cup {"BEARISH"})
      BY <3>1, FS_AddElement
    <3>3. IsFiniteSet(({"BULLISH"} \cup {"BEARISH"}) \cup {"RANGING"})
      BY <3>2, FS_AddElement
    <3>4. IsFiniteSet((({"BULLISH"} \cup {"BEARISH"}) \cup {"RANGING"})
                      \cup {"HIGH_VOLATILITY"})
      BY <3>3, FS_AddElement
    <3>5. T = (({"BULLISH"} \cup {"BEARISH"}) \cup {"RANGING"})
                \cup {"HIGH_VOLATILITY"}
      OBVIOUS
    <3> QED
      BY <3>4, <3>5
  <2> HIDE DEF L
  <2> QED
    BY <2>1, LabelsAreRegimes, OnlyMember DEF L
<1>2. l \in {"BULLISH", "BEARISH", "RANGING", "HIGH_VOLATILITY"}
  BY <1>1, LabelsAreRegimes
<1>3. L # {} /\ ~ (Cardinality(L) > 1) /\ Cardinality(L) = 1
  BY <1>1
<1>4. a = IF L \subseteq Directions THEN Answer("PASS", l, L)
          ELSE [Answer("PASS", "NONE", {}) EXCEPT
                  !.volatile = L = {"HIGH_VOLATILITY"}]
  <2> HIDE DEF L
  <2> QED
    BY <1>3 DEF RegimeAgent, RegimeAnswer, L
<1> HIDE DEF L, l, a
<1>5. CASE l \in Directions
  BY <1>1, <1>4, <1>5 DEF Answer, a, L
<1>6. CASE l \notin Directions
  BY <1>1, <1>2, <1>4, <1>6 DEF Answer, Directions, a, L
<1> QED
  BY <1>5, <1>6

\* What is proposed has the direction that the campaign's agent votes for.
LEMMA OptionsSays ==
  ASSUME NEW snapshot, CampaignOptionsAgent(snapshot).opens # NoCandidate
  PROVE  LET a == CampaignOptionsAgent(snapshot)
         IN a.status = "PASS" /\ a.vote = a.opens.direction
<1> DEFINE picks == Picks(snapshot)
           best == BestPick(snapshot, picks)
           direction == ReportedDirection(best, picks)
           a == CampaignOptionsAgent(snapshot)
<1>1. a = IF DOMAIN snapshot.rows = {} THEN NoData
          ELSE OptionsAnswer(best, direction)
  BY DEF CampaignOptionsAgent, PicksToAnswer, PicksAnswer
<1>2. NoData.opens = NoCandidate
  BY DEF NoData, Answer
<1>3. OptionsAnswer(best, direction) =
        IF direction = "NONE" THEN Answer("PASS", "NONE", Directions)
        ELSE [Answer("PASS", direction, {}) EXCEPT !.opens = best]
  BY DEF OptionsAnswer
<1>4. best # NoCandidate => direction = best.direction
  BY DEF ReportedDirection
<1> HIDE DEF best, direction, a, picks
<1>5. /\ a.opens = best /\ best # NoCandidate
      /\ a.status = "PASS" /\ a.vote = direction
  BY <1>1, <1>2, <1>3 DEF Answer, a
<1> QED
  BY <1>4, <1>5 DEF a

\* A candidate is what the campaign's own agent proposed, and every specialist
\* answered.
LEMMA CandidateProposed ==
  ASSUME NEW snapshot, NEW failing \in Failings, NEW at, NEW book,
         Decide(snapshot, CycleOutputs(snapshot, failing), at, book).status
           = "CANDIDATE"
  PROVE  LET outputs == CycleOutputs(snapshot, failing)
             p == CampaignOptionsAgent(snapshot).opens
         IN /\ failing = {}
            /\ \A n \in SpecialistNames :
                 outputs[n] = SpecialistAnswer(n, snapshot)
            /\ GatedQuality(snapshot) = "OK"
            /\ ~ Conflicting(outputs) /\ Placeable(p) /\ CeoGate(p)
            /\ AllowsCandidate(snapshot, p) /\ p # NoCandidate
            /\ Approves(ProposalOf(p, at, outputs), book)
            /\ Decide(snapshot, outputs, at, book).candidate = p
<1> DEFINE outputs == CycleOutputs(snapshot, failing)
           policy == Policy(snapshot, outputs)
           d == Decide(snapshot, outputs, at, book)
           p == Proposed(outputs)
           o == outputs["campaign_options"]
           proposal == ProposalOf(policy.candidate, at, outputs)
<1>1. /\ policy.status = "CANDIDATE" /\ d = policy
      /\ CeoGate(policy.candidate) /\ Approves(proposal, book)
  <2>1. d = IF policy.status # "CANDIDATE" THEN policy
            ELSE IF ~ CeoGate(policy.candidate) THEN Verdict("NO_TRADE", NoCandidate)
            ELSE IF ~ Approves(proposal, book) THEN Verdict("BLOCKED", NoCandidate)
            ELSE policy
    BY DEF Decide
  <2>2. d.status = "CANDIDATE"
    OBVIOUS
  <2> HIDE DEF d, policy, proposal
  <2> QED
    BY <2>1, <2>2 DEF Verdict
<1>2. /\ policy.candidate = p /\ GatedQuality(snapshot) = "OK"
      /\ ~ Conflicting(outputs) /\ ~ EvidenceMissing(outputs)
      /\ Actionable(outputs) # {} /\ Placeable(p)
      /\ AllowsCandidate(snapshot, p)
  <2> HIDE DEF outputs
  <2> QED
    BY <1>1 DEF Policy, Verdict
<1>3. failing = {}
  <2>1. failing \subseteq SpecialistNames
    BY CampaignConstants
  <2>2. ASSUME NEW n \in failing PROVE FALSE
    <3>1. n \in DOMAIN outputs /\ outputs[n] = Failed
      BY <2>1, <2>2 DEF CycleOutputs
    <3>2. outputs[n].status = "ERROR"
      BY <3>1 DEF Failed, Answer
    <3> QED
      BY <1>2, <3>1, <3>2 DEF EvidenceMissing
  <2> QED
    BY <2>2
<1>4. /\ DOMAIN outputs = SpecialistNames
      /\ \A n \in SpecialistNames : outputs[n] = SpecialistAnswer(n, snapshot)
  BY <1>3 DEF CycleOutputs
<1> HIDE DEF outputs
<1>5. /\ outputs["market_data"] = MarketDataAgent(snapshot)
      /\ outputs["technical"] = TechnicalAgent(snapshot)
      /\ outputs["options"] = OptionsChainAgent(snapshot)
      /\ outputs["regime"] = RegimeAgent(snapshot)
      /\ outputs["strategy_research"] = StrategyResearchAgent
      /\ o = CampaignOptionsAgent(snapshot)
  BY <1>2, <1>4 DEF SpecialistAnswer, SpecialistNames
<1>6. \A n \in SpecialistNames \ {"campaign_options"} :
        outputs[n].opens = NoCandidate
  <2>1. \A s, v, m : Answer(s, v, m).opens = NoCandidate
    BY DEF Answer
  <2>2. MarketDataAgent(snapshot).opens = NoCandidate
    BY <2>1 DEF MarketDataAgent
  <2>3. TechnicalAgent(snapshot).opens = NoCandidate
    BY <2>1 DEF TechnicalAgent
  <2>4. OptionsChainAgent(snapshot).opens = NoCandidate
    BY <2>1 DEF OptionsChainAgent, NoData
  <2>5. RegimeAgent(snapshot).opens = NoCandidate
    <3> DEFINE L == RegimeLabels(snapshot)
               w == [Answer("PASS", "NONE", {}) EXCEPT
                       !.volatile = L = {"HIGH_VOLATILITY"}]
    <3>1. w.opens = NoCandidate
      BY DEF Answer
    <3> DEFINE a1 == Answer("DEGRADED", "NONE", {})
               a2 == Answer("PASS", "NONE", {"BULLISH"})
               a3 == Answer("PASS", CHOOSE l \in L : TRUE, L)
               r == RegimeAgent(snapshot)
    <3>2. r = CASE L = {} -> a1
                [] Cardinality(L) > 1 -> a2
                [] L \subseteq Directions /\ Cardinality(L) = 1 -> a3
                [] OTHER -> w
      BY DEF RegimeAgent, RegimeAnswer
    <3>3. /\ a1.opens = NoCandidate /\ a2.opens = NoCandidate
          /\ a3.opens = NoCandidate
      BY <2>1
    <3> HIDE DEF a1, a2, a3, w, r, L
    <3>4. r \in {a1, a2, a3, w}
      BY <3>2
    <3>5. r.opens = NoCandidate
      BY <3>1, <3>3, <3>4
    <3> QED
      BY <3>5 DEF r
  <2>6. StrategyResearchAgent.opens = NoCandidate
    BY <2>1 DEF StrategyResearchAgent, NoData
  <2> QED
    BY <1>5, <2>2, <2>3, <2>4, <2>5, <2>6 DEF SpecialistNames
<1>7. p = o.opens /\ p # NoCandidate
  <2>1. Actionable(outputs) = {"campaign_options"}
    BY <1>2, <1>4, <1>6 DEF Actionable
  <2>2. o.opens # NoCandidate
    BY <2>1 DEF Actionable
  <2> QED
    BY <2>1, <2>2 DEF Proposed
<1>8. d.candidate = p /\ CeoGate(p) /\ Approves(ProposalOf(p, at, outputs), book)
  BY <1>1, <1>2
<1> HIDE DEF d, p, policy
<1> QED
  BY <1>2, <1>3, <1>4, <1>5, <1>7, <1>8 DEF d, outputs

\* A candidate is what the one proposing agent proposed, and no other agent
\* disagrees with it.
LEMMA CandidateUnopposed ==
  ASSUME NEW snapshot, NEW failing \in Failings, NEW at, NEW book,
         Decide(snapshot, CycleOutputs(snapshot, failing), at, book).status
           = "CANDIDATE"
  PROVE  LET c == Decide(snapshot, CycleOutputs(snapshot, failing), at,
                         book).candidate
             direction == IF TypeOf[c.contract] = "CE" THEN "BULLISH"
                                                       ELSE "BEARISH"
         IN /\ failing = {}
            /\ TechnicalSides(snapshot) \subseteq {direction}
            /\ Cardinality(RegimeLabels(snapshot)) = 1 =>
                 RegimeLabels(snapshot)
                   \cap (Directions \cup {"HIGH_VOLATILITY"}) \subseteq {direction}
<1> DEFINE outputs == CycleOutputs(snapshot, failing)
           d == Decide(snapshot, outputs, at, book)
           o == outputs["campaign_options"]
           p == CampaignOptionsAgent(snapshot).opens
           proposal == ProposalOf(p, at, outputs)
<1>1. Approves(proposal, book) /\ CeoGate(p)
  BY CandidateProposed
<1>2. /\ GatedQuality(snapshot) = "OK"
      /\ ~ Conflicting(outputs) /\ Placeable(p)
  BY CandidateProposed
<1>3. failing = {}
  BY CandidateProposed
<1>4. /\ DOMAIN outputs = SpecialistNames
      /\ \A n \in SpecialistNames : outputs[n] = SpecialistAnswer(n, snapshot)
  BY CandidateProposed DEF CycleOutputs
<1>5. p # NoCandidate /\ d.candidate = p
  BY CandidateProposed
<1> HIDE DEF outputs, d
<1>6. /\ outputs["technical"] = TechnicalAgent(snapshot)
      /\ outputs["regime"] = RegimeAgent(snapshot)
      /\ o = CampaignOptionsAgent(snapshot)
  BY <1>2, <1>4 DEF SpecialistAnswer, SpecialistNames
<1>7. o.status = "PASS" /\ o.vote = p.direction
  BY <1>6, <1>5, OptionsSays
<1>8. p.direction \in Directions
  BY <1>2 DEF Placeable
<1>9. ASSUME NEW n \in SpecialistNames, outputs[n].status = "PASS",
              outputs[n].vote \in Directions
       PROVE  outputs[n].vote = p.direction
  <2>1. ~ PackageConflict(outputs)
    BY <1>2 DEF Conflicting
  <2>2. "campaign_options" \in VotesFor(outputs, p.direction)
    BY <1>4, <1>7 DEF VotesFor, SpecialistNames
  <2>3. n \in VotesFor(outputs, outputs[n].vote)
    BY <1>4, <1>9 DEF VotesFor
  <2> QED
    BY <1>8, <1>9, <2>1, <2>2, <2>3 DEF PackageConflict, Directions
<1>10. TechnicalSides(snapshot) \subseteq {p.direction}
  <2> DEFINE S == TechnicalSides(snapshot)
             n == "technical"
  <2>1. SUFFICES ASSUME S # {} PROVE S \subseteq {p.direction}
    OBVIOUS
  <2>2. /\ outputs[n].status = "PASS"
        /\ S = {outputs[n].vote} \/ outputs[n].mentions = Directions
    BY <1>6, <2>1, TechnicalSays
  <2>3. outputs[n].mentions # Directions
    <3>1. SUFFICES ASSUME outputs[n].mentions = Directions PROVE FALSE
      OBVIOUS
    <3>2. \A s \in Directions : n \in Mentioning(outputs, s)
      BY <1>4, <2>2, <3>1 DEF Mentioning, SpecialistNames
    <3> QED
      BY <1>2, <3>2 DEF Conflicting, Directions
  <2>4. S = {outputs[n].vote} /\ outputs[n].vote \in Directions
    BY <2>2, <2>3, SidesAreDirections DEF Directions
  <2>5. outputs[n].vote = p.direction
    BY <1>9, <2>2, <2>4 DEF SpecialistNames
  <2> QED
    BY <2>4, <2>5
<1>11. ASSUME Cardinality(RegimeLabels(snapshot)) = 1
       PROVE  RegimeLabels(snapshot)
                \cap (Directions \cup {"HIGH_VOLATILITY"}) \subseteq {p.direction}
  <2> DEFINE L == RegimeLabels(snapshot)
             n == "regime"
  <2>1. /\ outputs[n].status = "PASS"
        /\ \/ L = {outputs[n].vote} /\ outputs[n].vote \in Directions
           \/ L = {"HIGH_VOLATILITY"} /\ outputs[n].volatile
           \/ L = {"RANGING"}
    BY <1>6, <1>11, RegimeSays
  <2>2. ~ outputs[n].volatile
    <3>1. ~ proposal.highVolatility
      <4>1. proposal.intent = "OPEN"
        BY DEF ProposalOf
      <4> HIDE DEF proposal
      <4> QED
        BY <1>1, <4>1 DEF Approves
    <3>2. ~ HighVolatility(outputs)
      BY <3>1 DEF ProposalOf
    <3> QED
      BY <1>4, <3>2 DEF HighVolatility, SpecialistNames
  <2>3. CASE L = {outputs[n].vote} /\ outputs[n].vote \in Directions
    <3>1. outputs[n].vote = p.direction
      BY <1>9, <2>1, <2>3 DEF SpecialistNames
    <3> QED
      BY <2>3, <3>1
  <2>4. CASE L = {"RANGING"}
    BY <2>4 DEF Directions
  <2> QED
    BY <2>1, <2>2, <2>3, <2>4
<1>12. TypeOf[p.contract] = "CE" <=> p.direction = "BULLISH"
  BY <1>1, <1>2, <1>8 DEF CeoGate, AllowedType, Directions
<1>13. p.direction = IF TypeOf[p.contract] = "CE" THEN "BULLISH" ELSE "BEARISH"
  BY <1>8, <1>12 DEF Directions
<1>14. d.candidate = p
  BY <1>5
<1> HIDE DEF d, p
<1>15. d = Decide(snapshot, CycleOutputs(snapshot, failing), at, book)
  BY DEF d, outputs
<1> QED
  BY <1>3, <1>10, <1>11, <1>13, <1>14, <1>15

\* What was bought on a snapshot was decided on it, and is the last trade.
LEMMA BoughtIsDecided ==
  ASSUME IInv, session # NoSession,
         NEW at \in Moments, NEW failing \in Failings,
         NEW snapshot \in Given[<<session.day, at>>],
         ProcessSnapshot(snapshot, failing), cycle'.accepted
  PROVE  LET d == Decide(snapshot, CycleOutputs(snapshot, failing),
                         SessionOf[snapshot.at], EmptyBook)
         IN /\ cycle'.snapshot = snapshot /\ cycle'.failing = failing
            /\ d.status = "CANDIDATE"
            /\ session'.trades[Len(session'.trades)].contract
                 = d.candidate.contract
<1> DEFINE m == Monitor(session, snapshot)
           c == [accepted |-> TRUE, snapshot |-> snapshot, failing |-> failing]
           d == Decide(snapshot, CycleOutputs(snapshot, failing),
                       SessionOf[snapshot.at], EmptyBook)
           decision == CycleDecision[<<snapshot, failing>>]
<1>1. /\ session' = Processed(session, snapshot, failing)
      /\ cycle' = IF Len(session'.trades) > Len(session.trades) THEN c
                                                                ELSE NoCycle
  BY DEF ProcessSnapshot
<1>2. SessionSound
  BY DEF IInv
<1>3. snapshot.today = session.day
  BY <1>2, GivenFacts DEF SessionSound
<1>4. Grown(session', m, snapshot, decision)
  BY <1>1, <1>2, <1>3, ProcessedKept DEF SessionSound
<1>5. IsSequence(m.trades) /\ Len(m.trades) = Len(session.trades)
  BY <1>2, MonitorTrades DEF SessionSound, Shaped
<1>6. decision = d
  <2>1. snapshot \in GivenAny
    BY <1>2 DEF GivenAny, SessionSound
  <2>2. <<snapshot, failing>> \in GivenAny \X Failings
    BY <2>1
  <2> QED
    BY <2>2 DEF CycleDecision
<1> HIDE DEF m, d, decision
<1>7. cycle' = c /\ Len(session'.trades) > Len(session.trades)
  BY <1>1 DEF NoCycle
<1>8. Len(m.trades) \in Nat
  BY <1>5, AppendFacts
<1>9. Executed(session', m, snapshot, decision)
  BY <1>4, <1>5, <1>7, <1>8 DEF Grown
<1>10. session'.trades[Len(session'.trades)] = TradeOf(snapshot, d.candidate)
  BY <1>5, <1>6, <1>9, AppendFacts DEF Executed
<1>11. TradeOf(snapshot, d.candidate).contract = d.candidate.contract
  BY DEF TradeOf
<1> QED
  BY <1>6, <1>7, <1>9, <1>10, <1>11 DEF Executed, d

LEMMA StepsUnopposed == IInv /\ EntryUnopposed /\ [Next]_vars => EntryUnopposed'
<1> SUFFICES ASSUME IInv, EntryUnopposed, [Next]_vars PROVE EntryUnopposed'
  OBVIOUS
<1>1. CASE cycle' = NoCycle
  BY <1>1 DEF EntryUnopposed, NoCycle
<1>2. CASE UNCHANGED <<cycle, session>>
  BY <1>2 DEF EntryUnopposed
<1>3. CASE /\ session # NoSession
           /\ \E at \in Moments, failing \in Failings :
                \E snapshot \in Given[<<session.day, at>>] :
                  ProcessSnapshot(snapshot, failing)
  <2>1. SUFFICES ASSUME cycle'.accepted PROVE EntryUnopposed'
    BY DEF EntryUnopposed
  <2>2. PICK at \in Moments, failing \in Failings :
          \E snapshot \in Given[<<session.day, at>>] :
            ProcessSnapshot(snapshot, failing)
    BY <1>3
  <2>3. PICK snapshot \in Given[<<session.day, at>>] :
          ProcessSnapshot(snapshot, failing)
    BY <2>2
  <2> QED
    BY <1>3, <2>1, <2>3, BoughtIsDecided, CandidateUnopposed
       DEF EntryUnopposed
<1> QED
  BY <1>1, <1>2, <1>3
     DEF Next, vars, RunSession, Begin, Run, NextSession, InSession, EndSession,
         SessionRaises, FinishRun

-----------------------------------------------------------------------------
(* Prices, lots and candidates                                             *)

Priced(r) == r.bid \in Nat /\ r.ask \in Nat /\ r.ltp \in Nat

PricedRows(snapshot) ==
  \A c \in DOMAIN snapshot.rows :
    Priced(snapshot.rows[c]) /\ snapshot.rows[c].lot \in Nat

LEMMA SealedRows ==
  ASSUME NEW s, "rows" \in DOMAIN s
  PROVE  Sealed(s).rows = s.rows
  BY DEF Sealed

\* The rows of a snapshot are quotes of the market it was built of.
LEMMA GivenPriced ==
  ASSUME NEW day \in Days, NEW at \in Moments, NEW snapshot \in Given[<<day, at>>]
  PROVE  PricedRows(snapshot)
<1> DEFINE told(m, c) == /\ Priced(m.quotes[c]) /\ m.quotes[c].lot \in Nat
<1>1. \A m \in MarketsAt[<<day, at>>] : \A c \in DOMAIN m.quotes : told(m, c)
  BY CampaignMarkets DEF Priced
<1>2. \A q, t, f : /\ AgedRow(q, t, f).bid = q.bid /\ AgedRow(q, t, f).ask = q.ask
                   /\ AgedRow(q, t, f).ltp = q.ltp /\ AgedRow(q, t, f).lot = q.lot
  BY DEF AgedRow
<1>3. snapshot \in SnapshotsAt(day, at)
  BY DEF Given
<1>4. ASSUME NEW m \in MarketsAt[<<day, at>>], snapshot = AgentSnapshot(m, at, day)
      PROVE  PricedRows(snapshot)
  <2> DEFINE flagged(c) == m.chains[UnderlyingOf[c]] \/ m.quotes[c].flagged
             rows == [c \in DOMAIN m.quotes |-> AgedRow(m.quotes[c], at, flagged(c))]
  <2>1. snapshot.rows = rows
    BY <1>4, SealedRows DEF AgentSnapshot
  <2> HIDE DEF flagged
  <2> QED
    BY <1>1, <1>2, <2>1 DEF PricedRows, Priced
<1>5. ASSUME NEW m \in MarketsAt[<<day, at>>], NEW i,
             snapshot = FixtureSnapshot(m, i, at, day)
      PROVE  PricedRows(snapshot)
  <2> DEFINE listed == {c \in DOMAIN m.quotes : UnderlyingOf[c] = i}
             rows == [c \in listed |-> [AgedRow(m.quotes[c], at, TRUE) EXCEPT !.ok = TRUE]]
  <2>1. snapshot.rows = rows
    BY <1>5, SealedRows DEF FixtureSnapshot
  <2>2. ASSUME NEW c \in listed
        PROVE  /\ rows[c].bid = m.quotes[c].bid /\ rows[c].ask = m.quotes[c].ask
               /\ rows[c].ltp = m.quotes[c].ltp /\ rows[c].lot = m.quotes[c].lot
    BY DEF AgedRow
  <2>3. DOMAIN rows = listed /\ listed \subseteq DOMAIN m.quotes
    OBVIOUS
  <2> HIDE DEF listed, rows
  <2> QED
    BY <1>1, <2>1, <2>2, <2>3 DEF PricedRows, Priced
<1>6. ASSUME NEW m \in MarketsAt[<<day, at>>], snapshot = CampaignSnapshot(m, at, day)
      PROVE  PricedRows(snapshot)
  <2> DEFINE found == AnsweringIndices(m, day)
             asked == UNION {Answered(m, u, day) : u \in found}
             rows == [c \in asked |-> [AgedRow(m.quotes[c], at, FALSE)
                                         EXCEPT !.age = 0, !.ok = TRUE]]
  <2>1. snapshot.rows = rows
    BY <1>6, SealedRows DEF CampaignSnapshot, SnapshotOfFound, SnapshotOf
  <2>2. ASSUME NEW c \in asked
        PROVE  /\ rows[c].bid = m.quotes[c].bid /\ rows[c].ask = m.quotes[c].ask
               /\ rows[c].ltp = m.quotes[c].ltp /\ rows[c].lot = m.quotes[c].lot
    BY DEF AgedRow
  <2>3. DOMAIN rows = asked /\ asked \subseteq DOMAIN m.quotes
    <3>1. \A u : Answered(m, u, day) \subseteq DOMAIN m.quotes
      BY DEF Answered
    <3> QED
      BY <3>1
  <2> HIDE DEF asked, rows
  <2> QED
    BY <1>1, <2>1, <2>2, <2>3 DEF PricedRows, Priced
<1> QED
  BY <1>3, <1>4, <1>5, <1>6 DEF SnapshotsAt

LEMMA QuotePriced ==
  ASSUME NEW snapshot, PricedRows(snapshot), NEW c
  PROVE  Priced(PaperQuote(snapshot, c))
  BY DEF PricedRows, Priced, PaperQuote

LEMMA QuotientNat ==
  ASSUME NEW a \in Nat, NEW b \in Nat \ {0}
  PROVE  a \div b \in Nat
  OBVIOUS

LEMMA SlipNat ==
  ASSUME NEW a \in Nat
  PROVE  Slip(a) \in Nat
<1>1. a * SlippageBps \in Nat
  BY PricingPolicy
<1> QED
  BY <1>1, QuotientNat DEF Slip

\* Every price made of a quote is one.
LEMMA PricesNat ==
  ASSUME NEW q, Priced(q)
  PROVE  BuyPrice(q) \in Nat /\ SellPrice(q) \in Nat /\ MarkPrice(q) \in Nat
<1>1. \A source : Reference(q, source) \in Nat
  <2>1. (q.bid + q.ask) \div 2 \in Nat
    BY QuotientNat DEF Priced
  <2> QED
    BY <2>1 DEF Reference, Priced
<1>2. BuyPrice(q) \in Nat
  BY <1>1, SlipNat DEF BuyPrice
<1>3. SellPrice(q) \in Nat
  <2> DEFINE r == Reference(q, ExitSourceOf(q))
             n == Slip(r)
  <2>1. r \in Nat /\ n \in Nat
    BY <1>1, SlipNat
  <2>2. SellPrice(q) = IF r - n > 1 THEN r - n ELSE 1
    BY DEF SellPrice
  <2> HIDE DEF r, n
  <2> QED
    BY <2>1, <2>2
<1>4. MarkPrice(q) \in Nat
  BY DEF MarkPrice, Priced
<1> QED
  BY <1>2, <1>3, <1>4

\* A candidate buys one lot of a row of the snapshot.
LEMMA CandidateSized ==
  ASSUME NEW snapshot, NEW failing \in Failings, NEW at, NEW book,
         PricedRows(snapshot),
         Decide(snapshot, CycleOutputs(snapshot, failing), at, book).status
           = "CANDIDATE"
  PROVE  LET c == Decide(snapshot, CycleOutputs(snapshot, failing), at,
                         book).candidate
         IN c.quantity \in Nat /\ c.stop \in Nat
<1> DEFINE d == Decide(snapshot, CycleOutputs(snapshot, failing), at, book)
           a == CampaignOptionsAgent(snapshot)
           p == a.opens
           picks == Picks(snapshot)
           best == BestPick(snapshot, picks)
           direction == ReportedDirection(best, picks)
<1>1. d.candidate = p /\ AllowsCandidate(snapshot, p) /\ p # NoCandidate
  BY CandidateProposed
<1>2. p = best
  <2>1. a = IF DOMAIN snapshot.rows = {} THEN NoData
            ELSE OptionsAnswer(best, direction)
    BY DEF CampaignOptionsAgent, PicksToAnswer, PicksAnswer
  <2>2. OptionsAnswer(best, direction) =
          IF direction = "NONE" THEN Answer("PASS", "NONE", Directions)
          ELSE [Answer("PASS", direction, {}) EXCEPT !.opens = best]
    BY DEF OptionsAnswer
  <2> HIDE DEF a, best, direction
  <2> QED
    BY <1>1, <2>1, <2>2 DEF Answer, NoData
<1>3. PICK pick : p = CandidateOf(snapshot.rows[pick.contract], pick.contract,
                                  pick.direction)
  <2> HIDE DEF picks, p, direction, a
  <2> QED
    BY <1>1, <1>2 DEF BestPick
<1>4. p.contract \in DOMAIN snapshot.rows
  <2>1. \A i, r, e : TypedRows(snapshot, i, r, e) \subseteq DOMAIN snapshot.rows
    BY DEF TypedRows, UsableRows, RowsOf
  <2>2. \A i, rows : EligibleOf(snapshot, i, rows) \subseteq rows
    BY DEF EligibleOf, Near
  <2>3. \A i, r : CampaignEligible(snapshot, i, r) \subseteq DOMAIN snapshot.rows
    <3> TAKE i, r
    <3> DEFINE rows == TypedRows(snapshot, i, r, CampaignExpiry(snapshot, i))
    <3>1. CampaignEligible(snapshot, i, r) \in {{}, EligibleOf(snapshot, i, rows)}
      BY DEF CampaignEligible
    <3>2. EligibleOf(snapshot, i, rows) \subseteq DOMAIN snapshot.rows
      BY <2>1, <2>2
    <3> HIDE DEF rows
    <3> QED
      BY <3>1, <3>2
  <2> QED
    BY <1>1, <2>3 DEF AllowsCandidate
<1> HIDE DEF p, d
<1>5. /\ p.contract = pick.contract
      /\ p.quantity = snapshot.rows[p.contract].lot
      /\ p.stop = PremiumStop(snapshot.rows[p.contract].ask)
  BY <1>3 DEF CandidateOf
<1>6. ASSUME NEW k \in Nat PROVE PremiumStop(k) \in Nat
  <2>1. (4 * k) \div 5 \in Nat
    BY QuotientNat
  <2> QED
    BY <2>1 DEF PremiumStop
<1>7. snapshot.rows[p.contract].lot \in Nat /\ snapshot.rows[p.contract].ask \in Nat
  BY <1>4 DEF PricedRows, Priced
<1> QED
  BY <1>1, <1>5, <1>6, <1>7 DEF d

-----------------------------------------------------------------------------
(* The ledger of a session                                                 *)

\* A trade within the risk that is allowed of it.
TradeSound(t) ==
  /\ {"contract", "quantity", "stop", "entry", "state", "mark"} \subseteq DOMAIN t
  /\ t.quantity \in Nat /\ t.stop \in Nat /\ t.entry \in Nat /\ t.mark \in Nat
  /\ t.state \in {"OPEN", "CLOSED"}
  /\ t.stop < t.entry
  /\ (t.entry - t.stop) * t.quantity <= MaxPerTradeRisk

\* What is left of a trade by marking and closing it.
Follows(u, t) ==
  /\ TradeSound(u)
  /\ u.contract = t.contract /\ u.quantity = t.quantity /\ u.entry = t.entry
  /\ IsOpen(u) => IsOpen(t)
  /\ ~ IsOpen(t) => u = t

LEMMA MonitoredFollows ==
  ASSUME NEW snapshot, PricedRows(snapshot), NEW t, TradeSound(t)
  PROVE  Follows(Monitored(t, snapshot), t)
<1> DEFINE quote == PaperQuote(snapshot, t.contract)
           marked == MarkedTrade(t, quote, snapshot.at)
           closed == ClosedTrade(t, quote, snapshot)
<1>1. SellPrice(quote) \in Nat /\ MarkPrice(quote) \in Nat
  BY QuotePriced, PricesNat
<1>2. marked = t \/ (IsOpen(t) /\ marked = [t EXCEPT !.mark = MarkPrice(quote),
                                          !.markedAt = snapshot.at - quote.age])
  BY DEF MarkedTrade
<1>3. Follows(marked, t)
  <2> DEFINE x == MarkPrice(quote)
             y == snapshot.at - quote.age
  <2> HIDE DEF marked, quote, x, y
  <2>1. CASE marked = t
    BY <2>1 DEF Follows
  <2>2. CASE IsOpen(t) /\ marked = [t EXCEPT !.mark = x, !.markedAt = y]
    BY <1>1, <2>2 DEF Follows, TradeSound, IsOpen, x
  <2> QED
    BY <1>2, <2>1, <2>2 DEF x, y
<1>4. ASSUME IsOpen(t) PROVE Follows(closed, t)
  <2> DEFINE x == SellPrice(quote)
             y == RoundTrip(t.entry, SellPrice(quote), t.quantity)
             p == snapshot.at
             q == snapshot.today
  <2>1. closed = [t EXCEPT !.state = "CLOSED", !.mark = x, !.closedAt = p,
                           !.closedOn = q, !.costs = y]
    BY DEF ClosedTrade
  <2> HIDE DEF closed, quote, x, y, p, q
  <2> QED
    BY <1>1, <1>4, <2>1 DEF Follows, TradeSound, IsOpen, x
<1>5. Monitored(t, snapshot) = marked \/ (IsOpen(t) /\ Monitored(t, snapshot) = closed)
  BY DEF Monitored
<1> QED
  BY <1>3, <1>4, <1>5

TradesSound(s) ==
  IsSequence(s.trades) /\ \A i \in DOMAIN s.trades : TradeSound(s.trades[i])

\* What a trade has done to the cash, and what of that is still invested.
Paid(t) == IF IsOpen(t) THEN - Cost(t) ELSE GrossOf(t)

Invested(t) == IF IsOpen(t) THEN Cost(t) ELSE 0

PaidBy(s) == [i \in DOMAIN s.trades |-> Paid(s.trades[i])]

InvestedBy(s) == [i \in DOMAIN s.trades |-> Invested(s.trades[i])]

LEMMA SequenceDomain ==
  ASSUME NEW s, IsSequence(s)
  PROVE  DOMAIN s = 1..Len(s) /\ Len(s) \in Nat /\ IsFiniteSet(DOMAIN s)
<1>1. DOMAIN s = 1..Len(s) /\ Len(s) \in Nat
  BY DEF IsSequence
<1> QED
  BY <1>1, FS_Interval

LEMMA TradeMoney ==
  ASSUME NEW t, TradeSound(t)
  PROVE  /\ Paid(t) \in Int /\ Invested(t) \in Nat /\ GrossOf(t) \in Int
         /\ Cost(t) \in Nat /\ UnrealizedOf(t) \in Int
         /\ GrossOf(t) = Paid(t) + Invested(t)
<1>1. Cost(t) \in Nat
  BY DEF TradeSound, Cost
<1>2. t.quantity * (t.mark - t.entry) \in Int
  BY DEF TradeSound
<1>3. GrossOf(t) \in Int /\ UnrealizedOf(t) \in Int
  BY <1>2 DEF GrossOf, UnrealizedOf
<1>4. IsOpen(t) => GrossOf(t) = 0
  BY DEF GrossOf
<1> HIDE DEF Cost, GrossOf
<1> QED
  BY <1>1, <1>3, <1>4 DEF Paid, Invested

\* The sums of an account, over all trades.
LEMMA Accounts ==
  ASSUME NEW s, TradesSound(s)
  PROVE  /\ GrossPnl(s) \in Int /\ Unrealized(s) \in Int
         /\ OpenCost(s) \in Nat
         /\ OpenCost(s) = SumOver(InvestedBy(s), DOMAIN s.trades)
         /\ SumOver(PaidBy(s), DOMAIN s.trades) \in Int
         /\ LedgerCash(s) = CampaignCash + SumOver(PaidBy(s), DOMAIN s.trades)
<1> DEFINE I == DOMAIN s.trades
           O == OpenTrades(s)
           g == [i \in I |-> GrossOf(s.trades[i])]
           u == [i \in I |-> UnrealizedOf(s.trades[i])]
           c == [i \in O |-> Cost(s.trades[i])]
           p == PaidBy(s)
           v == InvestedBy(s)
<1>1. IsFiniteSet(I) /\ O \subseteq I
  BY SequenceDomain DEF TradesSound, OpenTrades
<1>2. IsFiniteSet(O) /\ IsFiniteSet(I \ O)
  BY <1>1, FS_Subset
<1>3. \A i \in I : /\ p[i] \in Int /\ v[i] \in Nat /\ g[i] \in Int /\ u[i] \in Int
                   /\ g[i] = p[i] + v[i]
  BY TradeMoney DEF TradesSound, PaidBy, InvestedBy
<1>4. (\A i \in O : c[i] = v[i]) /\ (\A i \in I \ O : v[i] = 0)
  BY DEF OpenTrades, InvestedBy, Invested
<1>5. GrossPnl(s) = SumOver(g, I)
  BY SumOfFunction DEF GrossPnl
<1>6. Unrealized(s) = SumOver(u, I)
  BY SumOfFunction DEF Unrealized
<1>7. OpenCost(s) = SumOver(c, O)
  BY SumOfFunction DEF OpenCost, CostOf
<1> HIDE DEF I, O, g, u, c, p, v
<1>8. SumOver(c, O) = SumOver(v, O)
  BY <1>2, <1>4, SumLocal
<1>9. SumOver(v, I \ O) = 0
  BY <1>2, <1>4, SumZero
<1>10. SumOver(v, I) = SumOver(v, O) + SumOver(v, I \ O)
  <2>1. \A i \in I : v[i] \in Int
    BY <1>3
  <2> QED
    BY <1>1, <2>1, SumPart
<1>11. SumOver(v, O) \in Nat
  <2>1. \A i \in O : v[i] \in Nat
    BY <1>1, <1>3
  <2> QED
    BY <1>2, <2>1, SumNatural
<1>12. OpenCost(s) = SumOver(v, I) /\ OpenCost(s) \in Nat
  BY <1>7, <1>8, <1>9, <1>10, <1>11
<1>13. /\ SumOver(g, I) \in Int /\ SumOver(u, I) \in Int /\ SumOver(p, I) \in Int
  BY <1>1, <1>3, SumType
<1>14. SumOver(g, I) = SumOver(p, I) + SumOver(v, I)
  <2>1. \A i \in I : p[i] \in Int /\ v[i] \in Int /\ g[i] = p[i] + v[i]
    BY <1>3
  <2> QED
    BY <1>1, <2>1, SumPlus
<1>15. LedgerCash(s) = CampaignCash + SumOver(p, I)
  <2> DEFINE x == SumOver(p, I)
             y == SumOver(v, I)
  <2>1. GrossPnl(s) = x + y /\ OpenCost(s) = y /\ x \in Int /\ y \in Int
    BY <1>5, <1>12, <1>13, <1>14
  <2>2. CampaignCash \in Int
    BY CampaignBudget
  <2> HIDE DEF x, y
  <2>3. LedgerCash(s) = CampaignCash + x
    BY <2>1, <2>2 DEF LedgerCash
  <2> QED
    BY <2>3 DEF x
<1> QED
  BY <1>5, <1>6, <1>12, <1>13, <1>15 DEF I, p, v

\* What EntriesFitLedger says of the ledger, beside the risk of each trade.
FitsLedger(s) ==
  /\ LedgerCash(s) >= 0
  /\ OpenCost(s) <= MaxGrossNotional
  /\ Cardinality(OpenTrades(s)) <= MaxOpenPositions
  /\ \A i, j \in OpenTrades(s) : s.trades[i].contract = s.trades[j].contract => i = j

LedgerSound(s) == TradesSound(s) /\ FitsLedger(s)

\* Marking costs nothing, and closing brings in what was sold.
LEMMA FollowedMoney ==
  ASSUME NEW t, TradeSound(t), NEW u, Follows(u, t)
  PROVE  Paid(t) <= Paid(u) /\ Invested(u) <= Invested(t)
<1>1. CASE IsOpen(u)
  <2>1. IsOpen(t) /\ Cost(u) = Cost(t) /\ Cost(t) \in Nat
    BY <1>1, TradeMoney DEF Follows, Cost
  <2> HIDE DEF Cost
  <2> QED
    BY <1>1, <2>1 DEF Paid, Invested
<1>2. CASE ~ IsOpen(t)
  <2>1. u = t /\ Paid(t) \in Int /\ Invested(t) \in Nat
    BY <1>2, TradeMoney DEF Follows
  <2> QED
    BY <2>1
<1>3. CASE IsOpen(t) /\ ~ IsOpen(u)
  <2>1. /\ u.quantity \in Nat /\ u.mark \in Nat /\ u.entry \in Nat
        /\ Cost(t) = u.quantity * u.entry /\ Cost(t) \in Nat
    BY TradeMoney DEF Follows, TradeSound, Cost
  <2>2. Paid(u) = u.quantity * (u.mark - u.entry)
    BY <1>3 DEF Paid, GrossOf
  <2>3. u.quantity * u.mark \in Nat
    BY <2>1
  <2>4. u.quantity * (u.mark - u.entry) = u.quantity * u.mark - u.quantity * u.entry
    BY <2>1
  <2>5. Paid(t) = - Cost(t) /\ Invested(t) = Cost(t) /\ Invested(u) = 0
    BY <1>3 DEF Paid, Invested
  <2> DEFINE a == u.quantity * u.mark
  <2>6. Paid(u) = a - Cost(t) /\ a \in Nat
    BY <2>1, <2>2, <2>3, <2>4
  <2> HIDE DEF a, Cost, Paid, Invested
  <2> QED
    BY <2>1, <2>5, <2>6
<1> QED
  BY <1>1, <1>2, <1>3

\* Marking and closing keep the ledger within its limits.
LEMMA FollowedFits ==
  ASSUME NEW s, LedgerSound(s), NEW t, IsSequence(t.trades),
         DOMAIN t.trades = DOMAIN s.trades,
         \A i \in DOMAIN s.trades : Follows(t.trades[i], s.trades[i])
  PROVE  LedgerSound(t)
<1> DEFINE I == DOMAIN s.trades
           p == PaidBy(s)
           q == PaidBy(t)
           v == InvestedBy(s)
           w == InvestedBy(t)
<1>1. TradesSound(t) /\ TradesSound(s)
  BY DEF TradesSound, LedgerSound, Follows
<1>2. IsFiniteSet(I)
  BY <1>1, SequenceDomain DEF TradesSound
<1>3. \A i \in I : p[i] \in Int /\ q[i] \in Int /\ p[i] <= q[i]
  BY <1>1, TradeMoney, FollowedMoney DEF TradesSound, PaidBy
<1>4. \A i \in I : v[i] \in Int /\ w[i] \in Int /\ w[i] <= v[i]
  BY <1>1, TradeMoney, FollowedMoney DEF TradesSound, InvestedBy
<1>5. OpenTrades(t) \subseteq OpenTrades(s) /\ OpenTrades(s) \subseteq I
  BY DEF OpenTrades, Follows
<1>6. /\ LedgerCash(s) = CampaignCash + SumOver(p, I) /\ SumOver(p, I) \in Int
      /\ LedgerCash(t) = CampaignCash + SumOver(q, I) /\ SumOver(q, I) \in Int
      /\ OpenCost(s) = SumOver(v, I) /\ OpenCost(s) \in Nat
      /\ OpenCost(t) = SumOver(w, I) /\ OpenCost(t) \in Nat
  BY <1>1, Accounts
<1> HIDE DEF p, q, v, w
<1>7. SumOver(p, I) <= SumOver(q, I) /\ SumOver(w, I) <= SumOver(v, I)
  <2> HIDE DEF I
  <2> QED
    BY <1>2, <1>3, <1>4, SumMonotone
<1>8. LedgerCash(t) >= 0 /\ OpenCost(t) <= MaxGrossNotional
  <2> DEFINE a == SumOver(p, I)
             b == SumOver(q, I)
  <2>1. /\ LedgerCash(s) >= 0 /\ OpenCost(s) <= MaxGrossNotional
        /\ CampaignCash \in Int /\ MaxGrossNotional \in Int
    BY CampaignBudget, RiskLimits DEF LedgerSound, FitsLedger
  <2>2. /\ LedgerCash(s) = CampaignCash + a /\ a \in Int
        /\ LedgerCash(t) = CampaignCash + b /\ b \in Int /\ a <= b
    BY <1>6, <1>7
  <2>3. OpenCost(t) <= OpenCost(s) /\ OpenCost(t) \in Nat /\ OpenCost(s) \in Nat
    BY <1>6, <1>7
  <2> HIDE DEF a, b
  <2> QED
    BY <2>1, <2>2, <2>3
<1>9. Cardinality(OpenTrades(t)) <= MaxOpenPositions
  <2>1. IsFiniteSet(OpenTrades(s))
    BY <1>2, <1>5, FS_Subset
  <2>2. /\ Cardinality(OpenTrades(t)) <= Cardinality(OpenTrades(s))
        /\ Cardinality(OpenTrades(t)) \in Nat /\ Cardinality(OpenTrades(s)) \in Nat
    BY <1>5, <2>1, FS_Subset, FS_CardinalityType
  <2>3. Cardinality(OpenTrades(s)) <= MaxOpenPositions /\ MaxOpenPositions \in Nat
    BY RiskLimits DEF LedgerSound, FitsLedger
  <2> QED
    BY <2>2, <2>3
<1>10. \A i, j \in OpenTrades(t) :
         t.trades[i].contract = t.trades[j].contract => i = j
  BY <1>5 DEF LedgerSound, FitsLedger, Follows
<1> QED
  BY <1>1, <1>8, <1>9, <1>10 DEF LedgerSound, FitsLedger

LEMMA FollowsItself ==
  ASSUME NEW t, TradeSound(t)
  PROVE  Follows(t, t)
  BY DEF Follows

LEMMA MonitorFits ==
  ASSUME NEW s, NEW snapshot, "trades" \in DOMAIN s, LedgerSound(s), PricedRows(snapshot)
  PROVE  LedgerSound(Monitor(s, snapshot))
<1> DEFINE m == Monitor(s, snapshot)
           ts == [i \in DOMAIN s.trades |-> Monitored(s.trades[i], snapshot)]
<1>1. IsSequence(m.trades)
  BY MonitorTrades DEF LedgerSound, TradesSound
<1>2. m.trades \in {s.trades, ts}
  <2> HIDE DEF ts
  <2>1. CASE GatedQuality(snapshot) # "OK"
    BY <2>1 DEF Monitor
  <2>2. CASE GatedQuality(snapshot) = "OK"
    BY <2>2 DEF Monitor, ts
  <2> QED
    BY <2>1, <2>2
<1> HIDE DEF m
<1>3. DOMAIN m.trades = DOMAIN s.trades
  BY <1>2
<1>4. \A i \in DOMAIN s.trades : Follows(m.trades[i], s.trades[i])
  BY <1>2, MonitoredFollows, FollowsItself DEF LedgerSound, TradesSound
<1>5. LedgerSound(m)
  BY <1>1, <1>3, <1>4, FollowedFits
<1> QED
  BY <1>5 DEF m

\* What the engine checks of a trade before it is opened.
LEMMA AcceptedTrade ==
  ASSUME NEW s, NEW snapshot, NEW c, PricedRows(snapshot), LedgerSound(s),
         c.quantity \in Nat, c.stop \in Nat, Accepts(s, snapshot, c)
  PROVE  LET x == TradeOf(snapshot, c)
         IN /\ TradeSound(x) /\ IsOpen(x) /\ x.contract = c.contract
            /\ Cost(x) <= LedgerCash(s)
            /\ OpenCost(s) + Cost(x) <= MaxGrossNotional
            /\ Cardinality(OpenTrades(s)) < MaxOpenPositions
            /\ OpenOn(s, c.contract) = {}
<1> DEFINE x == TradeOf(snapshot, c)
           quote == PaperQuote(snapshot, c.contract)
           price == BuyPrice(quote)
           book == LedgerBook(s, c.contract, snapshot.today)
           moment == SessionOf[snapshot.at]
           proposal == [intent |-> "OPEN", side |-> "BUY", quantity |-> c.quantity,
                        price |-> price, stop |-> c.stop, session |-> moment,
                        highVolatility |-> FALSE]
<1>1. /\ Cardinality(OpenTrades(s)) < MaxOpenPositions
      /\ OpenOn(s, c.contract) = {}
      /\ c.stop < price /\ Approves(proposal, book)
  BY DEF Accepts
<1>2. price \in Nat
  BY QuotePriced, PricesNat
<1>3. /\ x.quantity = c.quantity /\ x.stop = c.stop /\ x.entry = price
      /\ x.state = "OPEN" /\ x.mark = 0 /\ x.contract = c.contract
      /\ {"contract", "quantity", "stop", "entry", "state", "mark"} \subseteq DOMAIN x
  <2> DEFINE n == price
             k == c.contract
  <2>1. x = [contract |-> k, quantity |-> c.quantity, stop |-> c.stop, entry |-> n,
             openedAt |-> snapshot.at, state |-> "OPEN", mark |-> 0, markedAt |-> 0,
             closedAt |-> -1, closedOn |-> -1, costs |-> 0]
    BY DEF TradeOf
  <2> HIDE DEF x, n
  <2> QED
    BY <2>1 DEF n
<1>4. book.cash = LedgerCash(s) /\ book.gross = OpenCost(s)
  BY DEF LedgerBook
<1>5. /\ proposal.intent = "OPEN" /\ proposal.quantity = c.quantity
      /\ proposal.price = price /\ proposal.stop = c.stop
  OBVIOUS
<1> HIDE DEF x, quote, price, book, moment, proposal
<1>6. /\ (price - c.stop) * c.quantity <= MaxPerTradeRisk
      /\ c.quantity * price <= LedgerCash(s)
      /\ OpenCost(s) + c.quantity * price <= MaxGrossNotional
  <2>1. NotionalLimits(proposal, book) /\ OpenLimits(proposal, book)
    BY <1>1 DEF Approves
  <2>2. Added(proposal) = c.quantity * price
    BY <1>5 DEF Added, Notional
  <2>3. /\ c.quantity * price <= LedgerCash(s)
        /\ OpenCost(s) + c.quantity * price <= MaxGrossNotional
    BY <1>4, <2>1, <2>2 DEF NotionalLimits
  <2>4. price > c.stop
    BY <1>1, <1>2
  <2>5. (price - c.stop) * c.quantity <= MaxPerTradeRisk
    BY <1>5, <2>1, <2>4 DEF OpenLimits
  <2> QED
    BY <2>3, <2>5
<1>7. TradeSound(x)
  BY <1>1, <1>2, <1>3, <1>6 DEF TradeSound
<1>8. Cost(x) = c.quantity * price /\ IsOpen(x)
  BY <1>3 DEF Cost, IsOpen
<1> QED
  BY <1>1, <1>3, <1>6, <1>7, <1>8 DEF x

\* A trade that the engine accepted fits the ledger.
LEMMA EnteredFits ==
  ASSUME NEW s, NEW snapshot, NEW c, PricedRows(snapshot), LedgerSound(s),
         c.quantity \in Nat, c.stop \in Nat, Accepts(s, snapshot, c),
         NEW t, t.trades = Append(s.trades, TradeOf(snapshot, c))
  PROVE  LedgerSound(t)
<1> DEFINE x == TradeOf(snapshot, c)
           I == DOMAIN s.trades
           n == Len(s.trades) + 1
           p == PaidBy(s)
           q == PaidBy(t)
           v == InvestedBy(s)
           w == InvestedBy(t)
<1>1. /\ TradeSound(x) /\ IsOpen(x) /\ x.contract = c.contract
      /\ Cost(x) <= LedgerCash(s)
      /\ OpenCost(s) + Cost(x) <= MaxGrossNotional
      /\ Cardinality(OpenTrades(s)) < MaxOpenPositions
      /\ OpenOn(s, c.contract) = {}
  BY AcceptedTrade
<1>2. TradesSound(s)
  BY DEF LedgerSound
<1>3. I = 1..Len(s.trades) /\ Len(s.trades) \in Nat /\ IsFiniteSet(I)
  BY <1>2, SequenceDomain DEF TradesSound
<1>4. n \notin I
  BY <1>3
<1> HIDE DEF x
<1>5. /\ IsSequence(t.trades) /\ Len(t.trades) = n /\ t.trades[n] = x
      /\ \A i \in I : t.trades[i] = s.trades[i]
  BY <1>2, <1>3, AppendFacts DEF TradesSound, x
<1>6. DOMAIN t.trades = I \cup {n}
  <2>1. DOMAIN t.trades = 1..n
    BY <1>5, SequenceDomain
  <2> QED
    BY <1>3, <2>1
<1>7. TradesSound(t)
  BY <1>1, <1>2, <1>5, <1>6 DEF TradesSound
<1>8. /\ \A i \in I : q[i] = p[i] /\ w[i] = v[i]
      /\ q[n] = - Cost(x) /\ w[n] = Cost(x)
      /\ \A i \in I \cup {n} : q[i] \in Int /\ w[i] \in Int
  <2>1. DOMAIN t.trades = I \cup {n} /\ \A i \in DOMAIN t.trades : TradeSound(t.trades[i])
    BY <1>6, <1>7 DEF TradesSound
  <2>2. \A i \in I \cup {n} : q[i] = Paid(t.trades[i]) /\ w[i] = Invested(t.trades[i])
    BY <2>1 DEF PaidBy, InvestedBy
  <2>3. \A i \in I : p[i] = Paid(s.trades[i]) /\ v[i] = Invested(s.trades[i])
    BY DEF PaidBy, InvestedBy
  <2>4. Paid(x) = - Cost(x) /\ Invested(x) = Cost(x)
    BY <1>1 DEF Paid, Invested
  <2>5. \A i \in I \cup {n} : q[i] \in Int /\ w[i] \in Int
    <3> TAKE i \in I \cup {n}
    <3>1. TradeSound(t.trades[i]) /\ q[i] = Paid(t.trades[i])
          /\ w[i] = Invested(t.trades[i])
      BY <2>1, <2>2
    <3>2. Paid(t.trades[i]) \in Int /\ Invested(t.trades[i]) \in Nat
      BY <3>1, TradeMoney
    <3> QED
      BY <3>1, <3>2
  <2> HIDE DEF p, q, v, w, I, n
  <2> QED
    BY <1>5, <2>2, <2>3, <2>4, <2>5
<1>9. /\ LedgerCash(s) = CampaignCash + SumOver(p, I) /\ SumOver(p, I) \in Int
      /\ LedgerCash(t) = CampaignCash + SumOver(q, I \cup {n})
      /\ OpenCost(s) = SumOver(v, I) /\ OpenCost(s) \in Nat
      /\ OpenCost(t) = SumOver(w, I \cup {n})
  BY <1>2, <1>6, <1>7, Accounts
<1>10. Cost(x) \in Nat
  BY <1>1, TradeMoney
<1> HIDE DEF p, q, v, w, I, n
<1>11. /\ SumOver(q, I \cup {n}) = q[n] + SumOver(q, I)
       /\ SumOver(w, I \cup {n}) = w[n] + SumOver(w, I)
  BY <1>3, <1>4, <1>8, SumAdd
<1>12. SumOver(q, I) = SumOver(p, I) /\ SumOver(w, I) = SumOver(v, I)
  BY <1>3, <1>8, SumLocal
<1>13. LedgerCash(t) >= 0 /\ OpenCost(t) <= MaxGrossNotional
  <2> DEFINE a == SumOver(p, I)
             k == Cost(x)
  <2>1. /\ LedgerCash(s) = CampaignCash + a /\ a \in Int /\ k \in Nat
        /\ LedgerCash(t) = CampaignCash + (- k + a)
    BY <1>8, <1>9, <1>10, <1>11, <1>12
  <2>2. OpenCost(t) = k + OpenCost(s) /\ OpenCost(s) \in Nat
    BY <1>8, <1>9, <1>11, <1>12
  <2>3. k <= LedgerCash(s) /\ OpenCost(s) + k <= MaxGrossNotional
    BY <1>1
  <2>4. CampaignCash \in Int /\ MaxGrossNotional \in Int
    BY CampaignBudget, RiskLimits
  <2> HIDE DEF a, k
  <2> QED
    BY <2>1, <2>2, <2>3, <2>4
<1>14. OpenTrades(t) = OpenTrades(s) \cup {n} /\ OpenTrades(s) \subseteq I
  BY <1>1, <1>5, <1>6 DEF OpenTrades, I
<1>15. Cardinality(OpenTrades(t)) <= MaxOpenPositions
  <2>1. IsFiniteSet(OpenTrades(s)) /\ n \notin OpenTrades(s)
    BY <1>3, <1>4, <1>14, FS_Subset
  <2>2. /\ Cardinality(OpenTrades(t)) = Cardinality(OpenTrades(s)) + 1
        /\ Cardinality(OpenTrades(s)) \in Nat
    BY <1>14, <2>1, FS_AddElement, FS_CardinalityType
  <2> QED
    BY <1>1, <2>2, RiskLimits
<1>16. \A i, j \in OpenTrades(t) :
         t.trades[i].contract = t.trades[j].contract => i = j
  <2>1. \A i \in OpenTrades(s) : /\ t.trades[i].contract = s.trades[i].contract
                                 /\ s.trades[i].contract # c.contract
    BY <1>1, <1>5, <1>14 DEF OpenOn
  <2>2. t.trades[n].contract = c.contract
    BY <1>1, <1>5
  <2>3. \A i, j \in OpenTrades(s) :
          s.trades[i].contract = s.trades[j].contract => i = j
    BY DEF LedgerSound, FitsLedger
  <2> QED
    BY <1>14, <2>1, <2>2, <2>3
<1> QED
  BY <1>7, <1>13, <1>15, <1>16 DEF LedgerSound, FitsLedger

\* The equity curve starts at the starting cash.
Drawn(s) ==
  s.peak \in Int /\ s.peak >= CampaignCash /\ s.drawdown \in Int

\* A point of the curve counts what is below the starting cash as a drop.
LEMMA PointDraws ==
  ASSUME NEW s, Shaped(s), TradesSound(s), Drawn(s)
  PROVE  /\ Drawn(WithPoint(s))
         /\ WithPoint(s).drawdown <= GrossPnl(s) + Unrealized(s) - OpenCost(s)
<1> DEFINE e == Equity(s)
           peak == IF e > s.peak THEN e ELSE s.peak
           drop == e - peak
           low == IF drop < s.drawdown THEN drop ELSE s.drawdown
           t == WithPoint(s)
<1>1. GrossPnl(s) \in Int /\ Unrealized(s) \in Int /\ OpenCost(s) \in Nat
  BY Accounts
<1>2. CampaignCash \in Int
  BY CampaignBudget
<1>3. e = CampaignCash + GrossPnl(s) - OpenCost(s) + Unrealized(s) /\ e \in Int
  BY <1>1, <1>2 DEF Equity, LedgerCash
<1>4. t = [s EXCEPT !.peak = peak, !.drawdown = low]
  BY DEF WithPoint
<1>5. s.peak \in Int /\ s.peak >= CampaignCash /\ s.drawdown \in Int
  BY DEF Drawn
<1> HIDE DEF e
<1>6. /\ peak \in Int /\ peak >= CampaignCash /\ drop \in Int
      /\ drop <= e - CampaignCash /\ low \in Int /\ low <= drop
  BY <1>2, <1>3, <1>5
<1> HIDE DEF peak, drop, low, t
<1>7. t.peak = peak /\ t.drawdown = low
  BY <1>4 DEF Shaped
<1>8. Drawn(t)
  BY <1>6, <1>7 DEF Drawn
<1>9. t.drawdown <= e - CampaignCash
  BY <1>2, <1>3, <1>6, <1>7
<1>10. t.drawdown \in Int /\ t.drawdown <= GrossPnl(s) + Unrealized(s) - OpenCost(s)
  BY <1>1, <1>2, <1>3, <1>6, <1>7, <1>9
<1> QED
  BY <1>8, <1>10 DEF t

\* Sums over the trades are those of any session with these trades.
LEMMA SameTrades ==
  ASSUME NEW s, NEW t, t.trades = s.trades
  PROVE  /\ GrossPnl(t) = GrossPnl(s) /\ Unrealized(t) = Unrealized(s)
         /\ LedgerSound(s) => LedgerSound(t)
<1>1. GrossPnl(t) = GrossPnl(s) /\ Unrealized(t) = Unrealized(s)
  BY DEF GrossPnl, Unrealized
<1>2. LedgerSound(s) => LedgerSound(t)
  BY FollowedFits, FollowsItself DEF LedgerSound, TradesSound
<1> QED
  BY <1>1, <1>2

LEMMA ReportCoversLoss ==
  ASSUME NEW s, Shaped(s), TradesSound(s), Drawn(s)
  PROVE  LET e == EodOf(WithPoint(s)) IN e.gross + e.unrealized >= e.drawdown
<1> DEFINE t == WithPoint(s)
           e == EodOf(t)
<1>1. e.gross = GrossPnl(t) /\ e.unrealized = Unrealized(t) /\ e.drawdown = t.drawdown
  BY DEF EodOf
<1>2. t.trades = s.trades
  BY PointKept
<1>3. GrossPnl(t) = GrossPnl(s) /\ Unrealized(t) = Unrealized(s)
  BY <1>2, SameTrades
<1>4. /\ t.drawdown \in Int
      /\ t.drawdown <= GrossPnl(s) + Unrealized(s) - OpenCost(s)
  BY PointDraws DEF Drawn
<1>5. GrossPnl(s) \in Int /\ Unrealized(s) \in Int /\ OpenCost(s) \in Nat
  BY Accounts
<1> HIDE DEF e, t
<1>6. e.gross + e.unrealized >= e.drawdown
  BY <1>1, <1>3, <1>4, <1>5
<1> QED
  BY <1>6 DEF e, t

LEMMA NewFits ==
  ASSUME NEW s, s.trades = <<>>
  PROVE  LedgerSound(s)
<1>1. TradesSound(s)
  <2>1. s.trades \in Seq({}) /\ DOMAIN s.trades = {}
    OBVIOUS
  <2> QED
    BY <2>1 DEF TradesSound, IsSequence
<1>2. DOMAIN s.trades = {} /\ OpenTrades(s) = {}
  BY DEF OpenTrades
<1>3. LedgerCash(s) = CampaignCash + 0 /\ OpenCost(s) = 0
  BY <1>1, <1>2, Accounts, SumEmpty
<1>4. Cardinality(OpenTrades(s)) = 0
  BY <1>2, FS_EmptySet
<1> QED
  BY <1>1, <1>2, <1>3, <1>4, CampaignBudget, RiskLimits DEF LedgerSound, FitsLedger

\* What keeps a session's ledger within its limits and its reports honest.
LedgerInv ==
  /\ session # NoSession => LedgerSound(session) /\ Drawn(session)
  /\ LossWithinDrawdown

\* What was decided on a snapshot fits the ledger that was marked with it.
LEMMA GrownFits ==
  ASSUME NEW snapshot \in GivenAny, PricedRows(snapshot), NEW failing \in Failings,
         NEW m, LedgerSound(m),
         NEW t, Grown(t, m, snapshot, CycleDecision[<<snapshot, failing>>])
  PROVE  LedgerSound(t)
<1> DEFINE decision == CycleDecision[<<snapshot, failing>>]
           d == Decide(snapshot, CycleOutputs(snapshot, failing),
                       SessionOf[snapshot.at], EmptyBook)
<1>1. decision = d
  BY DEF CycleDecision
<1>2. CASE t.trades = m.trades
  BY <1>2, SameTrades
<1>3. CASE Executed(t, m, snapshot, decision)
  <2>1. d.candidate.quantity \in Nat /\ d.candidate.stop \in Nat
    BY <1>1, <1>3, CandidateSized DEF Executed
  <2> HIDE DEF d, decision
  <2> QED
    BY <1>1, <1>3, <2>1, EnteredFits DEF Executed
<1> QED
  BY <1>2, <1>3 DEF Grown

LEMMA SnapshotFits ==
  ASSUME IInv, LedgerInv, session # NoSession,
         NEW at \in Moments, NEW failing \in Failings,
         NEW snapshot \in Given[<<session.day, at>>],
         ProcessSnapshot(snapshot, failing)
  PROVE  LedgerInv'
<1> DEFINE m == Monitor(session, snapshot)
           decision == CycleDecision[<<snapshot, failing>>]
<1>1. session' = Processed(session, snapshot, failing) /\ UNCHANGED eods
  BY DEF ProcessSnapshot
<1>2. SessionSound /\ LedgerSound(session) /\ Drawn(session)
  BY DEF IInv, LedgerInv
<1>3. /\ snapshot.today = session.day /\ PricedRows(snapshot)
      /\ snapshot \in GivenAny /\ Shaped(session)
  BY <1>2, GivenFacts, GivenPriced DEF SessionSound, GivenAny
<1>4. PICK e : /\ session' = WithPoint(e)
               /\ Shaped(e) /\ e.peak = session.peak /\ e.drawdown = session.drawdown
               /\ Grown(e, m, snapshot, decision)
  BY <1>1, <1>3, ProcessedIsPoint
<1>5. LedgerSound(m)
  BY <1>2, <1>3, MonitorFits DEF Shaped
<1> HIDE DEF m
<1>6. LedgerSound(e) /\ Drawn(e)
  BY <1>2, <1>3, <1>4, <1>5, GrownFits DEF Drawn
<1>7. session'.trades = e.trades /\ Drawn(session')
  BY <1>4, <1>6, PointKept, PointDraws DEF LedgerSound
<1>8. LedgerSound(session')
  BY <1>6, <1>7, SameTrades
<1>9. LossWithinDrawdown'
  BY <1>1 DEF LedgerInv, LossWithinDrawdown
<1>10. (LedgerSound(session))' /\ (Drawn(session))'
  BY <1>7, <1>8
<1> QED
  BY <1>9, <1>10 DEF LedgerInv

LEMMA EndFits ==
  ASSUME IInv, LedgerInv, session # NoSession, EndSession
  PROVE  LedgerInv'
<1> DEFINE e == EodOf(WithPoint(session))
           n == Len(eods)
<1>1. eods' = Append(eods, e) /\ session' = NoSession
  BY DEF EndSession
<1>2. Shaped(session) /\ TradesSound(session) /\ Drawn(session)
  BY DEF IInv, SessionSound, LedgerInv, LedgerSound
<1>3. e.gross + e.unrealized >= e.drawdown
  BY <1>2, ReportCoversLoss
<1> HIDE DEF e
<1>4. /\ IsSequence(eods') /\ n \in Nat /\ Len(eods') = n + 1
      /\ eods'[n + 1] = e
      /\ \A i \in 1..n : eods'[i] = eods[i]
  BY <1>1, AppendFacts DEF IInv
<1>5. DOMAIN eods' = 1..(n + 1) /\ DOMAIN eods = 1..n
  BY <1>4, SequenceDomain DEF IInv
<1>6. LossWithinDrawdown'
  <2>1. ASSUME NEW i \in DOMAIN eods'
        PROVE  eods'[i].gross + eods'[i].unrealized >= eods'[i].drawdown
    <3>1. i \in 1..n \/ i = n + 1
      BY <1>4, <1>5
    <3>2. CASE i = n + 1
      BY <1>3, <1>4, <3>2
    <3>3. CASE i \in 1..n
      BY <1>4, <1>5, <3>3 DEF LedgerInv, LossWithinDrawdown
    <3> QED
      BY <3>1, <3>2, <3>3
  <2> QED
    BY <2>1 DEF LossWithinDrawdown
<1> QED
  BY <1>1, <1>6 DEF LedgerInv

LEMMA BeginFits ==
  ASSUME IInv, LedgerInv, NEW day, NEW sources, Begin(day, sources)
  PROVE  LedgerInv'
<1>1. session' = NewSession(day, sources) /\ UNCHANGED eods
  BY DEF Begin
<1>2. /\ session'.trades = <<>> /\ session'.peak = CampaignCash
      /\ session'.drawdown = 0
  BY <1>1, NewSessionKept
<1>3. LedgerSound(session') /\ Drawn(session')
  BY <1>2, NewFits, CampaignBudget DEF Drawn
<1>4. (LedgerSound(session))' /\ (Drawn(session))'
  BY <1>3
<1>5. LossWithinDrawdown'
  BY <1>1 DEF LedgerInv, LossWithinDrawdown
<1> QED
  BY <1>4, <1>5 DEF LedgerInv

LEMMA StepsFit == IInv /\ LedgerInv /\ [Next]_vars => LedgerInv'
<1> SUFFICES ASSUME IInv, LedgerInv, [Next]_vars PROVE LedgerInv'
  OBVIOUS
<1>1. CASE UNCHANGED <<session, eods>>
  BY <1>1 DEF LedgerInv, LossWithinDrawdown
<1>2. CASE session' = NoSession /\ UNCHANGED eods
  BY <1>2 DEF LedgerInv, LossWithinDrawdown
<1>3. CASE \E day, sources : Begin(day, sources)
  BY <1>3, BeginFits
<1>4. CASE session # NoSession /\ EndSession
  BY <1>4, EndFits
<1>5. CASE /\ session # NoSession
           /\ \E at \in Moments, failing \in Failings :
                \E snapshot \in Given[<<session.day, at>>] :
                  ProcessSnapshot(snapshot, failing)
  BY <1>5, SnapshotFits
<1> QED
  BY <1>1, <1>2, <1>3, <1>4, <1>5
     DEF Next, vars, RunSession, Run, NextSession, InSession, SessionRaises, FinishRun

-----------------------------------------------------------------------------
(* Days and moments                                                        *)

LEMMA Quotient ==
  ASSUME NEW a \in Int, NEW b \in Nat \ {0}
  PROVE  a \div b \in Int /\ b * (a \div b) <= a /\ a < b * (a \div b) + b
  OBVIOUS

LEMMA QuotientOf ==
  ASSUME NEW b \in Nat \ {0}, NEW q \in Int, NEW a \in Int, b * q <= a, a < b * q + b
  PROVE  a \div b = q
<1> DEFINE p == a \div b
<1>1. p \in Int /\ b * p <= a /\ a < b * p + b
  BY Quotient
<1> HIDE DEF p
<1>2. b * p < b * q + b /\ b * q < b * p + b
  BY <1>1
<1>3. b * p < b * (q + 1) /\ b * q < b * (p + 1)
  BY <1>1, <1>2
<1>4. \A x, y \in Int : b * x < b * y => x < y
  OBVIOUS
<1>5. p < q + 1 /\ q < p + 1
  BY <1>1, <1>3, <1>4
<1>6. p = q
  BY <1>1, <1>5
<1> QED
  BY <1>6 DEF p

LEMMA DayLengthNat == DayLength \in Nat \ {0}
  BY StoresAreValid

\* A moment of a day is of that day.
LEMMA DateOfMoment ==
  ASSUME NEW day \in Int, NEW offset \in Nat, offset < DayLength
  PROVE  MomentOf(day, offset) \in Int /\ DateAt(MomentOf(day, offset)) = day
<1>1. day * DayLength \in Int /\ day * DayLength = DayLength * day
  BY DayLengthNat
<1> DEFINE a == MomentOf(day, offset)
<1>2. a \in Int /\ DayLength * day <= a /\ a < DayLength * day + DayLength
  BY <1>1, DayLengthNat DEF MomentOf
<1> HIDE DEF a
<1>3. a \div DayLength = day
  BY <1>2, DayLengthNat, QuotientOf
<1> QED
  BY <1>2, <1>3 DEF DateAt, a

\* Later moments are of the same day or a later one.
LEMMA DatesInOrder ==
  ASSUME NEW s \in Int, NEW t \in Int, s <= t
  PROVE  DateAt(s) \in Int /\ DateAt(t) \in Int /\ DateAt(s) <= DateAt(t)
<1> DEFINE p == s \div DayLength
           q == t \div DayLength
<1>1. /\ p \in Int /\ DayLength * p <= s
      /\ q \in Int /\ t < DayLength * q + DayLength
  BY DayLengthNat, Quotient
<1> HIDE DEF p, q
<1>2. DayLength * p < DayLength * (q + 1)
  BY <1>1, DayLengthNat
<1>3. \A x, y \in Int : DayLength * x < DayLength * y => x < y
  BY DayLengthNat
<1>4. p < q + 1
  BY <1>1, <1>2, <1>3
<1> QED
  BY <1>1, <1>4 DEF DateAt, p, q

-----------------------------------------------------------------------------
(* What was known of a contract                                            *)

\* Of the quotes of one contract one is the latest.
LEMMA LatestQuote ==
  ASSUME NEW store \in Stores, NEW c, NEW T, T # {},
         T \subseteq {q \in store.quotes : q.contract = c}
  PROVE  \E q \in T : \A p \in T \ {q} : p.at < q.at
<1> DEFINE R == {e \in T \X T : e[2].at < e[1].at}
<1>1. IsFiniteSet(T)
  BY StoresAreValid, FS_Subset DEF StoreNumbers
<1>2. \A q \in T : q.at \in Int
  BY StoresAreValid DEF StoreNumbers
<1>3. ASSUME NEW p \in T, NEW q \in T, p # q
      PROVE  <<p, q>> \in R \/ <<q, p>> \in R
  <2>1. p.at # q.at
    <3>1. p \in store.quotes /\ q \in store.quotes \ {p} /\ p.contract = q.contract
      BY <1>3
    <3>2. <<q.contract, q.at>> # <<p.contract, p.at>>
      BY <3>1, StoresAreValid DEF ValidStore
    <3> QED
      BY <3>1, <3>2
  <2> QED
    BY <1>2, <2>1
<1>4. ASSUME NEW o \in T, NEW p \in T, NEW q \in T, <<o, p>> \in R, <<p, q>> \in R
      PROVE  <<o, q>> \in R
  BY <1>2, <1>4
<1>5. \E q \in T : \A p \in T \ {q} : <<q, p>> \in R
  <2> HIDE DEF R
  <2> QED
    BY <1>1, <1>3, <1>4, FirstInOrder
<1> QED
  BY <1>5

\* A contract is listed from one moment to another without a gap, so the quote a
\* source gives is the last known one.
LEMMA QuoteTaken ==
  ASSUME NEW store \in Stores, NEW index, NEW t \in Int,
         NEW c \in DOMAIN QuotesAt(store, index, t)
  PROVE  LET q == QuotesAt(store, index, t)[c]
         IN /\ q \in store.quotes /\ q.contract = c /\ q.at <= t
            /\ LastKnown(store, c, t) = {q}
            /\ c \in ListedAt(store, index, t)
<1> DEFINE q == QuotesAt(store, index, t)[c]
           K == KnownQuotes(store, c, t)
           known == {p \in store.quotes : p.contract = c /\ p.at <= t /\ p.known <= t}
<1>1. c \in ListedAt(store, index, t) /\ K # {}
  BY DEF QuotesAt
<1>2. q = CHOOSE p \in K : \A r \in K : r.at <= p.at
  BY DEF QuotesAt
<1>3. K \subseteq known /\ known \subseteq store.quotes
  BY DEF KnownQuotes
<1>4. \A p \in known : p.at \in Int
  BY <1>3, StoresAreValid DEF StoreNumbers
<1>5. PICK p \in K : \A r \in K \ {p} : r.at < p.at
  <2>1. K \subseteq {r \in store.quotes : r.contract = c}
    BY DEF KnownQuotes
  <2> HIDE DEF K
  <2> QED
    BY <1>1, <2>1, LatestQuote
<1>6. q \in K /\ \A r \in K : r.at <= q.at
  <2>1. \A r \in K : r.at <= p.at
    BY <1>3, <1>4, <1>5
  <2> HIDE DEF K, q
  <2> QED
    BY <1>2, <2>1
<1>7. \A r \in known \ {q} : r.at < q.at
  <2> TAKE r \in known \ {q}
  <2>1. r.at # q.at
    <3>1. q \in known /\ r \in known /\ q.contract = c /\ r.contract = c
      BY <1>3, <1>6
    <3>2. r \in store.quotes /\ q \in store.quotes \ {r}
      BY <1>3, <3>1
    <3>3. <<q.contract, q.at>> # <<r.contract, r.at>>
      <4> HIDE DEF q, known
      <4> QED
        BY <3>2, StoresAreValid DEF ValidStore
    <3> QED
      BY <3>1, <3>3
  <2>2. CASE r \in K
    <3>1. r.at \in Int /\ q.at \in Int /\ r.at <= q.at
      BY <1>3, <1>4, <1>6, <2>2
    <3> QED
      BY <2>1, <3>1
  <2>3. CASE r \notin K
    <3>1. ~ ListedWhen(store, c, r.at) /\ r.at <= t
      BY <2>3 DEF KnownQuotes
    <3>2. /\ store.master[c].first <= q.at /\ t <= store.master[c].last
          /\ store.master[c].first \in Int /\ store.master[c].last \in Int
      BY <1>1, <1>6, StoresAreValid DEF KnownQuotes, ListedAt, ListedWhen, StoreNumbers
    <3>3. r.at \in Int /\ q.at \in Int
      BY <1>3, <1>4, <1>6
    <3> HIDE DEF q
    <3> QED
      BY <3>1, <3>2, <3>3 DEF ListedWhen
  <2> QED
    BY <2>2, <2>3
<1>8. q \in known
  BY <1>3, <1>6
<1>9. LastKnown(store, c, t) = {q}
  <2>1. LastKnown(store, c, t) = {r \in known : \A o \in known : o.at <= r.at}
    BY DEF LastKnown
  <2>2. \A o \in known : o.at <= q.at
    BY <1>4, <1>7, <1>8
  <2>3. \A r \in known \ {q} : ~ (q.at <= r.at)
    BY <1>4, <1>7, <1>8
  <2> HIDE DEF known, q
  <2> QED
    BY <1>8, <2>1, <2>2, <2>3
<1>10. q \in store.quotes /\ q.contract = c /\ q.at <= t
  BY <1>8
<1> HIDE DEF q
<1>11. /\ q \in store.quotes /\ q.contract = c /\ q.at <= t
       /\ LastKnown(store, c, t) = {q}
       /\ c \in ListedAt(store, index, t)
  BY <1>1, <1>9, <1>10
<1> QED
  BY <1>11 DEF q

-----------------------------------------------------------------------------
(* Cycles of a dataset                                                     *)

LEMMA SealedFields ==
  ASSUME NEW s, {"at", "rows", "under", "today"} \subseteq DOMAIN s
  PROVE  Sealed(s).at = s.at /\ Sealed(s).rows = s.rows /\ Sealed(s).under = s.under
  BY DEF Sealed

\* What the campaign builds shows the dataset, and nothing of the future.
LEMMA HistoricalTaken ==
  ASSUME NEW store \in Stores, NEW index, NEW t \in Int
  PROVE  LET s == HistoricalSnapshot(store, index, t)
         IN /\ TakenFrom(s, store, t)
            /\ Leaks(s) = {}
            /\ \A c \in DOMAIN s.rows :
                 /\ LastKnown(store, c, t) # {}
                 /\ \A q \in LastKnown(store, c, t) :
                      s.rows[c].fixture = (store.fixture \/ q.flagged)
<1> DEFINE s == HistoricalSnapshot(store, index, t)
           quotes == QuotesAt(store, index, t)
           rows == [c \in ChainAt(store, index, t) |-> HistoricalRow(store, quotes[c], t)]
           spot == LastPrice(store, index, t)
           under == [u \in {index} |-> [ltp |-> spot, open |-> 0, high |-> 0, low |-> 0,
                                        close |-> spot, age |-> 0]]
<1>1. s.at = t /\ s.rows = rows /\ s.under = under
  <2> DEFINE x == [at |-> t, today |-> DateAt(t), quality |-> "OK", health |-> "NONE",
                   source |-> "LIVE", fresh |-> TRUE, under |-> under, rows |-> rows,
                   closes |-> <<>>, shared |-> NoCloses]
  <2>1. s = Sealed(x)
    BY DEF HistoricalSnapshot
  <2> HIDE DEF s, under, rows
  <2>2. x.at = t /\ x.rows = rows /\ x.under = under
        /\ {"at", "rows", "under", "today"} \subseteq DOMAIN x
    OBVIOUS
  <2> HIDE DEF x
  <2> QED
    BY <2>1, <2>2, SealedFields
<1>2. ASSUME NEW c \in ChainAt(store, index, t)
      PROVE  /\ rows[c].bid = quotes[c].bid /\ rows[c].ask = quotes[c].ask
             /\ rows[c].ltp = quotes[c].ltp
             /\ {rows[c].bid, rows[c].ask, rows[c].ltp, rows[c].lot} \subseteq Nat
             /\ rows[c].age >= 0
             /\ rows[c].fixture = (store.fixture \/ quotes[c].flagged)
             /\ LastKnown(store, c, t) = {quotes[c]}
  <2> DEFINE q == quotes[c]
  <2>1. c \in DOMAIN quotes
    BY DEF ChainAt
  <2>2. /\ q \in store.quotes /\ q.contract = c /\ q.at <= t
        /\ LastKnown(store, c, t) = {q} /\ c \in ListedAt(store, index, t)
    <3> HIDE DEF q, quotes
    <3> QED
      BY <2>1, QuoteTaken DEF q, quotes
  <2>3. rows[c] = HistoricalRow(store, q, t)
    OBVIOUS
  <2>4. store.master[c].lot \in Nat
    BY <2>2, StoresAreValid DEF ListedAt, ValidStore, ValidListing
  <2>5. {q.bid, q.ask, q.ltp} \subseteq Nat /\ q.at \in Int
    BY <2>2, StoresAreValid DEF StoreNumbers
  <2> HIDE DEF q, quotes, rows
  <2> QED
    BY <2>2, <2>3, <2>4, <2>5 DEF HistoricalRow, q
<1>3. DOMAIN rows = ChainAt(store, index, t)
  OBVIOUS
<1> HIDE DEF rows, quotes, s
<1>4. TakenFrom(s, store, t)
  BY <1>1, <1>2, <1>3 DEF TakenFrom, Shows
<1>5. Leaks(s) = {}
  <2>1. \A c \in DOMAIN s.rows : ~ (s.rows[c].age < 0)
    <3>1. ASSUME NEW c \in ChainAt(store, index, t) PROVE rows[c].age \in Int
      <4>1. c \in DOMAIN quotes
        BY DEF ChainAt, quotes
      <4>2. quotes[c].at \in Int
        BY <4>1, QuoteTaken, StoresAreValid DEF StoreNumbers, quotes
      <4> QED
        BY <4>2 DEF rows, HistoricalRow
    <3> QED
      BY <1>1, <1>2, <1>3, <3>1
  <2>2. \A u \in DOMAIN s.under : ~ (s.under[u].age < 0)
    BY <1>1
  <2> QED
    BY <2>1, <2>2 DEF Leaks
<1>6. \A c \in DOMAIN s.rows :
        /\ LastKnown(store, c, t) # {}
        /\ \A q \in LastKnown(store, c, t) :
             s.rows[c].fixture = (store.fixture \/ q.flagged)
  BY <1>1, <1>2, <1>3
<1> QED
  BY <1>4, <1>5, <1>6 DEF s

\* What an evaluation may be made of.
TakenCycles(built, store) ==
  /\ DOMAIN built \subseteq Nat
  /\ \A t \in DOMAIN built : /\ TakenFrom(built[t].snapshot, store, t)
                             /\ Prepared(built[t].package)

LEMMA SlotsAreNat ==
  ASSUME NEW store \in Stores
  PROVE  DecisionSlots(store) \subseteq Nat
<1> DEFINE cadence == IF store.cadence = {} THEN {DecisionOffset} ELSE store.cadence
<1>1. OpenDays(store) \subseteq Nat
  BY StoresAreValid DEF OpenDays, StoreNumbers
<1>2. cadence \subseteq Nat
  BY StoresAreValid DEF StoreNumbers
<1>3. DecisionSlots(store) \subseteq {MomentOf(day, o) : day \in OpenDays(store), o \in cadence}
  BY DEF DecisionSlots, SlotsOf
<1>4. \A day \in Nat, o \in Nat : MomentOf(day, o) \in Nat
  BY DayLengthNat DEF MomentOf
<1> HIDE DEF cadence
<1> QED
  BY <1>1, <1>2, <1>3, <1>4

LEMMA SlotsFinite ==
  ASSUME NEW store \in Stores
  PROVE  IsFiniteSet(SlotsOf(store, store.cadence))
<1> DEFINE P == OpenDays(store) \X store.cadence
           g == [p \in P |-> MomentOf(p[1], p[2])]
           T == {g[p] : p \in P}
<1>1. IsFiniteSet(P)
  <2>1. OpenDays(store) \in SUBSET DOMAIN store.sessions
    BY DEF OpenDays
  <2>2. IsFiniteSet(OpenDays(store)) /\ IsFiniteSet(store.cadence)
    BY <2>1, StoresAreValid, FS_Subset DEF StoreNumbers
  <2> QED
    BY <2>2, FS_Product
<1>2. IsFiniteSet(T)
  <2>1. g \in Surjection(P, T)
    BY DEF Surjection
  <2> HIDE DEF g
  <2> QED
    BY <1>1, <2>1, FS_Surjection
<1>3. SlotsOf(store, store.cadence) \in SUBSET T
  <2>1. SUFFICES ASSUME NEW t \in SlotsOf(store, store.cadence)
                 PROVE  t \in T
    OBVIOUS
  <2>2. PICK day \in OpenDays(store), o \in store.cadence : t = MomentOf(day, o)
    BY <2>1 DEF SlotsOf
  <2>3. <<day, o>> \in P /\ g[<<day, o>>] = t
    BY <2>2
  <2> QED
    BY <2>3
<1> HIDE DEF T
<1> QED
  BY <1>2, <1>3, FS_Subset

\* Of a dataset finitely many quotes are expected.
LEMMA ExpectedFinite ==
  ASSUME NEW store \in Stores
  PROVE  IsFiniteSet(ExpectedQuotes(store))
<1> DEFINE U == (DOMAIN store.master) \X SlotsOf(store, store.cadence)
<1>1. IsFiniteSet(U)
  BY SlotsFinite, StoresAreValid, FS_Product DEF StoreNumbers
<1>2. ExpectedQuotes(store) \in SUBSET U
  BY DEF ExpectedQuotes
<1> HIDE DEF U
<1> QED
  BY <1>1, <1>2, FS_Subset

LEMMA NothingPrepared == Prepared(NoPackage)
  BY DEF Prepared, NoPackage, NoCandidate

LEMMA CampaignCycles ==
  ASSUME NEW r \in Requests, r.kind = "campaign"
  PROVE  /\ TakenCycles(CyclesOf(r), r.store)
         /\ DOMAIN CyclesOf(r) = DecisionSlots(r.store)
         /\ \A t \in DecisionSlots(r.store) :
              CyclesOf(r)[t].snapshot = HistoricalSnapshot(r.store, r.index, t)
<1>1. r.store \in Stores /\ DecisionSlots(r.store) \subseteq Nat
  BY EvaluationRequests, SlotsAreNat
<1>2. \A t : Prepared(PackageAt(r.packages, t))
  BY EvaluationRequests, NothingPrepared DEF PackageAt
<1>3. \A t \in DecisionSlots(r.store) :
        TakenFrom(HistoricalSnapshot(r.store, r.index, t), r.store, t)
  BY <1>1, HistoricalTaken
<1> QED
  BY <1>1, <1>2, <1>3 DEF TakenCycles, CyclesOf

LEMMA RunnerCycles ==
  ASSUME NEW r \in Requests, r.kind = "runner"
  PROVE  TakenCycles(r.cycles, r.store)
  BY EvaluationRequests DEF TakenCycles

-----------------------------------------------------------------------------
(* What an engine deals in a span                                          *)

Within(t, period) == period.from <= DateAt(t) /\ DateAt(t) <= period.to

\* Bought at the moment of a cycle without flags, for what its snapshot asks.
BoughtAt(c, at, price, period) ==
  /\ at \in DOMAIN cycles /\ Within(at, period)
  /\ FlagsAt(cycles[at].snapshot) = {}
  /\ Buyable(PaperQuote(cycles[at].snapshot, c))
  /\ price = BuyPrice(PaperQuote(cycles[at].snapshot, c))

SoldAt(c, bought, at, price, period) ==
  /\ at \in DOMAIN cycles /\ Within(at, period) /\ bought < at
  /\ Sellable(PaperQuote(cycles[at].snapshot, c))
  /\ price = SellPrice(PaperQuote(cycles[at].snapshot, c))

\* A trade of an engine that only saw cycles of the period.
Dealt(t, period) ==
  /\ {"openedAt", "closedAt", "costs"} \subseteq DOMAIN t
  /\ BoughtAt(t.contract, t.openedAt, t.entry, period)
  /\ IsOpen(t) => t.costs = 0
  /\ ~ IsOpen(t) => t.costs \in Int /\ SoldAt(t.contract, t.openedAt, t.closedAt,
                                             t.mark, period)

AllDealt(s, period) == \A i \in DOMAIN s.trades : Dealt(s.trades[i], period)

LEMMA RoundTripInt ==
  ASSUME NEW entry \in Nat, NEW exit \in Nat, NEW quantity \in Nat
  PROVE  RoundTrip(entry, exit, quantity) \in Int
<1> DEFINE stt == (exit * quantity * SttRate) \div 100000
           fees == ((entry + exit) * quantity * ExchangeRate) \div 100000
           gst == ((2 * Brokerage + fees) * GstRate) \div 100
<1>1. {Brokerage, SttRate, ExchangeRate, GstRate} \subseteq Nat
  BY PricingPolicy
<1>2. stt \in Nat
  <2>1. exit * quantity * SttRate \in Nat
    BY <1>1
  <2> QED
    BY <2>1, QuotientNat
<1>3. fees \in Nat
  <2>1. (entry + exit) * quantity * ExchangeRate \in Nat
    BY <1>1
  <2> QED
    BY <2>1, QuotientNat
<1>4. gst \in Nat
  <2> HIDE DEF fees
  <2>1. (2 * Brokerage + fees) * GstRate \in Nat
    BY <1>1, <1>3
  <2> QED
    BY <2>1, QuotientNat
<1>5. RoundTrip(entry, exit, quantity) = 2 * Brokerage + stt + fees + gst
  BY DEF RoundTrip
<1> HIDE DEF stt, fees, gst
<1> QED
  BY <1>1, <1>2, <1>3, <1>4, <1>5

\* Marking and closing a trade with the snapshot of a cycle.
LEMMA MonitoredDealt ==
  ASSUME NEW t \in DOMAIN cycles, NEW period, Within(t, period),
         cycles[t].snapshot.at = t, PricedRows(cycles[t].snapshot),
         NEW x, TradeSound(x), Dealt(x, period)
  PROVE  Dealt(Monitored(x, cycles[t].snapshot), period)
<1> DEFINE snapshot == cycles[t].snapshot
           quote == PaperQuote(snapshot, x.contract)
           marked == MarkedTrade(x, quote, snapshot.at)
           closed == ClosedTrade(x, quote, snapshot)
<1>1. Monitored(x, snapshot) = marked
      \/ /\ IsOpen(x) /\ Closable(x, quote, snapshot.at)
         /\ Monitored(x, snapshot) = closed
  BY DEF Monitored
<1>2. Dealt(marked, period)
  <2> DEFINE p == MarkPrice(quote)
             a == snapshot.at - quote.age
  <2>1. marked = x \/ (IsOpen(x) /\ marked = [x EXCEPT !.mark = p, !.markedAt = a])
    BY DEF MarkedTrade
  <2> HIDE DEF marked, p, a
  <2>2. CASE marked = x
    BY <2>2
  <2>3. CASE IsOpen(x) /\ marked = [x EXCEPT !.mark = p, !.markedAt = a]
    <3>1. /\ marked.contract = x.contract /\ marked.openedAt = x.openedAt
          /\ marked.entry = x.entry /\ marked.costs = x.costs
          /\ IsOpen(marked) /\ DOMAIN marked = DOMAIN x
      BY <2>3 DEF IsOpen
    <3> QED
      BY <2>3, <3>1 DEF Dealt
  <2> QED
    BY <2>1, <2>2, <2>3
<1>3. ASSUME IsOpen(x), Closable(x, quote, snapshot.at)
      PROVE  Dealt(closed, period)
  <2> DEFINE p == SellPrice(quote)
             a == RoundTrip(x.entry, SellPrice(quote), x.quantity)
             d == snapshot.today
  <2>1. closed = [x EXCEPT !.state = "CLOSED", !.mark = p, !.closedAt = t,
                           !.closedOn = d, !.costs = a]
    BY DEF ClosedTrade
  <2>2. p \in Nat /\ a \in Int
    <3>1. p \in Nat
      BY QuotePriced, PricesNat
    <3> QED
      BY <3>1, RoundTripInt DEF TradeSound
  <2>3. t > x.openedAt /\ Sellable(quote)
    BY <1>3 DEF Closable
  <2> HIDE DEF closed, p, a, d
  <2>4. /\ closed.contract = x.contract /\ closed.openedAt = x.openedAt
        /\ closed.entry = x.entry /\ closed.costs = a
        /\ closed.mark = p /\ closed.closedAt = t
        /\ ~ IsOpen(closed) /\ DOMAIN closed = DOMAIN x
    BY <2>1 DEF IsOpen, TradeSound, Dealt
  <2>5. SoldAt(x.contract, x.openedAt, t, p, period)
    BY <2>3 DEF SoldAt, p
  <2> QED
    BY <2>2, <2>4, <2>5 DEF Dealt
<1> QED
  BY <1>1, <1>2, <1>3

\* What on_snapshot does to the trades of an engine.
LEMMA MonitorTakes ==
  ASSUME NEW s, NEW snapshot, "trades" \in DOMAIN s
  PROVE  LET m == Monitor(s, snapshot)
         IN /\ "trades" \in DOMAIN m
            /\ DOMAIN m.trades = DOMAIN s.trades
            /\ \A i \in DOMAIN s.trades :
                 \/ m.trades[i] = s.trades[i]
                 \/ m.trades[i] = Monitored(s.trades[i], snapshot)
<1> DEFINE m == Monitor(s, snapshot)
           ts == [i \in DOMAIN s.trades |-> Monitored(s.trades[i], snapshot)]
<1>1. "trades" \in DOMAIN m /\ m.trades \in {s.trades, ts}
  <2> HIDE DEF ts
  <2>1. CASE GatedQuality(snapshot) # "OK"
    BY <2>1 DEF Monitor
  <2>2. CASE GatedQuality(snapshot) = "OK"
    BY <2>2 DEF Monitor, ts
  <2> QED
    BY <2>1, <2>2
<1> HIDE DEF m
<1>2. /\ DOMAIN m.trades = DOMAIN s.trades
      /\ \A i \in DOMAIN s.trades : \/ m.trades[i] = s.trades[i]
                                    \/ m.trades[i] = Monitored(s.trades[i], snapshot)
  BY <1>1
<1> QED
  BY <1>1, <1>2 DEF m

LEMMA MonitorDeals ==
  ASSUME NEW t \in DOMAIN cycles, NEW period, Within(t, period),
         cycles[t].snapshot.at = t, PricedRows(cycles[t].snapshot),
         NEW s, "trades" \in DOMAIN s, LedgerSound(s), AllDealt(s, period)
  PROVE  AllDealt(Monitor(s, cycles[t].snapshot), period)
<1> DEFINE m == Monitor(s, cycles[t].snapshot)
<1>1. /\ DOMAIN m.trades = DOMAIN s.trades
      /\ \A i \in DOMAIN s.trades :
           \/ m.trades[i] = s.trades[i]
           \/ m.trades[i] = Monitored(s.trades[i], cycles[t].snapshot)
  BY MonitorTakes
<1> HIDE DEF m
<1>2. \A i \in DOMAIN s.trades : TradeSound(s.trades[i]) /\ Dealt(s.trades[i], period)
  BY DEF LedgerSound, TradesSound, AllDealt
<1>3. AllDealt(m, period)
  BY <1>1, <1>2, MonitoredDealt DEF AllDealt
<1> QED
  BY <1>3 DEF m

-----------------------------------------------------------------------------
(* What an engine buys in a span                                           *)

\* Execute touches the trades only to append what the engine accepted.
LEMMA ExecuteTakes ==
  ASSUME NEW s, NEW snapshot, NEW decision, "trades" \in DOMAIN s
  PROVE  LET e == Execute(s, snapshot, decision)
         IN /\ "trades" \in DOMAIN e
            /\ \/ e.trades = s.trades
               \/ /\ decision.status = "CANDIDATE"
                  /\ \E x : /\ x.trades = s.trades
                            /\ Accepts(x, snapshot, decision.candidate)
                            /\ e.trades = Append(s.trades,
                                                 TradeOf(snapshot, decision.candidate))
<1> DEFINE e == Execute(s, snapshot, decision)
           c == decision.candidate
           x == Rolled(s, snapshot.today)
           y == Entered(x, snapshot, c)
           z == TradeOf(snapshot, c)
<1>1. e = IF decision.status # "CANDIDATE" THEN s ELSE y
  BY DEF Execute
<1>2. "trades" \in DOMAIN x /\ x.trades = s.trades
  BY DEF Rolled
<1>3. /\ "trades" \in DOMAIN y
      /\ y.trades = s.trades \/ (Accepts(x, snapshot, c) /\ y.trades = Append(s.trades, z))
  <2> HIDE DEF x, z
  <2>1. CASE Accepts(x, snapshot, c)
    BY <1>2, <2>1 DEF Entered, z
  <2>2. CASE ~ Accepts(x, snapshot, c)
    BY <1>2, <2>2 DEF Entered
  <2> QED
    BY <2>1, <2>2
<1> HIDE DEF e, x, y, z
<1>4. /\ "trades" \in DOMAIN e
      /\ \/ e.trades = s.trades
         \/ /\ decision.status = "CANDIDATE" /\ Accepts(x, snapshot, c)
            /\ e.trades = Append(s.trades, z)
  BY <1>1, <1>3
<1>5. /\ "trades" \in DOMAIN e
      /\ \/ e.trades = s.trades
         \/ /\ decision.status = "CANDIDATE"
            /\ \E v : /\ v.trades = s.trades /\ Accepts(v, snapshot, c)
                      /\ e.trades = Append(s.trades, z)
  BY <1>2, <1>4
<1> QED
  BY <1>5 DEF e, z

\* What is decided of prepared answers is what was prepared.
LEMMA DecisionPrepared ==
  ASSUME NEW given, Prepared(given.package), DecisionOn(given).status = "CANDIDATE"
  PROVE  /\ DecisionOn(given).candidate.quantity \in Nat
         /\ DecisionOn(given).candidate.stop \in Nat
<1> DEFINE outputs == OutputsOf(given.package)
           moment == SessionOf[given.snapshot.at]
           policy == Policy(given.snapshot, outputs)
           d == Decide(given.snapshot, outputs, moment, EmptyBook)
           p == Proposed(outputs)
           k == given.package.candidate
<1>1. DecisionOn(given) = d
  BY DEF DecisionOn, Verdict
<1>2. d.status = "CANDIDATE"
  BY <1>1
<1>3. policy.status = "CANDIDATE" /\ d = policy
  <2> DEFINE proposal == ProposalOf(policy.candidate, moment, outputs)
  <2>1. d = IF policy.status # "CANDIDATE" THEN policy
            ELSE IF ~ CeoGate(policy.candidate) THEN Verdict("NO_TRADE", NoCandidate)
            ELSE IF ~ Approves(proposal, EmptyBook) THEN Verdict("BLOCKED", NoCandidate)
            ELSE policy
    BY DEF Decide
  <2> HIDE DEF d, policy, proposal
  <2> QED
    BY <1>2, <2>1 DEF Verdict
<1>4. policy.candidate = p /\ Actionable(outputs) # {}
  <2> HIDE DEF outputs
  <2> QED
    BY <1>3 DEF Policy, Verdict
<1>5. \A n \in DOMAIN outputs : outputs[n].opens \in {k, NoCandidate}
  <2>1. \A s, v, m : Answer(s, v, m).opens = NoCandidate /\ "opens" \in DOMAIN Answer(s, v, m)
    BY DEF Answer
  <2>2. OptionsAnswer(k, k.direction).opens \in {k, NoCandidate}
    BY <2>1 DEF OptionsAnswer
  <2> DEFINE o == OptionsAnswer(k, k.direction)
             other == Answer("PASS", "NONE", {})
  <2>3. o.opens \in {k, NoCandidate} /\ other.opens \in {k, NoCandidate}
    BY <2>1, <2>2
  <2>4. outputs = [n \in SpecialistNames |-> IF n = "campaign_options" THEN o ELSE other]
    BY DEF OutputsOf
  <2> HIDE DEF o, other, outputs, k
  <2> QED
    BY <2>3, <2>4
<1>6. p \in {k, NoCandidate}
  <2> DEFINE n == CHOOSE m \in Actionable(outputs) : TRUE
  <2> HIDE DEF outputs, k
  <2>1. n \in Actionable(outputs)
    BY <1>4
  <2>2. n \in DOMAIN outputs
    BY <2>1 DEF Actionable
  <2> QED
    BY <1>5, <2>2 DEF Proposed
<1>7. \A c \in {k, NoCandidate} : c.quantity \in Nat /\ c.stop \in Nat
  BY DEF Prepared, NoCandidate
<1>8. DecisionOn(given).candidate \in {k, NoCandidate}
  <2> HIDE DEF d, policy, p, k
  <2> QED
    BY <1>1, <1>3, <1>4, <1>6
<1> HIDE DEF k
<1> QED
  BY <1>7, <1>8

\* The cycle of a moment, as the caller or the campaign made it.
SoundCycle(t) ==
  /\ t \in DOMAIN cycles /\ t \in Nat
  /\ cycles[t].snapshot.at = t
  /\ PricedRows(cycles[t].snapshot)
  /\ Prepared(cycles[t].package)

Dealing(s, period) ==
  "trades" \in DOMAIN s /\ LedgerSound(s) /\ AllDealt(s, period)

\* The engine of a cycle, before what it holds is looked at.
EngineAfter(s, given) ==
  IF FlagsAt(given.snapshot) = {} THEN Traded(s, given) ELSE s

LEMMA DecidedDeals ==
  ASSUME NEW t, SoundCycle(t), NEW period, Within(t, period),
         NEW s, Dealing(s, period)
  PROVE  LET e == EngineAfter(s, cycles[t])
         IN /\ Dealing(e, period)
            /\ Len(e.trades) >= Len(s.trades)
            /\ \A i \in DOMAIN s.trades : i \in DOMAIN e.trades /\ e.trades[i] = s.trades[i]
<1> DEFINE given == cycles[t]
           snapshot == given.snapshot
           d == DecisionOn(given)
           c == d.candidate
           z == TradeOf(snapshot, c)
           e == EngineAfter(s, given)
<1>1. IsSequence(s.trades) /\ Len(s.trades) \in Nat /\ DOMAIN s.trades = 1..Len(s.trades)
  BY SequenceDomain DEF Dealing, LedgerSound, TradesSound
<1>2. /\ "trades" \in DOMAIN e
      /\ \/ e.trades = s.trades
         \/ /\ FlagsAt(snapshot) = {} /\ d.status = "CANDIDATE"
            /\ \E x : /\ x.trades = s.trades /\ Accepts(x, snapshot, c)
                      /\ e.trades = Append(s.trades, z)
  <2>1. CASE FlagsAt(snapshot) = {}
    <3>1. e = Execute(s, snapshot, d)
      BY <2>1 DEF EngineAfter, Traded
    <3> HIDE DEF e, snapshot, d, given
    <3> QED
      BY <2>1, <3>1, ExecuteTakes DEF Dealing
  <2>2. CASE FlagsAt(snapshot) # {}
    <3>1. e = s
      BY <2>2 DEF EngineAfter
    <3> HIDE DEF e
    <3> QED
      BY <3>1 DEF Dealing
  <2> QED
    BY <2>1, <2>2
<1> HIDE DEF e
<1>3. ASSUME e.trades = s.trades
      PROVE  /\ Dealing(e, period)
             /\ Len(e.trades) >= Len(s.trades)
             /\ \A i \in DOMAIN s.trades : i \in DOMAIN e.trades /\ e.trades[i] = s.trades[i]
  <2>1. LedgerSound(e)
    BY <1>3, SameTrades DEF Dealing
  <2>2. Dealing(e, period)
    BY <1>2, <1>3, <2>1 DEF Dealing, AllDealt
  <2> QED
    BY <1>1, <1>3, <2>2
<1>4. ASSUME FlagsAt(snapshot) = {}, d.status = "CANDIDATE",
             NEW x, x.trades = s.trades, Accepts(x, snapshot, c),
             e.trades = Append(s.trades, z)
      PROVE  /\ Dealing(e, period)
             /\ Len(e.trades) >= Len(s.trades)
             /\ \A i \in DOMAIN s.trades : i \in DOMAIN e.trades /\ e.trades[i] = s.trades[i]
  <2> DEFINE n == Len(s.trades) + 1
  <2>1. c.quantity \in Nat /\ c.stop \in Nat
    BY <1>4, DecisionPrepared DEF SoundCycle
  <2>2. LedgerSound(x)
    BY <1>4, SameTrades DEF Dealing
  <2>3. LedgerSound(e)
    <3> HIDE DEF d, given
    <3> QED
      BY <1>4, <2>1, <2>2, EnteredFits DEF SoundCycle, given
  <2>4. Dealt(z, period)
    <3> DEFINE price == BuyPrice(PaperQuote(snapshot, c.contract))
    <3>1. Buyable(PaperQuote(snapshot, c.contract))
      BY <1>4 DEF Accepts
    <3>2. /\ z.contract = c.contract /\ z.openedAt = t /\ z.entry = price
          /\ z.costs = 0 /\ IsOpen(z) /\ {"openedAt", "closedAt", "costs"} \subseteq DOMAIN z
      <4> DEFINE k == c.contract
      <4>1. z = [contract |-> k, quantity |-> c.quantity, stop |-> c.stop,
                 entry |-> price, openedAt |-> t, state |-> "OPEN", mark |-> 0,
                 markedAt |-> 0, closedAt |-> -1, closedOn |-> -1, costs |-> 0]
        BY DEF TradeOf, SoundCycle
      <4> HIDE DEF z, price
      <4> QED
        BY <4>1 DEF IsOpen
    <3>3. BoughtAt(c.contract, t, price, period)
      BY <1>4, <3>1 DEF BoughtAt, SoundCycle
    <3> HIDE DEF z, price
    <3> QED
      BY <3>2, <3>3 DEF Dealt
  <2>5. /\ Len(e.trades) = n /\ e.trades[n] = z /\ IsSequence(e.trades)
        /\ \A i \in 1..Len(s.trades) : e.trades[i] = s.trades[i]
    <3> HIDE DEF z
    <3> QED
      BY <1>1, <1>4, AppendFacts
  <2>6. DOMAIN e.trades = 1..n
    BY <2>5, SequenceDomain
  <2> HIDE DEF z
  <2>7. AllDealt(e, period)
    <3> SUFFICES ASSUME NEW i \in 1..n PROVE Dealt(e.trades[i], period)
      BY <2>6 DEF AllDealt
    <3>1. CASE i = n
      BY <2>4, <2>5, <3>1
    <3>2. CASE i \in DOMAIN s.trades
      BY <1>1, <2>5, <3>2 DEF Dealing, AllDealt
    <3> QED
      BY <1>1, <3>1, <3>2
  <2> QED
    BY <1>1, <1>2, <2>3, <2>5, <2>6, <2>7 DEF Dealing
<1>5. /\ Dealing(e, period)
      /\ Len(e.trades) >= Len(s.trades)
      /\ \A i \in DOMAIN s.trades : i \in DOMAIN e.trades /\ e.trades[i] = s.trades[i]
  BY <1>1, <1>2, <1>3, <1>4
<1> QED
  BY <1>5 DEF e

-----------------------------------------------------------------------------
(* Orders                                                                  *)

\* Every number of a finite set has its place in the order.
LEMMA InOrderOf ==
  ASSUME NEW S \in SUBSET Int, IsFiniteSet(S), NEW n \in 1..Cardinality(S)
  PROVE  InOrder(S)[n] \in S
<1> DEFINE N == Cardinality(S)
           below(a) == {b \in S : b < a}
           rank == [a \in S |-> Cardinality(below(a))]
           T == {rank[a] : a \in S}
<1>1. N \in Nat
  BY FS_CardinalityType
<1>2. ASSUME NEW a \in S
      PROVE  /\ IsFiniteSet(below(a)) /\ rank[a] \in Nat /\ rank[a] < N
  <2>1. below(a) \in SUBSET S /\ a \notin below(a)
    OBVIOUS
  <2>2. IsFiniteSet(below(a)) /\ Cardinality(below(a)) <= N
        /\ (Cardinality(below(a)) = N => below(a) = S)
    BY <2>1, FS_Subset
  <2>3. Cardinality(below(a)) \in Nat
    BY <2>2, FS_CardinalityType
  <2>4. Cardinality(below(a)) # N
    BY <2>1, <2>2
  <2> HIDE DEF below, N
  <2> QED
    BY <1>1, <2>2, <2>3, <2>4
<1>3. ASSUME NEW a \in S, NEW b \in S, a < b
      PROVE  rank[a] # rank[b]
  <2>1. below(a) \in SUBSET below(b) /\ a \in below(b) /\ a \notin below(a)
    <3>1. a \in Int /\ b \in Int /\ \A c \in S : c \in Int /\ (c < a => c < b)
      BY <1>3
    <3>2. below(a) \subseteq below(b)
      BY <3>1
    <3>3. a \in below(b) /\ a \notin below(a)
      BY <1>3, <3>1
    <3> QED
      BY <3>2, <3>3
  <2>2. Cardinality(below(b)) = Cardinality(below(a)) => below(b) = below(a)
    BY <1>2, <2>1, FS_Subset
  <2> QED
    BY <2>1, <2>2
<1>4. \A a, b \in S : rank[a] = rank[b] => a = b
  <2> HIDE DEF rank
  <2> TAKE a \in S, b \in S
  <2>1. a \in Int /\ b \in Int
    OBVIOUS
  <2>2. a < b => rank[a] # rank[b]
    BY <1>3
  <2>3. b < a => rank[b] # rank[a]
    BY <1>3
  <2> QED
    BY <2>1, <2>2, <2>3
<1>5. T \in SUBSET (0..(N - 1))
  <2>1. \A a \in S : rank[a] \in 0..(N - 1)
    <3> TAKE a \in S
    <3>1. rank[a] \in Nat /\ rank[a] < N
      BY <1>2
    <3> HIDE DEF rank, N
    <3> QED
      BY <1>1, <3>1
  <2> HIDE DEF rank, N
  <2> QED
    BY <2>1
<1>6. IsFiniteSet(0..(N - 1)) /\ Cardinality(0..(N - 1)) = N
  <2> HIDE DEF N
  <2> QED
    BY <1>1, FS_Interval
<1>7. Cardinality(T) = N
  <2>1. rank \in Surjection(S, T)
    BY DEF Surjection
  <2>2. rank \in Injection(S, T)
    BY <1>4 DEF Injection, IsInjective
  <2> HIDE DEF rank, T
  <2> QED
    BY <2>1, <2>2, FS_Surjection
<1>8. T = 0..(N - 1)
  <2> HIDE DEF T, N
  <2> QED
    BY <1>5, <1>6, <1>7, FS_Subset
<1>9. n - 1 \in T
  <2> HIDE DEF T
  <2> QED
    BY <1>1, <1>8
<1>10. \E a \in S : Cardinality(below(a)) = n - 1
  BY <1>9
<1> QED
  BY <1>10 DEF InOrder

LEMMA InOrderSeq ==
  ASSUME NEW S \in SUBSET Int, IsFiniteSet(S)
  PROVE  InOrder(S) \in Seq(Int)
<1> DEFINE N == Cardinality(S)
           at(n) == CHOOSE a \in S : Cardinality({b \in S : b < a}) = n - 1
<1>1. N \in Nat
  BY FS_CardinalityType
<1>2. \A n \in 1..N : InOrder(S)[n] \in Int /\ InOrder(S)[n] = at(n)
  BY InOrderOf DEF InOrder
<1>3. InOrder(S) = [n \in 1..N |-> at(n)]
  BY DEF InOrder
<1> HIDE DEF at, N
<1>4. InOrder(S) \in [1..N -> Int]
  BY <1>2, <1>3
<1> QED
  BY <1>1, <1>4

\* The step that is next is one of those that are left.
LEMMA NextIsLeft ==
  ASSUME NEW S, S # {}, \A s \in S : s[1] \in Nat /\ s[2] \in Nat
  PROVE  NextOf(S) \in S
<1>1. PICK n \in {s[1] : s \in S} : \A m \in {s[1] : s \in S} : n <= m
  BY LeastNatural
<1>2. PICK k \in {s[2] : s \in {r \in S : r[1] = n}} :
        \A m \in {s[2] : s \in {r \in S : r[1] = n}} : k <= m
  BY LeastNatural
<1>3. PICK s \in S : s[1] = n /\ s[2] = k
  BY <1>2
<1>4. \A r \in S : s[1] < r[1] \/ (s[1] = r[1] /\ s[2] <= r[2])
  <2> TAKE r \in S
  <2>1. n <= r[1] /\ n \in Nat /\ r[1] \in Nat
    BY <1>1
  <2>2. r[1] = n => k <= r[2]
    BY <1>2
  <2> QED
    BY <1>3, <2>1, <2>2
<1> QED
  BY <1>3, <1>4 DEF NextOf

-----------------------------------------------------------------------------
(* The plan of an evaluation                                               *)

\* The train and validate spans of a window have ended when its test begins.
LEMMA TestsFollow ==
  ASSUME NEW days \in Seq(Int), NEW sizes,
         {sizes.train, sizes.validate, sizes.test, sizes.step, sizes.embargo} \subseteq Int,
         SoundSplit(days, sizes)
  PROVE  LET W == Windows(days, sizes)
         IN /\ Len(W) \in Nat /\ DOMAIN W = 1..Len(W)
            /\ \A k \in 1..Len(W) :
                 /\ {W[k].train[2], W[k].validate[2], W[k].test[1]} \subseteq Int
                 /\ W[k].train[2] < W[k].test[1]
                 /\ W[k].validate[2] < W[k].test[1]
<1> DEFINE W == Windows(days, sizes)
           L == Len(days)
           B == Block(sizes)
           tr == sizes.train
           va == sizes.validate
           te == sizes.test
           st == sizes.step
           em == sizes.embargo
           room == L - B
           n == IF L < B THEN 0 ELSE room \div st + 1
<1>1. /\ tr \in Nat \ {0} /\ va \in Nat \ {0} /\ te \in Nat \ {0} /\ st \in Nat \ {0}
      /\ em \in Nat /\ Chronological(days)
  BY DEF SoundSplit
<1>2. L \in Nat /\ DOMAIN days = 1..L /\ B = tr + em + va + em + te
  BY DEF Block
<1>3. W = [k \in 1..n |-> WindowFrom(days, 1 + (k - 1) * st, sizes)]
  BY DEF Windows
<1>4. \A k, i : k \in 1..n /\ i = 1 + (k - 1) * st =>
        /\ W[k].train[2] = days[i + tr - 1]
        /\ W[k].validate[2] = days[i + tr + em + va - 1]
        /\ W[k].test[1] = days[i + tr + em + va + em]
  <2> HIDE DEF W, n
  <2> SUFFICES ASSUME NEW k \in 1..n, NEW i, i = 1 + (k - 1) * st
               PROVE  /\ W[k].train[2] = days[i + tr - 1]
                      /\ W[k].validate[2] = days[i + tr + em + va - 1]
                      /\ W[k].test[1] = days[i + tr + em + va + em]
    OBVIOUS
  <2>1. W[k] = WindowFrom(days, i, sizes)
    BY <1>3
  <2> QED
    BY <2>1 DEF WindowFrom
<1> HIDE DEF W, B, L, tr, va, te, st, em
<1>5. room \in Int
  BY <1>1, <1>2
<1>6. n \in Nat /\ (n > 0 => (n - 1) * st <= room)
  <2>1. CASE L < B
    BY <2>1
  <2>2. CASE ~ (L < B)
    <3>1. room >= 0
      BY <1>1, <1>2, <2>2
    <3> DEFINE q == room \div st
    <3>2. n = q + 1
      BY <2>2
    <3> HIDE DEF room
    <3>3. q \in Int /\ st * q <= room /\ room < st * q + st
      BY <1>1, <1>5, Quotient
    <3> HIDE DEF q
    <3>4. q >= 0
      <4>1. 0 < st * (q + 1)
        BY <1>1, <1>5, <3>1, <3>3
      <4>2. \A x \in Int : 0 < st * x => 0 < x
        BY <1>1
      <4> QED
        BY <3>3, <4>1, <4>2
    <3> HIDE DEF n
    <3>5. n - 1 = q /\ q * st = st * q
      BY <1>1, <3>2, <3>3
    <3> QED
      BY <3>2, <3>3, <3>4, <3>5
  <2> QED
    BY <2>1, <2>2
<1> HIDE DEF n
<1>7. Len(W) = n /\ DOMAIN W = 1..n
  BY <1>3, <1>6
<1>8. ASSUME NEW k \in 1..n
      PROVE  /\ {W[k].train[2], W[k].validate[2], W[k].test[1]} \subseteq Int
             /\ W[k].train[2] < W[k].test[1]
             /\ W[k].validate[2] < W[k].test[1]
  <2> DEFINE i == 1 + (k - 1) * st
             a == i + tr - 1
             b == i + tr + em + va - 1
             c == i + tr + em + va + em
  <2>1. i \in Nat /\ i >= 1 /\ i <= 1 + room
    <3>1. k - 1 \in Nat /\ k - 1 <= n - 1 /\ n > 0 /\ n - 1 \in Nat
      BY <1>6
    <3>2. \A x, y \in Nat : x <= y => x * st \in Nat /\ x * st <= y * st /\ y * st \in Nat
      BY <1>1
    <3> DEFINE x == (k - 1) * st
               y == (n - 1) * st
    <3>3. x \in Nat /\ x <= y /\ y \in Nat
      BY <3>1, <3>2
    <3>4. y <= room
      BY <1>6, <3>1
    <3> HIDE DEF x, y, room
    <3> QED
      BY <1>5, <3>3, <3>4 DEF x
  <2>2. /\ W[k].train[2] = days[a] /\ W[k].validate[2] = days[b] /\ W[k].test[1] = days[c]
    BY <1>4
  <2> HIDE DEF i
  <2>3. a \in 1..L /\ b \in 1..L /\ c \in 1..L /\ a < c /\ b < c
    BY <1>1, <1>2, <2>1
  <2> HIDE DEF a, b, c
  <2>4. days[a] \in Int /\ days[b] \in Int /\ days[c] \in Int
    BY <1>2, <2>3
  <2>5. days[a] < days[c] /\ days[b] < days[c]
    BY <1>1, <1>2, <2>3 DEF Chronological
  <2> QED
    BY <2>2, <2>4, <2>5
<1> QED
  BY <1>6, <1>7, <1>8 DEF W

\* A test begins when the other spans of its window have ended.
TestsLast(plan) ==
  \A k, j \in DOMAIN plan :
    plan[k].role = "test" /\ plan[j].window = plan[k].window /\ j # k =>
      /\ plan[j].to \in Int /\ plan[k].from \in Int
      /\ plan[j].to < plan[k].from

SoundPlan(plan) ==
  /\ IsSequence(plan)
  /\ \A k \in DOMAIN plan : plan[k].stress \in {1, 2}
  /\ TestsLast(plan)

LEMMA ThreePerWindow ==
  ASSUME NEW count \in Nat, NEW n \in 1..(3 * count)
  PROVE  /\ (n + 2) \div 3 \in 1..count
         /\ ((n - 1) % 3) + 1 \in 1..3
         /\ n = 3 * ((n + 2) \div 3 - 1) + (((n - 1) % 3) + 1)
<1>1. (n + 2) \div 3 \in 1..count
  OBVIOUS
<1>2. ((n - 1) % 3) + 1 \in 1..3
  OBVIOUS
<1>3. n = 3 * ((n + 2) \div 3 - 1) + (((n - 1) % 3) + 1)
  OBVIOUS
<1> QED
  BY <1>1, <1>2, <1>3

LEMMA SpansSound ==
  ASSUME NEW W, Len(W) \in Nat, DOMAIN W = 1..Len(W),
         \A k \in 1..Len(W) :
           /\ {W[k].train[2], W[k].validate[2], W[k].test[1]} \subseteq Int
           /\ W[k].train[2] < W[k].test[1]
           /\ W[k].validate[2] < W[k].test[1],
         NEW stressed
  PROVE  SoundPlan(SpansOf(W, stressed))
<1> DEFINE plan == SpansOf(W, stressed)
           count == 3 * Len(W)
           last == IF stressed THEN count + 1 ELSE count
           all == <<W[1].test[1], W[Len(W)].test[2]>>
           stress == Period("stress", 0, all, 2)
           window(n) == (n + 2) \div 3
           part(n) == ((n - 1) % 3) + 1
           piece(n) == Period(Roles[part(n)], window(n), W[window(n)][Roles[part(n)]], 1)
<1>1. plan = [n \in 1..last |-> IF n > count THEN stress ELSE piece(n)]
  BY DEF SpansOf
<1>2. count \in Nat /\ last \in Nat /\ count <= last
  OBVIOUS
<1>3. ASSUME NEW n \in 1..last
      PROVE  \/ plan[n] = stress
             \/ n <= count /\ plan[n] = piece(n)
  <2> HIDE DEF stress, piece, count, last, plan
  <2> QED
    BY <1>1, <1>2
<1>4. stress.role = "stress" /\ stress.window = 0 /\ stress.stress = 2
  BY DEF Period
<1>5. ASSUME NEW n \in 1..count
      PROVE  /\ window(n) \in 1..Len(W) /\ part(n) \in 1..3
             /\ n = 3 * (window(n) - 1) + part(n)
             /\ piece(n).role = Roles[part(n)] /\ piece(n).window = window(n)
             /\ piece(n).stress = 1
             /\ piece(n).from = W[window(n)][Roles[part(n)]][1]
             /\ piece(n).to = W[window(n)][Roles[part(n)]][2]
  <2>1. /\ window(n) \in 1..Len(W) /\ part(n) \in 1..3
        /\ n = 3 * (window(n) - 1) + part(n)
    BY ThreePerWindow
  <2>2. /\ piece(n).role = Roles[part(n)] /\ piece(n).window = window(n)
        /\ piece(n).stress = 1
        /\ piece(n).from = W[window(n)][Roles[part(n)]][1]
        /\ piece(n).to = W[window(n)][Roles[part(n)]][2]
    <3> HIDE DEF window, part
    <3> QED
      BY DEF Period
  <2> QED
    BY <2>1, <2>2
<1>6. DOMAIN plan = 1..last
  <2> HIDE DEF stress, piece, count, last, plan
  <2> QED
    BY <1>1
<1>7. IsSequence(plan)
  <2> DEFINE S == {plan[n] : n \in 1..last}
  <2>1. plan = [n \in 1..last |-> plan[n]]
    <3> DEFINE e(n) == IF n > count THEN stress ELSE piece(n)
    <3>1. plan = [n \in 1..last |-> e(n)]
      BY <1>1
    <3> HIDE DEF e, plan, last
    <3> QED
      BY <3>1
  <2> HIDE DEF plan, last
  <2>2. plan \in [1..last -> S]
    BY <2>1
  <2>3. plan \in Seq(S)
    BY <1>2, <2>2
  <2> QED
    BY <2>3 DEF IsSequence
<1> HIDE DEF plan, stress, piece, window, part, last, count
<1>8. \A k \in DOMAIN plan : plan[k].stress \in {1, 2}
  BY <1>2, <1>3, <1>4, <1>5, <1>6
<1>9. Roles[1] = "train" /\ Roles[2] = "validate" /\ Roles[3] = "test"
  BY DEF Roles
<1>10. TestsLast(plan)
  <2> SUFFICES ASSUME NEW k \in 1..last, NEW j \in 1..last,
                      plan[k].role = "test", plan[j].window = plan[k].window, j # k
               PROVE  /\ plan[j].to \in Int /\ plan[k].from \in Int
                      /\ plan[j].to < plan[k].from
    BY <1>6 DEF TestsLast
  <2>1. k \in 1..count /\ plan[k] = piece(k)
    <3>1. plan[k] # stress
      BY <1>4
    <3> QED
      BY <1>2, <1>3, <3>1
  <2>2. /\ window(k) \in 1..Len(W) /\ part(k) \in 1..3
        /\ k = 3 * (window(k) - 1) + part(k)
        /\ plan[k].role = Roles[part(k)] /\ plan[k].window = window(k)
        /\ plan[k].from = W[window(k)][Roles[part(k)]][1]
    BY <1>5, <2>1
  <2>3. part(k) = 3
    BY <1>9, <2>2
  <2>4. j \in 1..count /\ plan[j] = piece(j)
    <3>1. plan[j] # stress
      BY <1>4, <2>2
    <3> QED
      BY <1>2, <1>3, <3>1
  <2>5. /\ window(j) \in 1..Len(W) /\ part(j) \in 1..3
        /\ j = 3 * (window(j) - 1) + part(j)
        /\ plan[j].window = window(j)
        /\ plan[j].to = W[window(j)][Roles[part(j)]][2]
    BY <1>5, <2>4
  <2>6. window(j) = window(k) /\ part(j) \in 1..2
    BY <2>2, <2>3, <2>5
  <2> DEFINE w == window(k)
  <2>7. plan[k].from = W[w].test[1] /\ plan[j].to \in {W[w].train[2], W[w].validate[2]}
    BY <1>9, <2>2, <2>3, <2>5, <2>6
  <2>8. w \in 1..Len(W)
    BY <2>2
  <2> HIDE DEF w
  <2> QED
    BY <2>7, <2>8
<1> QED
  BY <1>7, <1>8, <1>10 DEF SoundPlan, plan

LEMMA BacktestPlan ==
  ASSUME NEW r
  PROVE  /\ SoundPlan(BacktestSpans(r)) /\ BacktestSpans(r) # <<>>
         /\ \A k \in DOMAIN BacktestSpans(r) : /\ BacktestSpans(r)[k].from = r.from
                                               /\ BacktestSpans(r)[k].to = r.to
<1> DEFINE days == <<r.from, r.to>>
           a == Period("backtest", 0, days, 1)
           b == Period("stress", 0, days, 2)
           plan == BacktestSpans(r)
<1>1. plan = <<a>> \/ plan = <<a, b>>
  BY DEF BacktestSpans
<1>2. /\ a.role = "backtest" /\ b.role = "stress" /\ a.stress = 1 /\ b.stress = 2
      /\ a.from = r.from /\ b.from = r.from /\ a.to = r.to /\ b.to = r.to
  BY DEF Period
<1> HIDE DEF a, b, plan
<1>3. DOMAIN plan \subseteq {1, 2} /\ \A k \in DOMAIN plan : plan[k] \in {a, b}
  BY <1>1
<1>4. IsSequence(plan) /\ plan # <<>>
  <2> DEFINE S == {a, b}
  <2>1. a \in S /\ b \in S
    OBVIOUS
  <2> HIDE DEF S
  <2>2. <<a>> \in Seq(S) /\ <<a, b>> \in Seq(S)
    BY <2>1
  <2>3. plan \in Seq(S)
    <3>1. CASE plan = <<a>>
      BY <2>2, <3>1
    <3>2. CASE plan = <<a, b>>
      BY <2>2, <3>2
    <3> QED
      BY <1>1, <3>1, <3>2
  <2>4. plan # <<>>
    BY <1>1
  <2> QED
    BY <2>3, <2>4 DEF IsSequence
<1>5. SoundPlan(plan)
  BY <1>2, <1>3, <1>4 DEF SoundPlan, TestsLast
<1>6. \A k \in DOMAIN plan : plan[k].from = r.from /\ plan[k].to = r.to
  BY <1>2, <1>3
<1> QED
  BY <1>4, <1>5, <1>6 DEF plan

-----------------------------------------------------------------------------
(* The spans of a replay                                                   *)

SpanFields == {"period", "left", "engine", "trades", "decisions", "fills", "flags",
               "cycles", "equity", "peak", "drawdown"}

\* A span reports the trades its engine has closed, and no others.
ReplaySound(s) ==
  /\ SpanFields \subseteq DOMAIN s
  /\ s.period.stress \in {1, 2}
  /\ s.left \subseteq StepsOf(s.period)
  /\ Dealing(s.engine, s.period)
  /\ DOMAIN s.trades = ClosedTrades(s.engine)
  /\ \A i \in DOMAIN s.trades :
       s.trades[i] = Reported(s.engine.trades[i], s.period.stress)
  /\ s.equity = EngineEquity(s.engine)
  /\ request.kind = "campaign" => s.flags \subseteq {"NOT_AVAILABLE"}

LEMMA EquityTaken ==
  ASSUME NEW s, NEW value, SpanFields \subseteq DOMAIN s
  PROVE  LET x == WithEquity(s, value)
         IN /\ DOMAIN x = DOMAIN s /\ x.equity = value
            /\ x.period = s.period /\ x.left = s.left /\ x.engine = s.engine
            /\ x.trades = s.trades /\ x.flags = s.flags /\ x.fills = s.fills
<1> DEFINE peak == IF value > s.peak THEN value ELSE s.peak
           drop == value - peak
           low == IF drop < s.drawdown THEN drop ELSE s.drawdown
           x == WithEquity(s, value)
<1>1. x = [s EXCEPT !.equity = value, !.peak = peak, !.drawdown = low]
  BY DEF WithEquity, SpanFields
<1> HIDE DEF x, peak, low
<1> QED
  BY <1>1 DEF SpanFields, x

LEMMA NothingHeld ==
  ASSUME NEW s, s.trades = <<>>
  PROVE  NetPnl(s) = 0 /\ Unrealized(s) = 0
<1>1. DOMAIN s.trades = {}
  OBVIOUS
<1> DEFINE n == [i \in DOMAIN s.trades |-> NetOf(s.trades[i])]
           u == [i \in DOMAIN s.trades |-> UnrealizedOf(s.trades[i])]
<1>2. NetPnl(s) = SumFunction(n) /\ Unrealized(s) = SumFunction(u)
  BY DEF NetPnl, Unrealized
<1>3. DOMAIN n = {} /\ DOMAIN u = {}
  BY <1>1
<1> HIDE DEF n, u
<1> QED
  BY <1>2, <1>3, SumOfFunction, SumEmpty

LEMMA ReplayStarts ==
  ASSUME request.kind # "backtest", NEW period, period.stress \in {1, 2}
  PROVE  ReplaySound(NewSpan(period, EngineFor(period)))
<1> DEFINE engine == NewEngine(period.from)
           steps == StepsOf(period)
           none == [i \in {} |-> NoFill]
           n == Cardinality(steps)
           s == NewSpan(period, EngineFor(period))
<1>1. s = [period |-> period, left |-> steps, engine |-> engine, trades |-> none,
           decisions |-> 0, fills |-> 0, flags |-> {}, cycles |-> n,
           equity |-> CampaignCash, peak |-> CampaignCash, drawdown |-> 0]
  BY DEF NewSpan, EngineFor, StartingCash
<1>2. engine.trades = <<>> /\ "trades" \in DOMAIN engine
  BY DEF NewEngine
<1>3. DOMAIN none = {}
  OBVIOUS
<1> HIDE DEF engine, steps, none, n, s
<1>4. /\ SpanFields \subseteq DOMAIN s /\ s.period = period /\ s.left = steps
      /\ s.engine = engine /\ s.trades = none /\ s.flags = {} /\ s.equity = CampaignCash
  BY <1>1 DEF SpanFields
<1>5. Dealing(engine, period)
  BY <1>2, NewFits DEF Dealing, AllDealt
<1>6. ClosedTrades(engine) = {}
  BY <1>2 DEF ClosedTrades
<1>7. EngineEquity(engine) = CampaignCash
  BY <1>2, NothingHeld, CampaignBudget DEF EngineEquity
<1>8. ReplaySound(s)
  BY <1>3, <1>4, <1>5, <1>6, <1>7 DEF ReplaySound, steps
<1> QED
  BY <1>8 DEF s

\* What a cycle leaves of the trades, and of the reports.
LEMMA MonitoredDeals ==
  ASSUME NEW t, SoundCycle(t), NEW period, Within(t, period),
         NEW s, Dealing(s, period)
  PROVE  LET m == Monitor(EngineAfter(s, cycles[t]), cycles[t].snapshot)
         IN /\ Dealing(m, period)
            /\ \A i \in ClosedTrades(s) : /\ i \in ClosedTrades(m)
                                          /\ m.trades[i] = s.trades[i]
<1> DEFINE snapshot == cycles[t].snapshot
           e == EngineAfter(s, cycles[t])
           m == Monitor(e, snapshot)
<1>1. /\ Dealing(e, period)
      /\ \A i \in DOMAIN s.trades : i \in DOMAIN e.trades /\ e.trades[i] = s.trades[i]
  BY DecidedDeals
<1> HIDE DEF e
<1>2. /\ "trades" \in DOMAIN m
      /\ DOMAIN m.trades = DOMAIN e.trades
      /\ \A i \in DOMAIN e.trades :
           \/ m.trades[i] = e.trades[i]
           \/ m.trades[i] = Monitored(e.trades[i], snapshot)
  <2> HIDE DEF snapshot
  <2> QED
    BY <1>1, MonitorTakes DEF Dealing
<1>3. Dealing(m, period)
  <2>1. LedgerSound(m)
    BY <1>1, MonitorFits DEF Dealing, SoundCycle
  <2>2. AllDealt(m, period)
    BY <1>1, MonitorDeals DEF Dealing, SoundCycle
  <2> HIDE DEF m
  <2> QED
    BY <1>2, <2>1, <2>2 DEF Dealing
<1> HIDE DEF m
<1>4. ASSUME NEW i \in ClosedTrades(s)
      PROVE  i \in ClosedTrades(m) /\ m.trades[i] = s.trades[i]
  <2>1. i \in DOMAIN s.trades /\ ~ IsOpen(s.trades[i])
    BY DEF ClosedTrades, OpenTrades
  <2>2. i \in DOMAIN e.trades /\ e.trades[i] = s.trades[i] /\ TradeSound(e.trades[i])
    BY <1>1, <2>1 DEF Dealing, LedgerSound, TradesSound
  <2>3. Monitored(e.trades[i], snapshot) = e.trades[i]
    BY <2>1, <2>2, MonitoredFollows DEF SoundCycle, Follows
  <2>4. m.trades[i] = s.trades[i] /\ i \in DOMAIN m.trades
    BY <1>2, <2>2, <2>3
  <2> QED
    BY <2>1, <2>4 DEF ClosedTrades, OpenTrades
<1> QED
  BY <1>3, <1>4 DEF m, e

LEMMA ReplayContinues ==
  ASSUME request.kind # "backtest", NEW s, ReplaySound(s), NEW step \in s.left,
         SoundCycle(step[1]),
         request.kind = "campaign" => Leaks(cycles[step[1]].snapshot) = {}
  PROVE  LET given == cycles[step[1]]
             after == AfterCycle(s, given, step, FlagsAt(given.snapshot))
         IN ReplaySound(after) /\ after.period = s.period
<1> DEFINE t == step[1]
           given == cycles[t]
           flags == FlagsAt(given.snapshot)
           e == EngineAfter(s.engine, given)
           m == Monitor(e, given.snapshot)
           left == s.left \ {step}
           said == s.flags \cup flags
           made == s.decisions + 1
           got == IF Len(e.trades) > Len(s.engine.trades) THEN s.fills + 1 ELSE s.fills
           x == [s EXCEPT !.engine = m, !.left = left, !.flags = said,
                          !.decisions = made, !.fills = got]
           f == [i \in ClosedTrades(m) |->
                   IF i \in DOMAIN s.trades THEN s.trades[i]
                   ELSE Reported(m.trades[i], s.period.stress)]
           v == EngineEquity(m)
           y == WithReports(x)
           z == WithEquity(y, v)
<1>1. AfterCycle(s, given, step, flags) = z
  <2> DEFINE w == IF flags = {} THEN Traded(s.engine, given) ELSE s.engine
  <2>1. w = e
    BY DEF EngineAfter
  <2> HIDE DEF w, e
  <2>2. AfterCycle(s, given, step, flags) = Cycled(s, w, given.snapshot, step, flags)
    BY DEF AfterCycle, w
  <2>3. Cycled(s, e, given.snapshot, step, flags) = z
    BY DEF Cycled, ReplaySound, SpanFields
  <2> QED
    BY <2>1, <2>2, <2>3
<1>2. SpanFields \subseteq DOMAIN s
  BY DEF ReplaySound
<1>3. t \in DOMAIN cycles /\ Within(t, s.period)
  BY DEF ReplaySound, StepsOf, Within
<1>4. /\ Dealing(m, s.period)
      /\ \A i \in ClosedTrades(s.engine) : /\ i \in ClosedTrades(m)
                                           /\ m.trades[i] = s.engine.trades[i]
  <2> HIDE DEF t
  <2> QED
    BY <1>3, MonitoredDeals DEF ReplaySound, t
<1>5. request.kind = "campaign" => flags \subseteq {"NOT_AVAILABLE"}
  BY DEF FlagsAt
<1> HIDE DEF t, given, flags, e, m, left, said, made, got
<1>6. /\ DOMAIN x = DOMAIN s /\ x.period = s.period /\ x.left = left /\ x.engine = m
      /\ x.trades = s.trades /\ x.flags = said
  BY <1>2 DEF SpanFields
<1> HIDE DEF x
<1>7. y = [x EXCEPT !.trades = f]
  BY <1>6 DEF WithReports
<1> HIDE DEF f, y
<1>8. /\ DOMAIN y = DOMAIN s /\ y.period = s.period /\ y.left = left /\ y.engine = m
      /\ y.trades = f /\ y.flags = said
  BY <1>2, <1>6, <1>7 DEF SpanFields
<1> HIDE DEF v, z
<1>9. /\ SpanFields \subseteq DOMAIN z /\ z.period = s.period /\ z.left = left
      /\ z.engine = m /\ z.trades = f /\ z.flags = said /\ z.equity = v
  BY <1>2, <1>8, EquityTaken DEF z
<1>10. DOMAIN f = ClosedTrades(m)
  BY DEF f
<1>11. ASSUME NEW i \in ClosedTrades(m)
       PROVE  f[i] = Reported(m.trades[i], s.period.stress)
  <2>1. f[i] = IF i \in DOMAIN s.trades THEN s.trades[i]
               ELSE Reported(m.trades[i], s.period.stress)
    BY DEF f
  <2>2. CASE i \in DOMAIN s.trades
    <3>1. i \in ClosedTrades(s.engine)
          /\ s.trades[i] = Reported(s.engine.trades[i], s.period.stress)
      BY <2>2 DEF ReplaySound
    <3> QED
      BY <1>4, <2>1, <2>2, <3>1
  <2>3. CASE i \notin DOMAIN s.trades
    BY <2>1, <2>3
  <2> QED
    BY <2>2, <2>3
<1>12. left \subseteq StepsOf(s.period)
  BY DEF left, ReplaySound
<1>13. request.kind = "campaign" => said \subseteq {"NOT_AVAILABLE"}
  BY <1>5 DEF said, ReplaySound
<1>14. ReplaySound(z)
  <2>1. s.period.stress \in {1, 2}
    BY DEF ReplaySound
  <2> QED
    BY <1>4, <1>9, <1>10, <1>11, <1>12, <1>13, <2>1 DEF ReplaySound, v
<1> QED
  BY <1>1, <1>9, <1>14 DEF given, flags, t

\* What a span reports was bought and sold at the moments of its cycles.
LEMMA ReplayReports ==
  ASSUME NEW s, ReplaySound(s), NEW i \in DOMAIN s.trades
  PROVE  LET t == s.trades[i]
         IN /\ BoughtAt(t.contract, t.openedAt, t.entry, s.period)
            /\ SoldAt(t.contract, t.openedAt, t.closedAt, t.exit, s.period)
<1> DEFINE x == s.engine.trades[i]
           t == s.trades[i]
<1>1. i \in DOMAIN s.engine.trades /\ ~ IsOpen(x) /\ t = Reported(x, s.period.stress)
  BY DEF ReplaySound, ClosedTrades, OpenTrades
<1>2. Dealt(x, s.period)
  BY <1>1 DEF ReplaySound, Dealing, AllDealt
<1>3. /\ t.contract = x.contract /\ t.openedAt = x.openedAt /\ t.entry = x.entry
      /\ t.closedAt = x.closedAt /\ t.exit = x.mark
  <2> HIDE DEF x, t
  <2> QED
    BY <1>1 DEF Reported
<1> HIDE DEF x, t
<1>4. /\ BoughtAt(t.contract, t.openedAt, t.entry, s.period)
      /\ SoldAt(t.contract, t.openedAt, t.closedAt, t.exit, s.period)
  BY <1>1, <1>2, <1>3 DEF Dealt
<1> QED
  BY <1>4 DEF t

\* The equity of a span is what it started with, what its trades made and what it
\* still holds.
LEMMA ReplayBalances ==
  ASSUME request.kind # "backtest", NEW s, ReplaySound(s)
  PROVE  LET total == ResultOf(s)
         IN total.ending = StartingCash + total.gross + Unrealized(s.engine)
                             - (total.cost \div s.period.stress)
<1> DEFINE E == s.engine.trades
           I == DOMAIN E
           C == ClosedTrades(s.engine)
           k == s.period.stress
           g == [i \in I |-> GrossOf(E[i])]
           n == [i \in I |-> NetOf(E[i])]
           c == [i \in I |-> E[i].costs]
           gross == [i \in C |-> s.trades[i].gross]
           cost == [i \in C |-> s.trades[i].cost]
           total == ResultOf(s)
<1>1. /\ DOMAIN s.trades = C /\ k \in {1, 2} /\ s.equity = EngineEquity(s.engine)
      /\ Dealing(s.engine, s.period)
      /\ \A i \in C : s.trades[i] = Reported(E[i], k)
  BY DEF ReplaySound
<1>2. TradesSound(s.engine)
  BY <1>1 DEF Dealing, LedgerSound
<1>3. IsFiniteSet(I) /\ C \in SUBSET I
  BY <1>2, SequenceDomain DEF TradesSound, ClosedTrades
<1>4. \A i \in I : /\ GrossOf(E[i]) \in Int /\ E[i].costs \in Int
                   /\ i \notin C => GrossOf(E[i]) = 0 /\ E[i].costs = 0
  <2> TAKE i \in I
  <2>1. TradeSound(E[i]) /\ Dealt(E[i], s.period)
    BY <1>1, <1>2 DEF TradesSound, Dealing, AllDealt
  <2>2. GrossOf(E[i]) \in Int
    BY <2>1, TradeMoney
  <2>3. E[i].costs \in Int
    BY <2>1 DEF Dealt
  <2>4. i \notin C => IsOpen(E[i])
    BY DEF ClosedTrades, OpenTrades
  <2>5. IsOpen(E[i]) => GrossOf(E[i]) = 0 /\ E[i].costs = 0
    BY <2>1 DEF GrossOf, Dealt
  <2> QED
    BY <2>2, <2>3, <2>4, <2>5
<1>5. \A i \in C : s.trades[i].gross = GrossOf(E[i]) /\ s.trades[i].cost = E[i].costs * k
  <2> TAKE i \in C
  <2> DEFINE x == E[i]
  <2>1. s.trades[i] = Reported(x, k)
    BY <1>1
  <2> HIDE DEF x, k
  <2>2. s.trades[i].gross = GrossOf(x) /\ s.trades[i].cost = x.costs * k
    BY <2>1 DEF Reported
  <2> QED
    BY <2>2 DEF x
<1>6. /\ total.ending = s.equity
      /\ total.gross = SumFunction(gross) /\ total.cost = SumFunction(cost)
  <2> HIDE DEF C
  <2> QED
    BY <1>1 DEF ResultOf
<1>7. NetPnl(s.engine) = SumFunction(n)
  BY DEF NetPnl
<1>8. Unrealized(s.engine) \in Int
  BY <1>2, Accounts
<1> DEFINE G == SumOver(g, C)
           K == SumOver(c, C)
           N == SumOver(n, I)
<1>9. \A i \in I : g[i] = GrossOf(E[i]) /\ c[i] = E[i].costs /\ n[i] = NetOf(E[i])
  OBVIOUS
<1>10. \A i \in C : gross[i] = s.trades[i].gross /\ cost[i] = s.trades[i].cost
  OBVIOUS
<1>11. DOMAIN n = I /\ DOMAIN gross = C /\ DOMAIN cost = C
  OBVIOUS
<1> HIDE DEF E, I, C, k, g, n, c, gross, cost, total
<1>12. \A i \in I : /\ g[i] \in Int /\ c[i] \in Int /\ n[i] \in Int
                    /\ g[i] = n[i] + c[i]
                    /\ i \notin C => g[i] = 0 /\ c[i] = 0
  <2> TAKE i \in I
  <2>1. n[i] = g[i] - c[i]
    BY <1>9 DEF NetOf
  <2> QED
    BY <1>4, <1>9, <2>1
<1>13. IsFiniteSet(C) /\ IsFiniteSet(I \ C)
  BY <1>3, FS_Subset
<1>14. N \in Int /\ SumOver(g, I) = N + SumOver(c, I)
  <2>1. N \in Int
    BY <1>3, <1>12, SumType
  <2> QED
    BY <1>3, <1>12, <2>1, SumPlus
<1>15. /\ SumOver(g, I) = G + SumOver(g, I \ C)
       /\ SumOver(c, I) = K + SumOver(c, I \ C)
  <2>1. (\A i \in I : g[i] \in Int) /\ (\A i \in I : c[i] \in Int)
    BY <1>12
  <2> QED
    BY <1>3, <2>1, SumPart
<1>16. SumOver(g, I \ C) = 0 /\ SumOver(c, I \ C) = 0
  BY <1>12, <1>13, SumZero
<1>17. G \in Int /\ K \in Int
  <2>1. (\A i \in C : g[i] \in Int) /\ (\A i \in C : c[i] \in Int)
    BY <1>3, <1>12
  <2> QED
    BY <1>13, <2>1, SumType
<1>18. G = N + K
  <2> HIDE DEF G, K, N
  <2> QED
    BY <1>14, <1>15, <1>16, <1>17
<1>19. total.gross = G
  <2>1. \A i \in C : gross[i] = g[i]
    BY <1>3, <1>5, <1>9, <1>10
  <2>2. SumOver(gross, C) = G
    BY <1>13, <2>1, SumLocal
  <2> QED
    BY <1>6, <1>11, <2>2, SumOfFunction
<1>20. total.cost \div k = K
  <2>1. \A i \in C : cost[i] = c[i] * k /\ c[i] \in Int
    BY <1>3, <1>5, <1>9, <1>10, <1>12
  <2>2. total.cost = SumOver(cost, C)
    BY <1>6, <1>11, SumOfFunction
  <2>3. CASE k = 1
    <3>1. \A i \in C : cost[i] = c[i]
      BY <2>1, <2>3
    <3>2. SumOver(cost, C) = K
      BY <1>13, <3>1, SumLocal
    <3> HIDE DEF K
    <3> QED
      BY <1>17, <2>2, <2>3, <3>2
  <2>4. CASE k = 2
    <3>1. \A i \in C : c[i] \in Int /\ cost[i] = c[i] + c[i]
      BY <2>1, <2>4
    <3>2. SumOver(cost, C) = K + K
      BY <1>13, <3>1, SumPlus
    <3> HIDE DEF K
    <3> QED
      BY <1>17, <2>2, <2>4, <3>2
  <2> QED
    BY <1>1, <2>3, <2>4
<1>21. total.ending = CampaignCash + N + Unrealized(s.engine)
  <2>1. NetPnl(s.engine) = N
    BY <1>7, <1>11, SumOfFunction
  <2> QED
    BY <1>1, <1>6, <2>1 DEF EngineEquity
<1>22. total.ending = StartingCash + total.gross + Unrealized(s.engine) - (total.cost \div k)
  <2> HIDE DEF G, K, N
  <2>1. StartingCash = CampaignCash /\ CampaignCash \in Int
    BY CampaignBudget DEF StartingCash
  <2> QED
    BY <1>8, <1>14, <1>17, <1>18, <1>19, <1>20, <1>21, <2>1
<1> QED
  BY <1>22 DEF total, k

-----------------------------------------------------------------------------
(* The decisions of a backtest                                             *)

\* The last bar of an index and frame has a close.
LEMMA LastPriceInt ==
  ASSUME NEW store \in Stores, NEW index, NEW t
  PROVE  LastPrice(store, index, t) \in Int
<1>1. ASSUME NEW frame, BarsAt(store, index, frame, t) # {}
      PROVE  LastOf(BarsAt(store, index, frame, t)).close \in Int
  <2> DEFINE bars == BarsAt(store, index, frame, t)
             R == {e \in bars \X bars : e[2].start < e[1].start}
  <2>1. bars \in SUBSET store.bars
    BY DEF BarsAt
  <2>2. IsFiniteSet(bars) /\ \A b \in bars : b.start \in Int /\ b.close \in Int
    BY <2>1, StoresAreValid, FS_Subset DEF StoreNumbers
  <2>3. ASSUME NEW a \in bars, NEW b \in bars, a # b
        PROVE  a.start # b.start
    <3>1. a \in store.bars /\ b \in store.bars \ {a}
      BY <2>1, <2>3
    <3>2. <<b.index, b.frame, b.start>> # <<a.index, a.frame, a.start>>
      BY <3>1, StoresAreValid DEF ValidStore
    <3>3. a.index = b.index /\ a.frame = b.frame
      BY DEF BarsAt
    <3> QED
      BY <3>2, <3>3
  <2>4. \E b \in bars : \A a \in bars \ {b} : <<b, a>> \in R
    <3>1. ASSUME NEW a \in bars, NEW b \in bars, a # b
          PROVE  <<a, b>> \in R \/ <<b, a>> \in R
      <4>1. a.start # b.start
        BY <2>3, <3>1
      <4> HIDE DEF bars
      <4> QED
        BY <2>2, <4>1
    <3>2. ASSUME NEW a \in bars, NEW b \in bars, NEW c \in bars,
                 <<a, b>> \in R, <<b, c>> \in R
          PROVE  <<a, c>> \in R
      <4> HIDE DEF bars
      <4> QED
        BY <2>2, <3>2
    <3>3. bars # {}
      BY <1>1
    <3>4. IsFiniteSet(bars)
      BY <2>2
    <3> HIDE DEF bars, R
    <3> QED
      BY <3>1, <3>2, <3>3, <3>4, FirstInOrder
  <2>5. \E b \in bars : \A a \in bars : a.start <= b.start
    <3>1. PICK b \in bars : \A a \in bars \ {b} : <<b, a>> \in R
      BY <2>4
    <3>2. \A a \in bars \ {b} : a.start < b.start
      BY <3>1
    <3> HIDE DEF bars, R
    <3>3. \A a \in bars : a.start <= b.start
      BY <2>2, <3>2
    <3> QED
      BY <3>3
  <2> HIDE DEF bars
  <2>6. LastOf(bars) \in bars
    BY <2>5 DEF LastOf
  <2> QED
    BY <2>2, <2>6 DEF bars
<1> DEFINE quarters == BarsAt(store, index, "M15", t)
           daily == BarsAt(store, index, "D1", t)
<1>2. LastPrice(store, index, t) \in {LastOf(quarters).close, LastOf(daily).close, 0}
  <2>1. CASE quarters # {}
    BY <2>1 DEF LastPrice
  <2>2. CASE quarters = {} /\ daily # {}
    BY <2>2 DEF LastPrice
  <2>3. CASE quarters = {} /\ daily = {}
    BY <2>3 DEF LastPrice
  <2> QED
    BY <2>1, <2>2, <2>3
<1>3. CASE quarters # {}
  <2>1. LastPrice(store, index, t) = LastOf(quarters).close
    BY <1>3 DEF LastPrice
  <2> QED
    BY <1>1, <1>3, <2>1
<1>4. CASE quarters = {} /\ daily # {}
  <2>1. LastPrice(store, index, t) = LastOf(daily).close
    BY <1>4 DEF LastPrice
  <2> QED
    BY <1>1, <1>4, <2>1
<1>5. CASE quarters = {} /\ daily = {}
  <2>1. LastPrice(store, index, t) = 0
    BY <1>5 DEF LastPrice
  <2> QED
    BY <2>1
<1> QED
  BY <1>3, <1>4, <1>5

\* What the options engine chooses of a dataset was listed and quoted.
LEMMA ChosenQuoted ==
  ASSUME NEW store \in Stores, NEW index, NEW t \in Int, NEW direction,
         BestContract(HistoricalChain(store, index, t), index, direction) # NoContract
  PROVE  BestContract(HistoricalChain(store, index, t), index, direction)
           \in DOMAIN QuotesAt(store, index, t)
<1> DEFINE chain == HistoricalChain(store, index, t)
           c == BestContract(chain, index, direction)
           quotes == QuotesAt(store, index, t)
           listed == ListedAt(store, index, t)
           known == ChainAt(store, index, t)
           told == [k \in listed |-> IF k \in known
                                       THEN [at |-> quotes[k].at, value |-> quotes[k]]
                                       ELSE NothingTold]
<1>1. /\ chain.today = DateAt(t) /\ chain.spot = LastPrice(store, index, t)
      /\ chain.contracts = listed /\ chain.quotes = told
  <2> DEFINE today == DateAt(t)
             spot == LastPrice(store, index, t)
  <2>1. chain = [today |-> today, at |-> t, spot |-> spot, contracts |-> listed,
                 quotes |-> told]
    BY DEF HistoricalChain
  <2> HIDE DEF today, spot, listed, told, chain
  <2> QED
    BY <2>1 DEF today, spot
<1>2. known \subseteq DOMAIN quotes /\ known \subseteq listed
  <2>1. known \subseteq DOMAIN quotes
    BY DEF ChainAt
  <2>2. \A k \in DOMAIN quotes : k \in listed
    BY DEF QuotesAt
  <2> HIDE DEF known, quotes, listed
  <2> QED
    BY <2>1, <2>2
<1>3. \A k \in known : InNumbers(quotes[k])
  <2> TAKE k \in known
  <2>1. quotes[k] \in store.quotes
    BY <1>2, QuoteTaken
  <2> HIDE DEF quotes
  <2> QED
    BY <2>1, StoresAreValid DEF StoreNumbers, InNumbers
<1>4. listed \subseteq {k \in Listed : UnderlyingOf[k] = index}
  BY StoresAreValid DEF ListedAt, StoreNumbers
<1>5. DateAt(t) \in Int /\ LastPrice(store, index, t) \in Int
  BY LastPriceInt, DatesInOrder
<1> HIDE DEF chain, quotes, listed, known
<1>6. \A k \in listed : told[k] # NothingTold => k \in known /\ InNumbers(told[k].value)
  BY <1>3
<1> HIDE DEF told
<1>7. SoundChain(chain, index)
  BY <1>1, <1>4, <1>5, <1>6 DEF SoundChain
<1>8. c \in Kept(chain)
  <2>1. BestContract(chain, index, direction) # NoContract
    BY DEF chain
  <2> QED
    BY <1>7, <2>1, BestSound
<1>9. c \in listed /\ told[c] # NothingTold
  <2> HIDE DEF c
  <2> QED
    BY <1>1, <1>8 DEF Kept, Valid
<1>10. c \in DOMAIN quotes
  BY <1>2, <1>6, <1>9
<1> QED
  BY <1>10 DEF c, chain, quotes

LEMMA FillsNat ==
  ASSUME NEW q, {q.bid, q.ask} \subseteq Nat
  PROVE  EntryFill(q) \in Nat /\ ExitFill(q) \in Nat
<1>1. Slip(q.ask) \in Nat /\ Slip(q.bid) \in Nat
  BY SlipNat
<1> QED
  BY <1>1 DEF EntryFill, ExitFill

\* When a trade is left: at the end of a bar of the day, or at its square-off.
LEMMA ExitInTime ==
  ASSUME NEW store \in Stores, NEW index, NEW day \in Nat, NEW signal
  PROVE  LET t == MomentOf(day, DecisionOffset)
             at == PathExit(PathBars(store, index, t), signal, t).at
         IN /\ at \in Int /\ t <= at /\ at <= MomentOf(day, SquareOffOffset)
            /\ t = at => \E b \in store.bars : b.start = t /\ b.end = t
<1> DEFINE t == MomentOf(day, DecisionOffset)
           end == MomentOf(day, SquareOffOffset)
           bars == PathBars(store, index, t)
           hits == {b \in bars : /\ b.start >= t
                                 /\ StopHit(b, signal) \/ TargetHit(b, signal)}
           first == CHOOSE b \in hits : \A a \in hits : b.start <= a.start
           exit == PathExit(bars, signal, t)
<1>1. t \in Nat /\ end \in Nat /\ t < end /\ DateAt(t) = day
  <2>1. /\ DecisionOffset \in Nat /\ SquareOffOffset \in Nat
        /\ DecisionOffset < SquareOffOffset /\ DecisionOffset < DayLength
    BY StoresAreValid, BacktestParameters
  <2>2. day * DayLength \in Nat
    BY DayLengthNat
  <2>3. DateAt(t) = day
    BY <2>1, DateOfMoment
  <2> QED
    BY <2>1, <2>2, <2>3 DEF MomentOf
<1>2. bars = BarsAt(store, index, "M15", end)
  BY <1>1 DEF PathBars
<1>3. \A b \in bars : /\ b \in store.bars /\ b.start \in Int /\ b.end \in Int
                      /\ b.start <= b.end /\ b.end <= end
  <2> TAKE b \in bars
  <2>1. b \in store.bars /\ b.end <= end
    BY <1>2 DEF BarsAt
  <2>2. ValidBar(b) /\ {b.start, b.end} \subseteq Int
    BY <2>1, StoresAreValid DEF ValidStore, StoreNumbers
  <2> QED
    BY <2>1, <2>2 DEF ValidBar
<1> DEFINE reason == IF ~ StopHit(first, signal) THEN "TARGET"
                      ELSE IF TargetHit(first, signal) THEN "STOP_FIRST_AMBIGUOUS"
                      ELSE "STOP"
<1>4. exit = IF hits = {} THEN [at |-> end, reason |-> "SQUARE_OFF"]
             ELSE [at |-> first.end, reason |-> reason]
  BY <1>1 DEF PathExit
<1>5. /\ exit.at \in Int /\ t <= exit.at /\ exit.at <= end
      /\ t = exit.at => \E b \in store.bars : b.start = t /\ b.end = t
  <2> HIDE DEF t, end, bars, first, exit, reason
  <2>1. CASE hits = {}
    <3>1. exit.at = end
      BY <1>4, <2>1
    <3> QED
      BY <1>1, <3>1
  <2>2. CASE hits # {}
    <3>1. exit.at = first.end
      BY <1>4, <2>2
    <3>2. \A b \in hits : b \in bars /\ b.start >= t /\ b.start \in Nat
      BY <1>1, <1>3
    <3>3. first \in hits
      <4> HIDE DEF hits
      <4>1. PICK n \in {b.start : b \in hits} : \A m \in {b.start : b \in hits} : n <= m
        BY <2>2, <3>2, LeastNatural
      <4>2. \E b \in hits : \A a \in hits : b.start <= a.start
        BY <4>1
      <4> QED
        BY <4>2 DEF first
    <3> HIDE DEF hits
    <3>4. /\ first \in store.bars /\ first.start \in Nat /\ first.end \in Int
          /\ t <= first.start /\ first.start <= first.end /\ first.end <= end
      BY <1>1, <1>3, <3>2, <3>3
    <3> QED
      BY <1>1, <3>1, <3>4
  <2> QED
    BY <2>1, <2>2
<1> HIDE DEF exit
<1> QED
  BY <1>5 DEF exit

-----------------------------------------------------------------------------
(* What a decision of a backtest fills                                     *)

TradeFields == {"contract", "openedAt", "closedAt", "entry", "exit", "gross", "cost",
                "net"}

\* Bought at the decision of a day and sold by its square-off, both at what was
\* last known.
DayTraded(x, store, day) ==
  LET t == MomentOf(day, DecisionOffset)
  IN /\ TradeFields \subseteq DOMAIN x
     /\ x.gross \in Int /\ x.cost \in Int
     /\ x.openedAt = t /\ ListedWhen(store, x.contract, t)
     /\ \E q \in LastKnown(store, x.contract, t) : x.entry = EntryFill(q)
     /\ \E q \in LastKnown(store, x.contract, x.closedAt) : x.exit = ExitFill(q)
     /\ x.closedAt \in Int /\ t <= x.closedAt
     /\ x.closedAt <= MomentOf(day, SquareOffOffset)
     /\ t = x.closedAt => \E b \in store.bars : b.start = t /\ b.end = t

LEMMA FilledSound ==
  ASSUME NEW store \in Stores, NEW index, NEW day \in Nat, NEW signal,
         NEW c \in DOMAIN QuotesAt(store, index, MomentOf(day, DecisionOffset)),
         BoundLot(store, c, MomentOf(day, DecisionOffset)) # 0,
         NEW at, NEW price,
         at = PathExit(PathBars(store, index, MomentOf(day, DecisionOffset)), signal,
                       MomentOf(day, DecisionOffset)),
         c \in ChainAt(store, index, at.at),
         price = ExitFill(QuotesAt(store, index, at.at)[c])
  PROVE  LET t == MomentOf(day, DecisionOffset)
         IN DayTraded(FilledTrade(QuotesAt(store, index, t)[c], t, at, price,
                                 BoundLot(store, c, t)), store, day)
<1> DEFINE t == MomentOf(day, DecisionOffset)
           u == at.at
           q == QuotesAt(store, index, t)[c]
           p == QuotesAt(store, index, u)[c]
           lot == BoundLot(store, c, t)
           entry == EntryFill(q)
           units == BacktestQuantity * lot
           gross == (price - entry) * units
           cost == RoundTrip(entry, price, units)
           net == gross - cost
           x == FilledTrade(q, t, at, price, lot)
<1>1. t \in Int
  BY DateOfMoment, StoresAreValid
<1>2. /\ u \in Int /\ t <= u /\ u <= MomentOf(day, SquareOffOffset)
      /\ t = u => \E b \in store.bars : b.start = t /\ b.end = t
  <2> HIDE DEF t
  <2> QED
    BY ExitInTime DEF t
<1> HIDE DEF t, u
<1>3. /\ q \in store.quotes /\ q.contract = c /\ LastKnown(store, c, t) = {q}
      /\ c \in ListedAt(store, index, t)
  BY <1>1, QuoteTaken DEF t
<1>4. p \in store.quotes /\ LastKnown(store, c, u) = {p}
  <2>1. c \in DOMAIN QuotesAt(store, index, u)
    BY DEF ChainAt, u
  <2> QED
    BY <1>2, <2>1, QuoteTaken
<1>5. price = ExitFill(p)
  BY DEF u
<1>6. lot \in Nat /\ ListedWhen(store, c, t)
  <2>1. ListedWhen(store, c, t) /\ c \in DOMAIN store.master
    BY <1>3 DEF ListedAt
  <2>2. store.master[c].lot \in Nat
    BY <2>1, StoresAreValid DEF ValidStore, ValidListing
  <2> QED
    BY <2>1, <2>2 DEF BoundLot
<1> HIDE DEF q, p, lot
<1>7. entry \in Nat /\ price \in Nat
  <2>1. {q.bid, q.ask} \subseteq Nat /\ {p.bid, p.ask} \subseteq Nat
    BY <1>3, <1>4, StoresAreValid DEF StoreNumbers
  <2> QED
    BY <1>5, <2>1, FillsNat
<1> HIDE DEF entry
<1>8. units \in Nat
  <2>1. BacktestQuantity \in Nat
    BY BacktestParameters
  <2> QED
    BY <1>6, <2>1
<1> HIDE DEF units
<1>9. gross \in Int /\ cost \in Int
  BY <1>7, <1>8, RoundTripInt
<1>10. x = [contract |-> c, openedAt |-> t, closedAt |-> u, entry |-> entry,
            exit |-> price, gross |-> gross, cost |-> cost, net |-> net]
  BY <1>3 DEF FilledTrade, units, entry, u
<1> HIDE DEF gross, cost, net, x
<1>11. /\ TradeFields \subseteq DOMAIN x
       /\ x.gross = gross /\ x.cost = cost /\ x.openedAt = t /\ x.contract = c
       /\ x.entry = entry /\ x.exit = price /\ x.closedAt = u
  BY <1>10 DEF TradeFields
<1>12. /\ \E k \in LastKnown(store, c, t) : entry = EntryFill(k)
       /\ \E k \in LastKnown(store, c, u) : price = ExitFill(k)
  BY <1>3, <1>4, <1>5 DEF entry
<1>13. DayTraded(x, store, day)
  BY <1>2, <1>6, <1>9, <1>11, <1>12 DEF DayTraded, t
<1> QED
  BY <1>13 DEF x, q, lot, t

LEMMA DecisionFills ==
  ASSUME NEW store \in Stores, NEW index, NEW day \in Nat, NEW signal, NEW ablation,
         NEW o, o = Evaluate(store, index, MomentOf(day, DecisionOffset), signal, ablation),
         o.trade # NoFill
  PROVE  DayTraded(o.trade, store, day)
<1> DEFINE t == MomentOf(day, DecisionOffset)
           c == BestContract(HistoricalChain(store, index, t), index, signal.direction)
           q == QuotesAt(store, index, t)[c]
           lot == BoundLot(store, c, t)
           exit == PathExit(PathBars(store, index, t), signal, t)
           u == exit.at
           price == IF q.contract \in ChainAt(store, index, u)
                      THEN ExitFill(QuotesAt(store, index, u)[q.contract]) ELSE 0
           x == FilledTrade(q, t, exit, price, lot)
<1>1. Raise.trade = NoFill /\ \A r : Declined(r).trade = NoFill
  BY DEF Raise, Declined, Outcome
<1> HIDE DEF t
<1>2. o = Chosen(store, index, t, signal, ablation)
  BY <1>1 DEF Evaluate, t
<1>3. c # NoContract /\ o = Bought(store, index, c, t, signal, ablation)
  <2> HIDE DEF c
  <2> QED
    BY <1>1, <1>2 DEF Chosen, c
<1>4. c \in DOMAIN QuotesAt(store, index, t)
  <2>1. t \in Int
    BY DateOfMoment, StoresAreValid DEF t
  <2> QED
    BY <1>3, <2>1, ChosenQuoted
<1> HIDE DEF c
<1>5. lot # 0 /\ o = Closing(store, index, q, t, signal, lot)
  <2> HIDE DEF lot, q
  <2> QED
    BY <1>1, <1>3 DEF Bought, lot, q
<1> HIDE DEF lot, q
<1>6. o = Exited(store, index, q, t, exit, lot)
  BY <1>1, <1>5 DEF Closing
<1> HIDE DEF exit
<1>7. price # 0 /\ o = Outcome(exit.reason, x)
  <2> HIDE DEF x
  <2>1. o = CASE ~ Readable(store, index, u) -> Raise
              [] Readable(store, index, u) /\ price = 0 -> Declined("NO_EXIT_QUOTE")
              [] OTHER -> Outcome(exit.reason, x)
    BY <1>6 DEF Exited, x
  <2> HIDE DEF u, price
  <2>2. CASE ~ Readable(store, index, u)
    BY <1>1, <2>1, <2>2
  <2>3. CASE Readable(store, index, u) /\ price = 0
    BY <1>1, <2>1, <2>3
  <2>4. CASE Readable(store, index, u) /\ price # 0
    BY <2>1, <2>4
  <2> QED
    BY <2>2, <2>3, <2>4
<1>8. o.trade = x
  BY <1>7 DEF Outcome
<1>9. q.contract = c
  <2>1. t \in Int
    BY DateOfMoment, StoresAreValid DEF t
  <2> QED
    BY <1>4, <2>1, QuoteTaken DEF q
<1>10. c \in ChainAt(store, index, u) /\ price = ExitFill(QuotesAt(store, index, u)[c])
  BY <1>7, <1>9
<1> HIDE DEF price
<1>11. DayTraded(FilledTrade(QuotesAt(store, index, t)[c], t, exit, price,
                            BoundLot(store, c, t)), store, day)
  BY <1>4, <1>5, <1>10, FilledSound DEF exit, lot, t
<1> QED
  BY <1>8, <1>11 DEF q, lot

-----------------------------------------------------------------------------
(* The spans of a backtest                                                 *)

\* A trade of a day of the period.
DaySound(x, period) ==
  /\ x.net = x.gross - x.cost
  /\ \E day \in Nat : /\ period.from <= day /\ day <= period.to
                      /\ DayTraded(x, request.store, day)

\* The cash is what there was at first and what the trades made.
BacktestSound(s) ==
  /\ SpanFields \subseteq DOMAIN s
  /\ s.period.stress \in {1, 2}
  /\ s.left \subseteq StepsOf(s.period)
  /\ s.engine.trades = <<>>
  /\ s.fills \in Nat /\ DOMAIN s.trades = 1..s.fills
  /\ \A i \in DOMAIN s.trades : DaySound(s.trades[i], s.period)
  /\ s.equity = BacktestCash + SumFunction([i \in DOMAIN s.trades |-> s.trades[i].net])

LEMMA NoTrades ==
  ASSUME NEW w, DOMAIN w = {}
  PROVE  SumFunction(w) = 0
BY SumOfFunction, SumEmpty

LEMMA BacktestStarts ==
  ASSUME request.kind = "backtest", NEW period, period.stress \in {1, 2}
  PROVE  BacktestSound(NewSpan(period, EngineFor(period)))
<1> DEFINE engine == NewEngine(period.from)
           steps == StepsOf(period)
           none == [i \in {} |-> NoFill]
           n == Cardinality(steps)
           s == NewSpan(period, EngineFor(period))
<1>1. s = [period |-> period, left |-> steps, engine |-> engine, trades |-> none,
           decisions |-> 0, fills |-> 0, flags |-> {}, cycles |-> n,
           equity |-> BacktestCash, peak |-> BacktestCash, drawdown |-> 0]
  BY DEF NewSpan, EngineFor, StartingCash
<1>2. engine.trades = <<>>
  BY DEF NewEngine
<1>3. DOMAIN none = {}
  OBVIOUS
<1> HIDE DEF engine, steps, none, n, s
<1>4. /\ SpanFields \subseteq DOMAIN s /\ s.period = period /\ s.left = steps
      /\ s.engine = engine /\ s.trades = none /\ s.fills = 0 /\ s.equity = BacktestCash
  BY <1>1 DEF SpanFields
<1> DEFINE w == [i \in DOMAIN s.trades |-> s.trades[i].net]
<1>5. DOMAIN w = {}
  BY <1>3, <1>4
<1>6. SumFunction(w) = 0
  <2> HIDE DEF w
  <2> QED
    BY <1>5, NoTrades
<1>7. s.equity = BacktestCash + SumFunction(w)
  BY <1>4, <1>6, EvaluationRequests
<1>8. s.fills \in Nat /\ DOMAIN s.trades = 1..s.fills
  BY <1>3, <1>4
<1>9. BacktestSound(s)
  BY <1>2, <1>3, <1>4, <1>7, <1>8 DEF BacktestSound, steps
<1> QED
  BY <1>9 DEF s

\* A trade keeps its prices and moments when its charges are scaled.
LEMMA ChargedDay ==
  ASSUME NEW x, NEW store, NEW day, DayTraded(x, store, day), NEW stress \in {1, 2}
  PROVE  LET y == Charged(x, stress)
         IN DayTraded(y, store, day) /\ y.net = y.gross - y.cost /\ y.net \in Int
<1> DEFINE cost == x.cost * stress
           net == x.gross - x.cost * stress
           y == Charged(x, stress)
<1>1. y = [x EXCEPT !.cost = cost, !.net = net]
  BY DEF Charged
<1>2. x.gross \in Int /\ x.cost \in Int /\ TradeFields \subseteq DOMAIN x
  BY DEF DayTraded
<1>3. cost \in Int /\ net \in Int /\ net = x.gross - cost
  BY <1>2
<1> HIDE DEF cost, net, y
<1>4. /\ DOMAIN y = DOMAIN x /\ y.cost = cost /\ y.net = net
      /\ y.contract = x.contract /\ y.openedAt = x.openedAt /\ y.closedAt = x.closedAt
      /\ y.entry = x.entry /\ y.exit = x.exit /\ y.gross = x.gross
  BY <1>1, <1>2 DEF TradeFields
<1>5. DayTraded(y, store, day)
  BY <1>3, <1>4 DEF DayTraded
<1>6. y.net = y.gross - y.cost /\ y.net \in Int
  BY <1>3, <1>4
<1> QED
  BY <1>5, <1>6 DEF y

LEMMA BacktestStep ==
  ASSUME request \in Requests, request.kind = "backtest",
         NEW period, period.from \in Int, period.to \in Int, NEW step \in StepsOf(period)
  PROVE  \E day \in Nat : /\ period.from <= day /\ day <= period.to
                          /\ step[1] = MomentOf(day, DecisionOffset)
                          /\ step[1] \in Nat /\ step[2] \in DOMAIN IndexList
<1>1. PICK day \in OpenDays(request.store) \cap period.from..period.to,
           i \in DOMAIN IndexList : step = <<MomentOf(day, DecisionOffset), i>>
  BY DEF StepsOf
<1>2. day \in Nat
  BY EvaluationRequests, StoresAreValid DEF OpenDays, StoreNumbers
<1>3. MomentOf(day, DecisionOffset) \in Nat
  BY <1>2, DayLengthNat, StoresAreValid DEF MomentOf
<1> QED
  BY <1>1, <1>2, <1>3

LEMMA BacktestContinues ==
  ASSUME request \in Requests, request.kind = "backtest",
         NEW s, BacktestSound(s), s.period.from \in Int, s.period.to \in Int,
         NEW step \in s.left
  PROVE  LET after == AfterDecision(s, OutcomeAt(step), step)
         IN BacktestSound(after) /\ after.period = s.period
<1> DEFINE o == OutcomeAt(step)
           left == s.left \ {step}
           made == s.decisions + 1
           next == [s EXCEPT !.left = left, !.decisions = made]
           x == Charged(o.trade, s.period.stress)
           n == s.fills + 1
           f == [i \in DOMAIN s.trades \cup {n} |-> IF i \in DOMAIN s.trades
                                                      THEN s.trades[i] ELSE x]
           y == [s EXCEPT !.left = left, !.decisions = made, !.fills = n, !.trades = f]
           v == s.equity + x.net
           z == WithEquity(y, v)
           a == AfterDecision(s, o, step)
<1>1. /\ SpanFields \subseteq DOMAIN s /\ s.period.stress \in {1, 2}
      /\ s.left \subseteq StepsOf(s.period) /\ s.engine.trades = <<>>
      /\ s.fills \in Nat /\ DOMAIN s.trades = 1..s.fills
      /\ \A i \in DOMAIN s.trades : DaySound(s.trades[i], s.period)
      /\ s.equity = BacktestCash + SumFunction([i \in DOMAIN s.trades |-> s.trades[i].net])
  BY DEF BacktestSound
<1>2. a = IF o.trade = NoFill THEN next ELSE z
  <2> HIDE DEF o, x
  <2>1. n = next.fills + 1 /\ f = [i \in DOMAIN next.trades \cup {n} |->
                                     IF i \in DOMAIN next.trades THEN next.trades[i] ELSE x]
        /\ DOMAIN next = DOMAIN s
    BY <1>1 DEF SpanFields
  <2>2. y = [next EXCEPT !.fills = n, !.trades = f]
    <3> HIDE DEF f, n, left, made
    <3> QED
      BY <1>1 DEF SpanFields
  <2> QED
    BY <1>1, <2>1, <2>2 DEF AfterDecision, SpanFields, x
<1>3. left \subseteq StepsOf(s.period)
  BY <1>1
<1>4. ASSUME o.trade = NoFill
      PROVE  BacktestSound(a) /\ a.period = s.period
  <2>1. a = next
    BY <1>2, <1>4
  <2> HIDE DEF a, left, made
  <2>2. /\ DOMAIN a = DOMAIN s /\ a.period = s.period /\ a.left = left
        /\ a.engine = s.engine /\ a.fills = s.fills /\ a.trades = s.trades
        /\ a.equity = s.equity
    BY <1>1, <2>1 DEF SpanFields
  <2> QED
    BY <1>1, <1>3, <2>2 DEF BacktestSound
<1>5. ASSUME o.trade # NoFill
      PROVE  BacktestSound(a) /\ a.period = s.period
  <2>1. PICK day \in Nat : /\ s.period.from <= day /\ day <= s.period.to
                           /\ step[1] = MomentOf(day, DecisionOffset)
    BY <1>1, BacktestStep
  <2>2. DayTraded(o.trade, request.store, day)
    <3> DEFINE index == IndexList[step[2]]
               signal == request.signals[DateAt(step[1])]
               ablation == request.ablation
    <3>1. o = Evaluate(request.store, index, MomentOf(day, DecisionOffset), signal,
                       ablation)
      BY <2>1 DEF OutcomeAt
    <3> HIDE DEF o, index, signal, ablation
    <3> QED
      BY <1>5, <3>1, DecisionFills, EvaluationRequests
  <2>3. DayTraded(x, request.store, day) /\ x.net = x.gross - x.cost /\ x.net \in Int
    <3> HIDE DEF o
    <3> QED
      BY <1>1, <2>2, ChargedDay DEF o
  <2>4. a = z
    BY <1>2, <1>5
  <2> HIDE DEF a, o, x, left, made
  <2>5. n \in Nat /\ n \notin DOMAIN s.trades /\ 1..n = DOMAIN s.trades \cup {n}
    BY <1>1
  <2>6. /\ DOMAIN f = 1..n /\ f[n] = x
        /\ \A i \in DOMAIN s.trades : f[i] = s.trades[i]
    BY <2>5
  <2> HIDE DEF n, f
  <2>7. /\ DOMAIN y = DOMAIN s /\ y.period = s.period /\ y.left = left
        /\ y.engine = s.engine /\ y.fills = n /\ y.trades = f
    BY <1>1 DEF SpanFields
  <2> HIDE DEF y, v, z
  <2>8. /\ DOMAIN z = DOMAIN s /\ z.period = s.period /\ z.left = left
        /\ z.engine = s.engine /\ z.fills = n /\ z.trades = f /\ z.equity = v
    BY <1>1, <2>7, EquityTaken DEF z
  <2>9. ASSUME NEW i \in 1..n
        PROVE  DaySound(f[i], s.period)
    <3>1. CASE i = n
      BY <2>1, <2>3, <2>6, <3>1 DEF DaySound
    <3>2. CASE i \in DOMAIN s.trades
      BY <1>1, <2>6, <3>2
    <3> QED
      BY <2>5, <3>1, <3>2
  <2> DEFINE w == [i \in DOMAIN s.trades |-> s.trades[i].net]
             u == [i \in DOMAIN f |-> f[i].net]
             D == DOMAIN s.trades
  <2>10. SumFunction(u) = SumFunction(w) + x.net /\ SumFunction(w) \in Int
    <3>1. DOMAIN w = D /\ DOMAIN u = D \cup {n}
      BY <2>5, <2>6
    <3>2. \A i \in D : w[i] = u[i] /\ u[i] \in Int
      <4> TAKE i \in D
      <4>1. w[i] = s.trades[i].net /\ u[i] = f[i].net /\ f[i] = s.trades[i]
        BY <2>5, <2>6
      <4>2. s.trades[i].net \in Int
        BY <1>1 DEF DaySound, DayTraded
      <4> QED
        BY <4>1, <4>2
    <3>3. u[n] = x.net
      BY <2>5, <2>6
    <3>4. IsFiniteSet(D)
      BY <1>1, FS_Interval
    <3> HIDE DEF w, u
    <3>5. SumOver(u, D) = SumOver(w, D) /\ SumOver(u, D) \in Int
      <4> HIDE DEF D
      <4> QED
        BY <3>2, <3>4, SumLocal, SumType
    <3>6. SumOver(u, D \cup {n}) = u[n] + SumOver(u, D)
      <4>1. n \notin D /\ \A i \in D \cup {n} : u[i] \in Int
        BY <2>3, <2>5, <3>2, <3>3
      <4> HIDE DEF D
      <4> QED
        BY <3>4, <4>1, SumAdd
    <3>7. SumFunction(u) = SumOver(u, D \cup {n}) /\ SumFunction(w) = SumOver(w, D)
      BY <3>1, SumOfFunction
    <3> QED
      BY <2>3, <3>3, <3>5, <3>6, <3>7
  <2>11. v = BacktestCash + SumFunction(u)
    <3>1. s.equity = BacktestCash + SumFunction(w) /\ BacktestCash \in Int
      BY <1>1, EvaluationRequests
    <3> HIDE DEF w, u
    <3> QED
      BY <2>3, <2>10, <3>1 DEF v
  <2> HIDE DEF w
  <2>12. BacktestSound(z)
    BY <1>1, <1>3, <2>5, <2>6, <2>8, <2>9, <2>11 DEF BacktestSound
  <2> QED
    BY <2>4, <2>8, <2>12
<1> QED
  BY <1>4, <1>5 DEF a, o

\* The cash of a span is what it started with and what its trades made.
LEMMA BacktestBalances ==
  ASSUME request.kind = "backtest", NEW s, BacktestSound(s)
  PROVE  LET total == ResultOf(s)
         IN total.ending = StartingCash + total.gross + Unrealized(s.engine) - total.cost
<1> DEFINE D == DOMAIN s.trades
           gross == [i \in D |-> s.trades[i].gross]
           cost == [i \in D |-> s.trades[i].cost]
           net == [i \in D |-> s.trades[i].net]
           total == ResultOf(s)
<1>1. /\ total.ending = s.equity /\ total.gross = SumFunction(gross)
      /\ total.cost = SumFunction(cost)
  BY DEF ResultOf
<1>2. s.equity = BacktestCash + SumFunction(net)
  BY DEF BacktestSound
<1>3. IsFiniteSet(D)
  BY FS_Interval DEF BacktestSound
<1>4. \A i \in D : /\ net[i] \in Int /\ cost[i] \in Int /\ gross[i] = net[i] + cost[i]
  <2> TAKE i \in D
  <2>1. DaySound(s.trades[i], s.period)
    BY DEF BacktestSound
  <2>2. s.trades[i].gross \in Int /\ s.trades[i].cost \in Int
        /\ s.trades[i].net = s.trades[i].gross - s.trades[i].cost
    BY <2>1 DEF DaySound, DayTraded
  <2> QED
    BY <2>2
<1>5. Unrealized(s.engine) = 0
  BY NothingHeld DEF BacktestSound
<1>6. DOMAIN gross = D /\ DOMAIN cost = D /\ DOMAIN net = D
  OBVIOUS
<1> HIDE DEF D, gross, cost, net, total
<1>7. /\ SumFunction(gross) = SumOver(gross, D) /\ SumFunction(cost) = SumOver(cost, D)
      /\ SumFunction(net) = SumOver(net, D)
  BY <1>6, SumOfFunction
<1>8. SumOver(net, D) \in Int /\ SumOver(cost, D) \in Int
  <2>1. (\A i \in D : net[i] \in Int) /\ (\A i \in D : cost[i] \in Int)
    BY <1>4
  <2> QED
    BY <1>3, <2>1, SumType
<1>9. SumOver(gross, D) = SumOver(net, D) + SumOver(cost, D)
  BY <1>3, <1>4, SumPlus
<1>10. total.ending = StartingCash + total.gross + Unrealized(s.engine) - total.cost
  <2>1. StartingCash = BacktestCash /\ BacktestCash \in Int
    BY EvaluationRequests DEF StartingCash
  <2> QED
    BY <1>1, <1>2, <1>5, <1>7, <1>8, <1>9, <2>1
<1> QED
  BY <1>10 DEF total

-----------------------------------------------------------------------------
(* What was known when a replay traded                                     *)

\* What a trade of a span has to do with the dataset.
Known(t, store) ==
  /\ \E q \in LastKnown(store, t.contract, t.openedAt) : t.entry = EntryAt(q)
  /\ \E q \in LastKnown(store, t.contract, t.closedAt) : t.exit = ExitAt(q)
  /\ request.kind = "backtest" \/ request.listed =>
       ListedWhen(store, t.contract, t.openedAt)
  /\ SoldInTime(t)
  /\ request.kind = "backtest" =>
       t.closedAt <= MomentOf(DateAt(t.openedAt), SquareOffOffset)

\* A price depends on what a quote shows.
LEMMA ShownPrices ==
  ASSUME NEW p, NEW q, Shows(p, q)
  PROVE  BuyPrice(p) = BuyPrice(q) /\ SellPrice(p) = SellPrice(q)
<1>1. \A s : Reference(p, s) = Reference(q, s)
  BY DEF Reference, Crossed, Shows
<1>2. ExitSourceOf(p) = ExitSourceOf(q)
  BY <1>1 DEF ExitSourceOf
<1> QED
  BY <1>1, <1>2 DEF BuyPrice, SellPrice

LEMMA CyclePriced ==
  ASSUME TakenCycles(cycles, request.store), NEW t \in DOMAIN cycles, NEW c,
         Buyable(PaperQuote(cycles[t].snapshot, c)) \/ Sellable(PaperQuote(cycles[t].snapshot, c))
  PROVE  /\ c \in DOMAIN cycles[t].snapshot.rows
         /\ \E q \in LastKnown(request.store, c, t) :
              /\ BuyPrice(PaperQuote(cycles[t].snapshot, c)) = BuyPrice(q)
              /\ SellPrice(PaperQuote(cycles[t].snapshot, c)) = SellPrice(q)
<1> DEFINE snapshot == cycles[t].snapshot
           p == PaperQuote(snapshot, c)
           rows == snapshot.rows
<1>1. p.ok /\ KnownAt(p)
  BY DEF Buyable, Sellable
<1>2. TakenFrom(snapshot, request.store, t)
  BY DEF TakenCycles
<1> HIDE DEF snapshot
<1>3. c \in DOMAIN rows /\ Shows(p, rows[c]) /\ p.age = rows[c].age
  <2>1. CASE c \in DOMAIN rows
    BY <2>1 DEF PaperQuote, Shows
  <2>2. CASE c \notin DOMAIN rows
    <3>1. p.ok = FALSE
      BY <2>2 DEF PaperQuote
    <3> QED
      BY <1>1, <3>1
  <2> QED
    BY <2>1, <2>2
<1>4. rows[c].age >= 0
  BY <1>1, <1>3 DEF KnownAt
<1>5. PICK q \in LastKnown(request.store, c, t) : Shows(rows[c], q)
  BY <1>2, <1>3, <1>4 DEF TakenFrom
<1>6. Shows(p, q)
  BY <1>3, <1>5 DEF Shows
<1> HIDE DEF p
<1>7. BuyPrice(p) = BuyPrice(q) /\ SellPrice(p) = SellPrice(q)
  BY <1>6, ShownPrices
<1> QED
  BY <1>3, <1>7 DEF p, snapshot

LEMMA ReplayKnown ==
  ASSUME request.kind # "backtest", TakenCycles(cycles, request.store), NEW t, NEW period,
         BoughtAt(t.contract, t.openedAt, t.entry, period),
         SoldAt(t.contract, t.openedAt, t.closedAt, t.exit, period)
  PROVE  /\ Known(t, request.store)
         /\ t.openedAt \in DOMAIN cycles /\ t.closedAt \in DOMAIN cycles
         /\ t.contract \in DOMAIN cycles[t.openedAt].snapshot.rows
         /\ t.contract \in DOMAIN cycles[t.closedAt].snapshot.rows
<1> DEFINE c == t.contract
           bought == t.openedAt
           sold == t.closedAt
<1>1. /\ bought \in DOMAIN cycles /\ FlagsAt(cycles[bought].snapshot) = {}
      /\ Buyable(PaperQuote(cycles[bought].snapshot, c))
      /\ t.entry = BuyPrice(PaperQuote(cycles[bought].snapshot, c))
  BY DEF BoughtAt
<1>2. /\ sold \in DOMAIN cycles /\ bought < sold
      /\ Sellable(PaperQuote(cycles[sold].snapshot, c))
      /\ t.exit = SellPrice(PaperQuote(cycles[sold].snapshot, c))
  BY DEF SoldAt
<1> HIDE DEF c, bought, sold
<1>3. /\ c \in DOMAIN cycles[bought].snapshot.rows
      /\ \E q \in LastKnown(request.store, c, bought) : t.entry = BuyPrice(q)
  BY <1>1, CyclePriced
<1>4. /\ c \in DOMAIN cycles[sold].snapshot.rows
      /\ \E q \in LastKnown(request.store, c, sold) : t.exit = SellPrice(q)
  BY <1>2, CyclePriced
<1>5. request.listed => ListedWhen(request.store, c, bought)
  <2>1. cycles[bought].snapshot.at = bought
    BY <1>1 DEF TakenCycles, TakenFrom
  <2>2. request.listed => OnChain(request.store, cycles[bought].snapshot)
    BY <1>1 DEF FlagsAt
  <2> QED
    BY <1>3, <2>1, <2>2 DEF OnChain
<1>6. \A q : EntryAt(q) = BuyPrice(q) /\ ExitAt(q) = SellPrice(q)
  BY DEF EntryAt, ExitAt
<1>7. SoldInTime(t)
  BY <1>2 DEF SoldInTime, bought, sold
<1> QED
  BY <1>1, <1>2, <1>3, <1>4, <1>5, <1>6, <1>7 DEF Known, c, bought, sold

LEMMA BacktestKnown ==
  ASSUME request.kind = "backtest", request \in Requests, NEW t, NEW period,
         DaySound(t, period)
  PROVE  Known(t, request.store)
<1>1. PICK day \in Nat : DayTraded(t, request.store, day)
  BY DEF DaySound
<1> DEFINE store == request.store
           at == MomentOf(day, DecisionOffset)
<1>2. /\ t.openedAt = at /\ ListedWhen(store, t.contract, at)
      /\ \E q \in LastKnown(store, t.contract, at) : t.entry = EntryFill(q)
      /\ \E q \in LastKnown(store, t.contract, t.closedAt) : t.exit = ExitFill(q)
      /\ t.closedAt \in Int /\ at <= t.closedAt
      /\ t.closedAt <= MomentOf(day, SquareOffOffset)
      /\ at = t.closedAt => \E b \in store.bars : b.start = at /\ b.end = at
  BY <1>1 DEF DayTraded
<1>3. at \in Int /\ DateAt(at) = day
  BY DateOfMoment, StoresAreValid
<1> HIDE DEF at, store
<1>4. \A q : EntryAt(q) = EntryFill(q) /\ ExitAt(q) = ExitFill(q)
  BY DEF EntryAt, ExitAt
<1>5. SoldInTime(t)
  <2>1. at < t.closedAt \/ at = t.closedAt
    BY <1>2, <1>3
  <2> QED
    BY <1>2, <2>1 DEF SoldInTime, store
<1>6. Known(t, store)
  BY <1>2, <1>3, <1>4, <1>5 DEF Known
<1> QED
  BY <1>6 DEF store

-----------------------------------------------------------------------------
(* What makes a campaign HISTORICAL                                        *)

LEMMA LiveFlags ==
  ASSUME NEW flags, flags \subseteq BOOLEAN, ClassifyFixtureFlags(flags) = "LIVE"
  PROVE  TRUE \notin flags
<1>1. flags # {TRUE} /\ flags # {TRUE, FALSE}
  <2>1. CASE flags = {TRUE}
    BY <2>1 DEF ClassifyFixtureFlags
  <2>2. CASE flags = {TRUE, FALSE}
    <3>1. flags # {TRUE}
      BY <2>2
    <3>2. ClassifyFixtureFlags(flags) = "MIXED"
      BY <2>2, <3>1 DEF ClassifyFixtureFlags
    <3> QED
      BY <3>2
  <2> QED
    BY <2>1, <2>2
<1> QED
  BY <1>1

\* Neither a fixture's dataset nor a fixture's quote shows in a cycle that is LIVE.
LEMMA LiveQuotes ==
  ASSUME NEW store \in Stores, NEW index, NEW t \in Int,
         SourceOf(HistoricalSnapshot(store, index, t)) = "LIVE",
         NEW c \in DOMAIN HistoricalSnapshot(store, index, t).rows,
         NEW q \in LastKnown(store, c, t)
  PROVE  ~ q.flagged /\ ~ store.fixture
<1> DEFINE snapshot == HistoricalSnapshot(store, index, t)
           rows == snapshot.rows
           flags == {rows[d].fixture : d \in DOMAIN rows}
<1>1. \A d \in DOMAIN rows : \A p \in LastKnown(store, d, t) :
        rows[d].fixture = (store.fixture \/ p.flagged)
  BY HistoricalTaken
<1>2. \A d \in DOMAIN rows : \E p \in LastKnown(store, d, t) : TRUE
  BY HistoricalTaken
<1>3. \A d : \A p \in LastKnown(store, d, t) : p.flagged \in BOOLEAN
  BY StoresAreValid DEF StoreNumbers, LastKnown
<1>4. store.fixture \in BOOLEAN
  BY StoresAreValid DEF StoreNumbers
<1>5. ClassifyFixtureFlags(flags) = "LIVE"
  BY DEF SourceOf, FlagsOf
<1> HIDE DEF snapshot, rows
<1>6. flags \subseteq BOOLEAN
  BY <1>1, <1>2, <1>3, <1>4
<1>7. TRUE \notin flags
  <2> HIDE DEF flags
  <2> QED
    BY <1>5, <1>6, LiveFlags
<1>8. c \in DOMAIN rows
  BY DEF rows, snapshot
<1>9. rows[c].fixture = (store.fixture \/ q.flagged) /\ rows[c].fixture # TRUE
  BY <1>1, <1>7, <1>8
<1> QED
  BY <1>3, <1>4, <1>9

-----------------------------------------------------------------------------
(* What was said of a span stays true while the request and the cycles do  *)

Same == request' = request /\ cycles' = cycles

LEMMA SameSteps ==
  ASSUME Same, NEW period
  PROVE  StepsOf(period)' = StepsOf(period)
<1>1. request' = request /\ cycles' = cycles
  BY DEF Same
<1>2. CASE request.kind = "backtest"
  <2> DEFINE days == OpenDays(request.store) \cap period.from..period.to
             past == OpenDays(request'.store) \cap period.from..period.to
  <2>1. days = past
    BY <1>1
  <2>2. /\ StepsOf(period) = {<<MomentOf(day, DecisionOffset), i>> :
                                day \in days, i \in DOMAIN IndexList}
        /\ StepsOf(period)' = {<<MomentOf(day, DecisionOffset), i>> :
                                 day \in past, i \in DOMAIN IndexList}
    BY <1>1, <1>2 DEF StepsOf
  <2> HIDE DEF days, past
  <2> QED
    BY <2>1, <2>2
<1>3. CASE request.kind # "backtest"
  <2> DEFINE ts == {u \in DOMAIN cycles : period.from <= DateAt(u) /\ DateAt(u) <= period.to}
             us == {u \in DOMAIN cycles' : period.from <= DateAt(u) /\ DateAt(u) <= period.to}
  <2>1. ts = us
    BY <1>1
  <2>2. StepsOf(period) = {<<t, 1>> : t \in ts} /\ StepsOf(period)' = {<<t, 1>> : t \in us}
    BY <1>1, <1>3 DEF StepsOf
  <2> HIDE DEF ts, us
  <2> QED
    BY <2>1, <2>2
<1> QED
  BY <1>2, <1>3

LEMMA SameFlags ==
  ASSUME Same, NEW snapshot
  PROVE  FlagsAt(snapshot)' = FlagsAt(snapshot)
BY DEF FlagsAt, Same

LEMMA SameTraded ==
  ASSUME Same, NEW c, NEW bought, NEW sold, NEW price, NEW period
  PROVE  /\ BoughtAt(c, bought, price, period)' <=> BoughtAt(c, bought, price, period)
         /\ SoldAt(c, bought, sold, price, period)' <=> SoldAt(c, bought, sold, price, period)
<1>1. cycles' = cycles
  BY DEF Same
<1>2. FlagsAt(cycles[bought].snapshot)' = FlagsAt(cycles[bought].snapshot)
  BY <1>1, SameFlags
<1> QED
  BY <1>1, <1>2 DEF BoughtAt, SoldAt

LEMMA SameDealing ==
  ASSUME Same, NEW s, NEW period
  PROVE  Dealing(s, period)' <=> Dealing(s, period)
<1>1. \A t : Dealt(t, period)' <=> Dealt(t, period)
  BY SameTraded DEF Dealt
<1>2. AllDealt(s, period)' <=> AllDealt(s, period)
  BY <1>1 DEF AllDealt
<1> QED
  BY <1>2 DEF Dealing

LEMMA SameReplay ==
  ASSUME Same, NEW s
  PROVE  ReplaySound(s)' <=> ReplaySound(s)
<1>1. /\ StepsOf(s.period)' = StepsOf(s.period)
      /\ Dealing(s.engine, s.period)' <=> Dealing(s.engine, s.period)
      /\ request' = request
  BY SameSteps, SameDealing DEF Same
<1> QED
  BY <1>1 DEF ReplaySound

LEMMA SameDay ==
  ASSUME Same, NEW x, NEW period
  PROVE  DaySound(x, period)' <=> DaySound(x, period)
BY DEF Same, DaySound

LEMMA SameBacktest ==
  ASSUME Same, NEW s
  PROVE  BacktestSound(s)' <=> BacktestSound(s)
<1>1. StepsOf(s.period)' = StepsOf(s.period)
  BY SameSteps
<1>2. \A i : DaySound(s.trades[i], s.period)' <=> DaySound(s.trades[i], s.period)
  BY SameDay
<1> QED
  BY <1>1, <1>2 DEF BacktestSound

-----------------------------------------------------------------------------
(* The invariant of an evaluation                                          *)

\* The spans of the request, in their order.
Planned ==
  IF request.kind = "backtest" THEN BacktestSpans(request)
  ELSE SpansOf(Windows(SessionsOf(request), request.sizes), request.stressed)

\* How many of them have been started.
Started == IF stage = "SPAN" THEN Len(results) + 1 ELSE Len(results)

\* The cycles are those the request asks for, and what the campaign checked of them
\* holds.
CyclesSound ==
  /\ request.kind = "campaign" =>
       /\ CampaignOpens(request)
       /\ cycles = CyclesOf(request) /\ ProvenanceHolds(LabelOf(request), cycles)
  /\ request.kind = "runner" => cycles = request.cycles

\* A reported trade came from within its span.
TradeOfSpan(x, period) ==
  IF request.kind = "backtest" THEN DaySound(x, period)
  ELSE /\ BoughtAt(x.contract, x.openedAt, x.entry, period)
       /\ SoldAt(x.contract, x.openedAt, x.closedAt, x.exit, period)

SpanSound(s) ==
  IF request.kind = "backtest" THEN BacktestSound(s) ELSE ReplaySound(s)

ResultSound(x, period) ==
  /\ x.period = period
  /\ \A i \in DOMAIN x.trades : TradeOfSpan(x.trades[i], period)
  /\ request.kind = "campaign" => x.flags \subseteq {"NOT_AVAILABLE"}

\* What was planned was done, is in progress or still to do.
SpansInOrder ==
  /\ SoundPlan(Planned)
  /\ IsSequence(results) /\ IsSequence(todo)
  /\ Started + Len(todo) = Len(Planned)
  /\ \A k \in 1..Len(todo) : todo[k] = Planned[Started + k]
  /\ \A k \in 1..Len(results) : ResultSound(results[k], Planned[k])
  /\ stage = "SPAN" => span.period = Planned[Started] /\ SpanSound(span)

InSpans == stage \in {"SPANS", "SPAN", "DONE"}

EvaluationInv ==
  /\ request \in Requests
  /\ stage \in {"NEW", "OPENED", "READY", "RAISED", "SPANS", "SPAN", "DONE"}
  /\ stage = "OPENED" => request.kind = "campaign" /\ CampaignOpens(request)
  /\ stage = "READY" => request.kind # "backtest" /\ CyclesSound
  /\ ~ InSpans => results = <<>>
  /\ InSpans => CyclesSound /\ SpansInOrder

-----------------------------------------------------------------------------
(* What it says of cycles, plans and trades                                *)

LEMMA Kinds == request \in Requests => request.kind \in {"campaign", "runner", "backtest"}
                                       /\ request.store \in Stores
  BY EvaluationRequests

LEMMA CyclesTaken ==
  ASSUME request \in Requests, request.kind # "backtest", CyclesSound
  PROVE  /\ TakenCycles(cycles, request.store)
         /\ \A t \in DOMAIN cycles : SoundCycle(t)
<1>1. TakenCycles(cycles, request.store)
  <2>1. CASE request.kind = "campaign"
    BY <2>1, CampaignCycles DEF CyclesSound
  <2>2. CASE request.kind = "runner"
    BY <2>2, RunnerCycles DEF CyclesSound
  <2> QED
    BY <2>1, <2>2, Kinds
<1>2. \A t \in DOMAIN cycles : SoundCycle(t)
  BY <1>1 DEF TakenCycles, TakenFrom, SoundCycle, PricedRows, Priced
<1> QED
  BY <1>1, <1>2

\* A cycle of a campaign leaks nothing.
LEMMA CampaignTight ==
  ASSUME request \in Requests, request.kind = "campaign", CyclesSound, NEW t \in DOMAIN cycles
  PROVE  /\ t \in DecisionSlots(request.store) /\ t \in Nat
         /\ cycles[t].snapshot = HistoricalSnapshot(request.store, request.index, t)
         /\ Leaks(cycles[t].snapshot) = {}
<1>1. cycles = CyclesOf(request) /\ request.store \in Stores
  BY Kinds DEF CyclesSound
<1>2. t \in DecisionSlots(request.store)
      /\ cycles[t].snapshot = HistoricalSnapshot(request.store, request.index, t)
  BY <1>1, CampaignCycles
<1>3. t \in Nat
  BY <1>1, <1>2, SlotsAreNat
<1> QED
  BY <1>1, <1>2, <1>3, HistoricalTaken

LEMMA SessionsInts ==
  ASSUME NEW r \in Requests, r.kind # "backtest"
  PROVE  SessionsOf(r) \in Seq(Int)
<1>1. OpenDays(r.store) \in SUBSET Int /\ IsFiniteSet(OpenDays(r.store))
  <2>1. OpenDays(r.store) \in SUBSET DOMAIN r.store.sessions
    BY DEF OpenDays
  <2>2. IsFiniteSet(DOMAIN r.store.sessions) /\ DOMAIN r.store.sessions \subseteq Nat
    BY EvaluationRequests, StoresAreValid DEF StoreNumbers
  <2> QED
    BY <2>1, <2>2, FS_Subset
<1>2. InOrder(OpenDays(r.store)) \in Seq(Int)
  BY <1>1, InOrderSeq
<1>3. r.sessions \in Seq(Int)
  BY EvaluationRequests
<1> QED
  BY <1>2, <1>3 DEF SessionsOf

LEMMA SplitPlan ==
  ASSUME request \in Requests, request.kind # "backtest",
         SoundSplit(SessionsOf(request), request.sizes)
  PROVE  SoundPlan(Planned)
<1> DEFINE days == SessionsOf(request)
           sizes == request.sizes
           W == Windows(days, sizes)
<1>1. {sizes.train, sizes.validate, sizes.test, sizes.step, sizes.embargo} \subseteq Int
  BY EvaluationRequests
<1>2. days \in Seq(Int)
  BY SessionsInts
<1>3. /\ Len(W) \in Nat /\ DOMAIN W = 1..Len(W)
      /\ \A k \in 1..Len(W) : /\ {W[k].train[2], W[k].validate[2], W[k].test[1]} \subseteq Int
                              /\ W[k].train[2] < W[k].test[1]
                              /\ W[k].validate[2] < W[k].test[1]
  <2> HIDE DEF days, sizes
  <2> QED
    BY <1>1, <1>2, TestsFollow DEF days, sizes
<1>4. Planned = SpansOf(W, request.stressed)
  BY DEF Planned
<1> HIDE DEF W
<1>5. SoundPlan(SpansOf(W, request.stressed))
  BY <1>3, SpansSound
<1> QED
  BY <1>4, <1>5

\* The days of a trade are those of its span.
LEMMA TradeDays ==
  ASSUME request \in Requests, CyclesSound, NEW x, NEW period, TradeOfSpan(x, period)
  PROVE  /\ DateAt(x.openedAt) \in Int
         /\ period.from <= DateAt(x.openedAt)
         /\ DateAt(x.closedAt) <= period.to
<1>1. CASE request.kind # "backtest"
  <2>1. /\ x.openedAt \in DOMAIN cycles
        /\ Within(x.openedAt, period) /\ Within(x.closedAt, period)
    BY <1>1 DEF TradeOfSpan, BoughtAt, SoldAt
  <2>2. x.openedAt \in Int
    BY <1>1, <2>1, CyclesTaken DEF TakenCycles
  <2> QED
    BY <2>1, <2>2, DatesInOrder DEF Within
<1>2. CASE request.kind = "backtest"
  <2>1. PICK day \in Nat : /\ period.from <= day /\ day <= period.to
                           /\ DayTraded(x, request.store, day)
    BY <1>2 DEF TradeOfSpan, DaySound
  <2> DEFINE t == MomentOf(day, DecisionOffset)
             u == x.closedAt
             v == MomentOf(day, SquareOffOffset)
  <2>2. x.openedAt = t /\ u \in Int /\ t <= u /\ u <= v
    BY <2>1 DEF DayTraded
  <2>3. t \in Int /\ DateAt(t) = day
    BY DateOfMoment, StoresAreValid
  <2>4. v \in Int /\ DateAt(v) = day
    <3>1. SquareOffOffset \in Nat /\ SquareOffOffset < DayLength
      BY BacktestParameters, StoresAreValid
    <3> QED
      BY <3>1, DateOfMoment
  <2> HIDE DEF t, u, v
  <2>5. DateAt(u) \in Int /\ DateAt(t) <= DateAt(u) /\ DateAt(u) <= DateAt(v)
    BY <2>2, <2>3, <2>4, DatesInOrder
  <2>6. DateAt(u) = day
    BY <2>3, <2>4, <2>5
  <2> QED
    BY <2>1, <2>2, <2>3, <2>6 DEF u
<1> QED
  BY <1>1, <1>2

LEMMA TradeKnown ==
  ASSUME request \in Requests, CyclesSound, NEW x, NEW period, TradeOfSpan(x, period)
  PROVE  Known(x, request.store)
<1>1. CASE request.kind # "backtest"
  BY <1>1, CyclesTaken, ReplayKnown DEF TradeOfSpan
<1>2. CASE request.kind = "backtest"
  BY <1>2, BacktestKnown DEF TradeOfSpan
<1> QED
  BY <1>1, <1>2

LEMMA SpanReports ==
  ASSUME NEW s, SpanSound(s)
  PROVE  /\ \A i \in DOMAIN s.trades : TradeOfSpan(s.trades[i], s.period)
         /\ request.kind = "campaign" => s.flags \subseteq {"NOT_AVAILABLE"}
<1>1. CASE request.kind # "backtest"
  <2>1. ReplaySound(s)
    BY <1>1 DEF SpanSound
  <2>2. \A i \in DOMAIN s.trades : TradeOfSpan(s.trades[i], s.period)
    BY <1>1, <2>1, ReplayReports DEF TradeOfSpan
  <2> QED
    BY <2>1, <2>2 DEF ReplaySound
<1>2. CASE request.kind = "backtest"
  BY <1>2 DEF SpanSound, BacktestSound, TradeOfSpan
<1> QED
  BY <1>1, <1>2

\* What stays true of results and plans.
LEMMA SameResults ==
  ASSUME Same, NEW x, NEW period
  PROVE  /\ ResultSound(x, period)' <=> ResultSound(x, period)
         /\ SpanSound(x)' <=> SpanSound(x)
<1>1. request' = request
  BY DEF Same
<1>2. \A t : TradeOfSpan(t, period)' <=> TradeOfSpan(t, period)
  BY <1>1, SameDay, SameTraded DEF TradeOfSpan
<1>3. ResultSound(x, period)' <=> ResultSound(x, period)
  BY <1>1, <1>2 DEF ResultSound
<1>4. SpanSound(x)' <=> SpanSound(x)
  BY <1>1, SameReplay, SameBacktest DEF SpanSound
<1> QED
  BY <1>3, <1>4

LEMMA SamePlan ==
  ASSUME Same
  PROVE  Planned' = Planned /\ (CyclesSound' <=> CyclesSound)
BY DEF Same, Planned, CyclesSound

LEMMA TailFacts ==
  ASSUME NEW s, IsSequence(s), s # <<>>
  PROVE  /\ IsSequence(Tail(s)) /\ Len(s) \in Nat \ {0}
         /\ Head(s) = s[1]
         /\ Len(Tail(s)) = Len(s) - 1
         /\ \A k \in 1..Len(Tail(s)) : Tail(s)[k] = s[k + 1]
<1>1. PICK S : s \in Seq(S)
  BY DEF IsSequence
<1>2. Tail(s) \in Seq(S) /\ Len(s) \in Nat \ {0} /\ Head(s) = s[1]
      /\ Len(Tail(s)) = Len(s) - 1
  BY <1>1
<1>3. \A k \in 1..Len(Tail(s)) : Tail(s)[k] = s[k + 1]
  BY <1>1, <1>2
<1>4. IsSequence(Tail(s))
  BY <1>2 DEF IsSequence
<1> QED
  BY <1>2, <1>3, <1>4

-----------------------------------------------------------------------------
(* Every step of an evaluation keeps it                                    *)

LEMMA EvaluationStarts == EvaluationInit => EvaluationInv
  BY DEF EvaluationInit, EvaluationInv, InSpans

LEMMA RaisesKeeps ==
  ASSUME EvaluationInv, Raises
  PROVE  EvaluationInv'
BY DEF EvaluationInv, Raises, InSpans

LEMMA PreparationKeeps ==
  ASSUME EvaluationInv, OpenCampaign \/ BuildCycles \/ TakeCycles
  PROVE  EvaluationInv'
<1>1. CASE Raises
  BY <1>1, RaisesKeeps
<1>2. ASSUME OpenCampaign, ~ Raises
      PROVE  EvaluationInv'
  <2>1. /\ CampaignOpens(request) /\ request.kind = "campaign"
        /\ stage = "NEW" /\ stage' = "OPENED"
        /\ request' = request /\ results' = results
    BY <1>2 DEF OpenCampaign
  <2> QED
    BY <2>1 DEF EvaluationInv, InSpans
<1>3. ASSUME BuildCycles, ~ Raises
      PROVE  EvaluationInv'
  <2>1. /\ stage = "OPENED" /\ stage' = "READY"
        /\ ProvenanceHolds(LabelOf(request), CyclesOf(request))
        /\ cycles' = CyclesOf(request)
        /\ request' = request /\ results' = results
    BY <1>3 DEF BuildCycles
  <2>2. request.kind = "campaign" /\ CampaignOpens(request)
    BY <2>1 DEF EvaluationInv
  <2>3. CyclesSound'
    BY <2>1, <2>2 DEF CyclesSound
  <2> QED
    BY <2>1, <2>2, <2>3 DEF EvaluationInv, InSpans
<1>4. ASSUME TakeCycles
      PROVE  EvaluationInv'
  <2>1. /\ stage = "NEW" /\ stage' = "READY" /\ request.kind = "runner"
        /\ cycles' = request.cycles
        /\ request' = request /\ results' = results
    BY <1>4 DEF TakeCycles
  <2>2. CyclesSound'
    BY <2>1 DEF CyclesSound
  <2> QED
    BY <2>1, <2>2 DEF EvaluationInv, InSpans
<1> QED
  BY <1>1, <1>2, <1>3, <1>4

\* A plan that has just been made is all to be done.
LEMMA PlanMade ==
  ASSUME EvaluationInv, ~ InSpans, stage' = "SPANS", Same, results' = results,
         todo' = Planned, SoundPlan(Planned), CyclesSound
  PROVE  EvaluationInv'
<1>1. results = <<>> /\ results' = <<>>
  BY DEF EvaluationInv
<1>2. Planned' = Planned /\ CyclesSound'
  BY SamePlan
<1>3. Started' = 0
  BY <1>1 DEF Started
<1>4. IsSequence(results') /\ Len(results') = 0
  <2>1. <<>> \in Seq({})
    OBVIOUS
  <2> QED
    BY <1>1, <2>1 DEF IsSequence
<1>5. IsSequence(Planned) /\ Len(Planned) \in Nat
  <2>1. IsSequence(Planned)
    BY DEF SoundPlan
  <2> QED
    BY <2>1, SequenceDomain
<1>6. /\ Started' + Len(todo') = Len(Planned')
      /\ \A k \in 1..Len(todo') : todo'[k] = Planned'[Started' + k]
  BY <1>2, <1>3, <1>5
<1>7. SpansInOrder'
  BY <1>1, <1>2, <1>4, <1>5, <1>6 DEF SpansInOrder
<1> QED
  BY <1>1, <1>2, <1>7 DEF EvaluationInv, InSpans, Same

LEMMA OpeningKeeps ==
  ASSUME EvaluationInv, SplitWindows \/ OpenBacktest
  PROVE  EvaluationInv'
<1>1. CASE Raises
  BY <1>1, RaisesKeeps
<1>2. ASSUME SplitWindows, ~ Raises
      PROVE  EvaluationInv'
  <2>1. /\ stage = "READY" /\ stage' = "SPANS"
        /\ SoundSplit(SessionsOf(request), request.sizes)
        /\ todo' = SpansOf(Windows(SessionsOf(request), request.sizes), request.stressed)
        /\ request' = request /\ cycles' = cycles /\ results' = results
    BY <1>2 DEF SplitWindows
  <2>2. request \in Requests /\ request.kind # "backtest" /\ CyclesSound /\ ~ InSpans
    BY <2>1 DEF EvaluationInv, InSpans
  <2>3. todo' = Planned
    BY <2>1, <2>2 DEF Planned
  <2>4. SoundPlan(Planned)
    BY <2>1, <2>2, SplitPlan
  <2> QED
    BY <2>1, <2>2, <2>3, <2>4, PlanMade DEF Same
<1>3. ASSUME OpenBacktest, ~ Raises
      PROVE  EvaluationInv'
  <2>1. /\ stage = "NEW" /\ stage' = "SPANS" /\ request.kind = "backtest"
        /\ todo' = BacktestSpans(request)
        /\ request' = request /\ cycles' = cycles /\ results' = results
    BY <1>3 DEF OpenBacktest
  <2>2. ~ InSpans /\ CyclesSound
    BY <2>1 DEF InSpans, CyclesSound
  <2>3. todo' = Planned
    BY <2>1 DEF Planned
  <2>4. SoundPlan(Planned)
    BY <2>1, BacktestPlan DEF Planned
  <2> QED
    BY <2>1, <2>2, <2>3, <2>4, PlanMade DEF Same
<1> QED
  BY <1>2, <1>3, <1>1

\* Of a plan in progress: what was started is in it.
LEMMA InPlan ==
  ASSUME EvaluationInv, InSpans
  PROVE  /\ Len(results) \in Nat /\ Len(todo) \in Nat /\ Len(Planned) \in Nat
         /\ DOMAIN results = 1..Len(results) /\ DOMAIN Planned = 1..Len(Planned)
         /\ Len(results) <= Len(Planned)
         /\ stage = "SPAN" => Started \in DOMAIN Planned
<1>1. /\ IsSequence(results) /\ IsSequence(todo) /\ IsSequence(Planned)
      /\ Started + Len(todo) = Len(Planned)
  BY DEF EvaluationInv, SpansInOrder, SoundPlan
<1>2. /\ Len(results) \in Nat /\ Len(todo) \in Nat /\ Len(Planned) \in Nat
      /\ DOMAIN results = 1..Len(results) /\ DOMAIN Planned = 1..Len(Planned)
  BY <1>1, SequenceDomain
<1>3. CASE stage = "SPAN"
  <2>1. Started = Len(results) + 1
    BY <1>3 DEF Started
  <2> QED
    BY <1>1, <1>2, <2>1
<1>4. CASE stage # "SPAN"
  <2>1. Started = Len(results)
    BY <1>4 DEF Started
  <2> QED
    BY <1>1, <1>2, <1>4, <2>1
<1> QED
  BY <1>3, <1>4

LEMMA StartKeeps ==
  ASSUME EvaluationInv, StartSpan
  PROVE  EvaluationInv'
<1> DEFINE period == Head(todo)
           s == NewSpan(period, EngineFor(period))
           n == Len(results) + 1
<1>1. /\ stage = "SPANS" /\ stage' = "SPAN" /\ todo # <<>>
      /\ span' = s /\ todo' = Tail(todo) /\ results' = results
      /\ request' = request /\ cycles' = cycles /\ Same
  BY DEF StartSpan, Same
<1>2. InSpans /\ CyclesSound /\ SpansInOrder /\ request \in Requests
  BY <1>1 DEF EvaluationInv, InSpans
<1>3. Started = Len(results) /\ Started' = n
  BY <1>1 DEF Started
<1>4. /\ Len(results) \in Nat /\ Len(Planned) \in Nat
      /\ DOMAIN results = 1..Len(results) /\ DOMAIN Planned = 1..Len(Planned)
  BY <1>2, InPlan
<1>5. /\ IsSequence(todo) /\ Len(results) + Len(todo) = Len(Planned)
      /\ \A k \in 1..Len(todo) : todo[k] = Planned[Len(results) + k]
  BY <1>2, <1>3 DEF SpansInOrder
<1>6. /\ IsSequence(todo') /\ Len(todo) \in Nat \ {0} /\ period = todo[1]
      /\ Len(todo') = Len(todo) - 1
      /\ \A k \in 1..Len(todo') : todo'[k] = todo[k + 1]
  BY <1>1, <1>5, TailFacts
<1>7. period = Planned[n] /\ n \in DOMAIN Planned
  BY <1>4, <1>5, <1>6
<1>8. period.stress \in {1, 2}
  BY <1>2, <1>7 DEF SpansInOrder, SoundPlan
<1> HIDE DEF period
<1>9. SpanSound(s) /\ s.period = period
  <2>1. s.period = period
    BY DEF NewSpan
  <2> HIDE DEF s
  <2>2. SpanSound(s)
    BY <1>8, ReplayStarts, BacktestStarts DEF SpanSound, s
  <2> QED
    BY <2>1, <2>2
<1> HIDE DEF s
<1>10. SpanSound(span)'
  BY <1>1, <1>9, SameResults
<1>11. Planned' = Planned /\ CyclesSound'
  BY <1>1, <1>2, SamePlan
<1>12. n + Len(todo') = Len(Planned) /\ \A k \in 1..Len(todo') : todo'[k] = Planned[n + k]
  <2>1. n + Len(todo') = Len(Planned)
    <3> DEFINE a == Len(results)
               b == Len(todo)
               c == Len(todo')
    <3>1. a \in Nat /\ b \in Nat /\ a + b = Len(Planned) /\ c = b - 1 /\ n = a + 1
      BY <1>4, <1>5, <1>6
    <3> HIDE DEF a, b, c, n
    <3>2. n + c = Len(Planned)
      BY <3>1
    <3> QED
      BY <3>2 DEF c
  <2>2. ASSUME NEW k \in 1..Len(todo')
        PROVE  todo'[k] = Planned[n + k]
    <3>1. k + 1 \in 1..Len(todo) /\ Len(results) + (k + 1) = n + k
      BY <1>4, <1>6
    <3> QED
      BY <1>5, <1>6, <3>1
  <2> QED
    BY <2>1, <2>2
<1>13. \A k \in 1..Len(results) : ResultSound(results[k], Planned[k])'
  BY <1>1, <1>2, <1>11, SameResults DEF SpansInOrder
<1>14. SpansInOrder'
  <2> HIDE DEF n
  <2> QED
    BY <1>1, <1>2, <1>3, <1>6, <1>7, <1>9, <1>10, <1>11, <1>12, <1>13 DEF SpansInOrder
<1> QED
  BY <1>1, <1>2, <1>11, <1>14 DEF EvaluationInv, InSpans

\* A span goes on.
LEMMA SpanGoesOn ==
  ASSUME EvaluationInv, stage = "SPAN", Same,
         stage' = stage, todo' = todo, results' = results,
         NEW s, SpanSound(s), s.period = span.period, span' = s
  PROVE  EvaluationInv'
<1>1. request' = request /\ CyclesSound /\ SpansInOrder /\ request \in Requests
  BY DEF EvaluationInv, InSpans, Same
<1>2. Started' = Started /\ Planned' = Planned /\ CyclesSound'
  BY <1>1, SamePlan DEF Started
<1>3. SpanSound(span)'
  BY SameResults
<1>4. \A k \in 1..Len(results) : ResultSound(results[k], Planned[k])'
  BY <1>1, <1>2, SameResults DEF SpansInOrder
<1>5. SpansInOrder'
  BY <1>1, <1>2, <1>3, <1>4 DEF SpansInOrder
<1> QED
  BY <1>1, <1>2, <1>5 DEF EvaluationInv, InSpans

LEMMA CycleKeeps ==
  ASSUME EvaluationInv, ReplayCycle
  PROVE  EvaluationInv'
<1>1. CASE Raises
  BY <1>1, RaisesKeeps
<1>2. ASSUME ~ Raises
      PROVE  EvaluationInv'
  <2> DEFINE step == NextOf(span.left)
             given == cycles[step[1]]
             s == AfterCycle(span, given, step, FlagsAt(given.snapshot))
  <2>1. /\ stage = "SPAN" /\ span.left # {} /\ request.kind # "backtest"
        /\ span' = s /\ stage' = stage /\ todo' = todo /\ results' = results /\ Same
    BY <1>2 DEF ReplayCycle, Same
  <2>2. CyclesSound /\ request \in Requests /\ ReplaySound(span)
    BY <2>1 DEF EvaluationInv, InSpans, SpansInOrder, SpanSound
  <2>3. /\ TakenCycles(cycles, request.store)
        /\ \A t \in DOMAIN cycles : SoundCycle(t)
    BY <2>1, <2>2, CyclesTaken
  <2>4. \A p \in span.left : p[1] \in DOMAIN cycles /\ p[1] \in Nat /\ p[2] = 1
    <3>1. \A p \in StepsOf(span.period) : p[1] \in DOMAIN cycles /\ p[2] = 1
      BY <2>1 DEF StepsOf
    <3> QED
      BY <2>2, <2>3, <3>1 DEF ReplaySound, TakenCycles
  <2>5. step \in span.left
    BY <2>1, <2>4, NextIsLeft
  <2>6. SoundCycle(step[1])
    BY <2>3, <2>4, <2>5
  <2>7. request.kind = "campaign" => Leaks(cycles[step[1]].snapshot) = {}
    BY <2>2, <2>4, <2>5, CampaignTight
  <2> HIDE DEF step
  <2>8. ReplaySound(s) /\ s.period = span.period
    BY <2>1, <2>2, <2>5, <2>6, <2>7, ReplayContinues
  <2> HIDE DEF s
  <2>9. SpanSound(s)
    BY <2>1, <2>8 DEF SpanSound
  <2> QED
    BY <2>1, <2>8, <2>9, SpanGoesOn
<1> QED
  BY <1>1, <1>2

LEMMA DayKeeps ==
  ASSUME EvaluationInv, DecideDay
  PROVE  EvaluationInv'
<1>1. CASE Raises
  BY <1>1, RaisesKeeps
<1>2. ASSUME ~ Raises
      PROVE  EvaluationInv'
  <2> DEFINE step == NextOf(span.left)
             s == AfterDecision(span, OutcomeAt(step), step)
  <2>1. /\ stage = "SPAN" /\ span.left # {} /\ request.kind = "backtest"
        /\ span' = s /\ stage' = stage /\ todo' = todo /\ results' = results /\ Same
    BY <1>2 DEF DecideDay, Same
  <2>2. /\ request \in Requests /\ BacktestSound(span)
        /\ span.period = Planned[Started]
    BY <2>1 DEF EvaluationInv, InSpans, SpansInOrder, SpanSound
  <2>3. span.period.from \in Int /\ span.period.to \in Int
    <3>1. Started \in DOMAIN Planned
      BY <2>1, InPlan DEF InSpans
    <3>2. span.period.from = request.from /\ span.period.to = request.to
      BY <2>1, <2>2, <3>1, BacktestPlan DEF Planned
    <3> QED
      BY <2>1, <2>2, <3>2, EvaluationRequests
  <2>4. \A p \in span.left : p[1] \in Nat /\ p[2] \in Nat
    <3>1. \A p \in StepsOf(span.period) : p[1] \in Nat /\ p[2] \in DOMAIN IndexList
      BY <2>1, <2>2, <2>3, BacktestStep
    <3>2. DOMAIN IndexList \subseteq Nat
      BY EvaluationRequests
    <3> QED
      BY <2>2, <3>1, <3>2 DEF BacktestSound
  <2>5. step \in span.left
    BY <2>1, <2>4, NextIsLeft
  <2> HIDE DEF step
  <2>6. BacktestSound(s) /\ s.period = span.period
    BY <2>1, <2>2, <2>3, <2>5, BacktestContinues
  <2> HIDE DEF s
  <2>7. SpanSound(s)
    BY <2>1, <2>6 DEF SpanSound
  <2> QED
    BY <2>1, <2>6, <2>7, SpanGoesOn
<1> QED
  BY <1>1, <1>2

LEMMA ReportKeeps ==
  ASSUME EvaluationInv, EndSpan
  PROVE  EvaluationInv'
<1> DEFINE x == ResultOf(span)
           n == Len(results) + 1
<1>1. /\ stage = "SPAN" /\ stage' = "SPANS" /\ todo' = todo /\ results' = Append(results, x)
      /\ request' = request /\ cycles' = cycles /\ span' = span /\ Same
  BY DEF EndSpan, Same
<1>2. CyclesSound /\ SpansInOrder /\ request \in Requests /\ InSpans
  BY <1>1 DEF EvaluationInv, InSpans
<1>3. x.period = span.period /\ x.trades = span.trades /\ x.flags = span.flags
  BY DEF ResultOf
<1> HIDE DEF x
<1>4. Started = n /\ span.period = Planned[n] /\ SpanSound(span)
  BY <1>1, <1>2 DEF SpansInOrder, Started
<1>5. ResultSound(x, Planned[n])
  BY <1>3, <1>4, SpanReports DEF ResultSound
<1>6. /\ IsSequence(results') /\ Len(results) \in Nat /\ Len(results') = n
      /\ results'[n] = x /\ \A k \in 1..Len(results) : results'[k] = results[k]
  BY <1>1, <1>2, AppendFacts DEF SpansInOrder
<1>7. Started' = n
  BY <1>1, <1>6 DEF Started
<1>8. Planned' = Planned /\ CyclesSound'
  BY <1>1, <1>2, SamePlan
<1>9. ASSUME NEW k \in 1..Len(results')
      PROVE  ResultSound(results[k], Planned[k])'
  <2>1. ResultSound(results'[k], Planned[k])
    <3>1. CASE k = n
      BY <1>5, <1>6, <3>1
    <3>2. CASE k \in 1..Len(results)
      BY <1>2, <1>6, <3>2 DEF SpansInOrder
    <3> QED
      BY <1>6, <3>1, <3>2
  <2> QED
    BY <1>1, <1>8, <2>1, SameResults
<1>10. SpansInOrder'
  <2> HIDE DEF n
  <2> QED
    BY <1>1, <1>2, <1>4, <1>6, <1>7, <1>8, <1>9 DEF SpansInOrder
<1> QED
  BY <1>1, <1>2, <1>8, <1>10 DEF EvaluationInv, InSpans

LEMMA RestKeeps ==
  ASSUME EvaluationInv, Finish \/ UNCHANGED evaluationVars
  PROVE  EvaluationInv'
<1>1. ASSUME Finish
      PROVE  EvaluationInv'
  <2>1. /\ stage = "SPANS" /\ stage' = "DONE" /\ todo' = todo /\ results' = results
        /\ request' = request /\ Same
    BY <1>1 DEF Finish, Same
  <2>2. CyclesSound /\ SpansInOrder /\ request \in Requests
    BY <2>1 DEF EvaluationInv, InSpans
  <2>3. Started' = Started /\ Planned' = Planned /\ CyclesSound'
    BY <2>1, <2>2, SamePlan DEF Started
  <2>4. \A k \in 1..Len(results) : ResultSound(results[k], Planned[k])'
    BY <2>1, <2>2, <2>3, SameResults DEF SpansInOrder
  <2>5. SpansInOrder'
    BY <2>1, <2>2, <2>3, <2>4 DEF SpansInOrder
  <2> QED
    BY <2>1, <2>2, <2>3, <2>5 DEF EvaluationInv, InSpans
<1>2. ASSUME UNCHANGED evaluationVars
      PROVE  EvaluationInv'
  <2>1. /\ stage' = stage /\ todo' = todo /\ results' = results /\ span' = span
        /\ request' = request /\ Same
    BY <1>2 DEF evaluationVars, Same
  <2>2. Started' = Started /\ Planned' = Planned /\ (CyclesSound' <=> CyclesSound)
    BY <2>1, SamePlan DEF Started
  <2>3. \A k : ResultSound(results[k], Planned[k])' <=> ResultSound(results[k], Planned[k])
    BY <2>1, <2>2, SameResults
  <2>4. SpanSound(span)' <=> SpanSound(span)
    BY <2>1, SameResults
  <2>5. SpansInOrder' <=> SpansInOrder
    BY <2>1, <2>2, <2>3, <2>4 DEF SpansInOrder
  <2> QED
    BY <2>1, <2>2, <2>5 DEF EvaluationInv, InSpans
<1> QED
  BY <1>1, <1>2

LEMMA EvaluationSteps == EvaluationInv /\ [EvaluationNext]_evaluationVars => EvaluationInv'
<1> SUFFICES ASSUME EvaluationInv, [EvaluationNext]_evaluationVars
             PROVE  EvaluationInv'
  OBVIOUS
<1>1. CASE OpenCampaign \/ BuildCycles \/ TakeCycles
  BY <1>1, PreparationKeeps
<1>2. CASE SplitWindows \/ OpenBacktest
  BY <1>2, OpeningKeeps
<1>3. CASE StartSpan
  BY <1>3, StartKeeps
<1>4. CASE ReplayCycle
  BY <1>4, CycleKeeps
<1>5. CASE DecideDay
  BY <1>5, DayKeeps
<1>6. CASE EndSpan
  BY <1>6, ReportKeeps
<1>7. CASE Finish \/ UNCHANGED evaluationVars
  BY <1>7, RestKeeps
<1> QED
  BY <1>1, <1>2, <1>3, <1>4, <1>5, <1>6, <1>7 DEF EvaluationNext

-----------------------------------------------------------------------------
(* What follows from it                                                    *)

\* A reported trade is one of a span of the plan.
LEMMA ReportedFrom ==
  ASSUME EvaluationInv, NEW t \in ReportedTrades
  PROVE  /\ InSpans /\ CyclesSound /\ request \in Requests
         /\ \E k \in 1..Len(results) : TradeOfSpan(t, Planned[k])
<1>1. PICK k \in DOMAIN results : t \in {results[k].trades[i] : i \in DOMAIN results[k].trades}
  BY DEF ReportedTrades
<1>2. results # <<>>
  BY <1>1
<1>3. InSpans
  BY <1>2 DEF EvaluationInv
<1>4. k \in 1..Len(results) /\ ResultSound(results[k], Planned[k])
  BY <1>1, <1>3, InPlan DEF EvaluationInv, SpansInOrder
<1>5. TradeOfSpan(t, Planned[k])
  BY <1>1, <1>4 DEF ResultSound
<1> QED
  BY <1>3, <1>4, <1>5 DEF EvaluationInv

LEMMA KnownFollows == EvaluationInv => OnlyWhatWasKnown
<1> SUFFICES ASSUME EvaluationInv
             PROVE  OnlyWhatWasKnown
  OBVIOUS
<1>1. \A t \in ReportedTrades : Known(t, request.store)
  BY ReportedFrom, TradeKnown
<1>2. ASSUME request.kind = "campaign", stage = "DONE"
      PROVE  LeakageStatus(results) # "LEAKAGE"
  <2>1. \A k \in DOMAIN results : results[k].flags \subseteq {"NOT_AVAILABLE"}
    BY <1>2, InPlan DEF EvaluationInv, InSpans, SpansInOrder, ResultSound
  <2>2. \A k \in DOMAIN results :
          results[k].flags \cap {"LOOKAHEAD_OPTION_QUOTE", "LOOKAHEAD_UNDERLYING_QUOTE"} = {}
    BY <2>1
  <2> QED
    BY <2>2 DEF LeakageStatus
<1> QED
  BY <1>1, <1>2 DEF OnlyWhatWasKnown, Known

LEMMA StandingFollows == EvaluationInv => SpansStandAlone
<1> SUFFICES ASSUME EvaluationInv
             PROVE  SpansStandAlone
  OBVIOUS
<1>1. ASSUME stage = "SPAN"
      PROVE  LET total == ResultOf(span)
                 period == span.period
             IN /\ total.ending = StartingCash + total.gross
                                    + Unrealized(span.engine)
                                    - (IF request.kind = "backtest" THEN total.cost
                                       ELSE total.cost \div period.stress)
                /\ \A i \in DOMAIN span.trades :
                     /\ period.from <= DateAt(span.trades[i].openedAt)
                     /\ DateAt(span.trades[i].closedAt) <= period.to
  <2>1. request \in Requests /\ CyclesSound /\ SpanSound(span)
    BY <1>1 DEF EvaluationInv, InSpans, SpansInOrder
  <2>2. \A i \in DOMAIN span.trades :
          /\ span.period.from <= DateAt(span.trades[i].openedAt)
          /\ DateAt(span.trades[i].closedAt) <= span.period.to
    BY <2>1, SpanReports, TradeDays
  <2> DEFINE total == ResultOf(span)
  <2>3. CASE request.kind = "backtest"
    <3>1. total.ending = StartingCash + total.gross + Unrealized(span.engine) - total.cost
      BY <2>1, <2>3, BacktestBalances DEF SpanSound
    <3> HIDE DEF total
    <3> QED
      BY <2>2, <2>3, <3>1 DEF total
  <2>4. CASE request.kind # "backtest"
    <3>1. total.ending = StartingCash + total.gross + Unrealized(span.engine)
                           - (total.cost \div span.period.stress)
      BY <2>1, <2>4, ReplayBalances DEF SpanSound
    <3> HIDE DEF total
    <3> QED
      BY <2>2, <2>4, <3>1 DEF total
  <2> QED
    BY <2>3, <2>4
<1>2. ASSUME NEW k \in TestsOf(results), NEW j \in DOMAIN results,
             results[j].period.window = results[k].period.window, j # k,
             NEW i \in DOMAIN results[k].trades
      PROVE  results[j].period.to < DateAt(results[k].trades[i].openedAt)
  <2>1. k \in DOMAIN results /\ results[k].period.role = "test"
    BY DEF TestsOf
  <2>2. results # <<>>
    BY <2>1
  <2>3. InSpans /\ CyclesSound /\ SpansInOrder /\ request \in Requests
    BY <2>2 DEF EvaluationInv
  <2>4. /\ DOMAIN results = 1..Len(results)
        /\ k \in DOMAIN Planned /\ j \in DOMAIN Planned
    BY <2>1, <2>3, InPlan
  <2>5. ResultSound(results[k], Planned[k]) /\ ResultSound(results[j], Planned[j])
    BY <2>1, <2>3, <2>4 DEF SpansInOrder
  <2>6. /\ Planned[j].to \in Int /\ Planned[k].from \in Int
        /\ Planned[j].to < Planned[k].from
    BY <1>2, <2>1, <2>3, <2>4, <2>5 DEF SpansInOrder, SoundPlan, TestsLast, ResultSound
  <2> DEFINE at == DateAt(results[k].trades[i].openedAt)
  <2>7. at \in Int /\ Planned[k].from <= at
    BY <2>3, <2>5, TradeDays DEF ResultSound
  <2> HIDE DEF at
  <2>8. Planned[j].to < at
    BY <2>6, <2>7
  <2> QED
    BY <2>5, <2>8 DEF ResultSound, at
<1> QED
  BY <1>1, <1>2 DEF SpansStandAlone

\* What a qualification of a dataset says of the moments that are decided.
LEMMA QualifiedMoments ==
  ASSUME request \in Requests, request.kind = "campaign", CampaignOpens(request),
         LabelOf(request) = "HISTORICAL", request.record = FromHarness,
         DOMAIN cycles \subseteq DecisionSlots(request.store)
  PROVE  /\ ~ IsFramework(request.store) /\ ~ IsRecorded(request.store)
         /\ request.index \in request.store.instruments => AsQualified
<1> DEFINE store == request.store
           found == QualificationOf(store)
<1>1. RecordOf(request) = [status |-> found, ofStore |-> TRUE]
  BY DEF RecordOf
<1>2. MayEvaluate(store, RecordOf(request))
  BY DEF CampaignOpens
<1>3. QualifiedBy(store, RecordOf(request)) /\ DerivedLabel(store) = "HISTORICAL"
  BY <1>2 DEF MayEvaluate
<1> HIDE DEF found, store
<1>4. RecordOf(request) # NoRecord /\ RecordOf(request).status = found
  BY <1>1 DEF NoRecord
<1>5. found \in {"QUALIFIED", "APPROVED_FOR_2E"}
  BY <1>3, <1>4 DEF QualifiedBy, ReadyStatuses
<1>6. /\ MandatoryHold(store) /\ Warnings(store) = {}
      /\ ~ IsRecorded(store)
  BY <1>5 DEF found, QualificationOf, NoQualification, Approvable
<1>7. ~ IsFramework(store)
  BY <1>3 DEF DerivedLabel, IsFramework
<1>8. ASSUME request.index \in store.instruments
      PROVE  AsQualified
  <2> DEFINE index == request.index
             X == ExpectedQuotes(store)
             O == ObservedQuotes(store)
             x == Cardinality(X)
             o == Cardinality(O)
             u == Cardinality(Unquoted)
  <2>1. x # 0 /\ ~ 2 * Precision * (x - o) > x
    <3> DEFINE w == "OPTION_SNAPSHOT_GAPS"
    <3>1. w \notin Warnings(store)
      BY <1>6
    <3>2. ~ BelowOne(o, x)
      BY <3>1 DEF Warnings
    <3> QED
      BY <3>2 DEF BelowOne
  <2>2. IsFiniteSet(X) /\ x \in Nat
    BY Kinds, ExpectedFinite, FS_CardinalityType DEF store
  <2>3. store.cadence # {}
    <3>1. ASSUME store.cadence = {}
          PROVE  FALSE
      <4>1. SlotsOf(store, store.cadence) = {}
        BY <3>1 DEF SlotsOf
      <4>2. X = {}
        BY <4>1 DEF ExpectedQuotes
      <4> QED
        BY <2>1, <4>2, FS_EmptySet
    <3> QED
      BY <3>1
  <2>4. DOMAIN cycles \subseteq SlotsOf(store, store.cadence)
    BY <2>3 DEF DecisionSlots, store
  <2>5. ASSUME NEW t \in DOMAIN cycles
        PROVE  EngineExpiry(store, index, t) = ResolvedExpiry(store, index, t)
    <3>1. t \in SampleSlots(store)
      BY <2>3, <2>4 DEF SlotsOf, SampleSlots
    <3> QED
      BY <1>6, <1>8, <3>1 DEF MandatoryHold, ExpiriesMatch
  <2>6. Unquoted \in SUBSET (X \ O)
    <3>1. SUFFICES ASSUME NEW s \in Unquoted
                   PROVE  s \in X /\ s \notin O
      OBVIOUS
    <3>2. /\ s \in (DOMAIN store.master) \X (DOMAIN cycles)
          /\ s[1] \in ListedAt(store, index, s[2])
          /\ s \notin {<<q.contract, q.at>> : q \in store.quotes}
      BY <3>1 DEF Unquoted, store
    <3>3. ListedWhen(store, s[1], s[2])
      BY <3>2 DEF ListedAt
    <3> QED
      BY <2>4, <3>2, <3>3 DEF ExpectedQuotes, ObservedQuotes
  <2>7. u \in Nat /\ o \in Nat /\ u <= x - o
    <3>1. O \in SUBSET X /\ X \cap O = O
      BY DEF ObservedQuotes
    <3> HIDE DEF X, O
    <3>2. IsFiniteSet(O) /\ IsFiniteSet(X \ O) /\ Cardinality(X \ O) = x - o
      <4>1. IsFiniteSet(O)
        BY <2>2, <3>1, FS_Subset
      <4>2. /\ IsFiniteSet(X \ O)
            /\ Cardinality(X \ O) = Cardinality(X) - Cardinality(X \cap O)
        BY <2>2, FS_Difference
      <4> QED
        BY <3>1, <4>1, <4>2
    <3>3. IsFiniteSet(Unquoted) /\ u <= Cardinality(X \ O)
      BY <2>6, <3>2, FS_Subset
    <3> QED
      BY <3>2, <3>3, FS_CardinalityType
  <2>8. 2 * Precision * u <= x
    <3> HIDE DEF x, o, u
    <3>1. Precision \in Nat
      BY StoresAreValid
    <3>2. 2 * Precision * u <= 2 * Precision * (x - o)
      BY <2>2, <2>7, <3>1
    <3>3. 2 * Precision * (x - o) \in Int /\ 2 * Precision * u \in Int
      BY <2>2, <2>7, <3>1
    <3> QED
      BY <2>1, <2>2, <3>2, <3>3
  <2> QED
    BY <2>5, <2>8 DEF AsQualified, store
<1> QED
  BY <1>6, <1>7, <1>8 DEF store

LEMMA RealFollows == EvaluationInv => HistoricalIsReal
<1> SUFFICES ASSUME EvaluationInv, request.kind = "campaign",
                    stage \in {"SPANS", "SPAN", "DONE"}, LabelOf(request) = "HISTORICAL"
             PROVE  /\ request.store.published /\ QualifiedBy(request.store, RecordOf(request))
                    /\ \A t \in ReportedTrades :
                         \A q \in LastKnown(request.store, t.contract, t.openedAt)
                                   \cup LastKnown(request.store, t.contract, t.closedAt) :
                           ~ q.flagged /\ ~ request.store.fixture
                    /\ request.record = FromHarness =>
                         /\ request.index \in request.store.instruments => AsQualified
                         /\ ~ IsFramework(request.store) /\ ~ IsRecorded(request.store)
  BY DEF HistoricalIsReal
<1>1. /\ request \in Requests /\ CyclesSound /\ CampaignOpens(request)
      /\ ProvenanceHolds(LabelOf(request), cycles) /\ request.store \in Stores
  BY Kinds DEF EvaluationInv, InSpans, CyclesSound
<1>2. request.store.published /\ QualifiedBy(request.store, RecordOf(request))
  BY <1>1 DEF CampaignOpens, MayEvaluate
<1>3. ASSUME NEW u \in DOMAIN cycles, NEW c \in DOMAIN cycles[u].snapshot.rows,
             NEW q \in LastKnown(request.store, c, u)
      PROVE  ~ q.flagged /\ ~ request.store.fixture
  <2> DEFINE snapshot == HistoricalSnapshot(request.store, request.index, u)
  <2>1. cycles[u].snapshot = snapshot /\ u \in Int
    BY <1>1, CampaignTight
  <2>2. SourceOf(cycles[u].snapshot) = "LIVE"
    BY <1>1 DEF ProvenanceHolds
  <2>3. SourceOf(snapshot) = "LIVE" /\ c \in DOMAIN snapshot.rows
    BY <2>1, <2>2
  <2> HIDE DEF snapshot
  <2> QED
    BY <1>1, <2>1, <2>3, LiveQuotes DEF snapshot
<1>4. ASSUME NEW t \in ReportedTrades,
             NEW q \in LastKnown(request.store, t.contract, t.openedAt)
                         \cup LastKnown(request.store, t.contract, t.closedAt)
      PROVE  ~ q.flagged /\ ~ request.store.fixture
  <2>1. PICK k \in 1..Len(results) : TradeOfSpan(t, Planned[k])
    BY ReportedFrom
  <2>2. /\ BoughtAt(t.contract, t.openedAt, t.entry, Planned[k])
        /\ SoldAt(t.contract, t.openedAt, t.closedAt, t.exit, Planned[k])
    BY <2>1 DEF TradeOfSpan
  <2>3. TakenCycles(cycles, request.store)
    BY <1>1, CyclesTaken
  <2>4. /\ t.openedAt \in DOMAIN cycles /\ t.closedAt \in DOMAIN cycles
        /\ t.contract \in DOMAIN cycles[t.openedAt].snapshot.rows
        /\ t.contract \in DOMAIN cycles[t.closedAt].snapshot.rows
    BY <2>2, <2>3, ReplayKnown
  <2> QED
    BY <1>3, <2>4
<1>5. ASSUME request.record = FromHarness
      PROVE  /\ request.index \in request.store.instruments => AsQualified
             /\ ~ IsFramework(request.store) /\ ~ IsRecorded(request.store)
  BY <1>1, <1>5, CampaignTight, QualifiedMoments
<1> QED
  BY <1>2, <1>4, <1>5

-----------------------------------------------------------------------------
(* The theorems                                                            *)

\* The inductive invariant: while run() is in progress no session has been
\* lost, and what is reported, in progress and due is in the order of dates.
THEOREM Invariance == Spec => []IInv
<1>1. Init => IInv
  BY InitOrder
<1>2. IInv /\ [Next]_vars => IInv'
  <2> SUFFICES ASSUME IInv, [Next]_vars PROVE IInv'
    OBVIOUS
  <2>1. CASE \E day \in Days, sources \in SourceLists : RunSession(day, sources)
    BY <2>1, SingleKeeps
  <2>2. CASE \E plan \in Plans : Run(plan)
    BY <2>2, RunKeeps
  <2>3. CASE \E day \in DOMAIN due : NextSession(day)
    BY <2>3, NextSessionKeeps
  <2>4. CASE InSession
    <3>1. session # NoSession
      BY <2>4 DEF InSession
    <3>2. CASE EndSession
      BY <3>1, <3>2, EndKeeps
    <3>3. CASE SessionRaises
      BY <3>1, <3>3, RaiseKeeps
    <3>4. CASE /\ session.left # <<>>
               /\ \E at \in Moments, failing \in Failings :
                    \E snapshot \in Given[<<session.day, at>>] :
                      ProcessSnapshot(snapshot, failing)
      BY <3>1, <3>4, SnapshotKeeps
    <3> QED
      BY <2>4, <3>2, <3>3, <3>4 DEF InSession
  <2>5. CASE FinishRun
    BY <2>5, FinishKeeps
  <2>6. CASE UNCHANGED vars
    BY <2>6 DEF vars, IInv, ReportsInOrder, SessionSound, Allowed, OneProvenance,
                Plans, SourceLists
  <2> QED
    BY <2>1, <2>2, <2>3, <2>4, <2>5, <2>6 DEF Next
<1> QED
  BY <1>1, <1>2, PTL DEF Spec

\* A campaign that ended has one report of every session it began, in the
\* order of their dates, for any days, snapshots, failures and numbers of
\* sessions.
THEOREM EveryDayReported == Spec => []EndedReportsEveryDayOnce
<1>1. IInv => EndedReportsEveryDayOnce
  <2> SUFFICES ASSUME IInv, status = "ENDED" PROVE
                 /\ Report.sessions = begun
                 /\ \A i, j \in DOMAIN eods : i < j => eods[i].day < eods[j].day
    BY DEF EndedReportsEveryDayOnce
  <2>1. ReportsInOrder /\ session = NoSession
    BY DEF IInv
  <2>2. DOMAIN eods = 1..Len(eods) /\ Len(eods) \in Nat
    <3>1. PICK S : eods \in Seq(S)
      BY DEF IInv, IsSequence
    <3> QED
      BY <3>1
  <2>3. Report.sessions = Len(eods)
    BY DEF Report
  <2> QED
    BY <2>1, <2>2, <2>3 DEF ReportsInOrder
<1> QED
  BY <1>1, Invariance, PTL

\* Nothing is bought on a snapshot with a quote that is not of the kind the
\* campaign is labelled with, for any markets and whichever builder made it.
THEOREM NothingMixed == Spec => []OneProvenance
<1>1. IInv => OneProvenance
  BY DEF IInv
<1> QED
  BY <1>1, Invariance, PTL

\* What is bought agrees with all of the evidence: no specialist failed, and
\* neither averages nor a common regime point the other way, for any markets,
\* any sets of failures and whichever builder made the snapshot.
THEOREM NothingOpposed == Spec => []EntryUnopposed
<1>1. Init => EntryUnopposed
  BY DEF Init, NoCycle, EntryUnopposed
<1> QED
  BY <1>1, StepsUnopposed, Invariance, PTL DEF Spec

\* The inductive invariant of the ledger: every trade is typed and within its
\* risk, the ledger is within its limits, the equity curve starts at the
\* starting cash, and the reports cover their losses.
THEOREM LedgerInvariance == Spec => []LedgerInv
<1>1. Init => LedgerInv
  BY DEF Init, LedgerInv, LossWithinDrawdown
<1> QED
  BY <1>1, StepsFit, Invariance, PTL DEF Spec

\* Although decisions are made on an empty book, what a session has bought
\* fits its own ledger, for any markets, calendar, limits and pricing.
THEOREM EntriesFit == Spec => []EntriesFitLedger
<1>1. IInv /\ LedgerInv => EntriesFitLedger
  <2> SUFFICES ASSUME IInv, LedgerInv, session # NoSession
               PROVE  /\ FitsLedger(session)
                      /\ \A i \in DOMAIN session.trades : TradeSound(session.trades[i])
    BY DEF EntriesFitLedger, FitsLedger, TradeSound
  <2> QED
    BY DEF LedgerInv, LedgerSound, TradesSound
<1> QED
  BY <1>1, Invariance, LedgerInvariance, PTL

\* The drawdown of a report covers its loss, for any curve of any session.
THEOREM ReportsCoverLosses == Spec => []LossWithinDrawdown
<1>1. LedgerInv => LossWithinDrawdown
  BY DEF LedgerInv
<1> QED
  BY <1>1, LedgerInvariance, PTL

\* The inductive invariant of an evaluation: the cycles are those of the request,
\* what was planned is done, in progress or to do, and every span reports just
\* the trades its own engine or ledger made within its days.
THEOREM EvaluationInvariance == EvaluationSpec => []EvaluationInv
<1> QED
  BY EvaluationStarts, EvaluationSteps, PTL DEF EvaluationSpec

\* Nothing an evaluation reports was bought or sold at a price that was not known
\* at the time, for any datasets, requests, prepared answers and signals.
THEOREM NothingFromTheFuture == EvaluationSpec => []OnlyWhatWasKnown
<1> QED
  BY KnownFollows, EvaluationInvariance, PTL

\* A span's money is its own and its trades are of its days; a test trades only
\* after the other spans of its window, for any sizes of windows and any days.
THEOREM SpansAreIndependent == EvaluationSpec => []SpansStandAlone
<1> QED
  BY StandingFollows, EvaluationInvariance, PTL

\* What is labelled HISTORICAL is of a published and qualified dataset, misses
\* no more quotes than rounding to Precision hides, and was filled from no
\* fixture, for any datasets and requests.
THEOREM LabelsAreEarned == EvaluationSpec => []HistoricalIsReal
<1> QED
  BY RealFollows, EvaluationInvariance, PTL
=============================================================================
