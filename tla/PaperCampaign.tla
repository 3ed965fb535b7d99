---------------------------- MODULE PaperCampaign ----------------------------
(***************************************************************************)
(* A campaign of paper sessions (grow/campaign/paper_campaign.py): each    *)
(* session has an engine of its own, driven by a session runner            *)
(* (session.py, runner.py) through the snapshots of one day, and leaves an *)
(* end-of-day report (summary.py, eod.py); run() does a list of sessions   *)
(* and rolls their reports up.                                             *)
(*                                                                         *)
(* Everything here is one thread; what varies is what the caller asks for, *)
(* what the snapshots hold and which calls raise.  A snapshot is drawn     *)
(* when the session comes to it; the source it will have is known before,  *)
(* because the label of the campaign is checked against all of them.       *)
(*                                                                         *)
(* The engine is that of SessionEngine; a session is one day.  Left out:   *)
(* ids, the replay store (see ReplayStore), latencies and the prose of the *)
(* reports.                                                                *)
(*                                                                         *)
(* An operator X_fault is X with a programming error; nothing uses it.     *)
(***************************************************************************)
EXTENDS SessionEngine

CONSTANTS
  Days,          \* dates a session may have
  Moments,       \* decision times of a day
  MarketsAt,     \* [Days \X Moments -> what the market may look like]
  Failings,      \* sets of specialists that fail in a cycle
  MaxSnapshots,  \* bound: snapshots of a session
  MaxSessions    \* bound: sessions that begin

ASSUME CampaignConstants ==
  /\ Days \subseteq Nat /\ Moments \subseteq Nat
  /\ MaxSnapshots \in Nat /\ MaxSessions \in Nat
  /\ \A f \in Failings : f \subseteq SpecialistNames

\* Prices and lots of a quote; a missing price is 0.
ASSUME CampaignMarkets ==
  \A day \in Days, at \in Moments :
    \A market \in MarketsAt[<<day, at>>] :
      \A c \in DOMAIN market.quotes :
        {market.quotes[c].bid, market.quotes[c].ask, market.quotes[c].ltp,
         market.quotes[c].lot} \subseteq Nat

VARIABLES
  label,     \* the evaluation label of the campaign
  status,    \* CREATED, RUNNING or ENDED
  due,       \* the feeds run() still has to do, by date
  running,   \* run() is in progress
  session,   \* the session in progress
  cycle,     \* the last of the runner's cycles, when its order was filled
  eods,      \* the end-of-day reports
  begun      \* sessions that began, to bound the model

vars == <<label, status, due, running, session, cycle, eods, begun>>

Labels == {"LIVE-PAPER", "FIXTURE"}

NoSession == [day |-> -1]

\* run() has no feed left
NothingDue == [d \in {} |-> <<>>]

NoCycle == [accepted |-> FALSE]

SourceLists == UNION {[1..n -> Sources] : n \in 1..MaxSnapshots}

-----------------------------------------------------------------------------
(* Snapshots                                                               *)

\* What the builders make of a market at a moment of a day.
SnapshotsAt(day, at) ==
  LET markets == MarketsAt[<<day, at>>]
      indices == {IndexList[i] : i \in DOMAIN IndexList}
  IN {AgentSnapshot(m, at, day) : m \in {k \in markets : ~ FromTheFuture(k, at)}}
     \cup {CampaignSnapshot(m, at, day) :
             m \in {k \in markets : AnsweringIndices(k, day) # {}}}
     \cup {FixtureSnapshot(m, i, at, day) : m \in markets, i \in indices}

Given == [p \in Days \X Moments |-> SnapshotsAt(p[1], p[2])]

GivenAny == UNION {Given[p] : p \in Days \X Moments}

\* run_cycle up to the decision.  The session passes no book, so the decision
\* is made on an empty one.
CycleDecision ==
  [c \in GivenAny \X Failings |->
     Decide(c[1], CycleOutputs(c[1], c[2]), SessionOf[c[1].at], EmptyBook)]

-----------------------------------------------------------------------------
(* The session runner                                                      *)

\* start, of a runner and an engine made for this session alone: the first
\* equity point is the starting cash.
NewSession(day, sources) ==
  LET e == NewEngine(day)
  IN [day |-> e.day, trades |-> e.trades, halted |-> e.halted,
      unresolved |-> e.unresolved, dailyHalt |-> e.dailyHalt,
      left |-> sources, at |-> 0, peak |-> CampaignCash, drawdown |-> 0,
      decisions |-> 0, rejected |-> 0]

\* What is open is worth what it cost.
Equity_fault(s) == LedgerCash(s) + OpenCost(s)

\* What is open counts with its gain alone: opening it lowers the curve by its
\* cost.
Equity(s) == LedgerCash(s) + Unrealized(s)

\* _record_equity, and _max_drawdown over the points so far.
WithPoint(s) ==
  LET peak == IF Equity(s) > s.peak THEN Equity(s) ELSE s.peak
      drop == Equity(s) - peak
  IN [s EXCEPT !.peak = peak, !.drawdown = IF drop < @ THEN drop ELSE @]

\* run_cycle, with what the summary counts of it: a decision that is not a
\* candidate is rejected, one that the engine refused is not.
WithDecision(s, snapshot, decision) ==
  [Execute(s, snapshot, decision) EXCEPT
     !.decisions = @ + 1,
     !.rejected = IF DecisionAction(decision) = "NO_TRADE" THEN @ + 1 ELSE @]

WithCycle(s, snapshot, failing) ==
  WithDecision(s, snapshot, CycleDecision[<<snapshot, failing>>])

\* process_snapshot: exits first, then a decision unless the market check
\* failed, then an equity point.
Decided(s, snapshot, failing) ==
  IF GatedQuality(snapshot) = "OK" THEN WithCycle(s, snapshot, failing) ELSE s

Processed(s, snapshot, failing) ==
  WithPoint([Decided(Monitor(s, snapshot), snapshot, failing) EXCEPT
               !.at = snapshot.at, !.left = Tail(@)])

\* build_session_summary and what build_session_eod_report adds to it.
EodOf(s) ==
  LET result(i) == NetOf(s.trades[i])
      closed == ClosedTrades(s)
  IN [day |-> s.day,
      decisions |-> s.decisions,
      rejected |-> s.rejected,
      trades |-> Len(s.trades) + Cardinality(closed),
      gross |-> GrossPnl(s),
      charges |-> GrossPnl(s) - NetPnl(s),
      net |-> NetPnl(s),
      unrealized |-> Unrealized(s),
      drawdown |-> s.drawdown,
      wins |-> Cardinality({i \in closed : result(i) > 0}),
      losses |-> Cardinality({i \in closed : result(i) < 0})]

-----------------------------------------------------------------------------
(* The campaign                                                            *)

\* assert_campaign_snapshot_label
LabelAllows(sources) ==
  /\ sources # {}
  /\ "MIXED" \notin sources
  /\ Cardinality(sources) = 1
  /\ label = "LIVE-PAPER" => sources = {"LIVE"}
  /\ label = "FIXTURE" => sources = {"FIXTURE"}

SourcesOf(sources) == {sources[i] : i \in DOMAIN sources}

\* run_session up to the first snapshot.
Begin(day, sources) ==
  /\ session = NoSession
  /\ begun < MaxSessions
  /\ status # "ENDED"
  /\ LabelAllows(SourcesOf(sources))
  /\ status' = "RUNNING"
  /\ session' = NewSession(day, sources)
  /\ cycle' = NoCycle
  /\ begun' = begun + 1
  /\ UNCHANGED <<label, running, eods>>

\* The caller runs a single session.
RunSession(day, sources) == ~ running /\ Begin(day, sources) /\ UNCHANGED due

\* run() is refused once a session has been begun; the dates of its feeds are
\* distinct, and it does them in their order.
MayRun_fault == status # "ENDED"

MayRun == status = "CREATED" /\ eods = <<>>

Run(plan) ==
  /\ ~ running /\ session = NoSession
  /\ MayRun
  /\ LabelAllows(UNION {SourcesOf(plan[d]) : d \in DOMAIN plan})
  /\ status' = "RUNNING"
  /\ due' = plan
  /\ running' = TRUE
  /\ UNCHANGED <<label, session, cycle, eods, begun>>

NextSession(day) ==
  /\ running
  /\ \A d \in DOMAIN due : day <= d
  /\ Begin(day, due[day])
  /\ due' = [d \in DOMAIN due \ {day} |-> due[d]]

\* One snapshot of the session; they are in the order of their times.
ProcessSnapshot(snapshot, failing) ==
  /\ session.at <= snapshot.at
  /\ snapshot.source = Head(session.left)
  /\ session' = Processed(session, snapshot, failing)
  /\ cycle' = IF Len(session'.trades) > Len(session.trades)
                THEN [accepted |-> TRUE, snapshot |-> snapshot,
                      failing |-> failing]
                ELSE NoCycle
  /\ UNCHANGED <<label, status, due, running, eods, begun>>

\* end, the last equity point, and the report, which is kept once it is written.
EndSession ==
  /\ session.left = <<>>
  /\ eods' = Append(eods, EodOf(WithPoint(session)))
  /\ session' = NoSession
  /\ cycle' = NoCycle
  /\ UNCHANGED <<label, status, due, running, begun>>

\* A call of the session raises, or its report cannot be written: the campaign
\* stays RUNNING without the session, and run() is left.
SessionRaises ==
  /\ session' = NoSession
  /\ cycle' = NoCycle
  /\ running' = FALSE
  /\ due' = NothingDue
  /\ UNCHANGED <<label, status, eods, begun>>

\* run() builds its report and ends the campaign.
FinishRun ==
  /\ running /\ DOMAIN due = {} /\ session = NoSession
  /\ status' = "ENDED"
  /\ running' = FALSE
  /\ UNCHANGED <<label, due, session, cycle, eods, begun>>

Total(field) == MapThenSumSet(LAMBDA i : eods[i][field], DOMAIN eods)

\* report()
Report ==
  [sessions |-> Len(eods),
   decisions |-> Total("decisions"),
   trades |-> Total("trades"),
   rejected |-> Total("rejected"),
   net |-> Total("net"),
   drawdown |-> Min({eods[i].drawdown : i \in DOMAIN eods})]

InSession ==
  /\ session # NoSession
  /\ \/ /\ session.left # <<>>
        /\ \E at \in Moments, failing \in Failings :
             \E snapshot \in Given[<<session.day, at>>] :
               ProcessSnapshot(snapshot, failing)
     \/ EndSession
     \/ SessionRaises

Plans == UNION {[S -> SourceLists] : S \in SUBSET Days}

Init ==
  /\ label \in Labels
  /\ status = "CREATED"
  /\ due = NothingDue
  /\ running = FALSE
  /\ session = NoSession
  /\ cycle = NoCycle
  /\ eods = <<>>
  /\ begun = 0

Next ==
  \/ \E day \in Days, sources \in SourceLists : RunSession(day, sources)
  \/ \E plan \in Plans : Run(plan)
  \/ \E day \in DOMAIN due : NextSession(day)
  \/ InSession
  \/ FinishRun

Spec == Init /\ [][Next]_vars

-----------------------------------------------------------------------------
(* What a campaign must keep                                               *)

\* The integrator judges every decision on an empty book; the limits still
\* hold of what the session has: cash, cost, number of positions, one of a
\* contract, and the risk of each at the price it was filled at.
EntriesFitLedger ==
  session # NoSession =>
    /\ LedgerCash(session) >= 0
    /\ OpenCost(session) <= MaxGrossNotional
    /\ Cardinality(OpenTrades(session)) <= MaxOpenPositions
    /\ \A i, j \in OpenTrades(session) :
         session.trades[i].contract = session.trades[j].contract => i = j
    /\ \A i \in DOMAIN session.trades :
         LET t == session.trades[i]
         IN /\ t.stop < t.entry
            /\ (t.entry - t.stop) * t.quantity <= MaxPerTradeRisk

\* Nothing is bought on a snapshot with a quote that is not of the kind the
\* campaign is labelled with, however the snapshot was built.
OneProvenance ==
  cycle.accepted =>
    FlagsOf(cycle.snapshot.rows) = {label = "FIXTURE"}

\* The drawdown of a report covers its loss: what was lost in closed trades and
\* at the last marks is never more than the drop the equity curve shows.
LossWithinDrawdown ==
  \A i \in DOMAIN eods : eods[i].gross + eods[i].unrealized >= eods[i].drawdown

\* A campaign that ended has one report of every session it began, in the
\* order of their dates, although sessions can be run singly and can raise.
EndedReportsEveryDayOnce ==
  status = "ENDED" =>
    /\ Report.sessions = begun
    /\ \A i, j \in DOMAIN eods : i < j => eods[i].day < eods[j].day

\* What is bought agrees with all of the evidence: every specialist answered,
\* and neither the averages of an index nor a regime all indices share point
\* the other way.
EntryUnopposed ==
  cycle.accepted =>
    LET bought == session.trades[Len(session.trades)].contract
        direction == IF TypeOf[bought] = "CE" THEN "BULLISH" ELSE "BEARISH"
    IN /\ cycle.failing = {}
       /\ TechnicalSides(cycle.snapshot) \subseteq {direction}
       /\ Cardinality(RegimeLabels(cycle.snapshot)) = 1 =>
            RegimeLabels(cycle.snapshot)
              \cap (Directions \cup {"HIGH_VOLATILITY"}) \subseteq {direction}
=============================================================================
