--------------------------- MODULE CampaignOptions ---------------------------
(***************************************************************************)
(* Which contract a campaign may buy and which one it would like to buy:   *)
(* the chain filter (grow/decision/integration/chain_filter.py), the       *)
(* ranking (campaign_score.py) and the agent that uses both over all       *)
(* indices of a snapshot (grow/agents/campaign_options/).  All of it is    *)
(* pure.                                                                   *)
(*                                                                         *)
(* Left out: the reason codes of a rejection and the counts of candidates  *)
(* per reason.                                                             *)
(***************************************************************************)
EXTENDS AgentSnapshot, FiniteSetsExt

CONSTANTS
  CampaignCash,     \* paper.starting_cash, what the agent can afford
  CampaignRisk,     \* risk.max_per_trade_risk
  MaxChainAge       \* options.freshness.max_chain_age_minutes

ASSUME CampaignBudget == {CampaignCash, CampaignRisk, MaxChainAge} \subseteq Nat

-----------------------------------------------------------------------------
(* Direction                                                               *)

\* The closes known of an index (_history_closes_for): by index, or the
\* shared ones when it is the only index of the snapshot.
HistoryOf(snapshot, index) ==
  IF index \in DOMAIN snapshot.closes /\ snapshot.closes[index] # NoCloses
    THEN snapshot.closes[index]
  ELSE IF Cardinality(DOMAIN snapshot.under) = 1 THEN snapshot.shared
  ELSE NoCloses

\* The sum of the last n closes.
LastSum(closes, n) ==
  MapThenSumSet(LAMBDA i : closes[i], (Len(closes) - n + 1)..Len(closes))

\* The 5-bar average against the 14-bar one.  With less history the code
\* takes the five prices of the view, which are too few for an average.
AverageSide(closes) ==
  IF Len(closes) < 14 THEN "NONE"
  ELSE LET fast == 14 * LastSum(closes, 5)
           slow == 5 * LastSum(closes, 14)
       IN CASE fast > slow -> "BULLISH"
            [] fast < slow -> "BEARISH"
            [] OTHER -> "NONE"

RowsOf(snapshot, index) ==
  {c \in DOMAIN snapshot.rows : UnderlyingOf[c] = index}

\* _direction_from_snapshot: without averages, a chain of calls alone is
\* bullish and one of puts alone bearish.
IndexDirection(snapshot, index) ==
  LET side == AverageSide(HistoryOf(snapshot, index))
      types == {TypeOf[c] : c \in RowsOf(snapshot, index)}
  IN CASE side # "NONE" -> side
       [] types = {"CE"} -> "BULLISH"
       [] types = {"PE"} -> "BEARISH"
       [] OTHER -> "NONE"

-----------------------------------------------------------------------------
(* The chain filter                                                        *)

UsableRows(snapshot, index) ==
  {c \in RowsOf(snapshot, index) : snapshot.rows[c].ok}

\* _expiries and _require_tradable_expiries: one row without a class, or two
\* classes of one date, and nothing of the index may be traded.
ClassesKnown(snapshot, index) ==
  \A c, d \in UsableRows(snapshot, index) :
    /\ snapshot.rows[c].class \in Classes
    /\ ExpiryOf[c] = ExpiryOf[d] => snapshot.rows[c].class = snapshot.rows[d].class

CampaignExpiry(snapshot, index) ==
  ChooseExpiry({[day |-> ExpiryOf[c], class |-> snapshot.rows[c].class] :
                  c \in UsableRows(snapshot, index)},
               ProfileFor[index], snapshot.today, AllowSameDay)

\* _quote_reject_reason finds nothing
QuotePasses(row) ==
  /\ row.ltp > 0
  /\ HasBoth(row)
  /\ row.ask >= row.bid
  /\ 200 * (row.ask - row.bid) <= MaxSpreadPct * (row.bid + row.ask)

\* The rows of the chosen expiry and side, on whose strikes the window lies.
TypedRows(snapshot, index, direction, expiry) ==
  {c \in UsableRows(snapshot, index) :
     ExpiryOf[c] = expiry /\ TypeOf[c] = AllowedType(direction)}

\* The strike at the money of those rows.
AtmOf(snapshot, index, rows) ==
  AtmStrike(snapshot.under[index].ltp, {StrikeOf[c] : c \in rows})

Near(snapshot, rows, spot, atm) ==
  {c \in rows :
     /\ StrikeOf[c] \in StrikeWindow(spot, {StrikeOf[d] : d \in rows})
     /\ QuotePasses(snapshot.rows[c])
     /\ Moneyness(TypeOf[c], spot, StrikeOf[c], atm) \in AllowedMoneyness}

EligibleOf(snapshot, index, rows) ==
  IF rows = {} THEN {}
  ELSE Near(snapshot, rows, snapshot.under[index].ltp,
            AtmOf(snapshot, index, rows))

\* filter_campaign_chain: the contracts that may be bought.  A single strike
\* is its own window.
CampaignEligible(snapshot, index, direction) ==
  IF \/ index \notin DOMAIN snapshot.under
     \/ snapshot.under[index].ltp = 0
     \/ ~ ClassesKnown(snapshot, index)
    THEN {}
    ELSE EligibleOf(snapshot, index,
                    TypedRows(snapshot, index, direction,
                              CampaignExpiry(snapshot, index)))

\* allow_campaign_candidate
AllowsCandidate(snapshot, candidate) ==
  candidate.contract \in CampaignEligible(snapshot, candidate.index,
                                          candidate.direction)

-----------------------------------------------------------------------------
(* The agent                                                               *)

\* premium_stop_loss: a fifth below the ask, one tick at least.
PremiumStop(ask) == IF (4 * ask) \div 5 > 1 THEN (4 * ask) \div 5 ELSE 1

\* What a feasible row costs is what the guard will hold it against: the
\* cash rule and the risk per trade.
\* evaluate_campaign_feasibility; the agent buys one lot.
Feasible(row) ==
  /\ row.lot >= 1
  /\ row.ask * row.lot <= CampaignCash
  /\ (row.ask - PremiumStop(row.ask)) * row.lot <= CampaignRisk

\* What the options engine calls a chain, of the rows of a snapshot.
ChainOf(snapshot, index) ==
  [today |-> snapshot.today, spot |-> snapshot.under[index].ltp,
   quotes |-> [c \in RowsOf(snapshot, index) |-> [value |-> snapshot.rows[c]]]]

\* score_campaign_quote: a row is as old as its quote.
CampaignScore(c, snapshot, atm) ==
  Score(c, ChainOf(snapshot, UnderlyingOf[c]), atm)
    - (8 * Share(snapshot.rows[c].age, MaxChainAge)) \div 100

\* rank_campaign_quotes: score, open interest, volume, spread, strike.
RankedBefore(c, d, snapshot, scores) ==
  LET v == snapshot.rows[c]
      w == snapshot.rows[d]
      key(k) == <<scores[k], snapshot.rows[k].oi, snapshot.rows[k].volume>>
      cSpread == (v.ask - v.bid) * (w.bid + w.ask)
      dSpread == (w.ask - w.bid) * (v.bid + v.ask)
  IN \/ \E j \in 1..3 : /\ key(c)[j] > key(d)[j]
                        /\ \A i \in 1..(j - 1) : key(c)[i] = key(d)[i]
     \/ /\ key(c) = key(d)
        /\ \/ cSpread < dSpread
           \/ cSpread = dSpread /\ StrikeOf[c] < StrikeOf[d]

\* What the agent finds for one index: its direction, and the winner of its
\* feasible contracts with its score.
NoPick(direction) == [direction |-> direction, contract |-> NoContract, score |-> 0]

FirstRanked(snapshot, direction, scores) ==
  LET first(c) == \A d \in DOMAIN scores \ {c} :
                    RankedBefore(c, d, snapshot, scores)
      Pick(c) == [direction |-> direction, contract |-> c, score |-> scores[c]]
  IN IF scores = <<>> THEN NoPick(direction)
     ELSE Pick(CHOOSE c \in DOMAIN scores : first(c))

ScoresOf(snapshot, eligible, atm) ==
  [c \in {d \in eligible : Feasible(snapshot.rows[d])} |->
     CampaignScore(c, snapshot, atm)]

IndexPick(snapshot, index, direction) ==
  IF direction = "NONE" THEN NoPick(direction)
  ELSE FirstRanked(snapshot, direction,
         ScoresOf(snapshot, CampaignEligible(snapshot, index, direction),
                  AtmOf(snapshot, index,
                        TypedRows(snapshot, index, direction,
                                  CampaignExpiry(snapshot, index)))))

\* Of the indices in their order
Picks(snapshot) ==
  [i \in {j \in DOMAIN IndexList : IndexList[j] \in DOMAIN snapshot.under} |->
     IndexPick(snapshot, IndexList[i], IndexDirection(snapshot, IndexList[i]))]

NoCandidate ==
  [contract |-> NoContract, index |-> "none", direction |-> "NONE",
   price |-> 0, stop |-> 0, quantity |-> 0]

\* The payload of a winner.
CandidateOf(row, contract, direction) ==
  [contract |-> contract, index |-> UnderlyingOf[contract],
   direction |-> direction, price |-> row.ask,
   stop |-> PremiumStop(row.ask), quantity |-> row.lot]

\* CampaignOptionsAgent._analyze: the best of the winners of the indices.  Of
\* two equal ones it is the first by name; here, the one listed first.
BestPick(snapshot, picks) ==
  LET placed == {i \in DOMAIN picks : picks[i].contract # NoContract}
      best(i) == \A j \in placed \ {i} :
                   \/ picks[i].score > picks[j].score
                   \/ picks[i].score = picks[j].score /\ i < j
      Bought(pick) == CandidateOf(snapshot.rows[pick.contract], pick.contract,
                                  pick.direction)
  IN IF placed = {} THEN NoCandidate
     ELSE Bought(picks[CHOOSE i \in placed : best(i)])

\* The direction the agent reports: that of its candidate, else of the first
\* index that has one.
ReportedDirection(candidate, picks) ==
  LET S == {i \in DOMAIN picks : picks[i].direction # "NONE"}
  IN IF candidate # NoCandidate THEN candidate.direction
     ELSE IF S # {} THEN picks[Earliest(S)].direction ELSE "NONE"
=============================================================================
