----------------------------- MODULE OptionsEngine -----------------------------
(***************************************************************************)
(* The 2C options engine (grow/options/): which contract of a chain a      *)
(* signal buys.  All of it is pure.                                        *)
(*                                                                         *)
(* A chain is a record [today, at, spot, contracts, quotes]: quotes gives  *)
(* of each of the contracts NothingTold or [value, at], where value is     *)
(* [bid, ask, ltp, volume, oi] and a missing price is 0.  Prices           *)
(* are integers in ticks of 0.05, times in units of the age limits.        *)
(*                                                                         *)
(* Left out: implied volatility and Greeks (a contract without them passes *)
(* their checks and scores 0 for them), ids and rejected-contract reasons. *)
(*                                                                         *)
(* Valid_fault is Valid with a programming error; nothing uses it.         *)
(***************************************************************************)
EXTENDS ExpiryChoice, Strategies

CONSTANTS
  Listed,           \* option contracts of the catalog
  UnderlyingOf,     \* [Listed -> index]
  TypeOf,           \* [Listed -> {"CE", "PE"}]
  StrikeOf,         \* [Listed -> Nat]
  ExpiryOf,         \* [Listed -> Nat], dates
  ClassOf,          \* [Listed -> Classes]: class of the contract's expiry
  NothingTold,      \* no quote was told of a contract
  ProfileFor,       \* [index -> Profiles]
  AllowSameDay,     \* options.expiry.allow_same_day
  MaxQuoteAge,      \* options.freshness.max_quote_age_minutes
  StrikeDistance,   \* options.strikes.max_distance_from_atm
  AllowedMoneyness, \* options.strikes.allowed_moneyness
  MinVolume, MinOpenInterest,
  MaxSpreadPct      \* options.liquidity.max_spread_pct, in percent

ASSUME OptionsParameters ==
  /\ StrikeOf \in [Listed -> Nat]
  /\ ExpiryOf \in [Listed -> Nat]
  /\ TypeOf \in [Listed -> {"CE", "PE"}]
  /\ ClassOf \in [Listed -> Classes]
  /\ AllowSameDay \in BOOLEAN
  /\ AllowedMoneyness \subseteq {"ATM", "ITM", "OTM"}
  /\ {MaxQuoteAge, StrikeDistance, MinVolume, MinOpenInterest, MaxSpreadPct}
       \subseteq Nat

\* A catalog is finite, and of two contracts of one identity only the first is
\* looked at (DUPLICATE_CONTRACT).
ASSUME CatalogContracts ==
  /\ IsFiniteSet(Listed)
  /\ \A c, d \in Listed :
       <<UnderlyingOf[c], ExpiryOf[c], StrikeOf[c], TypeOf[c]>>
         = <<UnderlyingOf[d], ExpiryOf[d], StrikeOf[d], TypeOf[d]>> => c = d

NoContract == "no contract"

-----------------------------------------------------------------------------
(* The contracts of a chain                                                *)

HasBoth(v) == v.bid > 0 /\ v.ask > 0

\* Twice the premium: the middle of bid and ask, else the last price.
Premium2(v) == IF HasBoth(v) THEN v.bid + v.ask ELSE 2 * v.ltp

Valid_fault(c, chain) ==
  /\ chain.quotes[c] # NothingTold
  /\ chain.quotes[c].at <= chain.at
  /\ ExpiryOf[c] >= chain.today
  /\ LET v == chain.quotes[c].value
     IN ~ (HasBoth(v) /\ v.ask < v.bid) /\ Premium2(v) > 0

\* _contract_reason finds nothing: the quote is neither from the future nor
\* old, not crossed and has a price; the contract has not expired.
Valid(c, chain) ==
  /\ chain.quotes[c] # NothingTold
  /\ chain.quotes[c].at <= chain.at
  /\ chain.at - chain.quotes[c].at <= MaxQuoteAge
  /\ ExpiryOf[c] >= chain.today
  /\ LET v == chain.quotes[c].value
     IN ~ (HasBoth(v) /\ v.ask < v.bid) /\ Premium2(v) > 0

\* validate_chain
Kept(chain) == {c \in chain.contracts : Valid(c, chain)}

\* The expiry to trade, of all that are listed.
SelectedExpiry(chain, underlying) ==
  ChooseExpiry({[day |-> ExpiryOf[c], class |-> ClassOf[c]] :
                  c \in chain.contracts},
               ProfileFor[underlying], chain.today, AllowSameDay)

\* atm_strike: the nearest strike, the lower of two.
AtmStrike(spot, strikes) ==
  CHOOSE s \in strikes : \A t \in strikes \ {s} :
    \/ Magnitude(s - spot) < Magnitude(t - spot)
    \/ Magnitude(s - spot) = Magnitude(t - spot) /\ s < t

\* strike_window: so many listed strikes on either side of the money.
StrikeWindow(spot, strikes) ==
  LET atm == AtmStrike(spot, strikes)
      between(s) == {t \in strikes : (atm < t /\ t <= s) \/ (s <= t /\ t < atm)}
  IN {s \in strikes : Cardinality(between(s)) <= StrikeDistance}

Moneyness(type, spot, strike, atm) ==
  IF strike = atm THEN "ATM"
  ELSE IF IF type = "CE" THEN strike < spot ELSE strike > spot
    THEN "ITM" ELSE "OTM"

Intrinsic(type, spot, strike) ==
  LET worth == IF type = "CE" THEN spot - strike ELSE strike - spot
  IN IF worth > 0 THEN worth ELSE 0

AllowedType(direction) == IF direction = "BULLISH" THEN "CE" ELSE "PE"

\* _liquidity_reason: volume, open interest and spread against the middle.
Liquid(v) ==
  /\ v.volume >= MinVolume
  /\ v.oi >= MinOpenInterest
  /\ HasBoth(v)
  /\ 200 * (v.ask - v.bid) <= MaxSpreadPct * (v.bid + v.ask)

\* score_contract over the parts a chain without volatilities has; the chain
\* is as old as the snapshot.
Score(c, chain, atm) ==
  LET v == chain.quotes[c].value
      kind == Moneyness(TypeOf[c], chain.spot, StrikeOf[c], atm)
      money == CASE kind = "ATM" -> 10000 [] kind = "ITM" -> 7000 [] OTHER -> 4500
      oi == Share(v.oi, IF MinOpenInterest > 0 THEN 4 * MinOpenInterest ELSE 1)
      volume == Share(v.volume, IF MinVolume > 0 THEN 4 * MinVolume ELSE 1)
      tight == IF MaxSpreadPct = 0 THEN 0
               ELSE 10000 - Share(200 * (v.ask - v.bid),
                                  MaxSpreadPct * (v.bid + v.ask))
      days == ExpiryOf[c] - chain.today
      tenor == CASE days <= 0 -> 0
                 [] days = 1 -> 5500
                 [] days <= 10 -> 10000
                 [] OTHER -> 5000
  IN (12 * 10000 + 12 * money + 5 * (oi + volume) + 12 * tight + 10 * oi
        + 10 * volume + 10 * tenor + 8 * 10000) \div 100

\* Contracts of the wanted side near the money that can be traded.
Tradeable(chain, underlying, type) ==
  LET expiry == SelectedExpiry(chain, underlying)
      dated == {c \in Kept(chain) : ExpiryOf[c] = expiry}
      strikes == {StrikeOf[c] : c \in dated}
      atm == AtmStrike(chain.spot, strikes)
  IN IF Cardinality(strikes) < 2 THEN {}   \* NO_STRIKE_STEP
     ELSE {c \in dated :
             LET v == chain.quotes[c].value
             IN /\ TypeOf[c] = type
                /\ StrikeOf[c] \in StrikeWindow(chain.spot, strikes)
                /\ Moneyness(type, chain.spot, StrikeOf[c], atm)
                     \in AllowedMoneyness
                /\ Liquid(v)
                /\ Premium2(v) - 2 * Intrinsic(type, chain.spot, StrikeOf[c])
                     >= -2}

\* rank_key: score, open interest, volume, spread, strike.
Outranks(c, d, chain, atm) ==
  LET v == chain.quotes[c].value
      w == chain.quotes[d].value
      key(k) == <<Score(k, chain, atm), chain.quotes[k].value.oi,
                  chain.quotes[k].value.volume>>
      cSpread == (v.ask - v.bid) * (w.bid + w.ask)
      dSpread == (w.ask - w.bid) * (v.bid + v.ask)
  IN \/ \E j \in 1..3 : /\ key(c)[j] > key(d)[j]
                        /\ \A i \in 1..(j - 1) : key(c)[i] = key(d)[i]
     \/ /\ key(c) = key(d)
        /\ \/ cSpread < dSpread
           \/ cSpread = dSpread /\ StrikeOf[c] < StrikeOf[d]

\* IndexOptionsEngine.evaluate: the candidate, or NoContract.
BestContract(chain, underlying, direction) ==
  LET choice == Tradeable(chain, underlying, AllowedType(direction))
      strikes == {StrikeOf[c] : c \in {k \in Kept(chain) :
                    ExpiryOf[k] = SelectedExpiry(chain, underlying)}}
      atm == AtmStrike(chain.spot, strikes)
  IN IF choice = {} THEN NoContract
     ELSE CHOOSE c \in choice :
            \A d \in choice \ {c} : Outranks(c, d, chain, atm)

=============================================================================
