---------------------------- MODULE TrueDataFeed -----------------------------
(***************************************************************************)
(* grow/live_data/truedata.py, the vendor adapter: the connection and its  *)
(* bounded backoff, the map from the vendor's numeric ids to symbols that  *)
(* is only good for one connection, the subscription plan and the ticks.   *)
(*                                                                         *)
(* The adapter is called by one thread.  Each call is one action.  What    *)
(* the vendor does is chosen freely: it refuses, drops the line, sends     *)
(* nothing, sends frames in any order, and numbers the symbols anew on     *)
(* each connection.  A tick names its symbol by text or by number; `of' is *)
(* the symbol the vendor meant, which the code never sees.                 *)
(*                                                                         *)
(* Nobody polls after a connect that raised until one has not: start of    *)
(* the loop (grow/live_data/loop.py) then leaves it CONNECTING, and        *)
(* run_once polls nothing.                                                 *)
(*                                                                         *)
(* A tick's sequence number orders the ticks of a symbol like their stamps *)
(* do, so the stamp stands for both.                                       *)
(*                                                                         *)
(* Left out: the replay transport and ready-made snapshots, which only     *)
(* tests send, catalogs that differ from the first one, logging.           *)
(*                                                                         *)
(* An operator X_fault is X with a programming error; nothing uses it.     *)
(***************************************************************************)
EXTENDS ExpirySelection

CONSTANTS
  IndexOf,         \* [Underlyings -> symbol of the index]
  Options,         \* provider symbols of the catalog's options
  OptionOf,        \* [Options -> option record]
  Today,           \* the day of the session
  PlanSpot,        \* [Underlyings -> Nat]: close of the last bar, 0 for none
  Values,          \* [Symbols -> SUBSET (Nat \ {0})]: prices a tick carries
  Nothing,
  Ids,             \* the vendor's numbers
  Numberings,      \* numberings of the symbols the vendor may use
  Policies,        \* reconnect policies
  StrikeWindow,    \* settings.strike_window
  MaxSymbols,      \* settings.max_symbols
  MaxStaleness,    \* settings.max_staleness_seconds
  MaxAttempts,     \* settings.max_attempts
  MaxBackoff,      \* settings.max_backoff_seconds
  MaxTime,         \* bound: the clock stops here
  MaxLag,          \* bound: age of a tick when it arrives
  MaxLead          \* bound: how far a tick may be ahead of the clock

Indices == {IndexOf[u] : u \in Underlyings}
Symbols == Indices \cup Options
Times == 0..MaxTime
Stampable == 0..(MaxTime + MaxLead)
Never == -1

States == {"DISCONNECTED", "READY", "RUNNING", "DEGRADED", "STOPPED"}

ASSUME AdapterConstants ==
  /\ Indices \cap Options = {}
  /\ \A u, w \in Underlyings : IndexOf[u] = IndexOf[w] => u = w
  /\ \A s \in Symbols : Nothing \notin Values[s]
  /\ Nothing \notin Symbols
  /\ \A n \in Numberings :
       /\ n \in [Symbols -> Ids]
       /\ \A s, t \in Symbols : n[s] = n[t] => s = t
  /\ Policies \subseteq {"bounded_backoff", "fail_closed"}
  /\ {StrikeWindow, MaxSymbols, MaxStaleness, MaxAttempts, MaxBackoff,
      MaxTime, MaxLag, MaxLead} \subseteq Nat
  /\ MaxBackoff > 0

\* A symbol with a price is not a symbol without one.
ASSUME NothingIsNoTick ==
  \A s \in Symbols, v \in UNION {Values[q] : q \in Symbols}, t \in Stampable :
    /\ [of |-> s, value |-> v, at |-> t] # Nothing
    /\ [value |-> v, at |-> t] # Nothing

\* The planner's data: a catalog has one row per provider symbol, and with
\* fewer symbols than indices every plan raises SUBSCRIPTION_LIMIT.
ASSUME PlanConstants ==
  /\ IsFiniteSet(Options) /\ IsFiniteSet(Underlyings)
  /\ Cardinality(Indices) <= MaxSymbols
  /\ PlanSpot \in [Underlyings -> Nat]
  /\ \A s \in Symbols : Values[s] \subseteq Nat
  /\ \A o \in Options :
       /\ OptionOf[o].underlying \in Underlyings
       /\ {OptionOf[o].strike, OptionOf[o].name} \subseteq Nat
       /\ \A p \in Options : OptionOf[o].name = OptionOf[p].name => o = p

VARIABLES
  clock,
  policy,   \* settings.reconnect_policy, fixed when the adapter is built
  feed,     \* the adapter
  line,     \* the vendor's end, and what it was never asked for
  answer    \* what the last call returned; "refused": connect raised

vars == <<clock, policy, feed, line, answer>>

Stopped == {"DISCONNECTED", "STOPPED"}

\* A line: how its vendor numbers the symbols, what was subscribed on it, and
\* what the adapter takes for subscribed though this line never heard of it.
NewLine(n, asked, missed) ==
  [numbering |-> n, subscribed |-> asked, missed |-> missed]

Init ==
  /\ clock = 0
  /\ policy \in Policies
  /\ feed = [state |-> "DISCONNECTED",
             ids |-> [i \in Ids |-> Nothing],      \* _symbol_ids
             ready |-> FALSE,                      \* _mapping_ready
             desired |-> {},                       \* _desired
             told |-> [s \in Symbols |-> Nothing], \* _spots and _quotes
             stamp |-> Never,                      \* _last_at
             active |-> Never,                     \* _last_activity_at
             attempts |-> 0, retryAt |-> Never]    \* _attempts, _retry_at
  /\ \E n \in Numberings : line = NewLine(n, {}, {})
  /\ answer = "none"

-----------------------------------------------------------------------------
(* The plan                                                                *)

\* _subscription_mapped
Mapped(f) ==
  /\ \E i \in Ids : f.ids[i] # Nothing
  /\ \A s \in f.desired : \E i \in Ids : f.ids[i] = s

\* The catalog's options with a class that may be traded.
Listed == {o \in Options : Tradable(OptionOf[o], Today)}

\* _expiry_records, resolved per underlying: a day stays listed, and today's
\* expiry is not traded.
Selected ==
  [u \in Underlyings |->
     Resolve({[expiry |-> OptionOf[o].expiry,
               class |-> Classify(OptionOf[o], Today),
               firstSeen |-> Today - 14, lastSeen |-> Today + 14] :
                o \in {p \in Options : OptionOf[p].underlying = u}},
             ProfileOf[u], Today, FALSE)]

\* The spots a plan is made from: a live one, else the last bar's close.
PlanSpots(f) ==
  [u \in Underlyings |->
     IF f.told[IndexOf[u]] # Nothing THEN f.told[IndexOf[u]].value
                                     ELSE PlanSpot[u]]

Planned(f) ==
  LET records == {OptionOf[o] : o \in Listed}
      count == Cardinality(Indices)
      room == IF MaxSymbols > count THEN MaxSymbols - count ELSE 0
      near == PlanOptions(records, Selected, PlanSpots(f), StrikeWindow, room)
  IN Indices \cup {o \in Listed : OptionOf[o] \in near}

\* _refresh_plan: what the plan adds or drops is told to the vendor.
Replan(f) ==
  LET g == [f EXCEPT !.desired = Planned(f)] IN [g EXCEPT !.ready = Mapped(g)]

Resubscribe_fault(l, f, g) ==
  [l EXCEPT !.subscribed = @ \cup (g.desired \ f.desired),
            !.missed = @ \cap g.desired]

Resubscribe(l, f, g) ==
  [l EXCEPT !.subscribed = (@ \ (f.desired \ g.desired))
                             \cup (g.desired \ f.desired),
            !.missed = @ \cap g.desired]

\* _clear_symbol_map
Unmapped(f) == [f EXCEPT !.ids = [i \in Ids |-> Nothing], !.ready = FALSE]

-----------------------------------------------------------------------------
(* connect and disconnect                                                  *)

Answer(a) == answer' = a /\ UNCHANGED <<clock, policy>>

\* In whatever state the adapter is, the vendor refuses the login, or it is
\* on a new line but the catalog cannot be had: the old map is kept.
ConnectFails ==
  /\ \/ feed' = [feed EXCEPT !.state = "STOPPED"] /\ UNCHANGED line
     \/ /\ feed' = [feed EXCEPT !.state = "DEGRADED", !.active = clock]
        /\ \E n \in Numberings : line' = NewLine(n, {}, feed.desired)
  /\ Answer("refused")

\* In whatever state the adapter is: a new line, and only the difference from
\* the plan it had is told to the vendor.
Connect(n) ==
  /\ feed' = Replan([Unmapped(feed) EXCEPT !.state = "READY",
                                           !.active = clock])
  /\ line' = Resubscribe(NewLine(n, {}, feed.desired), feed, feed')
  /\ Answer("none")

Disconnect ==
  /\ feed' = [Unmapped(feed) EXCEPT !.state = "STOPPED"]
  /\ UNCHANGED line
  /\ Answer("none")

-----------------------------------------------------------------------------
(* Frames.  F is the adapter when it receives, l the line it receives on.  *)

\* Any frame that decodes is a sign of life.
Alive(f) == [f EXCEPT !.active = clock]

Lively(f) ==
  [Alive(f) EXCEPT !.state = IF @ = "READY" THEN "RUNNING" ELSE @]

\* Nothing on the line.
Silence(f, l) == feed' = f /\ line' = l /\ Answer("none")

Heartbeat(f, l) == feed' = Lively(f) /\ line' = l /\ Answer("control")

\* A late answer to the login.
Login(f, l) ==
  /\ line' = l
  /\ \/ feed' = Alive(f) /\ Answer("control")
     \/ feed' = [Alive(f) EXCEPT !.state = "STOPPED"] /\ Answer("raised")

\* symbolsadded: the numbers of some symbols subscribed on this line.
Acknowledge(f, l, S) ==
  LET named(i) == {s \in S : l.numbering[s] = i}
      g == [Alive(f) EXCEPT
              !.ids = [i \in Ids |-> IF named(i) = {} THEN @[i]
                                     ELSE CHOOSE s \in named(i) : TRUE]]
  IN /\ S \subseteq l.subscribed /\ S # {}
     /\ feed' = [g EXCEPT !.ready = Mapped(g)]
     /\ line' = l
     /\ Answer("control")

\* The catalog once more: the plan is made again from the spots of now.
Catalog(f, l) ==
  /\ feed' = Replan(Alive(f))
  /\ line' = Resubscribe(l, f, feed')
  /\ Answer("control")

\* A frame that is no decodable frame of this vendor, an error frame, or one
\* that is refused without a change of state.
Malformed(f, l) ==
  feed' = [f EXCEPT !.state = "DEGRADED"] /\ line' = l /\ Answer("raised")

Error(f, l) ==
  feed' = [Alive(f) EXCEPT !.state = "DEGRADED"] /\ line' = l /\ Answer("raised")

\* _resolve_provider_symbol of a tick meant for s: by its text, or by its
\* number through the map of this connection.
Resolved(f, l, s, byId) ==
  IF ~ byId THEN s
  ELSE IF f.ready THEN f.ids[l.numbering[s]] ELSE Nothing

\* A tick with an unknown number, or not newer than what is known.
TickRefused(f, l, s, byId, t) ==
  LET r == Resolved(f, l, s, byId)
  IN r = Nothing \/ (f.told[r] # Nothing /\ t <= f.told[r].at)

\* _ingest_tick; the first spot of an index makes the plan anew.
Ingested(f, r, s, v, t) ==
  LET g == [f EXCEPT !.told[r] = [of |-> s, value |-> v, at |-> t],
                     !.stamp = t]
  IN IF r \in Indices /\ f.told[r] = Nothing THEN Replan(g) ELSE g

SpotKnown(f) == \E i \in Indices : f.told[i] # Nothing

Stamps == {t \in Stampable : clock - MaxLag <= t /\ t <= clock + MaxLead}

\* A tick of s, and _assemble_snapshot once a spot is known.
Tick(f, l, s, byId, v, t) ==
  IF TickRefused(f, l, s, byId, t)
    THEN feed' = Alive(f) /\ line' = l /\ Answer("raised")
    ELSE LET g == Ingested(f, Resolved(f, l, s, byId), s, v, t)
         IN /\ feed' = IF SpotKnown(g) THEN Lively(g) ELSE Alive(g)
            /\ line' = Resubscribe(l, f, g)
            /\ Answer(IF SpotKnown(g) THEN "snapshot" ELSE "none")

-----------------------------------------------------------------------------
(* poll                                                                    *)

MinOf(a, b) == IF a < b THEN a ELSE b
MaxOf(a, b) == IF a > b THEN a ELSE b

\* _activity_stale
Silent == feed.active # Never /\ clock - feed.active > MaxStaleness

\* The caller: it polls once its last connect has not raised.
Polled == answer # "refused"

PollStopped ==
  /\ Polled
  /\ feed.state \in Stopped
  /\ UNCHANGED <<feed, line>>
  /\ Answer("none")

\* Too long a silence: every later poll fails here too.
PollSilent ==
  /\ Polled
  /\ feed.state \notin Stopped
  /\ Silent
  /\ feed' = [feed EXCEPT !.state = "DEGRADED"]
  /\ UNCHANGED line
  /\ Answer("raised")

Listens_fault == Polled /\ feed.state \notin Stopped

Listens == Polled /\ feed.state \notin Stopped /\ ~ Silent

Backoff == policy = "bounded_backoff"

Recovers(f) == f.state = "DEGRADED" /\ Backoff

\* _reconnect_poll of f, up to its outcome.
Exhausted(f) == f.attempts >= MaxAttempts

GivesUp(f) ==
  /\ Exhausted(f)
  /\ feed' = [f EXCEPT !.state = "STOPPED"]
  /\ UNCHANGED line
  /\ Answer("raised")

Scheduled_fault(f) ==
  [f EXCEPT !.retryAt = clock + MinOf(MaxBackoff, MaxOf(1, 2 ^ f.attempts))]

Scheduled(f) ==
  IF f.retryAt # Never THEN f
  ELSE [f EXCEPT !.retryAt =
                   clock + MinOf(MaxBackoff, MaxOf(1, 2 ^ f.attempts))]

Waits(f) ==
  /\ ~ Exhausted(f)
  /\ clock < Scheduled(f).retryAt
  /\ feed' = Scheduled(f)
  /\ UNCHANGED line
  /\ Answer("none")

Attempts(f) == ~ Exhausted(f) /\ clock >= Scheduled(f).retryAt

Attempt_fault(f) == [f EXCEPT !.attempts = @ + 1]

Attempt(f) == [Unmapped(f) EXCEPT !.attempts = @ + 1]

AttemptFails(f) ==
  /\ Attempts(f)
  /\ feed' = [Attempt(f) EXCEPT
                !.retryAt = clock + MinOf(MaxBackoff, 2 ^ (f.attempts + 1))]
  /\ UNCHANGED line
  /\ Answer("none")

Recover(f) == GivesUp(f) \/ Waits(f) \/ AttemptFails(f)

\* Resubscribed on a new line; the same poll goes on to receive.
Restored(f) == [Attempt(f) EXCEPT !.state = "RUNNING", !.retryAt = Never]

\* _on_feed_error: the line is lost while receiving, or a frame says so.
Lost(f) == [Unmapped(f) EXCEPT !.state = "DEGRADED"]

LineLost(f) ==
  IF Backoff THEN Recover(Lost(f))
  ELSE feed' = Lost(f) /\ UNCHANGED line /\ Answer("raised")

Frame(f, l) ==
  \/ Silence(f, l)
  \/ Heartbeat(f, l)
  \/ Login(f, l)
  \/ \E S \in SUBSET Symbols : Acknowledge(f, l, S)
  \/ Catalog(f, l)
  \/ Malformed(f, l)
  \/ Error(f, l)
  \/ \E s \in l.subscribed, byId \in BOOLEAN, t \in Stamps :
       \E v \in Values[s] : Tick(f, l, s, byId, v, t)

\* The lines a resubscription of f may get.
NewLines(f) ==
  {NewLine(n, f.desired, {}) : n \in Numberings}

PollReceives == Listens /\ ~ Recovers(feed) /\ Frame(feed, line)

PollLoses ==
  Listens /\ ~ Recovers(feed) /\ (LineLost(feed) \/ LineLost(Alive(feed)))

PollRecovers == Listens /\ Recovers(feed) /\ Recover(feed)

PollRestores ==
  /\ Listens
  /\ Recovers(feed)
  /\ Attempts(feed)
  /\ \/ \E l \in NewLines(feed) : Frame(Restored(feed), l)
     \/ LineLost(Restored(feed))

Poll ==
  PollStopped \/ PollSilent \/ PollReceives \/ PollLoses \/ PollRecovers
    \/ PollRestores

ClockTick ==
  /\ clock < MaxTime
  /\ clock' = clock + 1
  /\ UNCHANGED <<policy, feed, line, answer>>

Next ==
  \/ ClockTick
  \/ ConnectFails
  \/ \E n \in Numberings : Connect(n)
  \/ Disconnect
  \/ Poll

\* Nothing but the adapter decides what a poll does while it recovers.
Recovery == PollSilent \/ PollRecovers \/ PollRestores

\* The loop's runner keeps polling and time passes; what comes down the line
\* is up to the vendor.
Spec == Init /\ [][Next]_vars /\ WF_vars(Recovery) /\ WF_vars(ClockTick)

-----------------------------------------------------------------------------
(* Properties                                                              *)

Told == [of: Symbols, value: UNION {Values[s] : s \in Symbols}, at: Stampable]

\* Every variable has its type.
TypeOK ==
  /\ clock \in Times
  /\ policy \in Policies
  /\ feed.state \in States
  /\ feed.ids \in [Ids -> Symbols \cup {Nothing}]
  /\ feed.ready \in BOOLEAN
  /\ feed.desired \subseteq Symbols
  /\ feed.told \in [Symbols -> Told \cup {Nothing}]
  /\ feed.stamp \in Stampable \cup {Never}
  /\ feed.active \in Times \cup {Never}
  /\ feed.attempts \in 0..MaxAttempts
  /\ feed.retryAt \in Int
  /\ line.numbering \in Numberings
  /\ line.subscribed \subseteq Symbols
  /\ line.missed \subseteq Symbols
  /\ answer \in {"none", "raised", "refused", "control", "snapshot"}

\* What is booked for a symbol is what the vendor said of that symbol,
\* however often the line was lost and the symbols numbered anew
\* (_clear_symbol_map before every use of a new connection).
TicksMeanTheirSymbol ==
  \A s \in Symbols : feed.told[s] # Nothing => feed.told[s].of = s

\* An adapter that resolves numbers has one for every symbol it wants
\* (_subscription_mapped after every change of the plan or of the map).
ReadyMeansMapped == feed.ready => Mapped(feed)

\* While the adapter is up the vendor sends what the plan asks for, no more,
\* and no less than what this line was told: _refresh_plan tells it every
\* difference and a backoff tells it everything, but connect() on an adapter
\* with a plan takes what was planned for subscribed.
LineFollowsPlan ==
  feed.state \in {"READY", "RUNNING"} =>
    line.subscribed = feed.desired \ line.missed

\* Over any number of plans, losses and connections the line carries what it
\* was told, of which only a connect() leaves anything out, and the plan keeps
\* the vendor's limit (subscribe would raise SUBSCRIPTION_LIMIT).
SubscribedAsPlanned ==
  /\ LineFollowsPlan
  /\ Cardinality(feed.desired) <= MaxSymbols

\* Under the backoff a degraded adapter does not stay so: another attempt is
\* made, or it gives up, unless the silence has lasted too long or another
\* connect raises (_reconnect_poll).
RecoveryDecided ==
  \A n \in 0..MaxAttempts :
    (/\ feed.state = "DEGRADED" /\ Backoff
     /\ feed.attempts = n
     /\ feed.retryAt \in Times)
      ~> (feed.state # "DEGRADED" \/ feed.attempts > n \/ Silent \/ ~ Polled)

\* A silence longer than the limit is for good: no poll hears the vendor
\* again or tries a reconnection (_activity_stale comes first in poll), only
\* another connect starts anew.
SilentForGood ==
  [][Silent =>
       /\ feed'.told = feed.told
       /\ feed'.attempts = feed.attempts
       /\ \/ feed'.active = feed.active
          \/ ConnectFails \/ \E n \in Numberings : Connect(n)]_vars

\* The vendor adapter is a provider as the loop knows one.
Provider ==
  INSTANCE MarketFeed WITH
    health <- feed.state,
    Spots <- Indices,
    told <- [s \in Symbols |->
               IF feed.told[s] = Nothing THEN Nothing
               ELSE [value |-> feed.told[s].value, at |-> feed.told[s].at]],
    stamp <- feed.stamp,
    answer <- IF answer = "refused" THEN "raised" ELSE answer

\* Every call does what the abstract provider allows: what it tells of a
\* symbol is one of its values, dated within the lag, and a snapshot has a
\* spot.
ImplementsMarketFeed == Provider!FeedSpec
=============================================================================
