----------------------------- MODULE MarketFeed ------------------------------
(***************************************************************************)
(* What the 3A loop may rely on from a LiveDataProvider                    *)
(* (grow/live_data/provider.py and the three calls the loop makes:         *)
(* connect, poll and disconnect), whatever vendor is behind it.            *)
(*                                                                         *)
(* A provider has a health state, what it was told of each symbol, and the *)
(* answer of its last call: nothing, an error, a control frame or a        *)
(* snapshot made of everything told so far.                                *)
(*                                                                         *)
(* TrueDataFeed is shown to implement this, and LivePaperLoop is composed  *)
(* with it.                                                                *)
(***************************************************************************)
EXTENDS Integers

CONSTANTS
  Symbols,   \* provider symbols
  Values,    \* [Symbols -> SUBSET Value]: what a tick may say of the symbol
  Nothing,   \* nothing was told of the symbol
  Spots,     \* the index symbols: a snapshot needs one that was told
  MaxTime,   \* bound: the clock stops here
  MaxLag,    \* bound: age of a tick when it arrives
  MaxLead    \* bound: how far a tick may be ahead of the clock

Times == 0..MaxTime

Stampable == 0..(MaxTime + MaxLead)

Healths == {"DISCONNECTED", "CONNECTING", "READY", "RUNNING", "DEGRADED",
            "STOPPED"}

Answers == {"none", "raised", "control", "snapshot"}

ASSUME FeedConstants ==
  /\ Spots \subseteq Symbols
  /\ \A s \in Symbols : Nothing \notin Values[s]
  /\ MaxTime \in Nat
  /\ MaxLag \in Nat
  /\ MaxLead \in Nat

VARIABLES
  clock,
  health,   \* the provider's state
  told,     \* [Symbols -> Nothing or [value, at]]
  stamp,    \* time of the last tick, which dates a snapshot
  answer

feedVars == <<health, told, stamp, answer>>

Off == {"DISCONNECTED", "CONNECTING", "STOPPED"}

FeedInit ==
  /\ health = "DISCONNECTED"
  /\ told = [s \in Symbols |-> Nothing]
  /\ stamp = -1
  /\ answer = "none"

\* connect, at any time: authenticated, refused, or without a catalog.
FeedConnect ==
  /\ \/ health' = "READY" /\ answer' = "none"
     \/ health' \in {"STOPPED", "DEGRADED"} /\ answer' = "raised"
  /\ UNCHANGED <<told, stamp>>

FeedDisconnect ==
  /\ health' = "STOPPED"
  /\ answer' = "none"
  /\ UNCHANGED <<told, stamp>>

Stamps == {t \in Stampable : clock - MaxLag <= t /\ t <= clock + MaxLead}

\* A provider that is off answers nothing until it is connected.
PollOff ==
  /\ health \in Off
  /\ answer' = "none"
  /\ UNCHANGED <<health, told, stamp>>

PollFails ==
  /\ health \notin Off
  /\ health' \in {health, "RUNNING", "DEGRADED", "STOPPED"}
  /\ answer' = "raised"
  /\ UNCHANGED <<told, stamp>>

PollIdles ==
  /\ health \notin Off
  /\ health' \in {health, "RUNNING", "DEGRADED"}
  /\ answer' \in {"none", "control"}
  /\ UNCHANGED <<told, stamp>>

\* A tick of s is told as a tick of s; with a spot known it makes a snapshot.
PollTells(s) ==
  /\ health \notin Off
  /\ health' \in {health, "RUNNING"}
  /\ \E v \in Values[s], t \in Stamps :
       /\ told' = [told EXCEPT ![s] = [value |-> v, at |-> t]]
       /\ stamp' = t
  /\ answer' = (IF \E i \in Spots : told'[i] # Nothing THEN "snapshot"
                                                       ELSE "none")

FeedPoll == PollOff \/ PollFails \/ PollIdles \/ \E s \in Symbols : PollTells(s)

FeedTick == clock < MaxTime /\ clock' = clock + 1 /\ UNCHANGED feedVars

FeedNext ==
  \/ FeedTick
  \/ (FeedConnect \/ FeedDisconnect \/ FeedPoll) /\ UNCHANGED clock

FeedSpec == clock = 0 /\ FeedInit /\ [][FeedNext]_<<clock, feedVars>>
=============================================================================
