----------------------------- MODULE Qualification -----------------------------
(***************************************************************************)
(* How a historical dataset gets its qualification: the checks of the      *)
(* provider evaluation (grow/history/eval.py), the expiries it             *)
(* reconstructs (grow/history/expiry.py) against those the options engine  *)
(* would choose, the indices it discovers (grow/history/universe.py), and  *)
(* the datasets that come from recorded vendor files                       *)
(* (grow/history/integrate/).  All of it is pure.                          *)
(*                                                                         *)
(* The registry of approved indices is the domain of ProfileFor.  Sessions *)
(* are entered in the order of their days.                                 *)
(*                                                                         *)
(* Left out: dates between which a policy is active, the reload of a dump, *)
(* which gives the same dataset back, which fingerprint a record is kept   *)
(* under, and recorded files that are refused.                             *)
(*                                                                         *)
(* An operator X_fault is X with a programming error; nothing uses it.     *)
(***************************************************************************)
EXTENDS Backtest

CONSTANTS
  ProbeDays,     \* days from the probe's first quote to its expiry
  ProbeStrike    \* its strike

ASSUME ProbeParameters == {ProbeDays, ProbeStrike} \subseteq Nat

Qualifications ==
  {"REJECTED", "QUALIFIED_WITH_WARNINGS", "QUALIFIED",
   "QUALIFIED_FOR_ADAPTER_TESTING", "APPROVED_FOR_2E"}

\* ProviderEvaluationRunner leaves with an exception.
NoQualification == "RAISED"

-----------------------------------------------------------------------------
(* Expiries                                                                *)

\* The moments looked at: the cadence of every open day, within its session or
\* not.
SampleSlots(store) ==
  LET cadence == IF store.cadence = {} THEN {DecisionOffset, SquareOffOffset}
                                       ELSE store.cadence
  IN {MomentOf(day, o) : day \in OpenDays(store), o \in cadence}

\* expiry_records: an expiry is listed from the first of its contracts to the
\* last one, also while none of them is.
ExpiryRecords(store, index) ==
  LET contracts == {c \in DOMAIN store.master : UnderlyingOf[c] = index}
      peers(c) == {d \in contracts : /\ ExpiryOf[d] = ExpiryOf[c]
                                     /\ ClassOf[d] = ClassOf[c]}
  IN {[day |-> ExpiryOf[c], class |-> ClassOf[c],
       first |-> Earliest({store.master[d].first : d \in peers(c)}),
       last |-> Latest({store.master[d].last : d \in peers(c)})] : c \in contracts}

\* universe_at
UniverseAt(store, index, t) ==
  {r \in ExpiryRecords(store, index) : r.first <= t /\ t <= r.last}

\* An index without a policy is taken for one that prefers weeklies.
EvaluatedProfile(index) ==
  IF index \in DOMAIN ProfileFor THEN ProfileFor[index] ELSE "WEEKLY_PREFERRED"

Nearby(store, index, t, sameDay) ==
  ChooseExpiry(UniverseAt(store, index, t), EvaluatedProfile(index), DateAt(t),
               sameDay)

\* resolve_nearest_expiry of the universe.
ResolvedExpiry(store, index, t) == Nearby(store, index, t, AllowSameDay)

\* _two_c_expiry: what the options engine chooses from the chain; without one
\* the resolver answers for it, and does not ask whether the same day is allowed.
EngineExpiry(store, index, t) ==
  IF ChainAt(store, index, t) = {} THEN Nearby(store, index, t, FALSE)
  ELSE ChooseExpiry({[day |-> ExpiryOf[c], class |-> ClassOf[c]] :
                       c \in ListedAt(store, index, t)},
                    EvaluatedProfile(index), DateAt(t), AllowSameDay)

\* Every index that is said to be in the dataset is looked at, at every moment.
ExpiriesReconstructed(store) ==
  \A index \in store.instruments, t \in SampleSlots(store) :
    UniverseAt(store, index, t) # {}

ExpiriesMatch(store) ==
  \A index \in store.instruments, t \in SampleSlots(store) :
    ResolvedExpiry(store, index, t) = EngineExpiry(store, index, t)

\* _same_day_excluded
SameDayExcluded(store) ==
  \A index \in store.instruments, t \in SampleSlots(store) :
    AllowSameDay \/ ResolvedExpiry(store, index, t) # DateAt(t)

MonthlySelected(store) ==
  \A index \in store.instruments, t \in SampleSlots(store) :
    EvaluatedProfile(index) = "MONTHLY_ONLY" /\ UniverseAt(store, index, t) # {} =>
      ResolvedExpiry(store, index, t) # NoDate

-----------------------------------------------------------------------------
(* The other checks                                                        *)

\* _universe: two approved indices or more, calls and puts.
UniverseHolds(store) ==
  /\ store.instruments \subseteq DOMAIN ProfileFor
  /\ Cardinality(store.instruments) >= 2
  /\ {TypeOf[c] : c \in DOMAIN store.master} = {"CE", "PE"}

\* _contracts and _lot_size; a store takes no two contracts of one identity.
ContractsHold(store) ==
  /\ DOMAIN store.master # {}
  /\ \A c \in DOMAIN store.master : store.master[c].lot >= 1

\* _calendar: a calendar made of weekdays will not do.
CalendarHolds(store) ==
  /\ DOMAIN store.sessions # {}
  /\ store.calendar \/ store.scope = "FRAMEWORK_TEST_ONLY"

IsFramework(store) == store.fixture \/ store.scope = "FRAMEWORK_TEST_ONLY"

\* is_recorded_integration_sample
IsRecorded(store) == store.sample \/ store.scope = "ADAPTER_TESTING"

\* The quality gate takes the licence from a fixture.
LicenseOf(store) ==
  IF store.published /\ IsFramework(store) THEN "NOT_APPROVED" ELSE store.license

\* _provenance and _replay
ProvenanceStated(store) == store.published /\ LicenseOf(store) # "NONE"

\* discover_underlyings: approved indices of which a contract is listed.
Discovered(store, t) ==
  {UnderlyingOf[c] : c \in {d \in DOMAIN store.master : ListedWhen(store, d, t)}}
    \cap DOMAIN ProfileFor

FirstLook(store) == MomentOf(Earliest(OpenDays(store)), DecisionOffset)

LastLook(store) == MomentOf(Latest(OpenDays(store)), SquareOffOffset)

\* _index_discovery
IndexDiscoveryHolds(store) ==
  /\ OpenDays(store) # {}
  /\ Discovered(store, FirstLook(store)) # {}
  /\ Discovered(store, FirstLook(store)) \subseteq store.instruments

\* The probe is put on NIFTY, else on an index the dataset is said to have.
ProbeIndex(store) ==
  IF store.instruments = {} \/ IndexList[1] \in store.instruments
    THEN IndexList[1]
    ELSE CHOOSE index \in store.instruments : TRUE

\* The copy of the dataset with a contract that is listed and quoted from the
\* last look on.
WithProbe(store) ==
  LET future == LastLook(store)
  IN [store EXCEPT
        !.published = FALSE,
        !.master = [c \in DOMAIN @ \cup {"probe"} |->
                      IF c # "probe" THEN @[c]
                      ELSE [first |-> future, lot |-> 75,
                            last |-> future + ProbeDays * DayLength]],
        !.quotes = @ \cup {[contract |-> "probe", at |-> future, known |-> future,
                            bid |-> 180, ask |-> 220, ltp |-> 200, volume |-> 1,
                            oi |-> 1, flagged |-> FALSE]}]

\* add_contract refuses the probe: there is a contract of its identity.
ProbeCollides(store) ==
  /\ OpenDays(store) # {}
  /\ \E c \in DOMAIN store.master :
       /\ UnderlyingOf[c] = ProbeIndex(store)
       /\ ExpiryOf[c] = DateAt(LastLook(store)) + ProbeDays
       /\ StrikeOf[c] = ProbeStrike /\ TypeOf[c] = "CE"

\* _pit: at the first look the probe is not there and the others are as they
\* were, at the last look it is.
PitHolds(store) ==
  LET probed == WithProbe(store)
  IN /\ OpenDays(store) # {}
     /\ ~ ListedWhen(probed, "probe", FirstLook(store))
     /\ \A c \in ListedAt(store, ProbeIndex(store), FirstLook(store)) :
          KnownQuotes(probed, c, FirstLook(store))
            = KnownQuotes(store, c, FirstLook(store))
     /\ ListedWhen(probed, "probe", LastLook(store))
     /\ KnownQuotes(probed, "probe", LastLook(store)) # {}

-----------------------------------------------------------------------------
(* The qualification                                                       *)

\* The checks that reject a dataset.
MandatoryHold(store) ==
  /\ UniverseHolds(store)
  /\ ContractsHold(store)
  /\ CalendarHolds(store)
  /\ ProvenanceStated(store)
  /\ PitHolds(store)
  /\ ExpiriesReconstructed(store)
  /\ ExpiriesMatch(store)
  /\ SameDayExcluded(store)
  /\ IndexDiscoveryHolds(store)

\* APPROVED_FOR_2E takes a licence, and data meant for research.
Approvable(store) ==
  /\ LicenseOf(store) = "APPROVED"
  /\ store.scope = "HISTORICAL_RESEARCH"
  /\ ~ IsFramework(store) /\ ~ IsRecorded(store)
  /\ store.status # "RETIRED"

\* evaluate and qualify: warnings are those of derive_quality_warnings.
QualificationOf(store) ==
  IF ProbeCollides(store) THEN NoQualification
  ELSE IF ~ MandatoryHold(store) THEN "REJECTED"
  ELSE IF Warnings(store) # {} \/ ~ MonthlySelected(store)
    THEN "QUALIFIED_WITH_WARNINGS"
  ELSE IF Approvable(store) THEN "APPROVED_FOR_2E"
  ELSE IF IsRecorded(store) THEN "QUALIFIED_FOR_ADAPTER_TESTING" ELSE "QUALIFIED"

-----------------------------------------------------------------------------
(* Recorded vendor files                                                   *)

\* _bar and _quote: what was recorded was known when it was taken.
RecordedBar(b) == [b EXCEPT !.known = b.end]

RecordedQuote(q) == [q EXCEPT !.known = q.at, !.flagged = FALSE]

\* normalize_artifact: whatever a recorded file holds becomes a sample for testing
\* adapters.
Recorded(file) ==
  [file EXCEPT
     !.published = FALSE, !.fixture = FALSE, !.synthetic = FALSE,
     !.scope = "ADAPTER_TESTING", !.sample = TRUE, !.metadata = TRUE,
     !.license = "NOT_APPROVED", !.status = "CANDIDATE", !.claims = Columns,
     !.cadence = IF @ = {} THEN {DecisionOffset, SquareOffOffset} ELSE @,
     !.quotes = {RecordedQuote(q) : q \in @},
     !.bars = {RecordedBar(b) : b \in @}]

\* ingest publishes it; the record it makes is QualificationOf.
Ingested(file) == [Recorded(file) EXCEPT !.published = TRUE]
=============================================================================
