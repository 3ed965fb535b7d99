------------------------ MODULE DecisionIntegration ------------------------
(***************************************************************************)
(* The 4C decision (grow/decision/integration/): from one analysis package *)
(* to CANDIDATE, BLOCKED or NO_TRADE.  The policy's gates in their order,  *)
(* then the campaign's CEO gate, then the risk guard on the book the       *)
(* caller passes.  All of it is pure.                                      *)
(*                                                                         *)
(* A decision is a record [status, candidate]; a candidate is there only   *)
(* with the status CANDIDATE.                                              *)
(*                                                                         *)
(* Left out: the schema and lock checks of a package built by this         *)
(* program's own orchestrator, which always hold (Dispatch is about them), *)
(* the audit log (AuditRecord), the signal engine, which only explains a   *)
(* decision, and the wording of reasons and evidence.                      *)
(*                                                                         *)
(* An operator X_fault is X with a programming error; nothing uses it.     *)
(***************************************************************************)
EXTENDS Specialists, RiskGuard

Verdict(status, candidate) == [status |-> status, candidate |-> candidate]

\* _conflict_strings: the conflicts of the package, and of the words.
Conflicting_fault(outputs) ==
  \/ Mentioning(outputs, "BULLISH") # {} /\ Mentioning(outputs, "BEARISH") # {}
  \/ Cardinality({outputs[n].opens.contract : n \in Actionable(outputs)}) > 1

Conflicting(outputs) ==
  \/ PackageConflict(outputs)
  \/ Mentioning(outputs, "BULLISH") # {} /\ Mentioning(outputs, "BEARISH") # {}

\* An output with an error or without data is missing evidence.
EvidenceMissing(outputs) ==
  \E n \in DOMAIN outputs : outputs[n].status \in {"ERROR", "NO_DATA"}

HighVolatility(outputs) == \E n \in DOMAIN outputs : outputs[n].volatile

\* _candidate_from, of the one agent that proposes: complete, and with a
\* direction.
Placeable(candidate) ==
  /\ candidate.direction \in Directions
  /\ candidate.price > 0
  /\ candidate.stop > 0
  /\ candidate.quantity > 0

Proposed(outputs) == outputs[CHOOSE n \in Actionable(outputs) : TRUE].opens

\* evaluate_policy: the candidate, or the status it ends with.
Policy(snapshot, outputs) ==
  CASE SourceOf(snapshot) = "MIXED" -> Verdict("BLOCKED", NoCandidate)
    [] SourceOf(snapshot) # "MIXED" /\ GatedQuality(snapshot) = "REJECTED" ->
         Verdict("BLOCKED", NoCandidate)
    [] OTHER ->
         IF GatedQuality(snapshot) # "OK" THEN Verdict("NO_TRADE", NoCandidate)
         ELSE IF ~ AllowsNewTrade(snapshot) THEN Verdict("BLOCKED", NoCandidate)
         ELSE IF \/ Conflicting(outputs) \/ EvidenceMissing(outputs)
                 \/ Actionable(outputs) = {}
                 \/ ~ Placeable(Proposed(outputs))
                 \/ ~ AllowsCandidate(snapshot, Proposed(outputs))
           THEN Verdict("NO_TRADE", NoCandidate)
         ELSE Verdict("CANDIDATE", Proposed(outputs))

\* campaign_ceo_gate
CeoGate(candidate) ==
  TypeOf[candidate.contract] = AllowedType(candidate.direction)

ProposalOf(candidate, session, outputs) ==
  [intent |-> "OPEN", side |-> "BUY", quantity |-> candidate.quantity,
   price |-> candidate.price, stop |-> candidate.stop, session |-> session,
   highVolatility |-> HighVolatility(outputs)]

\* The book of DecisionIntegrator.integrate when the caller passes none.
EmptyBook ==
  [cash |-> CampaignCash, gross |-> 0, symbol |-> 0, dailyPnl |-> 0, open |-> 0]

\* DecisionIntegrator._decide
Decide(snapshot, outputs, session, book) ==
  LET policy == Policy(snapshot, outputs)
  IN IF policy.status # "CANDIDATE" THEN policy
     ELSE IF ~ CeoGate(policy.candidate) THEN Verdict("NO_TRADE", NoCandidate)
     ELSE IF ~ Approves(ProposalOf(policy.candidate, session, outputs), book)
       THEN Verdict("BLOCKED", NoCandidate)
     ELSE policy

\* resolve_decision_action
DecisionAction(decision) ==
  CASE decision.status # "CANDIDATE" -> "NO_TRADE"
    [] TypeOf[decision.candidate.contract] = "CE" -> "BUY_CE"
    [] OTHER -> "BUY_PE"
=============================================================================
