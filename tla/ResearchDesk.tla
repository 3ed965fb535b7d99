----------------------------- MODULE ResearchDesk ------------------------------
(***************************************************************************)
(* The 2D research desk (grow/research/) with its fixture agents: whether  *)
(* it approves the contract the options engine chose.  All of it is pure.  *)
(*                                                                         *)
(* The packet is a record [direction, type, wide, stale]: the direction of *)
(* the signal, the side of the contract, whether its spread is above       *)
(* fifteen percent and whether the market view is stale.  A report is      *)
(* SUPPORT or OPPOSE: the loop only asks about a candidate and with all    *)
(* the evidence there, so no agent abstains.                               *)
(*                                                                         *)
(* Left out: what build_packet and the validator refuse of a packet that   *)
(* is not of one moment, and the wording of reports and decisions.         *)
(***************************************************************************)
EXTENDS Naturals

CONSTANT CeoFloorPct   \* ai.confidence.min_ceo_confidence, 0 when disabled

ASSUME CeoFloor == CeoFloorPct \in 0..100

WantedSide(direction) ==
  CASE direction = "BULLISH" -> "CE"
    [] direction = "BEARISH" -> "PE"
    [] OTHER -> "none"

BullAgent(packet) ==
  IF packet.type = "CE" /\ packet.direction = "BULLISH" THEN "SUPPORT" ELSE "OPPOSE"

BearAgent(packet) ==
  IF packet.type = "PE" /\ packet.direction = "BEARISH" THEN "SUPPORT" ELSE "OPPOSE"

QuantAgent(packet) ==
  IF packet.type = WantedSide(packet.direction) THEN "SUPPORT" ELSE "OPPOSE"

RiskContextAgent(packet) ==
  IF packet.stale \/ packet.wide THEN "OPPOSE" ELSE "SUPPORT"

Reports(packet) ==
  [bull |-> BullAgent(packet), bear |-> BearAgent(packet),
   quant |-> QuantAgent(packet), risk_context |-> RiskContextAgent(packet)]

\* The CEO's confidence, in percent, is the same in every approval.
CeoConfidence == 50

\* CEOAgent.synthesize: quant and risk context have a veto, bull and bear have
\* none, and the contract must be of the side the signal wants.
Synthesized(packet, reports) ==
  /\ packet.direction \in {"BULLISH", "BEARISH"}
  /\ packet.type = WantedSide(packet.direction)
  /\ reports.quant # "OPPOSE"
  /\ reports.risk_context # "OPPOSE"

\* DecisionValidator.validate of an approval.
Upheld(packet, reports) ==
  /\ packet.direction \in {"BULLISH", "BEARISH"}
  /\ packet.type = WantedSide(packet.direction)
  /\ "OPPOSE" \notin {reports.quant, reports.risk_context}
  /\ CeoConfidence >= CeoFloorPct

\* ResearchOrchestrator.run: TRADE_APPROVE.
DeskApproves(packet) ==
  LET reports == Reports(packet)
  IN Synthesized(packet, reports) /\ Upheld(packet, reports)
=============================================================================
