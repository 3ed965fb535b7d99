---------------------------- MODULE MCReplayStore ----------------------------
(* Values of the constants of ReplayStore for TLC.                         *)
EXTENDS ReplayStore, TLC

CONSTANTS p1, p2, p3, pos1, pos2

\* One fill opened position pos1; the other is a rejected cycle.
FillPositions == "filled" :> pos1 @@ "rejected" :> NoPosition

\* Two different exits of pos1 and one of another position.
ExitPositions == "stop" :> pos1 @@ "target" :> pos1 @@ "other" :> pos2
=============================================================================
