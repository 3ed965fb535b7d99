--------------------------- MODULE MCPaperSession ---------------------------
(* Values of the constants of PaperSession for TLC.                        *)
EXTENDS PaperSession, TLC

CONSTANTS d1, d2
=============================================================================
