----------------------------- MODULE AuditRecord -----------------------------
(***************************************************************************)
(* What the trade replay store promises (grow/campaign/replay.py): one     *)
(* audit row per decision, written once, to which an exit is attached      *)
(* once.  Nobody ever sees a row changed or taken back.                    *)
(***************************************************************************)
CONSTANTS
  Decisions,   \* decision ids
  Fills,       \* what a row says of the decision and its fill
  Exits,       \* what a row says of the exit
  NoRow,       \* no row has been written
  NoExit       \* the row has no exit yet

VARIABLE rows

Rows == [fill : Fills, exit : Exits \cup {NoExit}]

Init == rows = [d \in Decisions |-> NoRow]

Write(d, row) ==
  /\ rows[d] = NoRow
  /\ rows' = [rows EXCEPT ![d] = row]

AttachExit(d, exit) ==
  /\ rows[d] \in Rows
  /\ rows[d].exit = NoExit
  /\ rows' = [rows EXCEPT ![d].exit = exit]

Next ==
  \E d \in Decisions :
    \/ \E row \in Rows : Write(d, row)
    \/ \E exit \in Exits : AttachExit(d, exit)

Spec == Init /\ [][Next]_rows
=============================================================================
