-------------------------- MODULE EngineLifecycle --------------------------
(***************************************************************************)
(* The paper engine seen from outside (grow/paper/engine.py): what becomes *)
(* of a decision, in memory and in the checkpoint.  A decision is judged   *)
(* once; what was opened is closed once; a restart goes back to the last   *)
(* checkpoint and nowhere else.  PaperEngine implements this, and          *)
(* PaperSession is built on it.                                            *)
(***************************************************************************)
CONSTANT Decisions

VARIABLES
  state,   \* what became of each decision, in memory
  saved    \* the same in the last checkpoint

New == [d \in Decisions |-> "new"]

Opened == {d \in Decisions : state[d] = "open"}

\* A handler ends with `s' in memory; its checkpoint may not be written.
Keep(s) == state' = s /\ saved' \in {s, saved}

Execute(d) ==
  /\ state[d] = "new"
  /\ \E outcome \in {"refused", "open"} :
       Keep([state EXCEPT ![d] = outcome])

\* on_snapshot, and an execute that finds its decision judged, close a part
\* of what is open, possibly nothing.
Close(closed) ==
  /\ closed \subseteq Opened
  /\ Keep([d \in Decisions |-> IF d \in closed THEN "closed" ELSE state[d]])

Restart == state' = saved /\ UNCHANGED saved

Init == state = New /\ saved = New

Next ==
  \/ \E d \in Decisions : Execute(d)
  \/ \E closed \in SUBSET Opened : Close(closed)
  \/ Restart

Spec == Init /\ [][Next]_<<state, saved>>
=============================================================================
