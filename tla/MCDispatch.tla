----------------------------- MODULE MCDispatch -----------------------------
(* Values of the constants of Dispatch for TLC.                            *)
EXTENDS Dispatch, TLC

CONSTANTS solo, pair, good, stale, k1, i1, i2

\* A team that fits the smallest pool and one that does not.
Teams == solo :> <<"technical">> @@ pair :> <<"technical", "options">>

TwoAndOne == solo :> 2 @@ pair :> 1

Answer(of, cycle, status, missing, instrument) ==
  [of |-> of, cycle |-> cycle, status |-> status, missing |-> missing,
   instrument |-> instrument]

\* Two proposals, one of them only good for the cycle k1, and an answer about
\* another snapshot.
SomeAnswers ==
  {Answer(good, k1, "PASS", FALSE, i1), Answer(good, None, "PASS", FALSE, i2),
   Answer(stale, None, "PASS", FALSE, i1)}
=============================================================================
