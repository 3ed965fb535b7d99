---------------------------- MODULE ExpiryChoice ----------------------------
(***************************************************************************)
(* The nearest eligible expiry, as the feed and the store                  *)
(* (grow/history/resolver.py) and the options engine                       *)
(* (grow/options/select.py) both choose it.  A date is a number.           *)
(***************************************************************************)
EXTENDS Integers

NoDate == -1

Profiles == {"WEEKLY_PREFERRED", "MONTHLY_ONLY", "WEEKLY_THEN_MONTHLY"}
Classes == {"WEEKLY", "MONTHLY"}

Latest(S) == IF S = {} THEN NoDate ELSE CHOOSE d \in S : \A e \in S : e <= d

Earliest(S) == IF S = {} THEN NoDate ELSE CHOOSE d \in S : \A e \in S : d <= e

\* The classes a profile accepts, in its order (_classes_for): the nearest
\* date of the first class that has one.
Nearest(profile, weekly, monthly) ==
  CASE profile = "MONTHLY_ONLY" -> Earliest(monthly)
    [] profile = "WEEKLY_PREFERRED" -> Earliest(weekly)
    [] OTHER -> IF weekly # {} THEN Earliest(weekly) ELSE Earliest(monthly)

\* An expiry in the past, or today's unless that is allowed, is not eligible.
Eligible(day, today, sameDay) == day > today \/ (day = today /\ sameDay)

\* choose_expiry over the expiries [day, class] of a chain.
ChooseExpiry(expiries, profile, today, sameDay) ==
  LET usable(class) ==
        {e.day : e \in {f \in expiries : /\ f.class = class
                                         /\ Eligible(f.day, today, sameDay)}}
  IN Nearest(profile, usable("WEEKLY"), usable("MONTHLY"))
=============================================================================
