---------------------------- MODULE CalendarDays ----------------------------
(***************************************************************************)
(* The look-ups of TradingCalendar on a set of trading days, days being    *)
(* numbers.  A look-up that runs off either end of the set raises in the   *)
(* code and is NoDate here.                                                *)
(***************************************************************************)
EXTENDS Integers, FiniteSets

NoDate == -1

TradeDates(open, start, end) == {d \in open : start <= d /\ d <= end}

(* The nth trading day before d, d not counted.                            *)
PrevTradeDate(open, d, n) ==
    LET nth == {e \in open : e < d /\ Cardinality(TradeDates(open, e, d - 1)) = n}
    IN IF nth = {} THEN NoDate ELSE CHOOSE e \in nth : TRUE

(* The nth trading day after d, d not counted.                             *)
NextTradeDate(open, d, n) ==
    LET nth == {e \in open : e > d /\ Cardinality(TradeDates(open, d + 1, e)) = n}
    IN IF nth = {} THEN NoDate ELSE CHOOSE e \in nth : TRUE
=============================================================================
