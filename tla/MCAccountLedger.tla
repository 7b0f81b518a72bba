------------------------- MODULE MCAccountLedger -------------------------
(* Instances of AccountLedger for TLC.                                     *)
EXTENDS PerformanceReport, TLC

CONSTANTS a, k1, nokey, nostock

MCStocks == {a}
MCTwoDays == 1..2
MCThreeDays == 1..3
=============================================================================
