--------------------------- MODULE MCPrivateSignals ---------------------------
(* Instances of PrivateSignals for TLC.                                      *)
EXTENDS PrivateSignals, TLC

CONSTANTS h1, h2, account
=============================================================================
