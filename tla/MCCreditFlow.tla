---------------------------- MODULE MCCreditFlow -----------------------------
(* CreditFlow for TLC: two transfers on one budget, and a single byte      *)
(* transfer for the two disagreements.                                     *)
EXTENDS CreditFlow, TLC
=============================================================================
