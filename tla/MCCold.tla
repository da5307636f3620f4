------------------------------- MODULE MCCold -------------------------------
(* RhdCold for TLC: encoders that start within the budget, or beyond it.      *)
EXTENDS RhdCold
=============================================================================
