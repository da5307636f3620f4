------------------------------- MODULE MCBack -------------------------------
(* Backchannel for TLC: a speaker ring that comes at once, late, or never.    *)
EXTENDS Backchannel
=============================================================================
