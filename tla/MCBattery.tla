------------------------------ MODULE MCBattery ------------------------------
(* An instance of Battery for TLC.                                            *)
EXTENDS Battery, MCValues
=============================================================================
