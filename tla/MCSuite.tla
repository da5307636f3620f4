------------------------------- MODULE MCSuite -------------------------------
(* An instance of Suite for TLC.                                              *)
EXTENDS Suite, MCValues
=============================================================================
