-------------------------------- MODULE MCRfc --------------------------------
(* RfcCheck for TLC: a server that errs twice.                                *)
EXTENDS RfcCheck
=============================================================================
