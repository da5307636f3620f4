------------------------------- MODULE MCReap -------------------------------
(* SessionProbe for TLC: an advertised timeout that ends well inside the 110 s *)
(* the caller gives, one that the probe waits for and the caller does not, and *)
(* one the probe finds too long.                                               *)
EXTENDS SessionProbe

MCLimit == [reap |-> 110, switch |-> 40]
=============================================================================
