------------------------------- MODULE MCEvil -------------------------------
(* Instances of EvilServer for TLC: one client that asks twice, and one that  *)
(* asks once while the first may hold the server's lock.                      *)
EXTENDS EvilServer
CONSTANTS a, b

MCMaxReq == [c \in Conn |-> IF c = a THEN 2 ELSE 1]
=============================================================================
