------------------------------ MODULE MCBringup ------------------------------
(* Instances of Bringup for TLC: the producer rvd and its consumer rsd.       *)
EXTENDS Bringup, TLC

CONSTANTS rvd, rsd, main

MCRank == rvd :> 1 @@ rsd :> 8

MCPassVideo == [want |-> {rvd, rsd}, port |-> rsd, rings |-> {main}]
MCPassRvd   == [want |-> {rvd}, port |-> NoPort, rings |-> {main}]

MCTwice == {MCPassVideo, MCPassRvd}
=============================================================================
