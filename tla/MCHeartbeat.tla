---------------------------- MODULE MCHeartbeat ----------------------------
(* Instances of Heartbeat for TLC.                                         *)
EXTENDS Heartbeat

BothEnds == End
OnlyClient == {"client"}
OnlyServer == {"server"}
Only2 == {2}
Only5 == {5}
FiveOrSix == {5, 6}
FiveOrSeven == {5, 7}
OneOrTwo == {1, 2}
ZeroOrFive == {0, 5}
=============================================================================
