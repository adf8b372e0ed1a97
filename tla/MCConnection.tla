---------------------------- MODULE MCConnection ----------------------------
(***************************************************************************)
(* Instances of Connection for TLC.  A cfg picks the timeouts that are on, *)
(* what the peer may send and the bounds.                                  *)
(***************************************************************************)
EXTENDS Connection

Messages == {"data"}
ReadableOrNot == {"data", "beat", "bad"}
BeatsWithBody == {"fullBeat"}

WatchedPeer == {"read", "send", "hbTimeout"}
BeatingOnly == OpTimers \cup {"hbSend"}
OnlyReadTimeout == {"read"}

Nothing == {}
BodyAndSend == {"body", "send"}
=============================================================================
