------------------------------ MODULE MCClient ------------------------------
(* Instances of ClientLog for TLC.                                         *)
EXTENDS ClientLog

CONSTANTS u1, u2, u3
MCThreads == {u1, u2, u3}
=============================================================================
