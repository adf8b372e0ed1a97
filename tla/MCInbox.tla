------------------------------ MODULE MCInbox ------------------------------
(* Instances of Inbox for TLC.                                             *)
EXTENDS Inbox

CONSTANTS u1, u2, u3

ThreeUsers == {u1, u2, u3}

\* An empty message, and one longer than MaxMessageSize.
EmptyAndLong == {<<0, 0, 0, 0>>, <<0, 0, 0, MaxMessageSize + 1>>}
=============================================================================
