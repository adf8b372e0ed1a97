------------------------------ MODULE Mailbox ------------------------------
(***************************************************************************)
(* What receive() promises ("Blocks until a message arrives"), whatever    *)
(* lock and condition variable are behind it: messages are handed out in   *)
(* the order they were put in, each once; a user leaves without one only   *)
(* when the box is shut and empty; nobody waits while there is something   *)
(* to hand out, or once the box is shut.                                   *)
(***************************************************************************)
EXTENDS Naturals, Sequences

CONSTANTS Users, Messages

VARIABLES
    mail,    \* messages put in and not handed out
    shut,    \* no more messages are accepted
    asking,  \* users inside receive()
    taken    \* messages handed out, in order

vars == <<mail, shut, asking, taken>>

Init == mail = << >> /\ shut = FALSE /\ asking = {} /\ taken = << >>

Put(m) ==
    /\ ~shut
    /\ mail' = Append(mail, m)
    /\ UNCHANGED <<shut, asking, taken>>

Shut ==
    /\ shut' = TRUE
    /\ UNCHANGED <<mail, asking, taken>>

Ask(u) ==
    /\ u \notin asking
    /\ asking' = asking \cup {u}
    /\ UNCHANGED <<mail, shut, taken>>

Give(u) ==
    /\ u \in asking
    /\ mail # << >>
    /\ asking' = asking \ {u}
    /\ taken' = Append(taken, Head(mail))
    /\ mail' = Tail(mail)
    /\ UNCHANGED shut

Dismiss(u) ==
    /\ u \in asking
    /\ shut /\ mail = << >>
    /\ asking' = asking \ {u}
    /\ UNCHANGED <<mail, shut, taken>>

GiveSome == \E u \in Users : Give(u)

Next ==
    \/ \E m \in Messages : Put(m)
    \/ Shut
    \/ \E u \in Users : Ask(u) \/ Dismiss(u)
    \/ GiveSome

Spec == Init /\ [][Next]_vars

\* Some user gets the message at the front, and every user is let go in the end.
Served == WF_vars(GiveSome) /\ \A u \in Users : WF_vars(Dismiss(u))
=============================================================================
