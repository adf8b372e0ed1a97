------------------------------ MODULE Channel ------------------------------
(***************************************************************************)
(* What one connection promises the program that owns it, whatever reads,  *)
(* writes, timers and posted handlers are behind it: the frames asked for  *)
(* go out in order until the channel breaks; the peer's messages are       *)
(* handed over in order, each before the next frame is heard, until nobody *)
(* wants them; closing is begun once or many times, happens once, tells    *)
(* the owner once, and ends in a channel that holds nothing any more.      *)
(***************************************************************************)
EXTENDS Naturals, Sequences

CONSTANT Kinds   \* the kinds of frames, among them "data" and "bad"

VARIABLES
    phase,   \* open, closing (will close), closed, released (holds nothing)
    asked,   \* frames the owner has asked to be sent
    sent,    \* frames that went out completely
    broken,  \* nothing goes out any more
    heard,   \* kinds of the frames the peer sent
    handed,  \* the frames handed over, by number
    deaf,    \* the owner wants no more messages
    told     \* how often the owner has been told of the end

vars == <<phase, asked, sent, broken, heard, handed, deaf, told>>

Init ==
    /\ phase = "open"
    /\ asked = 0 /\ sent = << >> /\ broken = FALSE
    /\ heard = << >> /\ handed = << >> /\ deaf = FALSE
    /\ told = 0

Alive == phase \in {"open", "closing"}

Ask ==
    /\ asked' = asked + 1
    /\ UNCHANGED <<phase, sent, broken, heard, handed, deaf, told>>

Transmit ==
    /\ Alive /\ ~broken
    /\ Len(sent) < asked
    /\ sent' = Append(sent, Len(sent) + 1)
    /\ UNCHANGED <<phase, asked, broken, heard, handed, deaf, told>>

Break ==
    /\ phase # "released"
    /\ broken' = TRUE
    /\ UNCHANGED <<phase, asked, sent, heard, handed, deaf, told>>

\* The last frame heard is a message that has not been handed over.
Last == heard[Len(heard)]
HandedLast == \E i \in DOMAIN handed : handed[i] = Len(heard)
Owes == heard # << >> /\ Last = "data" /\ ~HandedLast

\* Nothing is heard after a frame that makes no sense.
Hear(kind) ==
    /\ Alive
    /\ heard # << >> => Last # "bad"
    /\ Owes => deaf
    /\ heard' = Append(heard, kind)
    /\ UNCHANGED <<phase, asked, sent, broken, handed, deaf, told>>

\* A message that was complete when the channel closed may still be handed over.
Hand ==
    /\ phase # "released" /\ ~deaf
    /\ Owes
    /\ handed' = Append(handed, Len(heard))
    /\ UNCHANGED <<phase, asked, sent, broken, heard, deaf, told>>

GoDeaf ==
    /\ ~deaf
    /\ deaf' = TRUE
    /\ UNCHANGED <<phase, asked, sent, broken, heard, handed, told>>

BeginClose ==
    /\ phase = "open"
    /\ phase' = "closing"
    /\ UNCHANGED <<asked, sent, broken, heard, handed, deaf, told>>

Close ==
    /\ phase = "closing"
    /\ phase' \in {"closed", "released"}
    /\ broken' \in {broken, TRUE}
    /\ told' = told + 1
    /\ UNCHANGED <<asked, sent, heard, handed, deaf>>

Release ==
    /\ phase = "closed"
    /\ phase' = "released"
    /\ UNCHANGED <<asked, sent, broken, heard, handed, deaf, told>>

Next ==
    \/ Ask \/ Transmit \/ Break
    \/ \E kind \in Kinds : Hear(kind)
    \/ Hand \/ GoDeaf
    \/ BeginClose \/ Close \/ Release

Spec == Init /\ [][Next]_vars
=============================================================================
