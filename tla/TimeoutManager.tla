--------------------------- MODULE TimeoutManager ---------------------------
(***************************************************************************)
(* include/timeout_manager.h: timerMap_ and its boost::asio::steady_timer  *)
(* entries, as one connection uses them.  A connection never has two live  *)
(* timers for one purpose, so an entry is named by its purpose instead of  *)
(* by the number currentId_ gives it; that a number is never used again    *)
(* shows as "orphan" below.                                                *)
(*                                                                         *)
(* Boost.Asio (external) settles what happens when a timer expires: its    *)
(* handler is queued with a success code and from then on neither cancel() *)
(* nor destroying the timer takes that back.  A queued handler therefore   *)
(* outlives the timer it belongs to.  A wait that is cancelled before it   *)
(* expires runs its handler with operation_aborted, which both handlers of *)
(* this file ignore, so such handlers are left out.                        *)
(***************************************************************************)
EXTENDS Naturals

CONSTANT Timeouts   \* the purposes whose duration is not 0 (protocol.h:25)

OpTimers == {"read", "body", "send"}
HeartbeatTimers == {"hbTimeout", "hbSend"}
TimerKinds == OpTimers \cup HeartbeatTimers

ASSUME TimeoutsAssumption == Timeouts \subseteq TimerKinds

\* An entry of timerMap_: no entry; waiting on the async_wait issued by
\* startAndGetTimer ("start") or by resetTimer ("reset"); or expired.
EntryState == {"absent", "start", "reset", "expired"}

\* A queued wait handler: the one of startAndGetTimer erases its timer when
\* its callback is done, the one of resetTimer does not, and an "orphan" (its
\* timer is no longer in the map) finds no timer with its number to erase.
Expiry == [timer: TimerKinds, via: {"start", "reset", "orphan"}]

TimerState == [map: [TimerKinds -> EntryState], fired: SUBSET Expiry]

NoTimers == [map |-> [k \in TimerKinds |-> "absent"], fired |-> {}]

StartTimer(tm, k) ==
    IF k \in Timeouts THEN [tm EXCEPT !.map[k] = "start"] ELSE tm

Orphaned(e, k) == IF e.timer = k THEN [e EXCEPT !.via = "orphan"] ELSE e

\* The faulty KeepTimer leaves the entry in the map.
KeepTimer(tm, k) == tm
CancelTimer(tm, k) ==
    [map   |-> [tm.map EXCEPT ![k] = "absent"],
     fired |-> {Orphaned(e, k) : e \in tm.fired}]

\* resetTimer: nothing if the timer is gone, else a new wait on the same entry.
ResetTimer(tm, k) ==
    IF tm.map[k] = "absent" THEN tm ELSE [tm EXCEPT !.map[k] = "reset"]

\* External: the clock reaches the expiry time of a waiting timer.
IsWaiting(tm, k) == tm.map[k] \in {"start", "reset"}
ExpireTimer(tm, k) ==
    [map   |-> [tm.map EXCEPT ![k] = "expired"],
     fired |-> tm.fired \cup {[timer |-> k, via |-> tm.map[k]]}]

\* A queued handler leaves the run queue and, after its callback, erases the
\* timer if it was issued by startAndGetTimer.  EraseByKind is what erasing
\* would do if a new timer could get the number of an old one.
EraseByKind(tm, e) == CancelTimer([tm EXCEPT !.fired = @ \ {e}], e.timer)
FinishExpiry(tm, e) ==
    LET rest == [tm EXCEPT !.fired = @ \ {e}]
    IN  IF e.via = "start" THEN CancelTimer(rest, e.timer) ELSE rest
=============================================================================
