------------------------------- MODULE TimerSet -------------------------------
(***************************************************************************)
(* What the users of pjlib's timer heap are promised: a set of armed       *)
(* entries, each with the time it expires.  Cancelling an armed entry      *)
(* disarms it; a poll takes an entry that is due, and never one while      *)
(* another is due earlier; every entry taken gets its callback called      *)
(* once, with the entry disarmed, so that the callback (or any other       *)
(* thread) may schedule it again.                                          *)
(***************************************************************************)
EXTENDS Integers

CONSTANTS Entries,   \* timer entries (pj_timer_entry)
          Pollers,   \* threads that call pj_timer_heap_poll
          Times,     \* the clock's values
          Nothing    \* no time, or no entry

VARIABLES armed,     \* entry -> the time it expires, or Nothing
          calling,   \* poller -> the entry whose callback it is running
          now        \* the clock

vars == <<armed, calling, now>>

Armed == {e \in Entries : armed[e] # Nothing}

\* Entries a poll may take.
Due == {e \in Armed : armed[e] <= now /\ \A f \in Armed : armed[e] <= armed[f]}

Init ==
    /\ armed = [e \in Entries |-> Nothing]
    /\ calling = [p \in Pollers |-> Nothing]
    /\ now \in Times

Schedule(e, t) ==
    /\ armed[e] = Nothing
    /\ armed' = [armed EXCEPT ![e] = t]
    /\ UNCHANGED <<calling, now>>

Cancel(e) ==
    /\ armed[e] # Nothing
    /\ armed' = [armed EXCEPT ![e] = Nothing]
    /\ UNCHANGED <<calling, now>>

\* A poller that is running no callback, or has just ended one, takes an entry.
Take(p, e) ==
    /\ e \in Due
    /\ armed' = [armed EXCEPT ![e] = Nothing]
    /\ calling' = [calling EXCEPT ![p] = e]
    /\ UNCHANGED now

\* A callback ends and the poll ends with it.
Return(p) ==
    /\ calling[p] # Nothing
    /\ calling' = [calling EXCEPT ![p] = Nothing]
    /\ UNCHANGED <<armed, now>>

Advance(t) ==
    /\ t > now
    /\ now' = t
    /\ UNCHANGED <<armed, calling>>

Next ==
    \/ \E e \in Entries : Cancel(e) \/ \E t \in Times : Schedule(e, t)
    \/ \E p \in Pollers : Return(p) \/ \E e \in Entries : Take(p, e)
    \/ \E t \in Times : Advance(t)

Spec == Init /\ [][Next]_vars
===============================================================================
