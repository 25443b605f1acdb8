----------------------------- MODULE TransportMgr ------------------------------
(***************************************************************************)
(* The transport manager (sip_transport.c) and the life of its TCP         *)
(* transports (sip_transport_tcp.c), all to one destination: they are      *)
(* acquired and given back by reference count, closed by the idle timer,   *)
(* shut down by errors, by the peer or by the application, and kept in     *)
(* memory by their group lock's own count.                                 *)
(*                                                                         *)
(* A step is what a thread does between two points where another thread    *)
(* can be seen: a change of an atomic counter, the section under the       *)
(* manager's lock, or the wait for a transport's lock.  Built as here: no  *)
(* timeout of its own for the first message of an incoming connection.     *)
(***************************************************************************)
EXTENDS Integers, FiniteSets, SequencesExt

CONSTANTS Transports,   \* transports, each created once
          Apps,         \* threads of the application
          Workers,      \* threads that poll timers and sockets
          MaxUsers,     \* bound of the references that transactions hold on a transport
          IpChanges,    \* the application calls pjsua_handle_ip_change
          None

ASSUME TransportMgrAssumption ==
    /\ MaxUsers \in Nat \ {0} /\ IpChanges \in BOOLEAN
    /\ IsFiniteSet(Apps \cup Workers) /\ Transports # {}
    /\ None \notin Apps \cup Workers \cup Transports /\ Apps \cap Workers = {}

VARIABLES tp,        \* transport -> its fields
          table,     \* the manager's list of transports for the destination
          mgrLock,   \* who holds the manager's lock between two steps
          thr,       \* thread -> where it is, with which transport, what comes after, and what
                     \* is left of a shutdown of all
          users      \* transport -> references held by transactions and other users

vars == <<tp, table, mgrLock, thr, users>>

Threads == Apps \cup Workers

\* grp is the count of the group lock: the transport's own reference, the socket's, the
\* manager's, one for each of ref_cnt, and the idle timer's while it is scheduled or its
\* callback runs.  id is idle_timer.id and armed tells whether the timer is in the heap; kaId
\* and kaArmed are the same of the keep-alive timer, which has no reference of the group lock.
Transport == [mem : {"none", "live", "freed"}, ref_cnt : Int, grp : Int, lock : Threads \cup {None},
              is_shutdown : BOOLEAN, is_destroying : BOOLEAN, is_closing : BOOLEAN,
              has_pending_connect : BOOLEAN, delayed : BOOLEAN, referred : BOOLEAN,
              id : BOOLEAN, armed : BOOLEAN, kaId : BOOLEAN, kaArmed : BOOLEAN]

Unborn == [mem |-> "none", ref_cnt |-> 0, grp |-> 0, lock |-> None, is_shutdown |-> FALSE,
           is_destroying |-> FALSE, is_closing |-> FALSE, has_pending_connect |-> FALSE,
           delayed |-> FALSE, referred |-> FALSE, id |-> FALSE, armed |-> FALSE, kaId |-> FALSE,
           kaArmed |-> FALSE]

\* tcp_create with pjsip_transport_register.
Created(connecting) == [Unborn EXCEPT !.mem = "live", !.grp = 3, !.has_pending_connect = connecting]

Idle == [pc |-> "idle", tp |-> None, after |-> "idle", rest |-> <<>>]

At(pc, t, after) == [pc |-> pc, tp |-> t, after |-> after, rest |-> <<>>]

Init ==
    /\ tp = [t \in Transports |-> Unborn]
    /\ table = <<>> /\ mgrLock = None
    /\ thr = [h \in Threads |-> Idle]
    /\ users = [t \in Transports |-> 0]

---------------------------------------------------------------------------
\* What is done to a transport

\* pj_grp_lock_dec_ref, n times: the last one calls tcp_on_destroy.
Unref(r, n) == [r EXCEPT !.grp = @ - n, !.mem = IF r.grp = n THEN "freed" ELSE @]

\* The first half of pjsip_transport_add_ref; the second is Verify.
Referred(r) == [r EXCEPT !.ref_cnt = @ + 1, !.grp = @ + 1, !.referred = TRUE]

\* Mutant of CancelIdle: the reference is given back whether the timer was in the heap or not.
CancelIdleAnyway(r) == Unref([r EXCEPT !.armed = FALSE], 1)

\* pjsip_endpt_cancel_timer of the idle timer.
CancelIdle(r) == IF r.armed THEN Unref([r EXCEPT !.armed = FALSE], 1) ELSE r

StopIdle(r) == IF r.id THEN CancelIdle([r EXCEPT !.id = FALSE]) ELSE r

\* Mutant of StartIdle: the timer is scheduled without a reference of the group lock.
StartIdleUncounted(r) == [CancelIdle(r) EXCEPT !.id = TRUE, !.armed = TRUE]

\* The idle timer is scheduled, again if it is running.
StartIdle(r) == [CancelIdle(r) EXCEPT !.id = TRUE, !.armed = TRUE, !.grp = @ + 1]

\* pjsip_transport_add_ref's verification and pjsip_transport_dec_ref's, under the
\* manager's lock; the transport may have left the table in the meantime.
Verified(r, valid) == IF valid /\ r.ref_cnt = 1 THEN StopIdle(r) ELSE r

\* Mutant of Rearmed: no timer for a transport that is shut down already.
RearmedUnlessShut(r, valid) ==
    IF valid /\ ~r.is_shutdown /\ ~r.is_destroying /\ r.ref_cnt = 0 THEN StartIdle(r) ELSE r

Rearmed(r, valid) == IF valid /\ ~r.is_destroying /\ r.ref_cnt = 0 THEN StartIdle(r) ELSE r

\* tcp_destroy.
Closed(r) ==
    Unref([r EXCEPT !.is_closing = TRUE, !.delayed = FALSE, !.kaId = FALSE,
                    !.kaArmed = ~r.kaId /\ r.kaArmed], 2)

Valid(t) == \E i \in DOMAIN table : table[i] = t

\* Mutant of Usable: only a shutdown is looked at.
UsableUnlessShut(t) == ~tp[t].is_shutdown

\* Transports that are neither shut down nor being destroyed.
Usable(t) == ~tp[t].is_shutdown /\ ~tp[t].is_destroying

\* Sockets that the ioqueue watches.
Open(t) == tp[t].mem = "live" /\ ~tp[t].is_closing

Set(h, state) == thr' = [thr EXCEPT ![h] = state]
Change(t, r) == tp' = [tp EXCEPT ![t] = r]

\* The thread is at pc and works with transport t.  What it would do with a transport that has
\* been released is undefined: it goes no further.
Is(h, pc, t) == thr[h].pc = pc /\ thr[h].tp = t /\ tp[t].mem = "live"

LockFree(h) == mgrLock \in {None, h}

\* What comes after a subroutine: its caller goes on at after, or ends its shutdown.
Resume(h, t) == CASE thr[h].after = "idle" -> Idle
                  [] thr[h].after \in {"return", "all"} -> [thr[h] EXCEPT !.pc = "unlock"]
                  [] OTHER -> At(thr[h].after, t, "idle")

---------------------------------------------------------------------------
\* References

\* pjsip_tpmgr_acquire_transport2 finds the first one that may be used.
Acquire(h) ==
    \E i \in DOMAIN table : LET t == table[i] IN
        /\ thr[h] = Idle /\ mgrLock = None
        /\ Usable(t) /\ \A j \in 1 .. i - 1 : ~Usable(table[j])
        /\ users[t] < MaxUsers
        /\ Change(t, Referred(tp[t]))
        /\ users' = [users EXCEPT ![t] = @ + 1]
        /\ IF tp[t].ref_cnt = 0 THEN Set(h, At("verify", t, "idle")) /\ mgrLock' = h
                                ELSE UNCHANGED <<thr, mgrLock>>
        /\ UNCHANGED table

\* There is none, or the user does not want to share it (disable_connection_reuse): the
\* listener creates one.  Its connection is made at once, later, or it fails at once.
AcquireNew(h) ==
    \E t \in Transports, connect \in {"now", "later", "failed"} :
        /\ thr[h] = Idle /\ mgrLock = None /\ tp[t].mem = "none"
        /\ IF connect = "failed"
           THEN Change(t, [Unborn EXCEPT !.mem = "freed"]) /\ UNCHANGED <<table, users>>
           ELSE /\ Change(t, [Referred(Created(connect = "later")) EXCEPT
                                 !.kaId = (connect = "now"), !.kaArmed = (connect = "now")])
                /\ table' = Append(table, t)
                /\ users' = [users EXCEPT ![t] = 1]
        /\ UNCHANGED <<mgrLock, thr>>

\* pjsip_transport_add_ref found that it was the first.
Verify(h, t) ==
    /\ Is(h, "verify", t) /\ LockFree(h)
    /\ Change(t, Verified(tp[t], Valid(t)))
    /\ Set(h, Idle) /\ mgrLock' = None
    /\ UNCHANGED <<table, users>>

\* pjsip_transport_dec_ref up to the manager's lock, by thread h, which is at state.
DecRef(h, t, state) ==
    /\ Change(t, [tp[t] EXCEPT !.ref_cnt = @ - 1])
    /\ Set(h, [state EXCEPT !.pc = IF tp[t].ref_cnt = 1 THEN "rearm" ELSE "drop"])
    /\ UNCHANGED <<table, mgrLock>>

\* A user gives its reference back.
Release(h, t) ==
    /\ thr[h] = Idle /\ users[t] > 0
    /\ users' = [users EXCEPT ![t] = @ - 1]
    /\ DecRef(h, t, At("dec", t, "idle"))

Dec(h, t) == Is(h, "dec", t) /\ DecRef(h, t, thr[h]) /\ UNCHANGED users

Rearm(h, t) ==
    /\ Is(h, "rearm", t) /\ LockFree(h)
    /\ Change(t, Rearmed(tp[t], Valid(t)))
    /\ Set(h, [thr[h] EXCEPT !.pc = "drop"])
    /\ UNCHANGED <<table, mgrLock, users>>

Drop(h, t) ==
    /\ Is(h, "drop", t)
    /\ Change(t, Unref(tp[t], 1))
    /\ Set(h, Resume(h, t))
    /\ UNCHANGED <<table, mgrLock, users>>

---------------------------------------------------------------------------
\* The idle timer

\* pj_timer_heap_poll takes the entry out; the reference of the timer remains.
PopIdle(h, t) ==
    /\ h \in Workers /\ thr[h] = Idle /\ tp[t].armed
    /\ Change(t, [tp[t] EXCEPT !.armed = FALSE])
    /\ Set(h, At("idleCb", t, "idle"))
    /\ UNCHANGED <<table, mgrLock, users>>

\* transport_idle_callback before the lock ...
IdleCallback(h, t) ==
    /\ Is(h, "idleCb", t)
    /\ Change(t, [tp[t] EXCEPT !.id = FALSE])
    /\ Set(h, At(IF tp[t].id THEN "idleCheck" ELSE "unref", t, "idle"))
    /\ UNCHANGED <<table, mgrLock, users>>

\* ... and under it.
IdleCheck(h, t) ==
    /\ Is(h, "idleCheck", t) /\ LockFree(h)
    /\ IF tp[t].ref_cnt = 0
       THEN Change(t, [tp[t] EXCEPT !.is_destroying = TRUE]) /\ Set(h, At("destroy", t, "idle"))
       ELSE Set(h, At("unref", t, "idle")) /\ UNCHANGED tp
    /\ UNCHANGED <<table, mgrLock, users>>

\* pjsip_transport_destroy, which does nothing when there is a user.
Destroy(h, t) ==
    /\ Is(h, "destroy", t)
    /\ Set(h, At(IF tp[t].ref_cnt = 0 THEN "destroyLock" ELSE "unref", t, "idle"))
    /\ UNCHANGED <<tp, table, mgrLock, users>>

\* The callback has returned to pj_timer_heap_poll.
TimerDone(h, t) ==
    /\ Is(h, "unref", t)
    /\ Change(t, Unref(tp[t], 1)) /\ Set(h, Idle)
    /\ UNCHANGED <<table, mgrLock, users>>

---------------------------------------------------------------------------
\* Locking a transport before the manager, and the other way round

\* destroy_transport and pjsip_transport_shutdown2 take the transport's lock first.
LockTransport(h, t) ==
    /\ Is(h, "destroyLock", t) \/ Is(h, "shutLock", t)
    /\ tp[t].lock = None
    /\ Change(t, [tp[t] EXCEPT !.lock = h])
    /\ Set(h, [thr[h] EXCEPT !.pc = IF @ = "shutLock" THEN "shut" ELSE "unregister"])
    /\ UNCHANGED <<table, mgrLock, users>>

\* destroy_transport under both locks; the transport is in the list, as nobody else takes
\* it out ...
Unregister(h, t) ==
    /\ Is(h, "unregister", t) /\ LockFree(h)
    /\ Change(t, [StopIdle(tp[t]) EXCEPT !.lock = None])
    /\ \E i \in DOMAIN table : table[i] = t /\ table' = RemoveAt(table, i)
    /\ Set(h, At("close", t, "idle"))
    /\ UNCHANGED <<mgrLock, users>>

\* ... and its end.
Close(h, t) ==
    /\ Is(h, "close", t)
    /\ Change(t, Closed(Unref(tp[t], 1)))
    /\ Set(h, At("unref", t, "idle"))
    /\ UNCHANGED <<table, mgrLock, users>>

\* Where a thread goes on after pjsip_transport_shutdown2.
AfterShut(h, t) ==
    CASE thr[h].after = "all" -> [thr[h] EXCEPT !.pc = "all", !.tp = None]
      [] thr[h].after = "return" -> Idle
      [] OTHER -> At("dec", t, thr[h].after)

Unlock(h) == mgrLock' = IF thr[h].after = "all" THEN h ELSE None

\* pjsip_transport_shutdown2 under both locks, when somebody else was first.
ShutNothing(h, t) ==
    /\ Is(h, "shut", t) /\ LockFree(h) /\ ~Usable(t)
    /\ Change(t, [tp[t] EXCEPT !.lock = None])
    /\ Set(h, AfterShut(h, t)) /\ Unlock(h)
    /\ UNCHANGED <<table, users>>

\* Otherwise tcp_shutdown stops the keep-alive timer ...
ShutKeepAlive(h, t) ==
    /\ Is(h, "shut", t) /\ LockFree(h) /\ Usable(t)
    /\ mgrLock' = h
    /\ IF tp[t].kaId THEN Change(t, [tp[t] EXCEPT !.kaArmed = FALSE]) ELSE UNCHANGED tp
    /\ Set(h, [thr[h] EXCEPT !.pc = IF tp[t].kaId THEN "shutEnd" ELSE "shutMark"])
    /\ UNCHANGED <<table, users>>

\* ... and marks it stopped.  A transport that nobody uses is acquired ...
ShutEnd(h, t) ==
    /\ Is(h, "shutEnd", t) \/ Is(h, "shutMark", t)
    /\ LET r == [tp[t] EXCEPT !.is_shutdown = TRUE,
                              !.kaId = IF thr[h].pc = "shutEnd" THEN FALSE ELSE @]
       IN  Change(t, IF r.ref_cnt = 0 THEN Referred(r) ELSE r)
    /\ Set(h, [thr[h] EXCEPT !.pc = IF tp[t].ref_cnt = 0 THEN "shutVerify" ELSE "unlock"])
    /\ UNCHANGED <<table, mgrLock, users>>

\* ... and given back by pjsip_transport_dec_ref, which starts its timer anew ...
ShutVerify(h, t) ==
    /\ Is(h, "shutVerify", t)
    /\ Change(t, Verified(tp[t], Valid(t)))
    /\ Set(h, [thr[h] EXCEPT !.pc = "dec"])
    /\ UNCHANGED <<table, mgrLock, users>>

\* ... before both locks are released.
ShutUnlock(h, t) ==
    /\ Is(h, "unlock", t)
    /\ Change(t, [tp[t] EXCEPT !.lock = None])
    /\ Set(h, AfterShut(h, t)) /\ Unlock(h)
    /\ UNCHANGED <<table, users>>

\* An application, or a callback, shuts a transport down.
Shutdown(h, t) ==
    /\ h \in Workers /\ thr[h] = Idle /\ Open(t)
    /\ Set(h, At("shutLock", t, "return"))
    /\ UNCHANGED <<tp, table, mgrLock, users>>

\* pjsip_tpmgr_shutdown_all takes the manager's lock first.
ShutdownAll(h) ==
    /\ IpChanges
    /\ h \in Apps /\ thr[h] = Idle /\ mgrLock = None
    /\ mgrLock' = h
    /\ Set(h, [Idle EXCEPT !.pc = "all", !.after = "all", !.rest = table])
    /\ UNCHANGED <<tp, table, users>>

ShutdownNext(h) ==
    /\ thr[h].pc = "all"
    /\ IF thr[h].rest = <<>>
       THEN Set(h, Idle) /\ mgrLock' = None
       ELSE /\ Set(h, [At("shutLock", Head(thr[h].rest), "all") EXCEPT !.rest = Tail(thr[h].rest)])
            /\ UNCHANGED mgrLock
    /\ UNCHANGED <<tp, table, users>>

---------------------------------------------------------------------------
\* The TCP transport

\* The start of tcp_init_shutdown by thread h on a transport whose fields are r.
InitShutdown(h, t, r, after) ==
    /\ IF r.is_shutdown \/ r.is_destroying
       THEN Change(t, r) /\ Set(h, IF after = "idle" THEN Idle ELSE At(after, t, "idle"))
       ELSE /\ Change(t, Referred(r))
            /\ Set(h, At(IF r.ref_cnt = 0 THEN "verifyInit" ELSE "again", t, after))
    /\ UNCHANGED <<table, mgrLock, users>>

VerifyInit(h, t) ==
    /\ Is(h, "verifyInit", t) /\ LockFree(h)
    /\ Change(t, Verified(tp[t], Valid(t)))
    /\ Set(h, At("again", t, thr[h].after))
    /\ UNCHANGED <<table, mgrLock, users>>

\* The application has been told; somebody else may have shut the transport down.
CheckAgain(h, t) ==
    /\ Is(h, "again", t)
    /\ Set(h, At(IF Usable(t) THEN "shutLock" ELSE "dec", t, thr[h].after))
    /\ UNCHANGED <<tp, table, mgrLock, users>>

\* pjsip_transport_send by a user.
Send(h, t) ==
    /\ thr[h] = Idle /\ users[t] > 0
    /\ Change(t, Referred(tp[t]))
    /\ Set(h, At("send", t, "idle"))
    /\ UNCHANGED <<table, mgrLock, users>>

\* tcp_send_msg while the connection is being made, under the transport's lock ...
SendLater(h, t) ==
    /\ Is(h, "send", t) /\ tp[t].has_pending_connect /\ tp[t].lock = None
    /\ Change(t, [tp[t] EXCEPT !.lock = h])
    /\ Set(h, At("queue", t, "idle"))
    /\ UNCHANGED <<table, mgrLock, users>>

Queue(h, t) ==
    /\ Is(h, "queue", t)
    /\ Change(t, [tp[t] EXCEPT !.lock = None, !.delayed = TRUE])
    /\ Set(h, At("dec", t, "idle"))
    /\ UNCHANGED <<table, mgrLock, users>>

\* ... and on an open connection: sent or handed to the ioqueue, or an error.  A message that
\* a module refuses (on_tx_msg) is not sent in either case.
SendNow(h, t) ==
    /\ Is(h, "send", t)
    /\ \/ Set(h, At("dec", t, "idle")) /\ UNCHANGED <<tp, table, mgrLock, users>>
       \/ ~tp[t].has_pending_connect /\ InitShutdown(h, t, tp[t], "dec")

\* on_connect_complete of a worker.  What waits is given up when it failed, or when the
\* transport has been shut down; this does not take the transport's lock.
ConnectDone(h, t) ==
    \E ok \in BOOLEAN :
        /\ h \in Workers /\ thr[h] = Idle /\ Open(t) /\ tp[t].has_pending_connect
        /\ IF ok /\ Usable(t)
           THEN /\ Change(t, [tp[t] EXCEPT !.has_pending_connect = FALSE])
                /\ Set(h, At("flush", t, "idle"))
                /\ UNCHANGED <<table, mgrLock, users>>
           ELSE InitShutdown(h, t, [tp[t] EXCEPT !.has_pending_connect = FALSE, !.delayed = FALSE], "idle")

\* tcp_flush_pending_tx; a message that cannot be sent shuts the transport down.
Flush(h, t) ==
    /\ Is(h, "flush", t) /\ tp[t].lock = None
    /\ \/ /\ Change(t, [tp[t] EXCEPT !.delayed = FALSE])
          /\ Set(h, At("kaSchedule", t, "idle"))
          /\ UNCHANGED <<table, mgrLock, users>>
       \/ /\ tp[t].delayed
          /\ InitShutdown(h, t, [tp[t] EXCEPT !.delayed = FALSE], "kaSchedule")

\* on_accept_complete.
Accept(h) ==
    \E t \in Transports :
        /\ h \in Workers /\ thr[h] = Idle /\ mgrLock = None /\ tp[t].mem = "none"
        /\ Change(t, Created(FALSE)) /\ table' = Append(table, t)
        /\ Set(h, At("accepted", t, "idle"))
        /\ UNCHANGED <<mgrLock, users>>

Accepted(h, t) ==
    /\ Is(h, "accepted", t)
    /\ Set(h, IF Usable(t) THEN At("kaSchedule", t, "idle") ELSE Idle)
    /\ UNCHANGED <<tp, table, mgrLock, users>>

\* The keep-alive timer is scheduled, then marked as running.
KeepAliveSchedule(h, t) ==
    /\ Is(h, "kaSchedule", t)
    /\ Change(t, [tp[t] EXCEPT !.kaArmed = TRUE]) /\ Set(h, At("kaMark", t, "idle"))
    /\ UNCHANGED <<table, mgrLock, users>>

KeepAliveMark(h, t) ==
    /\ Is(h, "kaMark", t)
    /\ Change(t, [tp[t] EXCEPT !.kaId = TRUE]) /\ Set(h, Idle)
    /\ UNCHANGED <<table, mgrLock, users>>

\* The entry may belong to a transport that has been released.
PopKeepAlive(h, t) ==
    /\ h \in Workers /\ thr[h] = Idle /\ tp[t].kaArmed
    /\ Change(t, [tp[t] EXCEPT !.kaArmed = FALSE]) /\ Set(h, At("ka", t, "idle"))
    /\ UNCHANGED <<table, mgrLock, users>>

\* tcp_keep_alive_timer: nothing to send, sent, or an error.
KeepAlive(h, t) ==
    /\ Is(h, "ka", t)
    /\ \/ /\ Change(t, [tp[t] EXCEPT !.kaId = TRUE]) /\ Set(h, At("kaSchedule", t, "idle"))
          /\ UNCHANGED <<table, mgrLock, users>>
       \/ InitShutdown(h, t, [tp[t] EXCEPT !.kaId = TRUE], "idle")

\* on_data_read: a message, for which a transaction takes a reference ...
Receive(h, t) ==
    /\ h \in Workers /\ thr[h] = Idle /\ Open(t) /\ ~tp[t].has_pending_connect
    /\ users[t] < MaxUsers
    /\ Change(t, Referred(tp[t]))
    /\ users' = [users EXCEPT ![t] = @ + 1]
    /\ Set(h, IF tp[t].ref_cnt = 0 THEN At("verify", t, "idle") ELSE Idle)
    /\ UNCHANGED <<table, mgrLock>>

\* ... or the end of the connection; or on_data_sent with an error.
PeerCloses(h, t) ==
    /\ h \in Workers /\ thr[h] = Idle /\ Open(t) /\ ~tp[t].has_pending_connect
    /\ InitShutdown(h, t, tp[t], "idle")

---------------------------------------------------------------------------
\* What a thread does next in a function that it is in.
Continue(h, t) ==
    \/ Verify(h, t) \/ Dec(h, t) \/ Rearm(h, t) \/ Drop(h, t)
    \/ IdleCallback(h, t) \/ IdleCheck(h, t) \/ Destroy(h, t) \/ TimerDone(h, t)
    \/ LockTransport(h, t) \/ Unregister(h, t) \/ Close(h, t)
    \/ ShutNothing(h, t) \/ ShutKeepAlive(h, t) \/ ShutEnd(h, t)
    \/ ShutVerify(h, t) \/ ShutUnlock(h, t)
    \/ VerifyInit(h, t) \/ CheckAgain(h, t) \/ SendLater(h, t) \/ Queue(h, t) \/ SendNow(h, t)
    \/ Flush(h, t) \/ Accepted(h, t) \/ KeepAliveSchedule(h, t) \/ KeepAliveMark(h, t) \/ KeepAlive(h, t)

\* What a thread begins.
Begin(h) ==
    \/ Acquire(h) \/ AcquireNew(h) \/ ShutdownAll(h) \/ Accept(h)
    \/ \E t \in Transports :
          \/ Release(h, t) \/ Send(h, t) \/ Shutdown(h, t) \/ ConnectDone(h, t) \/ Receive(h, t)
          \/ PeerCloses(h, t) \/ PopIdle(h, t) \/ PopKeepAlive(h, t)

Next ==
    \E h \in Threads : Begin(h) \/ ShutdownNext(h) \/ \E t \in Transports : Continue(h, t)

\* A thread goes on with what it began and in the end gets a lock that is given back again
\* and again; an idle timer that stays due comes out of the heap.
Fairness ==
    /\ \A h \in Threads : SF_vars(ShutdownNext(h) \/ \E t \in Transports : Continue(h, t))
    /\ \A h \in Workers, t \in Transports : SF_vars(PopIdle(h, t))

Spec == Init /\ [][Next]_vars /\ Fairness

---------------------------------------------------------------------------
\* Properties

\* Every field has its type, and no reference is given back twice.
TypeOK ==
    /\ tp \in [Transports -> Transport] /\ users \in [Transports -> 0 .. MaxUsers]
    /\ \A t \in Transports : tp[t].ref_cnt >= users[t] /\ tp[t].grp >= tp[t].ref_cnt
    /\ mgrLock \in Threads \cup {None} /\ DOMAIN thr = Threads

\* A transport that somebody holds a reference on is in the table, open, and not about to be
\* destroyed, although the idle timer may be firing while it is acquired.
HeldIsOpen ==
    \A t \in Transports : users[t] > 0 => Valid(t) /\ Open(t) /\ ~tp[t].is_destroying

\* Memory is released when nobody works with the transport any more (the group lock's
\* handler tcp_on_destroy, sip_transport_tcp.c:873): no thread does, and no idle timer points
\* to released memory, unless it is in the callback of the keep-alive timer.
AliveWhenUsed ==
    /\ \A h \in Threads :
          thr[h].tp # None /\ thr[h].pc \notin {"ka", "kaSchedule", "kaMark"}
            => tp[thr[h].tp].mem = "live"
    /\ \A t \in Transports : tp[t].armed => tp[t].mem = "live"

\* pjsip_tpmgr_shutdown_all has the manager's lock and waits for a transport's, whose holder
\* waits for the manager's.
LocksCross ==
    \E h, g \in Threads :
        /\ mgrLock = h /\ thr[h].pc = "shutLock" /\ tp[thr[h].tp].lock = g
        /\ thr[g].pc \in {"shut", "unregister"}

\* A transport that was in use and is not used any more is released, and what waited to be
\* sent has been given up, unless pjsip_tpmgr_shutdown_all has met a thread that takes the
\* two locks in the other order: no other crossing leaves a transport behind.
UnusedIsReleasedOrLocked ==
    \A t \in Transports :
        <>[](tp[t].referred /\ users[t] = 0)
            => <>(LocksCross \/ (tp[t].mem = "freed" /\ ~tp[t].delayed))
===============================================================================
