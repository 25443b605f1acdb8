---------------------------- MODULE SipTransaction ----------------------------
(***************************************************************************)
(* One SIP transaction of pjsip/src/pjsip/sip_transaction.c, client or     *)
(* server, with its two timers, its transport and its reference count.     *)
(* A handler that keeps the group lock is one step.  The places where the  *)
(* code has no lock with work still to do (a timer entry popped from the   *)
(* heap before its callback runs, and what the callback reads and writes   *)
(* before it waits for the lock; the user told of TERMINATED or DESTROYED  *)
(* with the lock released; the end of transport_callback) are steps of     *)
(* their own: variable busy counts the workers that are at each of them.   *)
(***************************************************************************)
EXTENDS Integers, FiniteSets

CONSTANTS Workers,     \* threads that poll timers and sockets
          AsyncSend    \* pjsip_transport_send may return PJ_EPENDING

ASSUME SipTransactionAssumption ==
    /\ Workers \in Nat \ {0}
    /\ AsyncSend \in BOOLEAN

VARIABLES tsx,    \* the transaction
          busy    \* how many workers have begun each kind of work and not finished

vars == <<tsx, busy>>

States == {"NULL", "CALLING", "TRYING", "PROCEEDING", "COMPLETED", "CONFIRMED",
           "TERMINATED", "DESTROYED"}

\* The order of enum pjsip_tsx_state_e.
Rank == [NULL |-> 0, CALLING |-> 1, TRYING |-> 2, PROCEEDING |-> 3, COMPLETED |-> 4,
         CONFIRMED |-> 5, TERMINATED |-> 6, DESTROYED |-> 7]

\* Status codes the code tells apart: none, 100, another 1xx, 2xx, a failure,
\* 408 or 481, 502 and 503 (an error of the transport).
Codes == {0, 100, 180, 200, 300, 408, 502, 503}

TimerIds == {"none", "timeout", "transportErr", "transportDisc", "terminate"}

\* Unfinished work of a worker thread.
Tails == {"popR", "popT",   \* a timer entry popped, its callback not yet run
          "idTimeout", "idErr", "idDisc", "idTerminate",  \* the entry's id has been read
          "timeout",        \* about to lock for the timeout's handler
          "lockErr", "lockDisc",  \* about to lock for a transport error or disconnection
          "terminated",     \* TERMINATED told by the timeout timer's callback
          "destroyed",      \* DESTROYED told by the timeout timer's callback
          "transportErr",   \* TERMINATED set by a transport error, not yet told
          "sendFailed",     \* TERMINATED told by send_msg_callback
          "transportCb"}    \* transport_callback: the error is not yet posted

Messages == {"request", "ack", "response"}

Tsx == [role : {"UAC", "UAS"}, method : {"INVITE", "BYE", "OTHER"},
        reliable : BOOLEAN, state : States, code : Codes,
        transport : BOOLEAN,      \* tsx->transport is set
        pending : BOOLEAN,        \* TSX_HAS_PENDING_TRANSPORT
        resolved : BOOLEAN,       \* TSX_HAS_RESOLVED_SERVER
        resched : BOOLEAN,        \* TSX_HAS_PENDING_RESCHED
        resend : BOOLEAN,         \* TSX_HAS_PENDING_SEND
        pendingDestroy : BOOLEAN, \* TSX_HAS_PENDING_DESTROY
        sending : Messages \cup {"none"},   \* awaiting transport_callback
        resolving : {"no", "attached", "detached"}, \* awaiting send_msg_callback
        last : Messages \cup {"none"},      \* last_tx
        rtimer : BOOLEAN,         \* retransmit_timer is in the heap
        ttimer : BOOLEAN,         \* timeout_timer is in the heap
        tid : TimerIds,           \* timeout_timer.id, which outlives the pop
        terminating : BOOLEAN, user : BOOLEAN,
        refs : Int,               \* reference count of the group lock
        told : States]            \* the last state the user was told

\* The types of the transaction's fields; its group lock is never released more often than it
\* was referenced.
TypeOK == tsx \in Tsx /\ tsx.refs >= 0 /\ busy \in [Tails -> 0 .. Workers]

\* How a message that is handed to the transport layer fares: over the
\* transaction's transport; after resolving the destination, which may find a
\* reliable transport or not; and the resend of a message that waited for the
\* resolution.
Later == IF AsyncSend THEN {"pending"} ELSE {}
Outcome == [tp : {"sent", "fail"} \cup Later,
            res : {"sent", "pending", "fail502", "fail503", "error"},
            rel : BOOLEAN, again : {"sent"} \cup Later]

-------------------------------------------------------------------------------
(* Timers and state: the operators below map a transaction to what it is   *)
(* after the operation.                                                    *)

\* tsx_schedule_timer of the retransmission timer; an entry that is in the
\* heap stays as it is.  The heap holds a reference for each entry.
ScheduleR(t) == IF t.rtimer THEN t ELSE [t EXCEPT !.rtimer = TRUE, !.refs = @ + 1]

\* tsx_cancel_timer of the retransmission timer.
CancelR(t) == IF t.rtimer THEN [t EXCEPT !.rtimer = FALSE, !.refs = @ - 1] ELSE t

\* tsx_schedule_timer of the timeout timer.
ScheduleT(t, id) ==
    IF t.ttimer THEN t ELSE [t EXCEPT !.ttimer = TRUE, !.tid = id, !.refs = @ + 1]

\* Mutant of CancelT: the heap's reference is dropped even when the entry has
\* just been popped.
CancelTAlways(t) == [t EXCEPT !.ttimer = FALSE, !.tid = "none", !.refs = @ - 1]

\* tsx_cancel_timer of the timeout timer: nothing if it has just been popped.
CancelT(t) ==
    IF t.ttimer THEN [t EXCEPT !.ttimer = FALSE, !.tid = "none", !.refs = @ - 1] ELSE t

ResetT(t, id) == ScheduleT(CancelT(t), id)

\* tsx_set_state up to and including the callback to the user.
Enter(t, s) == [t EXCEPT !.state = s, !.told = IF t.user THEN s ELSE @]

\* Mutant of Detach: the reference of the detached send is not given back.
DetachLeaks(t) ==
    IF ~t.pending THEN t
    ELSE IF t.resolving = "attached"
    THEN [t EXCEPT !.pending = FALSE, !.resolving = "detached"]
    ELSE [t EXCEPT !.pending = FALSE]

\* The rest of tsx_set_state for TERMINATED, but for the timer: a send whose
\* callback is still to come is detached.
Detach(t) ==
    IF ~t.pending THEN t
    ELSE IF t.resolving = "attached"
    THEN [t EXCEPT !.pending = FALSE, !.resolving = "detached", !.refs = @ - 1]
    ELSE [t EXCEPT !.pending = FALSE]

Terminated(t) == ResetT(Detach(t), "timeout")

Terminate(t, c) == Terminated(Enter([t EXCEPT !.code = c], "TERMINATED"))

\* tsx_shutdown
Shutdown(t) ==
    LET u == CancelR(CancelT(
                [t EXCEPT !.transport = FALSE, !.last = "none", !.resend = FALSE,
                          !.resched = FALSE,
                          !.pendingDestroy = @ \/ t.pending,
                          !.user = @ /\ ~t.pending]))
    IN  IF u.terminating THEN u
        ELSE [u EXCEPT !.terminating = TRUE, !.refs = @ - 1]

\* tsx_set_state for DESTROYED.
Destroy(t) == Shutdown(Enter(t, "DESTROYED"))

-------------------------------------------------------------------------------
(* Sending.                                                                *)

\* pjsip_transport_send by tsx_send_msg, when it does not fail.
Transmit(t, m, how) ==
    IF how = "pending"
    THEN [t EXCEPT !.pending = TRUE, !.sending = m, !.refs = @ + 1]
    ELSE t

\* The end of send_msg_callback and of transport_callback: a message that
\* waited has been sent by u, then the retransmission timer that waited is set.
Reschedule(u) ==
    IF ~u.resched \/ u.pending THEN u
    ELSE LET v == [u EXCEPT !.resched = FALSE]
         IN  IF v.reliable THEN v ELSE ScheduleR(v)

\* send_msg_callback gives back the reference and the link to the message.
Answered(t) == [t EXCEPT !.refs = @ - 1, !.resolving = "no", !.pending = FALSE,
                         !.resolved = TRUE]

\* send_msg_callback, sent.
SendDone(t, o) ==
    LET u == [Answered(t) EXCEPT !.transport = TRUE, !.reliable = o.rel]
        v == [u EXCEPT !.resend = FALSE]
    IN  IF u.pendingDestroy THEN Destroy(u)
        ELSE Reschedule(IF ~u.resend THEN u
                        ELSE IF v.last = "none" THEN v
                        ELSE Transmit(v, v.last, o.again))

\* send_msg_callback, failed for good: does it terminate the transaction?
FailTerminates(t, c) == /\ t.role = "UAC" \/ c = 502
                        /\ Rank[t.state] < Rank["TERMINATED"]

\* The same when it does not terminate it.
SendGivenUp(t, c) ==
    LET u == [Answered(t) EXCEPT !.transport = FALSE]
    IN  IF u.pendingDestroy THEN Destroy([u EXCEPT !.code = c])
        ELSE IF /\ u.role = "UAS" /\ u.resched
                /\ Rank[u.state] < Rank["TERMINATED"]
        THEN ScheduleR([u EXCEPT !.resched = FALSE])
        ELSE u

\* The same inside tsx_send_msg, whose caller holds the lock all along.
SendFailed(t, c) ==
    IF FailTerminates(t, c)
    THEN Terminate([Answered(t) EXCEPT !.transport = FALSE], c)
    ELSE SendGivenUp(t, c)

\* tsx_send_msg without a working transport: pjsip_endpt_send_request_stateless
\* or pjsip_endpt_send_response resolve the destination and find a transport,
\* and call send_msg_callback before they return or later.
Resolve(t, o) ==
    LET a == [t EXCEPT !.transport = FALSE, !.pending = TRUE,
                       !.resolving = "attached", !.refs = @ + 1]
    IN  CASE o.res = "pending" -> a
          [] o.res = "sent"    -> SendDone(a, o)
          [] o.res = "fail502" -> SendFailed(a, 502)
          [] o.res = "fail503" -> SendFailed(a, 503)
          [] o.res = "error"   -> [t EXCEPT !.transport = FALSE]

\* tsx_send_msg
SendMsg(t, m, o) ==
    IF t.pending THEN [t EXCEPT !.resend = TRUE]
    ELSE IF t.sending = m THEN t
    ELSE IF t.transport /\ o.tp # "fail" THEN Transmit(t, m, o.tp)
    ELSE IF t.role = "UAC" /\ t.resolved
    THEN Terminate([t EXCEPT !.transport = FALSE], 503)
    ELSE Resolve(t, o)

\* tsx_send_msg returns PJ_SUCCESS.
SendOk(t, m, o) ==
    \/ t.pending
    \/ t.sending = m
    \/ t.transport /\ o.tp # "fail"
    \/ /\ ~(t.role = "UAC" /\ t.resolved)
       /\ o.res \in {"sent", "pending"} \/ (t.role = "UAS" /\ o.res = "fail503")

\* What is done once the last message is on its way or waits: the timer of the
\* next retransmission.
ArmR(t) == IF t.pending THEN [t EXCEPT !.resched = TRUE] ELSE ScheduleR(t)

\* tsx_retransmit
Retransmit(t, again, o) ==
    IF (again /\ t.rtimer) \/ t.last = "none" THEN t
    ELSE SendMsg(IF again THEN ArmR(t) ELSE t, t.last, o)

-------------------------------------------------------------------------------
(* Handlers of events, by state.                                           *)

\* tsx_on_state_null, client: the user sends the request.
SendRequest(t, o) ==
    LET u == SendMsg([t EXCEPT !.last = "request"], "request", o)
        v == ResetT(u, "timeout")
    IN  IF ~SendOk(t, "request", o) THEN u
        ELSE Enter(IF v.reliable THEN v ELSE ArmR(v), "CALLING")

\* tsx_on_state_trying and tsx_on_state_proceeding_uas: the user responds.
Respond(t, c, o) ==
    LET u == SendMsg([t EXCEPT !.code = c, !.last = "none"], "response", o)
        v == [u EXCEPT !.last = "response"]
        w == CancelR(v)
        invite == t.method = "INVITE"
    IN  IF ~SendOk(t, "response", o) THEN u
        ELSE IF c = 100 \/ (c = 180 /\ ~invite) THEN Enter(v, "PROCEEDING")
        ELSE IF c = 180 THEN ArmR(Enter(w, "PROCEEDING"))
        ELSE Enter(ResetT(IF invite /\ (c = 200 \/ ~w.reliable) THEN ArmR(w) ELSE w,
                          "timeout"),
                   "COMPLETED")

\* A retransmission of the request reaches a server transaction.
ReceiveAgain(t, o) ==
    IF t.state = "PROCEEDING" /\ t.last # "none" THEN SendMsg(t, t.last, o)
    ELSE IF t.state = "COMPLETED" THEN Retransmit(t, FALSE, o)
    ELSE t

\* tsx_on_state_completed_uas: ACK of a failure response.
ReceiveAck(t) ==
    IF t.state = "COMPLETED"
    THEN Enter(ResetT([CancelR(t) EXCEPT !.resched = FALSE], "timeout"), "CONFIRMED")
    ELSE t

\* Mutant of ReceiveFirst: a provisional response stops the timeout timer of
\* every method.
ReceiveFirstStops(t, c) ==
    [CancelT(CancelR(t)) EXCEPT !.resched = FALSE]

\* tsx_on_state_calling, the part before it goes on as in PROCEEDING.
ReceiveFirst(t, c) ==
    LET u == CancelR(t)
        v == IF c >= 200 THEN (IF u.tid # "none" THEN CancelT(u) ELSE u)
             ELSE IF u.method = "INVITE" THEN CancelT(u)
             ELSE IF u.reliable THEN u ELSE ScheduleR(u)
    IN  [v EXCEPT !.resched = FALSE]

\* tsx_on_state_proceeding_uac: a response with code c.
ReceiveProceeding(t, c, o) ==
    LET u == [t EXCEPT !.code = c]
        v == CancelT(CancelR(u))
        w == SendMsg(v, "ack", o)
    IN  IF c < 200 THEN Enter(u, "PROCEEDING")
        ELSE IF c = 200 /\ u.method = "INVITE" THEN Terminate(CancelT(u), c)
        ELSE IF c = 200 THEN Enter(CancelR(ScheduleT(CancelT(u), "timeout")), "COMPLETED")
        ELSE IF u.method = "INVITE"
        THEN IF ~SendOk(v, "ack", o) THEN w
             ELSE ResetT([Enter(w, "COMPLETED") EXCEPT !.last = "ack"], "timeout")
        ELSE IF u.method = "BYE" /\ c = 408 THEN Terminate(v, c)
        ELSE ResetT(Enter(v, "COMPLETED"), "timeout")

\* Mutant of ReceiveResponse: a late response is handled in COMPLETED too.
ReceiveResponseLate(t, c, o) ==
    IF t.state \in {"PROCEEDING", "COMPLETED"} THEN ReceiveProceeding(t, c, o)
    ELSE IF t.state = "CALLING" THEN ReceiveProceeding(ReceiveFirst(t, c), c, o)
    ELSE t

\* A response reaches a client transaction.
ReceiveResponse(t, c, o) ==
    CASE t.state = "CALLING"    -> ReceiveProceeding(ReceiveFirst(t, c), c, o)
      [] t.state = "PROCEEDING" -> ReceiveProceeding(t, c, o)
      [] t.state = "COMPLETED"  ->
            IF t.method = "INVITE" /\ c >= 200 THEN Retransmit(t, FALSE, o) ELSE t
      [] OTHER -> t

\* The callback of the retransmission timer, by state.
RetransmitTimer(t, o) ==
    IF \/ t.state = "CALLING" \/ t.state = "PROCEEDING"
       \/ t.state = "COMPLETED" /\ t.role = "UAS"
    THEN Retransmit(t, TRUE, o)
    ELSE IF t.state = "TERMINATED" THEN Destroy(t)
    ELSE t

\* The states in which the timeout timer terminates the transaction.
TimesOut(t) == t.state \in {"CALLING", "PROCEEDING", "COMPLETED", "CONFIRMED"}

\* The callback of the timeout timer up to the callback to the user.
TimeoutTimer(t) ==
    LET u == IF t.state = "CALLING" THEN [CancelR(t) EXCEPT !.resched = FALSE] ELSE t
        v == IF \/ t.state \in {"CALLING", "PROCEEDING"}
                \/ t.state = "COMPLETED" /\ t.role = "UAS" /\ t.method = "INVITE"
             THEN [u EXCEPT !.code = 408] ELSE u
    IN  Enter(v, "TERMINATED")

-------------------------------------------------------------------------------
(* References and workers.                                                 *)

Count(b) == IF b THEN 1 ELSE 0

\* References held for what is to come: by the transaction itself until
\* tsx_shutdown, by the timer heap, by a send that is under way.
Held(t) == Count(~t.terminating) + Count(t.rtimer) + Count(t.ttimer)
           + Count(t.sending # "none") + Count(t.resolving = "attached")

\* Workers inside the callback of the timeout timer: they have read the entry's id, ...
Reading(b) == b["idTimeout"] + b["idErr"] + b["idDisc"] + b["idTerminate"]

\* ... are about to take the lock, ...
Locking(b) == b["timeout"] + b["lockErr"] + b["lockDisc"]

\* ... or are anywhere between the pop and the lock.
Popped(b) == b["popT"] + Reading(b) + Locking(b)

\* Workers that tell the user of the end with the lock released, for a timer's callback.
Telling(b) == b["terminated"] + b["destroyed"] + b["transportErr"]

\* References held by the callbacks that are running.  The end of
\* send_msg_callback has none: it gave its own back when it began.
Working(b) == b["popR"] + Popped(b) + Telling(b) + b["transportCb"]

\* A worker thread that has nothing unfinished.
Worker == Working(busy) + busy["sendFailed"] < Workers

Begins(w)       == busy' = [busy EXCEPT ![w] = @ + 1]
Ends(w)         == busy' = [busy EXCEPT ![w] = @ - 1]
GoesOn(w, next) == busy' = [busy EXCEPT ![w] = @ - 1, ![next] = @ + 1]

-------------------------------------------------------------------------------
(* The specification.                                                      *)

\* pjsip_tsx_create_uac2 and pjsip_tsx_create_uas2: one reference is the
\* transaction's own.  A server transaction may keep the transport the request
\* came on.
Init ==
    /\ busy = [w \in Tails |-> 0]
    /\ \E role \in {"UAC", "UAS"}, method \in {"INVITE", "BYE", "OTHER"},
          reliable \in BOOLEAN, transport \in BOOLEAN :
         /\ role = "UAC" => ~transport
         /\ tsx = [role |-> role, method |-> method, reliable |-> reliable,
                   state |-> "NULL", code |-> 0, transport |-> transport,
                   pending |-> FALSE, resolved |-> FALSE, resched |-> FALSE,
                   resend |-> FALSE, pendingDestroy |-> FALSE, sending |-> "none",
                   resolving |-> "no", last |-> "none", rtimer |-> FALSE,
                   ttimer |-> FALSE, tid |-> "none", terminating |-> FALSE,
                   user |-> TRUE, refs |-> 1, told |-> "NULL"]

Running(t) == Rank[t.state] < Rank["TERMINATED"]

\* A thread of the user: the transaction is its own until it is told DESTROYED.
User == tsx.told # "DESTROYED"

\* pjsip_tsx_send_msg of the request.
TuSendRequest(o) ==
    /\ User
    /\ tsx.role = "UAC" /\ tsx.state = "NULL"
    /\ tsx' = SendRequest(tsx, o)
    /\ UNCHANGED busy

\* Mutant of TuRespond: a response is also taken after the final one.
TuRespondAgain(c, o) ==
    /\ User
    /\ tsx.role = "UAS" /\ tsx.state \in {"TRYING", "PROCEEDING", "COMPLETED"}
    /\ o.res # "error"
    /\ tsx' = Respond(tsx, c, o)
    /\ UNCHANGED busy

\* pjsip_tsx_send_msg of a response.
TuRespond(c, o) ==
    /\ User
    /\ tsx.role = "UAS" /\ tsx.state \in {"TRYING", "PROCEEDING"}
    /\ o.res # "error"
    /\ tsx' = Respond(tsx, c, o)
    /\ UNCHANGED busy

\* pjsip_tsx_terminate
TuTerminate(c) ==
    /\ User
    /\ Running(tsx)
    /\ tsx' = Terminate(tsx, c)
    /\ UNCHANGED busy

\* pjsip_tsx_set_timeout, by the INVITE session that has sent CANCEL.
TuSetTimeout ==
    /\ User
    /\ tsx.role = "UAC" /\ tsx.method = "INVITE"
    /\ Rank[tsx.told] \in 1 .. Rank["CONFIRMED"]
    /\ ~(tsx.code >= 200 /\ tsx.tid # "none")
    /\ tsx' = ResetT(tsx, "timeout")
    /\ UNCHANGED busy

\* The user accepts a new request: pjsip_tsx_recv_msg in state NULL.
Accept ==
    /\ Worker
    /\ tsx.role = "UAS" /\ tsx.state = "NULL"
    /\ tsx' = Enter(tsx, "TRYING")
    /\ UNCHANGED busy

\* mod_tsx_layer_on_rx_request: the request again, or the ACK of a failure.
RxRequest(o) ==
    /\ Worker
    /\ tsx.role = "UAS" /\ tsx.state # "NULL" /\ Running(tsx)
    /\ o.res # "error"
    /\ tsx' = ReceiveAgain(tsx, o)
    /\ UNCHANGED busy

RxAck ==
    /\ Worker
    /\ tsx.role = "UAS" /\ tsx.method = "INVITE" /\ Running(tsx)
    /\ tsx.code >= 300
    /\ tsx' = ReceiveAck(tsx)
    /\ UNCHANGED busy

\* pjsip_tsx_terminate_async, by the INVITE session on an ACK that the
\* transaction did not absorb.
AckTerminates ==
    /\ Worker
    /\ tsx.role = "UAS" /\ tsx.method = "INVITE" /\ tsx.code >= 300
    /\ Rank[tsx.state] <= Rank["COMPLETED"]
    /\ tsx' = ResetT(tsx, "terminate")
    /\ UNCHANGED busy

\* mod_tsx_layer_on_rx_response
RxResponse(c, o) ==
    /\ Worker
    /\ tsx.role = "UAC" /\ tsx.state # "NULL" /\ Running(tsx)
    /\ tsx' = ReceiveResponse(tsx, c, o)
    /\ UNCHANGED busy

\* pj_timer_heap_poll takes an entry out of the heap; the heap's reference is
\* dropped after the callback.
PopRetransmit ==
    /\ Worker
    /\ tsx.rtimer
    /\ tsx' = [tsx EXCEPT !.rtimer = FALSE]
    /\ Begins("popR")

PopTimeout ==
    /\ Worker
    /\ tsx.ttimer
    /\ tsx' = [tsx EXCEPT !.ttimer = FALSE]
    /\ Begins("popT")

DropRef(t) == [t EXCEPT !.refs = @ - 1]

\* tsx_timer_callback of the retransmission timer.
RunRetransmit(o) ==
    /\ busy["popR"] > 0
    /\ tsx.role = "UAS" => o.res # "error"
    /\ tsx' = DropRef(RetransmitTimer(tsx, o))
    /\ Ends("popR")

\* tsx_timer_callback of the timeout timer, without the lock: nothing if the
\* transaction is destroyed; otherwise the entry's id, which may be another
\* one than when it was popped, tells what to do, ...
RunDestroyed ==
    /\ busy["popT"] > 0
    /\ tsx.state = "DESTROYED"
    /\ tsx' = DropRef(tsx)
    /\ Ends("popT")

IdTail == [none |-> "idTimeout", timeout |-> "idTimeout", terminate |-> "idTerminate",
           transportErr |-> "idErr", transportDisc |-> "idDisc"]

ReadId ==
    /\ busy["popT"] > 0
    /\ tsx.state # "DESTROYED"
    /\ GoesOn("popT", IdTail[tsx.tid])
    /\ UNCHANGED tsx

\* ... and is cleared, whatever has been scheduled in between.
ClearTimeout ==
    /\ busy["idTimeout"] > 0
    /\ tsx' = [tsx EXCEPT !.tid = "none"]
    /\ GoesOn("idTimeout", "timeout")

\* TRANSPORT_ERR_TIMER and TRANSPORT_DISC_TIMER look at the state before they lock.
ClearTransport(id, lock) ==
    /\ busy[id] > 0
    /\ LET u == [tsx EXCEPT !.tid = "none"]
       IN IF Running(tsx)
          THEN tsx' = u /\ GoesOn(id, lock)
          ELSE tsx' = DropRef(u) /\ Ends(id)

\* TERMINATE_TIMER: pjsip_tsx_terminate, which looks at the state under the lock.
RunTerminate ==
    /\ busy["idTerminate"] > 0
    /\ tsx' = DropRef(IF Running(tsx) /\ tsx.code >= 200 THEN Terminate(tsx, tsx.code)
                      ELSE tsx)
    /\ Ends("idTerminate")

\* A server INVITE transaction without a final response outlives its transport.
Survives(t) == /\ t.role = "UAS" /\ t.method = "INVITE" /\ t.code < 200
               /\ ~t.pending /\ ~t.pendingDestroy

\* A transport error under the lock, whatever the state is by now.
TransportFailed(w) ==
    /\ busy[w] > 0
    /\ tsx' = CancelT(Detach([tsx EXCEPT !.transport = FALSE, !.state = "TERMINATED",
                                         !.code = IF @ < 200 THEN 503 ELSE @]))
    /\ GoesOn(w, "transportErr")

\* A disconnection under the lock.
RunDisconnected ==
    /\ busy["lockDisc"] > 0
    /\ IF Survives(tsx)
       THEN /\ tsx' = DropRef([tsx EXCEPT !.transport = FALSE, !.resolved = FALSE,
                                         !.resched = FALSE, !.resend = FALSE])
            /\ Ends("lockDisc")
       ELSE TransportFailed("lockDisc")

\* TIMEOUT_TIMER, handed to the state's handler under the lock.
RunTimeout ==
    /\ busy["timeout"] > 0
    /\ IF TimesOut(tsx)
       THEN tsx' = TimeoutTimer(tsx) /\ GoesOn("timeout", "terminated")
       ELSE IF tsx.state = "TERMINATED"
       THEN tsx' = Enter(tsx, "DESTROYED") /\ GoesOn("timeout", "destroyed")
       ELSE tsx' = DropRef(tsx) /\ Ends("timeout")

\* The rest of tsx_set_state once the user has returned and the lock is taken
\* again, then the end of the timer's callback.
FinishTerminated ==
    /\ busy["terminated"] > 0
    /\ tsx' = DropRef(Terminated(tsx))
    /\ Ends("terminated")

FinishDestroyed ==
    /\ busy["destroyed"] > 0
    /\ tsx' = DropRef(Shutdown(tsx))
    /\ Ends("destroyed")

\* Mutant of FinishTransportErr: the handler that destroys the transaction is
\* not scheduled.
FinishTransportErrForgets ==
    /\ busy["transportErr"] > 0
    /\ tsx' = DropRef([tsx EXCEPT !.told = IF tsx.user THEN "TERMINATED" ELSE @])
    /\ Ends("transportErr")

\* The transport error is told without the lock, and only then is the handler
\* that destroys the transaction scheduled.
FinishTransportErr ==
    /\ busy["transportErr"] > 0
    /\ tsx' = DropRef(ScheduleT([tsx EXCEPT !.told = IF tsx.user THEN "TERMINATED" ELSE @],
                                "timeout"))
    /\ Ends("transportErr")

\* send_msg_callback for a message that was being resolved: sent, ...
ResolveSent(o) ==
    /\ Worker
    /\ tsx.resolving = "attached"
    /\ tsx' = SendDone(tsx, o)
    /\ UNCHANGED busy

\* ... failed for good (the user is told of TERMINATED without the lock), ...
ResolveFails(c) ==
    /\ Worker
    /\ tsx.resolving = "attached"
    /\ IF FailTerminates(tsx, c)
       THEN /\ tsx' = Enter([Answered(tsx) EXCEPT !.transport = FALSE, !.code = c],
                            "TERMINATED")
            /\ Begins("sendFailed")
       ELSE tsx' = SendGivenUp(tsx, c) /\ UNCHANGED busy

\* The end of that: the lock is taken again, even on a transaction that has been
\* released by then; the model then goes on with what it was.
FinishSendFailed ==
    /\ busy["sendFailed"] > 0
    /\ tsx' = Terminated(tsx)
    /\ Ends("sendFailed")

\* ... failed with another server to try, ...
ResolveRetries ==
    /\ Worker
    /\ tsx.role = "UAC"
    /\ tsx.resolving = "attached" /\ ~tsx.pendingDestroy
    /\ tsx' = IF tsx.tid # "none" THEN ResetT(tsx, "timeout") ELSE tsx
    /\ UNCHANGED busy

\* Mutant of ResolveDetached: it gives back the reference a second time.
ResolveDetachedDrops ==
    /\ Worker
    /\ tsx.resolving = "detached"
    /\ tsx' = DropRef([tsx EXCEPT !.resolving = "no"])
    /\ UNCHANGED busy

\* ... or of no interest any more.
ResolveDetached ==
    /\ Worker
    /\ tsx.resolving = "detached"
    /\ tsx' = [tsx EXCEPT !.resolving = "no"]
    /\ UNCHANGED busy

\* transport_callback.  A pending destroy returns early.
TransportCallback(ok, o) ==
    /\ Worker
    /\ tsx.sending # "none"
    /\ tsx.role = "UAS" => o.res # "error"
    /\ LET u == [tsx EXCEPT !.pending = FALSE, !.sending = "none"]
           v == [u EXCEPT !.resend = FALSE]
       IN IF ~ok /\ u.role = "UAC"
          THEN tsx' = u /\ Begins("transportCb")
          ELSE IF u.pendingDestroy
          THEN tsx' = Destroy(u) /\ UNCHANGED busy
          ELSE /\ tsx' = DropRef(Reschedule(IF u.resend /\ u.last # "none"
                                            THEN SendMsg(v, v.last, o) ELSE v))
               /\ UNCHANGED busy

FinishTransportCb ==
    /\ busy["transportCb"] > 0
    /\ tsx' = DropRef(IF Rank[tsx.state] < Rank["COMPLETED"]
                      THEN ResetT(tsx, "transportErr") ELSE tsx)
    /\ Ends("transportCb")

\* tsx_tp_state_callback
TransportDisconnects ==
    /\ Worker
    /\ tsx.transport
    /\ Rank[tsx.state] < Rank["COMPLETED"]
    /\ tsx' = ResetT(tsx, "transportDisc")
    /\ UNCHANGED busy

UserStep ==
    \/ \E o \in Outcome : TuSendRequest(o) \/ \E c \in {100, 180, 200, 300} : TuRespond(c, o)
    \/ \E c \in {200, 300} : TuTerminate(c)
    \/ TuSetTimeout

Receive ==
    \/ Accept \/ RxAck \/ AckTerminates
    \/ \E o \in Outcome : \/ RxRequest(o)
                          \/ \E c \in {100, 180, 200, 300, 408} : RxResponse(c, o)

Callback ==
    \/ \E o \in Outcome : \/ ResolveSent(o)
                          \/ \E ok \in BOOLEAN : TransportCallback(ok, o)
    \/ \E c \in {502, 503} : ResolveFails(c)
    \/ ResolveRetries \/ ResolveDetached \/ TransportDisconnects

\* What a worker has begun and ends: the callback of a timer, ...
RunTimer == \/ \E o \in Outcome : RunRetransmit(o)
            \/ RunDestroyed \/ ReadId \/ ClearTimeout
            \/ ClearTransport("idErr", "lockErr") \/ ClearTransport("idDisc", "lockDisc")
            \/ RunTerminate \/ TransportFailed("lockErr") \/ RunDisconnected \/ RunTimeout

\* ... or what follows the callback to the user.
Finish == \/ FinishTerminated \/ FinishDestroyed \/ FinishTransportErr
          \/ FinishSendFailed \/ FinishTransportCb

Next == UserStep \/ Receive \/ PopRetransmit \/ PopTimeout \/ RunTimer \/ Finish \/ Callback

\* Every worker ends what it has begun, whatever the others do, and the heap is
\* polled in the order of time, so that an entry that stays in it is popped in
\* the end.
Fairness == /\ WF_vars(RunDestroyed \/ ReadId) /\ WF_vars(ClearTimeout)
            /\ WF_vars(ClearTransport("idErr", "lockErr"))
            /\ WF_vars(ClearTransport("idDisc", "lockDisc"))
            /\ WF_vars(RunTerminate) /\ WF_vars(TransportFailed("lockErr"))
            /\ WF_vars(RunDisconnected) /\ WF_vars(RunTimeout)
            /\ WF_vars(\E o \in Outcome : RunRetransmit(o))
            /\ WF_vars(FinishTerminated) /\ WF_vars(FinishDestroyed)
            /\ WF_vars(FinishTransportErr) /\ WF_vars(FinishSendFailed)
            /\ WF_vars(FinishTransportCb)
            /\ SF_vars(PopTimeout)

Spec == Init /\ [][Next]_vars /\ Fairness

-------------------------------------------------------------------------------
(* Properties.                                                             *)

\* No reference is given back twice: the group lock counts everyone who still
\* holds the transaction, so that it is not freed under them (the timer heap's
\* and the transports' references, sip_transaction.c:2421, 2508 and 2258).
HoldersCounted == tsx.refs >= Held(tsx) + Working(busy)

\* tsx_shutdown logs "Will destroy later because transport is in progress": the
\* memory is released once nobody holds the transaction any more.  Not with AsyncSend:
\* transport_callback then returns before it gives back the reference of its send.
FreedWhenDone == Held(tsx) + Working(busy) = 0 => tsx.refs = 0

\* "New state must be greater than previous state" (tsx_set_state): with one
\* worker the state never goes back, whatever is sent late or times out.  With
\* two, a timeout callback that has looked at the state before it locks can bring
\* a destroyed transaction back to TERMINATED.
StateForward == [][Rank[tsx'.state] >= Rank[tsx.state]]_vars

\* The user is told the states in their order, although TERMINATED and DESTROYED
\* are told without the lock (on_tsx_state).
ToldInOrder == [][Rank[tsx'.told] >= Rank[tsx.told]]_vars

\* The states that only a timer ends for sure.
Deadline == \/ tsx.state \in {"CALLING", "COMPLETED", "CONFIRMED", "TERMINATED"}
            \/ tsx.state = "PROCEEDING" /\ tsx.role = "UAC" /\ tsx.method # "INVITE"

\* A transaction that must end by itself always has its timer: in the heap,
\* popped, or about to be scheduled (the reset in every state's handler).
Armed == Deadline /\ ~tsx.terminating =>
            \/ tsx.ttimer
            \/ Popped(busy) + busy["terminated"] + busy["transportErr"]
                 + busy["sendFailed"] > 0

\* A transaction with a final response, a terminated one, and a client's other
\* than INVITE, whatever is received or fails, is destroyed in the end.
EndsDestroyed ==
    tsx.state \in {"COMPLETED", "CONFIRMED", "TERMINATED"}
        \/ (tsx.state \in {"CALLING", "PROCEEDING"} /\ tsx.role = "UAC"
              /\ tsx.method # "INVITE")
      ~> tsx.state = "DESTROYED"

===============================================================================
