------------------------- MODULE SipTransactionProofs -------------------------
(***************************************************************************)
(* The reference count of a transaction is never given back too early, for *)
(* every number of worker threads and for transports that send at once or  *)
(* later.  Slack is what the count has over the references that are held;  *)
(* every operator of SipTransaction keeps a transaction well typed and its *)
(* slack from shrinking (Keeps), and the actions that begin or end the     *)
(* work of a thread move one reference between the transaction and busy.   *)
(* With one worker thread the states follow each other in their order, and *)
(* so does what the user is told (Follows).                                *)
(***************************************************************************)
EXTENDS SipTransaction, FiniteSetTheorems, TLAPS

Slack(t) == t.refs - Held(t)

Keeps(t, u) == u \in Tsx /\ Slack(u) >= Slack(t)

\* The slack is a number.
LEMMA SlackInt ==
    ASSUME NEW t \in Tsx
    PROVE  Slack(t) \in Int
  BY DEF Tsx, Slack, Held, Count

LEMMA RefsInt ==
    ASSUME NEW t \in Tsx
    PROVE  t.refs \in Int /\ t.refs + 1 \in Int /\ t.refs - 1 \in Int
  <1>1. t.refs \in Int  BY DEF Tsx
  <1>2. QED  BY <1>1

LEMMA KeepsRefl ==
    ASSUME NEW t \in Tsx
    PROVE  Keeps(t, t)
  BY SlackInt DEF Keeps

LEMMA KeepsTrans ==
    ASSUME NEW t \in Tsx, NEW u, NEW v, Keeps(t, u), Keeps(u, v)
    PROVE  Keeps(t, v)
  BY SlackInt DEF Keeps

-------------------------------------------------------------------------------
(* Timers and state.                                                       *)

\* tsx_schedule_timer: one reference for the entry in the heap.
LEMMA ScheduleRKeeps ==
    ASSUME NEW t \in Tsx
    PROVE  Keeps(t, ScheduleR(t))
  <1>1. CASE t.rtimer
    BY <1>1, KeepsRefl DEF ScheduleR
  <1>2. CASE ~t.rtimer
    <2>1. ScheduleR(t) \in Tsx  BY RefsInt, <1>2 DEF ScheduleR, Tsx
    <2>2. Slack(ScheduleR(t)) >= Slack(t)
      BY <1>2 DEF ScheduleR, Tsx, Slack, Held, Count
    <2>3. QED  BY <2>1, <2>2 DEF Keeps
  <1>3. QED  BY <1>1, <1>2

LEMMA CancelRKeeps ==
    ASSUME NEW t \in Tsx
    PROVE  Keeps(t, CancelR(t))
  <1>1. CASE ~t.rtimer
    BY <1>1, KeepsRefl DEF CancelR
  <1>2. CASE t.rtimer
    <2>1. CancelR(t) \in Tsx  BY RefsInt, <1>2 DEF CancelR, Tsx
    <2>2. Slack(CancelR(t)) >= Slack(t)
      BY <1>2 DEF CancelR, Tsx, Slack, Held, Count
    <2>3. QED  BY <2>1, <2>2 DEF Keeps
  <1>3. QED  BY <1>1, <1>2

LEMMA ScheduleTKeeps ==
    ASSUME NEW t \in Tsx, NEW id \in TimerIds
    PROVE  Keeps(t, ScheduleT(t, id))
  <1>1. CASE t.ttimer
    BY <1>1, KeepsRefl DEF ScheduleT
  <1>2. CASE ~t.ttimer
    <2>1. ScheduleT(t, id) \in Tsx  BY RefsInt, <1>2 DEF ScheduleT, Tsx
    <2>2. Slack(ScheduleT(t, id)) >= Slack(t)
      BY <1>2 DEF ScheduleT, Tsx, Slack, Held, Count
    <2>3. QED  BY <2>1, <2>2 DEF Keeps
  <1>3. QED  BY <1>1, <1>2

LEMMA CancelTKeeps ==
    ASSUME NEW t \in Tsx
    PROVE  Keeps(t, CancelT(t))
  <1>1. CASE ~t.ttimer
    BY <1>1, KeepsRefl DEF CancelT
  <1>2. CASE t.ttimer
    <2>1. CancelT(t) \in Tsx  BY RefsInt, <1>2, ZenonT(60) DEF CancelT, Tsx, TimerIds
    <2>2. Slack(CancelT(t)) >= Slack(t)
      BY <1>2 DEF CancelT, Tsx, Slack, Held, Count
    <2>3. QED  BY <2>1, <2>2 DEF Keeps
  <1>3. QED  BY <1>1, <1>2

LEMMA ResetTKeeps ==
    ASSUME NEW t \in Tsx, NEW id \in TimerIds
    PROVE  Keeps(t, ResetT(t, id))
  <1>1. Keeps(t, CancelT(t))  BY CancelTKeeps
  <1>2. CancelT(t) \in Tsx  BY <1>1 DEF Keeps
  <1>3. Keeps(CancelT(t), ResetT(t, id))  BY <1>2, ScheduleTKeeps DEF ResetT
  <1>4. QED  BY <1>1, <1>3, KeepsTrans

\* tsx_set_state: the state and what the user is told hold no reference.
LEMMA EnterKeeps ==
    ASSUME NEW t \in Tsx, NEW s \in States
    PROVE  Keeps(t, Enter(t, s))
  <1>1. Enter(t, s) \in Tsx  BY DEF Enter, Tsx
  <1>2. Slack(Enter(t, s)) >= Slack(t)  BY DEF Enter, Tsx, Slack, Held, Count
  <1>3. QED  BY <1>1, <1>2 DEF Keeps

LEMMA CodeKeeps ==
    ASSUME NEW t \in Tsx, NEW c \in Codes
    PROVE  Keeps(t, [t EXCEPT !.code = c])
  <1> DEFINE u == [t EXCEPT !.code = c]
  <1>1. u \in Tsx  BY DEF Tsx
  <1>2. Slack(u) >= Slack(t)  BY DEF Tsx, Slack, Held, Count
  <1>3. QED  BY <1>1, <1>2 DEF Keeps

LEMMA DetachKeeps ==
    ASSUME NEW t \in Tsx
    PROVE  Keeps(t, Detach(t))
  <1>1. CASE ~t.pending
    BY <1>1, KeepsRefl DEF Detach
  <1>2. CASE t.pending /\ t.resolving = "attached"
    <2>1. Detach(t) \in Tsx  BY RefsInt, <1>2, ZenonT(60) DEF Detach, Tsx
    <2>2. Slack(Detach(t)) >= Slack(t)
      BY <1>2 DEF Detach, Tsx, Slack, Held, Count
    <2>3. QED  BY <2>1, <2>2 DEF Keeps
  <1>3. CASE t.pending /\ t.resolving # "attached"
    <2>1. Detach(t) \in Tsx  BY <1>3 DEF Detach, Tsx
    <2>2. Slack(Detach(t)) >= Slack(t)
      BY <1>3 DEF Detach, Tsx, Slack, Held, Count
    <2>3. QED  BY <2>1, <2>2 DEF Keeps
  <1>4. QED  BY <1>1, <1>2, <1>3

LEMMA TerminatedKeeps ==
    ASSUME NEW t \in Tsx
    PROVE  Keeps(t, Terminated(t))
  <1>1. Keeps(t, Detach(t))  BY DetachKeeps
  <1>2. Detach(t) \in Tsx /\ "timeout" \in TimerIds  BY <1>1 DEF Keeps, TimerIds
  <1>3. Keeps(Detach(t), Terminated(t))  BY <1>2, ResetTKeeps DEF Terminated
  <1>4. QED  BY <1>1, <1>3, KeepsTrans

LEMMA TerminateKeeps ==
    ASSUME NEW t \in Tsx, NEW c \in Codes
    PROVE  Keeps(t, Terminate(t, c))
  <1> DEFINE u == [t EXCEPT !.code = c]
             v == Enter(u, "TERMINATED")
  <1>1. Keeps(t, u)  BY CodeKeeps
  <1>2. u \in Tsx /\ "TERMINATED" \in States  BY <1>1 DEF Keeps, States
  <1>3. Keeps(u, v)  BY <1>2, EnterKeeps
  <1>4. v \in Tsx  BY <1>3 DEF Keeps
  <1>5. Keeps(v, Terminate(t, c))  BY <1>4, TerminatedKeeps DEF Terminate
  <1> HIDE DEF u, v
  <1>6. QED  BY <1>1, <1>2, <1>3, <1>5, KeepsTrans

\* tsx_shutdown gives back the transaction's own reference, once.
LEMMA ShutdownKeeps ==
    ASSUME NEW t \in Tsx
    PROVE  Keeps(t, Shutdown(t))
  <1> DEFINE s == [t EXCEPT !.transport = FALSE, !.last = "none", !.resend = FALSE,
                            !.resched = FALSE,
                            !.pendingDestroy = @ \/ t.pending,
                            !.user = @ /\ ~t.pending]
             u == CancelR(CancelT(s))
             v == [u EXCEPT !.terminating = TRUE, !.refs = @ - 1]
  <1>1. Keeps(t, s)
    <2>1. ASSUME NEW b \in BOOLEAN, NEW c \in BOOLEAN
          PROVE  [t EXCEPT !.transport = FALSE, !.last = "none", !.resend = FALSE,
                           !.resched = FALSE, !.pendingDestroy = b, !.user = c] \in Tsx
      BY ZenonT(60) DEF Tsx
    <2>2. (t.pendingDestroy \/ t.pending) \in BOOLEAN /\ (t.user /\ ~t.pending) \in BOOLEAN
      OBVIOUS
    <2>3. s \in Tsx  BY <2>1, <2>2, Zenon
    <2>4. Slack(s) >= Slack(t)  BY DEF Tsx, Slack, Held, Count
    <2>5. QED  BY <2>3, <2>4 DEF Keeps
  <1>2. Shutdown(t) = IF u.terminating THEN u ELSE v  BY DEF Shutdown
  <1> HIDE DEF s
  <1>3. s \in Tsx  BY <1>1 DEF Keeps
  <1>4. Keeps(s, CancelT(s))  BY <1>3, CancelTKeeps
  <1>5. CancelT(s) \in Tsx  BY <1>4 DEF Keeps
  <1>6. Keeps(CancelT(s), u)  BY <1>5, CancelRKeeps
  <1> HIDE DEF u
  <1>7. Keeps(t, u)  BY <1>1, <1>4, <1>6, KeepsTrans
  <1>8. u \in Tsx  BY <1>7 DEF Keeps
  <1>9. ASSUME ~u.terminating PROVE Keeps(u, v)
    <2>1. v \in Tsx  BY <1>8, RefsInt DEF Tsx
    <2>2. Slack(v) >= Slack(u)  BY <1>8, <1>9 DEF Tsx, Slack, Held, Count
    <2>3. QED  BY <2>1, <2>2 DEF Keeps
  <1> HIDE DEF v
  <1>10. QED  BY <1>2, <1>7, <1>9, KeepsTrans

LEMMA DestroyKeeps ==
    ASSUME NEW t \in Tsx
    PROVE  Keeps(t, Destroy(t))
  <1> DEFINE u == Enter(t, "DESTROYED")
  <1>1. Keeps(t, u)  BY EnterKeeps DEF States
  <1>2. u \in Tsx  BY <1>1 DEF Keeps
  <1>3. Keeps(u, Destroy(t))  BY <1>2, ShutdownKeeps DEF Destroy
  <1> HIDE DEF u
  <1>4. QED  BY <1>1, <1>3, KeepsTrans

-------------------------------------------------------------------------------
(* Sending.                                                                *)

\* tsx_send_msg: one reference for a send that is under way.
LEMMA TransmitKeeps ==
    ASSUME NEW t \in Tsx, NEW m \in Messages, NEW how
    PROVE  Keeps(t, Transmit(t, m, how))
  <1>1. CASE how # "pending"
    BY <1>1, KeepsRefl DEF Transmit
  <1>2. CASE how = "pending"
    <2>1. Transmit(t, m, how) \in Tsx  BY <1>2, RefsInt DEF Transmit, Tsx
    <2>2. Slack(Transmit(t, m, how)) >= Slack(t)
      BY <1>2 DEF Transmit, Tsx, Slack, Held, Count
    <2>3. QED  BY <2>1, <2>2 DEF Keeps
  <1>3. QED  BY <1>1, <1>2

LEMMA ReschedKeeps ==
    ASSUME NEW t \in Tsx, NEW b \in BOOLEAN
    PROVE  Keeps(t, [t EXCEPT !.resched = b])
  <1> DEFINE u == [t EXCEPT !.resched = b]
  <1>1. u \in Tsx  BY DEF Tsx
  <1>2. Slack(u) >= Slack(t)  BY DEF Tsx, Slack, Held, Count
  <1>3. QED  BY <1>1, <1>2 DEF Keeps

LEMMA ResendKeeps ==
    ASSUME NEW t \in Tsx, NEW b \in BOOLEAN
    PROVE  Keeps(t, [t EXCEPT !.resend = b])
  <1> DEFINE u == [t EXCEPT !.resend = b]
  <1>1. u \in Tsx  BY DEF Tsx
  <1>2. Slack(u) >= Slack(t)  BY DEF Tsx, Slack, Held, Count
  <1>3. QED  BY <1>1, <1>2 DEF Keeps

LEMMA TransportKeeps ==
    ASSUME NEW t \in Tsx, NEW b \in BOOLEAN
    PROVE  Keeps(t, [t EXCEPT !.transport = b])
  <1> DEFINE u == [t EXCEPT !.transport = b]
  <1>1. u \in Tsx  BY DEF Tsx
  <1>2. Slack(u) >= Slack(t)  BY DEF Tsx, Slack, Held, Count
  <1>3. QED  BY <1>1, <1>2 DEF Keeps

LEMMA LastKeeps ==
    ASSUME NEW t \in Tsx, NEW m \in Messages \cup {"none"}
    PROVE  Keeps(t, [t EXCEPT !.last = m])
  <1> DEFINE u == [t EXCEPT !.last = m]
  <1>1. u \in Tsx  BY DEF Tsx
  <1>2. Slack(u) >= Slack(t)  BY DEF Tsx, Slack, Held, Count
  <1>3. QED  BY <1>1, <1>2 DEF Keeps

LEMMA RescheduleKeeps ==
    ASSUME NEW u \in Tsx
    PROVE  Keeps(u, Reschedule(u))
  <1> DEFINE v == [u EXCEPT !.resched = FALSE]
  <1>1. Keeps(u, v)  BY ReschedKeeps
  <1>2. Reschedule(u) \in {u, v, ScheduleR(v)}  BY DEF Reschedule
  <1> HIDE DEF v
  <1>3. Keeps(v, ScheduleR(v))  BY <1>1, ScheduleRKeeps DEF Keeps
  <1>4. QED  BY <1>1, <1>2, <1>3, KeepsRefl, KeepsTrans

\* send_msg_callback gives back the reference of the send it ends.
LEMMA AnsweredKeeps ==
    ASSUME NEW t \in Tsx, t.resolving = "attached",
           NEW b \in BOOLEAN, NEW rel \in BOOLEAN
    PROVE  /\ Keeps(t, [Answered(t) EXCEPT !.transport = b, !.reliable = rel])
           /\ Keeps(t, [Answered(t) EXCEPT !.transport = b])
  <1> DEFINE a == Answered(t)
             u == [a EXCEPT !.transport = b, !.reliable = rel]
             v == [a EXCEPT !.transport = b]
  <1>1. a \in Tsx  BY RefsInt DEF Answered, Tsx
  <1>2. Slack(a) >= Slack(t)  BY DEF Answered, Tsx, Slack, Held, Count
  <1> HIDE DEF a
  <1>3. u \in Tsx /\ v \in Tsx  BY <1>1, ZenonT(60) DEF Tsx
  <1>4. Slack(u) >= Slack(a) /\ Slack(v) >= Slack(a)
    BY <1>1 DEF Tsx, Slack, Held, Count
  <1>5. QED
    <2>1. Keeps(t, a) /\ Keeps(a, u) /\ Keeps(a, v)  BY <1>1, <1>2, <1>3, <1>4 DEF Keeps
    <2>2. QED  BY <2>1, KeepsTrans DEF a

LEMMA LastTyped ==
    ASSUME NEW t \in Tsx, t.last # "none"
    PROVE  t.last \in Messages
  BY DEF Tsx

LEMMA SendDoneKeeps ==
    ASSUME NEW t \in Tsx, t.resolving = "attached", NEW o \in Outcome
    PROVE  Keeps(t, SendDone(t, o))
  <1> DEFINE u == [Answered(t) EXCEPT !.transport = TRUE, !.reliable = o.rel]
             v == [u EXCEPT !.resend = FALSE]
             w == Transmit(v, v.last, o.again)
  <1>1. o.rel \in BOOLEAN  BY DEF Outcome
  <1>2. Keeps(t, u)  BY <1>1, AnsweredKeeps
  <1>3. \/ SendDone(t, o) = Destroy(u)
        \/ SendDone(t, o) = Reschedule(u)
        \/ SendDone(t, o) = Reschedule(v)
        \/ v.last # "none" /\ SendDone(t, o) = Reschedule(w)
    BY DEF SendDone
  <1> HIDE DEF u
  <1>4. u \in Tsx  BY <1>2 DEF Keeps
  <1>5. Keeps(u, v)  BY <1>4, ResendKeeps
  <1> HIDE DEF v
  <1>6. v \in Tsx  BY <1>5 DEF Keeps
  <1>7. v.last # "none" => Keeps(v, w)  BY <1>6, LastTyped, TransmitKeeps
  <1> HIDE DEF w
  <1>8. Keeps(u, Destroy(u)) /\ Keeps(u, Reschedule(u)) /\ Keeps(v, Reschedule(v))
    BY <1>4, <1>6, DestroyKeeps, RescheduleKeeps
  <1>9. v.last # "none" => Keeps(w, Reschedule(w))
    BY <1>7, RescheduleKeeps DEF Keeps
  <1>10. Keeps(t, v)  BY <1>2, <1>5, KeepsTrans
  <1>11. v.last # "none" => Keeps(t, w)  BY <1>7, <1>10, KeepsTrans
  <1>12. QED  BY <1>2, <1>3, <1>8, <1>9, <1>10, <1>11, KeepsTrans

LEMMA SendGivenUpKeeps ==
    ASSUME NEW t \in Tsx, t.resolving = "attached", NEW c \in Codes
    PROVE  Keeps(t, SendGivenUp(t, c))
  <1> DEFINE u == [Answered(t) EXCEPT !.transport = FALSE]
             v == [u EXCEPT !.code = c]
             w == [u EXCEPT !.resched = FALSE]
  <1>1. Keeps(t, u)  BY AnsweredKeeps
  <1>2. SendGivenUp(t, c) \in {Destroy(v), ScheduleR(w), u}  BY DEF SendGivenUp
  <1> HIDE DEF u
  <1>3. u \in Tsx  BY <1>1 DEF Keeps
  <1>4. Keeps(u, v) /\ Keeps(u, w)  BY <1>3, CodeKeeps, ReschedKeeps
  <1> HIDE DEF v, w
  <1>5. Keeps(v, Destroy(v)) /\ Keeps(w, ScheduleR(w))
    BY <1>4, DestroyKeeps, ScheduleRKeeps DEF Keeps
  <1>6. Keeps(t, v) /\ Keeps(t, w)  BY <1>1, <1>4, KeepsTrans
  <1>7. QED  BY <1>1, <1>2, <1>5, <1>6, KeepsTrans

LEMMA SendFailedKeeps ==
    ASSUME NEW t \in Tsx, t.resolving = "attached", NEW c \in Codes
    PROVE  Keeps(t, SendFailed(t, c))
  <1> DEFINE u == [Answered(t) EXCEPT !.transport = FALSE]
  <1>1. Keeps(t, u)  BY AnsweredKeeps
  <1>2. SendFailed(t, c) \in {Terminate(u, c), SendGivenUp(t, c)}  BY DEF SendFailed
  <1> HIDE DEF u
  <1>3. Keeps(u, Terminate(u, c))  BY <1>1, TerminateKeeps DEF Keeps
  <1>4. QED  BY <1>1, <1>2, <1>3, SendGivenUpKeeps, KeepsTrans

LEMMA ResolveKeeps ==
    ASSUME NEW t \in Tsx, NEW o \in Outcome
    PROVE  Keeps(t, Resolve(t, o))
  <1> DEFINE a == [t EXCEPT !.transport = FALSE, !.pending = TRUE,
                            !.resolving = "attached", !.refs = @ + 1]
             e == [t EXCEPT !.transport = FALSE]
  <1>1. Keeps(t, a)
    <2>1. a \in Tsx  BY RefsInt DEF Tsx
    <2>2. Slack(a) >= Slack(t)  BY DEF Tsx, Slack, Held, Count
    <2>3. QED  BY <2>1, <2>2 DEF Keeps
  <1>2. a.resolving = "attached"  BY DEF Tsx
  <1>3. Resolve(t, o) \in {a, SendDone(a, o), SendFailed(a, 502), SendFailed(a, 503), e}
    <2>1. o.res \in {"sent", "pending", "fail502", "fail503", "error"}  BY DEF Outcome
    <2>2. QED  BY <2>1 DEF Resolve
  <1>4. Keeps(t, e)  BY TransportKeeps
  <1> HIDE DEF a, e
  <1>5. /\ Keeps(a, SendDone(a, o))
        /\ Keeps(a, SendFailed(a, 502)) /\ Keeps(a, SendFailed(a, 503))
    BY <1>1, <1>2, SendDoneKeeps, SendFailedKeeps DEF Keeps, Codes
  <1>6. QED  BY <1>1, <1>3, <1>4, <1>5, KeepsTrans

LEMMA SendMsgKeeps ==
    ASSUME NEW t \in Tsx, NEW m \in Messages, NEW o \in Outcome
    PROVE  Keeps(t, SendMsg(t, m, o))
  <1> DEFINE u == [t EXCEPT !.resend = TRUE]
             v == [t EXCEPT !.transport = FALSE]
  <1>1. SendMsg(t, m, o) \in {u, t, Transmit(t, m, o.tp), Terminate(v, 503), Resolve(t, o)}
    BY DEF SendMsg
  <1>2. Keeps(t, u) /\ Keeps(t, v)  BY ResendKeeps, TransportKeeps
  <1> HIDE DEF u, v
  <1>3. Keeps(v, Terminate(v, 503))  BY <1>2, TerminateKeeps DEF Keeps, Codes
  <1>4. QED  BY <1>1, <1>2, <1>3, KeepsRefl, KeepsTrans, TransmitKeeps, ResolveKeeps

LEMMA ArmRKeeps ==
    ASSUME NEW t \in Tsx
    PROVE  Keeps(t, ArmR(t))
  BY ReschedKeeps, ScheduleRKeeps DEF ArmR

LEMMA RetransmitKeeps ==
    ASSUME NEW t \in Tsx, NEW again \in BOOLEAN, NEW o \in Outcome
    PROVE  Keeps(t, Retransmit(t, again, o))
  <1>1. CASE (again /\ t.rtimer) \/ t.last = "none"
    BY <1>1, KeepsRefl DEF Retransmit
  <1>2. CASE ~((again /\ t.rtimer) \/ t.last = "none")
    <2> DEFINE u == IF again THEN ArmR(t) ELSE t
    <2>1. Keeps(t, u)  BY KeepsRefl, ArmRKeeps
    <2>2. Retransmit(t, again, o) = SendMsg(u, t.last, o)  BY <1>2 DEF Retransmit
    <2> HIDE DEF u
    <2>3. Keeps(u, SendMsg(u, t.last, o))
      BY <1>2, <2>1, LastTyped, SendMsgKeeps DEF Keeps
    <2>4. QED  BY <2>1, <2>2, <2>3, KeepsTrans
  <1>3. QED  BY <1>1, <1>2

-------------------------------------------------------------------------------
(* Handlers.                                                               *)

LEMMA SendRequestKeeps ==
    ASSUME NEW t \in Tsx, NEW o \in Outcome
    PROVE  Keeps(t, SendRequest(t, o))
  <1> DEFINE s == [t EXCEPT !.last = "request"]
             u == SendMsg(s, "request", o)
             v == ResetT(u, "timeout")
             w == IF v.reliable THEN v ELSE ArmR(v)
  <1>1. SendRequest(t, o) \in {u, Enter(w, "CALLING")}  BY DEF SendRequest
  <1>2. Keeps(t, s)  BY LastKeeps DEF Messages
  <1> HIDE DEF s
  <1>3. Keeps(s, u)  BY <1>2, SendMsgKeeps DEF Keeps, Messages
  <1> HIDE DEF u
  <1>4. Keeps(u, v)  BY <1>3, ResetTKeeps DEF Keeps, TimerIds
  <1> HIDE DEF v
  <1>5. Keeps(v, w)  BY <1>4, KeepsRefl, ArmRKeeps DEF Keeps
  <1> HIDE DEF w
  <1>6. Keeps(w, Enter(w, "CALLING"))  BY <1>5, EnterKeeps DEF Keeps, States
  <1>7. QED  BY <1>1, <1>2, <1>3, <1>4, <1>5, <1>6, KeepsTrans

LEMMA RespondKeeps ==
    ASSUME NEW t \in Tsx, NEW c \in Codes, NEW o \in Outcome
    PROVE  Keeps(t, Respond(t, c, o))
  <1> DEFINE r == [t EXCEPT !.code = c]
             s == [t EXCEPT !.code = c, !.last = "none"]
             u == SendMsg(s, "response", o)
             v == [u EXCEPT !.last = "response"]
             w == CancelR(v)
             p == Enter(w, "PROCEEDING")
             x == IF t.method = "INVITE" /\ (c = 200 \/ ~w.reliable) THEN ArmR(w) ELSE w
             y == ResetT(x, "timeout")
  <1>1. Respond(t, c, o) \in
            {u, Enter(v, "PROCEEDING"), ArmR(p), Enter(y, "COMPLETED")}
    BY DEF Respond
  <1>2. Keeps(t, s)
    <2>1. s = [r EXCEPT !.last = "none"]  BY DEF Tsx
    <2>2. Keeps(t, r)  BY CodeKeeps
    <2> HIDE DEF r, s
    <2>3. Keeps(r, s)  BY <2>1, <2>2, LastKeeps DEF Keeps
    <2>4. QED  BY <2>2, <2>3, KeepsTrans
  <1> HIDE DEF s
  <1>3. Keeps(s, u)  BY <1>2, SendMsgKeeps DEF Keeps, Messages
  <1> HIDE DEF u
  <1>4. Keeps(u, v)  BY <1>3, LastKeeps DEF Keeps, Messages
  <1> HIDE DEF v
  <1>5. Keeps(v, w)  BY <1>4, CancelRKeeps DEF Keeps
  <1> HIDE DEF w
  <1>6. Keeps(v, Enter(v, "PROCEEDING"))  BY <1>4, EnterKeeps DEF Keeps, States
  <1>7. Keeps(w, p)  BY <1>5, EnterKeeps DEF Keeps, States
  <1>8. Keeps(w, x)  BY <1>5, KeepsRefl, ArmRKeeps DEF Keeps
  <1> HIDE DEF p, x
  <1>9. Keeps(p, ArmR(p))  BY <1>7, ArmRKeeps DEF Keeps
  <1>10. Keeps(x, y)  BY <1>8, ResetTKeeps DEF Keeps, TimerIds
  <1> HIDE DEF y
  <1>11. Keeps(y, Enter(y, "COMPLETED"))  BY <1>10, EnterKeeps DEF Keeps, States
  <1>12. Keeps(t, v) /\ Keeps(t, u)  BY <1>2, <1>3, <1>4, KeepsTrans
  <1>13. Keeps(t, p)  BY <1>12, <1>5, <1>7, KeepsTrans
  <1>14. Keeps(t, y)  BY <1>12, <1>5, <1>8, <1>10, KeepsTrans
  <1>15. QED  BY <1>1, <1>6, <1>9, <1>11, <1>12, <1>13, <1>14, KeepsTrans

LEMMA ReceiveAgainKeeps ==
    ASSUME NEW t \in Tsx, NEW o \in Outcome
    PROVE  Keeps(t, ReceiveAgain(t, o))
  BY KeepsRefl, LastTyped, SendMsgKeeps, RetransmitKeeps DEF ReceiveAgain

LEMMA ReceiveAckKeeps ==
    ASSUME NEW t \in Tsx
    PROVE  Keeps(t, ReceiveAck(t))
  <1> DEFINE u == CancelR(t)
             v == [u EXCEPT !.resched = FALSE]
             w == ResetT(v, "timeout")
  <1>1. ReceiveAck(t) \in {t, Enter(w, "CONFIRMED")}  BY DEF ReceiveAck
  <1>2. Keeps(t, u)  BY CancelRKeeps
  <1> HIDE DEF u
  <1>3. Keeps(u, v)  BY <1>2, ReschedKeeps DEF Keeps
  <1> HIDE DEF v
  <1>4. Keeps(v, w)  BY <1>3, ResetTKeeps DEF Keeps, TimerIds
  <1> HIDE DEF w
  <1>5. Keeps(w, Enter(w, "CONFIRMED"))  BY <1>4, EnterKeeps DEF Keeps, States
  <1>6. QED  BY <1>1, <1>2, <1>3, <1>4, <1>5, KeepsRefl, KeepsTrans

LEMMA ReceiveFirstKeeps ==
    ASSUME NEW t \in Tsx, NEW c \in Codes
    PROVE  Keeps(t, ReceiveFirst(t, c))
  <1> DEFINE u == CancelR(t)
             v == IF c >= 200 THEN (IF u.tid # "none" THEN CancelT(u) ELSE u)
                  ELSE IF u.method = "INVITE" THEN CancelT(u)
                  ELSE IF u.reliable THEN u ELSE ScheduleR(u)
  <1>1. ReceiveFirst(t, c) = [v EXCEPT !.resched = FALSE]  BY DEF ReceiveFirst
  <1>2. Keeps(t, u)  BY CancelRKeeps
  <1> HIDE DEF u
  <1>3. Keeps(u, v)  BY <1>2, KeepsRefl, CancelTKeeps, ScheduleRKeeps DEF Keeps
  <1> HIDE DEF v
  <1>4. Keeps(v, [v EXCEPT !.resched = FALSE])  BY <1>3, ReschedKeeps DEF Keeps
  <1>5. QED  BY <1>1, <1>2, <1>3, <1>4, KeepsTrans

LEMMA ReceiveProceedingKeeps ==
    ASSUME NEW t \in Tsx, NEW c \in Codes, NEW o \in Outcome
    PROVE  Keeps(t, ReceiveProceeding(t, c, o))
  <1> DEFINE u == [t EXCEPT !.code = c]
             k == CancelT(u)
             n == CancelR(u)
             v == CancelT(n)
             w == SendMsg(v, "ack", o)
             x == ScheduleT(k, "timeout")
             y == CancelR(x)
             z == Enter(w, "COMPLETED")
             a == [z EXCEPT !.last = "ack"]
             b == Enter(v, "COMPLETED")
  <1>1. ReceiveProceeding(t, c, o) \in
            {Enter(u, "PROCEEDING"), Terminate(k, c), Enter(y, "COMPLETED"), w,
             ResetT(a, "timeout"), Terminate(v, c), ResetT(b, "timeout")}
    BY DEF ReceiveProceeding
  <1>2. Keeps(t, u)  BY CodeKeeps
  <1> HIDE DEF u
  <1>3. Keeps(u, k) /\ Keeps(u, n)  BY <1>2, CancelTKeeps, CancelRKeeps DEF Keeps
  <1>4. Keeps(u, Enter(u, "PROCEEDING"))  BY <1>2, EnterKeeps DEF Keeps, States
  <1> HIDE DEF k, n
  <1>5. Keeps(n, v)  BY <1>3, CancelTKeeps DEF Keeps
  <1>6. Keeps(k, Terminate(k, c))  BY <1>3, TerminateKeeps DEF Keeps
  <1>7. Keeps(k, x)  BY <1>3, ScheduleTKeeps DEF Keeps, TimerIds
  <1> HIDE DEF v, x
  <1>8. Keeps(x, y)  BY <1>7, CancelRKeeps DEF Keeps
  <1>9. Keeps(v, w)  BY <1>5, SendMsgKeeps DEF Keeps, Messages
  <1>10. Keeps(v, Terminate(v, c))  BY <1>5, TerminateKeeps DEF Keeps
  <1>11. Keeps(v, b)  BY <1>5, EnterKeeps DEF Keeps, States
  <1> HIDE DEF y, w, b
  <1>12. Keeps(y, Enter(y, "COMPLETED"))  BY <1>8, EnterKeeps DEF Keeps, States
  <1>13. Keeps(w, z)  BY <1>9, EnterKeeps DEF Keeps, States
  <1>14. Keeps(b, ResetT(b, "timeout"))  BY <1>11, ResetTKeeps DEF Keeps, TimerIds
  <1> HIDE DEF z
  <1>15. Keeps(z, a)  BY <1>13, LastKeeps DEF Keeps, Messages
  <1> HIDE DEF a
  <1>16. Keeps(a, ResetT(a, "timeout"))  BY <1>15, ResetTKeeps DEF Keeps, TimerIds
  <1>17. Keeps(t, k) /\ Keeps(t, v)  BY <1>2, <1>3, <1>5, KeepsTrans
  <1>18. Keeps(t, y)  BY <1>17, <1>7, <1>8, KeepsTrans
  <1>19. Keeps(t, w) /\ Keeps(t, b)  BY <1>17, <1>9, <1>11, KeepsTrans
  <1>20. Keeps(t, a)  BY <1>19, <1>13, <1>15, KeepsTrans
  <1>21. QED
    BY <1>1, <1>2, <1>4, <1>6, <1>10, <1>12, <1>14, <1>16, <1>17, <1>18, <1>19, <1>20,
       KeepsTrans

LEMMA ReceiveResponseKeeps ==
    ASSUME NEW t \in Tsx, NEW c \in Codes, NEW o \in Outcome
    PROVE  Keeps(t, ReceiveResponse(t, c, o))
  <1> DEFINE u == ReceiveFirst(t, c)
  <1>1. ReceiveResponse(t, c, o) \in
            {ReceiveProceeding(u, c, o), ReceiveProceeding(t, c, o),
             Retransmit(t, FALSE, o), t}
    BY DEF ReceiveResponse
  <1>2. Keeps(t, u)  BY ReceiveFirstKeeps
  <1> HIDE DEF u
  <1>3. Keeps(u, ReceiveProceeding(u, c, o))  BY <1>2, ReceiveProceedingKeeps DEF Keeps
  <1>4. QED
    BY <1>1, <1>2, <1>3, KeepsRefl, KeepsTrans, ReceiveProceedingKeeps, RetransmitKeeps

LEMMA RetransmitTimerKeeps ==
    ASSUME NEW t \in Tsx, NEW o \in Outcome
    PROVE  Keeps(t, RetransmitTimer(t, o))
  BY KeepsRefl, RetransmitKeeps, DestroyKeeps DEF RetransmitTimer

LEMMA TimeoutTimerKeeps ==
    ASSUME NEW t \in Tsx
    PROVE  Keeps(t, TimeoutTimer(t))
  <1> DEFINE r == CancelR(t)
             u == IF t.state = "CALLING" THEN [r EXCEPT !.resched = FALSE] ELSE t
             v == IF \/ t.state \in {"CALLING", "PROCEEDING"}
                     \/ t.state = "COMPLETED" /\ t.role = "UAS" /\ t.method = "INVITE"
                  THEN [u EXCEPT !.code = 408] ELSE u
  <1>1. TimeoutTimer(t) = Enter(v, "TERMINATED")  BY DEF TimeoutTimer
  <1>2. Keeps(t, r)  BY CancelRKeeps
  <1> HIDE DEF r
  <1>3. Keeps(r, [r EXCEPT !.resched = FALSE])  BY <1>2, ReschedKeeps DEF Keeps
  <1>4. Keeps(t, u)  BY <1>2, <1>3, KeepsRefl, KeepsTrans
  <1> HIDE DEF u
  <1>5. Keeps(u, v)
    <2>1. u \in Tsx /\ 408 \in Codes  BY <1>4 DEF Keeps, Codes
    <2>2. Keeps(u, u) /\ Keeps(u, [u EXCEPT !.code = 408])
      BY <2>1, KeepsRefl, CodeKeeps
    <2>3. QED  BY <2>2
  <1> HIDE DEF v
  <1>6. Keeps(v, Enter(v, "TERMINATED"))  BY <1>5, EnterKeeps DEF Keeps, States
  <1>7. QED  BY <1>1, <1>4, <1>5, <1>6, KeepsTrans

-------------------------------------------------------------------------------
(* The workers.                                                            *)

Bag == [Tails -> Nat]

All(b) == Working(b) + b["sendFailed"]

Up(b, x) == [b EXCEPT ![x] = @ + 1]

Down(b, x) == [b EXCEPT ![x] = @ - 1]

\* A thread that has begun its work holds one reference, which it gives back at
\* the end; the end of send_msg_callback holds none.
Counted == Tails \ {"sendFailed"}

LEMMA TailNames ==
    /\ \A b \in Bag : \A x \in Tails : b[x] \in Nat
    /\ "popR" \in Counted /\ "popT" \in Counted /\ "idTimeout" \in Counted /\ "idErr" \in Counted
    /\ "idDisc" \in Counted /\ "idTerminate" \in Counted /\ "timeout" \in Counted
    /\ "lockErr" \in Counted /\ "lockDisc" \in Counted /\ "terminated" \in Counted
    /\ "destroyed" \in Counted /\ "transportErr" \in Counted /\ "transportCb" \in Counted
    /\ "sendFailed" \in Tails /\ "sendFailed" \notin Counted /\ Counted \subseteq Tails
  BY DEF Counted, Tails, Bag

LEMMA WorkingNat ==
    ASSUME NEW b \in Bag
    PROVE  /\ Reading(b) \in Nat /\ Locking(b) \in Nat /\ Telling(b) \in Nat
           /\ Popped(b) \in Nat /\ Working(b) \in Nat /\ All(b) \in Nat
           /\ \A x \in Tails : b[x] \in Nat /\ b[x] <= All(b)
  <1>1. \A x \in Tails : b[x] \in Nat  BY DEF Bag
  <1>2. /\ b["popR"] \in Nat /\ b["popT"] \in Nat /\ b["idTimeout"] \in Nat /\ b["idErr"] \in Nat
        /\ b["idDisc"] \in Nat /\ b["idTerminate"] \in Nat /\ b["timeout"] \in Nat /\ b["lockErr"] \in Nat
        /\ b["lockDisc"] \in Nat /\ b["terminated"] \in Nat /\ b["destroyed"] \in Nat /\ b["transportErr"] \in Nat
        /\ b["sendFailed"] \in Nat /\ b["transportCb"] \in Nat
    BY <1>1 DEF Tails
  <1>3. /\ Reading(b) \in Nat /\ Locking(b) \in Nat /\ Telling(b) \in Nat
        /\ b["idTimeout"] <= Reading(b) /\ b["idErr"] <= Reading(b)
        /\ b["idDisc"] <= Reading(b) /\ b["idTerminate"] <= Reading(b)
        /\ b["timeout"] <= Locking(b) /\ b["lockErr"] <= Locking(b) /\ b["lockDisc"] <= Locking(b)
        /\ b["terminated"] <= Telling(b) /\ b["destroyed"] <= Telling(b) /\ b["transportErr"] <= Telling(b)
    BY <1>2 DEF Reading, Locking, Telling
  <1>4. /\ Popped(b) \in Nat /\ Reading(b) <= Popped(b) /\ Locking(b) <= Popped(b)
        /\ b["popT"] <= Popped(b)
    BY <1>2, <1>3 DEF Popped
  <1>5. /\ Working(b) \in Nat /\ Popped(b) <= Working(b)
        /\ Telling(b) <= Working(b)
        /\ b["popR"] <= Working(b) /\ b["transportCb"] <= Working(b)
    BY <1>2, <1>3, <1>4 DEF Working
  <1>6. All(b) \in Nat /\ Working(b) <= All(b) /\ b["sendFailed"] <= All(b)
    BY <1>2, <1>5 DEF All
  <1>7. \A x \in Tails : b[x] <= All(b)
    <2>1. /\ b["popR"] <= All(b) /\ b["popT"] <= All(b) /\ b["idTimeout"] <= All(b)
          /\ b["idErr"] <= All(b) /\ b["idDisc"] <= All(b) /\ b["idTerminate"] <= All(b)
          /\ b["timeout"] <= All(b) /\ b["lockErr"] <= All(b) /\ b["lockDisc"] <= All(b)
          /\ b["terminated"] <= All(b) /\ b["destroyed"] <= All(b) /\ b["transportErr"] <= All(b)
          /\ b["sendFailed"] <= All(b) /\ b["transportCb"] <= All(b)
      BY <1>2, <1>3, <1>4, <1>5, <1>6
    <2>2. QED  BY <2>1 DEF Tails
  <1>8. QED  BY <1>1, <1>3, <1>4, <1>5, <1>6, <1>7

\* Where a worker is in the callback of the timeout timer.
Reads == {"idTimeout", "idErr", "idDisc", "idTerminate"}
Locks == {"timeout", "lockErr", "lockDisc"}
Tells == {"terminated", "destroyed", "transportErr"}

LEMMA Begun ==
    ASSUME NEW b \in Bag, NEW x \in Tails
    PROVE  /\ Up(b, x) \in Bag
           /\ \A y \in Tails : Up(b, x)[y] = IF y = x THEN b[y] + 1 ELSE b[y]
           /\ All(Up(b, x)) = All(b) + 1
           /\ Working(Up(b, x)) = IF x = "sendFailed" THEN Working(b) ELSE Working(b) + 1
  <1> DEFINE c == Up(b, x)
  <1>1. c \in Bag /\ \A y \in Tails : c[y] = IF y = x THEN b[y] + 1 ELSE b[y]
    BY DEF Bag, Up
  <1>2. \A y \in Tails : b[y] \in Nat  BY DEF Bag
  <1> HIDE DEF c
  <1>3. /\ b["popR"] \in Nat /\ c["popR"] = IF x = "popR" THEN b["popR"] + 1 ELSE b["popR"]
        /\ b["popT"] \in Nat /\ c["popT"] = IF x = "popT" THEN b["popT"] + 1 ELSE b["popT"]
        /\ b["idTimeout"] \in Nat /\ c["idTimeout"] = IF x = "idTimeout" THEN b["idTimeout"] + 1 ELSE b["idTimeout"]
        /\ b["idErr"] \in Nat /\ c["idErr"] = IF x = "idErr" THEN b["idErr"] + 1 ELSE b["idErr"]
        /\ b["idDisc"] \in Nat /\ c["idDisc"] = IF x = "idDisc" THEN b["idDisc"] + 1 ELSE b["idDisc"]
        /\ b["idTerminate"] \in Nat /\ c["idTerminate"] = IF x = "idTerminate" THEN b["idTerminate"] + 1 ELSE b["idTerminate"]
        /\ b["timeout"] \in Nat /\ c["timeout"] = IF x = "timeout" THEN b["timeout"] + 1 ELSE b["timeout"]
        /\ b["lockErr"] \in Nat /\ c["lockErr"] = IF x = "lockErr" THEN b["lockErr"] + 1 ELSE b["lockErr"]
        /\ b["lockDisc"] \in Nat /\ c["lockDisc"] = IF x = "lockDisc" THEN b["lockDisc"] + 1 ELSE b["lockDisc"]
        /\ b["terminated"] \in Nat /\ c["terminated"] = IF x = "terminated" THEN b["terminated"] + 1 ELSE b["terminated"]
        /\ b["destroyed"] \in Nat /\ c["destroyed"] = IF x = "destroyed" THEN b["destroyed"] + 1 ELSE b["destroyed"]
        /\ b["transportErr"] \in Nat /\ c["transportErr"] = IF x = "transportErr" THEN b["transportErr"] + 1 ELSE b["transportErr"]
        /\ b["sendFailed"] \in Nat /\ c["sendFailed"] = IF x = "sendFailed" THEN b["sendFailed"] + 1 ELSE b["sendFailed"]
        /\ b["transportCb"] \in Nat /\ c["transportCb"] = IF x = "transportCb" THEN b["transportCb"] + 1 ELSE b["transportCb"]
    BY <1>1, <1>2 DEF Tails
  <1>4. Reading(c) = (IF x \in Reads THEN Reading(b) + 1 ELSE Reading(b)) /\ Reading(b) \in Nat
    <2>1. Reading(b) \in Nat  BY WorkingNat
    <2>2. CASE x = "idTimeout"
      BY <1>3, <2>2 DEF Reading, Reads
    <2>3. CASE x = "idErr"
      BY <1>3, <2>3 DEF Reading, Reads
    <2>4. CASE x = "idDisc"
      BY <1>3, <2>4 DEF Reading, Reads
    <2>5. CASE x = "idTerminate"
      BY <1>3, <2>5 DEF Reading, Reads
    <2>6. CASE x \notin Reads
      BY <1>3, <2>1, <2>6 DEF Reading, Reads
    <2>7. QED  BY <2>1, <2>2, <2>3, <2>4, <2>5, <2>6 DEF Reads
  <1>5. Locking(c) = (IF x \in Locks THEN Locking(b) + 1 ELSE Locking(b)) /\ Locking(b) \in Nat
    <2>1. Locking(b) \in Nat  BY WorkingNat
    <2>2. CASE x = "timeout"
      BY <1>3, <2>2 DEF Locking, Locks
    <2>3. CASE x = "lockErr"
      BY <1>3, <2>3 DEF Locking, Locks
    <2>4. CASE x = "lockDisc"
      BY <1>3, <2>4 DEF Locking, Locks
    <2>5. CASE x \notin Locks
      BY <1>3, <2>1, <2>5 DEF Locking, Locks
    <2>6. QED  BY <2>1, <2>2, <2>3, <2>4, <2>5 DEF Locks
  <1>6. Telling(c) = (IF x \in Tells THEN Telling(b) + 1 ELSE Telling(b)) /\ Telling(b) \in Nat
    <2>1. Telling(b) \in Nat  BY WorkingNat
    <2>2. CASE x = "terminated"
      BY <1>3, <2>2 DEF Telling, Tells
    <2>3. CASE x = "destroyed"
      BY <1>3, <2>3 DEF Telling, Tells
    <2>4. CASE x = "transportErr"
      BY <1>3, <2>4 DEF Telling, Tells
    <2>5. CASE x \notin Tells
      BY <1>3, <2>1, <2>5 DEF Telling, Tells
    <2>6. QED  BY <2>1, <2>2, <2>3, <2>4, <2>5 DEF Tells
  <1>7. /\ Popped(c) = (IF x \in {"popT"} \cup Reads \cup Locks THEN Popped(b) + 1 ELSE Popped(b))
        /\ Popped(b) \in Nat
    BY <1>3, <1>4, <1>5 DEF Popped, Reads, Locks
  <1>8. Working(c) = (IF x = "sendFailed" THEN Working(b) ELSE Working(b) + 1) /\ Working(b) \in Nat
    <2>1. Working(b) \in Nat  BY WorkingNat
    <2>2. CASE x \in {"popT"} \cup Reads \cup Locks
      BY <1>3, <1>6, <1>7, <2>1, <2>2 DEF Working, Reads, Locks, Tells
    <2>3. CASE x \in Tells
      BY <1>3, <1>6, <1>7, <2>1, <2>3 DEF Working, Reads, Locks, Tells
    <2>4. CASE x = "popR"
      BY <1>3, <1>6, <1>7, <2>1, <2>4 DEF Working, Reads, Locks, Tells
    <2>5. CASE x = "transportCb"
      BY <1>3, <1>6, <1>7, <2>1, <2>5 DEF Working, Reads, Locks, Tells
    <2>6. CASE x = "sendFailed"
      BY <1>3, <1>6, <1>7, <2>1, <2>6 DEF Working, Reads, Locks, Tells
    <2>7. QED  BY <2>2, <2>3, <2>4, <2>5, <2>6 DEF Reads, Locks, Tells, Tails
  <1>9. All(c) = All(b) + 1
    BY <1>3, <1>8 DEF All
  <1>10. QED  BY <1>1, <1>8, <1>9 DEF c

LEMMA Done ==
    ASSUME NEW b \in Bag, NEW x \in Tails, b[x] > 0
    PROVE  /\ Down(b, x) \in Bag
           /\ \A y \in Tails : Down(b, x)[y] = IF y = x THEN b[y] - 1 ELSE b[y]
           /\ All(Down(b, x)) = All(b) - 1
           /\ Working(Down(b, x)) = IF x = "sendFailed" THEN Working(b) ELSE Working(b) - 1
  <1> DEFINE c == Down(b, x)
  <1>1. c \in Bag /\ \A y \in Tails : c[y] = IF y = x THEN b[y] - 1 ELSE b[y]
    BY DEF Bag, Down
  <1>2. Up(c, x) = b
    <2>1. c[x] + 1 = b[x]  BY <1>1 DEF Bag
    <2>2. Up(c, x) = [y \in Tails |-> IF y = x THEN c[x] + 1 ELSE c[y]]  BY <1>1 DEF Up, Bag
    <2>3. b = [y \in Tails |-> b[y]]  BY DEF Bag
    <2>4. \A y \in Tails : (IF y = x THEN c[x] + 1 ELSE c[y]) = b[y]  BY <1>1, <2>1
    <2> HIDE DEF c
    <2>5. QED  BY <2>2, <2>3, <2>4, Zenon
  <1> HIDE DEF c
  <1>3. /\ All(b) = All(c) + 1
        /\ Working(b) = IF x = "sendFailed" THEN Working(c) ELSE Working(c) + 1
    BY <1>1, <1>2, Begun
  <1>4. All(c) \in Nat /\ Working(c) \in Nat  BY <1>1, WorkingNat
  <1>5. QED  BY <1>1, <1>3, <1>4 DEF c

-------------------------------------------------------------------------------
(* The inductive invariant.                                                *)

RefInv == /\ tsx \in Tsx
          /\ busy \in Bag /\ All(busy) <= Workers
          /\ Slack(tsx) >= Working(busy)

LEMMA DropRefSlack ==
    ASSUME NEW t \in Tsx
    PROVE  DropRef(t) \in Tsx /\ Slack(DropRef(t)) = Slack(t) - 1
  <1>1. DropRef(t) \in Tsx  BY RefsInt DEF DropRef, Tsx
  <1>2. Slack(DropRef(t)) = Slack(t) - 1  BY DEF DropRef, Tsx, Slack, Held, Count
  <1>3. QED  BY <1>1, <1>2

\* What the three moves of a worker are.
LEMMA Moves ==
    /\ \A x \in Tails : Begins(x) => busy' = Up(busy, x)
    /\ \A x \in Tails : Ends(x) => busy' = Down(busy, x)
    /\ Worker <=> All(busy) < Workers
    /\ Workers \in Nat
  BY SipTransactionAssumption DEF Begins, Ends, Up, Down, Worker, All

LEMMA MovesOn ==
    ASSUME busy \in Bag, NEW x \in Tails, NEW y \in Tails, x # y, GoesOn(x, y)
    PROVE  busy' = Up(Down(busy, x), y)
  <1>1. busy' = [z \in Tails |-> IF z = y THEN busy[y] + 1 ELSE IF z = x THEN busy[x] - 1 ELSE busy[z]]
    BY DEF Bag, GoesOn
  <1>2. Down(busy, x) = [z \in Tails |-> IF z = x THEN busy[x] - 1 ELSE busy[z]]
    BY DEF Bag, Down
  <1>3. QED  BY <1>1, <1>2 DEF Up

\* The four shapes of a step.
LEMMA QuietStep ==
    ASSUME RefInv, Keeps(tsx, tsx'), busy' = busy
    PROVE  RefInv'
  BY SlackInt, WorkingNat DEF RefInv, Keeps

LEMMA EndStep ==
    ASSUME RefInv, NEW u, Keeps(tsx, u), tsx' = DropRef(u),
           NEW x \in Counted, busy[x] > 0, Ends(x)
    PROVE  RefInv'
  <1>1. u \in Tsx /\ Slack(u) >= Slack(tsx)  BY DEF Keeps
  <1>2. tsx' \in Tsx /\ Slack(tsx') = Slack(u) - 1  BY <1>1, DropRefSlack
  <1>3. x \in Tails /\ x # "sendFailed" /\ busy \in Bag  BY DEF Counted, RefInv
  <1>4. /\ busy' \in Bag /\ All(busy') = All(busy) - 1
        /\ Working(busy') = Working(busy) - 1
    BY <1>3, Moves, Done
  <1>5. /\ Slack(u) \in Int /\ Slack(tsx) \in Int /\ Working(busy) \in Nat
        /\ All(busy) \in Nat /\ Workers \in Nat
    BY <1>1, <1>3, SlackInt, WorkingNat, Moves DEF RefInv
  <1>6. QED  BY <1>1, <1>2, <1>4, <1>5 DEF RefInv

LEMMA PassStep ==
    ASSUME RefInv, Keeps(tsx, tsx'), NEW x \in Counted, busy[x] > 0, NEW y \in Counted,
           x # y, GoesOn(x, y)
    PROVE  RefInv'
  <1>1. /\ x \in Tails /\ x # "sendFailed" /\ y \in Tails /\ y # "sendFailed"
        /\ busy \in Bag
    BY DEF Counted, RefInv
  <1> DEFINE b == Down(busy, x)
  <1>2. b \in Bag /\ All(b) = All(busy) - 1 /\ Working(b) = Working(busy) - 1
    BY <1>1, Done
  <1>3. busy' = Up(b, y)  BY <1>1, MovesOn
  <1> HIDE DEF b
  <1>4. busy' \in Bag /\ All(busy') = All(b) + 1 /\ Working(busy') = Working(b) + 1
    BY <1>1, <1>2, <1>3, Begun
  <1>5. tsx' \in Tsx /\ Slack(tsx') >= Slack(tsx)  BY DEF Keeps
  <1>6. /\ Slack(tsx') \in Int /\ Slack(tsx) \in Int /\ Working(busy) \in Nat
        /\ All(busy) \in Nat
    BY <1>1, <1>5, SlackInt, WorkingNat DEF RefInv
  <1>7. QED  BY <1>2, <1>4, <1>5, <1>6 DEF RefInv

LEMMA BeginStep ==
    ASSUME RefInv, Worker, tsx' \in Tsx, NEW x \in Tails, Begins(x),
           Slack(tsx') >= IF x = "sendFailed" THEN Slack(tsx) ELSE Slack(tsx) + 1
    PROVE  RefInv'
  <1>1. busy \in Bag /\ busy' = Up(busy, x)  BY Moves DEF RefInv
  <1>2. /\ busy' \in Bag /\ All(busy') = All(busy) + 1
        /\ Working(busy') = IF x = "sendFailed" THEN Working(busy) ELSE Working(busy) + 1
    BY <1>1, Begun
  <1>3. /\ Slack(tsx') \in Int /\ Slack(tsx) \in Int /\ Working(busy) \in Nat
        /\ All(busy) \in Nat /\ All(busy) < Workers /\ Workers \in Nat
    BY <1>1, SlackInt, WorkingNat, Moves DEF RefInv
  <1>4. QED  BY <1>2, <1>3 DEF RefInv

\* A new transaction has its own reference.
LEMMA InitRefInv == Init => RefInv
  <1> SUFFICES ASSUME Init PROVE RefInv
    OBVIOUS
  <1>1. tsx \in Tsx  BY DEF Init, Tsx, States, Codes, TimerIds, Messages
  <1>2. tsx.refs = 1 /\ ~tsx.terminating /\ ~tsx.rtimer /\ ~tsx.ttimer
          /\ tsx.sending = "none" /\ tsx.resolving = "no"
    BY DEF Init
  <1>3. Slack(tsx) = 0  BY <1>2 DEF Slack, Held, Count
  <1>4. busy \in Bag /\ \A x \in Tails : busy[x] = 0  BY DEF Init, Bag
  <1>5. Working(busy) = 0 /\ All(busy) = 0
    BY <1>4, TailNames DEF Working, Popped, Reading, Locking, Telling, All, Tails
  <1>6. QED  BY <1>1, <1>3, <1>4, <1>5, Moves DEF RefInv

\* Steps of the user's threads.
LEMMA UserStepRefInv == RefInv /\ UserStep => RefInv'
  <1> SUFFICES ASSUME RefInv, UserStep PROVE RefInv'
    OBVIOUS
  <1>1. tsx \in Tsx  BY DEF RefInv
  <1>2. CASE \E o \in Outcome : TuSendRequest(o)
    <2>1. PICK o \in Outcome : TuSendRequest(o)  BY <1>2
    <2>2. Keeps(tsx, tsx') /\ busy' = busy
      BY <1>1, <2>1, SendRequestKeeps DEF TuSendRequest
    <2>3. QED  BY <2>2, QuietStep
  <1>3. CASE \E o \in Outcome : \E c \in {100, 180, 200, 300} : TuRespond(c, o)
    <2>1. PICK o \in Outcome, c \in {100, 180, 200, 300} : TuRespond(c, o)  BY <1>3
    <2>2. c \in Codes  BY DEF Codes
    <2>3. Keeps(tsx, tsx') /\ busy' = busy
      BY <1>1, <2>1, <2>2, RespondKeeps DEF TuRespond
    <2>4. QED  BY <2>3, QuietStep
  <1>4. CASE \E c \in {200, 300} : TuTerminate(c)
    <2>1. PICK c \in {200, 300} : TuTerminate(c)  BY <1>4
    <2>2. c \in Codes  BY DEF Codes
    <2>3. Keeps(tsx, tsx') /\ busy' = busy
      BY <1>1, <2>1, <2>2, TerminateKeeps DEF TuTerminate
    <2>4. QED  BY <2>3, QuietStep
  <1>5. CASE TuSetTimeout
    <2>1. Keeps(tsx, tsx') /\ busy' = busy
      BY <1>1, <1>5, ResetTKeeps DEF TuSetTimeout, TimerIds
    <2>2. QED  BY <2>1, QuietStep
  <1>6. QED  BY <1>2, <1>3, <1>4, <1>5 DEF UserStep

\* Messages received.
LEMMA ReceiveRefInv == RefInv /\ Receive => RefInv'
  <1> SUFFICES ASSUME RefInv, Receive PROVE RefInv'
    OBVIOUS
  <1>1. tsx \in Tsx  BY DEF RefInv
  <1>2. CASE Accept
    <2>1. Keeps(tsx, tsx') /\ busy' = busy  BY <1>1, <1>2, EnterKeeps DEF Accept, States
    <2>2. QED  BY <2>1, QuietStep
  <1>3. CASE RxAck
    <2>1. Keeps(tsx, tsx') /\ busy' = busy  BY <1>1, <1>3, ReceiveAckKeeps DEF RxAck
    <2>2. QED  BY <2>1, QuietStep
  <1>4. CASE AckTerminates
    <2>1. Keeps(tsx, tsx') /\ busy' = busy
      BY <1>1, <1>4, ResetTKeeps DEF AckTerminates, TimerIds
    <2>2. QED  BY <2>1, QuietStep
  <1>5. CASE \E o \in Outcome : RxRequest(o)
    <2>1. Keeps(tsx, tsx') /\ busy' = busy  BY <1>1, <1>5, ReceiveAgainKeeps DEF RxRequest
    <2>2. QED  BY <2>1, QuietStep
  <1>6. CASE \E o \in Outcome : \E c \in {100, 180, 200, 300, 408} : RxResponse(c, o)
    <2>1. PICK o \in Outcome, c \in {100, 180, 200, 300, 408} : RxResponse(c, o)  BY <1>6
    <2>2. c \in Codes  BY DEF Codes
    <2>3. Keeps(tsx, tsx') /\ busy' = busy
      BY <1>1, <2>1, <2>2, ReceiveResponseKeeps DEF RxResponse
    <2>4. QED  BY <2>3, QuietStep
  <1>7. QED  BY <1>2, <1>3, <1>4, <1>5, <1>6 DEF Receive

\* pj_timer_heap_poll: the reference of the heap goes to the callback.
LEMMA PopRefInv == RefInv /\ (PopRetransmit \/ PopTimeout) => RefInv'
  <1> SUFFICES ASSUME RefInv, PopRetransmit \/ PopTimeout PROVE RefInv'
    OBVIOUS
  <1>1. tsx \in Tsx  BY DEF RefInv
  <1>2. CASE PopRetransmit
    <2>1. tsx' = [tsx EXCEPT !.rtimer = FALSE] /\ tsx.rtimer  BY <1>2 DEF PopRetransmit
    <2>2. tsx' \in Tsx  BY <1>1, <2>1 DEF Tsx
    <2>3. Slack(tsx') >= Slack(tsx) + 1  BY <1>1, <2>1 DEF Tsx, Slack, Held, Count
    <2>4. Worker /\ Begins("popR") /\ "popR" \in Tails /\ "popR" # "sendFailed"
      BY <1>2, TailNames DEF PopRetransmit
    <2>5. QED  BY <2>2, <2>3, <2>4, BeginStep
  <1>3. CASE PopTimeout
    <2>1. tsx' = [tsx EXCEPT !.ttimer = FALSE] /\ tsx.ttimer  BY <1>3 DEF PopTimeout
    <2>2. tsx' \in Tsx  BY <1>1, <2>1 DEF Tsx
    <2>3. Slack(tsx') >= Slack(tsx) + 1  BY <1>1, <2>1 DEF Tsx, Slack, Held, Count
    <2>4. Worker /\ Begins("popT") /\ "popT" \in Tails /\ "popT" # "sendFailed"
      BY <1>3, TailNames DEF PopTimeout
    <2>5. QED  BY <2>2, <2>3, <2>4, BeginStep
  <1>4. QED  BY <1>2, <1>3

LEMMA TidKeeps ==
    ASSUME NEW t \in Tsx, NEW id \in TimerIds
    PROVE  Keeps(t, [t EXCEPT !.tid = id])
  <1> DEFINE u == [t EXCEPT !.tid = id]
  <1>1. u \in Tsx  BY DEF Tsx
  <1>2. Slack(u) >= Slack(t)  BY DEF Tsx, Slack, Held, Count
  <1>3. QED  BY <1>1, <1>2 DEF Keeps

\* A transport error under the lock.
LEMMA TransportFailedRefInv ==
    ASSUME RefInv, NEW w \in Counted, w # "transportErr", TransportFailed(w)
    PROVE  RefInv'
  <1> DEFINE v == [tsx EXCEPT !.transport = FALSE]
             c == IF tsx.code < 200 THEN 503 ELSE tsx.code
             x == [tsx EXCEPT !.transport = FALSE, !.state = "TERMINATED", !.code = c]
             y == CancelT(Detach(x))
  <1>1. tsx \in Tsx  BY DEF RefInv
  <1>2. tsx' = y /\ busy[w] > 0 /\ GoesOn(w, "transportErr")  BY DEF TransportFailed
  <1>3. c \in Codes /\ "TERMINATED" \in States
    <2>1. tsx.code \in Codes /\ 503 \in Codes  BY <1>1 DEF Tsx, Codes
    <2>2. QED  BY <2>1, ZenonT(60) DEF States
  <1> HIDE DEF c
  <1>4. x \in Tsx  BY <1>1, <1>3 DEF Tsx
  <1>5. Slack(x) >= Slack(tsx)  BY <1>1 DEF Tsx, Slack, Held, Count
  <1>6. Keeps(tsx, x)  BY <1>4, <1>5 DEF Keeps
  <1> HIDE DEF x
  <1>7. Keeps(x, Detach(x))  BY <1>4, DetachKeeps
  <1>8. Keeps(Detach(x), y)  BY <1>7, CancelTKeeps DEF Keeps
  <1>9. Keeps(tsx, tsx')  BY <1>1, <1>2, <1>6, <1>7, <1>8, KeepsTrans
  <1>10. QED  BY <1>2, <1>9, TailNames, PassStep

\* tsx_timer_callback.
LEMMA RunTimerRefInv == RefInv /\ RunTimer => RefInv'
  <1> SUFFICES ASSUME RefInv, RunTimer PROVE RefInv'
    OBVIOUS
  <1>1. tsx \in Tsx  BY DEF RefInv
  <1> DEFINE w == [tsx EXCEPT !.tid = "none"]
  <1>2. Keeps(tsx, w) /\ Keeps(tsx, tsx)  BY <1>1, TidKeeps, KeepsRefl DEF TimerIds
  <1> HIDE DEF w
  <1>3. CASE \E o \in Outcome : RunRetransmit(o)
    <2>1. PICK o \in Outcome : RunRetransmit(o)  BY <1>3
    <2>2. Keeps(tsx, RetransmitTimer(tsx, o))  BY <1>1, RetransmitTimerKeeps
    <2>3. QED  BY TailNames, <2>1, <2>2, EndStep DEF RunRetransmit
  <1>4. CASE RunDestroyed
    BY <1>2, <1>4, TailNames, EndStep DEF RunDestroyed
  <1>5. CASE ReadId
    <2>1. tsx.tid \in TimerIds  BY <1>1 DEF Tsx
    <2>2. IdTail[tsx.tid] \in Counted /\ IdTail[tsx.tid] # "popT"
      BY <2>1 DEF IdTail, TimerIds, Counted, Tails
    <2>3. Keeps(tsx, tsx')  BY <1>2, <1>5 DEF ReadId
    <2>4. QED  BY <1>5, <2>2, <2>3, TailNames, PassStep DEF ReadId
  <1>6. CASE ClearTimeout
    <2>1. Keeps(tsx, tsx')  BY <1>2, <1>6 DEF ClearTimeout, w
    <2>2. QED  BY <1>6, <2>1, TailNames, PassStep DEF ClearTimeout
  <1>7. ASSUME NEW id \in Counted, NEW lock \in Counted, id # lock, ClearTransport(id, lock)
        PROVE  RefInv'
    <2>1. busy[id] > 0 /\ ((tsx' = w /\ GoesOn(id, lock)) \/ (tsx' = DropRef(w) /\ Ends(id)))
      BY <1>7 DEF ClearTransport, w
    <2>2. CASE tsx' = w /\ GoesOn(id, lock)
      <3>1. Keeps(tsx, tsx') /\ GoesOn(id, lock)  BY <1>2, <2>2
      <3>2. busy[id] > 0 /\ id # lock  BY <1>7, <2>1
      <3>3. QED  BY <3>1, <3>2, PassStep
    <2>3. CASE tsx' = DropRef(w) /\ Ends(id)
      BY <1>2, <2>1, <2>3, EndStep
    <2>4. QED  BY <2>1, <2>2, <2>3
  <1>8. CASE RunTerminate
    <2> DEFINE v == IF Running(tsx) /\ tsx.code >= 200 THEN Terminate(tsx, tsx.code) ELSE tsx
    <2>1. tsx.code \in Codes  BY <1>1 DEF Tsx
    <2>2. Keeps(tsx, v)  BY <1>1, <2>1, KeepsRefl, TerminateKeeps
    <2>3. tsx' = DropRef(v) /\ busy["idTerminate"] > 0 /\ Ends("idTerminate")
      BY <1>8 DEF RunTerminate
    <2> HIDE DEF v
    <2>4. QED  BY <2>2, <2>3, TailNames, EndStep
  <1>9. CASE TransportFailed("lockErr")
    BY <1>9, TailNames, TransportFailedRefInv
  <1>10. CASE RunDisconnected
    <2>1. CASE Survives(tsx)
      <3> DEFINE v == [tsx EXCEPT !.transport = FALSE, !.resolved = FALSE,
                                  !.resched = FALSE, !.resend = FALSE]
      <3>1. tsx' = DropRef(v) /\ busy["lockDisc"] > 0 /\ Ends("lockDisc")
        BY <1>10, <2>1 DEF RunDisconnected
      <3>2. v \in Tsx  BY <1>1 DEF Tsx
      <3>3. Slack(v) >= Slack(tsx)  BY <1>1 DEF Tsx, Slack, Held, Count
      <3>4. Keeps(tsx, v)  BY <3>2, <3>3 DEF Keeps
      <3> HIDE DEF v
      <3>5. QED  BY <3>1, <3>4, TailNames, EndStep
    <2>2. CASE ~Survives(tsx)
      <3>1. TransportFailed("lockDisc")  BY <1>10, <2>2 DEF RunDisconnected
      <3>2. QED  BY <3>1, TailNames, TransportFailedRefInv
    <2>3. QED  BY <2>1, <2>2
  <1>11. CASE RunTimeout
    <2>1. /\ busy["timeout"] > 0
          /\ \/ tsx' = TimeoutTimer(tsx) /\ GoesOn("timeout", "terminated")
             \/ tsx' = Enter(tsx, "DESTROYED") /\ GoesOn("timeout", "destroyed")
             \/ tsx' = DropRef(tsx) /\ Ends("timeout")
      BY <1>11 DEF RunTimeout
    <2>2. Keeps(tsx, TimeoutTimer(tsx)) /\ Keeps(tsx, Enter(tsx, "DESTROYED"))
      BY <1>1, TimeoutTimerKeeps, EnterKeeps DEF States
    <2>3. CASE tsx' = TimeoutTimer(tsx) /\ GoesOn("timeout", "terminated")
      <3>1. Keeps(tsx, tsx')  BY <2>2, <2>3
      <3>2. QED  BY <2>1, <2>3, <3>1, TailNames, PassStep
    <2>4. CASE tsx' = Enter(tsx, "DESTROYED") /\ GoesOn("timeout", "destroyed")
      <3>1. Keeps(tsx, tsx')  BY <2>2, <2>4
      <3>2. QED  BY <2>1, <2>4, <3>1, TailNames, PassStep
    <2>5. CASE tsx' = DropRef(tsx) /\ Ends("timeout")
      BY <1>2, <2>1, <2>5, TailNames, EndStep
    <2>6. QED  BY <2>1, <2>3, <2>4, <2>5
  <1>12. QED
    BY <1>3, <1>4, <1>5, <1>6, <1>7, <1>8, <1>9, <1>10, <1>11, TailNames DEF RunTimer

\* The ends of the callbacks.
LEMMA FinishRefInv == RefInv /\ Finish => RefInv'
  <1> SUFFICES ASSUME RefInv, Finish PROVE RefInv'
    OBVIOUS
  <1>1. tsx \in Tsx  BY DEF RefInv
  <1>2. {"terminated", "destroyed", "transportErr", "transportCb"} \subseteq Counted
    BY TailNames
  <1>3. CASE FinishTerminated
    <2>1. Keeps(tsx, Terminated(tsx))  BY <1>1, TerminatedKeeps
    <2>2. QED  BY <1>2, <1>3, <2>1, EndStep DEF FinishTerminated
  <1>4. CASE FinishDestroyed
    <2>1. Keeps(tsx, Shutdown(tsx))  BY <1>1, ShutdownKeeps
    <2>2. QED  BY <1>2, <1>4, <2>1, EndStep DEF FinishDestroyed
  <1>5. CASE FinishTransportErr
    <2> DEFINE u == [tsx EXCEPT !.told = IF tsx.user THEN "TERMINATED" ELSE @]
               v == ScheduleT(u, "timeout")
    <2>1. tsx' = DropRef(v) /\ busy["transportErr"] > 0 /\ Ends("transportErr")
      BY <1>5 DEF FinishTransportErr
    <2>2. u \in Tsx
      <3>1. (IF tsx.user THEN "TERMINATED" ELSE tsx.told) \in States
        BY <1>1 DEF Tsx, States
      <3>2. ASSUME NEW s \in States PROVE [tsx EXCEPT !.told = s] \in Tsx
        BY <1>1 DEF Tsx
      <3>3. QED  BY <3>1, <3>2, Zenon
    <2>3. Slack(u) >= Slack(tsx)  BY <1>1 DEF Tsx, Slack, Held, Count
    <2>4. Keeps(tsx, u)  BY <2>2, <2>3 DEF Keeps
    <2> HIDE DEF u
    <2>5. Keeps(u, v)  BY <2>4, ScheduleTKeeps DEF Keeps, TimerIds
    <2> HIDE DEF v
    <2>6. Keeps(tsx, v)  BY <1>1, <2>4, <2>5, KeepsTrans
    <2>7. QED  BY <1>2, <2>1, <2>6, EndStep
  <1>6. CASE FinishSendFailed
    <2>1. Keeps(tsx, tsx')  BY <1>1, <1>6, TerminatedKeeps DEF FinishSendFailed
    <2>2. busy["sendFailed"] > 0 /\ Ends("sendFailed") /\ busy \in Bag
      BY <1>6 DEF FinishSendFailed, RefInv
    <2>3. busy' \in Bag /\ All(busy') = All(busy) - 1 /\ Working(busy') = Working(busy)
      BY <2>2, TailNames, Moves, Done
    <2>4. All(busy) \in Nat /\ Workers \in Nat /\ Working(busy) \in Nat
      BY <2>2, WorkingNat, Moves
    <2>5. QED  BY <1>1, <2>1, <2>3, <2>4, SlackInt DEF RefInv, Keeps
  <1>7. CASE FinishTransportCb
    <2> DEFINE u == IF Rank[tsx.state] < Rank["COMPLETED"]
                    THEN ResetT(tsx, "transportErr") ELSE tsx
    <2>1. Keeps(tsx, u)  BY <1>1, KeepsRefl, ResetTKeeps DEF TimerIds
    <2>2. tsx' = DropRef(u) /\ busy["transportCb"] > 0 /\ Ends("transportCb")
      BY <1>7 DEF FinishTransportCb
    <2> HIDE DEF u
    <2>3. QED  BY <1>2, <2>1, <2>2, EndStep
  <1>8. QED  BY <1>3, <1>4, <1>5, <1>6, <1>7 DEF Finish

\* transport_callback: the reference of the send it ends goes to what is left of
\* the callback, is given back, or, after a pending destroy, is forgotten.
LEMMA TransportCallbackRefInv ==
    ASSUME RefInv, NEW ok \in BOOLEAN, NEW o \in Outcome, TransportCallback(ok, o)
    PROVE  RefInv'
  <1> DEFINE u == [tsx EXCEPT !.pending = FALSE, !.sending = "none"]
             v == [u EXCEPT !.resend = FALSE]
             w == IF u.resend /\ u.last # "none" THEN SendMsg(v, v.last, o) ELSE v
  <1>1. tsx \in Tsx /\ tsx.sending # "none"  BY DEF RefInv, TransportCallback
  <1>2. \/ tsx' = u /\ Worker /\ Begins("transportCb")
        \/ tsx' = Destroy(u) /\ busy' = busy
        \/ tsx' = DropRef(Reschedule(w)) /\ busy' = busy
    BY DEF TransportCallback
  <1>3. u \in Tsx  BY <1>1 DEF Tsx
  <1>4. Slack(u) = Slack(tsx) + 1  BY <1>1 DEF Tsx, Slack, Held, Count
  <1>5. v.last = u.last  BY <1>3 DEF Tsx
  <1> HIDE DEF u
  <1>6. Keeps(u, v)  BY <1>3, ResendKeeps
  <1> HIDE DEF v
  <1>7. v \in Tsx  BY <1>6 DEF Keeps
  <1>8. Keeps(v, w)  BY <1>5, <1>7, KeepsRefl, LastTyped, SendMsgKeeps
  <1> HIDE DEF w
  <1>9. Keeps(w, Reschedule(w))  BY <1>8, RescheduleKeeps DEF Keeps
  <1>10. Keeps(u, Reschedule(w))  BY <1>3, <1>6, <1>8, <1>9, KeepsTrans
  <1>11. Slack(tsx) \in Int /\ Working(busy) \in Nat  BY <1>1, SlackInt, WorkingNat DEF RefInv
  <1>12. CASE tsx' = u /\ Worker /\ Begins("transportCb")
    <2>1. tsx' \in Tsx /\ Slack(tsx') >= Slack(tsx) + 1  BY <1>3, <1>4, <1>11, <1>12
    <2>2. "transportCb" \in Tails /\ "transportCb" # "sendFailed"  BY TailNames
    <2>3. QED  BY <1>12, <2>1, <2>2, BeginStep
  <1>13. CASE tsx' = Destroy(u) /\ busy' = busy
    <2>1. Keeps(u, tsx')  BY <1>3, <1>13, DestroyKeeps
    <2>2. tsx' \in Tsx /\ Slack(tsx') >= Slack(tsx) + 1  BY <1>4, <2>1 DEF Keeps
    <2>3. Keeps(tsx, tsx')  BY <1>11, <2>2, SlackInt DEF Keeps
    <2>4. QED  BY <1>13, <2>3, QuietStep
  <1>14. CASE tsx' = DropRef(Reschedule(w)) /\ busy' = busy
    <2>1. Reschedule(w) \in Tsx /\ Slack(Reschedule(w)) >= Slack(tsx) + 1
      BY <1>4, <1>10 DEF Keeps
    <2>2. tsx' \in Tsx /\ Slack(tsx') = Slack(Reschedule(w)) - 1
      BY <1>14, <2>1, DropRefSlack
    <2>3. Keeps(tsx, tsx')  BY <1>11, <2>1, <2>2, SlackInt DEF Keeps
    <2>4. QED  BY <1>14, <2>3, QuietStep
  <1>15. QED  BY <1>2, <1>12, <1>13, <1>14

\* Callbacks of the resolver and of the transports.
LEMMA CallbackRefInv == RefInv /\ Callback => RefInv'
  <1> SUFFICES ASSUME RefInv, Callback PROVE RefInv'
    OBVIOUS
  <1>1. tsx \in Tsx  BY DEF RefInv
  <1>2. CASE \E o \in Outcome : ResolveSent(o)
    <2>1. Keeps(tsx, tsx') /\ busy' = busy  BY <1>1, <1>2, SendDoneKeeps DEF ResolveSent
    <2>2. QED  BY <2>1, QuietStep
  <1>3. CASE \E o \in Outcome : \E ok \in BOOLEAN : TransportCallback(ok, o)
    BY <1>3, TransportCallbackRefInv
  <1>4. CASE \E c \in {502, 503} : ResolveFails(c)
    <2>1. PICK c \in {502, 503} : ResolveFails(c)  BY <1>4
    <2>2. c \in Codes  BY DEF Codes
    <2>3. tsx.resolving = "attached"  BY <2>1 DEF ResolveFails
    <2> DEFINE u == [Answered(tsx) EXCEPT !.transport = FALSE]
               v == [Answered(tsx) EXCEPT !.transport = FALSE, !.code = c]
               w == Enter(v, "TERMINATED")
    <2>4. \/ tsx' = w /\ Worker /\ Begins("sendFailed")
          \/ tsx' = SendGivenUp(tsx, c) /\ busy' = busy
      BY <2>1 DEF ResolveFails
    <2>5. Keeps(tsx, u)  BY <1>1, <2>3, AnsweredKeeps
    <2>6. v = [u EXCEPT !.code = c]  OBVIOUS
    <2> HIDE DEF u, v
    <2>7. Keeps(u, v)  BY <2>2, <2>5, <2>6, CodeKeeps DEF Keeps
    <2>8. Keeps(v, w)  BY <2>7, EnterKeeps DEF Keeps, States
    <2> HIDE DEF w
    <2>9. Keeps(tsx, w)  BY <1>1, <2>5, <2>7, <2>8, KeepsTrans
    <2>10. CASE tsx' = w /\ Worker /\ Begins("sendFailed")
      <3>1. tsx' \in Tsx /\ Slack(tsx') >= Slack(tsx)  BY <2>9, <2>10 DEF Keeps
      <3>2. QED  BY <2>10, <3>1, TailNames, BeginStep
    <2>11. CASE tsx' = SendGivenUp(tsx, c) /\ busy' = busy
      <3>1. Keeps(tsx, tsx')  BY <1>1, <2>2, <2>3, <2>11, SendGivenUpKeeps
      <3>2. QED  BY <2>11, <3>1, QuietStep
    <2>12. QED  BY <2>4, <2>10, <2>11
  <1>5. CASE ResolveRetries
    <2>1. Keeps(tsx, tsx') /\ busy' = busy
      BY <1>1, <1>5, KeepsRefl, ResetTKeeps DEF ResolveRetries, TimerIds
    <2>2. QED  BY <2>1, QuietStep
  <1>6. CASE ResolveDetached
    <2>1. tsx' = [tsx EXCEPT !.resolving = "no"] /\ busy' = busy
      BY <1>6 DEF ResolveDetached
    <2>2. tsx.resolving = "detached"  BY <1>6 DEF ResolveDetached
    <2>3. tsx' \in Tsx  BY <1>1, <2>1 DEF Tsx
    <2>4. Slack(tsx') >= Slack(tsx)  BY <1>1, <2>1, <2>2 DEF Tsx, Slack, Held, Count
    <2>5. Keeps(tsx, tsx')  BY <2>3, <2>4 DEF Keeps
    <2>6. QED  BY <2>1, <2>5, QuietStep
  <1>7. CASE TransportDisconnects
    <2>1. Keeps(tsx, tsx') /\ busy' = busy
      BY <1>1, <1>7, ResetTKeeps DEF TransportDisconnects, TimerIds
    <2>2. QED  BY <2>1, QuietStep
  <1>8. QED  BY <1>2, <1>3, <1>4, <1>5, <1>6, <1>7 DEF Callback

\* The invariant is inductive.
LEMMA NextRefInv == RefInv /\ [Next]_vars => RefInv'
  <1> SUFFICES ASSUME RefInv, [Next]_vars PROVE RefInv'
    OBVIOUS
  <1>1. CASE Next
    BY <1>1, UserStepRefInv, ReceiveRefInv, PopRefInv, RunTimerRefInv, FinishRefInv,
       CallbackRefInv DEF Next
  <1>2. CASE UNCHANGED vars
    BY <1>2 DEF vars, RefInv
  <1>3. QED  BY <1>1, <1>2

LEMMA RefInvImplies == RefInv => TypeOK /\ HoldersCounted
  <1> SUFFICES ASSUME RefInv PROVE TypeOK /\ HoldersCounted
    OBVIOUS
  <1>1. tsx.refs \in Int /\ Held(tsx) \in Nat /\ Working(busy) \in Nat
    BY RefsInt, WorkingNat DEF RefInv, Held, Count
  <1>2. tsx.refs - Held(tsx) >= Working(busy)  BY DEF RefInv, Slack
  <1>3. busy \in [Tails -> 0 .. Workers]
    <2>1. busy \in Bag /\ All(busy) <= Workers /\ Workers \in Nat  BY Moves DEF RefInv
    <2>2. \A x \in Tails : busy[x] \in 0 .. Workers  BY <2>1, WorkingNat
    <2>3. QED  BY <2>1, <2>2 DEF Bag
  <1>4. QED  BY <1>1, <1>2, <1>3 DEF RefInv, TypeOK, HoldersCounted

-------------------------------------------------------------------------------
(* Theorems.                                                               *)

LEMMA SpecRefInv == Spec => []RefInv
  BY InitRefInv, NextRefInv, PTL DEF Spec

\* Type correctness: whatever the timers, the transports and the threads do, the
\* transaction keeps its shape and its reference count is never negative.
THEOREM TypeCorrect == Spec => []TypeOK
  BY SpecRefInv, RefInvImplies, PTL

\* The reference count of the group lock is at least the number of references
\* held by the transaction, the timer heap, the sends under way and the callbacks
\* that are running, for any number of worker threads: no path through
\* sip_transaction.c gives a reference back twice.
THEOREM ReferencesSafe == Spec => []HoldersCounted
  BY SpecRefInv, RefInvImplies, PTL

-------------------------------------------------------------------------------
(* The order of the states, and of what the user is told, when one thread  *)
(* polls.                                                                  *)

\* Between two operations: the user has not been told more than what has happened.
Ordered(t) ==
    /\ t \in Tsx
    /\ Rank[t.told] <= Rank[t.state]
    /\ t.pendingDestroy => t.state = "DESTROYED"

\* An operation goes forward, leaves nothing to be sent again to a destroyed
\* transaction, and is not what destroys it.
Follows(t, u) ==
    /\ Ordered(u)
    /\ Rank[t.state] <= Rank[u.state] /\ Rank[t.told] <= Rank[u.told]
    /\ u.state = "DESTROYED" /\ u.resend => t.state = "DESTROYED" /\ t.resend
    /\ u.state = "DESTROYED" => t.state = "DESTROYED"

\* An operation that is not about the state.
Same(t, u) ==
    /\ u \in Tsx
    /\ u.state = t.state /\ u.told = t.told /\ u.pendingDestroy = t.pendingDestroy
    /\ u.resend => t.resend

LEMMA Ranks ==
    /\ \A s \in States : Rank[s] \in 0 .. 7 /\ (Rank[s] >= 7 => s = "DESTROYED")
    /\ Rank["NULL"] = 0 /\ Rank["CALLING"] = 1 /\ Rank["TRYING"] = 2
    /\ Rank["PROCEEDING"] = 3 /\ Rank["COMPLETED"] = 4 /\ Rank["CONFIRMED"] = 5
    /\ Rank["TERMINATED"] = 6 /\ Rank["DESTROYED"] = 7
  BY DEF Rank, States

\* Of a transaction.
LEMMA RankOf ==
    ASSUME NEW t \in Tsx
    PROVE  t.state \in States /\ t.told \in States /\ Rank[t.state] \in 0 .. 7 /\ Rank[t.told] \in 0 .. 7
  <1>1. t.state \in States /\ t.told \in States  BY DEF Tsx
  <1>2. QED  BY <1>1, Ranks

LEMMA FollowsRefl ==
    ASSUME NEW t, Ordered(t)
    PROVE  Follows(t, t)
  BY RankOf DEF Ordered, Follows

LEMMA FollowsTrans ==
    ASSUME NEW t, NEW u, NEW v, Ordered(t), Follows(t, u), Follows(u, v)
    PROVE  Follows(t, v)
  BY RankOf DEF Ordered, Follows

LEMMA SameFollows ==
    ASSUME NEW t, NEW u, Ordered(t), Same(t, u)
    PROVE  Follows(t, u)
  BY RankOf DEF Ordered, Follows, Same

LEMMA SameTrans ==
    ASSUME NEW t, NEW u, NEW v, Same(t, u), Same(u, v)
    PROVE  Same(t, v)
  BY DEF Same

LEMMA SameRefl ==
    ASSUME NEW t \in Tsx
    PROVE  Same(t, t)
  BY DEF Same

\* The timers and the transport are not about the state.
LEMMA TimersSame ==
    ASSUME NEW t \in Tsx
    PROVE  /\ Same(t, ScheduleR(t)) /\ Same(t, CancelR(t)) /\ Same(t, CancelT(t)) /\ Same(t, ArmR(t))
           /\ \A id \in TimerIds : Same(t, ScheduleT(t, id)) /\ Same(t, ResetT(t, id))
  <1>1. ASSUME NEW u \in Tsx, NEW id \in TimerIds
        PROVE  Same(u, CancelT(u)) /\ Same(u, ScheduleT(u, id))
    <2>1. CancelT(u) \in Tsx /\ ScheduleT(u, id) \in Tsx
      BY CancelTKeeps, ScheduleTKeeps DEF Keeps
    <2>2. QED  BY <2>1 DEF Same, CancelT, ScheduleT, Tsx
  <1>2. ScheduleR(t) \in Tsx /\ CancelR(t) \in Tsx /\ ArmR(t) \in Tsx
    BY ScheduleRKeeps, CancelRKeeps, ArmRKeeps DEF Keeps
  <1>3. Same(t, ScheduleR(t)) /\ Same(t, CancelR(t))
    BY <1>2 DEF Same, ScheduleR, CancelR, Tsx
  <1>4. Same(t, ArmR(t))
    BY <1>2 DEF Same, ScheduleR, ArmR, Tsx
  <1>5. ASSUME NEW id \in TimerIds PROVE Same(t, ResetT(t, id))
    <2>1. Same(t, CancelT(t)) /\ CancelT(t) \in Tsx  BY <1>1 DEF Same
    <2>2. Same(CancelT(t), ScheduleT(CancelT(t), id))  BY <1>1, <2>1
    <2>3. QED  BY <2>1, <2>2, SameTrans DEF ResetT
  <1>6. Same(t, CancelT(t))
    <2>1. "none" \in TimerIds  BY DEF TimerIds
    <2>2. QED  BY <1>1, <2>1
  <1>7. QED  BY <1>1, <1>3, <1>4, <1>5, <1>6

\* Nor are these fields.
LEMMA FieldsSame ==
    ASSUME NEW t \in Tsx
    PROVE  /\ \A c \in Codes : Same(t, [t EXCEPT !.code = c])
           /\ \A b \in BOOLEAN : Same(t, [t EXCEPT !.resched = b]) /\ Same(t, [t EXCEPT !.transport = b])
           /\ \A m \in Messages \cup {"none"} : Same(t, [t EXCEPT !.last = m])
           /\ \A id \in TimerIds : Same(t, [t EXCEPT !.tid = id])
           /\ Same(t, [t EXCEPT !.resend = FALSE])
           /\ Same(t, DropRef(t))
  <1>1. ASSUME NEW c \in Codes PROVE Same(t, [t EXCEPT !.code = c])
    BY DEF Same, Tsx
  <1>2. ASSUME NEW b \in BOOLEAN PROVE Same(t, [t EXCEPT !.resched = b]) /\ Same(t, [t EXCEPT !.transport = b])
    BY DEF Same, Tsx
  <1>3. ASSUME NEW m \in Messages \cup {"none"} PROVE Same(t, [t EXCEPT !.last = m])
    BY DEF Same, Tsx
  <1>4. ASSUME NEW id \in TimerIds PROVE Same(t, [t EXCEPT !.tid = id])
    BY DEF Same, Tsx
  <1>5. Same(t, [t EXCEPT !.resend = FALSE])
    BY DEF Same, Tsx
  <1>6. Same(t, DropRef(t))
    <2>1. DropRef(t) \in Tsx  BY DropRefSlack
    <2>2. QED  BY <2>1 DEF Same, DropRef, Tsx
  <1>7. QED  BY <1>1, <1>2, <1>3, <1>4, <1>5, <1>6

\* tsx_set_state goes forward.
LEMMA EnterFollows ==
    ASSUME NEW t, Ordered(t), NEW s \in States, Rank[t.state] <= Rank[s],
           s # "DESTROYED"
    PROVE  Follows(t, Enter(t, s)) /\ Enter(t, s).state = s
  <1>1. t \in Tsx  BY DEF Ordered
  <1>2. Enter(t, s) \in Tsx  BY <1>1, EnterKeeps DEF Keeps
  <1>3. /\ Enter(t, s).state = s /\ Enter(t, s).told \in {s, t.told}
        /\ Enter(t, s).pendingDestroy = t.pendingDestroy /\ Enter(t, s).resend = t.resend
    BY <1>1 DEF Enter, Tsx
  <1>4. Rank[s] \in 0 .. 7 /\ (Rank[s] >= 7 => s = "DESTROYED") /\ Rank["DESTROYED"] = 7
    BY Ranks
  <1>5. QED  BY <1>1, <1>2, <1>3, <1>4, RankOf DEF Ordered, Follows

\* The end of tsx_set_state for TERMINATED.
LEMMA TerminatedSame ==
    ASSUME NEW t \in Tsx
    PROVE  Same(t, Terminated(t)) /\ Same(t, Detach(t))
  <1>1. Detach(t) \in Tsx  BY DetachKeeps DEF Keeps
  <1>2. Same(t, Detach(t))  BY <1>1 DEF Same, Detach, Tsx
  <1>3. Same(Detach(t), Terminated(t))  BY <1>1, TimersSame DEF Terminated, TimerIds
  <1>4. QED  BY <1>2, <1>3, SameTrans

LEMMA TerminateFollows ==
    ASSUME NEW t, Ordered(t), NEW c \in Codes, t.state # "DESTROYED"
    PROVE  Follows(t, Terminate(t, c))
  <1> DEFINE u == [t EXCEPT !.code = c]
             v == Enter(u, "TERMINATED")
  <1>1. t \in Tsx  BY DEF Ordered
  <1>2. Same(t, u)  BY <1>1, FieldsSame
  <1>3. Follows(t, u)  BY <1>2, SameFollows
  <1>4. Rank[u.state] <= Rank["TERMINATED"]
    <2>1. u.state \in States /\ u.state # "DESTROYED"  BY <1>1, <1>2 DEF Same, Tsx
    <2>2. QED  BY <2>1, Ranks
  <1> HIDE DEF u
  <1>5. Ordered(u)  BY <1>3 DEF Follows
  <1>6. Follows(u, v)  BY <1>4, <1>5, EnterFollows DEF States
  <1> HIDE DEF v
  <1>7. Ordered(v) /\ v \in Tsx  BY <1>6 DEF Follows, Ordered
  <1>8. Follows(v, Terminated(v))  BY <1>7, TerminatedSame, SameFollows
  <1>9. Follows(t, Terminated(v))  BY <1>3, <1>6, <1>8, FollowsTrans
  <1>10. QED  BY <1>9 DEF Terminate, u, v

LEMMA ClearedTyped ==
    ASSUME NEW t \in Tsx
    PROVE  [t EXCEPT !.transport = FALSE, !.last = "none", !.resend = FALSE,
                     !.resched = FALSE, !.pendingDestroy = @ \/ t.pending,
                     !.user = @ /\ ~t.pending] \in Tsx
  <1>1. ASSUME NEW b \in BOOLEAN, NEW c \in BOOLEAN
        PROVE  [t EXCEPT !.transport = FALSE, !.last = "none", !.resend = FALSE,
                         !.resched = FALSE, !.pendingDestroy = b, !.user = c] \in Tsx
    BY ZenonT(60) DEF Tsx
  <1>2. (t.pendingDestroy \/ t.pending) \in BOOLEAN /\ (t.user /\ ~t.pending) \in BOOLEAN
    OBVIOUS
  <1>3. QED  BY <1>1, <1>2, Zenon

\* tsx_shutdown, of a transaction that is destroyed; nothing is sent again.
LEMMA ShutdownFollows ==
    ASSUME NEW t, Ordered(t), t.state = "DESTROYED"
    PROVE  Follows(t, Shutdown(t)) /\ ~Shutdown(t).resend
  <1> DEFINE s == [t EXCEPT !.transport = FALSE, !.last = "none", !.resend = FALSE,
                            !.resched = FALSE,
                            !.pendingDestroy = @ \/ t.pending,
                            !.user = @ /\ ~t.pending]
             u == CancelR(CancelT(s))
  <1>1. t \in Tsx /\ Shutdown(t) \in Tsx  BY ShutdownKeeps DEF Ordered, Keeps
  <1>2. s \in Tsx  BY <1>1, ClearedTyped
  <1>3. s.state = t.state /\ s.told = t.told /\ ~s.resend  BY <1>1 DEF Tsx
  <1>4. Shutdown(t) = IF u.terminating THEN u ELSE [u EXCEPT !.terminating = TRUE, !.refs = @ - 1]
    BY DEF Shutdown
  <1> HIDE DEF s
  <1>5. Same(s, CancelT(s)) /\ CancelT(s) \in Tsx
    BY <1>2, TimersSame DEF Same
  <1>6. Same(CancelT(s), u) /\ u \in Tsx
    BY <1>5, TimersSame DEF Same
  <1>7. u.state = t.state /\ u.told = t.told /\ ~u.resend
    BY <1>3, <1>5, <1>6 DEF Same
  <1> HIDE DEF u
  <1>8. Shutdown(t).state = t.state /\ Shutdown(t).told = t.told /\ ~Shutdown(t).resend
    BY <1>4, <1>6, <1>7 DEF Tsx
  <1>9. QED  BY <1>1, <1>8, RankOf DEF Ordered, Follows

LEMMA DestroyOrdered ==
    ASSUME NEW t, Ordered(t)
    PROVE  /\ Ordered(Destroy(t)) /\ Destroy(t).state = "DESTROYED" /\ ~Destroy(t).resend
           /\ Rank[t.state] <= 7 /\ Rank[t.told] <= Rank[Destroy(t).told]
  <1> DEFINE u == Enter(t, "DESTROYED")
             v == Destroy(t)
  <1>1. t \in Tsx  BY DEF Ordered
  <1>2. u \in Tsx /\ "DESTROYED" \in States  BY <1>1, EnterKeeps DEF Keeps, States
  <1>3. /\ u.state = "DESTROYED" /\ u.told \in {"DESTROYED", t.told}
        /\ u.pendingDestroy = t.pendingDestroy
    BY <1>1 DEF Enter, Tsx
  <1>4. Rank["DESTROYED"] = 7 /\ Rank[t.state] \in 0 .. 7 /\ Rank[t.told] \in 0 .. 7
    BY <1>1, Ranks, RankOf
  <1>5. Ordered(u)  BY <1>2, <1>3, <1>4 DEF Ordered
  <1>6. v = Shutdown(u)  BY DEF Destroy
  <1>7. Rank[t.told] <= Rank[u.told]  BY <1>3, <1>4
  <1> HIDE DEF u, v
  <1>8. Follows(u, v) /\ ~v.resend  BY <1>3, <1>5, <1>6, ShutdownFollows
  <1>9. v \in Tsx /\ u \in Tsx  BY <1>2, <1>8 DEF Follows, Ordered
  <1>10. v.state = "DESTROYED"
    <2>1. Rank[v.state] >= 7 /\ v.state \in States
      BY <1>3, <1>4, <1>8, <1>9, RankOf DEF Follows
    <2>2. QED  BY <2>1, Ranks
  <1>11. Rank[t.told] <= Rank[v.told]
    BY <1>4, <1>7, <1>8, <1>9, RankOf DEF Follows
  <1>12. QED  BY <1>4, <1>8, <1>10, <1>11 DEF v, Follows

LEMMA DestroyFollows ==
    ASSUME NEW t, Ordered(t), t.state = "DESTROYED"
    PROVE  Follows(t, Destroy(t))
  BY DestroyOrdered, Ranks DEF Follows

-------------------------------------------------------------------------------
(* Sending goes forward, and stays in the state if it does not fail.       *)

LEMMA TransmitSame ==
    ASSUME NEW t \in Tsx, NEW m \in Messages, NEW how
    PROVE  Same(t, Transmit(t, m, how))
  <1>1. Transmit(t, m, how) \in Tsx  BY TransmitKeeps DEF Keeps
  <1>2. QED  BY <1>1 DEF Same, Transmit, Tsx

LEMMA RescheduleSame ==
    ASSUME NEW u \in Tsx
    PROVE  Same(u, Reschedule(u))
  <1> DEFINE v == [u EXCEPT !.resched = FALSE]
  <1>1. Same(u, v) /\ v \in Tsx  BY FieldsSame DEF Same
  <1>2. Reschedule(u) \in {u, v, ScheduleR(v)}  BY DEF Reschedule
  <1> HIDE DEF v
  <1>3. Same(v, ScheduleR(v))  BY <1>1, TimersSame
  <1>4. QED  BY <1>1, <1>2, <1>3, SameRefl, SameTrans

LEMMA AnsweredSame ==
    ASSUME NEW t \in Tsx, t.resolving = "attached",
           NEW b \in BOOLEAN, NEW rel \in BOOLEAN
    PROVE  /\ Same(t, [Answered(t) EXCEPT !.transport = b, !.reliable = rel])
           /\ Same(t, [Answered(t) EXCEPT !.transport = b])
  <1> DEFINE a == Answered(t)
  <1>1. a \in Tsx  BY RefsInt DEF Answered, Tsx
  <1>2. Same(t, a)  BY <1>1 DEF Same, Answered, Tsx
  <1> HIDE DEF a
  <1>3. Same(a, [a EXCEPT !.transport = b, !.reliable = rel])
    <2> DEFINE u == [a EXCEPT !.transport = b, !.reliable = rel]
    <2>1. u \in Tsx  BY <1>1 DEF Tsx
    <2>2. /\ u.state = a.state /\ u.told = a.told /\ u.pendingDestroy = a.pendingDestroy
          /\ u.resend = a.resend
      BY <1>1 DEF Tsx
    <2>3. QED  BY <2>1, <2>2 DEF Same
  <1>4. Same(a, [a EXCEPT !.transport = b])  BY <1>1, FieldsSame
  <1>5. QED  BY <1>2, <1>3, <1>4, SameTrans DEF a

LEMMA SendDoneFollows ==
    ASSUME NEW t, Ordered(t), t.resolving = "attached", NEW o \in Outcome
    PROVE  /\ Follows(t, SendDone(t, o))
           /\ t.state # "DESTROYED" => Same(t, SendDone(t, o))
  <1> DEFINE u == [Answered(t) EXCEPT !.transport = TRUE, !.reliable = o.rel]
             v == [u EXCEPT !.resend = FALSE]
             w == Transmit(v, v.last, o.again)
             d == SendDone(t, o)
  <1>1. t \in Tsx /\ o.rel \in BOOLEAN  BY DEF Outcome, Ordered
  <1>2. Same(t, u)  BY <1>1, AnsweredSame
  <1>3. \/ u.pendingDestroy /\ d = Destroy(u)
        \/ d = Reschedule(u)
        \/ d = Reschedule(v)
        \/ v.last # "none" /\ d = Reschedule(w)
    BY DEF SendDone
  <1> HIDE DEF u, d
  <1>4. u \in Tsx  BY <1>2 DEF Same
  <1>5. Same(u, v) /\ v \in Tsx  BY <1>4, FieldsSame DEF Same
  <1> HIDE DEF v
  <1>6. v.last # "none" => Same(v, w) /\ w \in Tsx
    BY <1>5, LastTyped, TransmitSame DEF Same
  <1> HIDE DEF w
  <1>7. CASE u.pendingDestroy /\ d = Destroy(u)
    <2>1. Follows(t, u)  BY <1>2, SameFollows
    <2>2. u.state = "DESTROYED" /\ t.state = "DESTROYED"
      BY <1>2, <1>7, <2>1 DEF Same, Ordered, Follows
    <2>3. Follows(u, d)  BY <1>7, <2>1, <2>2, DestroyFollows DEF Follows
    <2>4. QED  BY <2>1, <2>2, <2>3, FollowsTrans DEF d
  <1>8. CASE ~(u.pendingDestroy /\ d = Destroy(u))
    <2>1. Same(u, Reschedule(u)) /\ Same(v, Reschedule(v))
      BY <1>4, <1>5, RescheduleSame
    <2>2. v.last # "none" => Same(w, Reschedule(w))  BY <1>6, RescheduleSame
    <2>3. Same(t, d)  BY <1>2, <1>3, <1>5, <1>6, <1>8, <2>1, <2>2, SameTrans
    <2>4. QED  BY <2>3, SameFollows DEF d
  <1>9. QED  BY <1>7, <1>8

LEMMA SendGivenUpFollows ==
    ASSUME NEW t, Ordered(t), t.resolving = "attached", NEW c \in Codes
    PROVE  /\ Follows(t, SendGivenUp(t, c))
           /\ t.state # "DESTROYED" => Same(t, SendGivenUp(t, c))
  <1> DEFINE u == [Answered(t) EXCEPT !.transport = FALSE]
             v == [u EXCEPT !.code = c]
             w == [u EXCEPT !.resched = FALSE]
             d == SendGivenUp(t, c)
  <1>1. t \in Tsx  BY DEF Ordered
  <1>2. Same(t, u)  BY <1>1, AnsweredSame
  <1>3. \/ u.pendingDestroy /\ d = Destroy(v)
        \/ d \in {ScheduleR(w), u}
    BY DEF SendGivenUp
  <1> HIDE DEF u, d
  <1>4. u \in Tsx  BY <1>2 DEF Same
  <1>5. Same(u, v) /\ Same(u, w) /\ w \in Tsx  BY <1>4, FieldsSame DEF Same
  <1> HIDE DEF v, w
  <1>6. Same(w, ScheduleR(w))  BY <1>5, TimersSame
  <1>7. CASE u.pendingDestroy /\ d = Destroy(v)
    <2>1. Follows(t, v)  BY <1>2, <1>5, SameTrans, SameFollows
    <2>2. v.state = "DESTROYED" /\ t.state = "DESTROYED"
      BY <1>2, <1>5, <1>7, <2>1 DEF Same, Ordered, Follows
    <2>3. Follows(v, d)  BY <1>7, <2>1, <2>2, DestroyFollows DEF Follows
    <2>4. QED  BY <2>1, <2>2, <2>3, FollowsTrans DEF d
  <1>8. CASE d \in {ScheduleR(w), u}
    <2>1. Same(t, d)  BY <1>2, <1>5, <1>6, <1>8, SameTrans
    <2>2. QED  BY <2>1, SameFollows DEF d
  <1>9. QED  BY <1>3, <1>7, <1>8

LEMMA SendFailedFollows ==
    ASSUME NEW t, Ordered(t), t.resolving = "attached", NEW c \in Codes
    PROVE  /\ Follows(t, SendFailed(t, c))
           /\ t.state # "DESTROYED" /\ t.role = "UAS" /\ c # 502 => Same(t, SendFailed(t, c))
  <1> DEFINE u == [Answered(t) EXCEPT !.transport = FALSE]
  <1>1. t \in Tsx  BY DEF Ordered
  <1>2. Same(t, u)  BY <1>1, AnsweredSame
  <1>3. \/ FailTerminates(t, c) /\ SendFailed(t, c) = Terminate(u, c)
        \/ ~FailTerminates(t, c) /\ SendFailed(t, c) = SendGivenUp(t, c)
    BY DEF SendFailed
  <1> HIDE DEF u
  <1>4. CASE FailTerminates(t, c) /\ SendFailed(t, c) = Terminate(u, c)
    <2>1. t.state # "DESTROYED" /\ (t.role = "UAC" \/ c = 502)
      BY <1>4, Ranks DEF FailTerminates
    <2>2. Follows(t, u) /\ u.state # "DESTROYED"  BY <1>2, <2>1, SameFollows DEF Same
    <2>3. Follows(u, Terminate(u, c))  BY <2>2, TerminateFollows DEF Follows
    <2>4. QED  BY <1>4, <2>1, <2>2, <2>3, FollowsTrans
  <1>5. CASE SendFailed(t, c) = SendGivenUp(t, c) /\ ~FailTerminates(t, c)
    BY <1>5, SendGivenUpFollows
  <1>6. QED  BY <1>3, <1>4, <1>5 DEF SendFailed

LEMMA ResolveFollows ==
    ASSUME NEW t, Ordered(t), NEW o \in Outcome
    PROVE  /\ Follows(t, Resolve(t, o))
           /\ /\ t.state # "DESTROYED"
              /\ o.res \in {"sent", "pending"} \/ (t.role = "UAS" /\ o.res = "fail503")
              => Same(t, Resolve(t, o))
  <1> DEFINE a == [t EXCEPT !.transport = FALSE, !.pending = TRUE,
                            !.resolving = "attached", !.refs = @ + 1]
             e == [t EXCEPT !.transport = FALSE]
  <1>1. t \in Tsx  BY DEF Ordered
  <1>2. a \in Tsx  BY <1>1, RefsInt DEF Tsx
  <1>3. Same(t, a) /\ a.resolving = "attached" /\ a.role = t.role
    BY <1>1, <1>2 DEF Same, Tsx
  <1>4. Same(t, e)  BY <1>1, FieldsSame
  <1>5. /\ o.res = "pending" => Resolve(t, o) = a
        /\ o.res = "sent" => Resolve(t, o) = SendDone(a, o)
        /\ o.res = "fail502" => Resolve(t, o) = SendFailed(a, 502)
        /\ o.res = "fail503" => Resolve(t, o) = SendFailed(a, 503)
        /\ o.res = "error" => Resolve(t, o) = e
    BY DEF Resolve
  <1>6. o.res \in {"sent", "pending", "fail502", "fail503", "error"}  BY DEF Outcome
  <1> HIDE DEF a, e
  <1>7. Follows(t, a) /\ Follows(t, e) /\ Ordered(a)
    BY <1>3, <1>4, SameFollows DEF Follows
  <1>8. 502 \in Codes /\ 503 \in Codes  BY DEF Codes
  <1>9. Follows(a, SendDone(a, o)) /\ Follows(a, SendFailed(a, 502)) /\ Follows(a, SendFailed(a, 503))
    BY <1>3, <1>7, <1>8, SendDoneFollows, SendFailedFollows
  <1>10. Follows(t, Resolve(t, o))
    BY <1>5, <1>6, <1>7, <1>9, FollowsTrans
  <1>11. ASSUME t.state # "DESTROYED",
                o.res \in {"sent", "pending"} \/ (t.role = "UAS" /\ o.res = "fail503")
         PROVE  Same(t, Resolve(t, o))
    <2>1. a.state # "DESTROYED"  BY <1>3, <1>11 DEF Same
    <2>2. Same(a, SendDone(a, o)) /\ (t.role = "UAS" => Same(a, SendFailed(a, 503)))
      BY <1>3, <1>7, <1>8, <2>1, SendDoneFollows, SendFailedFollows
    <2>3. QED  BY <1>3, <1>5, <1>11, <2>2, SameTrans
  <1>12. QED  BY <1>10, <1>11

LEMMA SendMsgFollows ==
    ASSUME NEW t, Ordered(t), t.state # "DESTROYED", NEW m \in Messages, NEW o \in Outcome
    PROVE  /\ Follows(t, SendMsg(t, m, o))
           /\ SendOk(t, m, o) => SendMsg(t, m, o).state = t.state
  <1> DEFINE u == [t EXCEPT !.resend = TRUE]
             v == [t EXCEPT !.transport = FALSE]
             x == SendMsg(t, m, o)
  <1>1. t \in Tsx  BY DEF Ordered
  <1>2. u \in Tsx /\ u.state = t.state /\ u.told = t.told /\ u.pendingDestroy = t.pendingDestroy
    BY <1>1 DEF Tsx
  <1>3. Same(t, v)  BY <1>1, FieldsSame
  <1>4. \/ x = u
        \/ x = t
        \/ x = Transmit(t, m, o.tp)
        \/ ~SendOk(t, m, o) /\ x = Terminate(v, 503)
        \/ /\ x = Resolve(t, o)
           /\ SendOk(t, m, o) => o.res \in {"sent", "pending"} \/ (t.role = "UAS" /\ o.res = "fail503")
    BY DEF SendMsg, SendOk
  <1> HIDE DEF u, v, x
  <1>5. CASE x = u
    <2>1. Follows(t, u)  BY <1>1, <1>2, RankOf DEF Follows, Ordered
    <2>2. QED  BY <1>2, <1>5, <2>1 DEF x
  <1>6. CASE x = t
    BY <1>6, FollowsRefl DEF x
  <1>7. CASE x = Transmit(t, m, o.tp)
    <2>1. Same(t, x)  BY <1>1, <1>7, TransmitSame
    <2>2. QED  BY <2>1, SameFollows DEF Same, x
  <1>8. CASE ~SendOk(t, m, o) /\ x = Terminate(v, 503)
    <2>1. Follows(t, v) /\ v.state # "DESTROYED"  BY <1>3, SameFollows DEF Same
    <2>2. Follows(v, Terminate(v, 503))  BY <2>1, TerminateFollows DEF Follows, Codes
    <2>3. QED  BY <1>8, <2>1, <2>2, FollowsTrans DEF x
  <1>9. CASE /\ x = Resolve(t, o)
             /\ SendOk(t, m, o) => o.res \in {"sent", "pending"} \/ (t.role = "UAS" /\ o.res = "fail503")
    BY <1>9, ResolveFollows DEF Same, x
  <1>10. QED  BY <1>4, <1>5, <1>6, <1>7, <1>8, <1>9

LEMMA RetransmitFollows ==
    ASSUME NEW t, Ordered(t), t.state # "DESTROYED", NEW again \in BOOLEAN, NEW o \in Outcome
    PROVE  Follows(t, Retransmit(t, again, o))
  <1>1. CASE (again /\ t.rtimer) \/ t.last = "none"
    BY <1>1, FollowsRefl DEF Retransmit
  <1>2. CASE ~((again /\ t.rtimer) \/ t.last = "none")
    <2> DEFINE u == IF again THEN ArmR(t) ELSE t
    <2>1. t \in Tsx  BY DEF Ordered
    <2>2. Same(t, u)  BY <2>1, SameRefl, TimersSame
    <2>3. Retransmit(t, again, o) = SendMsg(u, t.last, o)  BY <1>2 DEF Retransmit
    <2> HIDE DEF u
    <2>4. Follows(t, u) /\ Ordered(u) /\ u.state # "DESTROYED"
      BY <2>2, SameFollows DEF Same, Follows
    <2>5. t.last \in Messages  BY <1>2, <2>1, LastTyped
    <2>6. Follows(u, SendMsg(u, t.last, o))  BY <2>4, <2>5, SendMsgFollows
    <2>7. QED  BY <2>3, <2>4, <2>6, FollowsTrans
  <1>3. QED  BY <1>1, <1>2

-------------------------------------------------------------------------------
(* The handlers go forward.                                                *)

\* tsx_set_state after operations that are not about the state.
LEMMA EnterAfter ==
    ASSUME NEW t, NEW u, Ordered(t), Follows(t, u), NEW s \in States, s # "DESTROYED",
           Rank[u.state] <= Rank[s]
    PROVE  Follows(t, Enter(u, s))
  <1>1. Ordered(u)  BY DEF Follows
  <1>2. Follows(u, Enter(u, s))  BY <1>1, EnterFollows
  <1>3. QED  BY <1>2, FollowsTrans

\* One operation more.
LEMMA SameAfter ==
    ASSUME NEW t, NEW u, NEW v, Ordered(t), Follows(t, u), Same(u, v)
    PROVE  Follows(t, v) /\ v.state = u.state
  <1>1. Follows(u, v)  BY SameFollows DEF Follows
  <1>2. QED  BY <1>1, FollowsTrans DEF Same

LEMMA SendRequestFollows ==
    ASSUME NEW t, Ordered(t), t.state = "NULL", NEW o \in Outcome
    PROVE  Follows(t, SendRequest(t, o))
  <1> DEFINE s == [t EXCEPT !.last = "request"]
             u == SendMsg(s, "request", o)
             v == ResetT(u, "timeout")
             w == IF v.reliable THEN v ELSE ArmR(v)
  <1>1. t \in Tsx /\ "request" \in Messages  BY DEF Ordered, Messages
  <1>2. \/ SendRequest(t, o) = u
        \/ SendOk(t, "request", o) /\ SendRequest(t, o) = Enter(w, "CALLING")
    BY DEF SendRequest
  <1>3. Same(t, s)  BY <1>1, FieldsSame
  <1>4. SendOk(s, "request", o) <=> SendOk(t, "request", o)
    BY <1>1 DEF SendOk, Tsx
  <1> HIDE DEF s
  <1>5. Follows(t, s) /\ s.state = "NULL"  BY <1>3, SameFollows DEF Same
  <1>6. Ordered(s)  BY <1>5 DEF Follows
  <1>7. Follows(s, u) /\ (SendOk(t, "request", o) => u.state = "NULL")
    BY <1>1, <1>4, <1>5, <1>6, SendMsgFollows
  <1> HIDE DEF u
  <1>8. Follows(t, u) /\ u \in Tsx
    BY <1>5, <1>7, FollowsTrans DEF Follows, Ordered
  <1>9. Same(u, v) /\ v \in Tsx  BY <1>8, TimersSame DEF TimerIds, Same
  <1> HIDE DEF v
  <1>10. Same(v, w)  BY <1>9, SameRefl, TimersSame
  <1> HIDE DEF w
  <1>11. Follows(t, w) /\ w.state = u.state  BY <1>8, <1>9, <1>10, SameAfter
  <1>12. ASSUME SendOk(t, "request", o) PROVE Follows(t, Enter(w, "CALLING"))
    <2>1. Rank[w.state] <= Rank["CALLING"] /\ "CALLING" \in States
      BY <1>7, <1>11, <1>12, Ranks DEF States
    <2>2. QED  BY <1>11, <2>1, EnterAfter
  <1>13. QED  BY <1>2, <1>8, <1>12

LEMMA RespondFollows ==
    ASSUME NEW t, Ordered(t), t.state \in {"TRYING", "PROCEEDING"},
           NEW c \in Codes, NEW o \in Outcome
    PROVE  Follows(t, Respond(t, c, o))
  <1> DEFINE r == [t EXCEPT !.code = c]
             s == [t EXCEPT !.code = c, !.last = "none"]
             u == SendMsg(s, "response", o)
             v == [u EXCEPT !.last = "response"]
             w == CancelR(v)
             p == Enter(w, "PROCEEDING")
             x == IF t.method = "INVITE" /\ (c = 200 \/ ~w.reliable) THEN ArmR(w) ELSE w
             y == ResetT(x, "timeout")
  <1>1. t \in Tsx /\ {"response", "none"} \subseteq Messages \cup {"none"} /\ "response" \in Messages
    BY DEF Ordered, Messages
  <1>2. \/ Respond(t, c, o) = u
        \/ /\ SendOk(t, "response", o)
           /\ Respond(t, c, o) \in {Enter(v, "PROCEEDING"), ArmR(p), Enter(y, "COMPLETED")}
    BY DEF Respond
  <1>3. Same(t, s)
    <2>1. s = [r EXCEPT !.last = "none"]  BY <1>1 DEF Tsx
    <2>2. Same(t, r) /\ r \in Tsx  BY <1>1, FieldsSame DEF Same
    <2> HIDE DEF r, s
    <2>3. Same(r, s)  BY <1>1, <2>1, <2>2, FieldsSame
    <2>4. QED  BY <2>2, <2>3, SameTrans
  <1>4. SendOk(s, "response", o) <=> SendOk(t, "response", o)
    BY <1>1 DEF SendOk, Tsx
  <1> HIDE DEF s
  <1>5. Follows(t, s) /\ s.state = t.state  BY <1>3, SameFollows DEF Same
  <1>6. Ordered(s)  BY <1>5 DEF Follows
  <1>7. Follows(s, u) /\ (SendOk(t, "response", o) => u.state = t.state)
    BY <1>1, <1>4, <1>5, <1>6, SendMsgFollows
  <1> HIDE DEF u
  <1>8. Follows(t, u) /\ u \in Tsx
    BY <1>5, <1>7, FollowsTrans DEF Follows, Ordered
  <1>9. Same(u, v) /\ v \in Tsx  BY <1>1, <1>8, FieldsSame DEF Same
  <1> HIDE DEF v
  <1>10. Same(v, w) /\ w \in Tsx  BY <1>9, TimersSame DEF Same
  <1> HIDE DEF w
  <1>11. Same(w, x) /\ x \in Tsx  BY <1>10, SameRefl, TimersSame DEF Same
  <1> HIDE DEF x
  <1>12. Same(x, y)  BY <1>11, TimersSame DEF TimerIds
  <1> HIDE DEF y
  <1>13. Follows(t, v) /\ v.state = u.state  BY <1>8, <1>9, SameAfter
  <1>14. Follows(t, w) /\ w.state = u.state  BY <1>10, <1>13, SameAfter
  <1>15. Follows(t, y) /\ y.state = u.state
    <2>1. Follows(t, x) /\ x.state = u.state  BY <1>11, <1>14, SameAfter
    <2>2. QED  BY <1>12, <2>1, SameAfter
  <1>16. CASE SendOk(t, "response", o)
    <2>1. /\ Rank[u.state] <= Rank["PROCEEDING"] /\ Rank[u.state] <= Rank["COMPLETED"]
          /\ "PROCEEDING" \in States /\ "COMPLETED" \in States
      BY <1>7, <1>16, Ranks DEF States
    <2>2. Follows(t, Enter(v, "PROCEEDING")) /\ Follows(t, p) /\ Follows(t, Enter(y, "COMPLETED"))
      BY <1>13, <1>14, <1>15, <2>1, EnterAfter
    <2> HIDE DEF p
    <2>3. Same(p, ArmR(p))  BY <2>2, TimersSame DEF Follows, Ordered
    <2>4. Follows(t, ArmR(p))  BY <2>2, <2>3, SameAfter
    <2>5. QED  BY <1>2, <1>8, <2>2, <2>4
  <1>17. QED  BY <1>2, <1>8, <1>16

LEMMA ReceiveAgainFollows ==
    ASSUME NEW t, Ordered(t), t.state # "DESTROYED", NEW o \in Outcome
    PROVE  Follows(t, ReceiveAgain(t, o))
  <1>1. t.last # "none" => t.last \in Messages  BY LastTyped DEF Ordered
  <1>2. QED  BY <1>1, FollowsRefl, SendMsgFollows, RetransmitFollows DEF ReceiveAgain

LEMMA ReceiveAckFollows ==
    ASSUME NEW t, Ordered(t)
    PROVE  Follows(t, ReceiveAck(t))
  <1> DEFINE u == CancelR(t)
             v == [u EXCEPT !.resched = FALSE]
             w == ResetT(v, "timeout")
  <1>1. t \in Tsx  BY DEF Ordered
  <1>2. ReceiveAck(t) = IF t.state = "COMPLETED" THEN Enter(w, "CONFIRMED") ELSE t
    BY DEF ReceiveAck
  <1>3. Same(t, u) /\ u \in Tsx  BY <1>1, TimersSame DEF Same
  <1> HIDE DEF u
  <1>4. Same(u, v) /\ v \in Tsx  BY <1>3, FieldsSame DEF Same
  <1> HIDE DEF v
  <1>5. Same(v, w)  BY <1>4, TimersSame DEF TimerIds
  <1> HIDE DEF w
  <1>6. Same(t, w)  BY <1>3, <1>4, <1>5, SameTrans
  <1>7. Follows(t, w) /\ w.state = t.state  BY <1>6, SameFollows DEF Same
  <1>8. CASE t.state = "COMPLETED"
    <2>1. Rank[w.state] <= Rank["CONFIRMED"] /\ "CONFIRMED" \in States
      BY <1>7, <1>8, Ranks DEF States
    <2>2. QED  BY <1>2, <1>7, <1>8, <2>1, EnterAfter
  <1>9. QED  BY <1>2, <1>8, FollowsRefl

LEMMA ReceiveFirstSame ==
    ASSUME NEW t \in Tsx, NEW c \in Codes
    PROVE  Same(t, ReceiveFirst(t, c))
  <1> DEFINE u == CancelR(t)
             v == IF c >= 200 THEN (IF u.tid # "none" THEN CancelT(u) ELSE u)
                  ELSE IF u.method = "INVITE" THEN CancelT(u)
                  ELSE IF u.reliable THEN u ELSE ScheduleR(u)
  <1>1. ReceiveFirst(t, c) = [v EXCEPT !.resched = FALSE]  BY DEF ReceiveFirst
  <1>2. Same(t, u) /\ u \in Tsx  BY TimersSame DEF Same
  <1> HIDE DEF u
  <1>3. Same(u, v)  BY <1>2, SameRefl, TimersSame
  <1> HIDE DEF v
  <1>4. Same(v, [v EXCEPT !.resched = FALSE])  BY <1>3, FieldsSame DEF Same
  <1>5. QED  BY <1>1, <1>2, <1>3, <1>4, SameTrans

LEMMA ReceiveProceedingFollows ==
    ASSUME NEW t, Ordered(t), t.state \in {"CALLING", "PROCEEDING"},
           NEW c \in Codes, NEW o \in Outcome
    PROVE  Follows(t, ReceiveProceeding(t, c, o))
  <1> DEFINE u == [t EXCEPT !.code = c]
             k == CancelT(u)
             n == CancelR(u)
             v == CancelT(n)
             w == SendMsg(v, "ack", o)
             x == ScheduleT(k, "timeout")
             y == CancelR(x)
             z == Enter(w, "COMPLETED")
             a == [z EXCEPT !.last = "ack"]
             b == Enter(v, "COMPLETED")
  <1>1. \/ ReceiveProceeding(t, c, o) \in
              {Enter(u, "PROCEEDING"), Terminate(k, c), Enter(y, "COMPLETED"), w,
               Terminate(v, c), ResetT(b, "timeout")}
        \/ SendOk(v, "ack", o) /\ ReceiveProceeding(t, c, o) = ResetT(a, "timeout")
    BY DEF ReceiveProceeding
  <1>2. t \in Tsx /\ "timeout" \in TimerIds /\ "ack" \in Messages
    BY DEF Ordered, TimerIds, Messages
  <1>3. /\ {"PROCEEDING", "COMPLETED"} \subseteq States
        /\ Rank[t.state] <= Rank["PROCEEDING"] /\ Rank[t.state] <= Rank["COMPLETED"]
    BY Ranks DEF States
  <1>4. Same(t, u) /\ u \in Tsx  BY <1>2, FieldsSame DEF Same
  <1> HIDE DEF u
  <1>5. Same(u, k) /\ k \in Tsx /\ Same(u, n) /\ n \in Tsx  BY <1>4, TimersSame DEF Same
  <1> HIDE DEF k, n
  <1>6. Same(n, v) /\ v \in Tsx /\ Same(k, x) /\ x \in Tsx  BY <1>2, <1>5, TimersSame DEF Same
  <1> HIDE DEF v, x
  <1>7. Same(x, y)  BY <1>6, TimersSame
  <1> HIDE DEF y
  <1>8. Same(t, k) /\ Same(t, v) /\ Same(t, y)  BY <1>4, <1>5, <1>6, <1>7, SameTrans
  <1>9. /\ Follows(t, u) /\ u.state = t.state /\ Follows(t, k) /\ k.state = t.state
        /\ Follows(t, v) /\ v.state = t.state /\ Follows(t, y) /\ y.state = t.state
    BY <1>4, <1>8, SameFollows DEF Same
  <1>10. Ordered(k) /\ Ordered(v)  BY <1>9 DEF Follows
  <1>11. Follows(t, Enter(u, "PROCEEDING")) /\ Follows(t, Enter(y, "COMPLETED")) /\ Follows(t, b)
    BY <1>3, <1>9, EnterAfter
  <1>12. Follows(t, Terminate(k, c)) /\ Follows(t, Terminate(v, c))
    <2>1. Follows(k, Terminate(k, c)) /\ Follows(v, Terminate(v, c))
      BY <1>9, <1>10, TerminateFollows
    <2>2. QED  BY <1>9, <2>1, FollowsTrans
  <1>13. Follows(v, w) /\ (SendOk(v, "ack", o) => w.state = t.state)
    BY <1>2, <1>9, <1>10, SendMsgFollows
  <1> HIDE DEF w, b
  <1>14. Follows(t, w)  BY <1>9, <1>13, FollowsTrans
  <1>15. Follows(t, ResetT(b, "timeout"))
    <2>1. Same(b, ResetT(b, "timeout"))  BY <1>2, <1>11, TimersSame DEF Follows, Ordered
    <2>2. QED  BY <1>11, <2>1, SameAfter
  <1>16. ASSUME SendOk(v, "ack", o) PROVE Follows(t, ResetT(a, "timeout"))
    <2>1. Follows(t, z)  BY <1>3, <1>13, <1>14, <1>16, EnterAfter
    <2> HIDE DEF z
    <2>2. Same(z, a)  BY <1>2, <2>1, FieldsSame DEF Follows, Ordered
    <2> HIDE DEF a
    <2>3. Same(a, ResetT(a, "timeout"))  BY <1>2, <2>2, TimersSame DEF Same
    <2>4. Same(z, ResetT(a, "timeout"))  BY <2>2, <2>3, SameTrans
    <2>5. QED  BY <2>1, <2>4, SameAfter
  <1>17. QED  BY <1>1, <1>11, <1>12, <1>14, <1>15, <1>16

LEMMA ReceiveResponseFollows ==
    ASSUME NEW t, Ordered(t), NEW c \in Codes, NEW o \in Outcome
    PROVE  Follows(t, ReceiveResponse(t, c, o))
  <1> DEFINE u == ReceiveFirst(t, c)
  <1>1. t \in Tsx  BY DEF Ordered
  <1>2. Same(t, u)  BY <1>1, ReceiveFirstSame
  <1>3. /\ t.state = "CALLING" => ReceiveResponse(t, c, o) = ReceiveProceeding(u, c, o)
        /\ t.state = "PROCEEDING" => ReceiveResponse(t, c, o) = ReceiveProceeding(t, c, o)
        /\ t.state = "COMPLETED" => ReceiveResponse(t, c, o) \in {Retransmit(t, FALSE, o), t}
        /\ t.state \notin {"CALLING", "PROCEEDING", "COMPLETED"} => ReceiveResponse(t, c, o) = t
    BY DEF ReceiveResponse
  <1> HIDE DEF u
  <1>4. Follows(t, u) /\ Ordered(u) /\ u.state = t.state  BY <1>2, SameFollows DEF Same, Follows
  <1>5. CASE t.state = "CALLING"
    <2>1. Follows(u, ReceiveProceeding(u, c, o))  BY <1>4, <1>5, ReceiveProceedingFollows
    <2>2. QED  BY <1>3, <1>4, <1>5, <2>1, FollowsTrans
  <1>6. CASE t.state = "PROCEEDING"
    BY <1>3, <1>6, ReceiveProceedingFollows
  <1>7. CASE t.state = "COMPLETED"
    BY <1>3, <1>7, RetransmitFollows, FollowsRefl
  <1>8. QED  BY <1>3, <1>5, <1>6, <1>7, FollowsRefl

LEMMA RetransmitTimerFollows ==
    ASSUME NEW t, Ordered(t), NEW o \in Outcome, t.state # "TERMINATED"
    PROVE  Follows(t, RetransmitTimer(t, o))
  BY FollowsRefl, RetransmitFollows DEF RetransmitTimer

LEMMA TimeoutTimerFollows ==
    ASSUME NEW t, Ordered(t), TimesOut(t)
    PROVE  Follows(t, TimeoutTimer(t))
  <1> DEFINE r == CancelR(t)
             u == IF t.state = "CALLING" THEN [r EXCEPT !.resched = FALSE] ELSE t
             v == IF \/ t.state \in {"CALLING", "PROCEEDING"}
                     \/ t.state = "COMPLETED" /\ t.role = "UAS" /\ t.method = "INVITE"
                  THEN [u EXCEPT !.code = 408] ELSE u
  <1>1. t \in Tsx  BY DEF Ordered
  <1>2. TimeoutTimer(t) = Enter(v, "TERMINATED")  BY DEF TimeoutTimer
  <1>3. Same(t, r) /\ r \in Tsx  BY <1>1, TimersSame DEF Same
  <1> HIDE DEF r
  <1>4. Same(r, [r EXCEPT !.resched = FALSE])  BY <1>3, FieldsSame
  <1>5. Same(t, u) /\ u \in Tsx  BY <1>1, <1>3, <1>4, SameRefl, SameTrans DEF Same
  <1> HIDE DEF u
  <1>6. 408 \in Codes  BY DEF Codes
  <1>7. Same(u, u) /\ Same(u, [u EXCEPT !.code = 408])  BY <1>5, <1>6, SameRefl, FieldsSame, ZenonT(60)
  <1>8. Same(u, v)  BY <1>7
  <1> HIDE DEF v
  <1>9. Follows(t, v) /\ v.state = t.state  BY <1>5, <1>8, SameTrans, SameFollows DEF Same
  <1>10. Rank[v.state] <= Rank["TERMINATED"] /\ "TERMINATED" \in States
    BY <1>9, Ranks DEF TimesOut, States
  <1>11. QED  BY <1>2, <1>9, <1>10, EnterAfter

-------------------------------------------------------------------------------
(* One worker thread.                                                      *)

\* The only thread that polls is in one place.  From the test of the state before it waits
\* for the lock to the end of a transport error nobody else destroys the transaction, and only
\* inside tsx_set_state may a destroyed transaction still have a message to send again.
ToldInv ==
    /\ busy \in Bag /\ All(busy) <= 1
    /\ Ordered(tsx)
    /\ busy["lockErr"] > 0 \/ busy["lockDisc"] > 0 => tsx.state # "DESTROYED"
    /\ busy["transportErr"] > 0 => tsx.state = "TERMINATED"
    /\ busy["destroyed"] > 0 => tsx.state = "DESTROYED"
    /\ tsx.state = "DESTROYED" /\ tsx.resend => busy["destroyed"] > 0

Advances == Rank[tsx.state] <= Rank[tsx'.state] /\ Rank[tsx.told] <= Rank[tsx'.told]

\* Nothing is unfinished; what is unfinished is x.
Idle(b) == b \in Bag /\ All(b) <= 1 /\ \A y \in Tails : b[y] = 0

At(b, x) == b \in Bag /\ All(b) <= 1 /\ \A y \in Tails : b[y] > 0 <=> y = x

\* With one thread whoever begins finds nothing unfinished.
LEMMA WorkerAlone ==
    ASSUME Workers = 1, ToldInv, Worker
    PROVE  Idle(busy)
  <1>1. busy \in Bag /\ All(busy) < 1  BY Moves DEF ToldInv
  <1>2. \A y \in Tails : busy[y] \in Nat /\ busy[y] <= All(busy) /\ All(busy) \in Nat
    BY <1>1, WorkingNat
  <1>3. QED  BY <1>1, <1>2 DEF Idle, ToldInv

LEMMA AloneAt ==
    ASSUME ToldInv, NEW x \in Tails, busy[x] > 0
    PROVE  At(busy, x) /\ Idle(Down(busy, x)) /\ All(Down(busy, x)) = 0
  <1> DEFINE c == Down(busy, x)
  <1>1. busy \in Bag /\ All(busy) <= 1 /\ All(busy) \in Nat  BY WorkingNat DEF ToldInv
  <1>2. /\ c \in Bag /\ All(c) = All(busy) - 1
        /\ \A y \in Tails : c[y] = IF y = x THEN busy[y] - 1 ELSE busy[y]
    BY <1>1, Done
  <1> HIDE DEF c
  <1>3. All(c) \in Nat /\ \A y \in Tails : c[y] \in Nat /\ c[y] <= All(c)
    BY <1>2, WorkingNat
  <1>4. All(c) = 0 /\ \A y \in Tails : c[y] = 0  BY <1>1, <1>2, <1>3
  <1>5. \A y \in Tails : busy[y] > 0 <=> y = x  BY <1>1, <1>2, <1>4 DEF Bag
  <1>6. QED  BY <1>1, <1>2, <1>4, <1>5 DEF c, Idle, At

LEMMA ThenAt ==
    ASSUME NEW b, Idle(b), All(b) = 0, NEW x \in Tails
    PROVE  At(Up(b, x), x)
  <1>1. /\ Up(b, x) \in Bag /\ All(Up(b, x)) = All(b) + 1
        /\ \A y \in Tails : Up(b, x)[y] = IF y = x THEN b[y] + 1 ELSE b[y]
    BY Begun DEF Idle
  <1>2. QED  BY <1>1 DEF Idle, At

\* Where the thread is once it has begun, gone on or ended.
LEMMA BeginAt ==
    ASSUME Workers = 1, ToldInv, Worker, NEW x \in Tails, Begins(x)
    PROVE  Idle(busy) /\ At(busy', x)
  <1>1. Idle(busy)  BY WorkerAlone
  <1>2. All(busy) = 0  BY Moves, WorkingNat DEF ToldInv
  <1>3. busy' = Up(busy, x)  BY Moves
  <1>4. QED  BY <1>1, <1>2, <1>3, ThenAt

LEMMA GoesOnAt ==
    ASSUME ToldInv, NEW x \in Tails, busy[x] > 0, NEW y \in Tails, x # y, GoesOn(x, y)
    PROVE  At(busy, x) /\ At(busy', y)
  <1>1. At(busy, x) /\ Idle(Down(busy, x)) /\ All(Down(busy, x)) = 0  BY AloneAt
  <1>2. busy' = Up(Down(busy, x), y)  BY MovesOn DEF ToldInv
  <1>3. QED  BY <1>1, <1>2, ThenAt

LEMMA EndsIdle ==
    ASSUME ToldInv, NEW x \in Tails, busy[x] > 0, Ends(x)
    PROVE  At(busy, x) /\ Idle(busy')
  BY AloneAt, Moves

\* The shape of most steps: of a thread that goes on or ends, ...
LEMMA OnwardAt ==
    ASSUME ToldInv, Follows(tsx, tsx'), ~(busy["destroyed"] > 0),
           \/ Idle(busy')
           \/ \E x \in Tails \ {"destroyed", "transportErr"} :
                 /\ At(busy', x)
                 /\ x \in {"lockErr", "lockDisc"} => tsx'.state # "DESTROYED"
    PROVE  ToldInv' /\ Advances
  <1>1. Ordered(tsx') /\ Advances  BY DEF Follows, Advances
  <1>2. ~(tsx'.state = "DESTROYED" /\ tsx'.resend)  BY DEF Follows, ToldInv
  <1>3. {"lockErr", "lockDisc", "transportErr", "destroyed"} \subseteq Tails  BY DEF Tails
  <1>4. busy' \in Bag /\ All(busy') <= 1  BY DEF Idle, At
  <1>5. /\ ~(busy'["transportErr"] > 0) /\ ~(busy'["destroyed"] > 0)
        /\ busy'["lockErr"] > 0 \/ busy'["lockDisc"] > 0 => tsx'.state # "DESTROYED"
    BY <1>3 DEF Idle, At
  <1>6. QED  BY <1>1, <1>2, <1>4, <1>5 DEF ToldInv

\* ... and of one that leaves the unfinished work as it is.
LEMMA OnwardSame ==
    ASSUME ToldInv, Follows(tsx, tsx'), busy' = busy,
           busy["transportErr"] > 0 => tsx'.state = tsx.state
    PROVE  ToldInv' /\ Advances
  <1>1. Ordered(tsx') /\ Advances  BY DEF Follows, Advances
  <1>2. tsx'.state = "DESTROYED" /\ tsx'.resend => busy'["destroyed"] > 0
    BY DEF Follows, ToldInv
  <1>3. ASSUME busy["destroyed"] > 0 PROVE tsx'.state = "DESTROYED"
    <2>1. tsx.state = "DESTROYED"  BY <1>3 DEF ToldInv
    <2>2. tsx'.state \in States  BY <1>1 DEF Ordered, Tsx
    <2>3. Rank[tsx'.state] \in 0 .. 7 /\ Rank[tsx'.state] >= 7  BY <1>1, <2>1, <2>2, Ranks DEF Advances
    <2>4. QED  BY <2>2, <2>3, Ranks
  <1>4. tsx'.state = "DESTROYED" => tsx.state = "DESTROYED"  BY DEF Follows
  <1>5. QED  BY <1>1, <1>2, <1>3, <1>4 DEF ToldInv

\* A step of a thread that has nothing unfinished, or of the user, before the end.
LEMMA OnwardIdle ==
    ASSUME ToldInv, Follows(tsx, tsx'), busy' = busy,
           Idle(busy) \/ tsx.state # "TERMINATED"
    PROVE  ToldInv' /\ Advances
  <1>1. ~(busy["transportErr"] > 0)  BY DEF ToldInv, Idle, Tails
  <1>2. QED  BY <1>1, OnwardSame

\* The end of what the thread was at, or of its first part.
LEMMA OnwardEnd ==
    ASSUME ToldInv, Follows(tsx, tsx'), NEW x \in Tails, busy[x] > 0, x # "destroyed", Ends(x)
    PROVE  ToldInv' /\ Advances
  <1>1. At(busy, x) /\ Idle(busy')  BY EndsIdle
  <1>2. ~(busy["destroyed"] > 0)  BY <1>1 DEF At, Tails
  <1>3. QED  BY <1>1, <1>2, OnwardAt

LEMMA OnwardOn ==
    ASSUME ToldInv, Follows(tsx, tsx'), NEW x \in Tails, busy[x] > 0, x # "destroyed",
           NEW y \in Tails \ {"destroyed", "transportErr"}, x # y, GoesOn(x, y),
           y \in {"lockErr", "lockDisc"} => tsx'.state # "DESTROYED"
    PROVE  ToldInv' /\ Advances
  <1>1. At(busy, x) /\ At(busy', y)  BY GoesOnAt
  <1>2. ~(busy["destroyed"] > 0)  BY <1>1 DEF At, Tails
  <1>3. QED  BY <1>1, <1>2, OnwardAt

LEMMA UserStepTold ==
    ASSUME ToldInv, UserStep
    PROVE  ToldInv' /\ Advances
  <1>1. Ordered(tsx) /\ tsx \in Tsx  BY DEF ToldInv, Ordered
  <1>2. CASE \E o \in Outcome : TuSendRequest(o)
    <2>1. PICK o \in Outcome : TuSendRequest(o)  BY <1>2
    <2>2. Follows(tsx, tsx') /\ busy' = busy /\ tsx.state # "TERMINATED"
      BY <1>1, <2>1, SendRequestFollows DEF TuSendRequest
    <2>3. QED  BY <2>2, OnwardIdle
  <1>3. CASE \E o \in Outcome : \E c \in {100, 180, 200, 300} : TuRespond(c, o)
    <2>1. PICK o \in Outcome, c \in {100, 180, 200, 300} : TuRespond(c, o)  BY <1>3
    <2>2. c \in Codes  BY DEF Codes
    <2>3. Follows(tsx, tsx') /\ busy' = busy /\ tsx.state # "TERMINATED"
      BY <1>1, <2>1, <2>2, RespondFollows DEF TuRespond
    <2>4. QED  BY <2>3, OnwardIdle
  <1>4. CASE \E c \in {200, 300} : TuTerminate(c)
    <2>1. PICK c \in {200, 300} : TuTerminate(c)  BY <1>4
    <2>2. c \in Codes  BY DEF Codes
    <2>3. tsx.state \notin {"TERMINATED", "DESTROYED"}  BY <2>1, Ranks DEF TuTerminate, Running
    <2>4. Follows(tsx, tsx') /\ busy' = busy
      BY <1>1, <2>1, <2>2, <2>3, TerminateFollows DEF TuTerminate
    <2>5. QED  BY <2>3, <2>4, OnwardIdle
  <1>5. CASE TuSetTimeout
    <2>1. Same(tsx, tsx') /\ busy' = busy  BY <1>1, <1>5, TimersSame DEF TuSetTimeout, TimerIds
    <2>2. Follows(tsx, tsx') /\ tsx'.state = tsx.state  BY <1>1, <2>1, SameFollows DEF Same
    <2>3. QED  BY <2>1, <2>2, OnwardSame
  <1>6. QED  BY <1>2, <1>3, <1>4, <1>5 DEF UserStep

LEMMA ReceiveTold ==
    ASSUME Workers = 1, ToldInv, Receive
    PROVE  ToldInv' /\ Advances
  <1>1. Ordered(tsx) /\ tsx \in Tsx  BY DEF ToldInv, Ordered
  <1>2. Idle(busy) /\ busy' = busy
    <2>1. Worker /\ busy' = busy
      BY DEF Receive, Accept, RxAck, AckTerminates, RxRequest, RxResponse
    <2>2. QED  BY <2>1, WorkerAlone
  <1>3. CASE Accept
    <2>1. Rank[tsx.state] <= Rank["TRYING"] /\ "TRYING" \in States  BY <1>3, Ranks DEF Accept, States
    <2>2. Follows(tsx, tsx')  BY <1>1, <1>3, <2>1, EnterFollows DEF Accept
    <2>3. QED  BY <1>2, <2>2, OnwardIdle
  <1>4. CASE RxAck
    <2>1. Follows(tsx, tsx')  BY <1>1, <1>4, ReceiveAckFollows DEF RxAck
    <2>2. QED  BY <1>2, <2>1, OnwardIdle
  <1>5. CASE AckTerminates
    <2>1. Same(tsx, tsx')  BY <1>1, <1>5, TimersSame DEF AckTerminates, TimerIds
    <2>2. QED  BY <1>1, <1>2, <2>1, SameFollows, OnwardIdle
  <1>6. CASE \E o \in Outcome : RxRequest(o)
    <2>1. PICK o \in Outcome : RxRequest(o)  BY <1>6
    <2>2. tsx.state # "DESTROYED"  BY <2>1, Ranks DEF RxRequest, Running
    <2>3. Follows(tsx, tsx')  BY <1>1, <2>1, <2>2, ReceiveAgainFollows DEF RxRequest
    <2>4. QED  BY <1>2, <2>3, OnwardIdle
  <1>7. CASE \E o \in Outcome : \E c \in {100, 180, 200, 300, 408} : RxResponse(c, o)
    <2>1. PICK o \in Outcome, c \in {100, 180, 200, 300, 408} : RxResponse(c, o)  BY <1>7
    <2>2. c \in Codes  BY DEF Codes
    <2>3. Follows(tsx, tsx')  BY <1>1, <2>1, <2>2, ReceiveResponseFollows DEF RxResponse
    <2>4. QED  BY <1>2, <2>3, OnwardIdle
  <1>8. QED  BY <1>3, <1>4, <1>5, <1>6, <1>7 DEF Receive

LEMMA PopTold ==
    ASSUME Workers = 1, ToldInv, PopRetransmit \/ PopTimeout
    PROVE  ToldInv' /\ Advances
  <1>1. Ordered(tsx) /\ tsx \in Tsx  BY DEF ToldInv, Ordered
  <1>2. PICK x \in {"popR", "popT"} : Worker /\ Begins(x)  BY DEF PopRetransmit, PopTimeout
  <1>3. x \in Tails \ {"destroyed", "transportErr"} /\ x \notin {"lockErr", "lockDisc"}  BY DEF Tails
  <1>4. Idle(busy) /\ At(busy', x)  BY <1>2, <1>3, BeginAt
  <1>5. Same(tsx, tsx')
    <2>1. CASE PopRetransmit
      <3>1. tsx' = [tsx EXCEPT !.rtimer = FALSE]  BY <2>1 DEF PopRetransmit
      <3>2. tsx' \in Tsx  BY <1>1, <3>1 DEF Tsx
      <3>3. QED  BY <1>1, <3>1, <3>2 DEF Same, Tsx
    <2>2. CASE PopTimeout
      <3>1. tsx' = [tsx EXCEPT !.ttimer = FALSE]  BY <2>2 DEF PopTimeout
      <3>2. tsx' \in Tsx  BY <1>1, <3>1 DEF Tsx
      <3>3. QED  BY <1>1, <3>1, <3>2 DEF Same, Tsx
    <2>3. QED  BY <2>1, <2>2
  <1>6. Follows(tsx, tsx')  BY <1>1, <1>5, SameFollows
  <1>7. ~(busy["destroyed"] > 0)  BY <1>4 DEF Idle, Tails
  <1>8. QED  BY <1>3, <1>4, <1>6, <1>7, OnwardAt

\* A transport error under the lock: the state was not DESTROYED when it was tested, and still
\* is not.
LEMMA TransportFailedTold ==
    ASSUME ToldInv, NEW w \in {"lockErr", "lockDisc"}, TransportFailed(w)
    PROVE  ToldInv' /\ Advances
  <1> DEFINE c == IF tsx.code < 200 THEN 503 ELSE tsx.code
             x == [tsx EXCEPT !.transport = FALSE, !.state = "TERMINATED", !.code = c]
             y == CancelT(Detach(x))
  <1>1. Ordered(tsx) /\ tsx \in Tsx /\ busy[w] > 0 /\ tsx.state # "DESTROYED"
    BY DEF ToldInv, Ordered, TransportFailed
  <1>2. tsx' = y /\ GoesOn(w, "transportErr")  BY DEF TransportFailed
  <1>3. c \in Codes
    <2>1. tsx.code \in Codes /\ 503 \in Codes  BY <1>1 DEF Tsx, Codes
    <2>2. QED  BY <2>1, ZenonT(60)
  <1> HIDE DEF c
  <1>4. x \in Tsx /\ x.state = "TERMINATED" /\ x.told = tsx.told /\ x.pendingDestroy = tsx.pendingDestroy
    <2>1. "TERMINATED" \in States  BY DEF States
    <2>2. QED  BY <1>1, <1>3, <2>1 DEF Tsx
  <1> HIDE DEF x
  <1>5. Same(x, Detach(x)) /\ Detach(x) \in Tsx  BY <1>4, TerminatedSame DEF Same
  <1>6. Same(Detach(x), y)  BY <1>5, TimersSame
  <1>7. Same(x, tsx')  BY <1>2, <1>5, <1>6, SameTrans
  <1>8. /\ tsx' \in Tsx /\ tsx'.state = "TERMINATED" /\ tsx'.told = tsx.told
        /\ tsx'.pendingDestroy = tsx.pendingDestroy
    BY <1>4, <1>7 DEF Same
  <1>9. Rank["TERMINATED"] = 6 /\ Rank[tsx.state] \in 0 .. 6
    BY <1>1, Ranks, RankOf
  <1>10. Rank[tsx.told] \in 0 .. 7 /\ Rank[tsx.told] <= Rank[tsx.state] /\ ~tsx.pendingDestroy
    BY <1>1, RankOf DEF Ordered
  <1>11. Ordered(tsx')  BY <1>8, <1>9, <1>10 DEF Ordered
  <1>12. Advances  BY <1>8, <1>9, <1>10 DEF Advances
  <1>13. At(busy', "transportErr")
    <2>1. w \in Tails /\ "transportErr" \in Tails /\ w # "transportErr"  BY DEF Tails
    <2>2. QED  BY <1>1, <1>2, <2>1, GoesOnAt
  <1>14. {"lockErr", "lockDisc", "destroyed"} \subseteq Tails  BY DEF Tails
  <1>15. QED  BY <1>8, <1>11, <1>12, <1>13, <1>14 DEF ToldInv, At

LEMMA RunTimeoutTold ==
    ASSUME ToldInv, RunTimeout
    PROVE  ToldInv' /\ Advances
  <1>1. Ordered(tsx) /\ tsx \in Tsx /\ busy["timeout"] > 0  BY DEF ToldInv, Ordered, RunTimeout
  <1>2. \/ TimesOut(tsx) /\ tsx' = TimeoutTimer(tsx) /\ GoesOn("timeout", "terminated")
        \/ tsx' = Enter(tsx, "DESTROYED") /\ GoesOn("timeout", "destroyed")
        \/ tsx' = DropRef(tsx) /\ Ends("timeout")
    BY DEF RunTimeout
  <1>3. {"timeout", "terminated", "destroyed", "lockErr", "lockDisc", "transportErr"} \subseteq Tails
    BY DEF Tails
  <1>4. CASE TimesOut(tsx) /\ tsx' = TimeoutTimer(tsx) /\ GoesOn("timeout", "terminated")
    <2>1. Follows(tsx, tsx')  BY <1>1, <1>4, TimeoutTimerFollows
    <2>2. QED  BY <1>1, <1>3, <1>4, <2>1, OnwardOn
  <1>5. CASE tsx' = Enter(tsx, "DESTROYED") /\ GoesOn("timeout", "destroyed")
    <2>1. At(busy', "destroyed")  BY <1>1, <1>3, <1>5, GoesOnAt
    <2>2. tsx' \in Tsx  BY <1>1, <1>5, EnterKeeps DEF Keeps, States
    <2>3. tsx'.state = "DESTROYED" /\ tsx'.told \in {"DESTROYED", tsx.told}
      BY <1>1, <1>5 DEF Enter, Tsx
    <2>4. Rank["DESTROYED"] = 7 /\ Rank[tsx.state] \in 0 .. 7 /\ Rank[tsx.told] \in 0 .. 7
      BY <1>1, Ranks, RankOf
    <2>5. Ordered(tsx') /\ Advances  BY <2>2, <2>3, <2>4 DEF Ordered, Advances
    <2>6. QED  BY <1>3, <2>1, <2>3, <2>5 DEF ToldInv, At
  <1>6. CASE tsx' = DropRef(tsx) /\ Ends("timeout")
    <2>1. Same(tsx, tsx')  BY <1>1, <1>6, FieldsSame
    <2>2. Follows(tsx, tsx')  BY <1>1, <2>1, SameFollows
    <2>3. QED  BY <1>1, <1>3, <1>6, <2>2, OnwardEnd
  <1>7. QED  BY <1>2, <1>4, <1>5, <1>6

\* tsx_on_state_terminated destroys the transaction on any timer.
LEMMA RunRetransmitTold ==
    ASSUME ToldInv, NEW o \in Outcome, RunRetransmit(o)
    PROVE  ToldInv' /\ Advances
  <1> DEFINE u == RetransmitTimer(tsx, o)
  <1>1. Ordered(tsx) /\ tsx \in Tsx /\ "popR" \in Tails  BY DEF ToldInv, Ordered, Tails
  <1>2. tsx' = DropRef(u) /\ busy["popR"] > 0 /\ Ends("popR")  BY DEF RunRetransmit
  <1>3. CASE tsx.state = "TERMINATED"
    <2>1. u = Destroy(tsx)  BY <1>3 DEF RetransmitTimer
    <2>2. /\ Ordered(u) /\ u.state = "DESTROYED" /\ ~u.resend
          /\ Rank[tsx.state] <= 7 /\ Rank[tsx.told] <= Rank[u.told]
      BY <1>1, <2>1, DestroyOrdered
    <2> HIDE DEF u
    <2>3. Same(u, tsx')  BY <1>2, <2>2, FieldsSame DEF Ordered
    <2>4. tsx'.state = "DESTROYED" /\ ~tsx'.resend /\ tsx'.told = u.told  BY <2>2, <2>3 DEF Same
    <2>5. Follows(u, tsx')  BY <2>2, <2>3, SameFollows
    <2>6. Ordered(tsx') /\ Advances  BY <2>2, <2>4, <2>5, Ranks DEF Follows, Advances
    <2>7. Idle(busy')  BY <1>1, <1>2, EndsIdle
    <2>8. {"lockErr", "lockDisc", "transportErr", "destroyed"} \subseteq Tails  BY DEF Tails
    <2>9. QED  BY <2>4, <2>6, <2>7, <2>8 DEF ToldInv, Idle
  <1>4. CASE tsx.state # "TERMINATED"
    <2>1. Follows(tsx, u)  BY <1>1, <1>4, RetransmitTimerFollows
    <2> HIDE DEF u
    <2>2. Same(u, tsx')  BY <1>2, <2>1, FieldsSame DEF Follows, Ordered
    <2>3. Follows(tsx, tsx')  BY <1>1, <2>1, <2>2, SameAfter
    <2>4. QED  BY <1>1, <1>2, <2>3, OnwardEnd
  <1>5. QED  BY <1>3, <1>4

LEMMA RunTimerTold ==
    ASSUME ToldInv, RunTimer
    PROVE  ToldInv' /\ Advances
  <1>1. Ordered(tsx) /\ tsx \in Tsx  BY DEF ToldInv, Ordered
  <1>2. /\ {"popT", "idTimeout", "idErr", "idDisc", "idTerminate", "timeout", "lockErr", "lockDisc"}
              \subseteq Tails \ {"destroyed", "transportErr"}
    BY DEF Tails
  <1> DEFINE n == [tsx EXCEPT !.tid = "none"]
  <1>3. Same(tsx, n) /\ Same(tsx, DropRef(n)) /\ Same(tsx, DropRef(tsx))
    <2>1. Same(tsx, n) /\ n \in Tsx /\ Same(tsx, DropRef(tsx))
      BY <1>1, FieldsSame DEF TimerIds, Same
    <2> HIDE DEF n
    <2>2. Same(n, DropRef(n))  BY <2>1, FieldsSame
    <2>3. QED  BY <2>1, <2>2, SameTrans
  <1> HIDE DEF n
  <1>4. Follows(tsx, n) /\ Follows(tsx, DropRef(n)) /\ Follows(tsx, DropRef(tsx)) /\ n.state = tsx.state
    BY <1>1, <1>3, SameFollows DEF Same
  <1>5. CASE RunDestroyed
    <2>1. tsx' = DropRef(tsx) /\ busy["popT"] > 0 /\ Ends("popT")  BY <1>5 DEF RunDestroyed
    <2>2. Follows(tsx, tsx')  BY <1>4, <2>1
    <2>3. QED  BY <1>2, <2>1, <2>2, OnwardEnd
  <1>6. CASE ReadId
    <2>1. tsx.tid \in TimerIds  BY <1>1 DEF Tsx
    <2> DEFINE x == IdTail[tsx.tid]
    <2>2. x \in {"idTimeout", "idErr", "idDisc", "idTerminate"}  BY <2>1 DEF IdTail, TimerIds
    <2>3. tsx' = tsx /\ busy["popT"] > 0 /\ GoesOn("popT", x)  BY <1>6 DEF ReadId
    <2> HIDE DEF x
    <2>4. Follows(tsx, tsx')  BY <1>1, <2>3, FollowsRefl
    <2>5. QED  BY <1>2, <2>2, <2>3, <2>4, OnwardOn
  <1>7. CASE ClearTimeout
    <2>1. tsx' = n /\ busy["idTimeout"] > 0 /\ GoesOn("idTimeout", "timeout")  BY <1>7 DEF ClearTimeout, n
    <2>2. Follows(tsx, tsx')  BY <1>4, <2>1
    <2>3. QED  BY <1>2, <2>1, <2>2, OnwardOn
  <1>8. ASSUME NEW id \in {"idErr", "idDisc"}, NEW lock \in {"lockErr", "lockDisc"},
               ClearTransport(id, lock)
        PROVE  ToldInv' /\ Advances
    <2>1. busy[id] > 0  BY <1>8 DEF ClearTransport
    <2>2. \/ Running(tsx) /\ tsx' = n /\ GoesOn(id, lock)
          \/ tsx' = DropRef(n) /\ Ends(id)
      BY <1>8 DEF ClearTransport, n
    <2>3. id \in Tails /\ lock \in Tails \ {"destroyed", "transportErr"} /\ id # lock /\ id # "destroyed"
      BY <1>2
    <2>4. CASE Running(tsx) /\ tsx' = n /\ GoesOn(id, lock)
      <3>1. Follows(tsx, tsx')  BY <1>4, <2>4
      <3>2. tsx'.state # "DESTROYED"  BY <1>4, <2>4, Ranks DEF Running
      <3>3. QED  BY <2>1, <2>3, <2>4, <3>1, <3>2, OnwardOn
    <2>5. CASE tsx' = DropRef(n) /\ Ends(id)
      <3>1. Follows(tsx, tsx')  BY <1>4, <2>5
      <3>2. QED  BY <2>1, <2>3, <2>5, <3>1, OnwardEnd
    <2>6. QED  BY <2>2, <2>4, <2>5
  <1>9. CASE RunTerminate
    <2> DEFINE u == IF Running(tsx) /\ tsx.code >= 200 THEN Terminate(tsx, tsx.code) ELSE tsx
    <2>1. tsx.code \in Codes  BY <1>1 DEF Tsx
    <2>2. Running(tsx) => tsx.state # "DESTROYED"  BY Ranks DEF Running
    <2>3. Follows(tsx, u)  BY <1>1, <2>1, <2>2, FollowsRefl, TerminateFollows
    <2>4. tsx' = DropRef(u) /\ busy["idTerminate"] > 0 /\ Ends("idTerminate")
      BY <1>9 DEF RunTerminate
    <2> HIDE DEF u
    <2>5. Same(u, tsx')  BY <2>3, <2>4, FieldsSame DEF Follows, Ordered
    <2>6. Follows(tsx, tsx')  BY <1>1, <2>3, <2>5, SameAfter
    <2>7. QED  BY <1>2, <2>4, <2>6, OnwardEnd
  <1>10. CASE RunDisconnected
    <2>1. CASE Survives(tsx)
      <3> DEFINE v == [tsx EXCEPT !.transport = FALSE, !.resolved = FALSE,
                                  !.resched = FALSE, !.resend = FALSE]
      <3>1. tsx' = DropRef(v) /\ busy["lockDisc"] > 0 /\ Ends("lockDisc")
        BY <1>10, <2>1 DEF RunDisconnected
      <3>2. v \in Tsx  BY <1>1 DEF Tsx
      <3>3. Same(tsx, v)  BY <1>1, <3>2 DEF Same, Tsx
      <3> HIDE DEF v
      <3>4. Same(tsx, tsx')  BY <3>1, <3>2, <3>3, FieldsSame, SameTrans
      <3>5. Follows(tsx, tsx')  BY <1>1, <3>4, SameFollows
      <3>6. QED  BY <1>2, <3>1, <3>5, OnwardEnd
    <2>2. CASE ~Survives(tsx)
      BY <1>10, <2>2, TransportFailedTold DEF RunDisconnected
    <2>3. QED  BY <2>1, <2>2
  <1>11. QED
    BY <1>5, <1>6, <1>7, <1>8, <1>9, <1>10, RunRetransmitTold, TransportFailedTold, RunTimeoutTold
       DEF RunTimer

LEMMA FinishTold ==
    ASSUME ToldInv, Finish
    PROVE  ToldInv' /\ Advances
  <1>1. Ordered(tsx) /\ tsx \in Tsx  BY DEF ToldInv, Ordered
  <1>2. CASE FinishTerminated
    <2>1. Same(tsx, Terminated(tsx)) /\ Terminated(tsx) \in Tsx  BY <1>1, TerminatedSame DEF Same
    <2>2. /\ tsx' = DropRef(Terminated(tsx)) /\ "terminated" \in Tails
          /\ busy["terminated"] > 0 /\ Ends("terminated")
      BY <1>2 DEF FinishTerminated, Tails
    <2>3. Same(tsx, tsx')  BY <2>1, <2>2, FieldsSame, SameTrans
    <2>4. QED  BY <1>1, <2>2, <2>3, SameFollows, OnwardEnd
  <1>3. CASE FinishDestroyed
    <2> DEFINE u == Shutdown(tsx)
    <2>1. tsx' = DropRef(u) /\ Idle(busy')
      <3>1. "destroyed" \in Tails  BY DEF Tails
      <3>2. QED  BY <1>3, <3>1, EndsIdle DEF FinishDestroyed
    <2>2. tsx.state = "DESTROYED"  BY <1>3 DEF FinishDestroyed, ToldInv
    <2>3. Follows(tsx, u) /\ ~u.resend  BY <1>1, <2>2, ShutdownFollows
    <2> HIDE DEF u
    <2>4. Same(u, tsx')  BY <2>1, <2>3, FieldsSame DEF Follows, Ordered
    <2>5. Follows(tsx, tsx') /\ ~tsx'.resend  BY <1>1, <2>3, <2>4, SameAfter DEF Same
    <2>6. {"lockErr", "lockDisc", "transportErr", "destroyed"} \subseteq Tails  BY DEF Tails
    <2>7. QED  BY <2>1, <2>5, <2>6 DEF ToldInv, Follows, Advances, Idle
  <1>4. CASE FinishTransportErr
    <2> DEFINE s == IF tsx.user THEN "TERMINATED" ELSE tsx.told
               u == [tsx EXCEPT !.told = s]
               v == ScheduleT(u, "timeout")
    <2>1. tsx' = DropRef(v) /\ Idle(busy') /\ tsx.state = "TERMINATED"
      <3>1. "transportErr" \in Tails  BY DEF Tails
      <3>2. QED  BY <1>4, <3>1, EndsIdle DEF FinishTransportErr, ToldInv
    <2>2. s \in States /\ s \in {"TERMINATED", tsx.told}  BY <1>1 DEF Tsx, States
    <2> HIDE DEF s
    <2>3. /\ u \in Tsx /\ u.state = "TERMINATED" /\ u.told = s
          /\ u.pendingDestroy = tsx.pendingDestroy
      BY <1>1, <2>1, <2>2 DEF Tsx
    <2>4. ~tsx.pendingDestroy /\ Rank[tsx.told] <= Rank["TERMINATED"]  BY <1>1, <2>1 DEF Ordered
    <2>5. Rank["TERMINATED"] = 6 /\ Rank[tsx.told] \in 0 .. 7  BY <1>1, Ranks, RankOf
    <2> HIDE DEF u
    <2>6. Follows(tsx, u)  BY <2>1, <2>2, <2>3, <2>4, <2>5 DEF Follows, Ordered
    <2>7. Same(u, v) /\ v \in Tsx  BY <2>3, TimersSame DEF TimerIds, Same
    <2> HIDE DEF v
    <2>8. Same(u, tsx')  BY <2>1, <2>7, FieldsSame, SameTrans
    <2>9. Follows(tsx, tsx') /\ tsx'.state = "TERMINATED"  BY <1>1, <2>3, <2>6, <2>8, SameAfter
    <2>10. {"lockErr", "lockDisc", "transportErr", "destroyed"} \subseteq Tails  BY DEF Tails
    <2>11. QED  BY <2>1, <2>9, <2>10 DEF ToldInv, Follows, Advances, Idle
  <1>5. CASE FinishSendFailed
    <2>1. Same(tsx, tsx') /\ "sendFailed" \in Tails /\ busy["sendFailed"] > 0 /\ Ends("sendFailed")
      BY <1>1, <1>5, TerminatedSame DEF FinishSendFailed, Tails
    <2>2. QED  BY <1>1, <2>1, SameFollows, OnwardEnd
  <1>6. CASE FinishTransportCb
    <2> DEFINE u == IF Rank[tsx.state] < Rank["COMPLETED"]
                    THEN ResetT(tsx, "transportErr") ELSE tsx
    <2>1. Same(tsx, u) /\ u \in Tsx  BY <1>1, SameRefl, TimersSame DEF TimerIds, Same
    <2>2. /\ tsx' = DropRef(u) /\ "transportCb" \in Tails
          /\ busy["transportCb"] > 0 /\ Ends("transportCb")
      BY <1>6 DEF FinishTransportCb, Tails
    <2> HIDE DEF u
    <2>3. Same(tsx, tsx')  BY <2>1, <2>2, FieldsSame, SameTrans
    <2>4. QED  BY <1>1, <2>2, <2>3, SameFollows, OnwardEnd
  <1>7. QED  BY <1>2, <1>3, <1>4, <1>5, <1>6 DEF Finish

LEMMA CallbackTold ==
    ASSUME Workers = 1, ToldInv, Callback
    PROVE  ToldInv' /\ Advances
  <1>1. Ordered(tsx) /\ tsx \in Tsx  BY DEF ToldInv, Ordered
  <1>2. Worker /\ Idle(busy) /\ ~(busy["destroyed"] > 0)
    <2>1. Worker
      BY DEF Callback, ResolveSent, TransportCallback, ResolveFails, ResolveRetries, ResolveDetached,
             TransportDisconnects
    <2>2. QED  BY <2>1, WorkerAlone DEF Idle, Tails
  <1>3. CASE \E o \in Outcome : ResolveSent(o)
    <2>1. Follows(tsx, tsx') /\ busy' = busy  BY <1>1, <1>3, SendDoneFollows DEF ResolveSent
    <2>2. QED  BY <1>2, <2>1, OnwardIdle
  <1>4. CASE \E o \in Outcome : \E ok \in BOOLEAN : TransportCallback(ok, o)
    <2>1. PICK o \in Outcome, ok \in BOOLEAN : TransportCallback(ok, o)  BY <1>4
    <2> DEFINE u == [tsx EXCEPT !.pending = FALSE, !.sending = "none"]
               v == [u EXCEPT !.resend = FALSE]
               w == IF u.resend /\ u.last # "none" THEN SendMsg(v, v.last, o) ELSE v
    <2>2. \/ tsx' = u /\ Begins("transportCb")
          \/ u.pendingDestroy /\ tsx' = Destroy(u) /\ busy' = busy
          \/ tsx' = DropRef(Reschedule(w)) /\ busy' = busy
      BY <2>1 DEF TransportCallback
    <2>3. u \in Tsx  BY <1>1 DEF Tsx
    <2>4. Same(tsx, u)  BY <1>1, <2>3 DEF Same, Tsx
    <2> HIDE DEF u
    <2>5. Follows(tsx, u) /\ Ordered(u)  BY <1>1, <2>4, SameFollows DEF Follows
    <2>6. Same(u, v) /\ v \in Tsx /\ v.last = u.last
      <3>1. Same(u, v)  BY <2>3, FieldsSame
      <3>2. QED  BY <2>3, <3>1 DEF Same, Tsx
    <2> HIDE DEF v
    <2>7. Follows(tsx, v) /\ v.state = tsx.state /\ Ordered(v)
      BY <1>1, <2>4, <2>5, <2>6, SameAfter DEF Same, Follows
    <2>8. Follows(v, w)
      <3>1. CASE u.resend /\ u.last # "none"
        <4>1. v.state # "DESTROYED"  BY <1>2, <2>4, <2>7, <3>1 DEF ToldInv, Same
        <4>2. v.last \in Messages  BY <2>6, <3>1, LastTyped
        <4>3. QED  BY <2>7, <3>1, <4>1, <4>2, SendMsgFollows
      <3>2. CASE ~(u.resend /\ u.last # "none")
        BY <2>7, <3>2, FollowsRefl
      <3>3. QED  BY <3>1, <3>2
    <2> HIDE DEF w
    <2>9. Follows(tsx, w) /\ w \in Tsx  BY <1>1, <2>7, <2>8, FollowsTrans DEF Follows, Ordered
    <2>10. CASE tsx' = u /\ Begins("transportCb")
      <3>1. "transportCb" \in Tails \ {"destroyed", "transportErr"}  BY DEF Tails
      <3>2. At(busy', "transportCb")  BY <1>2, <2>10, <3>1, BeginAt
      <3>3. QED  BY <1>2, <2>5, <2>10, <3>1, <3>2, OnwardAt
    <2>11. CASE u.pendingDestroy /\ tsx' = Destroy(u) /\ busy' = busy
      <3>1. Follows(u, tsx')  BY <2>5, <2>11, DestroyFollows DEF Ordered
      <3>2. Follows(tsx, tsx')  BY <1>1, <2>5, <3>1, FollowsTrans
      <3>3. QED  BY <1>2, <2>11, <3>2, OnwardIdle
    <2>12. CASE tsx' = DropRef(Reschedule(w)) /\ busy' = busy
      <3>1. Same(w, Reschedule(w)) /\ Reschedule(w) \in Tsx  BY <2>9, RescheduleSame DEF Same
      <3>2. Same(w, tsx')  BY <2>12, <3>1, FieldsSame, SameTrans
      <3>3. Follows(tsx, tsx')  BY <1>1, <2>9, <3>2, SameAfter
      <3>4. QED  BY <1>2, <2>12, <3>3, OnwardIdle
    <2>13. QED  BY <2>2, <2>10, <2>11, <2>12
  <1>5. CASE \E c \in {502, 503} : ResolveFails(c)
    <2>1. PICK c \in {502, 503} : ResolveFails(c)  BY <1>5
    <2>2. c \in Codes /\ tsx.resolving = "attached"  BY <2>1 DEF Codes, ResolveFails
    <2> DEFINE u == [Answered(tsx) EXCEPT !.transport = FALSE]
               v == [Answered(tsx) EXCEPT !.transport = FALSE, !.code = c]
               w == Enter(v, "TERMINATED")
    <2>3. \/ FailTerminates(tsx, c) /\ tsx' = w /\ Begins("sendFailed")
          \/ tsx' = SendGivenUp(tsx, c) /\ busy' = busy
      BY <2>1 DEF ResolveFails
    <2>4. Same(tsx, u) /\ u \in Tsx  BY <1>1, <2>2, AnsweredSame, ZenonT(60) DEF Same
    <2>5. v = [u EXCEPT !.code = c]  OBVIOUS
    <2> HIDE DEF u, v
    <2>6. Same(u, v)  BY <2>2, <2>4, <2>5, FieldsSame, ZenonT(60)
    <2>7. Follows(tsx, v) /\ v.state = tsx.state  BY <1>1, <2>4, <2>6, SameTrans, SameFollows DEF Same
    <2>8. CASE FailTerminates(tsx, c) /\ tsx' = w /\ Begins("sendFailed")
      <3>1. Rank[v.state] <= Rank["TERMINATED"] /\ "TERMINATED" \in States
        <4>1. Rank[tsx.state] < Rank["TERMINATED"] /\ Rank["TERMINATED"] = 6 /\ Rank[tsx.state] \in 0 .. 7
          BY <1>1, <2>8, Ranks, RankOf DEF FailTerminates
        <4>2. QED  BY <2>7, <4>1 DEF States
      <3>2. Follows(tsx, tsx')  BY <1>1, <2>7, <2>8, <3>1, EnterAfter
      <3>3. "sendFailed" \in Tails \ {"destroyed", "transportErr"}  BY DEF Tails
      <3>4. At(busy', "sendFailed")  BY <1>2, <2>8, <3>3, BeginAt
      <3>5. QED  BY <1>2, <3>2, <3>3, <3>4, OnwardAt
    <2>9. CASE tsx' = SendGivenUp(tsx, c) /\ busy' = busy
      <3>1. Follows(tsx, tsx')  BY <1>1, <2>2, <2>9, SendGivenUpFollows
      <3>2. QED  BY <1>2, <2>9, <3>1, OnwardIdle
    <2>10. QED  BY <2>3, <2>8, <2>9
  <1>6. CASE ResolveRetries \/ TransportDisconnects
    <2>1. Same(tsx, tsx') /\ busy' = busy
      BY <1>1, <1>6, SameRefl, TimersSame DEF ResolveRetries, TransportDisconnects, TimerIds
    <2>2. QED  BY <1>1, <1>2, <2>1, SameFollows, OnwardIdle
  <1>7. CASE ResolveDetached
    <2>1. tsx' = [tsx EXCEPT !.resolving = "no"] /\ busy' = busy  BY <1>7 DEF ResolveDetached
    <2>2. tsx' \in Tsx  BY <1>1, <2>1 DEF Tsx
    <2>3. Same(tsx, tsx')  BY <1>1, <2>1, <2>2 DEF Same, Tsx
    <2>4. QED  BY <1>1, <1>2, <2>1, <2>3, SameFollows, OnwardIdle
  <1>8. QED  BY <1>3, <1>4, <1>5, <1>6, <1>7 DEF Callback

\* The invariant is inductive, and no step goes back.
LEMMA NextTold ==
    ASSUME Workers = 1, ToldInv, [Next]_vars
    PROVE  ToldInv' /\ Advances
  <1>1. CASE Next
    BY <1>1, UserStepTold, ReceiveTold, PopTold, RunTimerTold, FinishTold, CallbackTold DEF Next
  <1>2. CASE UNCHANGED vars
    <2>1. tsx' = tsx /\ busy' = busy  BY <1>2 DEF vars
    <2>2. Ordered(tsx)  BY DEF ToldInv
    <2>3. ToldInv'  BY <2>1 DEF ToldInv
    <2>4. Advances  BY <2>1, <2>2, RankOf DEF Advances, Ordered
    <2>5. QED  BY <2>3, <2>4
  <1>3. QED  BY <1>1, <1>2

LEMMA InitTold == Init => ToldInv
  <1> SUFFICES ASSUME Init PROVE ToldInv
    OBVIOUS
  <1>1. tsx \in Tsx /\ busy \in Bag  BY InitRefInv DEF RefInv
  <1>2. tsx.state = "NULL" /\ tsx.told = "NULL" /\ tsx.pendingDestroy = FALSE  BY DEF Init
  <1>3. All(busy) = 0 /\ \A x \in Tails : busy[x] = 0
    <2>1. \A x \in Tails : busy[x] = 0  BY DEF Init
    <2>2. QED  BY <2>1, TailNames DEF Working, Popped, Reading, Locking, Telling, All, Tails
  <1>4. {"lockErr", "lockDisc", "transportErr", "destroyed"} \subseteq Tails  BY DEF Tails
  <1>5. QED  BY <1>1, <1>2, <1>3, <1>4, Ranks DEF ToldInv, Ordered

\* With one worker thread, PJSUA's default, the user is told the states in their order
\* (on_tsx_state), although TERMINATED and DESTROYED are told without the lock; whatever
\* transport the messages take.
THEOREM ToldForward ==
    ASSUME Workers = 1
    PROVE  Spec => ToldInOrder
  <1>1. ToldInv /\ [Next]_vars => ToldInv' /\ [Rank[tsx'.told] >= Rank[tsx.told]]_vars
    <2> SUFFICES ASSUME ToldInv, [Next]_vars
                 PROVE  ToldInv' /\ [Rank[tsx'.told] >= Rank[tsx.told]]_vars
      OBVIOUS
    <2>1. ToldInv' /\ Advances  BY NextTold
    <2>2. Ordered(tsx) /\ Ordered(tsx')  BY <2>1 DEF ToldInv
    <2>3. Rank[tsx'.told] >= Rank[tsx.told]  BY <2>1, <2>2, RankOf DEF Advances, Ordered
    <2>4. QED  BY <2>1, <2>3
  <1>2. QED  BY <1>1, InitTold, PTL DEF Spec, ToldInOrder

\* "New state must be greater than previous state" (tsx_set_state), with one worker thread
\* and whatever transport.
THEOREM OneForward ==
    ASSUME Workers = 1
    PROVE  Spec => StateForward
  <1>1. ToldInv /\ [Next]_vars => ToldInv' /\ [Rank[tsx'.state] >= Rank[tsx.state]]_vars
    <2> SUFFICES ASSUME ToldInv, [Next]_vars
                 PROVE  ToldInv' /\ [Rank[tsx'.state] >= Rank[tsx.state]]_vars
      OBVIOUS
    <2>1. ToldInv' /\ Advances  BY NextTold
    <2>2. Ordered(tsx) /\ Ordered(tsx')  BY <2>1 DEF ToldInv
    <2>3. Rank[tsx'.state] >= Rank[tsx.state]  BY <2>1, <2>2, RankOf DEF Advances, Ordered
    <2>4. QED  BY <2>1, <2>3
  <1>2. QED  BY <1>1, InitTold, PTL DEF Spec, StateForward

===============================================================================
