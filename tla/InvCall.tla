------------------------------- MODULE InvCall --------------------------------
(***************************************************************************)
(* A call between two PJSUA parties, from the caller's INVITE until both   *)
(* INVITE sessions (sip_inv.c) have ended: provisional answers, answer and *)
(* rejection, CANCEL, ACK, BYE, and hanging up at any time from either     *)
(* side.  The network reorders messages; a few of them (MaxFaults) may be  *)
(* lost in all their retransmissions, or come only after the timers of     *)
(* their transaction.  A proxy on the way may ask for authentication.      *)
(*                                                                         *)
(* A session and what it is about to send are one record; the operators of *)
(* the first two sections take such a record and return it changed, and    *)
(* an action is everything that happens under the dialog's lock.           *)
(***************************************************************************)
EXTENDS Integers

CONSTANTS MaxFaults,        \* bound of the messages lost or late
          MaxRetransmits,   \* bound of the retransmissions of the 2xx
          MaxByes,          \* bound of the BYE requests of one party, for the types only
          Challenged        \* requests that the proxy challenges once

ASSUME InvCallAssumption ==
    /\ MaxFaults \in Nat /\ MaxRetransmits \in Nat /\ MaxByes \in Nat
    /\ Challenged \subseteq {"INVITE", "caller BYE", "callee BYE"}

VARIABLES inv,      \* party -> its session
          net,      \* messages on their way
          late,     \* messages lost, or to come after the timeouts
          faults,   \* faults left
          resent,   \* retransmissions of the 2xx
          asked     \* requests that the proxy will still challenge

vars == <<inv, net, late, faults, resent, asked>>

\* The caller (UAC of the INVITE) and the callee (UAS).
Parties == {"C", "S"}

Other(p) == IF p = "C" THEN "S" ELSE "C"

States == {"NULL", "CALLING", "INCOMING", "EARLY", "CONNECTING", "CONFIRMED", "DISCONNECTED"}

Timeout == 408
Codes == {0, 200, 406, 408, 415, 480, 487, 603}

\* tsx is the INVITE transaction: at the caller Calling until the first response and
\* Proceeding until the final one; at the callee Proceeding, and Accepted from the 2xx to
\* its ACK.  deadline: pjsip_tsx_set_timeout was called on it.  cancel is the CANCEL
\* transaction and open the BYE transactions without a final response; cseq is the last
\* BYE of the other party that was accepted.
Kinds == {"INVITE", "CANCEL", "ACK", "100", "180", "2xx", "Fail", "Challenge",
          "CancelDone", "BYE", "ByeDone", "ByeChallenge"}

Messages == [to : Parties, kind : Kinds, id : 0 .. MaxByes]

Session == [state : States, hanging_up : BOOLEAN, cancelling : BOOLEAN, pending_cancel : BOOLEAN,
            pending_bye : BOOLEAN, cause : Codes, tsx : {"None", "Calling", "Proceeding", "Accepted", "Ended"},
            deadline : BOOLEAN, cancel : {"None", "Pending", "Ended"}, byes : 0 .. MaxByes,
            open : SUBSET (1 .. MaxByes), cseq : 0 .. MaxByes, out : SUBSET Messages]

Idle == [state |-> "NULL", hanging_up |-> FALSE, cancelling |-> FALSE, pending_cancel |-> FALSE,
         pending_bye |-> FALSE, cause |-> 0, tsx |-> "None", deadline |-> FALSE, cancel |-> "None",
         byes |-> 0, open |-> {}, cseq |-> 0, out |-> {}]

Msg(to, kind) == [to |-> to, kind |-> kind, id |-> 0]

---------------------------------------------------------------------------
\* The INVITE session

Send(i, m) == [i EXCEPT !.out = @ \cup {m}]

\* Mutant of inv_set_cause: a BYE that waits does not let the cause be replaced.
inv_set_cause_higher(i, code) == IF code > i.cause THEN [i EXCEPT !.cause = code] ELSE i

inv_set_cause(i, code) ==
    IF code > i.cause \/ i.pending_bye THEN [i EXCEPT !.cause = code] ELSE i

Disconnect(i, code) == [inv_set_cause(i, code) EXCEPT !.state = "DISCONNECTED"]

NewBye(p, i) ==
    Send([i EXCEPT !.byes = @ + 1, !.open = @ \cup {i.byes + 1}],
         [to |-> Other(p), kind |-> "BYE", id |-> i.byes + 1])

\* Mutant of SendBye: the callee does not wait for the ACK.
SendByeAtOnce(p, i) == NewBye(p, i)

\* pjsip_inv_send_msg of a BYE: the callee's waits for the ACK.
SendBye(p, i) ==
    IF p = "S" /\ i.state = "CONNECTING" /\ i.cause # Timeout
    THEN [i EXCEPT !.pending_bye = TRUE]
    ELSE NewBye(p, i)

\* The callee's final response to an INVITE that it refuses, and the end of the session.
SendFailure(i) == Send([i EXCEPT !.tsx = "Ended"], Msg("C", "Fail"))

Refuse(i, code) == SendFailure(Disconnect(i, code))

\* Mutant of EndSession: an INVITE without a response is given up on the spot.
EndSessionAtOnce(p, i, code) ==
    LET ending == [inv_set_cause(i, code) EXCEPT !.cancelling = TRUE]
    IN  CASE i.state \in {"CONNECTING", "CONFIRMED"} -> SendBye(p, ending)
          [] i.state \in {"CALLING", "EARLY"} /\ p = "C" ->
                 IF i.tsx = "Calling" THEN [ending EXCEPT !.state = "DISCONNECTED", !.tsx = "Ended"]
                 ELSE Send([ending EXCEPT !.cancel = "Pending", !.deadline = TRUE], Msg("S", "CANCEL"))
          [] i.state \in {"INCOMING", "EARLY"} /\ p = "S" -> Refuse(ending, code)
          [] OTHER -> i

\* pjsip_inv_end_session, and the sending of the message it made.
EndSession(p, i, code) ==
    LET ending == [inv_set_cause(i, code) EXCEPT !.cancelling = TRUE]
    IN  CASE i.state \in {"CONNECTING", "CONFIRMED"} -> SendBye(p, ending)
          [] i.state \in {"CALLING", "EARLY"} /\ p = "C" ->
                 IF i.tsx = "Calling" THEN [ending EXCEPT !.pending_cancel = TRUE]
                 ELSE Send([ending EXCEPT !.cancel = "Pending", !.deadline = TRUE], Msg("S", "CANCEL"))
          [] i.state \in {"INCOMING", "EARLY"} /\ p = "S" -> Refuse(ending, code)
          [] OTHER -> i

\* inv_set_state CONFIRMED with pjsua_call_on_state_changed: a call that was hung up while
\* the answer was under way is ended with a BYE now.
Confirm(p, i) ==
    LET confirmed == [i EXCEPT !.state = "CONFIRMED"]
    IN  IF i.hanging_up THEN EndSession(p, confirmed, 200) ELSE confirmed

\* inv_send_ack.  A session that has ended only answers.
SendAck(i) ==
    LET acked == Send(i, Msg("S", "ACK"))
    IN  IF i.state \in {"CONFIRMED", "DISCONNECTED"} THEN acked ELSE Confirm("C", acked)

\* handle_uac_tsx_response to a timeout (408).
UacTimeout(p, i) ==
    IF i.state = "DISCONNECTED" THEN i ELSE NewBye(p, Disconnect(i, Timeout))

---------------------------------------------------------------------------
\* What a party does with a message, by the state of its session.

\* A first or a further provisional response.
RxProvisional(i, kind) ==
    LET proceeding == [i EXCEPT !.tsx = "Proceeding"]
        cancelled == IF i.pending_cancel /\ i.state = "CALLING"
                     THEN EndSession("C", [proceeding EXCEPT !.pending_cancel = FALSE], 487)
                     ELSE proceeding
    IN  IF kind = "180" /\ i.state = "CALLING" THEN [cancelled EXCEPT !.state = "EARLY"]
        ELSE cancelled

\* The 2xx.  sdp says whether its answer negotiates ("good"), fails to ("bad"), or is
\* missing ("none"); without one the session is not confirmed but ended.
Rx2xx(i, sdp) ==
    LET connecting == [i EXCEPT !.state = "CONNECTING", !.tsx = "Ended"]
        updated == IF sdp = "bad" /\ ~i.hanging_up THEN EndSession("C", connecting, 415)
                   ELSE connecting
    IN  IF i.state = "DISCONNECTED" THEN SendAck([i EXCEPT !.tsx = "Ended"])
        ELSE IF sdp = "none" THEN EndSession("C", Send(updated, Msg("S", "ACK")), 406)
        ELSE SendAck(updated)

\* Any other final response, or none in time.
RxFailure(i, code) ==
    LET ended == [i EXCEPT !.tsx = "Ended"]
    IN  IF i.state = "DISCONNECTED" THEN ended ELSE Disconnect(ended, code)

\* handle_uac_call_rejection of a 401 or 407, with pjsip_inv_uac_restart.
RxChallenge(i) ==
    IF i.cancelling THEN RxFailure(i, 480)
    ELSE Send([i EXCEPT !.state = "CALLING", !.tsx = "Calling"], Msg("S", "INVITE"))

\* inv_respond_incoming_cancel.
RxCancel(i) ==
    LET answered == Send(i, Msg("C", "CancelDone"))
    IN  IF i.tsx = "Proceeding" THEN Refuse(answered, 487) ELSE answered

\* The ACK of the 2xx (mod_inv_on_rx_request), with inv_perform_pending_bye.
RxAck(i) ==
    LET ended == [i EXCEPT !.tsx = "Ended"]
        confirmed == Confirm("S", ended)
    IN  IF i.tsx # "Accepted" THEN i
        ELSE IF i.state # "CONNECTING" THEN ended
        ELSE IF i.pending_bye THEN SendBye("S", [confirmed EXCEPT !.pending_bye = FALSE])
        ELSE confirmed

\* Mutant of AckTimeout: the BYE that waits is taken to be enough.
AckTimeoutWaits(i) ==
    LET ended == [i EXCEPT !.tsx = "Ended"]
    IN  IF i.state = "CONNECTING" THEN SendBye("S", ended) ELSE ended

\* The 2xx was never acknowledged (inv_on_state_connecting).
AckTimeout(i) ==
    LET ended == [i EXCEPT !.tsx = "Ended"]
    IN  IF i.state = "CONNECTING"
        THEN [SendBye("S", inv_set_cause(ended, Timeout)) EXCEPT !.pending_bye = FALSE]
        ELSE ended

\* A BYE.  The dialog refuses one that is older than the last; a session that is only
\* CALLING has no branch for it and leaves it without a response.
RxBye(p, i, id) ==
    LET answer == [to |-> Other(p), kind |-> "ByeDone", id |-> id]
        taken == [i EXCEPT !.cseq = id]
        answered == Send(taken, answer)
    IN  CASE id <= i.cseq -> Send(i, answer)
          [] id > i.cseq /\ i.state \in {"NULL", "CALLING", "INCOMING"} -> taken
          [] id > i.cseq /\ i.state = "EARLY" /\ p = "C" -> [Disconnect(answered, 200) EXCEPT !.deadline = TRUE]
          [] id > i.cseq /\ i.state = "EARLY" /\ p = "S" -> SendFailure(Disconnect(answered, 200))
          [] id > i.cseq /\ i.state \in {"CONNECTING", "CONFIRMED"} -> Disconnect(answered, 200)
          [] id > i.cseq /\ i.state = "DISCONNECTED" -> answered

\* inv_handle_bye_response: a final response or none in time.
RxByeDone(i, id) ==
    LET ended == [i EXCEPT !.open = @ \ {id}]
    IN  IF i.state = "DISCONNECTED" THEN ended ELSE Disconnect(ended, 200)

\* Its challenge: the BYE is sent again.
RxByeChallenge(p, i, id) == SendBye(p, [i EXCEPT !.open = @ \ {id}])

---------------------------------------------------------------------------
\* Actions

\* The session becomes i, and what it has to send is on its way.
Becomes(p, i) == inv' = [inv EXCEPT ![p] = [i EXCEPT !.out = {}]]

Step(p, i) ==
    /\ Becomes(p, i)
    /\ net' = net \cup i.out
    /\ UNCHANGED <<late, faults, resent, asked>>

Init ==
    /\ inv = [p \in Parties |-> IF p = "C" THEN [Idle EXCEPT !.state = "CALLING", !.tsx = "Calling"]
                                ELSE Idle]
    /\ net = {Msg("S", "INVITE")}
    /\ late = {}
    /\ faults = MaxFaults
    /\ resent = 0
    /\ asked = Challenged

\* Mutant of Hangup: the request is not remembered.
HangupAgain(p) ==
    /\ inv[p].state \notin {"NULL", "DISCONNECTED"}
    /\ Step(p, EndSession(p, [inv[p] EXCEPT !.hanging_up = TRUE], IF p = "S" THEN 603 ELSE 487))

\* pjsua_call_hangup, which does nothing the second time.
Hangup(p) ==
    /\ inv[p].state \notin {"NULL", "DISCONNECTED"}
    /\ ~inv[p].hanging_up
    /\ LET code == IF inv[p].state = "CONFIRMED" THEN 200 ELSE IF p = "S" THEN 603 ELSE 487
       IN  Step(p, EndSession(p, [inv[p] EXCEPT !.hanging_up = TRUE], code))

\* The callee's user lets the call ring, or answers it.
Ring ==
    /\ inv["S"].state = "INCOMING"
    /\ Step("S", Send([inv["S"] EXCEPT !.state = "EARLY"], Msg("C", "180")))

Answer ==
    /\ inv["S"].state \in {"INCOMING", "EARLY"}
    /\ Step("S", Send([inv["S"] EXCEPT !.state = "CONNECTING", !.tsx = "Accepted"], Msg("C", "2xx")))

\* The caller's INVITE transaction passes its response on while it is alive.  A 2xx that
\* comes after it goes to the dialog: an ended one may be gone, and then says nothing.
CallerReceives(m, i) ==
    LET alive == i.tsx \in {"Calling", "Proceeding"}
    IN  CASE m.kind \in {"100", "180"} -> {IF alive THEN RxProvisional(i, m.kind) ELSE i}
          [] m.kind = "2xx" /\ alive -> {Rx2xx(i, sdp) : sdp \in {"good", "bad", "none"}}
          [] m.kind = "2xx" /\ ~alive -> {SendAck(i)} \cup (IF i.state = "DISCONNECTED" THEN {i} ELSE {})
          [] m.kind = "Fail" -> {IF alive THEN RxFailure(i, 480) ELSE i}
          [] m.kind = "Challenge" -> {IF alive THEN RxChallenge(i) ELSE i}
          [] m.kind = "CancelDone" -> {[i EXCEPT !.cancel = "Ended"]}

CalleeReceives(m, i) ==
    CASE m.kind = "INVITE" -> {Send([i EXCEPT !.state = "INCOMING", !.tsx = "Proceeding"], Msg("C", "100"))}
      [] m.kind = "CANCEL" -> {RxCancel(i)}
      [] m.kind = "ACK" -> {RxAck(i)}

\* The sessions a party may have after m.
Receives(m) ==
    LET p == m.to
        i == inv[p]
    IN  CASE m.kind = "BYE" -> {RxBye(p, i, m.id)}
          [] m.kind = "ByeDone" -> {IF m.id \in i.open THEN RxByeDone(i, m.id) ELSE i}
          [] m.kind = "ByeChallenge" -> {IF m.id \in i.open THEN RxByeChallenge(p, i, m.id) ELSE i}
          [] m.kind \notin {"BYE", "ByeDone", "ByeChallenge"} ->
                 IF p = "C" THEN CallerReceives(m, i) ELSE CalleeReceives(m, i)

Deliver(m) ==
    /\ m \in net
    /\ \E i \in Receives(m) : Becomes(m.to, i) /\ net' = (net \ {m}) \cup i.out
    /\ UNCHANGED <<late, faults, resent, asked>>

DeliverLate(m) ==
    /\ m \in late
    /\ \E i \in Receives(m) : Becomes(m.to, i) /\ net' = net \cup i.out
    /\ late' = late \ {m}
    /\ UNCHANGED <<faults, resent, asked>>

\* A message and its retransmissions are lost, or come after the timeouts.
Delay(m) ==
    /\ m \in net
    /\ faults > 0
    /\ net' = net \ {m}
    /\ late' = late \cup {m}
    /\ faults' = faults - 1
    /\ UNCHANGED <<inv, resent, asked>>

\* What the proxy may be set to challenge.
Request(m) ==
    CASE m.kind = "INVITE" -> "INVITE"
      [] m.kind = "BYE" -> IF m.to = "S" THEN "caller BYE" ELSE "callee BYE"
      [] m.kind \notin {"INVITE", "BYE"} -> "other"

\* The proxy answers a request itself, with a challenge.
Challenge(m) ==
    /\ m \in net
    /\ Request(m) \in asked
    /\ net' = (net \ {m}) \cup
              {[to |-> Other(m.to), kind |-> IF m.kind = "BYE" THEN "ByeChallenge" ELSE "Challenge", id |-> m.id]}
    /\ asked' = asked \ {Request(m)}
    /\ UNCHANGED <<inv, late, faults, resent>>

\* Nothing of these kinds is on its way: what the timers of a transaction, 64*T1, outlast.
Quiet(kinds, id) == \A m \in net : ~(m.kind \in kinds /\ m.id = id)

\* Timer B of the INVITE, or the timeout that CANCEL or an early BYE has set on it.
InviteTimesOut ==
    /\ inv["C"].tsx = "Calling" \/ (inv["C"].tsx = "Proceeding" /\ inv["C"].deadline)
    /\ Quiet({"INVITE", "CANCEL", "100", "180", "2xx", "Fail", "Challenge"}, 0)
    /\ Step("C", RxFailure(inv["C"], Timeout))

\* In CALLING the session ends without a BYE (inv_on_state_calling).
CancelTimesOut ==
    /\ inv["C"].cancel = "Pending"
    /\ Quiet({"CANCEL", "CancelDone"}, 0)
    /\ LET i == [inv["C"] EXCEPT !.cancel = "Ended"]
       IN  Step("C", IF i.state = "CALLING" THEN Disconnect(i, Timeout) ELSE UacTimeout("C", i))

ByeTimesOut(p) ==
    \E id \in inv[p].open :
        /\ \A m \in net : ~(m.id = id /\ \/ m.kind = "BYE" /\ m.to # p
                                         \/ m.kind \in {"ByeDone", "ByeChallenge"} /\ m.to = p)
        /\ Step(p, RxByeDone(inv[p], id))

AckTimesOut ==
    /\ inv["S"].tsx = "Accepted"
    /\ Quiet({"2xx", "ACK"}, 0)
    /\ Step("S", AckTimeout(inv["S"]))

\* The callee's transaction retransmits the 2xx until it is acknowledged.
Retransmit ==
    /\ inv["S"].tsx = "Accepted"
    /\ Quiet({"2xx", "ACK"}, 0)
    /\ resent < MaxRetransmits
    /\ resent' = resent + 1
    /\ net' = net \cup {Msg("C", "2xx")}
    /\ UNCHANGED <<inv, late, faults, asked>>

Timers == InviteTimesOut \/ CancelTimesOut \/ AckTimesOut \/ \E p \in Parties : ByeTimesOut(p)

Next ==
    \/ \E p \in Parties : Hangup(p)
    \/ Ring
    \/ Answer
    \/ \E m \in net : Deliver(m) \/ Delay(m) \/ Challenge(m)
    \/ \E m \in late : DeliverLate(m)
    \/ Timers
    \/ Retransmit

\* Messages that are not lost arrive, and timers fire.  Nobody has to hang up or answer.
\* Every behaviour is finite, so that no message is passed over for ever.
Fairness == WF_vars(\E m \in net : Deliver(m)) /\ WF_vars(Timers)

Spec == Init /\ [][Next]_vars /\ Fairness

---------------------------------------------------------------------------
\* Properties

\* Types; nothing is left unsent, and no party sends more BYE requests than its causes allow.
TypeOK ==
    /\ inv \in [Parties -> Session]
    /\ \A p \in Parties : inv[p].out = {}
    /\ net \subseteq Messages /\ late \subseteq Messages
    /\ faults \in 0 .. MaxFaults /\ resent \in 0 .. MaxRetransmits
    /\ asked \subseteq Challenged

Ended(p) == inv[p].state = "DISCONNECTED"

InCall(p) == inv[p].state \notin {"NULL", "DISCONNECTED"}

\* The callee's BYE was challenged and waits for an ACK that nothing waits for any more.  It
\* takes a lost ACK, and a hang-up after the BYE of AckTimeout.
Stranded(p) ==
    p = "S" /\ "callee BYE" \in Challenged \ asked /\ inv[p].pending_bye /\ inv[p].tsx = "Ended"

\* pjsua_call_hangup ends the call "regardless of the state and role of the call": the
\* session of a party that hung up is disconnected in the end, whatever is lost or late,
\* and whatever the other party does meanwhile, unless a challenge of its BYE strands it.
HungUpEndsOrStranded ==
    \A p \in Parties : inv[p].hanging_up ~> Ended(p) \/ Stranded(p)

\* Nobody is left in a call: unless messages were lost, the call of one party ends when
\* that of the other has, in every crossing of INVITE, CANCEL, 2xx, ACK and BYE.
EndsTogether ==
    \A p \in Parties :
        (Ended(p) /\ InCall(Other(p))) ~> (~InCall(Other(p)) \/ faults < MaxFaults)

\* An answered call does not stay CONNECTING: the ACK comes, or the callee gives up with a
\* BYE of its own and is disconnected, also when a BYE waits for that ACK; unless it is
\* stranded.
ConnectingEnds ==
    inv["S"].state = "CONNECTING" ~> inv["S"].state # "CONNECTING" \/ Stranded("S")

\* The BYE of a callee that got its ACK finds the caller confirmed, or ending the call
\* itself: what waiting for the ACK is for (#1712).
ByeFindsCall ==
    \A m \in net \cup late :
        m.to = "C" /\ m.kind = "BYE" /\ inv["S"].cause # Timeout /\ faults = MaxFaults
            => inv["C"].state \in {"CONFIRMED", "DISCONNECTED"} \/ inv["C"].byes > 0
===============================================================================
