------------------------------ MODULE SdpSession -------------------------------
(***************************************************************************)
(* Changing the media of a confirmed call: two PJSUA parties exchange      *)
(* offers and answers with re-INVITE (with and without an offer) and       *)
(* UPDATE, put the call on hold and release it, and may both start at the  *)
(* same time.  Messages are not lost here but may overtake each other.     *)
(*                                                                         *)
(* A party is the negotiator of its INVITE session (sip_inv.c), the        *)
(* session's transactions, and what PJSUA remembers of the hold            *)
(* (pjsua_call.c).  As in InvCall the operators take a party and return it *)
(* changed, with the messages that it is about to send in out.             *)
(***************************************************************************)
EXTENDS SdpNeg

CONSTANTS Offers,       \* party -> media that its user may ask for; the answers use Media
          Media,        \* party -> what it can do: a line for each type it supports
          MaxRequests,  \* bound of the requests of both users
          Declines,     \* what the user may decline: an offer in a "request", in a "response"
          Habits        \* of the users: "own" asks for one thing at a time, "other" does not start
                        \* while a re-INVITE is being answered, "hold" releases only a hold

ASSUME SdpSessionAssumption ==
    MaxRequests \in Nat /\ Declines \subseteq {"request", "response"} /\ Habits \subseteq {"own", "other", "hold"}

Parties == {"C", "S"}

Other(p) == IF p = "C" THEN "S" ELSE "C"

\* The formats with a static payload type, all formats, and lines of them.
StaticFmts ==
    LET lines == UNION {Range(media) : media \in {Media[p] : p \in Parties} \cup UNION {Offers[p] : p \in Parties}}
    IN  {f \in UNION {Range(line.fmts) : line \in lines} : f.pt < START_DYNAMIC_PT}
Fmts  == StaticFmts \cup [pt : DynPts, codec : DynCodecs]
Lines == [type : Types, active : BOOLEAN, dir : SUBSET {"send", "recv"}, fmts : Seq(Fmts)]

\* A static payload type stands for one codec, a line has no more dynamic ones than there
\* are numbers ("the number of codecs with dynamic PTs won't exceed the available slots").
ASSUME SdpMediaAssumption ==
    /\ \A p \in Parties : Media[p] \in Seq(Lines) /\ OneOfEach(Media[p])
    /\ \A p \in Parties : \A media \in Offers[p] :
           /\ media \in Seq(Lines) /\ OneOfEach(media) /\ media # <<>>
           /\ \A k \in DOMAIN media : Cardinality(Dynamic(media[k].fmts)) <= Cardinality(DynPts)
    /\ \A f, g \in StaticFmts : f.pt = g.pt => f = g

VARIABLES party,    \* party -> its state
          net,      \* messages on their way
          requests  \* requests of the users so far

vars == <<party, net, requests>>

\* invite_tsx: done says that its offer and answer are over (tsx_inv_data), ok that the
\* server has sent a 2xx.
NoTsx == [role |-> "none", cseq |-> 0, done |-> FALSE, ok |-> FALSE]

Msg(p, kind, cseq, sdp) == [to |-> Other(p), kind |-> kind, cseq |-> cseq, sdp |-> sdp]

Send(s, m) == [s EXCEPT !.out = @ \cup {m}]

---------------------------------------------------------------------------
\* What PJSUA offers and answers

\* modify_sdp_of_call_hold of an offer: a line that sends now is "sendonly".
HoldOffer(s, media) ==
    LET active == s.neg.active_local.media
        sends(t) == /\ t \in TypesOf(active)
                    /\ LineOf(active, t).active /\ "send" \in LineOf(active, t).dir
    IN  [k \in DOMAIN media |->
            [media[k] EXCEPT !.dir = IF sends(media[k].type) THEN {"send"} ELSE {}]]

\* pjsua_media_channel_create_sdp for the lines of an offer, and its hold as the answerer.
LocalAnswer(p, s, offer) ==
    [k \in DOMAIN offer.media |->
        LET om == offer.media[k]
            can == om.active /\ om.type \in TypesOf(Media[p])
            line == IF can THEN LineOf(Media[p], om.type) ELSE Deactivate(om)
        IN  IF s.local_hold THEN [line EXCEPT !.dir = {"send"}] ELSE line]

\* inv_check_sdp_in_incoming_msg of an offer, with pjsua_call_on_rx_offer: the user takes
\* the offer, and the answer is ready, or does not, and there is none.
RxOffer(p, s, sdp, where) ==
    LET offered == [s EXCEPT !.neg = set_remote_offer(@, sdp), !.unhold = FALSE]
        taken == [offered EXCEPT !.neg = set_local_answer(@, LocalAnswer(p, s, sdp))]
    IN  IF where \in Declines THEN {taken, offered} ELSE {taken}

---------------------------------------------------------------------------
\* Server: a request of the other party

\* A failure response.  The re-INVITE that was saved stays until its ACK.
Reject(p, s, m) == Send(s, Msg(p, "Fail", m.cseq, NoSdp))

\* The answer, or a failure when the negotiation failed.
Respond(p, s, m, result) ==
    IF result.ok THEN Send([s EXCEPT !.neg = result.neg], Msg(p, "OK", m.cseq, result.neg.active_local))
    ELSE Reject(p, [s EXCEPT !.neg = result.neg], m)

\* The response to a request that had an offer; a failure when the user declined it.
RespondOffer(p, s, m) ==
    IF s.neg.state = "REMOTE_OFFER" THEN Reject(p, [s EXCEPT !.neg = cancel_offer(@)], m)
    ELSE Respond(p, s, m, negotiate(s.neg))

\* The 2xx to a re-INVITE without an offer carries ours (pjsua_call_on_create_offer).
SendOffer(p, s, m, neg) ==
    Send([s EXCEPT !.neg = neg, !.unhold = FALSE, !.invite.ok = TRUE], Msg(p, "OK", m.cseq, neg.neg_local))

RespondWithOffer(p, s, m, media) ==
    SendOffer(p, s, m, modify_local_offer(s.neg, IF s.local_hold THEN HoldOffer(s, media) ELSE media))

MarkDone(s) ==
    IF \E m \in s.out : m.kind = "OK" THEN [s EXCEPT !.invite.ok = TRUE, !.invite.done = TRUE] ELSE s

\* Mutant of RxInvite: a re-INVITE is taken while our own is pending.
RxInviteGlare(p, s, m) ==
    LET saved == [s EXCEPT !.invite = [NoTsx EXCEPT !.role = "uas", !.cseq = m.cseq]]
    IN  CASE m.sdp # NoSdp -> {MarkDone(RespondOffer(p, o, m)) : o \in RxOffer(p, saved, m.sdp, "request")}
          [] m.sdp = NoSdp -> {RespondWithOffer(p, saved, m, media) : media \in Offers[p]}

\* inv_on_state_confirmed, a re-INVITE.
RxInvite(p, s, m) ==
    LET saved == [s EXCEPT !.invite = [NoTsx EXCEPT !.role = "uas", !.cseq = m.cseq]]
    IN  CASE s.invite.role # "none" -> {Reject(p, s, m)}
          [] s.invite.role = "none" /\ s.neg.state # "DONE" -> {Reject(p, saved, m)}
          [] s.invite.role = "none" /\ s.neg.state = "DONE" /\ m.sdp # NoSdp ->
                 {MarkDone(RespondOffer(p, o, m)) : o \in RxOffer(p, saved, m.sdp, "request")}
          [] s.invite.role = "none" /\ s.neg.state = "DONE" /\ m.sdp = NoSdp ->
                 {RespondWithOffer(p, saved, m, media) : media \in Offers[p]}

\* inv_respond_incoming_update.
RxUpdate(p, s, m) ==
    IF s.neg.state # "DONE" THEN {Reject(p, s, m)}
    ELSE {RespondOffer(p, o, m) : o \in RxOffer(p, s, m.sdp, "request")}

\* The dialog refuses a request that is older than the last one.
RxRequest(p, s, m) ==
    LET fresh == [s EXCEPT !.remote_cseq = m.cseq]
    IN  IF m.cseq <= s.remote_cseq THEN {Reject(p, s, m)}
        ELSE IF m.kind = "INVITE" THEN RxInvite(p, fresh, m)
        ELSE RxUpdate(p, fresh, m)

\* Local offer without an answer.
CancelLocal(s) == IF s.neg.state = "LOCAL_OFFER" THEN [s EXCEPT !.neg = cancel_offer(@)] ELSE s

\* The SDP in a message that belongs to transaction tsx, where it can only be an answer.
RxAnswer(s, done, sdp) ==
    IF sdp = NoSdp \/ done \/ s.neg.state # "LOCAL_OFFER" THEN s
    ELSE [s EXCEPT !.neg = negotiate(set_remote_answer(@, sdp)).neg]

\* mod_inv_on_rx_request of the ACK, or the confirmation of a transaction that failed.
RxAck(s, m) ==
    CASE s.invite.role # "uas" \/ s.invite.cseq # m.cseq -> s
      [] s.invite.role = "uas" /\ s.invite.cseq = m.cseq /\ s.invite.ok ->
             [CancelLocal(RxAnswer(s, s.invite.done, m.sdp)) EXCEPT !.invite = NoTsx]
      [] s.invite.role = "uas" /\ s.invite.cseq = m.cseq /\ ~s.invite.ok -> [s EXCEPT !.invite = NoTsx]

---------------------------------------------------------------------------
\* Client: the response to a request of ours

\* The ACK carries the answer, when there is one.
Ack(p, s, result) ==
    [Send(s, Msg(p, "ACK", s.invite.cseq, IF result.ok THEN result.neg.active_local ELSE NoSdp))
        EXCEPT !.neg = result.neg, !.invite = NoTsx]

\* inv_send_ack with inv_has_pending_answer.
SendAck(p, s) ==
    Ack(p, s, IF s.neg.state = "WAIT_NEGO" THEN negotiate(s.neg) ELSE [ok |-> FALSE, neg |-> s.neg])

\* Mutant of HoldOver: the message stays remembered after its transaction.
HoldOverNot(s) == s

\* pjsua_call_on_tsx_state_changed: hold_msg is forgotten with its transaction.
HoldOver(s) == [s EXCEPT !.hold_msg = IF @ = s.invite.cseq THEN 0 ELSE @]

\* The 2xx to our re-INVITE: its SDP is an answer, or an offer when there is none of ours.
RxInviteOk(p, s, m) ==
    LET got == IF s.neg.state = "DONE" /\ m.sdp # NoSdp THEN RxOffer(p, HoldOver(s), m.sdp, "response")
               ELSE {RxAnswer(HoldOver(s), FALSE, m.sdp)}
    IN  {SendAck(p, CancelLocal(g)) : g \in got}

\* Mutant of RxInviteFail: the offer is left as it is.
RxInviteFailKeeps(p, s) ==
    [Send(HoldOver(s), Msg(p, "ACK", s.invite.cseq, NoSdp)) EXCEPT !.invite = NoTsx]

\* Mutant of RxInviteFail: a hold that failed stays in place.
RxInviteFailHolds(p, s) ==
    LET held == [s EXCEPT !.local_hold = s.unhold \/ @]
    IN  [Send(CancelLocal(HoldOver(held)), Msg(p, "ACK", s.invite.cseq, NoSdp)) EXCEPT !.invite = NoTsx]

\* Its failure, with pjsua_call_on_tsx_state_changed: a hold that was asked for with it is
\* not in place, a hold that was to be released is.
RxInviteFail(p, s) ==
    LET held == [s EXCEPT !.local_hold = IF s.hold_msg = s.invite.cseq THEN FALSE ELSE s.unhold \/ @]
    IN  [Send(CancelLocal(HoldOver(held)), Msg(p, "ACK", s.invite.cseq, NoSdp)) EXCEPT !.invite = NoTsx]

\* The end of inv_handle_update_response: an offer that got no answer is given up.
GiveUp(s, u) ==
    IF s.neg.state = "LOCAL_OFFER" /\ ~u.done
    THEN [CancelLocal(s) EXCEPT !.updates = (@ \ {u}) \cup {[u EXCEPT !.done = TRUE]}]
    ELSE s

Completed(s, u, done) ==
    [s EXCEPT !.updates = (@ \ {u}) \cup {[u EXCEPT !.completed = TRUE, !.done = done]}]

\* inv_handle_update_response of the response; the transaction has still to terminate.
RxUpdateResponse(s, u, m) ==
    LET answered == m.kind = "OK" /\ s.neg.state = "LOCAL_OFFER"
        sdp == IF m.kind = "OK" THEN m.sdp ELSE NoSdp
    IN  GiveUp(Completed(RxAnswer(s, u.done, sdp), u, answered), [u EXCEPT !.completed = TRUE, !.done = answered])

RxResponse(p, s, m) ==
    IF s.invite.role = "uac" /\ s.invite.cseq = m.cseq
    THEN IF m.kind = "OK" THEN RxInviteOk(p, s, m) ELSE {RxInviteFail(p, s)}
    ELSE {RxUpdateResponse(s, u, m) : u \in {v \in s.updates : v.cseq = m.cseq /\ ~v.completed}}

---------------------------------------------------------------------------
\* Actions

Becomes(p, s) == party' = [party EXCEPT ![p] = [s EXCEPT !.out = {}]]

\* The call has been set up with the first media of each party.
Confirmed(p, neg) ==
    [neg |-> neg, invite |-> NoTsx, updates |-> {}, cseq |-> 0, remote_cseq |-> 0,
     local_hold |-> FALSE, hold_msg |-> 0, unhold |-> FALSE, out |-> {}]

Init ==
    LET offering == create_w_local_offer(Media["C"])
        answering == set_local_answer(create_w_remote_offer(offering.neg_local),
                         LocalAnswer("S", [local_hold |-> FALSE], offering.neg_local))
        answered == negotiate(answering).neg
        agreed == negotiate(set_remote_answer(offering, answered.active_local)).neg
    IN  /\ party = [p \in Parties |-> Confirmed(p, IF p = "C" THEN agreed ELSE answered)]
        /\ net = {}
        /\ requests = 0

\* The user starts something.
MayAsk(p) ==
    /\ requests < MaxRequests
    /\ requests' = requests + 1
    /\ "own" \in Habits => party[p].invite.role # "uac" /\ \A u \in party[p].updates : u.completed
    /\ "other" \in Habits => party[p].invite.role # "uas"

\* p becomes one of states, and what it has to say is sent.
Sent(p, states) == \E s \in states : Becomes(p, s) /\ net' = net \cup s.out

\* pjsip_inv_reinvite: an offer that is still without an answer is sent again instead of
\* the new one; media is <<>> for a re-INVITE without an offer.
SendReinvite(p, s, neg) ==
    Send([s EXCEPT !.neg = neg, !.cseq = @ + 1, !.invite = [NoTsx EXCEPT !.role = "uac", !.cseq = s.cseq + 1]],
         Msg(p, "INVITE", s.cseq + 1, IF neg.state = "LOCAL_OFFER" THEN neg.neg_local ELSE NoSdp))

Reinvite(p, s, media) ==
    SendReinvite(p, s, IF s.neg.state = "DONE" /\ media # <<>> THEN modify_local_offer(s.neg, media) ELSE s.neg)

\* pjsua_call_set_hold2.
Hold(p) ==
    LET s == party[p]
    IN  /\ MayAsk(p)
        /\ s.invite.role = "none"
        /\ Sent(p, {[Reinvite(p, s, HoldOffer(s, media))
                        EXCEPT !.local_hold = TRUE, !.hold_msg = s.cseq + 1, !.unhold = FALSE] : media \in Offers[p]})

\* What pjsua_call_reinvite2 and pjsua_call_update2 offer.
Wanted(s, unhold, media) == IF s.local_hold /\ ~unhold THEN HoldOffer(s, media) ELSE media

\* pjsua_call_reinvite2, with the flag PJSUA_CALL_UNHOLD or not.
CallReinvite(p, unhold) ==
    LET s == party[p]
    IN  /\ MayAsk(p)
        /\ "hold" \in Habits => unhold = s.local_hold
        /\ s.invite.role = "none"
        /\ Sent(p, {[Reinvite(p, [s EXCEPT !.unhold = unhold], Wanted(s, unhold, media))
                        EXCEPT !.local_hold = @ /\ ~unhold] : media \in Offers[p]})

\* The same without an offer (PJSUA_CALL_NO_SDP_OFFER), which cannot release a hold.
CallReinviteNoOffer(p) ==
    LET s == party[p]
    IN  /\ MayAsk(p)
        /\ s.invite.role = "none"
        /\ ~s.local_hold
        /\ Sent(p, {Reinvite(p, [s EXCEPT !.unhold = FALSE], <<>>)})

\* pjsip_inv_update.
SendUpdate(p, s, neg) ==
    Send([s EXCEPT !.neg = neg, !.cseq = @ + 1,
                   !.updates = @ \cup {[cseq |-> s.cseq + 1, done |-> FALSE, completed |-> FALSE]}],
         Msg(p, "UPDATE", s.cseq + 1, neg.neg_local))

Updating(p, s, media) == SendUpdate(p, s, modify_local_offer(s.neg, media))

\* pjsua_call_update2, which needs a negotiator that is done.
CallUpdate(p, unhold) ==
    LET s == party[p]
    IN  /\ MayAsk(p)
        /\ "hold" \in Habits => ~unhold
        /\ s.neg.state = "DONE"
        /\ Sent(p, {Updating(p, [s EXCEPT !.unhold = unhold, !.local_hold = @ /\ ~unhold],
                             Wanted(s, unhold, media)) : media \in Offers[p]})

\* A message arrives.
Receives(m) ==
    LET s == party[m.to]
    IN  CASE m.kind \in {"INVITE", "UPDATE"} -> RxRequest(m.to, s, m)
          [] m.kind = "ACK" -> {RxAck(s, m)}
          [] m.kind \in {"OK", "Fail"} -> RxResponse(m.to, s, m)

Deliver(m) ==
    /\ m \in net
    /\ \E s \in Receives(m) : Becomes(m.to, s) /\ net' = (net \ {m}) \cup s.out
    /\ UNCHANGED requests

\* Timer K of an UPDATE: the session is told of the transaction once more.
UpdateTerminates(p) ==
    /\ \E u \in party[p].updates :
           /\ u.completed
           /\ Becomes(p, [GiveUp(party[p], u) EXCEPT !.updates = {v \in @ : v.cseq # u.cseq}])
    /\ UNCHANGED <<net, requests>>

Ask(p) ==
    \/ Hold(p)
    \/ \E unhold \in BOOLEAN : CallReinvite(p, unhold) \/ CallUpdate(p, unhold)
    \/ CallReinviteNoOffer(p)

Next ==
    \/ \E p \in Parties : Ask(p) \/ UpdateTerminates(p)
    \/ \E m \in net : Deliver(m)

Spec == Init /\ [][Next]_vars

---------------------------------------------------------------------------
\* Properties

\* Types; nothing is left unsent, and a hold that waits for its response belongs to the
\* re-INVITE that is under way.
TypeOK ==
    /\ \A p \in Parties :
           /\ party[p].neg.state \in NegStates
           /\ party[p].invite.role \in {"none", "uac", "uas"}
           /\ party[p].out = {}
           /\ party[p].local_hold \in BOOLEAN /\ party[p].unhold \in BOOLEAN
           /\ party[p].cseq \in 0 .. MaxRequests /\ party[p].remote_cseq \in 0 .. MaxRequests
           /\ party[p].hold_msg \in {0, party[p].invite.cseq}
    /\ requests \in 0 .. MaxRequests

\* Nothing is under way.
Quiet == net = {} /\ \A p \in Parties : party[p].invite = NoTsx /\ \A u \in party[p].updates : u.completed

Active(p) == party[p].neg.active_local.media

\* Once nothing is under way both parties have the same lines on, with the same codecs,
\* and one may send what the other receives: whatever was offered, rejected or crossed.
Agreement ==
    Quiet =>
        /\ Len(Active("C")) = Len(Active("S"))
        /\ \A k \in DOMAIN Active("C") :
               LET c == Active("C")[k]
                   s == Active("S")[k]
               IN  /\ c.type = s.type /\ c.active = s.active
                   /\ c.active => /\ c.dir = Mirror(s.dir)
                                  /\ [i \in DOMAIN c.fmts |-> c.fmts[i].codec] = [i \in DOMAIN s.fmts |-> s.fmts[i].codec]

\* No offer stays open: once nothing is under way the negotiator is DONE, or no more offer
\* could be made or taken in this call.
OfferEnds == Quiet => \A p \in Parties : party[p].neg.state = "DONE"

\* The offer of an UPDATE stays open until the UPDATE has its response: no other transaction
\* cancels or answers it ("Prevent from us cancelling different offer!", sip_inv.c).
OfferWaits == \A p \in Parties : (\E u \in party[p].updates : ~u.completed) => party[p].neg.state = "LOCAL_OFFER"

\* A payload type keeps its codec as long as its line is on (RFC 3264, 8.3.2).
PtKeepsCodec ==
    [][\A p \in Parties, t \in Types, pt \in DynPts :
           LET old == party[p].neg.to_codec[t]
               new == party'[p].neg.to_codec[t]
           IN  old[pt] # NoCodec => new[pt] = old[pt] \/ new = NoMap[t]]_vars

\* A party that PJSUA reports as holding the call (PJSUA_CALL_MEDIA_LOCAL_HOLD: "The media
\* is currently put on hold by local endpoint") does not receive media.
HoldTrue ==
    Quiet => \A p \in Parties : party[p].local_hold =>
                 \A k \in DOMAIN Active(p) : Active(p)[k].active => "recv" \notin Active(p)[k].dir
===============================================================================
