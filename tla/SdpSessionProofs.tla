--------------------------- MODULE SdpSessionProofs ---------------------------
(***************************************************************************)
(* Proofs about two parties that change the media of a confirmed call, for *)
(* every media they have and ask for and any number of requests: the       *)
(* parties stay well typed, no offer stays open, and the offer of an       *)
(* UPDATE waits for its response.                                          *)
(*                                                                         *)
(* What the offers contain plays no part here: of a negotiator the proofs  *)
(* use only its state and that an answer which is sent has a line.  What   *)
(* the lines come to is the matter of SdpAgreementProofs.                  *)
(***************************************************************************)
EXTENDS SdpSession, TLAPS

Kinds    == {"INVITE", "UPDATE", "OK", "Fail", "ACK"}
Requests == {"INVITE", "UPDATE"}
Tsx      == [role : {"none", "uac", "uas"}, cseq : Nat, done : BOOLEAN, ok : BOOLEAN]
Update   == [cseq : Nat, done : BOOLEAN, completed : BOOLEAN]

\* The fields of a negotiator, of a party and of a message.
NegShape(n) ==
    n \in [state : {n.state}, active_local : {n.active_local}, active_remote : {n.active_remote},
           neg_local : {n.neg_local}, neg_remote : {n.neg_remote}, last_sent : {n.last_sent},
           has_remote_answer : {n.has_remote_answer}, to_codec : {n.to_codec}, to_pt : {n.to_pt}]

PartyShape(s) ==
    s \in [neg : {s.neg}, invite : {s.invite}, updates : {s.updates}, cseq : {s.cseq},
           remote_cseq : {s.remote_cseq}, local_hold : {s.local_hold}, hold_msg : {s.hold_msg},
           unhold : {s.unhold}, out : {s.out}]

MsgShape(m) == m \in [to : {m.to}, kind : {m.kind}, cseq : {m.cseq}, sdp : {m.sdp}]

Pending(s) == {u \in s.updates : ~u.completed}

\* Number c is that of a re-INVITE of s, not of an UPDATE.
OfInvite(c, s) == c <= s.cseq /\ \A u \in s.updates : u.cseq # c

\* A party inside a handler and between two.
Sound(s) ==
    /\ PartyShape(s) /\ NegShape(s.neg) /\ s.neg.state \in NegStates
    /\ s.invite \in Tsx /\ s.updates \subseteq Update
    /\ s.cseq \in Nat /\ s.remote_cseq \in Nat
    /\ s.local_hold \in BOOLEAN /\ s.unhold \in BOOLEAN
    /\ s.hold_msg \in {0, s.invite.cseq}
    /\ s.invite.role # "uac" => s.hold_msg = 0
    /\ \A u \in s.updates : u.cseq <= s.cseq
    /\ \A u, v \in s.updates : u.cseq = v.cseq => u = v

\* An offer of ours that is open has a transaction that will close it.
Ends(s) ==
    /\ s.neg.state \in {"DONE", "LOCAL_OFFER"}
    /\ s.neg.state = "LOCAL_OFFER" =>
          \/ s.invite.role = "uac"
          \/ Pending(s) # {}
          \/ s.invite.role = "uas" /\ s.invite.ok /\ ~s.invite.done
    /\ \A u \in Pending(s) : ~u.done

\* While an UPDATE is under way no other transaction can close its offer: no re-INVITE of
\* ours, no ACK to come for a 2xx, and no earlier UPDATE that did not notice its own end.
Waits(s) ==
    /\ Pending(s) # {} => /\ s.neg.state = "LOCAL_OFFER" /\ s.invite.role # "uac"
                          /\ s.invite.role = "uas" => ~s.invite.ok
    /\ \A u, v \in Pending(s) : u = v
    /\ \A u \in s.updates : u.completed => u.done

\* What a message that f sent to t says of their numbers: a 2xx without a description is
\* the response to a re-INVITE.
Wire(m, f, t) ==
    /\ MsgShape(m) /\ m.kind \in Kinds /\ m.cseq \in Nat
    /\ m.kind \in Requests => m.cseq <= f.cseq
    /\ m.kind = "INVITE" => OfInvite(m.cseq, f)
    /\ m.kind = "OK" /\ m.sdp = NoSdp => OfInvite(m.cseq, t)

\* Offers that come in a response are taken; users ask for one thing at a time and do not
\* start while they are answering.
Takes == "response" \notin Declines
Patient == {"own", "other"} \subseteq Habits

Kept(s) == Sound(s) /\ (Takes => Ends(s)) /\ (Patient => Waits(s))

\* The inductive invariant.
IInv ==
    /\ requests \in 0 .. MaxRequests
    /\ party = [p \in Parties |-> party[p]]
    /\ \A p \in Parties : Kept(party[p]) /\ party[p].cseq <= requests
                          /\ party[p].remote_cseq <= MaxRequests /\ party[p].out = {}
    /\ \A m \in net : m.to \in Parties /\ Wire(m, party[Other(m.to)], party[m.to])

-------------------------------------------------------------------------------
(* The negotiator.                                                         *)

\* An offer of ours is open afterwards.
LEMMA OfferFacts ==
    ASSUME NEW n, NEW media, NegShape(n)
    PROVE  NegShape(modify_local_offer(n, media)) /\ modify_local_offer(n, media).state = "LOCAL_OFFER"
<1> DEFINE fixed == assign_pt_and_update_map(
        n, [ver |-> n.active_local.ver, media |-> OfferLines(n.active_local.media, media)], TRUE)
           offer == Bumped(n.last_sent, fixed.sdp)
<1>1. modify_local_offer(n, media) = OfferOf(n, offer, fixed)
    BY DEF modify_local_offer, NumberedOffer
<1> HIDE DEF fixed, offer
<1>2. NegShape(OfferOf(n, offer, fixed)) /\ OfferOf(n, offer, fixed).state = "LOCAL_OFFER"
    BY DEF NegShape, OfferOf
<1> QED BY <1>1, <1>2

\* The negotiator while the other party's offer or answer is taken.
LEMMA TakeFacts ==
    ASSUME NEW n, NEW x, NegShape(n)
    PROVE  /\ NegShape(set_remote_offer(n, x)) /\ set_remote_offer(n, x).state = "REMOTE_OFFER"
           /\ NegShape(set_local_answer(n, x)) /\ set_local_answer(n, x).state = "WAIT_NEGO"
           /\ NegShape(set_remote_answer(n, x)) /\ set_remote_answer(n, x).state = "WAIT_NEGO"
    BY DEF NegShape, set_remote_offer, set_local_answer, set_remote_answer

LEMMA CancelFacts ==
    ASSUME NEW n, NegShape(n)
    PROVE  NegShape(cancel_offer(n)) /\ cancel_offer(n).state = "DONE"
    BY DEF NegShape, cancel_offer, Cleared

\* A description with a line that is on is not the empty one.
LEMMA ActiveFacts ==
    ASSUME NEW sdp, has_active(sdp)
    PROVE  sdp # NoSdp
    BY DEF has_active, NoSdp

\* A negotiation is done afterwards, whether it succeeded or not, and what it agreed on has
\* a line.
LEMMA NegotiateFacts ==
    ASSUME NEW n, NegShape(n)
    PROVE  /\ NegShape(negotiate(n).neg) /\ negotiate(n).neg.state = "DONE"
           /\ negotiate(n).ok => negotiate(n).neg.active_local # NoSdp
<1>1. ASSUME NEW new, NegShape(new), new.state = "DONE"
      PROVE  /\ NegShape(Concluded(n, new).neg) /\ Concluded(n, new).neg.state = "DONE"
             /\ Concluded(n, new).ok => Concluded(n, new).neg.active_local # NoSdp
    <2>1. CASE has_active(new.active_local)
        <3>1. Concluded(n, new) = [ok |-> TRUE, neg |-> new]
            BY <2>1 DEF Concluded
        <3> QED BY <1>1, <2>1, <3>1, ActiveFacts
    <2>2. CASE ~has_active(new.active_local)
        <3>1. Concluded(n, new) = [ok |-> FALSE, neg |-> cancel_offer(n)]
            BY <2>2 DEF Concluded, cancel_offer
        <3> QED BY <3>1, CancelFacts
    <2> QED BY <2>1, <2>2
<1>2. CASE n.has_remote_answer
    <2> DEFINE pairs == process_answer(n.neg_local, n.neg_remote)
    <2>1. negotiate(n) = Concluded(n, Agreed(n, pairs))
        BY <1>2 DEF negotiate
    <2> HIDE DEF pairs
    <2> DEFINE L == [n.neg_local EXCEPT !.media = [k \in DOMAIN pairs |-> pairs[k][1]]]
               R == [n.neg_remote EXCEPT !.media = [k \in DOMAIN pairs |-> pairs[k][2]]]
    <2>2. Agreed(n, pairs) = [cancel_offer(n) EXCEPT !.active_local = L, !.active_remote = R]
        BY DEF Agreed, cancel_offer
    <2> HIDE DEF L, R
    <2>3. NegShape(Agreed(n, pairs)) /\ Agreed(n, pairs).state = "DONE"
        BY <2>2, CancelFacts DEF NegShape
    <2> QED BY <1>1, <2>1, <2>3
<1>3. CASE ~n.has_remote_answer
    <2> DEFINE fixed == assign_pt_and_update_map(n, create_answer(n.neg_local, n.neg_remote), FALSE)
               answer == Bumped(n.last_sent, [fixed.sdp EXCEPT !.ver = n.last_sent.ver])
    <2>1. negotiate(n) = Concluded(n, AnswerOf(n, answer, fixed))
        BY <1>3 DEF negotiate, Answered, NumberedAnswer
    <2> HIDE DEF fixed, answer
    <2>2. NegShape(AnswerOf(n, answer, fixed)) /\ AnswerOf(n, answer, fixed).state = "DONE"
        BY DEF NegShape, AnswerOf, Cleared
    <2> QED BY <1>1, <2>1, <2>2
<1> QED BY <1>2, <1>3

-------------------------------------------------------------------------------
(* Parties: what an operator leaves alone.                                 *)

\* All but the negotiator, the mark of an unhold and what is sent.
Calm(s, o) ==
    /\ PartyShape(o) /\ NegShape(o.neg) /\ o.unhold \in BOOLEAN
    /\ o.invite = s.invite /\ o.updates = s.updates /\ o.cseq = s.cseq
    /\ o.remote_cseq = s.remote_cseq /\ o.local_hold = s.local_hold /\ o.hold_msg = s.hold_msg

\* What p sends in response to request m.
Answers(p, m, out) ==
    \A x \in out : /\ MsgShape(x) /\ x.to = Other(p) /\ x.kind \in {"OK", "Fail"} /\ x.cseq = m.cseq
                   /\ x.kind = "OK" /\ x.sdp = NoSdp => m.kind = "INVITE"

LEMMA MsgFacts ==
    ASSUME NEW p, NEW kind, NEW cseq, NEW sdp
    PROVE  LET x == Msg(p, kind, cseq, sdp)
           IN  MsgShape(x) /\ x.to = Other(p) /\ x.kind = kind /\ x.cseq = cseq /\ x.sdp = sdp
    BY DEF Msg, MsgShape

LEMMA SendFacts ==
    ASSUME NEW s, NEW x, PartyShape(s)
    PROVE  /\ PartyShape(Send(s, x)) /\ Send(s, x).out = s.out \cup {x}
           /\ Send(s, x).neg = s.neg /\ Send(s, x).invite = s.invite /\ Send(s, x).updates = s.updates
           /\ Send(s, x).cseq = s.cseq /\ Send(s, x).remote_cseq = s.remote_cseq
           /\ Send(s, x).local_hold = s.local_hold /\ Send(s, x).hold_msg = s.hold_msg
           /\ Send(s, x).unhold = s.unhold
    BY DEF PartyShape, Send

\* A change of the negotiator.
LEMMA NegSet ==
    ASSUME NEW s, NEW n, PartyShape(s)
    PROVE  LET o == [s EXCEPT !.neg = n]
           IN  /\ PartyShape(o) /\ o.neg = n /\ o.out = s.out /\ o.unhold = s.unhold
               /\ o.invite = s.invite /\ o.updates = s.updates /\ o.cseq = s.cseq
               /\ o.remote_cseq = s.remote_cseq /\ o.local_hold = s.local_hold /\ o.hold_msg = s.hold_msg
    BY DEF PartyShape

\* The offer of the other party is taken or, where the user may, declined.
LEMMA RxOfferFacts ==
    ASSUME NEW p, NEW s, NEW sdp, NEW where, PartyShape(s), NegShape(s.neg),
           NEW o \in RxOffer(p, s, sdp, where)
    PROVE  /\ Calm(s, o) /\ o.out = s.out
           /\ o.neg.state \in {"WAIT_NEGO", "REMOTE_OFFER"}
           /\ where \notin Declines => o.neg.state = "WAIT_NEGO"
<1> DEFINE n == set_remote_offer(s.neg, sdp)
           offered == [s EXCEPT !.neg = n, !.unhold = FALSE]
           k == set_local_answer(n, LocalAnswer(p, s, sdp))
           taken == [offered EXCEPT !.neg = k]
<1>1. NegShape(n) /\ n.state = "REMOTE_OFFER"
    BY TakeFacts
<1>2. NegShape(k) /\ k.state = "WAIT_NEGO"
    BY <1>1, TakeFacts
<1> HIDE DEF n
<1>3. Calm(s, offered) /\ offered.out = s.out /\ offered.neg = n
    BY <1>1 DEF Calm, PartyShape
<1> HIDE DEF offered, k
<1>4. Calm(s, taken) /\ taken.out = s.out /\ taken.neg = k
    BY <1>2, <1>3, NegSet DEF Calm
<1>5. o = taken \/ (where \in Declines /\ o = offered)
    <2>1. taken = [offered EXCEPT !.neg = set_local_answer(@, LocalAnswer(p, s, sdp))]
        BY <1>3 DEF k, Calm, PartyShape
    <2>2. offered = [s EXCEPT !.neg = set_remote_offer(@, sdp), !.unhold = FALSE]
        BY DEF offered, n
    <2> HIDE DEF taken
    <2>3. RxOffer(p, s, sdp, where) = IF where \in Declines THEN {taken, offered} ELSE {taken}
        BY <2>1, <2>2 DEF RxOffer
    <2> QED BY <2>3
<1> QED BY <1>1, <1>2, <1>3, <1>4, <1>5

\* The response to an offer closes it.
LEMMA RespondOfferFacts ==
    ASSUME NEW p, NEW s, NEW m, PartyShape(s), NegShape(s.neg), s.unhold \in BOOLEAN, s.out = {}
    PROVE  /\ Calm(s, RespondOffer(p, s, m)) /\ RespondOffer(p, s, m).neg.state = "DONE"
           /\ Answers(p, m, RespondOffer(p, s, m).out)
<1>1. ASSUME NEW n, NEW kind \in {"OK", "Fail"}, NEW sdp, NegShape(n), n.state = "DONE",
             kind = "OK" => sdp # NoSdp
      PROVE  LET o == Send([s EXCEPT !.neg = n], Msg(p, kind, m.cseq, sdp))
             IN  Calm(s, o) /\ o.neg.state = "DONE" /\ Answers(p, m, o.out)
    <2> DEFINE t == [s EXCEPT !.neg = n]
               x == Msg(p, kind, m.cseq, sdp)
               o == Send(t, x)
    <2>1. Calm(s, t) /\ t.neg = n /\ t.out = {}
        BY <1>1, NegSet DEF Calm
    <2>2. MsgShape(x) /\ x.to = Other(p) /\ x.kind = kind /\ x.cseq = m.cseq /\ x.sdp = sdp
        BY MsgFacts
    <2> HIDE DEF t, x
    <2>3. Calm(s, o) /\ o.neg = n /\ o.out = {x}
        BY <2>1, SendFacts DEF Calm
    <2> HIDE DEF o
    <2>4. Answers(p, m, o.out)
        BY <1>1, <2>2, <2>3 DEF Answers
    <2>5. Calm(s, o) /\ o.neg.state = "DONE" /\ Answers(p, m, o.out)
        BY <1>1, <2>3, <2>4
    <2> QED BY <2>5 DEF o, t, x
<1>2. CASE s.neg.state = "REMOTE_OFFER"
    <2> DEFINE n == cancel_offer(s.neg)
    <2>1. NegShape(n) /\ n.state = "DONE"
        BY CancelFacts
    <2>2. RespondOffer(p, s, m) = Send([s EXCEPT !.neg = n], Msg(p, "Fail", m.cseq, NoSdp))
        BY <1>2 DEF RespondOffer, Reject
    <2> HIDE DEF n
    <2> QED BY <1>1, <2>1, <2>2
<1>3. CASE s.neg.state # "REMOTE_OFFER"
    <2> DEFINE r == negotiate(s.neg)
    <2>1. NegShape(r.neg) /\ r.neg.state = "DONE" /\ (r.ok => r.neg.active_local # NoSdp)
        BY NegotiateFacts
    <2>2. RespondOffer(p, s, m) =
              IF r.ok THEN Send([s EXCEPT !.neg = r.neg], Msg(p, "OK", m.cseq, r.neg.active_local))
              ELSE Send([s EXCEPT !.neg = r.neg], Msg(p, "Fail", m.cseq, NoSdp))
        BY <1>3 DEF RespondOffer, Respond, Reject
    <2> HIDE DEF r
    <2> QED BY <1>1, <2>1, <2>2
<1> QED BY <1>2, <1>3

-------------------------------------------------------------------------------
(* A request arrives.                                                      *)

\* What handling a request may do to the open offer and the re-INVITE of s: neither changes;
\* the re-INVITE is saved to be refused, while an offer is open; its offer is answered; or it
\* is answered with an offer.
Handled(s, o) ==
    \/ o.neg = s.neg /\ o.invite = s.invite
    \/ /\ o.neg = s.neg /\ s.neg.state # "DONE" /\ s.invite.role = "none"
       /\ o.invite.role = "uas" /\ ~o.invite.ok
    \/ /\ s.neg.state = "DONE" /\ o.neg.state = "DONE"
       /\ o.invite = s.invite \/ (s.invite.role = "none" /\ o.invite.role = "uas")
    \/ /\ s.neg.state = "DONE" /\ o.neg.state = "LOCAL_OFFER" /\ s.invite.role = "none"
       /\ o.invite.role = "uas" /\ o.invite.ok /\ ~o.invite.done

\* All that handling a request leaves alone.
Served(s, o) ==
    /\ PartyShape(o) /\ NegShape(o.neg) /\ o.unhold \in BOOLEAN /\ o.invite \in Tsx
    /\ o.updates = s.updates /\ o.cseq = s.cseq /\ o.remote_cseq = s.remote_cseq
    /\ o.local_hold = s.local_hold /\ o.hold_msg = s.hold_msg

LEMMA RejectFacts ==
    ASSUME NEW p, NEW s, NEW m, Sound(s), s.out = {}
    PROVE  /\ Served(s, Reject(p, s, m)) /\ Reject(p, s, m).neg = s.neg
           /\ Reject(p, s, m).invite = s.invite /\ Answers(p, m, Reject(p, s, m).out)
<1> DEFINE x == Msg(p, "Fail", m.cseq, NoSdp)
<1>1. MsgShape(x) /\ x.to = Other(p) /\ x.kind = "Fail" /\ x.cseq = m.cseq
    BY MsgFacts
<1>2. Reject(p, s, m) = Send(s, x)
    BY DEF Reject
<1> HIDE DEF x
<1> QED BY <1>1, <1>2, SendFacts DEF Sound, Served, Answers

\* The re-INVITE is saved in a session that has none.
LEMMA SaveFacts ==
    ASSUME NEW s, NEW c \in Nat, Sound(s), s.out = {}, s.invite.role = "none"
    PROVE  LET o == [s EXCEPT !.invite = [NoTsx EXCEPT !.role = "uas", !.cseq = c]]
           IN  /\ Sound(o) /\ o.out = {} /\ o.neg = s.neg /\ Served(s, o)
               /\ o.invite.role = "uas" /\ ~o.invite.ok /\ ~o.invite.done
<1> DEFINE i == [NoTsx EXCEPT !.role = "uas", !.cseq = c]
           o == [s EXCEPT !.invite = i]
<1>1. i \in Tsx /\ i.role = "uas" /\ ~i.ok /\ ~i.done
    BY DEF NoTsx, Tsx
<1> HIDE DEF i
<1>2. /\ PartyShape(o) /\ o.invite = i /\ o.neg = s.neg /\ o.out = s.out /\ o.unhold = s.unhold
      /\ o.updates = s.updates /\ o.cseq = s.cseq /\ o.remote_cseq = s.remote_cseq
      /\ o.local_hold = s.local_hold /\ o.hold_msg = s.hold_msg
    BY DEF Sound, PartyShape
<1> HIDE DEF o
<1>3. Sound(o) /\ o.out = {} /\ o.neg = s.neg /\ Served(s, o)
      /\ o.invite.role = "uas" /\ ~o.invite.ok /\ ~o.invite.done
    BY <1>1, <1>2 DEF Sound, Served
<1> QED BY <1>3 DEF o, i

\* The 2xx notes that offer and answer are over.
LEMMA MarkDoneFacts ==
    ASSUME NEW s, PartyShape(s), s.invite \in Tsx
    PROVE  /\ PartyShape(MarkDone(s)) /\ MarkDone(s).neg = s.neg /\ MarkDone(s).out = s.out
           /\ MarkDone(s).unhold = s.unhold /\ MarkDone(s).updates = s.updates
           /\ MarkDone(s).cseq = s.cseq /\ MarkDone(s).remote_cseq = s.remote_cseq
           /\ MarkDone(s).local_hold = s.local_hold /\ MarkDone(s).hold_msg = s.hold_msg
           /\ MarkDone(s).invite \in Tsx /\ MarkDone(s).invite.role = s.invite.role
<1> DEFINE i == [s.invite EXCEPT !.ok = TRUE, !.done = TRUE]
<1>1. i \in Tsx /\ i.role = s.invite.role
    BY DEF Tsx
<1>2. MarkDone(s) \in {s, [s EXCEPT !.invite = i]}
    <2>1. [s EXCEPT !.invite.ok = TRUE, !.invite.done = TRUE] = [s EXCEPT !.invite = i]
        BY DEF PartyShape, Tsx
    <2> HIDE DEF i
    <2> QED BY <2>1 DEF MarkDone
<1> HIDE DEF i
<1>3. ASSUME MarkDone(s) = [s EXCEPT !.invite = i]
      PROVE  /\ PartyShape(MarkDone(s)) /\ MarkDone(s).neg = s.neg /\ MarkDone(s).out = s.out
             /\ MarkDone(s).unhold = s.unhold /\ MarkDone(s).updates = s.updates
             /\ MarkDone(s).cseq = s.cseq /\ MarkDone(s).remote_cseq = s.remote_cseq
             /\ MarkDone(s).local_hold = s.local_hold /\ MarkDone(s).hold_msg = s.hold_msg
             /\ MarkDone(s).invite = i
    BY <1>3 DEF PartyShape
<1> QED BY <1>1, <1>2, <1>3

\* A 2xx with an offer of ours.
LEMMA RespondWithOfferFacts ==
    ASSUME NEW p, NEW s, NEW m, NEW media, Sound(s), s.out = {}, m.kind = "INVITE"
    PROVE  LET o == RespondWithOffer(p, s, m, media)
           IN  /\ Served(s, o) /\ o.neg.state = "LOCAL_OFFER"
               /\ o.invite.role = s.invite.role /\ o.invite.ok /\ (o.invite.done <=> s.invite.done)
               /\ Answers(p, m, o.out)
<1> DEFINE n == modify_local_offer(s.neg, IF s.local_hold THEN HoldOffer(s, media) ELSE media)
           i == [s.invite EXCEPT !.ok = TRUE]
           t == [s EXCEPT !.neg = n, !.unhold = FALSE, !.invite = i]
           x == Msg(p, "OK", m.cseq, n.neg_local)
           o == Send(t, x)
<1>1. RespondWithOffer(p, s, m, media) = o
    <2>1. RespondWithOffer(p, s, m, media) = SendOffer(p, s, m, n)
        BY DEF RespondWithOffer
    <2> HIDE DEF n
    <2>2. [s EXCEPT !.neg = n, !.unhold = FALSE, !.invite.ok = TRUE] = t
        BY DEF Sound, PartyShape, Tsx
    <2> QED BY <2>1, <2>2 DEF SendOffer
<1>2. NegShape(n) /\ n.state = "LOCAL_OFFER"
    BY OfferFacts DEF Sound
<1>3. i \in Tsx /\ i.role = s.invite.role /\ i.ok /\ (i.done <=> s.invite.done)
    BY DEF Sound, Tsx
<1>4. MsgShape(x) /\ x.to = Other(p) /\ x.kind = "OK" /\ x.cseq = m.cseq
    BY MsgFacts
<1> HIDE DEF n, i, x
<1>5. /\ PartyShape(t) /\ t.neg = n /\ t.out = {} /\ t.unhold = FALSE /\ t.invite = i
      /\ t.updates = s.updates /\ t.cseq = s.cseq /\ t.remote_cseq = s.remote_cseq
      /\ t.local_hold = s.local_hold /\ t.hold_msg = s.hold_msg
    BY DEF Sound, PartyShape
<1> HIDE DEF t
<1>6. /\ PartyShape(o) /\ o.neg = n /\ o.out = {x} /\ o.unhold = FALSE /\ o.invite = i
      /\ o.updates = s.updates /\ o.cseq = s.cseq /\ o.remote_cseq = s.remote_cseq
      /\ o.local_hold = s.local_hold /\ o.hold_msg = s.hold_msg
    BY <1>5, SendFacts
<1> HIDE DEF o
<1>7. Answers(p, m, o.out)
    BY <1>4, <1>6 DEF Answers
<1> QED BY <1>1, <1>2, <1>3, <1>6, <1>7 DEF Served

\* An offer in a request is answered, or declined.
LEMMA OfferedFacts ==
    ASSUME NEW p, NEW s, NEW m, Sound(s), s.out = {},
           NEW o \in RxOffer(p, s, m.sdp, "request")
    PROVE  LET r == RespondOffer(p, o, m)
           IN  Served(s, r) /\ r.neg.state = "DONE" /\ r.invite = s.invite /\ Answers(p, m, r.out)
<1>1. Calm(s, o) /\ o.out = {}
    BY RxOfferFacts DEF Sound
<1>2. /\ Calm(o, RespondOffer(p, o, m)) /\ RespondOffer(p, o, m).neg.state = "DONE"
      /\ Answers(p, m, RespondOffer(p, o, m).out)
    BY <1>1, RespondOfferFacts DEF Calm
<1> QED BY <1>1, <1>2 DEF Calm, Served, Sound

\* pjsip_inv_reinvite's other side.
LEMMA RxInviteFacts ==
    ASSUME NEW p, NEW s, NEW m, Sound(s), s.out = {}, m.kind = "INVITE", m.cseq \in Nat,
           NEW o \in RxInvite(p, s, m)
    PROVE  Served(s, o) /\ Handled(s, o) /\ Answers(p, m, o.out)
<1> DEFINE saved == [s EXCEPT !.invite = [NoTsx EXCEPT !.role = "uas", !.cseq = m.cseq]]
<1>1. CASE s.invite.role # "none"
    <2>1. o = Reject(p, s, m)
        BY <1>1 DEF RxInvite
    <2> QED BY <2>1, RejectFacts DEF Handled
<1>2. CASE s.invite.role = "none"
    <2>1. /\ Sound(saved) /\ saved.out = {} /\ saved.neg = s.neg /\ Served(s, saved)
          /\ saved.invite.role = "uas" /\ ~saved.invite.ok /\ ~saved.invite.done
        BY <1>2, SaveFacts
    <2>2. CASE s.neg.state # "DONE"
        <3>1. o = Reject(p, saved, m)
            BY <1>2, <2>2 DEF RxInvite
        <3> HIDE DEF saved
        <3>2. Served(saved, o) /\ o.neg = saved.neg /\ o.invite = saved.invite /\ Answers(p, m, o.out)
            BY <2>1, <3>1, RejectFacts
        <3> QED BY <1>2, <2>1, <2>2, <3>2 DEF Handled, Served
    <2>3. CASE s.neg.state = "DONE" /\ m.sdp # NoSdp
        <3>1. PICK g \in RxOffer(p, saved, m.sdp, "request") : o = MarkDone(RespondOffer(p, g, m))
            BY <1>2, <2>3 DEF RxInvite
        <3> DEFINE r == RespondOffer(p, g, m)
        <3> HIDE DEF saved
        <3>2. Served(saved, r) /\ r.neg.state = "DONE" /\ r.invite = saved.invite /\ Answers(p, m, r.out)
            BY <2>1, OfferedFacts
        <3>3. o = MarkDone(r)
            BY <3>1
        <3> HIDE DEF r
        <3>4. /\ PartyShape(o) /\ o.neg = r.neg /\ o.out = r.out /\ o.unhold = r.unhold
              /\ o.updates = r.updates /\ o.cseq = r.cseq /\ o.remote_cseq = r.remote_cseq
              /\ o.local_hold = r.local_hold /\ o.hold_msg = r.hold_msg
              /\ o.invite \in Tsx /\ o.invite.role = r.invite.role
            BY <3>2, <3>3, MarkDoneFacts DEF Served
        <3>5. Served(s, o)
            BY <2>1, <3>2, <3>4 DEF Served
        <3>6. Handled(s, o)
            BY <1>2, <2>1, <2>3, <3>2, <3>4 DEF Handled
        <3>7. Answers(p, m, o.out)
            BY <3>2, <3>4
        <3> QED BY <3>5, <3>6, <3>7
    <2>4. CASE s.neg.state = "DONE" /\ m.sdp = NoSdp
        <3>1. PICK media \in Offers[p] : o = RespondWithOffer(p, saved, m, media)
            BY <1>2, <2>4 DEF RxInvite
        <3> HIDE DEF saved
        <3>2. /\ Served(saved, o) /\ o.neg.state = "LOCAL_OFFER"
              /\ o.invite.role = saved.invite.role /\ o.invite.ok /\ (o.invite.done <=> saved.invite.done)
              /\ Answers(p, m, o.out)
            BY <2>1, <3>1, RespondWithOfferFacts
        <3>3. o.invite.role = "uas" /\ o.invite.ok /\ ~o.invite.done
            BY <2>1, <3>2
        <3>4. Handled(s, o)
            BY <1>2, <2>4, <3>2, <3>3 DEF Handled
        <3>5. Served(s, o)
            BY <2>1, <3>2 DEF Served
        <3> QED BY <3>2, <3>4, <3>5
    <2> QED BY <2>2, <2>3, <2>4
<1> QED BY <1>1, <1>2

\* inv_respond_incoming_update.
LEMMA RxUpdateFacts ==
    ASSUME NEW p, NEW s, NEW m, Sound(s), s.out = {}, NEW o \in RxUpdate(p, s, m)
    PROVE  Served(s, o) /\ Handled(s, o) /\ Answers(p, m, o.out)
<1>1. CASE s.neg.state # "DONE"
    <2>1. o = Reject(p, s, m)
        BY <1>1 DEF RxUpdate
    <2> QED BY <2>1, RejectFacts DEF Handled
<1>2. CASE s.neg.state = "DONE"
    <2>1. PICK g \in RxOffer(p, s, m.sdp, "request") : o = RespondOffer(p, g, m)
        BY <1>2 DEF RxUpdate
    <2>2. Served(s, o) /\ o.neg.state = "DONE" /\ o.invite = s.invite /\ Answers(p, m, o.out)
        BY <2>1, OfferedFacts
    <2> QED BY <1>2, <2>2 DEF Handled
<1> QED BY <1>1, <1>2

\* What handling a request does leaves a party as it must be.
LEMMA ServedKept ==
    ASSUME NEW s, NEW o, Kept(s), Served(s, o), Handled(s, o)
    PROVE  Kept(o)
<1>1. Sound(s)
    BY DEF Kept
<1>2. o.invite = s.invite \/ (s.invite.role = "none" /\ o.invite.role = "uas")
    BY DEF Handled
<1>3. o.neg.state \in NegStates
    BY <1>1 DEF Handled, Sound, NegStates
<1>4. Sound(o)
    <2>1. o.hold_msg \in {0, o.invite.cseq} /\ (o.invite.role # "uac" => o.hold_msg = 0)
        BY <1>1, <1>2 DEF Sound, Served
    <2> QED BY <1>1, <1>3, <2>1 DEF Sound, Served
<1>5. Pending(o) = Pending(s) /\ o.updates = s.updates
    BY DEF Pending, Served
<1>6. ASSUME Ends(s) PROVE Ends(o)
    BY <1>5, <1>6 DEF Ends, Handled
<1>7. ASSUME Waits(s) PROVE Waits(o)
    BY <1>5, <1>7 DEF Waits, Handled
<1> QED BY <1>4, <1>6, <1>7 DEF Kept

\* The dialog takes note of the number of the request.
LEMMA FreshFacts ==
    ASSUME NEW s, NEW c \in Nat, Kept(s)
    PROVE  LET o == [s EXCEPT !.remote_cseq = c]
           IN  /\ Kept(o) /\ o.out = s.out /\ o.remote_cseq = c /\ o.cseq = s.cseq
               /\ o.updates = s.updates
<1> DEFINE o == [s EXCEPT !.remote_cseq = c]
<1>1. /\ PartyShape(o) /\ o.neg = s.neg /\ o.out = s.out /\ o.unhold = s.unhold
      /\ o.updates = s.updates /\ o.cseq = s.cseq /\ o.remote_cseq = c
      /\ o.local_hold = s.local_hold /\ o.hold_msg = s.hold_msg /\ o.invite = s.invite
    BY DEF Kept, Sound, PartyShape
<1> HIDE DEF o
<1>2. Sound(o)
    BY <1>1 DEF Kept, Sound
<1>3. Pending(o) = Pending(s)
    BY <1>1 DEF Pending
<1>4. (Takes => Ends(o)) /\ (Patient => Waits(o))
    BY <1>1, <1>3 DEF Kept, Ends, Waits
<1>5. Kept(o) /\ o.out = s.out /\ o.remote_cseq = c /\ o.cseq = s.cseq /\ o.updates = s.updates
    BY <1>1, <1>2, <1>4 DEF Kept
<1> QED BY <1>5 DEF o

\* A request of the other party.
LEMMA RxRequestFacts ==
    ASSUME NEW p, NEW s, NEW m, Kept(s), s.out = {}, m.kind \in Requests, m.cseq \in Nat,
           NEW o \in RxRequest(p, s, m)
    PROVE  /\ Kept(o) /\ o.cseq = s.cseq /\ o.updates = s.updates
           /\ o.remote_cseq \in {s.remote_cseq, m.cseq}
           /\ Answers(p, m, o.out)
<1> DEFINE fresh == [s EXCEPT !.remote_cseq = m.cseq]
<1>1. CASE m.cseq <= s.remote_cseq
    <2>1. o = Reject(p, s, m)
        BY <1>1 DEF RxRequest
    <2>2. Served(s, o) /\ Handled(s, o) /\ Answers(p, m, o.out)
        BY <2>1, RejectFacts DEF Handled, Kept
    <2> QED BY <2>2, ServedKept DEF Served
<1>2. CASE ~(m.cseq <= s.remote_cseq)
    <2>1. /\ Kept(fresh) /\ fresh.out = {} /\ fresh.remote_cseq = m.cseq /\ fresh.cseq = s.cseq
          /\ fresh.updates = s.updates
        BY FreshFacts
    <2>2. o \in IF m.kind = "INVITE" THEN RxInvite(p, fresh, m) ELSE RxUpdate(p, fresh, m)
        BY <1>2 DEF RxRequest
    <2> HIDE DEF fresh
    <2>3. Served(fresh, o) /\ Handled(fresh, o) /\ Answers(p, m, o.out)
        BY <2>1, <2>2, RxInviteFacts, RxUpdateFacts DEF Kept
    <2>4. Kept(o)
        BY <2>1, <2>3, ServedKept
    <2> QED BY <2>1, <2>3, <2>4 DEF Served
<1> QED BY <1>1, <1>2

-------------------------------------------------------------------------------
(* A re-INVITE ends: by an ACK, or by the response to ours.                *)

\* An answer closes our offer, unless there is none or it comes too late.
LEMMA RxAnswerFacts ==
    ASSUME NEW s, NEW done, NEW sdp, Sound(s)
    PROVE  /\ Calm(s, RxAnswer(s, done, sdp)) /\ RxAnswer(s, done, sdp).out = s.out
           /\ RxAnswer(s, done, sdp).unhold = s.unhold
           /\ IF sdp = NoSdp \/ done \/ s.neg.state # "LOCAL_OFFER" THEN RxAnswer(s, done, sdp).neg = s.neg
              ELSE RxAnswer(s, done, sdp).neg.state = "DONE"
<1>1. CASE sdp = NoSdp \/ done \/ s.neg.state # "LOCAL_OFFER"
    <2>1. RxAnswer(s, done, sdp) = s
        BY <1>1 DEF RxAnswer
    <2> QED BY <1>1, <2>1 DEF Sound, Calm
<1>2. CASE ~(sdp = NoSdp \/ done \/ s.neg.state # "LOCAL_OFFER")
    <2> DEFINE a == set_remote_answer(s.neg, sdp)
               n == negotiate(a).neg
    <2>1. NegShape(a)
        BY TakeFacts DEF Sound
    <2>2. NegShape(n) /\ n.state = "DONE"
        BY <2>1, NegotiateFacts
    <2> DEFINE o == [s EXCEPT !.neg = n]
    <2>3. RxAnswer(s, done, sdp) = o
        BY <1>2 DEF RxAnswer
    <2> HIDE DEF n
    <2>4. Calm(s, o) /\ o.out = s.out /\ o.unhold = s.unhold /\ o.neg.state = "DONE"
        BY <2>2, NegSet DEF Sound, Calm
    <2> HIDE DEF o
    <2> QED BY <1>2, <2>3, <2>4
<1> QED BY <1>1, <1>2

LEMMA CancelLocalFacts ==
    ASSUME NEW s, PartyShape(s), NegShape(s.neg), s.unhold \in BOOLEAN
    PROVE  /\ Calm(s, CancelLocal(s)) /\ CancelLocal(s).out = s.out /\ CancelLocal(s).unhold = s.unhold
           /\ IF s.neg.state = "LOCAL_OFFER" THEN CancelLocal(s).neg.state = "DONE"
              ELSE CancelLocal(s).neg = s.neg
<1>1. CASE s.neg.state # "LOCAL_OFFER"
    <2>1. CancelLocal(s) = s
        BY <1>1 DEF CancelLocal
    <2> QED BY <1>1, <2>1 DEF Calm
<1>2. CASE s.neg.state = "LOCAL_OFFER"
    <2> DEFINE n == cancel_offer(s.neg)
    <2>1. NegShape(n) /\ n.state = "DONE"
        BY CancelFacts
    <2>2. CancelLocal(s) = [s EXCEPT !.neg = n]
        BY <1>2 DEF CancelLocal
    <2> HIDE DEF n
    <2> QED BY <1>2, <2>1, <2>2, NegSet DEF Calm
<1> QED BY <1>1, <1>2

\* The party after its re-INVITE.
Ended(s, o) ==
    /\ PartyShape(o) /\ NegShape(o.neg) /\ o.neg.state \in NegStates /\ o.invite = NoTsx
    /\ o.updates = s.updates /\ o.cseq = s.cseq /\ o.remote_cseq = s.remote_cseq
    /\ o.local_hold \in BOOLEAN /\ o.unhold \in BOOLEAN /\ o.hold_msg = 0

Acks(p, out) ==
    \A x \in out : MsgShape(x) /\ x.to = Other(p) /\ x.kind = "ACK" /\ x.cseq \in Nat

\* The end of a re-INVITE that was refused leaves the offer of an UPDATE alone; any other
\* end closes the offer that is open.
LEMMA EndedKept ==
    ASSUME NEW s, NEW o, Kept(s), Ended(s, o), s.invite.role # "none",
           IF s.invite.role = "uas" /\ ~s.invite.ok THEN o.neg = s.neg
           ELSE Takes /\ s.neg.state \in {"DONE", "LOCAL_OFFER"} => o.neg.state = "DONE"
    PROVE  Kept(o)
<1>1. NoTsx \in Tsx /\ NoTsx.role = "none" /\ NoTsx.cseq = 0
    BY DEF NoTsx, Tsx
<1>2. Sound(o)
    BY <1>1 DEF Kept, Sound, Ended
<1>3. Pending(o) = Pending(s) /\ o.updates = s.updates
    BY DEF Pending, Ended
<1>4. ASSUME Takes, Ends(s) PROVE Ends(o)
    <2>1. CASE s.invite.role = "uas" /\ ~s.invite.ok
        BY <1>3, <1>4, <2>1 DEF Ends
    <2>2. CASE ~(s.invite.role = "uas" /\ ~s.invite.ok)
        BY <1>3, <1>4, <2>2 DEF Ends
    <2> QED BY <2>1, <2>2
<1>5. ASSUME Waits(s) PROVE Waits(o)
    <2>1. s.invite.role \in {"uac", "uas"}
        BY DEF Kept, Sound, Tsx
    <2>2. CASE s.invite.role = "uas" /\ ~s.invite.ok
        BY <1>1, <1>3, <1>5, <2>2 DEF Waits, Ended
    <2>3. CASE ~(s.invite.role = "uas" /\ ~s.invite.ok)
        BY <1>3, <1>5, <2>1, <2>3 DEF Waits
    <2> QED BY <2>2, <2>3
<1> QED BY <1>2, <1>4, <1>5 DEF Kept

\* The negotiator of it.
LEMMA CancelLocalIs ==
    ASSUME NEW s, PartyShape(s)
    PROVE  CancelLocal(s).neg = IF s.neg.state = "LOCAL_OFFER" THEN cancel_offer(s.neg) ELSE s.neg
<1> DEFINE n == cancel_offer(s.neg)
           o == [s EXCEPT !.neg = n]
<1>1. CancelLocal(s) = IF s.neg.state = "LOCAL_OFFER" THEN o ELSE s
    BY DEF CancelLocal
<1> HIDE DEF n
<1>2. o.neg = n
    BY DEF PartyShape
<1> HIDE DEF o
<1> QED BY <1>1, <1>2 DEF n

\* The re-INVITE is forgotten.
LEMMA Forget ==
    ASSUME NEW s, NEW t, Sound(s), Calm(s, t), t.neg.state \in NegStates, s.invite.role = "uas"
    PROVE  LET o == [t EXCEPT !.invite = NoTsx]
           IN  Ended(s, o) /\ o.neg = t.neg /\ o.out = t.out
<1> DEFINE o == [t EXCEPT !.invite = NoTsx]
<1>1. /\ PartyShape(o) /\ o.neg = t.neg /\ o.out = t.out /\ o.unhold = t.unhold /\ o.invite = NoTsx
      /\ o.updates = t.updates /\ o.cseq = t.cseq /\ o.remote_cseq = t.remote_cseq
      /\ o.local_hold = t.local_hold /\ o.hold_msg = t.hold_msg
    BY DEF Calm, PartyShape
<1> HIDE DEF o
<1>2. Ended(s, o) /\ o.neg = t.neg /\ o.out = t.out
    BY <1>1 DEF Ended, Calm, Sound
<1> QED BY <1>2 DEF o

\* The ACK.
LEMMA RxAckFacts ==
    ASSUME NEW s, NEW m, Kept(s), s.out = {}
    PROVE  LET o == RxAck(s, m)
           IN  /\ Kept(o) /\ o.updates = s.updates /\ o.cseq = s.cseq
               /\ o.remote_cseq = s.remote_cseq /\ o.out = {}
<1> DEFINE mine == s.invite.role = "uas" /\ s.invite.cseq = m.cseq
<1>1. Sound(s)
    BY DEF Kept
<1>2. CASE ~mine
    <2>1. RxAck(s, m) = s
        BY <1>2 DEF RxAck
    <2> QED BY <2>1
<1>3. CASE mine /\ s.invite.ok
    <2> DEFINE a == RxAnswer(s, s.invite.done, m.sdp)
               c == CancelLocal(a)
               o == [c EXCEPT !.invite = NoTsx]
    <2>1. RxAck(s, m) = o
        BY <1>3 DEF RxAck
    <2>2. Calm(s, a) /\ a.out = {} /\ (a.neg = s.neg \/ a.neg.state = "DONE")
        BY <1>1, RxAnswerFacts
    <2> HIDE DEF a
    <2>3. /\ Calm(a, c) /\ c.out = {}
          /\ IF a.neg.state = "LOCAL_OFFER" THEN c.neg.state = "DONE" ELSE c.neg = a.neg
        BY <2>2, CancelLocalFacts DEF Calm
    <2> HIDE DEF c
    <2>4. Calm(s, c) /\ c.neg.state \in NegStates
        BY <1>1, <2>2, <2>3 DEF Calm, Sound, NegStates
    <2>5. Ended(s, o) /\ o.neg = c.neg /\ o.out = {}
        BY <1>1, <1>3, <2>3, <2>4, Forget
    <2> HIDE DEF o
    <2>6. s.neg.state \in {"DONE", "LOCAL_OFFER"} => o.neg.state = "DONE"
        BY <2>2, <2>3, <2>5
    <2>7. Kept(o)
        BY <1>3, <2>5, <2>6, EndedKept
    <2> QED BY <2>1, <2>5, <2>7 DEF Ended
<1>4. CASE mine /\ ~s.invite.ok
    <2> DEFINE o == [s EXCEPT !.invite = NoTsx]
    <2>1. RxAck(s, m) = o
        BY <1>4 DEF RxAck
    <2>2. Calm(s, s) /\ s.neg.state \in NegStates
        BY <1>1 DEF Calm, Sound
    <2>3. Ended(s, o) /\ o.neg = s.neg /\ o.out = {}
        BY <1>1, <1>4, <2>2, Forget
    <2> HIDE DEF o
    <2>4. Kept(o)
        BY <1>4, <2>3, EndedKept
    <2> QED BY <2>1, <2>3, <2>4 DEF Ended
<1> QED BY <1>2, <1>3, <1>4

\* The hold message is forgotten with its transaction.
LEMMA HoldOverFacts ==
    ASSUME NEW s, PartyShape(s), s.hold_msg \in {0, s.invite.cseq}
    PROVE  LET o == HoldOver(s)
           IN  /\ PartyShape(o) /\ o.hold_msg = 0
               /\ o.neg = s.neg /\ o.out = s.out /\ o.unhold = s.unhold /\ o.invite = s.invite
               /\ o.updates = s.updates /\ o.cseq = s.cseq /\ o.remote_cseq = s.remote_cseq
               /\ o.local_hold = s.local_hold
    BY DEF PartyShape, HoldOver

\* inv_send_ack.
LEMMA SendAckFacts ==
    ASSUME NEW p, NEW s, PartyShape(s), NegShape(s.neg), s.unhold \in BOOLEAN, s.invite \in Tsx, s.out = {}
    PROVE  LET o == SendAck(p, s)
           IN  /\ PartyShape(o) /\ NegShape(o.neg) /\ o.invite = NoTsx
               /\ o.updates = s.updates /\ o.cseq = s.cseq /\ o.remote_cseq = s.remote_cseq
               /\ o.local_hold = s.local_hold /\ o.hold_msg = s.hold_msg /\ o.unhold = s.unhold
               /\ IF s.neg.state = "WAIT_NEGO" THEN o.neg.state = "DONE" ELSE o.neg = s.neg
               /\ Acks(p, o.out)
<1> DEFINE r == IF s.neg.state = "WAIT_NEGO" THEN negotiate(s.neg) ELSE [ok |-> FALSE, neg |-> s.neg]
           x == Msg(p, "ACK", s.invite.cseq, IF r.ok THEN r.neg.active_local ELSE NoSdp)
           t == Send(s, x)
           o == [t EXCEPT !.neg = r.neg, !.invite = NoTsx]
<1>1. SendAck(p, s) = o
    BY DEF SendAck, Ack
<1>2. NegShape(r.neg) /\ IF s.neg.state = "WAIT_NEGO" THEN r.neg.state = "DONE" ELSE r.neg = s.neg
    <2>1. CASE s.neg.state = "WAIT_NEGO"
        <3>1. r = negotiate(s.neg)
            BY <2>1
        <3> HIDE DEF r
        <3> QED BY <2>1, <3>1, NegotiateFacts
    <2>2. CASE s.neg.state # "WAIT_NEGO"
        BY <2>2
    <2> QED BY <2>1, <2>2
<1>3. MsgShape(x) /\ x.to = Other(p) /\ x.kind = "ACK" /\ x.cseq = s.invite.cseq
    BY MsgFacts
<1> HIDE DEF r, x
<1>4. /\ PartyShape(t) /\ t.out = {x} /\ t.unhold = s.unhold
      /\ t.updates = s.updates /\ t.cseq = s.cseq /\ t.remote_cseq = s.remote_cseq
      /\ t.local_hold = s.local_hold /\ t.hold_msg = s.hold_msg
    BY SendFacts
<1> HIDE DEF t
<1>5. /\ PartyShape(o) /\ o.out = {x} /\ o.unhold = s.unhold /\ o.neg = r.neg /\ o.invite = NoTsx
      /\ o.updates = s.updates /\ o.cseq = s.cseq /\ o.remote_cseq = s.remote_cseq
      /\ o.local_hold = s.local_hold /\ o.hold_msg = s.hold_msg
    BY <1>4 DEF PartyShape
<1> HIDE DEF o
<1>6. Acks(p, o.out)
    BY <1>3, <1>5 DEF Acks, Tsx
<1>7. IF s.neg.state = "WAIT_NEGO" THEN o.neg.state = "DONE" ELSE o.neg = s.neg
    BY <1>2, <1>5
<1> QED BY <1>1, <1>2, <1>5, <1>6, <1>7

\* The 2xx to our re-INVITE.
LEMMA RxInviteOkFacts ==
    ASSUME NEW p, NEW s, NEW m, Kept(s), s.out = {}, s.invite.role = "uac",
           NEW o \in RxInviteOk(p, s, m)
    PROVE  Kept(o) /\ Ended(s, o) /\ Acks(p, o.out)
<1> DEFINE h == HoldOver(s)
<1>1. Sound(s)
    BY DEF Kept
<1>2. /\ PartyShape(h) /\ h.hold_msg = 0
      /\ h.neg = s.neg /\ h.out = {} /\ h.unhold = s.unhold /\ h.invite = s.invite
      /\ h.updates = s.updates /\ h.cseq = s.cseq /\ h.remote_cseq = s.remote_cseq
      /\ h.local_hold = s.local_hold
    BY <1>1, HoldOverFacts DEF Sound
<1>3. PICK g \in IF s.neg.state = "DONE" /\ m.sdp # NoSdp THEN RxOffer(p, h, m.sdp, "response")
                 ELSE {RxAnswer(h, FALSE, m.sdp)} :
          o = SendAck(p, CancelLocal(g))
    BY DEF RxInviteOk
<1> HIDE DEF h
<1>4. Sound(h)
    BY <1>1, <1>2 DEF Sound
<1>5. /\ Calm(h, g) /\ g.out = {} /\ g.neg.state \in NegStates
      /\ Takes /\ s.neg.state \in {"DONE", "LOCAL_OFFER"} =>
             g.neg.state \in {"DONE", "LOCAL_OFFER", "WAIT_NEGO"}
    <2>1. CASE s.neg.state = "DONE" /\ m.sdp # NoSdp
        <3>1. g \in RxOffer(p, h, m.sdp, "response")
            BY <1>3, <2>1
        <3>2. /\ Calm(h, g) /\ g.out = {} /\ g.neg.state \in {"WAIT_NEGO", "REMOTE_OFFER"}
              /\ "response" \notin Declines => g.neg.state = "WAIT_NEGO"
            BY <1>2, <1>4, <3>1, RxOfferFacts DEF Sound
        <3> QED BY <3>2 DEF NegStates, Takes
    <2>2. CASE ~(s.neg.state = "DONE" /\ m.sdp # NoSdp)
        <3>1. g = RxAnswer(h, FALSE, m.sdp)
            BY <1>3, <2>2
        <3> DEFINE a == RxAnswer(h, FALSE, m.sdp)
        <3>2. Calm(h, a) /\ a.out = h.out /\ (a.neg = h.neg \/ a.neg.state = "DONE")
            BY <1>4, RxAnswerFacts, ZenonT(60)
        <3>3. g = a
            BY <3>1
        <3> HIDE DEF a
        <3> QED BY <1>1, <1>2, <3>2, <3>3 DEF Sound, NegStates
    <2> QED BY <2>1, <2>2
<1> DEFINE c == CancelLocal(g)
<1>6. /\ Calm(g, c) /\ c.out = {}
      /\ IF g.neg.state = "LOCAL_OFFER" THEN c.neg.state = "DONE" ELSE c.neg = g.neg
    BY <1>5, CancelLocalFacts DEF Calm
<1>7. o = SendAck(p, c)
    BY <1>3
<1> HIDE DEF c
<1>8. /\ Calm(h, c) /\ c.neg.state \in NegStates
      /\ Takes /\ s.neg.state \in {"DONE", "LOCAL_OFFER"} => c.neg.state \in {"DONE", "WAIT_NEGO"}
    BY <1>5, <1>6 DEF Calm, NegStates
<1>9. /\ PartyShape(o) /\ NegShape(o.neg) /\ o.invite = NoTsx
      /\ o.updates = c.updates /\ o.cseq = c.cseq /\ o.remote_cseq = c.remote_cseq
      /\ o.local_hold = c.local_hold /\ o.hold_msg = c.hold_msg /\ o.unhold = c.unhold
      /\ IF c.neg.state = "WAIT_NEGO" THEN o.neg.state = "DONE" ELSE o.neg = c.neg
      /\ Acks(p, o.out)
    BY <1>4, <1>6, <1>7, <1>8, SendAckFacts DEF Calm, Sound
<1>10. Ended(s, o)
    BY <1>1, <1>2, <1>8, <1>9 DEF Ended, Calm, Sound, NegStates
<1>11. Takes /\ s.neg.state \in {"DONE", "LOCAL_OFFER"} => o.neg.state = "DONE"
    BY <1>8, <1>9
<1>12. Kept(o)
    BY <1>10, <1>11, EndedKept
<1> QED BY <1>9, <1>10, <1>12

\* Its failure.
LEMMA RxInviteFailFacts ==
    ASSUME NEW p, NEW s, Kept(s), s.out = {}, s.invite.role = "uac"
    PROVE  LET o == RxInviteFail(p, s) IN Kept(o) /\ Ended(s, o) /\ Acks(p, o.out)
<1> DEFINE hold == IF s.hold_msg = s.invite.cseq THEN FALSE ELSE s.unhold \/ s.local_hold
           held == [s EXCEPT !.local_hold = hold]
           h == HoldOver(held)
           c == CancelLocal(h)
           x == Msg(p, "ACK", s.invite.cseq, NoSdp)
           t == Send(c, x)
           o == [t EXCEPT !.invite = NoTsx]
<1>1. Sound(s)
    BY DEF Kept
<1>2. RxInviteFail(p, s) = o
    BY <1>1 DEF RxInviteFail, Sound, PartyShape
<1>3. hold \in BOOLEAN
    BY <1>1 DEF Sound
<1>4. MsgShape(x) /\ x.to = Other(p) /\ x.kind = "ACK" /\ x.cseq = s.invite.cseq
    BY MsgFacts
<1> HIDE DEF hold, x
<1>5. /\ PartyShape(held) /\ held.local_hold = hold /\ held.hold_msg = s.hold_msg
      /\ held.neg = s.neg /\ held.out = {} /\ held.unhold = s.unhold /\ held.invite = s.invite
      /\ held.updates = s.updates /\ held.cseq = s.cseq /\ held.remote_cseq = s.remote_cseq
    BY <1>1 DEF Sound, PartyShape
<1> HIDE DEF held
<1>6. /\ PartyShape(h) /\ h.hold_msg = 0 /\ h.local_hold = hold
      /\ h.neg = s.neg /\ h.out = {} /\ h.unhold = s.unhold /\ h.invite = s.invite
      /\ h.updates = s.updates /\ h.cseq = s.cseq /\ h.remote_cseq = s.remote_cseq
    BY <1>1, <1>5, HoldOverFacts DEF Sound
<1> HIDE DEF h
<1>7. /\ Calm(h, c) /\ c.out = {}
      /\ IF h.neg.state = "LOCAL_OFFER" THEN c.neg.state = "DONE" ELSE c.neg = h.neg
    BY <1>1, <1>6, CancelLocalFacts DEF Sound
<1> HIDE DEF c
<1>8. /\ PartyShape(t) /\ t.out = {x} /\ t.unhold = c.unhold /\ t.neg = c.neg
      /\ t.updates = c.updates /\ t.cseq = c.cseq /\ t.remote_cseq = c.remote_cseq
      /\ t.local_hold = c.local_hold /\ t.hold_msg = c.hold_msg
    BY <1>7, SendFacts DEF Calm
<1> HIDE DEF t
<1>9. /\ PartyShape(o) /\ o.out = {x} /\ o.unhold = c.unhold /\ o.neg = c.neg /\ o.invite = NoTsx
      /\ o.updates = c.updates /\ o.cseq = c.cseq /\ o.remote_cseq = c.remote_cseq
      /\ o.local_hold = c.local_hold /\ o.hold_msg = c.hold_msg
    BY <1>8 DEF PartyShape
<1> HIDE DEF o
<1>10. Ended(s, o)
    <2>1. o.neg.state \in NegStates
        BY <1>1, <1>6, <1>7, <1>9 DEF Sound, NegStates
    <2> QED BY <1>1, <1>3, <1>6, <1>7, <1>9, <2>1 DEF Ended, Calm, Sound
<1>11. s.neg.state \in {"DONE", "LOCAL_OFFER"} => o.neg.state = "DONE"
    BY <1>6, <1>7, <1>9
<1>12. Kept(o)
    BY <1>10, <1>11, EndedKept
<1>13. Acks(p, o.out)
    BY <1>1, <1>4, <1>9 DEF Acks, Sound, Tsx
<1> QED BY <1>2, <1>10, <1>12, <1>13

-------------------------------------------------------------------------------
(* An UPDATE ends.                                                         *)

\* All but the negotiator and the UPDATEs.
Beside(s, o) ==
    /\ PartyShape(o) /\ NegShape(o.neg) /\ o.neg.state \in NegStates
    /\ o.invite = s.invite /\ o.cseq = s.cseq /\ o.remote_cseq = s.remote_cseq
    /\ o.local_hold = s.local_hold /\ o.hold_msg = s.hold_msg /\ o.unhold = s.unhold

\* An UPDATE whose response has come, w afterwards: it knows whether its offer is over.
LEMMA CompletedKept ==
    ASSUME NEW s, NEW o, NEW u \in s.updates, NEW w \in Update, Kept(s), ~u.completed,
           w.cseq = u.cseq, w.completed, w.done <=> s.neg.state = "LOCAL_OFFER",
           Beside(s, o), o.updates = (s.updates \ {u}) \cup {w},
           IF s.neg.state = "LOCAL_OFFER" THEN o.neg.state = "DONE" \/ (~Takes /\ o.neg.state = "LOCAL_OFFER")
           ELSE o.neg = s.neg
    PROVE  Kept(o) /\ \A c : OfInvite(c, s) => OfInvite(c, o)
<1>1. Sound(s)
    BY DEF Kept
<1>2. Sound(o)
    <2>1. \A v \in o.updates : v.cseq <= o.cseq
        BY <1>1 DEF Sound, Beside
    <2>2. \A v, x \in o.updates : v.cseq = x.cseq => v = x
        BY <1>1 DEF Sound
    <2> QED BY <1>1, <2>1, <2>2 DEF Sound, Beside
<1>3. Pending(o) = Pending(s) \ {u}
    BY DEF Pending
<1>4. ASSUME Takes, Ends(s) PROVE Ends(o)
    <2>1. s.neg.state = "DONE" => o.neg = s.neg
        OBVIOUS
    <2>2. o.neg.state = "DONE"
        BY <1>4, <2>1 DEF Ends
    <2> QED BY <1>3, <1>4, <2>2 DEF Ends
<1>5. ASSUME Waits(s) PROVE Waits(o)
    <2>1. u \in Pending(s)
        BY DEF Pending
    <2>2. Pending(o) = {} /\ w.done
        BY <1>3, <1>5, <2>1 DEF Waits
    <2> QED BY <1>5, <2>2 DEF Waits
<1>6. \A c : OfInvite(c, s) => OfInvite(c, o)
    BY DEF OfInvite, Beside
<1> QED BY <1>2, <1>4, <1>5, <1>6 DEF Kept

\* inv_handle_update_response.  The 2xx to an UPDATE has a description.
LEMMA RxUpdateResponseFacts ==
    ASSUME NEW s, NEW u \in s.updates, NEW m, Kept(s), s.out = {}, ~u.completed,
           m.kind = "OK" => m.sdp # NoSdp
    PROVE  LET o == RxUpdateResponse(s, u, m)
           IN  /\ Kept(o) /\ o.cseq = s.cseq /\ o.remote_cseq = s.remote_cseq /\ o.out = {}
               /\ \A c : OfInvite(c, s) => OfInvite(c, o)
               /\ Beside(s, o) /\ Pending(o) = Pending(s) \ {u}
               /\ LET a == RxAnswer(s, u.done, IF m.kind = "OK" THEN m.sdp ELSE NoSdp)
                  IN  o.neg = IF s.neg.state = "LOCAL_OFFER" /\ m.kind # "OK" THEN cancel_offer(a.neg) ELSE a.neg
<1> DEFINE answered == m.kind = "OK" /\ s.neg.state = "LOCAL_OFFER"
           sdp == IF m.kind = "OK" THEN m.sdp ELSE NoSdp
           a == RxAnswer(s, u.done, sdp)
           v == [u EXCEPT !.completed = TRUE, !.done = answered]
           k == [a EXCEPT !.updates = (s.updates \ {u}) \cup {v}]
           c == CancelLocal(k)
           w == [v EXCEPT !.done = TRUE]
           g == [c EXCEPT !.updates = (k.updates \ {v}) \cup {w}]
           giving == k.neg.state = "LOCAL_OFFER" /\ ~v.done
           o == IF giving THEN g ELSE k
<1>1. Sound(s)
    BY DEF Kept
<1>2. /\ Calm(s, a) /\ a.out = {} /\ a.unhold = s.unhold
      /\ IF sdp = NoSdp \/ u.done \/ s.neg.state # "LOCAL_OFFER" THEN a.neg = s.neg ELSE a.neg.state = "DONE"
    BY <1>1, RxAnswerFacts
<1>3. v \in Update /\ w \in Update /\ v.cseq = u.cseq /\ w.cseq = u.cseq /\ v.completed /\ w.completed
      /\ (v.done <=> answered) /\ w.done
    BY <1>1 DEF Sound, Update
<1>4. RxUpdateResponse(s, u, m) = o
    <2>1. RxUpdateResponse(s, u, m) = GiveUp(Completed(a, u, answered), v)
        BY DEF RxUpdateResponse
    <2> HIDE DEF v, a
    <2>2. v = [u EXCEPT !.completed = TRUE, !.done = answered]
        BY DEF v
    <2> HIDE DEF answered
    <2>3. Completed(a, u, answered) = k
        BY <1>2, <2>2 DEF Completed, Calm, PartyShape
    <2> HIDE DEF k
    <2>4. /\ PartyShape(k) /\ NegShape(k.neg) /\ k.unhold \in BOOLEAN
        BY <1>1, <1>2 DEF k, Calm, PartyShape
    <2>5. c.updates = k.updates /\ PartyShape(c)
        BY <2>4, CancelLocalFacts DEF Calm
    <2>6. GiveUp(k, v) = o
        BY <2>5 DEF GiveUp, PartyShape
    <2> QED BY <2>1, <2>3, <2>6
<1> DEFINE rest == s.updates \ {u}
<1>5. v \notin rest
    BY <1>1, <1>3 DEF Sound
<1>6. IF sdp = NoSdp \/ u.done \/ s.neg.state # "LOCAL_OFFER" THEN a.neg = s.neg ELSE a.neg.state = "DONE"
    BY <1>2
<1>7. (m.kind = "OK" <=> sdp # NoSdp) /\ (answered <=> m.kind = "OK" /\ s.neg.state = "LOCAL_OFFER")
    OBVIOUS
<1>14. a = RxAnswer(s, u.done, IF m.kind = "OK" THEN m.sdp ELSE NoSdp)
    OBVIOUS
<1> HIDE DEF sdp, a, v, w, answered
<1>8. /\ PartyShape(k) /\ k.updates = rest \cup {v} /\ k.neg = a.neg /\ k.out = {} /\ k.unhold = s.unhold
      /\ k.invite = s.invite /\ k.cseq = s.cseq /\ k.remote_cseq = s.remote_cseq
      /\ k.local_hold = s.local_hold /\ k.hold_msg = s.hold_msg
    BY <1>2 DEF Calm, PartyShape
<1> HIDE DEF k
<1>9. /\ Calm(k, c) /\ c.out = {} /\ c.unhold = s.unhold
      /\ IF a.neg.state = "LOCAL_OFFER" THEN c.neg.state = "DONE" ELSE c.neg = a.neg
    BY <1>1, <1>2, <1>8, CancelLocalFacts DEF Calm, Sound
<1>15. c.neg = IF k.neg.state = "LOCAL_OFFER" THEN cancel_offer(k.neg) ELSE k.neg
    BY <1>8, CancelLocalIs
<1> HIDE DEF c, rest
<1>10. /\ PartyShape(g) /\ g.updates = rest \cup {w} /\ g.neg = c.neg /\ g.out = {} /\ g.unhold = s.unhold
       /\ g.invite = s.invite /\ g.cseq = s.cseq /\ g.remote_cseq = s.remote_cseq
       /\ g.local_hold = s.local_hold /\ g.hold_msg = s.hold_msg
    <2>1. (k.updates \ {v}) \cup {w} = rest \cup {w}
        BY <1>5, <1>8
    <2> QED BY <1>8, <1>9, <2>1 DEF Calm, PartyShape
<1> HIDE DEF g
<1>11. giving <=> s.neg.state = "LOCAL_OFFER" /\ m.kind # "OK"
    BY <1>3, <1>6, <1>7, <1>8
<1>12. CASE giving
    <2>1. o = g
        BY <1>12
    <2>2. g.neg.state = "DONE" /\ s.neg.state = "LOCAL_OFFER"
        BY <1>8, <1>9, <1>10, <1>11, <1>12
    <2>3. Beside(s, g)
        BY <1>9, <1>10, <2>2 DEF Beside, Calm, NegStates
    <2>4. Kept(g) /\ \A n : OfInvite(n, s) => OfInvite(n, g)
        BY <1>3, <1>10, <2>2, <2>3, CompletedKept DEF rest
    <2>5. Pending(g) = Pending(s) \ {u}
        BY <1>3, <1>10 DEF Pending, rest
    <2>6. g.neg = cancel_offer(a.neg) /\ s.neg.state = "LOCAL_OFFER" /\ m.kind # "OK"
        BY <1>8, <1>10, <1>11, <1>12, <1>15
    <2> QED BY <1>4, <1>10, <1>14, <2>1, <2>3, <2>4, <2>5, <2>6
<1>13. CASE ~giving
    <2>1. o = k
        BY <1>13
    <2>2. v.done <=> s.neg.state = "LOCAL_OFFER"
        BY <1>3, <1>7, <1>11, <1>13
    <2>3. Takes => ~u.done
        BY DEF Kept, Ends, Pending
    <2>4. IF s.neg.state = "LOCAL_OFFER" THEN k.neg.state = "DONE" \/ (~Takes /\ k.neg.state = "LOCAL_OFFER")
          ELSE k.neg = s.neg
        BY <1>6, <1>7, <1>8, <1>11, <1>13, <2>3
    <2>5. Beside(s, k)
        BY <1>1, <1>2, <1>8, <2>4 DEF Beside, Calm, Sound, NegStates
    <2>6. Kept(k) /\ \A n : OfInvite(n, s) => OfInvite(n, k)
        BY <1>3, <1>8, <2>2, <2>4, <2>5, CompletedKept DEF rest
    <2>7. Pending(k) = Pending(s) \ {u}
        BY <1>3, <1>8 DEF Pending, rest
    <2>8. k.neg = a.neg /\ ~(s.neg.state = "LOCAL_OFFER" /\ m.kind # "OK")
        BY <1>8, <1>11, <1>13
    <2> QED BY <1>4, <1>8, <1>14, <2>1, <2>5, <2>6, <2>7, <2>8
<1> QED BY <1>12, <1>13

\* The transaction of an UPDATE is destroyed.
Without(s, u) == [GiveUp(s, u) EXCEPT !.updates = {v \in @ : v.cseq # u.cseq}]

LEMMA WithoutFacts ==
    ASSUME NEW s, NEW u \in s.updates, Kept(s), s.out = {}, u.completed
    PROVE  LET o == Without(s, u)
           IN  /\ Kept(o) /\ o.cseq = s.cseq /\ o.remote_cseq = s.remote_cseq /\ o.out = {}
               /\ \A c : OfInvite(c, s) => OfInvite(c, o)
<1> DEFINE giving == s.neg.state = "LOCAL_OFFER" /\ ~u.done
           c == CancelLocal(s)
           w == [u EXCEPT !.done = TRUE]
           g == [c EXCEPT !.updates = (s.updates \ {u}) \cup {w}]
           given == GiveUp(s, u)
           rest == {v \in s.updates : v.cseq # u.cseq}
           o == [given EXCEPT !.updates = rest]
<1>1. Sound(s)
    BY DEF Kept
<1>2. w \in Update /\ w.cseq = u.cseq
    BY <1>1 DEF Sound, Update
<1>3. /\ Calm(s, c) /\ c.out = {} /\ c.unhold = s.unhold
      /\ IF s.neg.state = "LOCAL_OFFER" THEN c.neg.state = "DONE" ELSE c.neg = s.neg
    BY <1>1, CancelLocalFacts DEF Sound
<1>4. given = IF giving THEN g ELSE s
    <2>1. g = [c EXCEPT !.updates = (c.updates \ {u}) \cup {w}]
        BY <1>3 DEF Calm
    <2> HIDE DEF g
    <2>2. GiveUp(s, u) = IF giving THEN g ELSE s
        BY <1>3, <2>1 DEF GiveUp, Calm, PartyShape
    <2> QED BY <2>2
<1> HIDE DEF w, c
<1>5. /\ PartyShape(g) /\ g.neg = c.neg /\ g.out = {} /\ g.unhold = s.unhold
      /\ g.updates = (s.updates \ {u}) \cup {w}
      /\ g.invite = s.invite /\ g.cseq = s.cseq /\ g.remote_cseq = s.remote_cseq
      /\ g.local_hold = s.local_hold /\ g.hold_msg = s.hold_msg
    BY <1>3 DEF Calm, PartyShape
<1> HIDE DEF g
<1>6. /\ PartyShape(given) /\ NegShape(given.neg) /\ given.out = {} /\ given.unhold = s.unhold
      /\ given.invite = s.invite /\ given.cseq = s.cseq /\ given.remote_cseq = s.remote_cseq
      /\ given.local_hold = s.local_hold /\ given.hold_msg = s.hold_msg
      /\ IF giving THEN given.neg.state = "DONE" ELSE given.neg = s.neg
    BY <1>1, <1>3, <1>4, <1>5 DEF Calm, Sound
<1>7. {v \in given.updates : v.cseq # u.cseq} = rest
    <2>1. CASE giving
        <3>1. given.updates = (s.updates \ {u}) \cup {w}
            BY <1>4, <1>5, <2>1
        <3> QED BY <1>2, <3>1
    <2>2. CASE ~giving
        BY <1>4, <2>2
    <2> QED BY <2>1, <2>2
<1>8. Without(s, u) = o
    BY <1>6, <1>7 DEF Without, PartyShape
<1> HIDE DEF given, rest
<1>9. /\ PartyShape(o) /\ o.neg = given.neg /\ o.out = {} /\ o.unhold = s.unhold
      /\ o.invite = s.invite /\ o.cseq = s.cseq /\ o.remote_cseq = s.remote_cseq
      /\ o.local_hold = s.local_hold /\ o.hold_msg = s.hold_msg /\ o.updates = rest
    BY <1>6 DEF PartyShape
<1> HIDE DEF o
<1>10. IF giving THEN o.neg.state = "DONE" ELSE o.neg = s.neg
    BY <1>6, <1>9
<1>11. Sound(o)
    <2>1. o.neg.state \in NegStates
        BY <1>1, <1>10 DEF Sound, NegStates
    <2> QED BY <1>1, <1>6, <1>9, <2>1 DEF Sound, rest
<1>12. Pending(o) = Pending(s)
    BY <1>1, <1>9 DEF Pending, rest, Sound
<1>13. ASSUME Ends(s) PROVE Ends(o)
    BY <1>9, <1>10, <1>12, <1>13 DEF Ends
<1>14. ASSUME Waits(s) PROVE Waits(o)
    <2>1. ~giving
        BY <1>14 DEF Waits
    <2> QED BY <1>9, <1>10, <1>12, <1>14, <2>1 DEF Waits, rest
<1>15. \A n : OfInvite(n, s) => OfInvite(n, o)
    BY <1>9 DEF OfInvite, rest
<1> QED BY <1>8, <1>9, <1>11, <1>13, <1>14, <1>15 DEF Kept

-------------------------------------------------------------------------------
(* A request of the user.                                                  *)

\* What p sends: a request with its next number.
Requested(p, s, kind, out) ==
    \A x \in out : MsgShape(x) /\ x.to = Other(p) /\ x.kind = kind /\ x.cseq = s.cseq + 1

\* After a re-INVITE.
Reinvited(p, s, o) ==
    /\ PartyShape(o) /\ NegShape(o.neg)
    /\ o.neg = s.neg \/ o.neg.state = "LOCAL_OFFER"
    /\ o.invite \in Tsx /\ o.invite.role = "uac" /\ o.invite.cseq = s.cseq + 1
    /\ o.updates = s.updates /\ o.cseq = s.cseq + 1 /\ o.remote_cseq = s.remote_cseq
    /\ o.local_hold \in BOOLEAN /\ o.unhold \in BOOLEAN /\ o.hold_msg \in {0, s.cseq + 1}
    /\ Requested(p, s, "INVITE", o.out)

LEMMA ReinvitedKept ==
    ASSUME NEW p, NEW s, NEW o, Kept(s), s.invite.role = "none", Reinvited(p, s, o),
           Patient => Pending(s) = {}
    PROVE  Kept(o) /\ \A c \in Nat : OfInvite(c, s) => OfInvite(c, o)
<1>1. Sound(s)
    BY DEF Kept
<1>2. Sound(o)
    <2>1. o.cseq \in Nat /\ \A u \in o.updates : u.cseq <= o.cseq
        <3>1. s.cseq \in Nat /\ \A u \in s.updates : u.cseq \in Nat /\ u.cseq <= s.cseq
            BY <1>1 DEF Sound, Update
        <3>2. o.updates = s.updates /\ o.cseq = s.cseq + 1
            BY DEF Reinvited
        <3> QED BY <3>1, <3>2
    <2>2. o.neg.state \in NegStates /\ o.hold_msg \in {0, o.invite.cseq}
        BY <1>1 DEF Sound, Reinvited, NegStates
    <2> QED BY <1>1, <2>1, <2>2 DEF Sound, Reinvited
<1>3. Pending(o) = Pending(s) /\ o.updates = s.updates
    BY DEF Pending, Reinvited
<1>4. ASSUME Ends(s) PROVE Ends(o)
    BY <1>3, <1>4 DEF Ends, Reinvited
<1>5. ASSUME Patient, Waits(s) PROVE Waits(o)
    BY <1>3, <1>5 DEF Waits
<1>6. \A c \in Nat : OfInvite(c, s) => OfInvite(c, o)
    BY <1>1 DEF OfInvite, Reinvited, Sound
<1> QED BY <1>2, <1>4, <1>5, <1>6 DEF Kept

\* pjsip_inv_reinvite.
LEMMA ReinviteFacts ==
    ASSUME NEW p, NEW s, NEW media, Sound(s), s.out = {}, s.invite.role = "none"
    PROVE  /\ Reinvited(p, s, Reinvite(p, s, media))
           /\ Reinvite(p, s, media).local_hold = s.local_hold
           /\ Reinvite(p, s, media).hold_msg = 0
           /\ Reinvite(p, s, media).unhold = s.unhold
<1> DEFINE n == IF s.neg.state = "DONE" /\ media # <<>> THEN modify_local_offer(s.neg, media) ELSE s.neg
           i == [NoTsx EXCEPT !.role = "uac", !.cseq = s.cseq + 1]
           t == [s EXCEPT !.neg = n, !.cseq = @ + 1, !.invite = i]
           x == Msg(p, "INVITE", s.cseq + 1, IF n.state = "LOCAL_OFFER" THEN n.neg_local ELSE NoSdp)
           o == Send(t, x)
<1>1. Reinvite(p, s, media) = o
    BY DEF Reinvite, SendReinvite
<1>2. NegShape(n) /\ (n = s.neg \/ n.state = "LOCAL_OFFER")
    BY OfferFacts DEF Sound
<1>3. MsgShape(x) /\ x.to = Other(p) /\ x.kind = "INVITE" /\ x.cseq = s.cseq + 1
    BY MsgFacts
<1>4. i \in Tsx /\ i.role = "uac" /\ i.cseq = s.cseq + 1
    <2> DEFINE c == s.cseq + 1
    <2>1. c \in Nat
        BY DEF Sound
    <2> HIDE DEF c
    <2>2. LET j == [NoTsx EXCEPT !.role = "uac", !.cseq = c]
          IN  j \in Tsx /\ j.role = "uac" /\ j.cseq = c
        BY <2>1 DEF NoTsx, Tsx
    <2> QED BY <2>2 DEF c
<1> HIDE DEF n, x, i
<1>5. /\ PartyShape(t) /\ t.neg = n /\ t.out = {} /\ t.unhold = s.unhold /\ t.invite = i
      /\ t.updates = s.updates /\ t.cseq = s.cseq + 1 /\ t.remote_cseq = s.remote_cseq
      /\ t.local_hold = s.local_hold /\ t.hold_msg = 0
    BY DEF Sound, PartyShape
<1> HIDE DEF t
<1>6. /\ PartyShape(o) /\ o.neg = n /\ o.out = {x} /\ o.unhold = s.unhold /\ o.invite = i
      /\ o.updates = s.updates /\ o.cseq = s.cseq + 1 /\ o.remote_cseq = s.remote_cseq
      /\ o.local_hold = s.local_hold /\ o.hold_msg = 0
    BY <1>5, SendFacts
<1> HIDE DEF o
<1>7. Requested(p, s, "INVITE", o.out)
    BY <1>3, <1>6 DEF Requested
<1>8. Reinvited(p, s, o)
    BY <1>4, <1>2, <1>6, <1>7 DEF Reinvited, Sound
<1> QED BY <1>1, <1>6, <1>8

\* After an UPDATE.
Updated(p, s, o) ==
    /\ PartyShape(o) /\ NegShape(o.neg) /\ o.neg.state = "LOCAL_OFFER"
    /\ o.updates = s.updates \cup {[cseq |-> s.cseq + 1, done |-> FALSE, completed |-> FALSE]}
    /\ o.invite = s.invite /\ o.cseq = s.cseq + 1 /\ o.remote_cseq = s.remote_cseq
    /\ o.local_hold \in BOOLEAN /\ o.unhold \in BOOLEAN /\ o.hold_msg = s.hold_msg
    /\ Requested(p, s, "UPDATE", o.out)

LEMMA UpdatedKept ==
    ASSUME NEW p, NEW s, NEW o, Kept(s), s.neg.state = "DONE", Updated(p, s, o),
           Patient => s.invite.role = "none"
    PROVE  Kept(o) /\ \A c \in Nat : OfInvite(c, s) => OfInvite(c, o)
<1> DEFINE w == [cseq |-> s.cseq + 1, done |-> FALSE, completed |-> FALSE]
<1>1. Sound(s)
    BY DEF Kept
<1>2. s.cseq \in Nat /\ \A u \in s.updates : u.cseq \in Nat /\ u.cseq <= s.cseq
    BY <1>1 DEF Sound, Update
<1>3. w \in Update /\ w.cseq = s.cseq + 1 /\ ~w.done /\ ~w.completed
    BY <1>2 DEF Update
<1>4. o.updates = s.updates \cup {w} /\ o.cseq = s.cseq + 1
    BY DEF Updated
<1> HIDE DEF w
<1>5. Sound(o)
    <2>1. o.cseq \in Nat /\ (\A u \in o.updates : u.cseq <= o.cseq)
        BY <1>2, <1>3, <1>4
    <2>2. \A u, v \in o.updates : u.cseq = v.cseq => u = v
        BY <1>1, <1>2, <1>3, <1>4 DEF Sound
    <2>3. o.neg.state \in NegStates /\ o.updates \subseteq Update
        BY <1>1, <1>3, <1>4 DEF Sound, Updated, NegStates
    <2> QED BY <1>1, <2>1, <2>2, <2>3 DEF Sound, Updated
<1>6. Pending(o) = Pending(s) \cup {w}
    BY <1>3, <1>4 DEF Pending
<1>7. ASSUME Ends(s) PROVE Ends(o)
    BY <1>3, <1>6, <1>7 DEF Ends, Updated
<1>8. ASSUME Patient, Waits(s) PROVE Waits(o)
    <2>1. Pending(o) = {w}
        BY <1>6, <1>8 DEF Waits
    <2> QED BY <1>3, <1>4, <1>8, <2>1 DEF Waits, Updated
<1>9. \A c \in Nat : OfInvite(c, s) => OfInvite(c, o)
    BY <1>2, <1>3, <1>4 DEF OfInvite
<1> QED BY <1>5, <1>7, <1>8, <1>9 DEF Kept

\* pjsip_inv_update.
LEMMA UpdatingFacts ==
    ASSUME NEW p, NEW s, NEW t, NEW media, Sound(s), s.out = {},
           PartyShape(t), t.neg = s.neg, t.invite = s.invite, t.updates = s.updates, t.cseq = s.cseq,
           t.remote_cseq = s.remote_cseq, t.local_hold \in BOOLEAN, t.unhold \in BOOLEAN,
           t.hold_msg = s.hold_msg, t.out = {}
    PROVE  Updated(p, s, Updating(p, t, media))
<1> DEFINE n == modify_local_offer(s.neg, media)
           w == [cseq |-> s.cseq + 1, done |-> FALSE, completed |-> FALSE]
           r == [t EXCEPT !.neg = n, !.cseq = s.cseq + 1, !.updates = s.updates \cup {w}]
           x == Msg(p, "UPDATE", s.cseq + 1, n.neg_local)
           o == Send(r, x)
<1>1. NegShape(n) /\ n.state = "LOCAL_OFFER"
    BY OfferFacts DEF Sound
<1>2. Updating(p, t, media) = o
    <2>1. Updating(p, t, media) = SendUpdate(p, t, n)
        BY DEF Updating
    <2> HIDE DEF n
    <2>2. SendUpdate(p, t, n) = o
        BY DEF SendUpdate, PartyShape
    <2> QED BY <2>1, <2>2
<1>3. MsgShape(x) /\ x.to = Other(p) /\ x.kind = "UPDATE" /\ x.cseq = s.cseq + 1
    BY MsgFacts
<1> HIDE DEF n, x, w
<1>4. /\ PartyShape(r) /\ r.neg = n /\ r.out = {} /\ r.unhold = t.unhold /\ r.invite = s.invite
      /\ r.updates = s.updates \cup {w} /\ r.cseq = s.cseq + 1 /\ r.remote_cseq = s.remote_cseq
      /\ r.local_hold = t.local_hold /\ r.hold_msg = s.hold_msg
    BY DEF PartyShape
<1> HIDE DEF r
<1>5. /\ PartyShape(o) /\ o.neg = n /\ o.out = {x} /\ o.unhold = t.unhold /\ o.invite = s.invite
      /\ o.updates = s.updates \cup {w} /\ o.cseq = s.cseq + 1 /\ o.remote_cseq = s.remote_cseq
      /\ o.local_hold = t.local_hold /\ o.hold_msg = s.hold_msg
    BY <1>4, SendFacts
<1> HIDE DEF o
<1>6. Requested(p, s, "UPDATE", o.out)
    BY <1>3, <1>5 DEF Requested
<1>7. Updated(p, s, o)
    BY <1>1, <1>5, <1>6 DEF Updated, w
<1> QED BY <1>2, <1>7

-------------------------------------------------------------------------------
(* Steps.                                                                  *)

LEMMA OtherFacts ==
    ASSUME NEW p \in Parties
    PROVE  Other(p) \in Parties /\ Other(p) # p /\ Other(Other(p)) = p
    BY DEF Parties, Other

\* Once everything is sent.
LEMMA SentKept ==
    ASSUME NEW s, Kept(s)
    PROVE  LET o == [s EXCEPT !.out = {}]
           IN  /\ Kept(o) /\ o.out = {} /\ o.cseq = s.cseq /\ o.remote_cseq = s.remote_cseq
               /\ o.updates = s.updates
<1> DEFINE o == [s EXCEPT !.out = {}]
<1>1. /\ PartyShape(o) /\ o.neg = s.neg /\ o.out = {} /\ o.unhold = s.unhold
      /\ o.updates = s.updates /\ o.cseq = s.cseq /\ o.remote_cseq = s.remote_cseq
      /\ o.local_hold = s.local_hold /\ o.hold_msg = s.hold_msg /\ o.invite = s.invite
    BY DEF Kept, Sound, PartyShape
<1> HIDE DEF o
<1>2. Sound(o)
    BY <1>1 DEF Kept, Sound
<1>3. Pending(o) = Pending(s)
    BY <1>1 DEF Pending
<1>4. (Takes => Ends(o)) /\ (Patient => Waits(o))
    BY <1>1, <1>3 DEF Kept, Ends, Waits
<1>5. Kept(o) /\ o.out = {} /\ o.cseq = s.cseq /\ o.remote_cseq = s.remote_cseq /\ o.updates = s.updates
    BY <1>1, <1>2, <1>4 DEF Kept
<1> QED BY <1>5 DEF o

\* A party becomes o and sends what it has to say: the invariant holds when o is kept, its
\* numbers only grow, and its messages are as they must be.
LEMMA PartyStep ==
    ASSUME IInv, NEW p \in Parties, NEW o, Kept(o), Becomes(p, o),
           requests' \in 0 .. MaxRequests, requests <= requests',
           o.cseq <= requests', o.remote_cseq <= MaxRequests, party[p].cseq <= o.cseq,
           \A c \in Nat : OfInvite(c, party[p]) => OfInvite(c, o),
           \A x \in o.out : x.to = Other(p) /\ Wire(x, o, party[Other(p)]),
           net' \subseteq net \cup o.out
    PROVE  IInv'
<1> DEFINE s == party[p]
           t == [o EXCEPT !.out = {}]
           q == Other(p)
<1>1. q \in Parties /\ q # p /\ Other(q) = p /\ Parties = {p, q}
    BY OtherFacts DEF Parties
<1>2. Kept(t) /\ t.out = {} /\ t.cseq = o.cseq /\ t.remote_cseq = o.remote_cseq /\ t.updates = o.updates
    BY SentKept
<1>3. party' = [party EXCEPT ![p] = t]
    BY DEF Becomes
<1> HIDE DEF t
<1>4. party'[p] = t /\ party'[q] = party[q] /\ party' = [r \in Parties |-> party'[r]]
    BY <1>1, <1>3 DEF IInv
<1>5. /\ Kept(s) /\ Kept(party[q]) /\ party[q].cseq <= requests
      /\ party[q].remote_cseq <= MaxRequests /\ party[q].out = {}
      /\ requests \in 0 .. MaxRequests
    BY <1>1 DEF IInv
<1>6. party[q].cseq \in Nat /\ party[p].cseq \in Nat /\ o.cseq \in Nat
    BY <1>5 DEF Kept, Sound
<1>7. \A r \in Parties : Kept(party'[r]) /\ party'[r].cseq <= requests'
                         /\ party'[r].remote_cseq <= MaxRequests /\ party'[r].out = {}
    BY <1>1, <1>2, <1>4, <1>5, <1>6
<1>8. ASSUME NEW m \in net'
      PROVE  m.to \in Parties /\ Wire(m, party'[Other(m.to)], party'[m.to])
    <2>1. \A c \in Nat : OfInvite(c, o) => OfInvite(c, t)
        BY <1>2 DEF OfInvite
    <2>2. CASE m \in o.out
        <3>1. m.to = q /\ Wire(m, o, party[q])
            BY <2>2
        <3>2. Wire(m, t, party[q])
            BY <1>2, <2>1, <3>1 DEF Wire
        <3> QED BY <1>1, <1>4, <3>1, <3>2
    <2>3. CASE m \in net
        <3>1. m.to \in {p, q} /\ Wire(m, party[Other(m.to)], party[m.to])
            BY <1>1, <2>3 DEF IInv
        <3>2. m.cseq \in Nat /\ t.cseq \in Nat
            BY <1>2, <1>6, <3>1 DEF Wire
        <3>3. OfInvite(m.cseq, s) => OfInvite(m.cseq, t)
            BY <2>1, <3>2
        <3>4. CASE m.to = p
            <4>1. Wire(m, party[q], t)
                BY <3>1, <3>3, <3>4 DEF Wire
            <4> QED BY <1>1, <1>4, <3>4, <4>1
        <3>5. CASE m.to = q
            <4>1. Wire(m, s, party[q])
                BY <1>1, <3>1, <3>5
            <4>2. m.cseq <= s.cseq => m.cseq <= t.cseq
                BY <1>2, <1>6, <3>2
            <4>3. Wire(m, t, party[q])
                BY <3>3, <4>1, <4>2 DEF Wire
            <4> QED BY <1>1, <1>4, <3>5, <4>3
        <3> QED BY <3>1, <3>4, <3>5
    <2> QED BY <2>2, <2>3
<1> QED BY <1>4, <1>7, <1>8 DEF IInv

\* The user asks for something.
LEMMA MayAskFacts ==
    ASSUME IInv, NEW p \in Parties, MayAsk(p)
    PROVE  /\ Kept(party[p]) /\ party[p].out = {}
           /\ requests' \in 0 .. MaxRequests /\ requests' = requests + 1 /\ requests \in Nat
           /\ party[p].cseq \in Nat /\ party[p].cseq + 1 <= requests'
           /\ party[p].remote_cseq <= MaxRequests
           /\ Patient => Pending(party[p]) = {} /\ party[p].invite.role = "none"
<1>1. /\ Kept(party[p]) /\ party[p].out = {} /\ party[p].cseq <= requests
      /\ party[p].remote_cseq <= MaxRequests /\ requests \in 0 .. MaxRequests
    BY DEF IInv
<1>2. requests < MaxRequests /\ requests' = requests + 1
    BY DEF MayAsk
<1>3. party[p].cseq \in Nat /\ party[p].invite.role \in {"none", "uac", "uas"}
    BY <1>1 DEF Kept, Sound, Tsx
<1>4. MaxRequests \in Nat
    BY SdpSessionAssumption
<1>5. Patient => Pending(party[p]) = {} /\ party[p].invite.role = "none"
    BY <1>3 DEF MayAsk, Patient, Pending
<1> QED BY <1>1, <1>2, <1>3, <1>4, <1>5

LEMMA ReinviteStep ==
    ASSUME IInv, NEW p \in Parties, MayAsk(p), party[p].invite.role = "none",
           NEW o, Reinvited(p, party[p], o), Becomes(p, o), net' = net \cup o.out
    PROVE  IInv'
<1> DEFINE s == party[p]
<1>1. /\ Kept(s) /\ requests' \in 0 .. MaxRequests /\ requests' = requests + 1 /\ requests \in Nat
      /\ s.cseq \in Nat /\ s.cseq + 1 <= requests' /\ s.remote_cseq <= MaxRequests
      /\ Patient => Pending(s) = {}
    BY MayAskFacts
<1> HIDE DEF s
<1>2. Reinvited(p, s, o) /\ s.invite.role = "none"
    BY DEF s
<1>3. Kept(o) /\ \A c \in Nat : OfInvite(c, s) => OfInvite(c, o)
    BY <1>1, <1>2, ReinvitedKept
<1>4. o.cseq = s.cseq + 1 /\ o.remote_cseq = s.remote_cseq /\ o.updates = s.updates
      /\ Requested(p, s, "INVITE", o.out)
    BY <1>2 DEF Reinvited
<1>5. \A x \in o.out : x.to = Other(p) /\ Wire(x, o, party[Other(p)])
    <2>1. OfInvite(s.cseq + 1, o)
        <3>1. \A u \in s.updates : u.cseq \in Nat /\ u.cseq <= s.cseq
            BY <1>1 DEF Kept, Sound, Update
        <3> QED BY <1>1, <1>4, <3>1 DEF OfInvite
    <2> QED BY <1>1, <1>4, <2>1 DEF Requested, Wire, Kinds, Requests
<1>6. o.cseq <= requests' /\ o.remote_cseq <= MaxRequests /\ s.cseq <= o.cseq /\ requests <= requests'
    BY <1>1, <1>4
<1> QED BY <1>1, <1>3, <1>5, <1>6, PartyStep DEF s

LEMMA UpdateStep ==
    ASSUME IInv, NEW p \in Parties, MayAsk(p), party[p].neg.state = "DONE",
           NEW o, Updated(p, party[p], o), Becomes(p, o), net' = net \cup o.out
    PROVE  IInv'
<1> DEFINE s == party[p]
<1>1. /\ Kept(s) /\ requests' \in 0 .. MaxRequests /\ requests' = requests + 1 /\ requests \in Nat
      /\ s.cseq \in Nat /\ s.cseq + 1 <= requests' /\ s.remote_cseq <= MaxRequests
      /\ Patient => s.invite.role = "none"
    BY MayAskFacts
<1> HIDE DEF s
<1>2. Updated(p, s, o) /\ s.neg.state = "DONE"
    BY DEF s
<1>3. Kept(o) /\ \A c \in Nat : OfInvite(c, s) => OfInvite(c, o)
    BY <1>1, <1>2, UpdatedKept
<1>4. o.cseq = s.cseq + 1 /\ o.remote_cseq = s.remote_cseq /\ Requested(p, s, "UPDATE", o.out)
    BY <1>2 DEF Updated
<1>5. \A x \in o.out : x.to = Other(p) /\ Wire(x, o, party[Other(p)])
    BY <1>1, <1>4 DEF Requested, Wire, Kinds, Requests
<1>6. o.cseq <= requests' /\ o.remote_cseq <= MaxRequests /\ s.cseq <= o.cseq /\ requests <= requests'
    BY <1>1, <1>4
<1> QED BY <1>1, <1>3, <1>5, <1>6, PartyStep DEF s

\* The marks of a hold are set on the party that has sent a re-INVITE.
LEMMA MarkFacts ==
    ASSUME NEW p, NEW s, NEW r, Reinvited(p, s, r), NEW hold \in BOOLEAN, NEW unhold \in BOOLEAN,
           NEW msg \in {0, s.cseq + 1}
    PROVE  Reinvited(p, s, [r EXCEPT !.local_hold = hold, !.hold_msg = msg, !.unhold = unhold])
<1> DEFINE o == [r EXCEPT !.local_hold = hold, !.hold_msg = msg, !.unhold = unhold]
<1>1. /\ PartyShape(o) /\ o.neg = r.neg /\ o.out = r.out /\ o.unhold = unhold
      /\ o.updates = r.updates /\ o.cseq = r.cseq /\ o.remote_cseq = r.remote_cseq
      /\ o.local_hold = hold /\ o.hold_msg = msg /\ o.invite = r.invite
    BY DEF Reinvited, PartyShape
<1> HIDE DEF o
<1>2. Reinvited(p, s, o)
    BY <1>1 DEF Reinvited
<1> QED BY <1>2 DEF o

\* A party that is about to ask for an unhold, or not.
LEMMA UnholdSet ==
    ASSUME NEW s, NEW unhold \in BOOLEAN, Sound(s)
    PROVE  LET t == [s EXCEPT !.unhold = unhold]
           IN  /\ Sound(t) /\ t.neg = s.neg /\ t.out = s.out /\ t.updates = s.updates
               /\ t.cseq = s.cseq /\ t.remote_cseq = s.remote_cseq /\ t.invite = s.invite
<1> DEFINE t == [s EXCEPT !.unhold = unhold]
<1>1. /\ PartyShape(t) /\ t.neg = s.neg /\ t.out = s.out /\ t.updates = s.updates
      /\ t.cseq = s.cseq /\ t.remote_cseq = s.remote_cseq /\ t.invite = s.invite
      /\ t.local_hold = s.local_hold /\ t.unhold = unhold /\ t.hold_msg = s.hold_msg
    BY DEF Sound, PartyShape
<1> HIDE DEF t
<1>2. Sound(t)
    BY <1>1 DEF Sound
<1> QED BY <1>1, <1>2 DEF t

\* pjsua_call_set_hold2.
LEMMA HoldStep ==
    ASSUME IInv, NEW p \in Parties, Hold(p)
    PROVE  IInv'
<1> DEFINE s == party[p]
<1>1. PICK media \in Offers[p] :
          LET o == [Reinvite(p, s, HoldOffer(s, media))
                       EXCEPT !.local_hold = TRUE, !.hold_msg = s.cseq + 1, !.unhold = FALSE]
          IN  Becomes(p, o) /\ net' = net \cup o.out
    BY DEF Hold, Sent
<1> DEFINE r == Reinvite(p, s, HoldOffer(s, media))
           o == [r EXCEPT !.local_hold = TRUE, !.hold_msg = s.cseq + 1, !.unhold = FALSE]
<1>2. MayAsk(p) /\ s.invite.role = "none" /\ Sound(s) /\ s.out = {}
    BY DEF Hold, IInv, Kept
<1>3. Reinvited(p, s, r)
    BY <1>2, ReinviteFacts
<1>4. Becomes(p, o) /\ net' = net \cup o.out
    BY <1>1
<1> HIDE DEF r
<1>5. Reinvited(p, s, o)
    BY <1>3, MarkFacts
<1> HIDE DEF o
<1> QED BY <1>2, <1>4, <1>5, ReinviteStep

\* pjsua_call_reinvite2, whatever it offers.
LEMMA ReinviteWith ==
    ASSUME IInv, NEW p \in Parties, MayAsk(p), party[p].invite.role = "none",
           NEW unhold \in BOOLEAN, NEW lines,
           NEW o, o = [Reinvite(p, [party[p] EXCEPT !.unhold = unhold], lines)
                          EXCEPT !.local_hold = @ /\ ~unhold],
           Becomes(p, o), net' = net \cup o.out
    PROVE  IInv'
<1> DEFINE s == party[p]
           t == [s EXCEPT !.unhold = unhold]
           r == Reinvite(p, t, lines)
           hold == r.local_hold /\ ~unhold
<1>1. Sound(s) /\ s.out = {} /\ s.invite.role = "none"
    BY DEF IInv, Kept
<1>2. /\ Sound(t) /\ t.neg = s.neg /\ t.out = {} /\ t.updates = s.updates
      /\ t.cseq = s.cseq /\ t.remote_cseq = s.remote_cseq /\ t.invite = s.invite
    BY <1>1, UnholdSet
<1>3. o = [r EXCEPT !.local_hold = @ /\ ~unhold]
    OBVIOUS
<1> HIDE DEF t
<1>4. Reinvited(p, t, r) /\ r.local_hold = t.local_hold /\ r.hold_msg = 0
    BY <1>1, <1>2, ReinviteFacts
<1> HIDE DEF r
<1>5. Reinvited(p, s, r) /\ r.unhold \in BOOLEAN
    BY <1>2, <1>4 DEF Reinvited, Requested
<1>6. o = [r EXCEPT !.local_hold = hold]
    BY <1>3, <1>4 DEF Reinvited, PartyShape
<1>7. hold \in BOOLEAN
    BY <1>2, <1>4 DEF Sound
<1> HIDE DEF hold
<1>8. o = [r EXCEPT !.local_hold = hold, !.hold_msg = 0, !.unhold = r.unhold]
    BY <1>4, <1>6 DEF Reinvited, PartyShape
<1> DEFINE none == 0
<1>9. Reinvited(p, s, o)
    <2>1. none \in {0, s.cseq + 1}
        OBVIOUS
    <2>2. o = [r EXCEPT !.local_hold = hold, !.hold_msg = none, !.unhold = r.unhold]
        BY <1>8
    <2> HIDE DEF none, s
    <2>3. Reinvited(p, s, [r EXCEPT !.local_hold = hold, !.hold_msg = none, !.unhold = r.unhold])
        BY <1>5, <1>7, <2>1, MarkFacts
    <2> QED BY <2>2, <2>3
<1> QED BY <1>1, <1>9, ReinviteStep

LEMMA CallReinviteStep ==
    ASSUME IInv, NEW p \in Parties, NEW unhold \in BOOLEAN, CallReinvite(p, unhold)
    PROVE  IInv'
<1> DEFINE s == party[p]
<1>1. PICK media \in Offers[p] :
          LET o == [Reinvite(p, [s EXCEPT !.unhold = unhold], Wanted(s, unhold, media))
                       EXCEPT !.local_hold = @ /\ ~unhold]
          IN  Becomes(p, o) /\ net' = net \cup o.out
    BY DEF CallReinvite, Sent
<1>2. MayAsk(p) /\ s.invite.role = "none"
    BY DEF CallReinvite
<1> DEFINE lines == Wanted(s, unhold, media)
           o == [Reinvite(p, [s EXCEPT !.unhold = unhold], lines) EXCEPT !.local_hold = @ /\ ~unhold]
<1>3. Becomes(p, o) /\ net' = net \cup o.out
    BY <1>1
<1> HIDE DEF lines
<1>4. o = [Reinvite(p, [party[p] EXCEPT !.unhold = unhold], lines) EXCEPT !.local_hold = @ /\ ~unhold]
    OBVIOUS
<1> HIDE DEF o
<1> QED BY <1>2, <1>3, <1>4, ReinviteWith

LEMMA CallReinviteNoOfferStep ==
    ASSUME IInv, NEW p \in Parties, CallReinviteNoOffer(p)
    PROVE  IInv'
<1> DEFINE s == party[p]
           t == [s EXCEPT !.unhold = FALSE]
           o == Reinvite(p, t, <<>>)
<1>1. Sound(s) /\ s.out = {} /\ s.invite.role = "none" /\ MayAsk(p)
    BY DEF IInv, Kept, CallReinviteNoOffer
<1>2. /\ Sound(t) /\ t.neg = s.neg /\ t.out = {} /\ t.updates = s.updates
      /\ t.cseq = s.cseq /\ t.remote_cseq = s.remote_cseq /\ t.invite = s.invite
    BY <1>1, UnholdSet
<1>3. Becomes(p, o) /\ net' = net \cup o.out
    BY DEF CallReinviteNoOffer, Sent
<1> HIDE DEF t
<1>4. Reinvited(p, t, o)
    BY <1>1, <1>2, ReinviteFacts
<1> HIDE DEF o
<1>5. Reinvited(p, s, o)
    BY <1>2, <1>4 DEF Reinvited, Requested
<1> QED BY <1>1, <1>3, <1>5, ReinviteStep

LEMMA CallUpdateStep ==
    ASSUME IInv, NEW p \in Parties, NEW unhold \in BOOLEAN, CallUpdate(p, unhold)
    PROVE  IInv'
<1> DEFINE s == party[p]
           hold == s.local_hold /\ ~unhold
           t == [s EXCEPT !.unhold = unhold, !.local_hold = hold]
<1>1. Sound(s) /\ s.out = {} /\ s.neg.state = "DONE" /\ MayAsk(p)
    BY DEF IInv, Kept, CallUpdate
<1>2. [s EXCEPT !.unhold = unhold, !.local_hold = @ /\ ~unhold] = t
    BY <1>1 DEF Sound, PartyShape
<1>3. PICK media \in Offers[p] :
          LET o == Updating(p, t, Wanted(s, unhold, media))
          IN  Becomes(p, o) /\ net' = net \cup o.out
    BY <1>2 DEF CallUpdate, Sent
<1>4. hold \in BOOLEAN
    BY <1>1 DEF Sound
<1> HIDE DEF hold
<1>5. /\ PartyShape(t) /\ t.neg = s.neg /\ t.out = {} /\ t.updates = s.updates
      /\ t.cseq = s.cseq /\ t.remote_cseq = s.remote_cseq /\ t.invite = s.invite
      /\ t.local_hold \in BOOLEAN /\ t.unhold \in BOOLEAN /\ t.hold_msg = s.hold_msg
    <2>1. PartyShape(s)
        BY <1>1 DEF Sound
    <2> HIDE DEF s
    <2>2. s.out = {}
        BY <1>1 DEF s
    <2>3. hold \in BOOLEAN /\ unhold \in BOOLEAN
        BY <1>4
    <2> QED BY <2>1, <2>2, <2>3 DEF PartyShape
<1> DEFINE lines == Wanted(s, unhold, media)
           o == Updating(p, t, lines)
<1>6. Becomes(p, o) /\ net' = net \cup o.out
    BY <1>3
<1> HIDE DEF t, lines
<1>7. Updated(p, s, o)
    BY <1>1, <1>4, <1>5, UpdatingFacts
<1> HIDE DEF o
<1> QED BY <1>1, <1>6, <1>7, UpdateStep

\* The transaction of an UPDATE terminates.
LEMMA UpdateTerminatesStep ==
    ASSUME IInv, NEW p \in Parties, UpdateTerminates(p)
    PROVE  IInv'
<1> DEFINE s == party[p]
<1>1. /\ Kept(s) /\ s.out = {} /\ s.cseq <= requests /\ s.remote_cseq <= MaxRequests
      /\ requests \in 0 .. MaxRequests
    BY DEF IInv
<1>2. PICK u \in s.updates : u.completed /\ Becomes(p, Without(s, u))
    BY DEF UpdateTerminates, Without
<1>3. net' = net /\ requests' = requests
    BY DEF UpdateTerminates
<1> DEFINE o == Without(s, u)
<1>4. /\ Kept(o) /\ o.cseq = s.cseq /\ o.remote_cseq = s.remote_cseq /\ o.out = {}
      /\ \A c : OfInvite(c, s) => OfInvite(c, o)
    BY <1>1, <1>2, WithoutFacts
<1>5. Becomes(p, o)
    BY <1>2
<1> HIDE DEF o
<1>6. s.cseq \in Nat
    BY <1>1 DEF Kept, Sound
<1>7. requests' \in 0 .. MaxRequests /\ requests <= requests' /\ o.cseq <= requests' /\ s.cseq <= o.cseq
    BY <1>1, <1>3, <1>4, <1>6
<1> QED BY <1>1, <1>3, <1>4, <1>5, <1>7, PartyStep

\* A message is handled by p, which becomes o.
LEMMA ReceiveStep ==
    ASSUME IInv, NEW p \in Parties, NEW o, Kept(o), Becomes(p, o),
           net' \subseteq net \cup o.out, requests' = requests,
           o.cseq = party[p].cseq, o.remote_cseq <= MaxRequests,
           \A c \in Nat : OfInvite(c, party[p]) => OfInvite(c, o),
           \A x \in o.out : x.to = Other(p) /\ Wire(x, o, party[Other(p)])
    PROVE  IInv'
<1>1. /\ party[p].cseq \in Nat /\ party[p].cseq <= requests /\ requests \in 0 .. MaxRequests
    BY DEF IInv, Kept, Sound
<1> QED BY <1>1, PartyStep

\* A message arrives.
LEMMA DeliverStep ==
    ASSUME IInv, NEW m, Deliver(m)
    PROVE  IInv'
<1> DEFINE p == m.to
           s == party[p]
           q == Other(p)
<1>1. m \in net /\ p \in Parties /\ Wire(m, party[q], s)
    BY DEF Deliver, IInv
<1>2. q \in Parties
    BY <1>1, OtherFacts
<1>3. /\ Kept(s) /\ s.out = {} /\ s.cseq <= requests /\ s.remote_cseq <= MaxRequests
      /\ party[q].cseq <= requests /\ requests \in 0 .. MaxRequests
    BY <1>1, <1>2 DEF IInv
<1>4. PICK o \in Receives(m) : Becomes(p, o) /\ net' = (net \ {m}) \cup o.out /\ requests' = requests
    BY DEF Deliver
<1>5. m.kind \in Kinds /\ m.cseq \in Nat
    BY <1>1 DEF Wire
<1>6. CASE m.kind \in Requests
    <2>1. o \in RxRequest(p, s, m)
        BY <1>4, <1>6 DEF Receives, Requests
    <2>2. /\ Kept(o) /\ o.cseq = s.cseq /\ o.updates = s.updates
          /\ o.remote_cseq \in {s.remote_cseq, m.cseq}
          /\ Answers(p, m, o.out)
        BY <1>3, <1>5, <1>6, <2>1, RxRequestFacts
    <2>3. o.remote_cseq <= MaxRequests
        <3>1. party[q].cseq \in Nat
            BY <1>2 DEF IInv, Kept, Sound
        <3>2. m.cseq <= party[q].cseq
            BY <1>1, <1>6 DEF Wire
        <3>3. m.cseq <= MaxRequests
            BY <1>3, <1>5, <3>1, <3>2, SdpSessionAssumption
        <3> QED BY <1>3, <2>2, <3>3
    <2>4. \A c \in Nat : OfInvite(c, s) => OfInvite(c, o)
        BY <2>2 DEF OfInvite
    <2>5. ASSUME NEW x \in o.out
          PROVE  x.to = q /\ Wire(x, o, party[q])
        <3>1. /\ MsgShape(x) /\ x.to = q /\ x.kind \in {"OK", "Fail"} /\ x.cseq = m.cseq
              /\ x.kind = "OK" /\ x.sdp = NoSdp => m.kind = "INVITE"
            BY <2>2 DEF Answers
        <3>2. m.kind = "INVITE" => OfInvite(m.cseq, party[q])
            BY <1>1 DEF Wire
        <3> QED BY <1>5, <3>1, <3>2 DEF Wire, Kinds, Requests
    <2>6. net' \subseteq net \cup o.out
        BY <1>4
    <2> QED BY <1>1, <1>4, <2>2, <2>3, <2>4, <2>5, <2>6, ReceiveStep
<1>7. CASE m.kind = "ACK"
    <2>1. o = RxAck(s, m)
        BY <1>4, <1>7 DEF Receives
    <2>2. Kept(o) /\ o.updates = s.updates /\ o.cseq = s.cseq /\ o.remote_cseq = s.remote_cseq /\ o.out = {}
        BY <1>3, <2>1, RxAckFacts
    <2>3. \A c \in Nat : OfInvite(c, s) => OfInvite(c, o)
        BY <2>2 DEF OfInvite
    <2>4. net' \subseteq net \cup o.out
        BY <1>4
    <2> QED BY <1>1, <1>3, <1>4, <2>2, <2>3, <2>4, ReceiveStep
<1>8. CASE m.kind \in {"OK", "Fail"}
    <2>1. o \in RxResponse(p, s, m)
        BY <1>4, <1>8 DEF Receives
    <2>2. net' \subseteq net \cup o.out
        BY <1>4
    <2>3. CASE s.invite.role = "uac" /\ s.invite.cseq = m.cseq
        <3>1. Kept(o) /\ Ended(s, o) /\ Acks(p, o.out)
            <4>1. o \in RxInviteOk(p, s, m) \/ o = RxInviteFail(p, s)
                BY <2>1, <2>3 DEF RxResponse
            <4> QED BY <1>3, <2>3, <4>1, RxInviteOkFacts, RxInviteFailFacts
        <3>2. \A c \in Nat : OfInvite(c, s) => OfInvite(c, o)
            BY <3>1 DEF OfInvite, Ended
        <3>3. \A x \in o.out : x.to = q /\ Wire(x, o, party[q])
            BY <3>1 DEF Acks, Wire, Kinds, Requests
        <3>4. o.cseq = s.cseq /\ o.remote_cseq <= MaxRequests
            BY <1>3, <3>1 DEF Ended
        <3> QED BY <1>1, <1>4, <2>2, <3>1, <3>2, <3>3, <3>4, ReceiveStep
    <2>4. CASE ~(s.invite.role = "uac" /\ s.invite.cseq = m.cseq)
        <3>1. PICK u \in s.updates : u.cseq = m.cseq /\ ~u.completed /\ o = RxUpdateResponse(s, u, m)
            BY <2>1, <2>4 DEF RxResponse
        <3>2. m.kind = "OK" => m.sdp # NoSdp
            BY <1>1, <3>1 DEF Wire, OfInvite
        <3>3. /\ Kept(o) /\ o.cseq = s.cseq /\ o.remote_cseq = s.remote_cseq /\ o.out = {}
              /\ \A c : OfInvite(c, s) => OfInvite(c, o)
            BY <1>3, <3>1, <3>2, RxUpdateResponseFacts
        <3> QED BY <1>1, <1>3, <1>4, <2>2, <3>3, ReceiveStep
    <2> QED BY <2>3, <2>4
<1> QED BY <1>5, <1>6, <1>7, <1>8 DEF Kinds, Requests

\* The call that was set up.
LEMMA ConfirmedFacts ==
    ASSUME NEW n, NegShape(n), n.state = "DONE"
    PROVE  LET s == Confirmed("C", n)
           IN  Kept(s) /\ s.cseq = 0 /\ s.remote_cseq = 0 /\ s.out = {}
<1> DEFINE s == Confirmed("C", n)
<1>1. /\ PartyShape(s) /\ s.neg = n /\ s.out = {} /\ s.unhold \in BOOLEAN /\ s.invite = NoTsx
      /\ s.updates = {} /\ s.cseq = 0 /\ s.remote_cseq = 0 /\ s.local_hold \in BOOLEAN /\ s.hold_msg = 0
    BY DEF Confirmed, PartyShape
<1> HIDE DEF s
<1>2. NoTsx \in Tsx /\ NoTsx.cseq = 0
    BY DEF NoTsx, Tsx
<1>3. Sound(s)
    <2>1. NegShape(s.neg) /\ s.neg.state \in NegStates
        BY <1>1 DEF NegStates
    <2> QED BY <1>1, <1>2, <2>1 DEF Sound
<1>4. Ends(s) /\ Waits(s)
    <2>1. Pending(s) = {}
        BY <1>1 DEF Pending
    <2>2. Ends(s)
        BY <1>1, <2>1 DEF Ends
    <2>3. Waits(s)
        BY <1>1, <2>1 DEF Waits
    <2> QED BY <2>2, <2>3
<1> QED BY <1>1, <1>3, <1>4 DEF Kept, s

LEMMA InitInv == Init => IInv
<1> SUFFICES ASSUME Init PROVE IInv
    OBVIOUS
<1> DEFINE offering == create_w_local_offer(Media["C"])
           asked == create_w_remote_offer(offering.neg_local)
           answering == set_local_answer(asked, LocalAnswer("S", [local_hold |-> FALSE], offering.neg_local))
           answered == negotiate(answering).neg
           agreed == negotiate(set_remote_answer(offering, answered.active_local)).neg
<1>1. /\ party = [p \in Parties |-> Confirmed(p, IF p = "C" THEN agreed ELSE answered)]
      /\ net = {} /\ requests = 0
    BY DEF Init
<1>2. NegShape(answered) /\ answered.state = "DONE"
    <2>1. NegShape(asked)
        BY DEF create_w_remote_offer, NegShape
    <2> HIDE DEF asked
    <2>2. NegShape(answering)
        BY <2>1, TakeFacts
    <2> HIDE DEF answering
    <2> QED BY <2>2, NegotiateFacts
<1>3. NegShape(agreed) /\ agreed.state = "DONE"
    <2>1. NegShape(offering)
        BY DEF create_w_local_offer, NegShape
    <2> HIDE DEF offering, answered
    <2>2. NegShape(set_remote_answer(offering, answered.active_local))
        BY <2>1, TakeFacts
    <2> QED BY <2>2, NegotiateFacts
<1> HIDE DEF agreed, answered
<1>4. ASSUME NEW p \in Parties
      PROVE  Kept(party[p]) /\ party[p].cseq = 0 /\ party[p].remote_cseq = 0 /\ party[p].out = {}
    <2>1. PICK n : n \in {agreed, answered} /\ party[p] = Confirmed("C", n)
        BY <1>1 DEF Confirmed
    <2> QED BY <1>2, <1>3, <2>1, ConfirmedFacts
<1>5. 0 \in 0 .. MaxRequests
    BY SdpSessionAssumption
<1> QED BY <1>1, <1>4, <1>5 DEF IInv

LEMMA StepInv == IInv /\ [Next]_vars => IInv'
<1> SUFFICES ASSUME IInv, [Next]_vars PROVE IInv'
    OBVIOUS
<1>1. ASSUME NEW p \in Parties, Ask(p) PROVE IInv'
    BY <1>1, HoldStep, CallReinviteStep, CallReinviteNoOfferStep, CallUpdateStep DEF Ask
<1>2. ASSUME NEW p \in Parties, UpdateTerminates(p) PROVE IInv'
    BY <1>2, UpdateTerminatesStep
<1>3. ASSUME NEW m \in net, Deliver(m) PROVE IInv'
    BY <1>3, DeliverStep
<1>4. CASE UNCHANGED vars
    BY <1>4 DEF vars, IInv
<1> QED BY <1>1, <1>2, <1>3, <1>4 DEF Next

LEMMA SpecInv == Spec => []IInv
    BY InitInv, StepInv, PTL DEF Spec

-------------------------------------------------------------------------------
(* The theorems.                                                           *)

\* A party keeps its types whatever its users ask for and decline: its transactions count
\* its requests, and a hold that waits for its response belongs to the re-INVITE under way
\* (pjsua_call_on_tsx_state_changed compares hold_msg with that transaction).
THEOREM TypeCorrect == Spec => []TypeOK
<1>1. ASSUME IInv, NEW p \in Parties
      PROVE  /\ party[p].neg.state \in NegStates
             /\ party[p].invite.role \in {"none", "uac", "uas"}
             /\ party[p].out = {}
             /\ party[p].local_hold \in BOOLEAN /\ party[p].unhold \in BOOLEAN
             /\ party[p].cseq \in 0 .. MaxRequests /\ party[p].remote_cseq \in 0 .. MaxRequests
             /\ party[p].hold_msg \in {0, party[p].invite.cseq}
    <2>1. /\ Sound(party[p]) /\ party[p].out = {} /\ party[p].cseq <= requests
          /\ party[p].remote_cseq <= MaxRequests /\ requests \in 0 .. MaxRequests
        BY <1>1 DEF IInv, Kept
    <2>2. party[p].cseq \in Nat /\ party[p].remote_cseq \in Nat /\ MaxRequests \in Nat
        BY <2>1, SdpSessionAssumption DEF Sound
    <2>3. party[p].cseq \in 0 .. MaxRequests /\ party[p].remote_cseq \in 0 .. MaxRequests
        BY <2>1, <2>2
    <2> QED BY <2>1, <2>3 DEF Sound, Tsx
<1>2. IInv => TypeOK
    BY <1>1 DEF TypeOK, IInv
<1> QED BY <1>2, SpecInv, PTL

\* No offer stays open, however requests cross, are refused, declined or answered late, as
\* long as the user takes the offers that come in a response: every open offer has a
\* transaction whose end closes it (inv_check_sdp_in_incoming_msg, inv_handle_update_response,
\* mod_inv_on_rx_request).
THEOREM OffersEnd ==
    ASSUME "response" \notin Declines
    PROVE  Spec => []OfferEnds
<1>1. ASSUME IInv, Quiet, NEW p \in Parties
      PROVE  party[p].neg.state = "DONE"
    <2>1. Ends(party[p])
        BY <1>1 DEF IInv, Kept, Takes
    <2>2. Pending(party[p]) = {} /\ party[p].invite = NoTsx
        BY <1>1 DEF Quiet, Pending
    <2> QED BY <2>1, <2>2 DEF Ends, NoTsx
<1>2. IInv => OfferEnds
    BY <1>1 DEF OfferEnds
<1> QED BY <1>2, SpecInv, PTL

\* "Prevent from us cancelling different offer!" (inv_handle_update_response) holds of the
\* offer of an UPDATE for users who ask for one thing at a time and do not start while they
\* are answering.
THEOREM OffersWait ==
    ASSUME {"own", "other"} \subseteq Habits
    PROVE  Spec => []OfferWaits
<1>1. ASSUME IInv, NEW p \in Parties, \E u \in party[p].updates : ~u.completed
      PROVE  party[p].neg.state = "LOCAL_OFFER"
    <2>1. Waits(party[p]) /\ Pending(party[p]) # {}
        BY <1>1 DEF IInv, Kept, Patient, Pending
    <2> QED BY <2>1 DEF Waits
<1>2. IInv => OfferWaits
    BY <1>1 DEF OfferWaits
<1> QED BY <1>2, SpecInv, PTL
===============================================================================
