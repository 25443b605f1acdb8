----------------------------- MODULE InvCallProofs -----------------------------
(***************************************************************************)
(* Proofs about a call between two parties: no party sends more than four  *)
(* BYE requests, whatever is lost, late or challenged, and the BYE of the  *)
(* callee finds the caller confirmed or ending the call itself.            *)
(***************************************************************************)
EXTENDS InvCall, TLAPS

Flying == net \cup late

One(b) == IF b THEN 1 ELSE 0

-------------------------------------------------------------------------------
(* The BYE requests of a party and those it may still come to send.        *)

\* The caller: one for hanging up, at once or when the CANCEL is not answered;
\* one when the session is confirmed while it is being hung up; one for a 2xx
\* whose SDP is of no use.
CallerUse(i) == i.byes + One(~i.hanging_up \/ i.pending_cancel \/ i.cancel = "Pending")
                       + One(i.state \notin {"CONFIRMED", "DISCONNECTED"})
                       + One(i.tsx # "Ended")

\* The callee: one for hanging up, which may have to wait for the ACK; one when the
\* INVITE transaction ends, with the ACK or without.
CalleeUse(i) == i.byes + One(~i.hanging_up \/ i.pending_bye) + One(i.tsx # "Ended")

ByeOf(p) == IF p = "C" THEN "caller BYE" ELSE "callee BYE"

ChallengesTo(p) == {m \in Flying : m.kind = "ByeChallenge" /\ m.to = p}

\* Either: one more when the proxy challenges a BYE.
Repeat(p) == One(ByeOf(p) \in asked \/ ChallengesTo(p) # {})

Budget == CallerUse(inv["C"]) + Repeat("C") <= 4 /\ CalleeUse(inv["S"]) + Repeat("S") <= 4

\* A BYE is challenged once.
ChallengedOnce ==
    \A p \in Parties :
        /\ ByeOf(p) \in asked => ChallengesTo(p) = {}
        /\ \A m, n \in ChallengesTo(p) : m = n
        /\ \A m \in ChallengesTo(p) : ~(m \in net /\ m \in late)

-------------------------------------------------------------------------------
(* The sessions and the messages between them.                             *)

CallerOK(c) ==
    /\ c.state \in {"CALLING", "EARLY", "CONNECTING", "CONFIRMED", "DISCONNECTED"}
    /\ c.tsx \in {"Calling", "Proceeding", "Ended"}
    /\ c.tsx = "Ended" => c.state \in {"CONNECTING", "CONFIRMED", "DISCONNECTED"}
    /\ c.state \in {"CONNECTING", "CONFIRMED"} => c.tsx = "Ended"
    /\ (c.pending_cancel \/ c.cancel = "Pending") => c.hanging_up
    /\ c.cancel = "Pending" => ~c.pending_cancel

CalleeOK(s) ==
    /\ s.state = "CONFIRMED" => ~s.pending_bye
    /\ s.state \in {"INCOMING", "EARLY"} => s.tsx = "Proceeding"

\* Before the INVITE reaches the callee there is only it, or its challenge, and the
\* caller has had no response.
Unborn ==
    inv["S"].state = "NULL" =>
        /\ inv["S"] = Idle
        /\ Flying \subseteq {Msg("S", "INVITE"), Msg("C", "Challenge")}
        /\ \A m, n \in Flying : m = n
        /\ net \cap late = {}
        /\ inv["C"].byes = 0 /\ inv["C"].open = {} /\ inv["C"].cancel = "None"
        /\ \/ inv["C"].state = "CALLING" /\ inv["C"].tsx = "Calling"
           \/ inv["C"].state = "DISCONNECTED" /\ inv["C"].tsx = "Ended"

\* And afterwards it is gone.
Born == \A m \in Flying : m.kind \in {"INVITE", "Challenge"} => inv["S"].state = "NULL"

\* Each party gets its own messages.
ToCaller == {"100", "180", "2xx", "Fail", "Challenge", "CancelDone"}
ToCallee == {"INVITE", "CANCEL", "ACK"}

Routed == \A m \in Flying : (m.kind \in ToCaller => m.to = "C") /\ (m.kind \in ToCallee => m.to = "S")

\* The caller is confirmed, or ends the call.
CallerDone(c) == c.state \in {"CONFIRMED", "DISCONNECTED"} \/ c.byes > 0

\* The callee has had the ACK, or ends the call.
Heard(s) == s.state = "CONFIRMED" \/ s.byes > 0 \/ s.cause = Timeout \/ s.open # {}

\* Unless messages were lost or late, neither happens before the 2xx has arrived.
Acknowledged ==
    faults = MaxFaults =>
        /\ late = {}
        /\ Heard(inv["S"]) => CallerDone(inv["C"])
        /\ \A m \in net : m.kind = "ACK" \/ (m.kind = "BYE" /\ m.to = "C") => CallerDone(inv["C"])
        /\ inv["S"].tsx = "Accepted" => Msg("C", "2xx") \in net \/ CallerDone(inv["C"])

\* The inductive invariant.
IInv ==
    /\ TypeOK
    /\ CallerOK(inv["C"]) /\ CalleeOK(inv["S"])
    /\ Unborn /\ Born /\ Routed
    /\ ChallengedOnce /\ Budget
    /\ Acknowledged

-------------------------------------------------------------------------------
(* What the operators on a session do.                                     *)

\* What a party sends.
FromCaller == {m \in Messages : m.to = "S" /\ m.kind \in {"CANCEL", "ACK", "BYE", "ByeDone"}}
FromCallee == {m \in Messages : m.to = "C" /\ m.kind \in {"100", "180", "2xx", "Fail", "CancelDone", "BYE", "ByeDone"}}

\* The bounds.
LEMMA Bounds == MaxFaults \in Nat /\ MaxRetransmits \in Nat /\ MaxByes \in Nat
    BY InvCallAssumption

\* The cause.
LEMMA CauseSet ==
    ASSUME NEW i \in Session, NEW code \in Codes, NEW j, j = inv_set_cause(i, code)
    PROVE  /\ j \in Session /\ j = [i EXCEPT !.cause = j.cause]
           /\ j.cause \in {i.cause, code} /\ j.cause \in Codes
           /\ j.cause = i.cause => code <= i.cause \/ code = i.cause
           /\ i.pending_bye => j.cause = code
<1>1. CASE code > i.cause \/ i.pending_bye
    <2>1. j = [i EXCEPT !.cause = code]
        BY <1>1 DEF inv_set_cause
    <2> QED BY <2>1 DEF Session
<1>2. CASE ~(code > i.cause \/ i.pending_bye)
    <2>1. j = i
        BY <1>2 DEF inv_set_cause
    <2>2. code \in Int /\ i.cause \in Int
        BY DEF Session, Codes
    <2> QED BY <1>2, <2>1, <2>2 DEF Session
<1> QED BY <1>1, <1>2

\* What handling an event leaves of the flags of a session.
Keeps(i, j) == j.state = i.state /\ j.tsx = i.tsx /\ (j.hanging_up <=> i.hanging_up)

Alike(i, j) ==
    /\ Keeps(i, j) /\ (j.pending_cancel <=> i.pending_cancel) /\ (j.pending_bye <=> i.pending_bye)
    /\ j.cancel = i.cancel

\* It adds only what the party may send.
CallerSays(i, j) == \A m \in j.out : m \in i.out \/ (m \in FromCaller /\ m.kind # "ACK")
CalleeSays(i, j) == \A m \in j.out : m \in i.out \/ (m \in FromCallee /\ (m.kind = "BYE" => j.byes > 0))

\* A BYE is sent.
LEMMA ByeSent ==
    ASSUME NEW p \in Parties, NEW i \in Session, i.byes < MaxByes, NEW j, j = NewBye(p, i)
    PROVE  /\ j \in Session /\ Alike(i, j) /\ j.cause = i.cause
           /\ j.byes = i.byes + 1 /\ j.byes > 0 /\ j.open # {}
           /\ p = "C" => CallerSays(i, j)
           /\ p = "S" => CalleeSays(i, j)
<1> DEFINE n == i.byes + 1
           m == [to |-> Other(p), kind |-> "BYE", id |-> n]
           o == i.out \cup {m}
           q == i.open \cup {n}
<1>0. i.byes \in 0 .. MaxByes /\ i.open \subseteq 1 .. MaxByes /\ i.out \subseteq Messages
    BY DEF Session
<1>1. n \in 1 .. MaxByes /\ n \in 0 .. MaxByes /\ n > 0
    BY <1>0, Bounds
<1>2. j = [i EXCEPT !.byes = n, !.open = q, !.out = o]
    BY DEF NewBye, Send, Session
<1> HIDE DEF n
<1>3. m \in Messages /\ m.kind = "BYE" /\ m.to = Other(p)
    BY <1>1 DEF Messages, Parties, Kinds, Other
<1> HIDE DEF m
<1>4. o \in SUBSET Messages /\ q \in SUBSET (1 .. MaxByes) /\ n \in q
    BY <1>0, <1>1, <1>3
<1>5. \A x \in o : x \in i.out \/ x = m
    OBVIOUS
<1> HIDE DEF o, q
<1>6. j \in Session
    BY <1>1, <1>2, <1>4 DEF Session
<1>7. j.byes = n /\ j.open = q /\ j.out = o /\ j.cause = i.cause /\ Alike(i, j)
    BY <1>2 DEF Session, Alike, Keeps
<1>8. p = "C" => CallerSays(i, j)
    BY <1>3, <1>5, <1>7 DEF CallerSays, FromCaller, Other
<1>9. p = "S" => CalleeSays(i, j)
    BY <1>1, <1>3, <1>5, <1>7 DEF CalleeSays, FromCallee, Other
<1> QED BY <1>1, <1>4, <1>6, <1>7, <1>8, <1>9 DEF n

\* pjsip_inv_end_session of the caller: a BYE, a CANCEL, or one that has to wait.
LEMMA CallerEnds ==
    ASSUME NEW i \in Session, NEW code \in Codes, NEW j, j = EndSession("C", i, code),
           i.state \in {"CONNECTING", "CONFIRMED"} => i.byes < MaxByes
    PROVE  /\ j \in Session /\ Keeps(i, j) /\ CallerSays(i, j)
           /\ i.state \in {"CONNECTING", "CONFIRMED"} =>
                 j.byes = i.byes + 1 /\ (j.pending_cancel <=> i.pending_cancel) /\ j.cancel = i.cancel
           /\ i.state \in {"CALLING", "EARLY"} =>
                 /\ j.byes = i.byes
                 /\ i.tsx = "Calling" =>
                        j.pending_cancel /\ j.cancel = i.cancel /\ j.open = i.open /\ j.out = i.out
                 /\ i.tsx # "Calling" => (j.pending_cancel <=> i.pending_cancel) /\ j.cancel = "Pending"
           /\ i.state \notin {"CONNECTING", "CONFIRMED", "CALLING", "EARLY"} => j = i
<1> DEFINE c == inv_set_cause(i, code)
           e == [c EXCEPT !.cancelling = TRUE]
<1>1. c \in Session /\ c = [i EXCEPT !.cause = c.cause]
    BY CauseSet
<1> HIDE DEF c
<1>2. e \in Session
    BY <1>1 DEF Session
<1>3. /\ e.state = i.state /\ e.tsx = i.tsx /\ (e.hanging_up <=> i.hanging_up)
      /\ (e.pending_cancel <=> i.pending_cancel) /\ e.cancel = i.cancel /\ e.byes = i.byes /\ e.open = i.open
      /\ e.out = i.out
    BY <1>1 DEF Session
<1>4. j = CASE i.state \in {"CONNECTING", "CONFIRMED"} -> SendBye("C", e)
            [] i.state \in {"CALLING", "EARLY"} ->
                 IF i.tsx = "Calling" THEN [e EXCEPT !.pending_cancel = TRUE]
                 ELSE Send([e EXCEPT !.cancel = "Pending", !.deadline = TRUE], Msg("S", "CANCEL"))
            [] OTHER -> i
    BY DEF EndSession, c
<1> HIDE DEF e
<1>5. CASE i.state \in {"CONNECTING", "CONFIRMED"}
    <2>1. j = NewBye("C", e)
        BY <1>4, <1>5 DEF SendBye
    <2>2. "C" \in Parties /\ e.byes < MaxByes
        BY <1>3, <1>5 DEF Parties
    <2>3. j \in Session /\ Alike(e, j) /\ j.byes = e.byes + 1 /\ CallerSays(e, j)
        BY <1>2, <2>1, <2>2, ByeSent
    <2> QED BY <1>3, <1>5, <2>3 DEF Alike, Keeps, CallerSays
<1>6. CASE i.state \in {"CALLING", "EARLY"} /\ i.tsx = "Calling"
    <2>1. j = [e EXCEPT !.pending_cancel = TRUE]
        BY <1>4, <1>6
    <2>2. j \in Session
        BY <1>2, <2>1 DEF Session
    <2>3. /\ j.state = e.state /\ j.tsx = e.tsx /\ (j.hanging_up <=> e.hanging_up)
          /\ j.pending_cancel /\ j.cancel = e.cancel /\ j.byes = e.byes /\ j.open = e.open /\ j.out = e.out
        BY <1>2, <2>1 DEF Session
    <2> QED BY <1>3, <1>6, <2>2, <2>3 DEF Keeps, CallerSays
<1>7. CASE i.state \in {"CALLING", "EARLY"} /\ i.tsx # "Calling"
    <2> DEFINE m == Msg("S", "CANCEL")
    <2>1. m \in Messages /\ m.kind = "CANCEL" /\ m.to = "S"
        BY Bounds DEF Msg, Messages, Kinds, Parties
    <2>2. j = [e EXCEPT !.cancel = "Pending", !.deadline = TRUE, !.out = e.out \cup {m}]
        BY <1>2, <1>4, <1>7 DEF Send, Session
    <2> DEFINE o == e.out \cup {m}
    <2> HIDE DEF m
    <2>3. j \in Session
        <3>1. o \in SUBSET Messages
            BY <1>2, <2>1 DEF Session
        <3> HIDE DEF o
        <3> QED BY <1>2, <2>2, <3>1 DEF Session, o
    <2>4. /\ j.state = e.state /\ j.tsx = e.tsx /\ (j.hanging_up <=> e.hanging_up)
          /\ (j.pending_cancel <=> e.pending_cancel) /\ j.cancel = "Pending" /\ j.byes = e.byes
          /\ j.out = e.out \cup {m}
        BY <1>2, <2>2 DEF Session
    <2>5. CallerSays(i, j)
        BY <1>3, <2>1, <2>4 DEF CallerSays, FromCaller
    <2> QED BY <1>3, <1>7, <2>3, <2>4, <2>5 DEF Keeps
<1>8. CASE i.state \notin {"CONNECTING", "CONFIRMED", "CALLING", "EARLY"}
    <2>1. j = i
        BY <1>4, <1>8
    <2> QED BY <1>8, <2>1 DEF Keeps, CallerSays
<1> QED BY <1>5, <1>6, <1>7, <1>8

\* A message is sent.
LEMMA MessageSent ==
    ASSUME NEW i \in Session, NEW m \in Messages, NEW j, j = Send(i, m)
    PROVE  /\ j \in Session /\ Alike(i, j) /\ j.byes = i.byes /\ j.cause = i.cause /\ j.open = i.open
           /\ j.out = i.out \cup {m} /\ (j.cancelling <=> i.cancelling)
<1> DEFINE o == i.out \cup {m}
<1>1. o \in SUBSET Messages
    BY DEF Session
<1>2. j = [i EXCEPT !.out = o]
    BY DEF Send, Session
<1> HIDE DEF o
<1>3. j \in Session
    BY <1>1, <1>2 DEF Session
<1>4. /\ j.byes = i.byes /\ j.cause = i.cause /\ j.open = i.open /\ j.out = o /\ Alike(i, j)
      /\ (j.cancelling <=> i.cancelling)
    BY <1>2 DEF Session, Alike, Keeps
<1> QED BY <1>3, <1>4 DEF o

\* The messages without a number.
LEMMA Plain ==
    ASSUME NEW to \in Parties, NEW kind \in Kinds
    PROVE  Msg(to, kind) \in Messages /\ Msg(to, kind).to = to /\ Msg(to, kind).kind = kind
    BY Bounds DEF Msg, Messages

\* The end of a session.
LEMMA Disconnects ==
    ASSUME NEW i \in Session, NEW code \in Codes, NEW j, j = Disconnect(i, code)
    PROVE  /\ j \in Session /\ j.state = "DISCONNECTED" /\ j.tsx = i.tsx
           /\ (j.hanging_up <=> i.hanging_up) /\ (j.pending_cancel <=> i.pending_cancel)
           /\ (j.pending_bye <=> i.pending_bye) /\ j.cancel = i.cancel /\ j.byes = i.byes
           /\ j.open = i.open /\ j.out = i.out /\ j.cause \in {i.cause, code}
<1> DEFINE c == inv_set_cause(i, code)
<1>1. c \in Session /\ c = [i EXCEPT !.cause = c.cause] /\ c.cause \in {i.cause, code}
    BY CauseSet
<1>2. j = [c EXCEPT !.state = "DISCONNECTED"]
    BY DEF Disconnect
<1> HIDE DEF c
<1>3. j \in Session
    BY <1>1, <1>2 DEF Session, States
<1> QED BY <1>1, <1>2, <1>3 DEF Session

\* The caller's session is confirmed; a call that was hung up is ended now.
LEMMA CallerConfirms ==
    ASSUME NEW i \in Session, i.hanging_up => i.byes < MaxByes, NEW j, j = Confirm("C", i)
    PROVE  /\ j \in Session /\ j.state = "CONFIRMED" /\ j.tsx = i.tsx
           /\ (j.hanging_up <=> i.hanging_up) /\ (j.pending_cancel <=> i.pending_cancel)
           /\ j.cancel = i.cancel /\ j.byes = i.byes + One(i.hanging_up) /\ CallerSays(i, j)
<1> DEFINE c == [i EXCEPT !.state = "CONFIRMED"]
<1>1. c \in Session
    BY DEF Session, States
<1>2. /\ c.state = "CONFIRMED" /\ c.tsx = i.tsx /\ (c.hanging_up <=> i.hanging_up)
      /\ (c.pending_cancel <=> i.pending_cancel) /\ c.cancel = i.cancel /\ c.byes = i.byes /\ c.out = i.out
    BY DEF Session
<1>3. j = IF i.hanging_up THEN EndSession("C", c, 200) ELSE c
    BY DEF Confirm
<1> HIDE DEF c
<1>4. CASE i.hanging_up
    <2>1. j = EndSession("C", c, 200) /\ 200 \in Codes /\ c.byes < MaxByes
        BY <1>2, <1>3, <1>4 DEF Codes
    <2>2. /\ j \in Session /\ Keeps(c, j) /\ CallerSays(c, j)
          /\ j.byes = c.byes + 1 /\ (j.pending_cancel <=> c.pending_cancel) /\ j.cancel = c.cancel
        BY <1>1, <1>2, <2>1, CallerEnds
    <2>3. One(i.hanging_up) = 1
        BY <1>4 DEF One
    <2> QED BY <1>2, <2>2, <2>3 DEF Keeps, CallerSays
<1>5. CASE ~i.hanging_up
    <2>1. j = c
        BY <1>3, <1>5
    <2>2. One(i.hanging_up) = 0 /\ i.byes \in Int
        BY <1>5, Bounds DEF One, Session
    <2> QED BY <1>1, <1>2, <2>1, <2>2 DEF CallerSays
<1> QED BY <1>4, <1>5

\* inv_send_ack: the caller is confirmed with its ACK.
LEMMA CallerAcks ==
    ASSUME NEW i \in Session, i.state \in {"CONNECTING", "CONFIRMED", "DISCONNECTED"},
           i.state = "CONNECTING" /\ i.hanging_up => i.byes < MaxByes, NEW j, j = SendAck(i)
    PROVE  /\ j \in Session /\ j.state = (IF i.state = "CONNECTING" THEN "CONFIRMED" ELSE i.state)
           /\ j.tsx = i.tsx /\ (j.hanging_up <=> i.hanging_up)
           /\ (j.pending_cancel <=> i.pending_cancel) /\ j.cancel = i.cancel
           /\ j.byes = i.byes + One(i.state = "CONNECTING" /\ i.hanging_up)
           /\ \A m \in j.out : m \in i.out \/ m \in FromCaller
<1> DEFINE a == Send(i, Msg("S", "ACK"))
<1>0. Msg("S", "ACK") \in Messages /\ Msg("S", "ACK") \in FromCaller
    BY Plain DEF Parties, Kinds, FromCaller
<1>1. a \in Session /\ Alike(i, a) /\ a.byes = i.byes /\ a.out = i.out \cup {Msg("S", "ACK")}
    BY <1>0, MessageSent
<1>2. j = IF i.state \in {"CONFIRMED", "DISCONNECTED"} THEN a ELSE Confirm("C", a)
    BY DEF SendAck
<1> HIDE DEF a
<1>3. CASE i.state = "CONNECTING"
    <2>1. j = Confirm("C", a)
        BY <1>2, <1>3
    <2>2. /\ j \in Session /\ j.state = "CONFIRMED" /\ j.tsx = a.tsx
          /\ (j.hanging_up <=> a.hanging_up) /\ (j.pending_cancel <=> a.pending_cancel)
          /\ j.cancel = a.cancel /\ j.byes = a.byes + One(a.hanging_up) /\ CallerSays(a, j)
        BY <1>1, <1>3, <2>1, CallerConfirms DEF Alike, Keeps
    <2>3. One(a.hanging_up) = One(i.state = "CONNECTING" /\ i.hanging_up)
        BY <1>1, <1>3 DEF One, Alike, Keeps
    <2>4. \A m \in j.out : m \in i.out \/ m \in FromCaller
        BY <1>0, <1>1, <2>2 DEF CallerSays
    <2> QED BY <1>1, <1>3, <2>2, <2>3, <2>4 DEF Alike, Keeps
<1>4. CASE i.state # "CONNECTING"
    <2>1. j = a
        BY <1>2, <1>4
    <2>2. One(i.state = "CONNECTING" /\ i.hanging_up) = 0 /\ i.byes \in Int
        BY <1>4, Bounds DEF One, Session
    <2> QED BY <1>0, <1>1, <1>4, <2>1, <2>2 DEF Alike, Keeps
<1> QED BY <1>3, <1>4

-------------------------------------------------------------------------------
(* What the caller does.                                                   *)

\* A session between two events.
CallerReady(i) == i \in Session /\ CallerOK(i) /\ i.out = {} /\ CallerUse(i) <= 4

CallerStep(i, j) ==
    /\ j \in Session /\ CallerOK(j) /\ j.out \subseteq FromCaller
    /\ CallerUse(j) <= CallerUse(i)
    /\ CallerDone(i) => CallerDone(j)
    /\ (\E m \in j.out : m.kind = "ACK") => CallerDone(j)

\* While a BYE is still to come there is room for it.
LEMMA CallerRoom ==
    ASSUME MaxByes >= 4, NEW i, CallerReady(i)
    PROVE  /\ i.byes \in 0 .. MaxByes /\ i.byes \in Int
           /\ i.state = "CONNECTING" => i.byes < MaxByes
           /\ i.tsx # "Ended" => i.byes < MaxByes
           /\ ~i.hanging_up => i.byes < MaxByes
           /\ i.cancel = "Pending" => i.byes < MaxByes
<1>1. i.byes \in 0 .. MaxByes
    BY DEF CallerReady, Session
<1> QED BY <1>1, Bounds DEF CallerReady, CallerUse, One

\* Nothing happens.
LEMMA CallerStays ==
    ASSUME NEW i, CallerReady(i)
    PROVE  CallerStep(i, i)
<1>1. i.byes \in Int
    BY Bounds DEF CallerReady, Session
<1> QED BY <1>1 DEF CallerReady, CallerStep, CallerUse, One

\* pjsua_call_hangup.
LEMMA CallerHangup ==
    ASSUME MaxByes >= 4, NEW i, CallerReady(i), ~i.hanging_up, i.state # "DISCONNECTED",
           NEW code \in Codes, NEW j, j = EndSession("C", [i EXCEPT !.hanging_up = TRUE], code)
    PROVE  /\ CallerStep(i, j)
           /\ i.state = "CALLING" /\ i.tsx = "Calling" =>
                 /\ j.state = "CALLING" /\ j.tsx = "Calling"
                 /\ j.out = {} /\ j.byes = i.byes /\ j.open = i.open /\ j.cancel = i.cancel
<1> DEFINE h == [i EXCEPT !.hanging_up = TRUE]
<1>0. i \in Session /\ CallerOK(i) /\ i.out = {} /\ i.byes \in Int /\ i.byes < MaxByes
    BY CallerRoom DEF CallerReady
<1>1. h \in Session
    BY <1>0 DEF Session
<1>2. /\ h.state = i.state /\ h.tsx = i.tsx /\ h.hanging_up /\ (h.pending_cancel <=> i.pending_cancel)
      /\ h.cancel = i.cancel /\ h.byes = i.byes /\ h.open = i.open /\ h.out = {}
    BY <1>0 DEF Session
<1> HIDE DEF h
<1>3. j = EndSession("C", h, code)
    BY DEF h
<1>4. /\ j \in Session /\ Keeps(h, j) /\ CallerSays(h, j)
      /\ h.state \in {"CONNECTING", "CONFIRMED"} =>
            j.byes = h.byes + 1 /\ (j.pending_cancel <=> h.pending_cancel) /\ j.cancel = h.cancel
      /\ h.state \in {"CALLING", "EARLY"} =>
            /\ j.byes = h.byes
            /\ h.tsx = "Calling" =>
                   j.pending_cancel /\ j.cancel = h.cancel /\ j.open = h.open /\ j.out = h.out
            /\ h.tsx # "Calling" => (j.pending_cancel <=> h.pending_cancel) /\ j.cancel = "Pending"
    BY <1>0, <1>1, <1>2, <1>3, CallerEnds
<1>5. j.out \subseteq FromCaller /\ \A m \in j.out : m.kind # "ACK"
    BY <1>2, <1>4 DEF CallerSays
<1>6. CASE i.state \in {"CONNECTING", "CONFIRMED"}
    <2>1. CallerOK(j)
        BY <1>0, <1>2, <1>4, <1>6 DEF CallerOK, Keeps
    <2>2. CallerUse(j) <= CallerUse(i) /\ CallerDone(j)
        <3>1. ~i.pending_cancel /\ i.cancel # "Pending"
            BY <1>0 DEF CallerOK
        <3>2. j.hanging_up /\ ~j.pending_cancel /\ j.cancel # "Pending" /\ j.byes = i.byes + 1
            BY <1>2, <1>4, <1>6, <3>1 DEF Keeps
        <3>3. j.state = i.state /\ j.tsx = i.tsx
            BY <1>2, <1>4 DEF Keeps
        <3>4. j.byes > 0
            BY <1>0, <3>2, Bounds DEF Session
        <3> QED BY <1>0, <3>2, <3>3, <3>4 DEF CallerUse, One, CallerDone
    <2> QED BY <1>4, <1>5, <1>6, <2>1, <2>2 DEF CallerStep
<1>7. CASE i.state \in {"CALLING", "EARLY"}
    <2>1. CallerOK(j)
        BY <1>0, <1>2, <1>4, <1>7 DEF CallerOK, Keeps
    <2>2. CallerUse(j) <= CallerUse(i) /\ (CallerDone(i) => CallerDone(j))
        BY <1>0, <1>2, <1>4, <1>7 DEF CallerUse, One, CallerOK, Keeps, CallerDone
    <2> QED BY <1>2, <1>4, <1>5, <1>7, <2>1, <2>2 DEF CallerStep, Keeps
<1> QED BY <1>0, <1>6, <1>7 DEF CallerOK

\* A provisional response: a CANCEL that waits for it is sent.
LEMMA CallerProvisional ==
    ASSUME MaxByes >= 4, NEW i, CallerReady(i), i.tsx \in {"Calling", "Proceeding"},
           NEW kind, NEW j, j = RxProvisional(i, kind)
    PROVE  CallerStep(i, j)
<1> DEFINE p == [i EXCEPT !.tsx = "Proceeding"]
           q == [p EXCEPT !.pending_cancel = FALSE]
           c == IF i.pending_cancel /\ i.state = "CALLING" THEN EndSession("C", q, 487) ELSE p
<1>0. i \in Session /\ CallerOK(i) /\ i.out = {} /\ i.byes \in Int /\ i.state \notin {"CONNECTING", "CONFIRMED"}
    BY CallerRoom DEF CallerReady, CallerOK
<1>1. p \in Session
    BY <1>0 DEF Session
<1>2. /\ p.state = i.state /\ p.tsx = "Proceeding" /\ (p.hanging_up <=> i.hanging_up)
      /\ (p.pending_cancel <=> i.pending_cancel) /\ p.cancel = i.cancel /\ p.byes = i.byes /\ p.out = {}
    BY <1>0 DEF Session
<1>3. j = IF kind = "180" /\ i.state = "CALLING" THEN [c EXCEPT !.state = "EARLY"] ELSE c
    BY DEF RxProvisional
<1> HIDE DEF p
<1>4. /\ c \in Session /\ c.state = i.state /\ c.tsx = "Proceeding" /\ (c.hanging_up <=> i.hanging_up)
      /\ c.byes = i.byes /\ c.out \subseteq FromCaller /\ (\A m \in c.out : m.kind # "ACK")
      /\ (c.pending_cancel \/ c.cancel = "Pending") <=> (i.pending_cancel \/ i.cancel = "Pending")
      /\ c.cancel = "Pending" => ~c.pending_cancel
    <2>1. CASE i.pending_cancel /\ i.state = "CALLING"
        <3>1. q \in Session
            BY <1>1 DEF Session
        <3>2. /\ q.state = "CALLING" /\ q.tsx = "Proceeding" /\ (q.hanging_up <=> i.hanging_up)
              /\ ~q.pending_cancel /\ q.byes = i.byes /\ q.out = {}
            BY <1>1, <1>2, <2>1 DEF Session
        <3>3. c = EndSession("C", q, 487) /\ 487 \in Codes
            BY <2>1 DEF Codes
        <3> HIDE DEF q, c
        <3>4. /\ c \in Session /\ Keeps(q, c) /\ CallerSays(q, c) /\ c.byes = q.byes
              /\ (c.pending_cancel <=> q.pending_cancel) /\ c.cancel = "Pending"
            BY <3>1, <3>2, <3>3, CallerEnds
        <3>5. c.out \subseteq FromCaller /\ \A m \in c.out : m.kind # "ACK"
            BY <3>2, <3>4 DEF CallerSays
        <3>6. c.cancel = "Pending" /\ ~c.pending_cancel /\ i.pending_cancel
            BY <2>1, <3>2, <3>4
        <3>7. /\ c.state = i.state /\ c.tsx = "Proceeding" /\ c.byes = i.byes
              /\ (c.hanging_up <=> i.hanging_up)
            BY <2>1, <3>2, <3>4 DEF Keeps
        <3>8. /\ (c.pending_cancel \/ c.cancel = "Pending") <=> (i.pending_cancel \/ i.cancel = "Pending")
              /\ c.cancel = "Pending" => ~c.pending_cancel
            BY <3>6
        <3> QED BY <3>4, <3>5, <3>7, <3>8
    <2>2. CASE ~(i.pending_cancel /\ i.state = "CALLING")
        <3>1. c = p
            BY <2>2
        <3> HIDE DEF c
        <3>2. p.out \subseteq FromCaller /\ \A m \in p.out : m.kind # "ACK"
            BY <1>2
        <3>3. p.cancel = "Pending" => ~p.pending_cancel
            BY <1>0, <1>2 DEF CallerOK
        <3> QED BY <1>1, <1>2, <3>1, <3>2, <3>3
    <2> QED BY <2>1, <2>2
<1> HIDE DEF c
<1>5. /\ j \in Session /\ j.tsx = "Proceeding" /\ (j.hanging_up <=> c.hanging_up)
      /\ j.state \in {i.state, "EARLY"} /\ (j.state = i.state \/ i.state = "CALLING")
      /\ j.byes = c.byes /\ j.out = c.out /\ (j.pending_cancel <=> c.pending_cancel) /\ j.cancel = c.cancel
    <2>1. CASE kind = "180" /\ i.state = "CALLING"
        <3>1. j = [c EXCEPT !.state = "EARLY"]
            BY <1>3, <2>1
        <3>2. j \in Session
            BY <1>4, <3>1 DEF Session, States
        <3> QED BY <1>4, <2>1, <3>1, <3>2 DEF Session
    <2>2. CASE ~(kind = "180" /\ i.state = "CALLING")
        BY <1>3, <1>4, <2>2
    <2> QED BY <2>1, <2>2
<1>6. CallerOK(j)
    BY <1>0, <1>4, <1>5 DEF CallerOK
<1>7. CallerUse(j) <= CallerUse(i)
    <2>1. (~j.hanging_up \/ j.pending_cancel \/ j.cancel = "Pending") <=>
          (~i.hanging_up \/ i.pending_cancel \/ i.cancel = "Pending")
        BY <1>4, <1>5
    <2> QED BY <1>0, <1>4, <1>5, <2>1 DEF CallerUse, One
<1>8. CallerDone(i) => CallerDone(j)
    BY <1>0, <1>4, <1>5 DEF CallerDone
<1> QED BY <1>4, <1>5, <1>6, <1>7, <1>8 DEF CallerStep

\* A final failure, or none in time.
LEMMA CallerFails ==
    ASSUME MaxByes >= 4, NEW i, CallerReady(i), NEW code \in Codes, NEW j, j = RxFailure(i, code)
    PROVE  CallerStep(i, j) /\ j.state = "DISCONNECTED" /\ j.tsx = "Ended" /\ j.out = {}
           /\ j.byes = i.byes /\ j.open = i.open /\ j.cancel = i.cancel
<1> DEFINE e == [i EXCEPT !.tsx = "Ended"]
<1>0. i \in Session /\ CallerOK(i) /\ i.out = {} /\ i.byes \in Int
    BY CallerRoom DEF CallerReady
<1>1. e \in Session
    BY <1>0 DEF Session
<1>2. /\ e.state = i.state /\ e.tsx = "Ended" /\ (e.hanging_up <=> i.hanging_up)
      /\ (e.pending_cancel <=> i.pending_cancel) /\ e.cancel = i.cancel /\ e.byes = i.byes
      /\ e.open = i.open /\ e.out = {}
    BY <1>0 DEF Session
<1>3. j = IF i.state = "DISCONNECTED" THEN e ELSE Disconnect(e, code)
    BY DEF RxFailure
<1> HIDE DEF e
<1>4. /\ j \in Session /\ j.state = "DISCONNECTED" /\ j.tsx = "Ended" /\ (j.hanging_up <=> i.hanging_up)
      /\ (j.pending_cancel <=> i.pending_cancel) /\ j.cancel = i.cancel /\ j.byes = i.byes
      /\ j.open = i.open /\ j.out = {}
    BY <1>1, <1>2, <1>3, Disconnects
<1>5. CallerOK(j) /\ CallerDone(j)
    BY <1>0, <1>4 DEF CallerOK, CallerDone
<1>6. CallerUse(j) <= CallerUse(i)
    BY <1>0, <1>4 DEF CallerUse, One
<1> QED BY <1>4, <1>5, <1>6 DEF CallerStep

\* The 2xx: the ACK, and a BYE when the call was hung up or the SDP is of no use.
LEMMA CallerOk ==
    ASSUME MaxByes >= 4, NEW i, CallerReady(i), i.tsx \in {"Calling", "Proceeding"},
           NEW sdp \in {"good", "bad", "none"}, NEW j, j = Rx2xx(i, sdp)
    PROVE  CallerStep(i, j) /\ CallerDone(j)
<1> DEFINE x == [i EXCEPT !.tsx = "Ended"]
           c == [i EXCEPT !.state = "CONNECTING", !.tsx = "Ended"]
           u == IF sdp = "bad" /\ ~i.hanging_up THEN EndSession("C", c, 415) ELSE c
<1>0. /\ i \in Session /\ CallerOK(i) /\ i.out = {} /\ i.byes \in 0 .. MaxByes /\ i.byes < MaxByes
      /\ i.state \in {"CALLING", "EARLY", "DISCONNECTED"} /\ i.byes \in Int
    BY CallerRoom DEF CallerReady, CallerOK
<1>1. CASE i.state = "DISCONNECTED"
    <2>1. j = SendAck(x)
        BY <1>1 DEF Rx2xx
    <2>2. x \in Session
        BY <1>0 DEF Session
    <2>3. /\ x.state = "DISCONNECTED" /\ x.tsx = "Ended" /\ (x.hanging_up <=> i.hanging_up)
          /\ (x.pending_cancel <=> i.pending_cancel) /\ x.cancel = i.cancel /\ x.byes = i.byes /\ x.out = {}
        BY <1>0, <1>1 DEF Session
    <2> HIDE DEF x
    <2>4. /\ j \in Session /\ j.state = "DISCONNECTED" /\ j.tsx = x.tsx /\ (j.hanging_up <=> x.hanging_up)
          /\ (j.pending_cancel <=> x.pending_cancel) /\ j.cancel = x.cancel
          /\ j.byes = x.byes + One(x.state = "CONNECTING" /\ x.hanging_up)
          /\ \A m \in j.out : m \in x.out \/ m \in FromCaller
        BY <2>1, <2>2, <2>3, CallerAcks
    <2>5. j.byes = i.byes
        BY <1>0, <2>3, <2>4 DEF One
    <2>6. CallerOK(j) /\ CallerDone(j)
        BY <1>0, <2>3, <2>4 DEF CallerOK, CallerDone
    <2>7. CallerUse(j) <= CallerUse(i)
        BY <1>0, <2>3, <2>4, <2>5 DEF CallerUse, One
    <2> QED BY <2>3, <2>4, <2>6, <2>7 DEF CallerStep
<1>2. CASE i.state # "DISCONNECTED"
    <2>1. c \in Session
        BY <1>0 DEF Session, States
    <2>2. /\ c.state = "CONNECTING" /\ c.tsx = "Ended" /\ (c.hanging_up <=> i.hanging_up)
          /\ (c.pending_cancel <=> i.pending_cancel) /\ c.cancel = i.cancel /\ c.byes = i.byes /\ c.out = {}
        BY <1>0 DEF Session
    <2>3. j = IF sdp = "none" THEN EndSession("C", Send(u, Msg("S", "ACK")), 406) ELSE SendAck(u)
        BY <1>2 DEF Rx2xx
    <2>4. 415 \in Codes /\ 406 \in Codes
        BY DEF Codes
    <2>0. i.hanging_up \in BOOLEAN
        BY <1>0 DEF Session
    <2> HIDE DEF c
    <2>5. /\ u \in Session /\ u.state = "CONNECTING" /\ u.tsx = "Ended" /\ (u.hanging_up <=> i.hanging_up)
          /\ (u.pending_cancel <=> i.pending_cancel) /\ u.cancel = i.cancel
          /\ u.byes = i.byes + One(sdp = "bad" /\ ~i.hanging_up)
          /\ \A m \in u.out : m \in FromCaller
        <3>1. CASE sdp = "bad" /\ ~i.hanging_up
            <4>1. u = EndSession("C", c, 415)
                BY <3>1
            <4> HIDE DEF u
            <4>2. /\ u \in Session /\ Keeps(c, u) /\ CallerSays(c, u) /\ u.byes = c.byes + 1
                  /\ (u.pending_cancel <=> c.pending_cancel) /\ u.cancel = c.cancel
                BY <1>0, <2>1, <2>2, <2>4, <4>1, CallerEnds
            <4> QED BY <2>2, <3>1, <4>2 DEF Keeps, CallerSays, One
        <3>2. CASE ~(sdp = "bad" /\ ~i.hanging_up)
            <4>1. u = c
                BY <3>2
            <4>2. One(sdp = "bad" /\ ~i.hanging_up) = 0
                BY <3>2 DEF One
            <4> QED BY <1>0, <2>1, <2>2, <4>1, <4>2
        <3> QED BY <3>1, <3>2
    <2> HIDE DEF u
    <2>6. CASE sdp = "none"
        <3> DEFINE a == Send(u, Msg("S", "ACK"))
        <3>1. Msg("S", "ACK") \in Messages /\ Msg("S", "ACK") \in FromCaller
            BY Plain DEF Parties, Kinds, FromCaller
        <3>2. a \in Session /\ Alike(u, a) /\ a.byes = u.byes /\ a.out = u.out \cup {Msg("S", "ACK")}
            BY <2>5, <3>1, MessageSent
        <3>3. u.byes = i.byes
            BY <1>0, <2>5, <2>6 DEF One
        <3>4. j = EndSession("C", a, 406)
            BY <2>3, <2>6
        <3> HIDE DEF a
        <3>5. /\ a.state = "CONNECTING" /\ a.tsx = "Ended" /\ (a.hanging_up <=> i.hanging_up)
              /\ (a.pending_cancel <=> i.pending_cancel) /\ a.cancel = i.cancel /\ a.byes = i.byes
            BY <2>5, <3>2, <3>3 DEF Alike, Keeps
        <3>6. /\ j \in Session /\ Keeps(a, j) /\ CallerSays(a, j) /\ j.byes = a.byes + 1
              /\ (j.pending_cancel <=> a.pending_cancel) /\ j.cancel = a.cancel
            BY <1>0, <2>4, <3>2, <3>4, <3>5, CallerEnds
        <3>7. CallerOK(j)
            BY <1>0, <3>5, <3>6 DEF CallerOK, Keeps
        <3>8. CallerDone(j)
            BY <1>0, <3>5, <3>6 DEF CallerDone
        <3>9. (~j.hanging_up \/ j.pending_cancel \/ j.cancel = "Pending") <=>
              (~i.hanging_up \/ i.pending_cancel \/ i.cancel = "Pending")
            BY <3>5, <3>6 DEF Keeps
        <3>10. CallerUse(j) <= CallerUse(i)
            BY <1>0, <1>2, <3>5, <3>6, <3>9 DEF CallerUse, One, Keeps
        <3>11. j.out \subseteq FromCaller
            BY <2>5, <3>1, <3>2, <3>6 DEF CallerSays
        <3> QED BY <3>6, <3>7, <3>8, <3>10, <3>11 DEF CallerStep
    <2>7. CASE sdp # "none"
        <3>1. j = SendAck(u)
            BY <2>3, <2>7
        <3>2. u.hanging_up => u.byes < MaxByes
            BY <1>0, <2>5 DEF One
        <3>3. /\ j \in Session /\ j.state = "CONFIRMED" /\ j.tsx = u.tsx /\ (j.hanging_up <=> u.hanging_up)
              /\ (j.pending_cancel <=> u.pending_cancel) /\ j.cancel = u.cancel
              /\ j.byes = u.byes + One(u.state = "CONNECTING" /\ u.hanging_up)
              /\ \A m \in j.out : m \in u.out \/ m \in FromCaller
            BY <2>5, <3>1, <3>2, CallerAcks
        <3>4. j.byes \in Int /\ j.byes <= i.byes + 1
            BY <1>0, <2>5, <3>3 DEF One
        <3>5. CallerOK(j)
            BY <1>0, <2>5, <3>3 DEF CallerOK
        <3>6. (~j.hanging_up \/ j.pending_cancel \/ j.cancel = "Pending") <=>
              (~i.hanging_up \/ i.pending_cancel \/ i.cancel = "Pending")
            BY <2>5, <3>3
        <3>7. CallerUse(j) <= CallerUse(i)
            BY <1>0, <1>2, <2>5, <3>3, <3>4, <3>6 DEF CallerUse, One
        <3>8. CallerDone(j)
            BY <3>3 DEF CallerDone
        <3>9. j.out \subseteq FromCaller
            BY <2>5, <3>3
        <3> QED BY <3>3, <3>5, <3>7, <3>8, <3>9 DEF CallerStep
    <2> QED BY <2>6, <2>7
<1> QED BY <1>1, <1>2

\* A session that keeps what counts, or ends, while it says nothing but answers.
LEMMA CallerCalm ==
    ASSUME NEW i, CallerReady(i), NEW j \in Session, j.state \in {i.state, "DISCONNECTED"}, j.tsx = i.tsx,
           j.hanging_up <=> i.hanging_up, j.pending_cancel <=> i.pending_cancel,
           j.cancel = i.cancel \/ j.cancel = "Ended",
           j.byes = i.byes, \A m \in j.out : m \in FromCaller /\ m.kind # "ACK"
    PROVE  CallerStep(i, j)
<1>0. CallerOK(i) /\ i.byes \in Int
    BY Bounds DEF CallerReady, Session
<1>1. CallerOK(j)
    BY <1>0 DEF CallerOK
<1>2. (~j.hanging_up \/ j.pending_cancel \/ j.cancel = "Pending") =>
      (~i.hanging_up \/ i.pending_cancel \/ i.cancel = "Pending")
    OBVIOUS
<1>3. CallerUse(j) <= CallerUse(i)
    BY <1>0, <1>2 DEF CallerUse, One
<1>4. CallerDone(i) => CallerDone(j)
    BY DEF CallerDone
<1> QED BY <1>1, <1>3, <1>4 DEF CallerStep

\* A 2xx that comes again is acknowledged again.
LEMMA CallerOkAgain ==
    ASSUME MaxByes >= 4, NEW i, CallerReady(i), i.tsx = "Ended", NEW j, j = SendAck(i)
    PROVE  CallerStep(i, j) /\ CallerDone(j)
<1>0. /\ i \in Session /\ CallerOK(i) /\ i.out = {} /\ i.byes \in Int
      /\ i.state \in {"CONNECTING", "CONFIRMED", "DISCONNECTED"}
      /\ i.state = "CONNECTING" => i.byes < MaxByes
    BY CallerRoom DEF CallerReady, CallerOK
<1>1. /\ j \in Session /\ j.state = (IF i.state = "CONNECTING" THEN "CONFIRMED" ELSE i.state)
      /\ j.tsx = i.tsx /\ (j.hanging_up <=> i.hanging_up)
      /\ (j.pending_cancel <=> i.pending_cancel) /\ j.cancel = i.cancel
      /\ j.byes = i.byes + One(i.state = "CONNECTING" /\ i.hanging_up)
      /\ \A m \in j.out : m \in i.out \/ m \in FromCaller
    BY <1>0, CallerAcks
<1>2. CallerOK(j)
    BY <1>0, <1>1 DEF CallerOK
<1>3. (~j.hanging_up \/ j.pending_cancel \/ j.cancel = "Pending") <=>
      (~i.hanging_up \/ i.pending_cancel \/ i.cancel = "Pending")
    BY <1>1
<1>4. j.byes \in Int /\ j.byes <= i.byes + One(i.state = "CONNECTING")
    BY <1>0, <1>1 DEF One
<1>5. CallerUse(j) <= CallerUse(i)
    BY <1>0, <1>1, <1>3, <1>4 DEF CallerUse, One
<1>6. CallerDone(j)
    BY <1>0, <1>1 DEF CallerDone
<1> QED BY <1>0, <1>1, <1>2, <1>5, <1>6 DEF CallerStep

\* The CANCEL has its response.
LEMMA CallerCancelDone ==
    ASSUME NEW i, CallerReady(i), NEW j, j = [i EXCEPT !.cancel = "Ended"]
    PROVE  CallerStep(i, j)
<1>0. i \in Session /\ i.out = {}
    BY DEF CallerReady
<1>1. j \in Session
    BY <1>0 DEF Session
<1>2. /\ j.state = i.state /\ j.tsx = i.tsx /\ (j.hanging_up <=> i.hanging_up)
      /\ (j.pending_cancel <=> i.pending_cancel) /\ j.cancel = "Ended" /\ j.byes = i.byes /\ j.out = {}
    BY <1>0 DEF Session
<1> QED BY <1>1, <1>2, CallerCalm

\* It has none in time: the session is over, and a BYE makes sure of that.
LEMMA CallerCancelTimesOut ==
    ASSUME MaxByes >= 4, NEW i, CallerReady(i), i.cancel = "Pending", NEW e, e = [i EXCEPT !.cancel = "Ended"],
           NEW j, j = IF e.state = "CALLING" THEN Disconnect(e, Timeout) ELSE UacTimeout("C", e)
    PROVE  CallerStep(i, j)
<1>0. /\ i \in Session /\ CallerOK(i) /\ i.out = {} /\ i.byes \in Int /\ i.byes < MaxByes
      /\ Timeout \in Codes /\ i.hanging_up /\ ~i.pending_cancel
    BY CallerRoom DEF CallerReady, CallerOK, Timeout, Codes
<1>1. e \in Session
    BY <1>0 DEF Session
<1>2. /\ e.state = i.state /\ e.tsx = i.tsx /\ e.hanging_up
      /\ ~e.pending_cancel /\ e.cancel = "Ended" /\ e.byes = i.byes /\ e.out = {}
    BY <1>0 DEF Session
<1> DEFINE d == Disconnect(e, Timeout)
<1>3. /\ d \in Session /\ d.state = "DISCONNECTED" /\ d.tsx = e.tsx /\ (d.hanging_up <=> e.hanging_up)
      /\ (d.pending_cancel <=> e.pending_cancel) /\ d.cancel = e.cancel /\ d.byes = e.byes /\ d.out = e.out
    <2>1. Timeout \in Codes
        BY <1>0
    <2>2. d = Disconnect(e, Timeout)
        OBVIOUS
    <2> HIDE DEF d
    <2> QED BY ONLY <1>1, <2>1, <2>2, Disconnects
<1>4. j = IF e.state = "CALLING" THEN d ELSE IF e.state = "DISCONNECTED" THEN e ELSE NewBye("C", d)
    BY DEF UacTimeout
<1> HIDE DEF d
<1>5. CASE e.state = "CALLING"
    <2>1. j = d
        BY <1>4, <1>5
    <2>2. /\ d.tsx = i.tsx /\ (d.hanging_up <=> i.hanging_up) /\ (d.pending_cancel <=> i.pending_cancel)
          /\ d.cancel = "Ended" /\ d.byes = i.byes /\ d.out = {}
        BY <1>0, <1>2, <1>3
    <2> QED BY <1>3, <2>1, <2>2, CallerCalm
<1>6. CASE e.state = "DISCONNECTED"
    <2>1. j = e
        BY <1>4, <1>6
    <2> QED BY <1>0, <1>1, <1>2, <2>1, CallerCalm
<1>7. CASE e.state \notin {"CALLING", "DISCONNECTED"}
    <2>1. j = NewBye("C", d) /\ d.byes < MaxByes /\ "C" \in Parties
        BY <1>0, <1>2, <1>3, <1>4, <1>7 DEF Parties
    <2>2. j \in Session /\ Alike(d, j) /\ j.byes = d.byes + 1 /\ CallerSays(d, j)
        BY <1>3, <2>1, ByeSent
    <2>3. /\ j.state = "DISCONNECTED" /\ j.tsx = i.tsx /\ j.hanging_up /\ ~j.pending_cancel
          /\ j.cancel = "Ended" /\ j.byes = i.byes + 1
        BY <1>2, <1>3, <2>2 DEF Alike, Keeps
    <2>4. j.out \subseteq FromCaller
        BY <1>2, <1>3, <2>2 DEF CallerSays
    <2>5. CallerOK(j) /\ CallerDone(j)
        BY <1>0, <2>3 DEF CallerOK, CallerDone
    <2>6. CallerUse(j) <= CallerUse(i)
        BY <1>0, <2>3 DEF CallerUse, One
    <2> QED BY <2>2, <2>4, <2>5, <2>6 DEF CallerStep
<1> QED BY <1>5, <1>6, <1>7

\* The answer to a BYE.
Answered(p, id) == [to |-> Other(p), kind |-> "ByeDone", id |-> id]

\* What a BYE of the other party does, short of its answer: the session ends, or stays.
LEMMA ByeReceived ==
    ASSUME NEW p \in Parties, NEW i \in Session, i.out = {}, NEW id \in 0 .. MaxByes, NEW j, j = RxBye(p, i, id)
    PROVE  /\ j \in Session
           /\ (j.hanging_up <=> i.hanging_up) /\ (j.pending_cancel <=> i.pending_cancel)
           /\ (j.pending_bye <=> i.pending_bye) /\ j.cancel = i.cancel /\ j.byes = i.byes /\ j.open = i.open
           /\ j.cause \in {i.cause, 200} /\ j.state \in {i.state, "DISCONNECTED"}
           /\ j.tsx = i.tsx \/ (p = "S" /\ j.tsx = "Ended" /\ j.state = "DISCONNECTED")
           /\ i.state = "NULL" => j.state = "NULL"
           /\ \A m \in j.out : m = Answered(p, id) \/ (p = "S" /\ m = Msg("C", "Fail"))
<1> DEFINE a == Answered(p, id)
           t == [i EXCEPT !.cseq = id]
           s == Send(t, a)
           d == Disconnect(s, 200)
           r == Send(i, a)
<1>0. a \in Messages /\ 200 \in Codes /\ Msg("C", "Fail") \in Messages
    BY Plain DEF Messages, Answered, Other, Parties, Kinds, Codes
<1>1. t \in Session
    BY DEF Session
<1>2. /\ t.state = i.state /\ t.tsx = i.tsx /\ (t.hanging_up <=> i.hanging_up)
      /\ (t.pending_cancel <=> i.pending_cancel) /\ (t.pending_bye <=> i.pending_bye) /\ t.cancel = i.cancel
      /\ t.byes = i.byes /\ t.open = i.open /\ t.cause = i.cause /\ t.out = {}
    BY DEF Session
<1> HIDE DEF t
<1>3. /\ s \in Session /\ Alike(t, s) /\ s.byes = t.byes /\ s.cause = t.cause /\ s.open = t.open
      /\ s.out = t.out \cup {a}
    BY <1>0, <1>1, MessageSent
<1> HIDE DEF s
<1>4. /\ d \in Session /\ d.state = "DISCONNECTED" /\ d.tsx = s.tsx
      /\ (d.hanging_up <=> s.hanging_up) /\ (d.pending_cancel <=> s.pending_cancel)
      /\ (d.pending_bye <=> s.pending_bye) /\ d.cancel = s.cancel /\ d.byes = s.byes
      /\ d.open = s.open /\ d.out = s.out /\ d.cause \in {s.cause, 200}
    BY <1>0, <1>3, Disconnects
<1> HIDE DEF d
<1>5. /\ r \in Session /\ Alike(i, r) /\ r.byes = i.byes /\ r.cause = i.cause /\ r.open = i.open
      /\ r.out = i.out \cup {a}
    BY <1>0, MessageSent
<1> HIDE DEF r
<1>6. /\ i.cseq \in Int /\ id \in Int /\ i.state \in States
    BY Bounds DEF Session
<1>7. j = CASE id <= i.cseq -> r
            [] id > i.cseq /\ i.state \in {"NULL", "CALLING", "INCOMING"} -> t
            [] id > i.cseq /\ i.state = "EARLY" /\ p = "C" -> [d EXCEPT !.deadline = TRUE]
            [] id > i.cseq /\ i.state = "EARLY" /\ p = "S" -> SendFailure(d)
            [] id > i.cseq /\ i.state \in {"CONNECTING", "CONFIRMED"} -> d
            [] id > i.cseq /\ i.state = "DISCONNECTED" -> s
    BY DEF RxBye, r, t, d, s, Answered
<1> HIDE DEF a
<1>8. CASE id <= i.cseq
    <2>1. j = r
        BY <1>6, <1>7, <1>8
    <2> QED BY <1>5, <2>1 DEF Alike, Keeps, a
<1>9. CASE id > i.cseq /\ i.state \in {"NULL", "CALLING", "INCOMING"}
    <2>1. j = t
        BY <1>6, <1>7, <1>9
    <2> QED BY <1>1, <1>2, <2>1
<1>10. CASE id > i.cseq /\ i.state = "EARLY" /\ p = "C"
    <2>1. j = [d EXCEPT !.deadline = TRUE]
        BY <1>6, <1>7, <1>10
    <2>2. j \in Session
        BY <1>4, <2>1, ZenonT(60) DEF Session
    <2>3. /\ j.state = d.state /\ j.tsx = d.tsx
          /\ (j.hanging_up <=> d.hanging_up) /\ (j.pending_cancel <=> d.pending_cancel)
          /\ (j.pending_bye <=> d.pending_bye) /\ j.cancel = d.cancel /\ j.byes = d.byes
          /\ j.open = d.open /\ j.out = d.out /\ j.cause = d.cause
        BY <1>4, <2>1 DEF Session
    <2> QED BY <1>2, <1>3, <1>4, <1>10, <2>2, <2>3 DEF Alike, Keeps, a
<1>11. CASE id > i.cseq /\ i.state = "EARLY" /\ p = "S"
    <2> DEFINE e == [d EXCEPT !.tsx = "Ended"]
    <2>1. j = Send(e, Msg("C", "Fail"))
        BY <1>6, <1>7, <1>11 DEF SendFailure, Parties
    <2>2. e \in Session
        BY <1>4 DEF Session
    <2>3. /\ e.state = d.state /\ e.tsx = "Ended"
          /\ (e.hanging_up <=> d.hanging_up) /\ (e.pending_cancel <=> d.pending_cancel)
          /\ (e.pending_bye <=> d.pending_bye) /\ e.cancel = d.cancel /\ e.byes = d.byes
          /\ e.open = d.open /\ e.out = d.out /\ e.cause = d.cause
        BY <1>4 DEF Session
    <2> HIDE DEF e
    <2>4. /\ j \in Session /\ Alike(e, j) /\ j.byes = e.byes /\ j.cause = e.cause /\ j.open = e.open
          /\ j.out = e.out \cup {Msg("C", "Fail")}
        BY <1>0, <2>1, <2>2, MessageSent
    <2> QED BY <1>2, <1>3, <1>4, <1>11, <2>3, <2>4 DEF Alike, Keeps, a
<1>12. CASE id > i.cseq /\ i.state \in {"CONNECTING", "CONFIRMED"}
    <2>1. j = d
        BY <1>6, <1>7, <1>12
    <2> QED BY <1>2, <1>3, <1>4, <1>12, <2>1 DEF Alike, Keeps, a
<1>13. CASE id > i.cseq /\ i.state = "DISCONNECTED"
    <2>1. j = s
        BY <1>6, <1>7, <1>13
    <2> QED BY <1>2, <1>3, <1>13, <2>1 DEF Alike, Keeps, a
<1> QED BY <1>6, <1>8, <1>9, <1>10, <1>11, <1>12, <1>13 DEF States, Parties

\* inv_handle_bye_response.
LEMMA ByeEnds ==
    ASSUME NEW i \in Session, NEW id, NEW j, j = RxByeDone(i, id)
    PROVE  /\ j \in Session /\ j.state = "DISCONNECTED" /\ j.tsx = i.tsx
           /\ (j.hanging_up <=> i.hanging_up) /\ (j.pending_cancel <=> i.pending_cancel)
           /\ (j.pending_bye <=> i.pending_bye) /\ j.cancel = i.cancel /\ j.byes = i.byes
           /\ j.open \subseteq i.open /\ j.out = i.out /\ j.cause \in {i.cause, 200}
<1> DEFINE q == i.open \ {id}
           e == [i EXCEPT !.open = q]
<1>0. 200 \in Codes /\ q \in SUBSET (1 .. MaxByes) /\ q \subseteq i.open
    BY DEF Codes, Session
<1>1. j = IF i.state = "DISCONNECTED" THEN e ELSE Disconnect(e, 200)
    BY DEF RxByeDone
<1> HIDE DEF q
<1>2. e \in Session
    BY <1>0 DEF Session
<1>3. /\ e.state = i.state /\ e.tsx = i.tsx /\ (e.hanging_up <=> i.hanging_up)
      /\ (e.pending_cancel <=> i.pending_cancel) /\ (e.pending_bye <=> i.pending_bye) /\ e.cancel = i.cancel
      /\ e.byes = i.byes /\ e.open = q /\ e.cause = i.cause /\ e.out = i.out
    BY DEF Session
<1> HIDE DEF e
<1>4. CASE i.state = "DISCONNECTED"
    <2>1. j = e
        BY <1>1, <1>4
    <2> QED BY <1>0, <1>2, <1>3, <1>4, <2>1, ZenonT(60)
<1>5. CASE i.state # "DISCONNECTED"
    <2>1. j = Disconnect(e, 200)
        BY <1>1, <1>5
    <2>2. /\ j \in Session /\ j.state = "DISCONNECTED" /\ j.tsx = e.tsx
          /\ (j.hanging_up <=> e.hanging_up) /\ (j.pending_cancel <=> e.pending_cancel)
          /\ (j.pending_bye <=> e.pending_bye) /\ j.cancel = e.cancel /\ j.byes = e.byes
          /\ j.open = e.open /\ j.out = e.out /\ j.cause \in {e.cause, 200}
        BY <1>0, <1>2, <2>1, Disconnects
    <2> QED BY <1>0, <1>3, <2>2
<1> QED BY <1>4, <1>5

\* The caller gets a BYE.
LEMMA CallerBye ==
    ASSUME NEW i, CallerReady(i), NEW id \in 0 .. MaxByes, NEW j, j = RxBye("C", i, id)
    PROVE  CallerStep(i, j)
<1>0. i \in Session /\ i.out = {} /\ "C" \in Parties
    BY DEF CallerReady, Parties
<1>1. /\ j \in Session /\ (j.hanging_up <=> i.hanging_up) /\ (j.pending_cancel <=> i.pending_cancel)
      /\ j.cancel = i.cancel /\ j.byes = i.byes /\ j.state \in {i.state, "DISCONNECTED"} /\ j.tsx = i.tsx
      /\ \A m \in j.out : m = Answered("C", id)
    BY <1>0, ByeReceived
<1>2. Answered("C", id) \in FromCaller /\ Answered("C", id).kind # "ACK"
    BY DEF Answered, FromCaller, Messages, Other, Parties, Kinds
<1> QED BY <1>1, <1>2, CallerCalm

\* Its own BYE has its response, or none in time.
LEMMA CallerByeEnds ==
    ASSUME NEW i, CallerReady(i), NEW id, NEW j, j = RxByeDone(i, id)
    PROVE  CallerStep(i, j)
<1>0. i \in Session /\ i.out = {}
    BY DEF CallerReady
<1>1. /\ j \in Session /\ j.state = "DISCONNECTED" /\ j.tsx = i.tsx
      /\ (j.hanging_up <=> i.hanging_up) /\ (j.pending_cancel <=> i.pending_cancel)
      /\ j.cancel = i.cancel /\ j.byes = i.byes /\ j.out = {}
    BY <1>0, ByeEnds
<1> QED BY <1>1, CallerCalm

\* A session with one BYE less open.
LEMMA ByeForgotten ==
    ASSUME NEW i \in Session, NEW id, NEW j, j = [i EXCEPT !.open = @ \ {id}]
    PROVE  j \in Session /\ Alike(i, j) /\ j.byes = i.byes /\ j.cause = i.cause /\ j.out = i.out
           /\ j.open \subseteq i.open
<1> DEFINE q == i.open \ {id}
<1>0. q \in SUBSET (1 .. MaxByes) /\ q \subseteq i.open
    BY DEF Session
<1>1. j = [i EXCEPT !.open = q]
    BY DEF Session
<1> HIDE DEF q
<1>2. j \in Session
    BY <1>0, <1>1 DEF Session
<1> QED BY <1>0, <1>1, <1>2 DEF Session, Alike, Keeps

\* Or its challenge, and is sent again: one BYE more.
LEMMA CallerByeChallenged ==
    ASSUME MaxByes >= 4, NEW i, CallerReady(i), CallerUse(i) <= 3, NEW id, NEW j, j = RxByeChallenge("C", i, id)
    PROVE  /\ j \in Session /\ CallerOK(j) /\ j.out \subseteq FromCaller
           /\ CallerUse(j) = CallerUse(i) + 1 /\ (CallerDone(i) => CallerDone(j))
           /\ \A m \in j.out : m.kind # "ACK"
<1> DEFINE e == [i EXCEPT !.open = @ \ {id}]
<1>0. i \in Session /\ CallerOK(i) /\ i.out = {} /\ i.byes \in 0 .. MaxByes /\ i.byes \in Int /\ "C" \in Parties
    BY CallerRoom DEF CallerReady, Parties
<1>1. i.byes < MaxByes
    BY <1>0, Bounds DEF CallerUse, One
<1>2. e \in Session /\ Alike(i, e) /\ e.byes = i.byes /\ e.out = i.out
    BY <1>0, ByeForgotten
<1>3. j = NewBye("C", e)
    BY DEF RxByeChallenge, SendBye
<1> HIDE DEF e
<1>4. j \in Session /\ Alike(e, j) /\ j.byes = e.byes + 1 /\ CallerSays(e, j)
    BY <1>0, <1>1, <1>2, <1>3, ByeSent
<1>5. Alike(i, j) /\ j.byes = i.byes + 1
    BY <1>2, <1>4 DEF Alike, Keeps
<1>6. CallerOK(j)
    BY <1>0, <1>5 DEF CallerOK, Alike, Keeps
<1>7. (~j.hanging_up \/ j.pending_cancel \/ j.cancel = "Pending") <=>
      (~i.hanging_up \/ i.pending_cancel \/ i.cancel = "Pending")
    BY <1>5 DEF Alike, Keeps
<1>8. j.state = i.state /\ j.tsx = i.tsx
    BY <1>5 DEF Alike, Keeps
<1>9. CallerUse(j) = CallerUse(i) + 1
    BY <1>0, <1>5, <1>7, <1>8 DEF CallerUse, One
<1>10. CallerDone(j)
    BY <1>0, <1>5 DEF CallerDone
<1> QED BY <1>0, <1>2, <1>4, <1>6, <1>9, <1>10 DEF CallerSays

\* The challenge of the INVITE: it is sent again, unless the call was hung up.
LEMMA CallerChallenged ==
    ASSUME MaxByes >= 4, NEW i, CallerReady(i), i.state = "CALLING", i.tsx = "Calling", NEW j, j = RxChallenge(i)
    PROVE  /\ j \in Session /\ CallerOK(j) /\ CallerUse(j) <= CallerUse(i)
           /\ j.byes = i.byes /\ j.open = i.open /\ j.cancel = i.cancel
           /\ \/ j.state = "CALLING" /\ j.tsx = "Calling" /\ j.out = {Msg("S", "INVITE")}
              \/ j.state = "DISCONNECTED" /\ j.tsx = "Ended" /\ j.out = {}
<1>0. i \in Session /\ CallerOK(i) /\ i.out = {} /\ i.byes \in Int /\ 480 \in Codes /\ Msg("S", "INVITE") \in Messages
    BY CallerRoom, Plain DEF CallerReady, Codes, Parties, Kinds
<1>1. CASE i.cancelling
    <2>1. j = RxFailure(i, 480)
        BY <1>1 DEF RxChallenge
    <2> QED BY <1>0, <2>1, CallerFails DEF CallerStep
<1>2. CASE ~i.cancelling
    <2> DEFINE e == [i EXCEPT !.state = "CALLING", !.tsx = "Calling"]
    <2>1. j = Send(e, Msg("S", "INVITE"))
        BY <1>2 DEF RxChallenge
    <2>2. e = i
        BY <1>0 DEF Session
    <2>3. j \in Session /\ Alike(i, j) /\ j.byes = i.byes /\ j.open = i.open /\ j.out = i.out \cup {Msg("S", "INVITE")}
        BY <1>0, <2>1, <2>2, MessageSent
    <2>4. CallerOK(j)
        BY <1>0, <2>3 DEF CallerOK, Alike, Keeps
    <2>5. (~j.hanging_up \/ j.pending_cancel \/ j.cancel = "Pending") <=>
          (~i.hanging_up \/ i.pending_cancel \/ i.cancel = "Pending")
        BY <2>3 DEF Alike, Keeps
    <2>6. j.state = i.state /\ j.tsx = i.tsx /\ j.cancel = i.cancel
        BY <2>3 DEF Alike, Keeps
    <2>7. CallerUse(j) <= CallerUse(i)
        BY <1>0, <2>3, <2>5, <2>6 DEF CallerUse, One
    <2> QED BY <1>0, <2>3, <2>4, <2>6, <2>7
<1> QED BY <1>1, <1>2

-------------------------------------------------------------------------------
(* What the callee does.                                                   *)

CalleeReady(i) == i \in Session /\ CalleeOK(i) /\ i.out = {} /\ CalleeUse(i) <= 4

CalleeStep(i, j) ==
    /\ j \in Session /\ CalleeOK(j) /\ j.state # "NULL"
    /\ CalleeUse(j) <= CalleeUse(i)
    /\ j.tsx = "Accepted" => i.tsx = "Accepted" \/ Msg("C", "2xx") \in j.out
    /\ \A m \in j.out : m \in FromCallee /\ (m.kind = "BYE" => j.byes > 0)

\* While a BYE is still to come there is room for it.
LEMMA CalleeRoom ==
    ASSUME MaxByes >= 4, NEW i, CalleeReady(i)
    PROVE  /\ i.byes \in 0 .. MaxByes /\ i.byes \in Int
           /\ i.tsx # "Ended" => i.byes < MaxByes
           /\ (~i.hanging_up \/ i.pending_bye) => i.byes < MaxByes
           /\ i.tsx # "Ended" /\ (~i.hanging_up \/ i.pending_bye) => i.byes + 1 < MaxByes
<1>1. i.byes \in 0 .. MaxByes
    BY DEF CalleeReady, Session
<1> QED BY <1>1, Bounds DEF CalleeReady, CalleeUse, One

\* The INVITE is refused.
LEMMA Refuses ==
    ASSUME NEW i \in Session, NEW code \in Codes, NEW j, j = Refuse(i, code)
    PROVE  /\ j \in Session /\ j.state = "DISCONNECTED" /\ j.tsx = "Ended"
           /\ (j.hanging_up <=> i.hanging_up) /\ (j.pending_bye <=> i.pending_bye) /\ j.byes = i.byes
           /\ j.open = i.open /\ j.cause \in {i.cause, code}
           /\ \A m \in j.out : m \in i.out \/ (m \in FromCallee /\ m.kind # "BYE")
<1> DEFINE d == Disconnect(i, code)
           e == [d EXCEPT !.tsx = "Ended"]
<1>0. /\ Msg("C", "Fail") \in Messages /\ Msg("C", "Fail") \in FromCallee /\ Msg("C", "Fail").kind = "Fail"
    BY Plain DEF Parties, Kinds, FromCallee
<1>1. /\ d \in Session /\ d.state = "DISCONNECTED"
      /\ (d.hanging_up <=> i.hanging_up) /\ (d.pending_bye <=> i.pending_bye) /\ d.byes = i.byes
      /\ d.open = i.open /\ d.out = i.out /\ d.cause \in {i.cause, code}
    BY Disconnects
<1> HIDE DEF d
<1>2. e \in Session
    BY <1>1 DEF Session
<1>3. /\ e.state = d.state /\ e.tsx = "Ended" /\ (e.hanging_up <=> d.hanging_up)
      /\ (e.pending_bye <=> d.pending_bye) /\ e.byes = d.byes /\ e.open = d.open /\ e.out = d.out
      /\ e.cause = d.cause
    BY <1>1 DEF Session
<1>4. j = Send(e, Msg("C", "Fail"))
    BY DEF Refuse, SendFailure, d
<1> HIDE DEF e
<1>5. /\ j \in Session /\ Alike(e, j) /\ j.byes = e.byes /\ j.cause = e.cause /\ j.open = e.open
      /\ j.out = e.out \cup {Msg("C", "Fail")}
    BY <1>0, <1>2, <1>4, MessageSent
<1> QED BY <1>0, <1>1, <1>3, <1>5 DEF Alike, Keeps

\* pjsip_inv_end_session of the callee in a confirmed session: a BYE.
LEMMA CalleeEnds ==
    ASSUME NEW i \in Session, i.state = "CONFIRMED", i.byes < MaxByes, NEW code \in Codes,
           NEW j, j = EndSession("S", i, code)
    PROVE  /\ j \in Session /\ Keeps(i, j) /\ (j.pending_bye <=> i.pending_bye)
           /\ j.byes = i.byes + 1 /\ CalleeSays(i, j)
<1> DEFINE c == inv_set_cause(i, code)
           e == [c EXCEPT !.cancelling = TRUE]
<1>1. c \in Session /\ c = [i EXCEPT !.cause = c.cause]
    BY CauseSet
<1> HIDE DEF c
<1>2. e \in Session
    BY <1>1 DEF Session
<1>3. /\ e.state = i.state /\ e.tsx = i.tsx /\ (e.hanging_up <=> i.hanging_up)
      /\ (e.pending_bye <=> i.pending_bye) /\ e.byes = i.byes /\ e.out = i.out
    BY <1>1 DEF Session
<1>4. j = SendBye("S", e)
    BY DEF EndSession, c
<1> HIDE DEF e
<1>5. j = NewBye("S", e) /\ "S" \in Parties /\ e.byes < MaxByes
    BY <1>3, <1>4 DEF SendBye, Parties
<1>6. j \in Session /\ Alike(e, j) /\ j.byes = e.byes + 1 /\ CalleeSays(e, j)
    BY <1>2, <1>5, ByeSent
<1> QED BY <1>3, <1>6 DEF Alike, Keeps, CalleeSays

\* And while the answer waits for its ACK: the BYE waits too.
LEMMA CalleeWaits ==
    ASSUME NEW i \in Session, i.state = "CONNECTING", NEW j, j = EndSession("S", i, 603)
    PROVE  /\ j \in Session /\ Keeps(i, j) /\ j.pending_bye /\ j.byes = i.byes /\ j.open = i.open
           /\ j.out = i.out /\ j.cause = 603
<1> DEFINE c == inv_set_cause(i, 603)
           e == [c EXCEPT !.cancelling = TRUE]
<1>0. 603 \in Codes /\ i.cause \in Codes
    BY DEF Codes, Session
<1>1. /\ c \in Session /\ c = [i EXCEPT !.cause = c.cause] /\ c.cause \in {i.cause, 603}
      /\ c.cause = i.cause => 603 <= i.cause \/ 603 = i.cause
    BY <1>0, CauseSet
<1> HIDE DEF c
<1>2. c.cause = 603
    BY <1>0, <1>1 DEF Codes
<1>3. e \in Session
    BY <1>1, ZenonT(60) DEF Session
<1>4. /\ e.state = i.state /\ e.tsx = i.tsx /\ (e.hanging_up <=> i.hanging_up)
      /\ e.byes = i.byes /\ e.open = i.open /\ e.out = i.out /\ e.cause = 603
    BY <1>1, <1>2 DEF Session
<1>5. j = SendBye("S", e)
    BY DEF EndSession, c
<1> HIDE DEF e
<1>6. j = [e EXCEPT !.pending_bye = TRUE]
    BY <1>4, <1>5 DEF SendBye, Timeout
<1>7. j \in Session
    BY <1>3, <1>6 DEF Session
<1>8. /\ j.state = e.state /\ j.tsx = e.tsx /\ (j.hanging_up <=> e.hanging_up) /\ j.pending_bye
      /\ j.byes = e.byes /\ j.open = e.open /\ j.out = e.out /\ j.cause = e.cause
    BY <1>3, <1>6 DEF Session
<1> QED BY <1>4, <1>7, <1>8 DEF Keeps

\* pjsua_call_hangup.
LEMMA CalleeHangup ==
    ASSUME MaxByes >= 4, NEW i, CalleeReady(i), ~i.hanging_up, i.state \notin {"NULL", "DISCONNECTED"},
           NEW code \in Codes, i.state # "CONFIRMED" => code = 603,
           NEW j, j = EndSession("S", [i EXCEPT !.hanging_up = TRUE], code)
    PROVE  CalleeStep(i, j) /\ (Heard(j) => Heard(i))
<1> DEFINE h == [i EXCEPT !.hanging_up = TRUE]
<1>0. i \in Session /\ CalleeOK(i) /\ i.out = {} /\ i.byes \in Int /\ i.byes < MaxByes /\ i.byes >= 0
    BY CalleeRoom DEF CalleeReady
<1>1. h \in Session
    BY <1>0 DEF Session
<1>2. /\ h.state = i.state /\ h.tsx = i.tsx /\ h.hanging_up /\ (h.pending_bye <=> i.pending_bye)
      /\ h.byes = i.byes /\ h.open = i.open /\ h.cause = i.cause /\ h.out = {}
    BY <1>0 DEF Session
<1> HIDE DEF h
<1>3. j = EndSession("S", h, code)
    BY DEF h
<1>4. CASE i.state = "CONFIRMED"
    <2>1. j \in Session /\ Keeps(h, j) /\ (j.pending_bye <=> h.pending_bye) /\ j.byes = h.byes + 1 /\ CalleeSays(h, j)
        BY <1>0, <1>1, <1>2, <1>3, <1>4, CalleeEnds
    <2>2. ~i.pending_bye
        BY <1>0, <1>4 DEF CalleeOK
    <2>3. /\ j.state = i.state /\ j.tsx = i.tsx /\ j.hanging_up /\ ~j.pending_bye /\ j.byes = i.byes + 1
        BY <1>2, <2>1, <2>2 DEF Keeps
    <2>4. CalleeOK(j) /\ Heard(i)
        BY <1>0, <1>4, <2>3 DEF CalleeOK, Heard
    <2>5. CalleeUse(j) <= CalleeUse(i)
        BY <1>0, <2>3 DEF CalleeUse, One
    <2>6. \A m \in j.out : m \in FromCallee /\ (m.kind = "BYE" => j.byes > 0)
        BY <1>2, <2>1 DEF CalleeSays
    <2> QED BY <1>4, <2>1, <2>3, <2>4, <2>5, <2>6, ZenonT(60) DEF CalleeStep
<1>5. CASE i.state = "CONNECTING"
    <2>1. code = 603
        BY <1>5
    <2>2. /\ j \in Session /\ Keeps(h, j) /\ j.pending_bye /\ j.byes = h.byes /\ j.open = h.open
          /\ j.out = h.out /\ j.cause = 603
        <3>1. h.state = "CONNECTING" /\ j = EndSession("S", h, 603)
            BY <1>2, <1>3, <1>5, <2>1
        <3> QED BY ONLY <1>1, <3>1, CalleeWaits
    <2>3. /\ j.state = i.state /\ j.tsx = i.tsx /\ j.byes = i.byes /\ j.open = i.open /\ j.out = {}
        BY ONLY <1>2, <2>2 DEF Keeps
    <2>4. CalleeOK(j)
        BY <1>5, <2>3 DEF CalleeOK
    <2>5. CalleeUse(j) <= CalleeUse(i)
        BY <1>0, <2>2, <2>3 DEF CalleeUse, One
    <2>6. Heard(j) => Heard(i)
        BY ONLY <1>5, <2>2, <2>3 DEF Heard, Timeout
    <2> QED BY <1>5, <2>2, <2>3, <2>4, <2>5, <2>6, ZenonT(60) DEF CalleeStep
<1>6. CASE i.state \in {"INCOMING", "EARLY"}
    <2> DEFINE c == inv_set_cause(h, code)
               e == [c EXCEPT !.cancelling = TRUE]
    <2>1. c \in Session /\ c = [h EXCEPT !.cause = c.cause] /\ c.cause \in {h.cause, code}
        BY <1>1, CauseSet
    <2> HIDE DEF c
    <2>2. e \in Session
        BY <2>1 DEF Session
    <2>3. /\ e.tsx = h.tsx /\ (e.hanging_up <=> h.hanging_up) /\ (e.pending_bye <=> h.pending_bye)
          /\ e.byes = h.byes /\ e.open = h.open /\ e.out = h.out /\ e.cause = c.cause
        BY <1>1, <2>1 DEF Session
    <2>4. j = Refuse(e, code)
        BY <1>2, <1>3, <1>6 DEF EndSession, c
    <2> HIDE DEF e
    <2>5. /\ j \in Session /\ j.state = "DISCONNECTED" /\ j.tsx = "Ended"
          /\ (j.hanging_up <=> e.hanging_up) /\ (j.pending_bye <=> e.pending_bye) /\ j.byes = e.byes
          /\ j.open = e.open /\ j.cause \in {e.cause, code}
          /\ \A m \in j.out : m \in e.out \/ (m \in FromCallee /\ m.kind # "BYE")
        BY ONLY <2>2, <2>4, Refuses, code \in Codes
    <2>6. code = 603
        BY <1>6
    <2>7. CalleeOK(j)
        BY <2>5 DEF CalleeOK
    <2>8. CalleeUse(j) <= CalleeUse(i)
        BY <1>0, <1>2, <2>3, <2>5 DEF CalleeUse, One
    <2>9. Heard(j) => Heard(i)
        <3>1. j.cause \in {i.cause, 603} /\ j.byes = i.byes /\ j.open = i.open
            BY ONLY <1>2, <2>1, <2>3, <2>5, <2>6
        <3>2. j.state = "DISCONNECTED"
            BY <2>5
        <3> QED BY ONLY <3>1, <3>2 DEF Heard, Timeout
    <2> QED BY <1>2, <2>3, <2>5, <2>7, <2>8, <2>9 DEF CalleeStep
<1>7. CASE i.state = "CALLING"
    <2>0. h.state = "CALLING"
        BY <1>2, <1>7
    <2> DEFINE e == [inv_set_cause(h, code) EXCEPT !.cancelling = TRUE]
               x == IF h.tsx = "Calling" THEN [e EXCEPT !.pending_cancel = TRUE]
                    ELSE Send([e EXCEPT !.cancel = "Pending", !.deadline = TRUE], Msg("S", "CANCEL"))
               b == SendBye("S", e)
               r == Refuse(e, code)
    <2>1. j = CASE h.state \in {"CONNECTING", "CONFIRMED"} -> b
                [] h.state \in {"CALLING", "EARLY"} /\ "S" = "C" -> x
                [] h.state \in {"INCOMING", "EARLY"} /\ "S" = "S" -> r
                [] OTHER -> h
        BY ONLY <1>3 DEF EndSession
    <2> HIDE DEF b, x, r
    <2>2. j = h
        BY ONLY <2>0, <2>1
    <2>3. CalleeOK(h) /\ CalleeUse(h) <= CalleeUse(i) /\ (Heard(h) => Heard(i))
        BY <1>0, <1>2, <1>7 DEF CalleeOK, CalleeUse, One, Heard
    <2>4. h.state # "NULL" /\ h.out = {} /\ (h.tsx = "Accepted" => i.tsx = "Accepted")
        BY ONLY <1>2, <1>7
    <2>5. CalleeStep(i, h)
        BY ONLY <1>1, <2>3, <2>4 DEF CalleeStep
    <2> QED BY ONLY <2>2, <2>3, <2>5
<1> QED BY <1>0, <1>4, <1>5, <1>6, <1>7 DEF Session, States

\* A response to the INVITE that does not refuse it.
LEMMA CalleeResponds ==
    ASSUME NEW i, CalleeReady(i), i.tsx # "Ended", i.state # "CONFIRMED",
           NEW s \in {"INCOMING", "EARLY", "CONNECTING"}, NEW t \in {"Proceeding", "Accepted"},
           NEW kind \in {"100", "180", "2xx"},
           s \in {"INCOMING", "EARLY"} => t = "Proceeding", t = "Accepted" => kind = "2xx",
           NEW j, j = Send([i EXCEPT !.state = s, !.tsx = t], Msg("C", kind))
    PROVE  CalleeStep(i, j) /\ (Heard(j) => Heard(i))
<1> DEFINE e == [i EXCEPT !.state = s, !.tsx = t]
           m == Msg("C", kind)
<1>0. i \in Session /\ i.out = {} /\ i.byes \in Int
    BY Bounds DEF CalleeReady, Session
<1>1. e \in Session
    BY <1>0 DEF Session, States
<1>2. /\ e.state = s /\ e.tsx = t /\ (e.hanging_up <=> i.hanging_up) /\ (e.pending_bye <=> i.pending_bye)
      /\ e.byes = i.byes /\ e.open = i.open /\ e.cause = i.cause /\ e.out = {}
    BY <1>0 DEF Session
<1>3. j = Send(e, m)
    OBVIOUS
<1> HIDE DEF e
<1>4. m \in Messages /\ m \in FromCallee /\ m.kind # "BYE" /\ (t = "Accepted" => m = Msg("C", "2xx"))
    BY Plain DEF Parties, Kinds, FromCallee
<1> HIDE DEF m
<1>5. /\ j \in Session /\ Alike(e, j) /\ j.byes = e.byes /\ j.cause = e.cause /\ j.open = e.open
      /\ j.out = e.out \cup {m}
    BY ONLY <1>1, <1>3, <1>4, MessageSent
<1>6. /\ j.state = s /\ j.tsx = t /\ (j.hanging_up <=> i.hanging_up) /\ (j.pending_bye <=> i.pending_bye)
      /\ j.byes = i.byes /\ j.open = i.open /\ j.cause = i.cause /\ j.out = {m}
    BY ONLY <1>2, <1>5 DEF Alike, Keeps
<1>7. CalleeOK(j)
    BY <1>6 DEF CalleeOK
<1>8. CalleeUse(j) <= CalleeUse(i)
    BY <1>0, <1>6 DEF CalleeUse, One
<1>9. Heard(j) => Heard(i)
    BY <1>6 DEF Heard
<1> QED BY <1>4, <1>5, <1>6, <1>7, <1>8, <1>9 DEF CalleeStep

\* A CANCEL: an INVITE that has no final response yet is refused.
LEMMA CalleeCancelled ==
    ASSUME NEW i, CalleeReady(i), i.state # "NULL", NEW j, j = RxCancel(i)
    PROVE  CalleeStep(i, j) /\ (Heard(j) => Heard(i))
<1> DEFINE m == Msg("C", "CancelDone")
           a == Send(i, m)
<1>0. i \in Session /\ CalleeOK(i) /\ i.out = {} /\ i.byes \in Int /\ 487 \in Codes
    BY Bounds DEF CalleeReady, Session, Codes
<1>1. m \in Messages /\ m \in FromCallee /\ m.kind # "BYE"
    BY Plain DEF Parties, Kinds, FromCallee
<1>2. j = IF i.tsx = "Proceeding" THEN Refuse(a, 487) ELSE a
    BY DEF RxCancel
<1> HIDE DEF m
<1>3. /\ a \in Session /\ Alike(i, a) /\ a.byes = i.byes /\ a.cause = i.cause /\ a.open = i.open
      /\ a.out = i.out \cup {m}
    BY <1>0, <1>1, MessageSent
<1> HIDE DEF a
<1>4. /\ a.state = i.state /\ a.tsx = i.tsx /\ (a.hanging_up <=> i.hanging_up)
      /\ (a.pending_bye <=> i.pending_bye) /\ a.out = {m}
    BY <1>0, <1>3 DEF Alike, Keeps
<1>5. CASE i.tsx = "Proceeding"
    <2>1. j = Refuse(a, 487)
        BY <1>2, <1>5
    <2>2. /\ j \in Session /\ j.state = "DISCONNECTED" /\ j.tsx = "Ended"
          /\ (j.hanging_up <=> a.hanging_up) /\ (j.pending_bye <=> a.pending_bye) /\ j.byes = a.byes
          /\ j.open = a.open /\ j.cause \in {a.cause, 487}
          /\ \A x \in j.out : x \in a.out \/ (x \in FromCallee /\ x.kind # "BYE")
        BY ONLY <1>0, <1>3, <2>1, Refuses
    <2>3. CalleeOK(j)
        BY <2>2 DEF CalleeOK
    <2>4. CalleeUse(j) <= CalleeUse(i)
        BY <1>0, <1>3, <1>4, <2>2 DEF CalleeUse, One
    <2>5. Heard(j) => Heard(i)
        BY ONLY <1>3, <2>2 DEF Heard, Timeout
    <2>6. \A x \in j.out : x \in FromCallee /\ x.kind # "BYE"
        BY <1>1, <1>4, <2>2
    <2> QED BY <2>2, <2>3, <2>4, <2>5, <2>6 DEF CalleeStep
<1>6. CASE i.tsx # "Proceeding"
    <2>1. j = a
        BY <1>2, <1>6
    <2>2. CalleeOK(a) /\ CalleeUse(a) <= CalleeUse(i) /\ (Heard(a) => Heard(i))
        BY <1>0, <1>3, <1>4 DEF CalleeOK, CalleeUse, One, Heard
    <2> QED BY <1>1, <1>3, <1>4, <2>1, <2>2 DEF CalleeStep
<1> QED BY <1>5, <1>6

\* The callee's BYE, sent now or with the ACK.
LEMMA CalleeSendsBye ==
    ASSUME NEW i \in Session, i.byes < MaxByes, NEW j, j = SendBye("S", i)
    PROVE  /\ j \in Session /\ Keeps(i, j) /\ CalleeSays(i, j)
           /\ \/ j.pending_bye /\ j.byes = i.byes /\ i.state = "CONNECTING" /\ j.open = i.open /\ j.cause = i.cause
              \/ (j.pending_bye <=> i.pending_bye) /\ j.byes = i.byes + 1
           /\ i.state # "CONNECTING" => (j.pending_bye <=> i.pending_bye) /\ j.byes = i.byes + 1
<1>1. CASE i.state = "CONNECTING" /\ i.cause # Timeout
    <2>1. j = [i EXCEPT !.pending_bye = TRUE]
        BY <1>1 DEF SendBye
    <2>2. j \in Session
        BY <2>1 DEF Session
    <2>3. /\ j.state = i.state /\ j.tsx = i.tsx /\ (j.hanging_up <=> i.hanging_up) /\ j.pending_bye
          /\ j.byes = i.byes /\ j.open = i.open /\ j.out = i.out /\ j.cause = i.cause
        BY <2>1 DEF Session
    <2> QED BY <1>1, <2>2, <2>3 DEF Keeps, CalleeSays
<1>2. CASE ~(i.state = "CONNECTING" /\ i.cause # Timeout)
    <2>1. j = NewBye("S", i) /\ "S" \in Parties
        BY <1>2 DEF SendBye, Parties
    <2>2. j \in Session /\ Alike(i, j) /\ j.byes = i.byes + 1 /\ CalleeSays(i, j)
        BY <2>1, ByeSent
    <2> QED BY <2>2 DEF Alike
<1> QED BY <1>1, <1>2

\* The ACK: the session is confirmed, and the BYE requests that waited for it are sent.
LEMMA CalleeAcked ==
    ASSUME MaxByes >= 4, NEW i, CalleeReady(i), i.state # "NULL", NEW j, j = RxAck(i)
    PROVE  CalleeStep(i, j)
<1> DEFINE e == [i EXCEPT !.tsx = "Ended"]
           f == [e EXCEPT !.state = "CONFIRMED"]
           c == Confirm("S", e)
           g == [c EXCEPT !.pending_bye = FALSE]
<1>0. /\ i \in Session /\ CalleeOK(i) /\ i.out = {} /\ i.byes \in 0 .. MaxByes /\ i.byes \in Int
      /\ i.tsx # "Ended" => i.byes < MaxByes
      /\ i.tsx # "Ended" /\ (~i.hanging_up \/ i.pending_bye) => i.byes + 1 < MaxByes
    BY CalleeRoom DEF CalleeReady
<1>1. e \in Session
    BY <1>0 DEF Session
<1>2. /\ e.state = i.state /\ e.tsx = "Ended" /\ (e.hanging_up <=> i.hanging_up)
      /\ (e.pending_bye <=> i.pending_bye) /\ e.byes = i.byes /\ e.out = {}
    BY <1>0 DEF Session
<1>3. f \in Session
    BY <1>1 DEF Session, States
<1>4. /\ f.state = "CONFIRMED" /\ f.tsx = "Ended" /\ (f.hanging_up <=> i.hanging_up)
      /\ (f.pending_bye <=> i.pending_bye) /\ f.byes = i.byes /\ f.out = {}
    BY <1>1, <1>2 DEF Session
<1>5. c = IF i.hanging_up THEN EndSession("S", f, 200) ELSE f
    BY <1>2 DEF Confirm
<1>6. j = IF i.tsx # "Accepted" THEN i
          ELSE IF i.state # "CONNECTING" THEN e
          ELSE IF i.pending_bye THEN SendBye("S", g) ELSE c
    BY DEF RxAck
<1> HIDE DEF e, f, c
<1>7. CASE i.tsx # "Accepted"
    <2>1. j = i
        BY <1>6, <1>7
    <2> QED BY <1>0, <1>7, <2>1 DEF CalleeStep, CalleeUse, One
<1>8. CASE i.tsx = "Accepted" /\ i.state # "CONNECTING"
    <2>1. j = e
        BY <1>6, <1>8
    <2>2. CalleeOK(e)
        BY <1>0, <1>2, <1>8 DEF CalleeOK
    <2>3. CalleeUse(e) <= CalleeUse(i)
        BY <1>0, <1>2, <1>8 DEF CalleeUse, One
    <2> QED BY <1>1, <1>2, <2>1, <2>2, <2>3 DEF CalleeStep
<1>9. CASE i.tsx = "Accepted" /\ i.state = "CONNECTING"
    <2>1. i.byes < MaxByes /\ ((~i.hanging_up \/ i.pending_bye) => i.byes + 1 < MaxByes)
        BY ONLY <1>0, <1>9
    <2>2. /\ c \in Session /\ c.state = "CONFIRMED" /\ c.tsx = "Ended" /\ (c.hanging_up <=> i.hanging_up)
          /\ (c.pending_bye <=> i.pending_bye) /\ c.byes = i.byes + One(i.hanging_up)
          /\ \A m \in c.out : m \in FromCallee /\ (m.kind = "BYE" => c.byes > 0)
        <3>1. CASE i.hanging_up
            <4>1. c = EndSession("S", f, 200) /\ 200 \in Codes /\ f.byes < MaxByes
                BY <1>4, <1>5, <2>1, <3>1 DEF Codes
            <4>2. /\ c \in Session /\ Keeps(f, c) /\ (c.pending_bye <=> f.pending_bye)
                  /\ c.byes = f.byes + 1 /\ CalleeSays(f, c)
                BY ONLY <1>3, <1>4, <4>1, CalleeEnds
            <4>3. One(i.hanging_up) = 1
                BY <3>1 DEF One
            <4> QED BY ONLY <1>4, <4>2, <4>3 DEF Keeps, CalleeSays
        <3>2. CASE ~i.hanging_up
            <4>1. c = f
                BY <1>5, <3>2
            <4>2. One(i.hanging_up) = 0
                BY <3>2 DEF One
            <4> QED BY ONLY <1>0, <1>3, <1>4, <4>1, <4>2
        <3> QED BY <3>1, <3>2
    <2>3. CASE i.pending_bye
        <3>1. j = SendBye("S", g)
            BY <1>6, <1>9, <2>3
        <3>2. g \in Session
            BY <2>2 DEF Session
        <3>3. /\ g.state = "CONFIRMED" /\ g.tsx = "Ended" /\ (g.hanging_up <=> i.hanging_up) /\ ~g.pending_bye
              /\ g.byes = i.byes + One(i.hanging_up) /\ g.byes = c.byes /\ g.out = c.out
            BY <2>2 DEF Session
        <3> HIDE DEF g
        <3>4. g.byes \in Int /\ g.byes < MaxByes
            BY <1>0, <2>1, <2>3, <3>3, Bounds DEF One
        <3>5. /\ j \in Session /\ Keeps(g, j) /\ CalleeSays(g, j)
              /\ (j.pending_bye <=> g.pending_bye) /\ j.byes = g.byes + 1
            BY ONLY <3>1, <3>2, <3>3, <3>4, CalleeSendsBye
        <3>6. /\ j.state = "CONFIRMED" /\ j.tsx = "Ended" /\ (j.hanging_up <=> i.hanging_up) /\ ~j.pending_bye
              /\ j.byes = i.byes + One(i.hanging_up) + 1
            BY ONLY <3>3, <3>5 DEF Keeps
        <3>7. CalleeOK(j)
            BY <3>6 DEF CalleeOK
        <3>8. CalleeUse(j) <= CalleeUse(i)
            BY <1>0, <1>9, <2>3, <3>6 DEF CalleeUse, One
        <3>9. j.byes > 0
            BY <1>0, <3>6 DEF One
        <3>10. \A m \in j.out : m \in FromCallee
            BY <2>2, <3>3, <3>5 DEF CalleeSays
        <3> QED BY <3>5, <3>6, <3>7, <3>8, <3>9, <3>10 DEF CalleeStep
    <2>4. CASE ~i.pending_bye
        <3>1. j = c
            BY <1>6, <1>9, <2>4
        <3>2. CalleeOK(c)
            BY <2>2, <2>4 DEF CalleeOK
        <3>3. CalleeUse(c) <= CalleeUse(i)
            BY <1>0, <1>9, <2>2, <2>4 DEF CalleeUse, One
        <3> QED BY <2>2, <3>1, <3>2, <3>3 DEF CalleeStep
    <2> QED BY <2>3, <2>4
<1> QED BY <1>7, <1>8, <1>9

\* The callee gets a BYE.
LEMMA CalleeBye ==
    ASSUME NEW i, CalleeReady(i), i.state # "NULL", NEW id \in 0 .. MaxByes, NEW j, j = RxBye("S", i, id)
    PROVE  CalleeStep(i, j) /\ (Heard(j) => Heard(i))
<1>0. i \in Session /\ CalleeOK(i) /\ i.out = {} /\ "S" \in Parties /\ i.byes \in Int
    BY Bounds DEF CalleeReady, Parties, Session
<1>1. /\ j \in Session
      /\ (j.hanging_up <=> i.hanging_up) /\ (j.pending_bye <=> i.pending_bye) /\ j.byes = i.byes /\ j.open = i.open
      /\ j.cause \in {i.cause, 200} /\ j.state \in {i.state, "DISCONNECTED"}
      /\ j.tsx = i.tsx \/ (j.tsx = "Ended" /\ j.state = "DISCONNECTED")
      /\ \A m \in j.out : m = Answered("S", id) \/ m = Msg("C", "Fail")
    BY <1>0, ByeReceived
<1>2. /\ Answered("S", id) \in FromCallee /\ Answered("S", id).kind = "ByeDone"
      /\ Msg("C", "Fail") \in FromCallee /\ Msg("C", "Fail").kind = "Fail"
    BY Plain DEF Answered, FromCallee, Messages, Other, Parties, Kinds
<1>3. CalleeOK(j)
    BY <1>0, <1>1 DEF CalleeOK
<1>4. CalleeUse(j) <= CalleeUse(i)
    BY <1>0, <1>1 DEF CalleeUse, One
<1>5. Heard(j) => Heard(i)
    BY ONLY <1>1 DEF Heard, Timeout
<1>6. \A m \in j.out : m \in FromCallee /\ m.kind # "BYE"
    BY <1>1, <1>2
<1>7. j.state # "NULL" /\ (j.tsx = "Accepted" => i.tsx = "Accepted")
    BY <1>1
<1> QED BY <1>1, <1>3, <1>4, <1>5, <1>6, <1>7 DEF CalleeStep

\* Its own BYE has its response, or none in time.
LEMMA CalleeByeEnds ==
    ASSUME NEW i, CalleeReady(i), NEW id, NEW j, j = RxByeDone(i, id)
    PROVE  CalleeStep(i, j) /\ (Heard(j) => Heard(i))
<1>0. i \in Session /\ CalleeOK(i) /\ i.out = {} /\ i.byes \in Int
    BY Bounds DEF CalleeReady, Session
<1>1. /\ j \in Session /\ j.state = "DISCONNECTED" /\ j.tsx = i.tsx
      /\ (j.hanging_up <=> i.hanging_up) /\ (j.pending_bye <=> i.pending_bye)
      /\ j.byes = i.byes /\ j.out = {} /\ j.open \subseteq i.open /\ j.cause \in {i.cause, 200}
    BY <1>0, ByeEnds
<1>2. CalleeOK(j)
    BY <1>1 DEF CalleeOK
<1>3. CalleeUse(j) <= CalleeUse(i)
    BY <1>0, <1>1 DEF CalleeUse, One
<1>4. Heard(j) => Heard(i)
    BY ONLY <1>1 DEF Heard, Timeout
<1> QED BY <1>1, <1>2, <1>3, <1>4 DEF CalleeStep

\* Or its challenge, and is sent again: one BYE more.
LEMMA CalleeByeChallenged ==
    ASSUME MaxByes >= 4, NEW i, CalleeReady(i), CalleeUse(i) <= 3, NEW id \in i.open, NEW j, j = RxByeChallenge("S", i, id)
    PROVE  /\ j \in Session /\ CalleeOK(j) /\ j.state = i.state /\ j.tsx = i.tsx
           /\ CalleeUse(j) <= CalleeUse(i) + 1 /\ Heard(i)
           /\ \A m \in j.out : m \in FromCallee /\ (m.kind = "BYE" => j.byes > 0)
<1> DEFINE e == [i EXCEPT !.open = @ \ {id}]
<1>0. i \in Session /\ CalleeOK(i) /\ i.out = {} /\ i.byes \in 0 .. MaxByes /\ i.byes \in Int
    BY CalleeRoom DEF CalleeReady
<1>1. i.byes < MaxByes
    BY <1>0, Bounds DEF CalleeUse, One
<1>2. e \in Session /\ Alike(i, e) /\ e.byes = i.byes /\ e.out = i.out
    BY <1>0, ByeForgotten
<1>3. j = SendBye("S", e)
    BY DEF RxByeChallenge
<1> HIDE DEF e
<1>4. /\ e.byes < MaxByes
      /\ e.state = i.state /\ e.tsx = i.tsx /\ (e.hanging_up <=> i.hanging_up) /\ (e.pending_bye <=> i.pending_bye)
    BY <1>1, <1>2 DEF Alike, Keeps
<1>5. /\ j \in Session /\ Keeps(e, j) /\ CalleeSays(e, j)
      /\ \/ j.pending_bye /\ j.byes = e.byes /\ e.state = "CONNECTING" /\ j.open = e.open /\ j.cause = e.cause
         \/ (j.pending_bye <=> e.pending_bye) /\ j.byes = e.byes + 1
    BY ONLY <1>2, <1>3, <1>4, CalleeSendsBye
<1>6. /\ j.state = i.state /\ j.tsx = i.tsx /\ (j.hanging_up <=> i.hanging_up)
      /\ \/ j.pending_bye /\ j.byes = i.byes /\ i.state = "CONNECTING"
         \/ (j.pending_bye <=> i.pending_bye) /\ j.byes = i.byes + 1
    BY ONLY <1>2, <1>4, <1>5 DEF Keeps
<1>7. CalleeOK(j)
    BY <1>0, <1>6 DEF CalleeOK
<1>8. CalleeUse(j) <= CalleeUse(i) + 1
    BY <1>0, <1>6 DEF CalleeUse, One
<1>9. Heard(i)
    BY DEF Heard
<1>10. \A m \in j.out : m \in FromCallee /\ (m.kind = "BYE" => j.byes > 0)
    BY <1>0, <1>2, <1>5 DEF CalleeSays
<1> QED BY <1>5, <1>6, <1>7, <1>8, <1>9, <1>10

\* The ACK never came: a BYE, and no other waits any more.
LEMMA CalleeGivesUp ==
    ASSUME MaxByes >= 4, NEW i, CalleeReady(i), i.tsx = "Accepted", i.state # "NULL", NEW j, j = AckTimeout(i)
    PROVE  CalleeStep(i, j)
<1> DEFINE e == [i EXCEPT !.tsx = "Ended"]
           c == inv_set_cause(e, Timeout)
           b == SendBye("S", c)
<1>0. /\ i \in Session /\ CalleeOK(i) /\ i.out = {} /\ i.byes \in 0 .. MaxByes /\ i.byes \in Int
      /\ i.byes < MaxByes /\ Timeout \in Codes
    BY CalleeRoom DEF CalleeReady, Timeout, Codes
<1>1. e \in Session
    BY <1>0 DEF Session
<1>2. /\ e.state = i.state /\ e.tsx = "Ended" /\ (e.hanging_up <=> i.hanging_up)
      /\ (e.pending_bye <=> i.pending_bye) /\ e.byes = i.byes /\ e.out = {}
    BY <1>0 DEF Session
<1>3. j = IF i.state = "CONNECTING" THEN [b EXCEPT !.pending_bye = FALSE] ELSE e
    BY DEF AckTimeout
<1> HIDE DEF e
<1>4. c \in Session /\ c = [e EXCEPT !.cause = c.cause]
    BY <1>0, <1>1, CauseSet
<1> HIDE DEF c
<1>5. /\ c.state = i.state /\ c.tsx = "Ended" /\ (c.hanging_up <=> i.hanging_up)
      /\ (c.pending_bye <=> i.pending_bye) /\ c.byes = i.byes /\ c.out = {}
    BY <1>1, <1>2, <1>4 DEF Session
<1>6. CASE i.state = "CONNECTING"
    <2>1. c.byes < MaxByes /\ b = SendBye("S", c)
        BY <1>0, <1>5
    <2> HIDE DEF b
    <2>2. /\ b \in Session /\ Keeps(c, b) /\ CalleeSays(c, b)
          /\ \/ b.pending_bye /\ b.byes = c.byes /\ c.state = "CONNECTING" /\ b.open = c.open /\ b.cause = c.cause
             \/ (b.pending_bye <=> c.pending_bye) /\ b.byes = c.byes + 1
        BY ONLY <1>4, <2>1, CalleeSendsBye
    <2>3. j = [b EXCEPT !.pending_bye = FALSE]
        BY <1>3, <1>6
    <2>4. j \in Session
        BY <2>2, <2>3 DEF Session
    <2>5. /\ j.state = b.state /\ j.tsx = b.tsx /\ (j.hanging_up <=> b.hanging_up) /\ ~j.pending_bye
          /\ j.byes = b.byes /\ j.out = b.out
        BY <2>2, <2>3 DEF Session
    <2>6. /\ j.state = "CONNECTING" /\ j.tsx = "Ended" /\ (j.hanging_up <=> i.hanging_up)
          /\ j.byes \in {i.byes, i.byes + 1}
        BY ONLY <1>5, <1>6, <2>2, <2>5 DEF Keeps
    <2>7. CalleeOK(j)
        BY <2>6 DEF CalleeOK
    <2>8. CalleeUse(j) <= CalleeUse(i)
        BY <1>0, <2>5, <2>6 DEF CalleeUse, One
    <2>9. \A m \in j.out : m \in FromCallee /\ (m.kind = "BYE" => j.byes > 0)
        BY <1>5, <2>2, <2>5 DEF CalleeSays
    <2> QED BY <2>4, <2>6, <2>7, <2>8, <2>9 DEF CalleeStep
<1>7. CASE i.state # "CONNECTING"
    <2>1. j = e
        BY <1>3, <1>7
    <2>2. CalleeOK(e)
        BY <1>0, <1>2, <1>7 DEF CalleeOK
    <2>3. CalleeUse(e) <= CalleeUse(i)
        BY <1>0, <1>2 DEF CalleeUse, One
    <2> QED BY <1>1, <1>2, <2>1, <2>2, <2>3 DEF CalleeStep
<1> QED BY <1>6, <1>7

-------------------------------------------------------------------------------
(* What a step does to the invariant.                                      *)

\* What a session has sent is no part of it.
LEMMA SameButOut ==
    ASSUME NEW j \in Session, NEW k, k = [j EXCEPT !.out = {}]
    PROVE  /\ k \in Session /\ k.out = {} /\ k.state = j.state /\ k.tsx = j.tsx /\ k.byes = j.byes
           /\ k.open = j.open /\ k.cancel = j.cancel /\ k.cause = j.cause
           /\ CallerOK(j) => CallerOK(k)
           /\ CalleeOK(j) => CalleeOK(k)
           /\ CallerUse(k) = CallerUse(j) /\ CalleeUse(k) = CalleeUse(j)
           /\ CallerDone(j) <=> CallerDone(k)
           /\ Heard(k) <=> Heard(j)
<1>1. k \in Session
    BY DEF Session
<1>2. /\ k.out = {} /\ k.state = j.state /\ k.tsx = j.tsx /\ k.byes = j.byes
      /\ k.open = j.open /\ k.cancel = j.cancel /\ k.cause = j.cause /\ (k.hanging_up <=> j.hanging_up)
      /\ (k.pending_cancel <=> j.pending_cancel) /\ (k.pending_bye <=> j.pending_bye)
    BY DEF Session
<1>3. (CallerOK(j) => CallerOK(k)) /\ (CalleeOK(j) => CalleeOK(k))
    BY ONLY <1>2 DEF CallerOK, CalleeOK
<1>4. CallerUse(k) = CallerUse(j)
    <2>1. (~k.hanging_up \/ k.pending_cancel \/ k.cancel = "Pending") <=>
          (~j.hanging_up \/ j.pending_cancel \/ j.cancel = "Pending")
        BY ONLY <1>2
    <2> QED BY ONLY <1>2, <2>1 DEF CallerUse, One
<1>5. CalleeUse(k) = CalleeUse(j)
    BY ONLY <1>2 DEF CalleeUse, One
<1>6. (CallerDone(j) <=> CallerDone(k)) /\ (Heard(k) <=> Heard(j))
    BY ONLY <1>2 DEF CallerDone, Heard
<1> QED BY ONLY <1>1, <1>2, <1>3, <1>4, <1>5, <1>6

\* The session of a party after a step.
LEMMA Becoming ==
    ASSUME inv \in [Parties -> Session], \A q \in Parties : inv[q].out = {},
           NEW p \in Parties, NEW j \in Session, Becomes(p, j)
    PROVE  /\ inv' \in [Parties -> Session] /\ \A q \in Parties : inv'[q].out = {}
           /\ inv'[p] = [j EXCEPT !.out = {}]
           /\ \A q \in Parties \ {p} : inv'[q] = inv[q]
<1> DEFINE k == [j EXCEPT !.out = {}]
<1>1. k \in Session /\ k.out = {}
    BY SameButOut
<1>2. inv' = [inv EXCEPT ![p] = k]
    BY DEF Becomes
<1> HIDE DEF k
<1> QED BY <1>1, <1>2 DEF k

\* Fewer messages, no more BYE requests to repeat.
LEMMA Repeats ==
    ASSUME NEW p \in Parties, asked' = asked, ChallengesTo(p)' \subseteq ChallengesTo(p)
    PROVE  Repeat(p)' <= Repeat(p) /\ Repeat(p) \in {0, 1} /\ Repeat(p)' \in {0, 1}
    BY DEF Repeat, One

LEMMA StillChallengedOnce ==
    ASSUME ChallengedOnce, asked' = asked, \A p \in Parties : ChallengesTo(p)' \subseteq ChallengesTo(p),
           \A m : m \in net' /\ m.kind = "ByeChallenge" => m \in net,
           \A m : m \in late' /\ m.kind = "ByeChallenge" => m \in late
    PROVE  ChallengedOnce'
<1> SUFFICES ASSUME NEW p \in Parties
             PROVE  /\ ByeOf(p) \in asked' => ChallengesTo(p)' = {}
                    /\ \A m, n \in ChallengesTo(p)' : m = n
                    /\ \A m \in ChallengesTo(p)' : ~(m \in net' /\ m \in late')
    BY DEF ChallengedOnce
<1>1. /\ ByeOf(p) \in asked => ChallengesTo(p) = {}
      /\ \A m, n \in ChallengesTo(p) : m = n
      /\ \A m \in ChallengesTo(p) : ~(m \in net /\ m \in late)
    BY DEF ChallengedOnce
<1>2. ByeOf(p) \in asked' => ChallengesTo(p)' = {}
    BY <1>1
<1>3. \A m, n \in ChallengesTo(p)' : m = n
    BY <1>1
<1>4. ASSUME NEW m \in ChallengesTo(p)', m \in net', m \in late'
      PROVE  FALSE
    <2>1. m.kind = "ByeChallenge" /\ m \in ChallengesTo(p)
        BY <1>4 DEF ChallengesTo
    <2> QED BY <1>1, <1>4, <2>1
<1> QED BY <1>2, <1>3, <1>4

\* A step of the caller, once the callee has the INVITE.
LEMMA CallerMoves ==
    ASSUME IInv, inv["S"].state # "NULL", NEW j \in Session, NEW R, NEW L,
           CallerOK(j), j.out \subseteq FromCaller,
           CallerDone(inv["C"]) => CallerDone(j),
           \A m \in j.out : m.kind = "ACK" => CallerDone(j),
           Becomes("C", j), net' = (net \ R) \cup j.out, late' = late \ L, UNCHANGED <<faults, resent, asked>>,
           Msg("C", "2xx") \in R => CallerDone(j),
           CallerUse(j) + Repeat("C")' <= 4
    PROVE  IInv'
<1>0. /\ inv \in [Parties -> Session] /\ (\A q \in Parties : inv[q].out = {}) /\ "C" \in Parties /\ "S" \in Parties
      /\ net \subseteq Messages /\ late \subseteq Messages
      /\ faults' = faults /\ resent' = resent /\ asked' = asked
    BY DEF IInv, TypeOK, Parties
<1>1. /\ inv' \in [Parties -> Session] /\ (\A q \in Parties : inv'[q].out = {})
      /\ inv'["C"] = [j EXCEPT !.out = {}] /\ inv'["S"] = inv["S"]
    BY <1>0, Becoming
<1>2. /\ CallerOK(inv'["C"]) /\ CallerUse(inv'["C"]) = CallerUse(j)
      /\ CallerDone(j) <=> CallerDone(inv'["C"])
    BY ONLY <1>1, SameButOut, j \in Session, CallerOK(j)
<1>3. \A m \in j.out : m \in Messages /\ m.to = "S" /\ m.kind \in {"CANCEL", "ACK", "BYE", "ByeDone"}
    BY DEF FromCaller
<1>4. \A m \in Flying' : m \in Flying \/ m \in j.out
    BY DEF Flying
<1>5. TypeOK'
    BY <1>0, <1>1, <1>3 DEF IInv, TypeOK
<1>6. CallerOK(inv["C"])' /\ CalleeOK(inv["S"])'
    BY <1>1, <1>2 DEF IInv
<1>7. Unborn' /\ Born' /\ Routed'
    <2>1. Unborn'
        BY <1>1 DEF Unborn
    <2>2. Born'
        BY <1>1, <1>3, <1>4 DEF IInv, Born
    <2>3. Routed'
        BY <1>3, <1>4 DEF IInv, Routed, ToCaller, ToCallee
    <2> QED BY <2>1, <2>2, <2>3
<1>8. \A p \in Parties : ChallengesTo(p)' \subseteq ChallengesTo(p)
    BY <1>3, <1>4 DEF ChallengesTo
<1>9. ChallengedOnce'
    <2>1. \A m : m \in net' /\ m.kind = "ByeChallenge" => m \in net
        BY <1>3
    <2> QED BY <1>0, <1>8, <2>1, StillChallengedOnce DEF IInv
<1>10. Budget'
    <2>1. Repeat("S")' <= Repeat("S") /\ Repeat("S") \in {0, 1} /\ Repeat("S")' \in {0, 1}
        BY <1>0, <1>8, Repeats
    <2>2. inv["S"].byes \in Int
        BY <1>0, Bounds DEF Session
    <2>3. CalleeUse(inv["S"]) \in Int /\ CalleeUse(inv["S"]) + Repeat("S") <= 4
        BY <2>2 DEF IInv, Budget, CalleeUse, One
    <2>4. CalleeUse(inv["S"])' + Repeat("S")' <= 4
        BY <1>1, <2>1, <2>3
    <2> QED BY <1>2, <2>4 DEF Budget
<1>11. Acknowledged'
    <2> SUFFICES ASSUME faults = MaxFaults
                 PROVE  /\ late' = {}
                        /\ Heard(inv["S"])' => CallerDone(inv["C"])'
                        /\ \A m \in net' : m.kind = "ACK" \/ (m.kind = "BYE" /\ m.to = "C") => CallerDone(inv["C"])'
                        /\ inv["S"].tsx' = "Accepted" => Msg("C", "2xx") \in net' \/ CallerDone(inv["C"])'
        BY <1>0 DEF Acknowledged
    <2>1. /\ late = {}
          /\ Heard(inv["S"]) => CallerDone(inv["C"])
          /\ \A m \in net : m.kind = "ACK" \/ (m.kind = "BYE" /\ m.to = "C") => CallerDone(inv["C"])
          /\ inv["S"].tsx = "Accepted" => Msg("C", "2xx") \in net \/ CallerDone(inv["C"])
        BY DEF IInv, Acknowledged
    <2>2. CallerDone(inv["C"]) => CallerDone(inv["C"])'
        BY <1>2
    <2>3. late' = {} /\ (Heard(inv["S"])' => CallerDone(inv["C"])')
        BY <1>1, <2>1, <2>2
    <2>4. \A m \in net' : m.kind = "ACK" \/ (m.kind = "BYE" /\ m.to = "C") => CallerDone(inv["C"])'
        BY <1>2, <1>3, <2>1, <2>2
    <2>5. inv["S"].tsx' = "Accepted" => Msg("C", "2xx") \in net' \/ CallerDone(inv["C"])'
        BY <1>1, <1>2, <2>1, <2>2
    <2> QED BY <2>3, <2>4, <2>5
<1> QED BY <1>5, <1>6, <1>7, <1>9, <1>10, <1>11 DEF IInv

\* A step of the callee, which has the INVITE, or gets it as the last message on its way.
LEMMA CalleeMoves ==
    ASSUME IInv, NEW j \in Session, j.state # "NULL", NEW R, NEW L,
           inv["S"].state # "NULL" \/ (net \ R = {} /\ late \ L = {}),
           CalleeOK(j), \A m \in j.out : m \in FromCallee /\ (m.kind = "BYE" => j.byes > 0),
           faults = MaxFaults /\ Heard(j) => Heard(inv["S"]) \/ CallerDone(inv["C"]),
           j.tsx = "Accepted" => inv["S"].tsx = "Accepted" \/ Msg("C", "2xx") \in j.out,
           Becomes("S", j), net' = (net \ R) \cup j.out, late' = late \ L, UNCHANGED <<faults, resent, asked>>,
           Msg("C", "2xx") \notin R,
           CalleeUse(j) + Repeat("S")' <= 4
    PROVE  IInv'
<1>0. /\ inv \in [Parties -> Session] /\ (\A q \in Parties : inv[q].out = {}) /\ "C" \in Parties /\ "S" \in Parties
      /\ net \subseteq Messages /\ late \subseteq Messages
      /\ faults' = faults /\ resent' = resent /\ asked' = asked
    BY DEF IInv, TypeOK, Parties
<1>1. /\ inv' \in [Parties -> Session] /\ (\A q \in Parties : inv'[q].out = {})
      /\ inv'["S"] = [j EXCEPT !.out = {}] /\ inv'["C"] = inv["C"]
    BY <1>0, Becoming
<1>2. /\ CalleeOK(inv'["S"]) /\ CalleeUse(inv'["S"]) = CalleeUse(j)
      /\ inv'["S"].state = j.state /\ inv'["S"].tsx = j.tsx
      /\ Heard(inv'["S"]) <=> Heard(j)
    BY ONLY <1>1, SameButOut, j \in Session, CalleeOK(j)
<1>3. \A m \in j.out : m \in Messages /\ m.to = "C" /\ m.kind \in {"100", "180", "2xx", "Fail", "CancelDone", "BYE", "ByeDone"}
    BY DEF FromCallee
<1>4. \A m \in Flying' : m \in Flying \/ m \in j.out
    BY DEF Flying
<1>5. TypeOK'
    BY <1>0, <1>1, <1>3 DEF IInv, TypeOK
<1>6. CallerOK(inv["C"])' /\ CalleeOK(inv["S"])'
    BY <1>1, <1>2 DEF IInv
<1>7. Unborn' /\ Born' /\ Routed'
    <2>1. Unborn'
        BY <1>2 DEF Unborn
    <2>2. Born'
        <3>1. CASE inv["S"].state # "NULL"
            BY <1>3, <1>4, <3>1 DEF IInv, Born
        <3>2. CASE net \ R = {} /\ late \ L = {}
            <4>1. Flying' = j.out
                BY <3>2 DEF Flying
            <4> QED BY <1>3, <4>1 DEF Born
        <3> QED BY <3>1, <3>2
    <2>3. Routed'
        BY <1>3, <1>4 DEF IInv, Routed, ToCaller, ToCallee
    <2> QED BY <2>1, <2>2, <2>3
<1>8. \A p \in Parties : ChallengesTo(p)' \subseteq ChallengesTo(p)
    BY <1>3, <1>4 DEF ChallengesTo
<1>9. ChallengedOnce'
    <2>1. \A m : m \in net' /\ m.kind = "ByeChallenge" => m \in net
        BY <1>3
    <2> QED BY <1>0, <1>8, <2>1, StillChallengedOnce DEF IInv
<1>10. Budget'
    <2>1. Repeat("C")' <= Repeat("C") /\ Repeat("C") \in {0, 1} /\ Repeat("C")' \in {0, 1}
        BY <1>0, <1>8, Repeats
    <2>2. inv["C"].byes \in Int
        BY <1>0, Bounds DEF Session
    <2>3. CallerUse(inv["C"]) \in Int /\ CallerUse(inv["C"]) + Repeat("C") <= 4
        BY <2>2 DEF IInv, Budget, CallerUse, One
    <2>4. CallerUse(inv["C"])' + Repeat("C")' <= 4
        BY <1>1, <2>1, <2>3
    <2> QED BY <1>2, <2>4 DEF Budget
<1>11. Acknowledged'
    <2> SUFFICES ASSUME faults = MaxFaults
                 PROVE  /\ late' = {}
                        /\ Heard(inv["S"])' => CallerDone(inv["C"])'
                        /\ \A m \in net' : m.kind = "ACK" \/ (m.kind = "BYE" /\ m.to = "C") => CallerDone(inv["C"])'
                        /\ inv["S"].tsx' = "Accepted" => Msg("C", "2xx") \in net' \/ CallerDone(inv["C"])'
        BY <1>0 DEF Acknowledged
    <2>1. /\ late = {}
          /\ Heard(inv["S"]) => CallerDone(inv["C"])
          /\ \A m \in net : m.kind = "ACK" \/ (m.kind = "BYE" /\ m.to = "C") => CallerDone(inv["C"])
          /\ inv["S"].tsx = "Accepted" => Msg("C", "2xx") \in net \/ CallerDone(inv["C"])
        BY DEF IInv, Acknowledged
    <2>2. CallerDone(inv["C"])' <=> CallerDone(inv["C"])
        BY <1>1
    <2>3. late' = {} /\ (Heard(j) => CallerDone(inv["C"])')
        BY <2>1, <2>2
    <2>4. \A m \in net' : m.kind = "ACK" \/ (m.kind = "BYE" /\ m.to = "C") => CallerDone(inv["C"])'
        <3>1. \A m \in j.out : m.kind = "BYE" => CallerDone(inv["C"])'
            BY <2>3 DEF Heard
        <3> QED BY <1>3, <2>1, <2>2, <3>1
    <2>5. inv["S"].tsx' = "Accepted" => Msg("C", "2xx") \in net' \/ CallerDone(inv["C"])'
        BY <1>2, <2>1, <2>2
    <2> QED BY <1>2, <2>3, <2>4, <2>5
<1> QED BY <1>5, <1>6, <1>7, <1>9, <1>10, <1>11 DEF IInv

\* A step of the caller before the callee has the INVITE.
LEMMA CallerAlone ==
    ASSUME IInv, inv["S"].state = "NULL", NEW j \in Session, NEW R, NEW L,
           CallerOK(j), CallerUse(j) <= CallerUse(inv["C"]),
           j.byes = 0, j.open = {}, j.cancel = "None",
           \/ j.state = "CALLING" /\ j.tsx = "Calling"
           \/ j.state = "DISCONNECTED" /\ j.tsx = "Ended",
           j.out = {} \/ (j.out = {Msg("S", "INVITE")} /\ net \ R = {} /\ late \ L = {}),
           Becomes("C", j), net' = (net \ R) \cup j.out, late' = late \ L, UNCHANGED <<faults, resent, asked>>
    PROVE  IInv'
<1>0. /\ inv \in [Parties -> Session] /\ (\A q \in Parties : inv[q].out = {}) /\ "C" \in Parties /\ "S" \in Parties
      /\ net \subseteq Messages /\ late \subseteq Messages
      /\ faults' = faults /\ resent' = resent /\ asked' = asked
    BY DEF IInv, TypeOK, Parties
<1>1. /\ inv' \in [Parties -> Session] /\ (\A q \in Parties : inv'[q].out = {})
      /\ inv'["C"] = [j EXCEPT !.out = {}] /\ inv'["S"] = inv["S"]
    BY <1>0, Becoming
<1>2. /\ CallerOK(inv'["C"]) /\ CallerUse(inv'["C"]) = CallerUse(j)
      /\ inv'["C"].state = j.state /\ inv'["C"].tsx = j.tsx /\ inv'["C"].byes = j.byes
      /\ inv'["C"].open = j.open /\ inv'["C"].cancel = j.cancel
    BY ONLY <1>1, SameButOut, j \in Session, CallerOK(j)
<1>3. /\ Msg("S", "INVITE") \in Messages /\ Msg("S", "INVITE").kind = "INVITE" /\ Msg("S", "INVITE").to = "S"
      /\ Msg("C", "Challenge").kind = "Challenge" /\ Msg("C", "Challenge").to = "C"
    BY Plain DEF Parties, Kinds
<1>4. /\ inv["S"] = Idle /\ Flying \subseteq {Msg("S", "INVITE"), Msg("C", "Challenge")}
      /\ \A m, n \in Flying : m = n
      /\ net \cap late = {}
    BY DEF IInv, Unborn
<1>5. /\ Flying' \subseteq {Msg("S", "INVITE"), Msg("C", "Challenge")}
      /\ \A m, n \in Flying' : m = n
      /\ net' \cap late' = {}
    <2>1. CASE j.out = {}
        BY <1>4, <2>1 DEF Flying
    <2>2. CASE j.out = {Msg("S", "INVITE")} /\ net \ R = {} /\ late \ L = {}
        BY <2>2 DEF Flying
    <2> QED BY <2>1, <2>2
<1>6. TypeOK'
    BY <1>0, <1>1, <1>3 DEF IInv, TypeOK
<1>7. CallerOK(inv["C"])' /\ CalleeOK(inv["S"])'
    BY <1>1, <1>2 DEF IInv
<1>8. Unborn'
    BY <1>1, <1>2, <1>4, <1>5 DEF Unborn
<1>9. Born' /\ Routed'
    BY <1>1, <1>3, <1>5 DEF Born, Routed, ToCaller, ToCallee
<1>10. \A p \in Parties : ChallengesTo(p)' = {}
    BY <1>3, <1>5 DEF ChallengesTo
<1>11. ChallengedOnce'
    BY <1>10 DEF ChallengedOnce
<1>12. Budget'
    <2>1. /\ Repeat("S")' <= Repeat("S") /\ Repeat("S") \in {0, 1} /\ Repeat("S")' \in {0, 1}
          /\ Repeat("C")' <= Repeat("C") /\ Repeat("C") \in {0, 1} /\ Repeat("C")' \in {0, 1}
        BY <1>0, <1>10, Repeats
    <2>2. inv["S"].byes \in Int /\ inv["C"].byes \in Int /\ j.byes \in Int
        BY <1>0, Bounds DEF Session
    <2>3. /\ CalleeUse(inv["S"]) \in Int /\ CalleeUse(inv["S"]) + Repeat("S") <= 4
          /\ CallerUse(inv["C"]) \in Int /\ CallerUse(inv["C"]) + Repeat("C") <= 4
          /\ CallerUse(j) \in Int
        BY <2>2 DEF IInv, Budget, CalleeUse, CallerUse, One
    <2>4. CalleeUse(inv["S"])' + Repeat("S")' <= 4
        BY <1>1, <2>1, <2>3
    <2>5. CallerUse(j) + Repeat("C")' <= 4
        BY <2>1, <2>3
    <2> QED BY <1>2, <2>4, <2>5 DEF Budget
<1>13. Acknowledged'
    <2>1. inv'["S"] = Idle
        BY <1>1, <1>4
    <2>2. ~Heard(Idle) /\ Idle.tsx = "None"
        BY DEF Heard, Idle, Timeout
    <2>3. \A m \in net' : m.kind \notin {"ACK", "BYE"}
        BY <1>3, <1>5 DEF Flying
    <2>4. faults' = MaxFaults => late' = {}
        BY <1>0 DEF IInv, Acknowledged
    <2> QED BY <2>1, <2>2, <2>3, <2>4 DEF Acknowledged
<1> QED BY <1>6, <1>7, <1>8, <1>9, <1>11, <1>12, <1>13 DEF IInv

\* The sessions are ready for the next event.
LEMMA Ready ==
    ASSUME IInv
    PROVE  /\ CallerReady(inv["C"]) /\ CalleeReady(inv["S"])
           /\ CallerUse(inv["C"]) \in Int /\ CalleeUse(inv["S"]) \in Int
           /\ \A p \in Parties : Repeat(p) \in {0, 1}
           /\ CallerUse(inv["C"]) + Repeat("C") <= 4 /\ CalleeUse(inv["S"]) + Repeat("S") <= 4
<1>1. /\ inv["C"] \in Session /\ inv["S"] \in Session /\ inv["C"].out = {} /\ inv["S"].out = {}
      /\ CallerOK(inv["C"]) /\ CalleeOK(inv["S"])
    BY DEF IInv, TypeOK, Parties
<1>2. \A p \in Parties : Repeat(p) \in {0, 1}
    BY DEF Repeat, One
<1>3. inv["C"].byes \in Int /\ inv["S"].byes \in Int
    BY <1>1, Bounds DEF Session
<1>4. CallerUse(inv["C"]) \in Int /\ CalleeUse(inv["S"]) \in Int
    BY <1>3 DEF CallerUse, CalleeUse, One
<1>5. CallerUse(inv["C"]) + Repeat("C") <= 4 /\ CalleeUse(inv["S"]) + Repeat("S") <= 4
    BY DEF IInv, Budget
<1>6. CallerUse(inv["C"]) <= 4 /\ CalleeUse(inv["S"]) <= 4
    BY <1>2, <1>4, <1>5 DEF Parties
<1> QED BY ONLY <1>1, <1>2, <1>4, <1>5, <1>6 DEF CallerReady, CalleeReady

\* A party that sends no challenge repeats no more.
LEMMA NoMoreRepeats ==
    ASSUME NEW p \in Parties, NEW o, \A m \in o : m.kind # "ByeChallenge", NEW R, NEW L,
           net' = (net \ R) \cup o, late' = late \ L, asked' = asked
    PROVE  Repeat(p)' <= Repeat(p) /\ Repeat(p) \in {0, 1} /\ Repeat(p)' \in {0, 1}
<1>1. ChallengesTo(p)' \subseteq ChallengesTo(p)
    BY DEF ChallengesTo, Flying
<1> QED BY <1>1, Repeats

\* A step of the caller that needs no further BYE.
LEMMA CallerGoes ==
    ASSUME IInv, inv["S"].state # "NULL", NEW j, CallerStep(inv["C"], j), NEW R, NEW L,
           Becomes("C", j), net' = (net \ R) \cup j.out, late' = late \ L, UNCHANGED <<faults, resent, asked>>,
           Msg("C", "2xx") \in R => CallerDone(j)
    PROVE  IInv'
<1>1. /\ j \in Session /\ CallerOK(j) /\ j.out \subseteq FromCaller
      /\ CallerUse(j) <= CallerUse(inv["C"])
      /\ CallerDone(inv["C"]) => CallerDone(j)
      /\ (\E m \in j.out : m.kind = "ACK") => CallerDone(j)
    BY DEF CallerStep
<1>2. Repeat("C")' <= Repeat("C") /\ Repeat("C") \in {0, 1} /\ Repeat("C")' \in {0, 1}
    <2>1. \A m \in j.out : m.kind # "ByeChallenge"
        BY <1>1 DEF FromCaller
    <2> QED BY <2>1, NoMoreRepeats DEF Parties
<1>3. CallerUse(j) \in Int
    <2>1. j.byes \in Int
        BY <1>1, Bounds DEF Session
    <2> QED BY <2>1 DEF CallerUse, One
<1>4. CallerUse(j) + Repeat("C")' <= 4
    <2>1. CallerUse(inv["C"]) \in Int /\ CallerUse(inv["C"]) + Repeat("C") <= 4
        BY Ready
    <2> QED BY ONLY <1>1, <1>2, <1>3, <2>1
<1>5. \A m \in j.out : m.kind = "ACK" => CallerDone(j)
    BY <1>1
<1> QED BY <1>1, <1>4, <1>5, CallerMoves

\* And of the callee.
LEMMA CalleeGoes ==
    ASSUME IInv, NEW j, CalleeStep(inv["S"], j), NEW R, NEW L,
           inv["S"].state # "NULL" \/ (net \ R = {} /\ late \ L = {}),
           faults = MaxFaults /\ Heard(j) => Heard(inv["S"]) \/ CallerDone(inv["C"]),
           Becomes("S", j), net' = (net \ R) \cup j.out, late' = late \ L, UNCHANGED <<faults, resent, asked>>,
           Msg("C", "2xx") \notin R
    PROVE  IInv'
<1>1. /\ j \in Session /\ CalleeOK(j) /\ j.state # "NULL"
      /\ CalleeUse(j) <= CalleeUse(inv["S"])
      /\ j.tsx = "Accepted" => inv["S"].tsx = "Accepted" \/ Msg("C", "2xx") \in j.out
      /\ \A m \in j.out : m \in FromCallee /\ (m.kind = "BYE" => j.byes > 0)
    BY DEF CalleeStep
<1>2. Repeat("S")' <= Repeat("S") /\ Repeat("S") \in {0, 1} /\ Repeat("S")' \in {0, 1}
    <2>1. \A m \in j.out : m.kind # "ByeChallenge"
        BY <1>1 DEF FromCallee
    <2> QED BY <2>1, NoMoreRepeats DEF Parties
<1>3. CalleeUse(j) \in Int
    <2>1. j.byes \in Int
        BY <1>1, Bounds DEF Session
    <2> QED BY <2>1 DEF CalleeUse, One
<1>4. CalleeUse(j) + Repeat("S")' <= 4
    <2>1. CalleeUse(inv["S"]) \in Int /\ CalleeUse(inv["S"]) + Repeat("S") <= 4
        BY Ready
    <2> QED BY ONLY <1>1, <1>2, <1>3, <2>1
<1> QED BY <1>1, <1>4, CalleeMoves

-------------------------------------------------------------------------------
(* The messages.                                                           *)

\* What is on its way to a party.
LEMMA Arrives ==
    ASSUME IInv, NEW m \in Flying
    PROVE  /\ m \in Messages /\ m.to \in Parties /\ m.kind \in Kinds /\ m.id \in 0 .. MaxByes
           /\ m.to = "C" => m.kind \notin ToCallee
           /\ m.to = "S" => m.kind \notin ToCaller
           /\ inv["S"].state # "NULL" => m.kind \notin {"INVITE", "Challenge"}
           /\ inv["S"].state = "NULL" => m \in {Msg("S", "INVITE"), Msg("C", "Challenge")}
<1>1. m \in Messages
    BY DEF IInv, TypeOK, Flying
<1>2. m.to \in Parties /\ m.kind \in Kinds /\ m.id \in 0 .. MaxByes
    BY <1>1 DEF Messages
<1>3. (m.to = "C" => m.kind \notin ToCallee) /\ (m.to = "S" => m.kind \notin ToCaller)
    BY DEF IInv, Routed
<1>4. inv["S"].state # "NULL" => m.kind \notin {"INVITE", "Challenge"}
    BY DEF IInv, Born
<1>5. inv["S"].state = "NULL" => m \in {Msg("S", "INVITE"), Msg("C", "Challenge")}
    BY DEF IInv, Unborn
<1> QED BY ONLY <1>1, <1>2, <1>3, <1>4, <1>5

\* The caller gets a message other than a challenge.
LEMMA CallerGets ==
    ASSUME MaxByes >= 4, IInv, NEW m \in Flying, m.to = "C", m.kind \notin {"Challenge", "ByeChallenge"},
           NEW j \in Receives(m)
    PROVE  CallerStep(inv["C"], j) /\ (m.kind = "2xx" => CallerDone(j))
<1> DEFINE i == inv["C"]
           alive == i.tsx \in {"Calling", "Proceeding"}
<1>0. CallerReady(i) /\ CallerStep(i, i) /\ m.id \in 0 .. MaxByes /\ CallerOK(i)
    BY Ready, CallerStays, Arrives DEF CallerReady
<1>1. m.kind \in {"BYE", "ByeDone", "100", "180", "2xx", "Fail", "CancelDone"}
    BY Arrives DEF Kinds, ToCallee
<1>2. ~alive => i.tsx = "Ended"
    BY <1>0 DEF CallerOK
<1>3. Receives(m) =
        CASE m.kind = "BYE" -> {RxBye("C", i, m.id)}
          [] m.kind = "ByeDone" -> {IF m.id \in i.open THEN RxByeDone(i, m.id) ELSE i}
          [] m.kind = "ByeChallenge" -> {IF m.id \in i.open THEN RxByeChallenge("C", i, m.id) ELSE i}
          [] m.kind \notin {"BYE", "ByeDone", "ByeChallenge"} -> CallerReceives(m, i)
    BY DEF Receives
<1>4. CallerReceives(m, i) =
        CASE m.kind \in {"100", "180"} -> {IF alive THEN RxProvisional(i, m.kind) ELSE i}
          [] m.kind = "2xx" /\ alive -> {Rx2xx(i, sdp) : sdp \in {"good", "bad", "none"}}
          [] m.kind = "2xx" /\ ~alive -> {SendAck(i)} \cup (IF i.state = "DISCONNECTED" THEN {i} ELSE {})
          [] m.kind = "Fail" -> {IF alive THEN RxFailure(i, 480) ELSE i}
          [] m.kind = "Challenge" -> {IF alive THEN RxChallenge(i) ELSE i}
          [] m.kind = "CancelDone" -> {[i EXCEPT !.cancel = "Ended"]}
    BY DEF CallerReceives
<1> HIDE DEF i
<1>5. CASE m.kind = "BYE"
    <2>1. j = RxBye("C", i, m.id)
        BY ONLY <1>3, <1>5, j \in Receives(m)
    <2> QED BY <1>0, <1>5, <2>1, CallerBye DEF i
<1>6. CASE m.kind = "ByeDone"
    <2>1. j = RxByeDone(i, m.id) \/ j = i
        BY ONLY <1>3, <1>6, j \in Receives(m)
    <2> QED BY <1>0, <1>6, <2>1, CallerByeEnds DEF i
<1>7. CASE m.kind \in {"100", "180"}
    <2>1. (alive /\ j = RxProvisional(i, m.kind)) \/ j = i
        BY ONLY <1>3, <1>4, <1>7, j \in Receives(m)
    <2> QED BY <1>0, <1>7, <2>1, CallerProvisional DEF i
<1>8. CASE m.kind = "2xx" /\ alive
    <2>1. PICK sdp \in {"good", "bad", "none"} : j = Rx2xx(i, sdp)
        BY ONLY <1>3, <1>4, <1>8, j \in Receives(m)
    <2> QED BY <1>0, <1>8, <2>1, CallerOk DEF i
<1>9. CASE m.kind = "2xx" /\ ~alive
    <2>1. j = SendAck(i) \/ (j = i /\ i.state = "DISCONNECTED")
        BY ONLY <1>3, <1>4, <1>9, j \in Receives(m)
    <2>2. i.state = "DISCONNECTED" => CallerDone(i)
        BY DEF CallerDone
    <2> QED BY <1>0, <1>2, <1>9, <2>1, <2>2, CallerOkAgain DEF i
<1>10. CASE m.kind = "Fail"
    <2>1. j = RxFailure(i, 480) \/ j = i
        BY ONLY <1>3, <1>4, <1>10, j \in Receives(m)
    <2>2. 480 \in Codes
        BY DEF Codes
    <2> QED BY <1>0, <1>10, <2>1, <2>2, CallerFails DEF i
<1>11. CASE m.kind = "CancelDone"
    <2>1. j = [i EXCEPT !.cancel = "Ended"]
        BY ONLY <1>3, <1>4, <1>11, j \in Receives(m)
    <2> QED BY <1>0, <1>11, <2>1, CallerCancelDone DEF i
<1> QED BY <1>1, <1>5, <1>6, <1>7, <1>8, <1>9, <1>10, <1>11

\* The callee gets a message other than the INVITE and a challenge.
LEMMA CalleeGets ==
    ASSUME MaxByes >= 4, IInv, NEW m \in Flying, m.to = "S", m.kind \notin {"INVITE", "ByeChallenge"},
           NEW j \in Receives(m)
    PROVE  CalleeStep(inv["S"], j) /\ (m.kind # "ACK" => (Heard(j) => Heard(inv["S"])))
<1> DEFINE i == inv["S"]
<1>0. CalleeReady(i) /\ m.id \in 0 .. MaxByes
    BY Ready, Arrives
<1>1. m.kind \in {"BYE", "ByeDone", "CANCEL", "ACK"}
    BY Arrives DEF Kinds, ToCaller
<1>2. i.state # "NULL"
    <2>1. ASSUME i.state = "NULL"
          PROVE  FALSE
        <3>1. m = Msg("S", "INVITE") \/ m = Msg("C", "Challenge")
            BY <2>1, Arrives
        <3>2. Msg("S", "INVITE").kind = "INVITE" /\ Msg("C", "Challenge").kind = "Challenge"
            BY DEF Msg
        <3> QED BY <1>1, <3>1, <3>2
    <2> QED BY <2>1
<1>3. Receives(m) =
        CASE m.kind = "BYE" -> {RxBye("S", i, m.id)}
          [] m.kind = "ByeDone" -> {IF m.id \in i.open THEN RxByeDone(i, m.id) ELSE i}
          [] m.kind = "ByeChallenge" -> {IF m.id \in i.open THEN RxByeChallenge("S", i, m.id) ELSE i}
          [] m.kind \notin {"BYE", "ByeDone", "ByeChallenge"} -> CalleeReceives(m, i)
    BY DEF Receives
<1>4. CalleeReceives(m, i) =
        CASE m.kind = "INVITE" -> {Send([i EXCEPT !.state = "INCOMING", !.tsx = "Proceeding"], Msg("C", "100"))}
          [] m.kind = "CANCEL" -> {RxCancel(i)}
          [] m.kind = "ACK" -> {RxAck(i)}
    BY DEF CalleeReceives
<1> HIDE DEF i
<1>5. CASE m.kind = "BYE"
    <2>1. j = RxBye("S", i, m.id)
        BY ONLY <1>3, <1>5, j \in Receives(m)
    <2> QED BY <1>0, <1>2, <2>1, CalleeBye DEF i
<1>6. CASE m.kind = "ByeDone"
    <2>1. j = RxByeDone(i, m.id) \/ j = i
        BY ONLY <1>3, <1>6, j \in Receives(m)
    <2>2. CalleeStep(i, i)
        <3>1. i.byes \in Int
            BY <1>0, Bounds DEF CalleeReady, Session
        <3> QED BY <1>0, <1>2, <3>1 DEF CalleeReady, CalleeStep, CalleeUse, One
    <2> QED BY <1>0, <2>1, <2>2, CalleeByeEnds DEF i
<1>7. CASE m.kind = "CANCEL"
    <2>1. j = RxCancel(i)
        BY ONLY <1>3, <1>4, <1>7, j \in Receives(m)
    <2> QED BY <1>0, <1>2, <2>1, CalleeCancelled DEF i
<1>8. CASE m.kind = "ACK"
    <2>1. j = RxAck(i)
        BY ONLY <1>3, <1>4, <1>8, j \in Receives(m)
    <2> QED BY <1>0, <1>2, <1>8, <2>1, CalleeAcked DEF i
<1> QED BY <1>1, <1>5, <1>6, <1>7, <1>8

\* A message that leaves the network, or comes late.
Leaves(m, R, L) == (R = {m} /\ L = {} /\ m \in net) \/ (R = {} /\ L = {m} /\ m \in late)

\* The challenge of a BYE: of the two BYE requests one is the last.
LEMMA ByeChallengeComes ==
    ASSUME MaxByes >= 4, IInv, NEW m \in Flying, m.kind = "ByeChallenge", NEW j \in Receives(m),
           NEW R, NEW L, Leaves(m, R, L), Becomes(m.to, j),
           net' = (net \ R) \cup j.out, late' = late \ L, UNCHANGED <<faults, resent, asked>>
    PROVE  IInv'
<1>1. m.to \in Parties /\ inv["S"].state # "NULL"
    <2>1. Msg("S", "INVITE").kind = "INVITE" /\ Msg("C", "Challenge").kind = "Challenge"
        BY DEF Msg
    <2> QED BY <2>1, Arrives
<1>2. m \in ChallengesTo(m.to)
    BY DEF ChallengesTo
<1>3. Repeat(m.to) = 1
    BY <1>2 DEF Repeat, One
<1>4. /\ \A n \in ChallengesTo(m.to) : n = m
      /\ ByeOf(m.to) \notin asked
      /\ ~(m \in net /\ m \in late)
    BY <1>1, <1>2 DEF IInv, ChallengedOnce
<1>5. ASSUME \A n \in j.out : n.kind # "ByeChallenge"
      PROVE  Repeat(m.to)' = 0
    <2>1. ChallengesTo(m.to)' = {}
        <3>1. \A n \in ChallengesTo(m.to)' : n \in ChallengesTo(m.to) /\ (n \in net \ R \/ n \in late \ L)
            BY <1>5 DEF ChallengesTo, Flying
        <3>2. ~(m \in net \ R \/ m \in late \ L)
            BY <1>4 DEF Leaves
        <3> QED BY <1>4, <3>1, <3>2
    <2>2. ByeOf(m.to) \notin asked'
        BY <1>4
    <2> QED BY <2>1, <2>2 DEF Repeat, One
<1>6. Msg("C", "2xx") \notin R
    <2>1. Msg("C", "2xx").kind = "2xx"
        BY DEF Msg
    <2> QED BY <2>1 DEF Leaves
<1>7. CASE m.to = "C"
    <2> DEFINE i == inv["C"]
    <2>0. CallerReady(i) /\ CallerUse(i) \in Int /\ CallerUse(i) <= 3 /\ CallerStep(i, i)
        BY <1>3, <1>7, Ready, CallerStays
    <2>1. j = RxByeChallenge("C", i, m.id) \/ j = i
        BY <1>7 DEF Receives
    <2>2. CASE j = i
        BY <1>1, <1>6, <1>7, <2>0, <2>2, CallerGoes
    <2>3. CASE j = RxByeChallenge("C", i, m.id)
        <3>1. /\ j \in Session /\ CallerOK(j) /\ j.out \subseteq FromCaller
              /\ CallerUse(j) = CallerUse(i) + 1 /\ (CallerDone(i) => CallerDone(j))
              /\ \A n \in j.out : n.kind # "ACK"
            BY <2>0, <2>3, CallerByeChallenged
        <3>2. Repeat("C")' = 0
            <4>1. \A n \in j.out : n.kind # "ByeChallenge"
                BY <3>1 DEF FromCaller
            <4> QED BY <1>5, <1>7, <4>1
        <3>3. CallerUse(j) + Repeat("C")' <= 4
            BY <2>0, <3>1, <3>2
        <3>4. Becomes("C", j)
            BY <1>7
        <3> HIDE DEF i
        <3> QED BY <1>1, <1>6, <3>1, <3>3, <3>4, CallerMoves DEF i
    <2> QED BY <2>1, <2>2, <2>3
<1>8. CASE m.to = "S"
    <2> DEFINE i == inv["S"]
    <2>0. CalleeReady(i) /\ CalleeUse(i) \in Int /\ CalleeUse(i) <= 3 /\ i.byes \in Int
        <3>1. CalleeReady(i) /\ CalleeUse(i) \in Int /\ CalleeUse(i) + Repeat("S") <= 4
            BY Ready
        <3>2. i.byes \in Int
            BY <3>1, Bounds DEF CalleeReady, Session
        <3> QED BY <1>3, <1>8, <3>1, <3>2
    <2>1. (j = RxByeChallenge("S", i, m.id) /\ m.id \in i.open) \/ j = i
        BY <1>8 DEF Receives
    <2>2. CASE j = i
        <3>1. CalleeStep(i, i)
            BY <1>1, <2>0 DEF CalleeReady, CalleeStep, CalleeUse, One
        <3> QED BY <1>1, <1>6, <1>8, <2>2, <3>1, CalleeGoes
    <2>3. CASE j = RxByeChallenge("S", i, m.id) /\ m.id \in i.open
        <3>1. /\ j \in Session /\ CalleeOK(j) /\ j.state = i.state /\ j.tsx = i.tsx
              /\ CalleeUse(j) <= CalleeUse(i) + 1 /\ Heard(i)
              /\ \A n \in j.out : n \in FromCallee /\ (n.kind = "BYE" => j.byes > 0)
            BY <2>0, <2>3, CalleeByeChallenged
        <3>2. Repeat("S")' = 0
            <4>1. \A n \in j.out : n.kind # "ByeChallenge"
                BY <3>1 DEF FromCallee
            <4> QED BY <1>5, <1>8, <4>1
        <3>3. CalleeUse(j) + Repeat("S")' <= 4
            <4>1. CalleeUse(j) \in Int
                <5>1. j.byes \in Int
                    BY <3>1, Bounds DEF Session
                <5> QED BY <5>1 DEF CalleeUse, One
            <4> QED BY <2>0, <3>1, <3>2, <4>1
        <3>4. Becomes("S", j)
            BY <1>8
        <3> HIDE DEF i
        <3> QED BY <1>1, <1>6, <3>1, <3>3, <3>4, CalleeMoves DEF i
    <2> QED BY <2>1, <2>2, <2>3
<1> QED BY <1>1, <1>7, <1>8 DEF Parties

\* Nothing is left on its way when the callee has the INVITE, or the caller its challenge.
LEMMA Last ==
    ASSUME IInv, inv["S"].state = "NULL", NEW m \in Flying, NEW R, NEW L, Leaves(m, R, L)
    PROVE  net \ R = {} /\ late \ L = {}
<1>1. (\A n \in Flying : n = m) /\ net \cap late = {}
    BY DEF IInv, Unborn
<1> QED BY <1>1 DEF Leaves, Flying

\* The challenge of the INVITE.
LEMMA ChallengeComes ==
    ASSUME MaxByes >= 4, IInv, NEW m \in Flying, m.kind = "Challenge", NEW j \in Receives(m),
           NEW R, NEW L, Leaves(m, R, L), Becomes(m.to, j),
           net' = (net \ R) \cup j.out, late' = late \ L, UNCHANGED <<faults, resent, asked>>
    PROVE  IInv'
<1> DEFINE i == inv["C"]
<1>1. inv["S"].state = "NULL" /\ m.to = "C"
    BY Arrives DEF IInv, Born, Routed, ToCaller
<1>2. net \ R = {} /\ late \ L = {}
    BY <1>1, Last
<1>3. /\ i.byes = 0 /\ i.open = {} /\ i.cancel = "None"
      /\ \/ i.state = "CALLING" /\ i.tsx = "Calling"
         \/ i.state = "DISCONNECTED" /\ i.tsx = "Ended"
    BY <1>1 DEF IInv, Unborn
<1>4. CallerReady(i) /\ i \in Session /\ CallerOK(i) /\ i.out = {} /\ CallerUse(i) \in Int
    BY Ready DEF CallerReady
<1>5. Becomes("C", j)
    BY <1>1
<1>6. j = IF i.tsx \in {"Calling", "Proceeding"} THEN RxChallenge(i) ELSE i
    BY <1>1 DEF Receives, CallerReceives
<1>7. CASE i.tsx = "Ended"
    <2>1. j = i
        BY <1>6, <1>7
    <2> QED BY ONLY <1>1, <1>3, <1>4, <1>5, <1>7, <2>1, CallerAlone, IInv,
                    net' = (net \ R) \cup j.out, late' = late \ L, UNCHANGED <<faults, resent, asked>>
<1>8. CASE i.state = "CALLING" /\ i.tsx = "Calling"
    <2>1. j = RxChallenge(i)
        BY <1>6, <1>8
    <2>2. /\ j \in Session /\ CallerOK(j) /\ CallerUse(j) <= CallerUse(i)
          /\ j.byes = i.byes /\ j.open = i.open /\ j.cancel = i.cancel
          /\ \/ j.state = "CALLING" /\ j.tsx = "Calling" /\ j.out = {Msg("S", "INVITE")}
             \/ j.state = "DISCONNECTED" /\ j.tsx = "Ended" /\ j.out = {}
        BY <1>4, <1>8, <2>1, CallerChallenged
    <2> QED BY ONLY <1>1, <1>2, <1>3, <1>5, <2>2, CallerAlone, IInv,
                    net' = (net \ R) \cup j.out, late' = late \ L, UNCHANGED <<faults, resent, asked>>
<1> QED BY <1>3, <1>7, <1>8

\* The INVITE.
LEMMA InviteComes ==
    ASSUME MaxByes >= 4, IInv, NEW m \in Flying, m.kind = "INVITE", NEW j \in Receives(m),
           NEW R, NEW L, Leaves(m, R, L), Becomes(m.to, j),
           net' = (net \ R) \cup j.out, late' = late \ L, UNCHANGED <<faults, resent, asked>>
    PROVE  IInv'
<1> DEFINE i == inv["S"]
<1>1. i.state = "NULL" /\ m.to = "S" /\ i.tsx = "None"
    BY DEF IInv, Born, Routed, ToCallee, Unborn, Idle
<1>2. net \ R = {} /\ late \ L = {}
    BY <1>1, Last
<1>3. CalleeReady(i)
    BY Ready
<1>4. j = Send([i EXCEPT !.state = "INCOMING", !.tsx = "Proceeding"], Msg("C", "100"))
    BY <1>1 DEF Receives, CalleeReceives
<1>5. CalleeStep(i, j) /\ (Heard(j) => Heard(i))
    BY <1>1, <1>3, <1>4, CalleeResponds
<1>6. Msg("C", "2xx") \notin R
    <2>1. Msg("C", "2xx").kind = "2xx"
        BY DEF Msg
    <2> QED BY <2>1 DEF Leaves
<1>7. Becomes("S", j)
    BY <1>1
<1> QED BY <1>2, <1>5, <1>6, <1>7, CalleeGoes

\* Any message.
LEMMA Received ==
    ASSUME MaxByes >= 4, IInv, NEW m \in Flying, NEW j \in Receives(m),
           NEW R, NEW L, Leaves(m, R, L), Becomes(m.to, j),
           net' = (net \ R) \cup j.out, late' = late \ L, UNCHANGED <<faults, resent, asked>>
    PROVE  IInv'
<1>1. m.to \in Parties /\ (m.to = "C" => m.kind \notin ToCallee) /\ (m.to = "S" => m.kind \notin ToCaller)
    BY Arrives
<1>2. CASE m.kind \in {"INVITE", "Challenge", "ByeChallenge"}
    BY <1>2, InviteComes, ChallengeComes, ByeChallengeComes
<1>3. CASE m.kind \notin {"INVITE", "Challenge", "ByeChallenge"}
    <2>0. inv["S"].state # "NULL"
        <3>1. Msg("S", "INVITE").kind = "INVITE" /\ Msg("C", "Challenge").kind = "Challenge"
            BY DEF Msg
        <3> QED BY <1>3, <3>1, Arrives
    <2>1. CASE m.to = "C"
        <3>1. CallerStep(inv["C"], j) /\ (m.kind = "2xx" => CallerDone(j))
            BY <1>3, <2>1, CallerGets
        <3>2. Msg("C", "2xx") \in R => CallerDone(j)
            <4>1. Msg("C", "2xx").kind = "2xx"
                BY DEF Msg
            <4> QED BY <3>1, <4>1 DEF Leaves
        <3>3. Becomes("C", j)
            BY <2>1
        <3> QED BY ONLY <2>0, <3>1, <3>2, <3>3, CallerGoes, IInv,
                        net' = (net \ R) \cup j.out, late' = late \ L, UNCHANGED <<faults, resent, asked>>
    <2>2. CASE m.to = "S"
        <3>1. CalleeStep(inv["S"], j) /\ (m.kind # "ACK" => (Heard(j) => Heard(inv["S"])))
            BY <1>3, <2>2, CalleeGets
        <3>2. Msg("C", "2xx") \notin R
            <4>1. Msg("C", "2xx").to = "C"
                BY DEF Msg
            <4> QED BY <2>2, <4>1 DEF Leaves
        <3>3. faults = MaxFaults /\ Heard(j) => Heard(inv["S"]) \/ CallerDone(inv["C"])
            <4>1. faults = MaxFaults /\ m.kind = "ACK" => CallerDone(inv["C"])
                BY DEF IInv, Acknowledged, Flying
            <4> QED BY <3>1, <4>1
        <3>4. Becomes("S", j)
            BY <2>2
        <3> QED BY ONLY <2>0, <3>1, <3>2, <3>3, <3>4, CalleeGoes, IInv,
                        net' = (net \ R) \cup j.out, late' = late \ L, UNCHANGED <<faults, resent, asked>>
    <2> QED BY <1>1, <2>1, <2>2 DEF Parties
<1> QED BY <1>2, <1>3

-------------------------------------------------------------------------------
(* The actions.                                                            *)

\* A step that takes no message from the network.
LEMMA StepIs ==
    ASSUME NEW p, NEW j, Step(p, j)
    PROVE  /\ Becomes(p, j) /\ net' = (net \ {}) \cup j.out /\ late' = late \ {}
           /\ UNCHANGED <<faults, resent, asked>>
<1>1. net \ {} = net /\ late \ {} = late
    OBVIOUS
<1> QED BY <1>1 DEF Step

LEMMA CallerSteps ==
    ASSUME IInv, inv["S"].state # "NULL", NEW j, CallerStep(inv["C"], j), Step("C", j)
    PROVE  IInv'
<1> DEFINE R == {}
           L == {}
<1>1. /\ Becomes("C", j) /\ net' = (net \ R) \cup j.out /\ late' = late \ L
      /\ UNCHANGED <<faults, resent, asked>>
    BY StepIs
<1>2. Msg("C", "2xx") \in R => CallerDone(j)
    OBVIOUS
<1> HIDE DEF R, L
<1> QED BY <1>1, <1>2, CallerGoes

LEMMA CallerHangsUp ==
    ASSUME MaxByes >= 4, IInv, Hangup("C")
    PROVE  IInv'
<1> DEFINE i == inv["C"]
           code == IF i.state = "CONFIRMED" THEN 200 ELSE 487
           j == EndSession("C", [i EXCEPT !.hanging_up = TRUE], code)
<1>1. i.state \notin {"NULL", "DISCONNECTED"} /\ ~i.hanging_up /\ Step("C", j)
    BY DEF Hangup
<1>2. code \in Codes
    BY DEF Codes
<1> HIDE DEF code
<1>3. CallerReady(i) /\ CallerOK(i)
    BY Ready DEF CallerReady
<1>4. /\ CallerStep(i, j)
      /\ i.state = "CALLING" /\ i.tsx = "Calling" =>
            /\ j.state = "CALLING" /\ j.tsx = "Calling"
            /\ j.out = {} /\ j.byes = i.byes /\ j.open = i.open /\ j.cancel = i.cancel
    BY <1>1, <1>2, <1>3, CallerHangup
<1> HIDE DEF j
<1>5. /\ Becomes("C", j) /\ net' = (net \ {}) \cup j.out /\ late' = late \ {}
      /\ UNCHANGED <<faults, resent, asked>>
    BY <1>1, StepIs
<1>6. CASE inv["S"].state # "NULL"
    <2>1. Msg("C", "2xx") \notin {}
        OBVIOUS
    <2> QED BY ONLY <1>4, <1>5, <1>6, <2>1, CallerGoes, IInv
<1>7. CASE inv["S"].state = "NULL"
    <2>1. i.byes = 0 /\ i.open = {} /\ i.cancel = "None" /\ i.state = "CALLING" /\ i.tsx = "Calling"
        BY <1>1, <1>7 DEF IInv, Unborn
    <2>2. j \in Session /\ CallerOK(j) /\ CallerUse(j) <= CallerUse(i)
        BY <1>4 DEF CallerStep
    <2> QED BY ONLY <1>4, <1>5, <1>7, <2>1, <2>2, CallerAlone, IInv
<1> QED BY <1>6, <1>7

LEMMA CalleeHangsUp ==
    ASSUME MaxByes >= 4, IInv, Hangup("S")
    PROVE  IInv'
<1> DEFINE i == inv["S"]
           code == IF i.state = "CONFIRMED" THEN 200 ELSE 603
           j == EndSession("S", [i EXCEPT !.hanging_up = TRUE], code)
<1>1. i.state \notin {"NULL", "DISCONNECTED"} /\ ~i.hanging_up /\ Step("S", j)
    BY DEF Hangup
<1>2. code \in Codes /\ (i.state # "CONFIRMED" => code = 603)
    BY DEF Codes
<1> HIDE DEF code
<1>3. CalleeReady(i)
    BY Ready
<1>4. CalleeStep(i, j) /\ (Heard(j) => Heard(i))
    BY <1>1, <1>2, <1>3, CalleeHangup
<1> HIDE DEF j
<1>5. /\ Becomes("S", j) /\ net' = (net \ {}) \cup j.out /\ late' = late \ {}
      /\ UNCHANGED <<faults, resent, asked>>
    BY <1>1, StepIs
<1>6. inv["S"].state # "NULL" /\ Msg("C", "2xx") \notin {}
    BY <1>1
<1> QED BY ONLY <1>4, <1>5, <1>6, CalleeGoes, IInv

LEMMA Rings ==
    ASSUME MaxByes >= 4, IInv, Ring
    PROVE  IInv'
<1> DEFINE i == inv["S"]
           j == Send([i EXCEPT !.state = "EARLY"], Msg("C", "180"))
<1>1. i.state = "INCOMING" /\ Step("S", j) /\ CalleeReady(i)
    BY Ready DEF Ring
<1>2. i \in Session /\ i.tsx = "Proceeding"
    BY <1>1 DEF CalleeReady, CalleeOK
<1>3. [i EXCEPT !.state = "EARLY"] = [i EXCEPT !.state = "EARLY", !.tsx = "Proceeding"]
    BY <1>2 DEF Session
<1>4. j = Send([i EXCEPT !.state = "EARLY", !.tsx = "Proceeding"], Msg("C", "180"))
    BY <1>3
<1> HIDE DEF j
<1>5. CalleeStep(i, j) /\ (Heard(j) => Heard(i))
    BY <1>1, <1>2, <1>4, CalleeResponds
<1>6. /\ Becomes("S", j) /\ net' = (net \ {}) \cup j.out /\ late' = late \ {}
      /\ UNCHANGED <<faults, resent, asked>>
    BY <1>1, StepIs
<1>7. inv["S"].state # "NULL" /\ Msg("C", "2xx") \notin {}
    BY <1>1
<1> QED BY ONLY <1>5, <1>6, <1>7, CalleeGoes, IInv

LEMMA Answers ==
    ASSUME MaxByes >= 4, IInv, Answer
    PROVE  IInv'
<1> DEFINE i == inv["S"]
           j == Send([i EXCEPT !.state = "CONNECTING", !.tsx = "Accepted"], Msg("C", "2xx"))
<1>1. i.state \in {"INCOMING", "EARLY"} /\ Step("S", j) /\ CalleeReady(i)
    BY Ready DEF Answer
<1>2. i.tsx = "Proceeding"
    BY <1>1 DEF CalleeReady, CalleeOK
<1>3. CalleeStep(i, j) /\ (Heard(j) => Heard(i))
    BY <1>1, <1>2, CalleeResponds
<1> HIDE DEF j
<1>4. /\ Becomes("S", j) /\ net' = (net \ {}) \cup j.out /\ late' = late \ {}
      /\ UNCHANGED <<faults, resent, asked>>
    BY <1>1, StepIs
<1>5. inv["S"].state # "NULL" /\ Msg("C", "2xx") \notin {}
    BY <1>1
<1> QED BY ONLY <1>3, <1>4, <1>5, CalleeGoes, IInv

LEMMA Delivers ==
    ASSUME MaxByes >= 4, IInv, NEW m \in net, Deliver(m)
    PROVE  IInv'
<1>1. m \in Flying
    BY DEF Flying
<1>2. PICK j \in Receives(m) : Becomes(m.to, j) /\ net' = (net \ {m}) \cup j.out
    BY DEF Deliver
<1>3. late' = late \ {} /\ UNCHANGED <<faults, resent, asked>>
    BY DEF Deliver
<1>4. Leaves(m, {m}, {})
    BY DEF Leaves
<1> QED BY ONLY <1>1, <1>2, <1>3, <1>4, Received, MaxByes >= 4, IInv

LEMMA DeliversLate ==
    ASSUME MaxByes >= 4, IInv, NEW m \in late, DeliverLate(m)
    PROVE  IInv'
<1>1. m \in Flying
    BY DEF Flying
<1>2. PICK j \in Receives(m) : Becomes(m.to, j) /\ net' = net \cup j.out
    BY DEF DeliverLate
<1>3. late' = late \ {m} /\ net' = (net \ {}) \cup j.out /\ UNCHANGED <<faults, resent, asked>>
    BY <1>2 DEF DeliverLate
<1>4. Leaves(m, {}, {m})
    BY DEF Leaves
<1> QED BY ONLY <1>1, <1>2, <1>3, <1>4, Received, MaxByes >= 4, IInv

LEMMA Delays ==
    ASSUME IInv, NEW m \in net, Delay(m)
    PROVE  IInv'
<1>1. /\ faults > 0 /\ net' = net \ {m} /\ late' = late \cup {m} /\ faults' = faults - 1
      /\ inv' = inv /\ resent' = resent /\ asked' = asked
    BY DEF Delay
<1>2. Flying' = Flying
    BY <1>1 DEF Flying
<1>3. faults \in 0 .. MaxFaults /\ faults' \in 0 .. MaxFaults /\ faults' # MaxFaults
    BY <1>1, Bounds DEF IInv, TypeOK
<1>4. TypeOK'
    BY <1>1, <1>3 DEF IInv, TypeOK
<1>5. CallerOK(inv["C"])' /\ CalleeOK(inv["S"])'
    BY <1>1 DEF IInv
<1>6. Unborn'
    <2> SUFFICES ASSUME inv["S"].state = "NULL"
                 PROVE  net' \cap late' = {}
        BY <1>1, <1>2 DEF IInv, Unborn
    <2>1. net \cap late = {}
        BY DEF IInv, Unborn
    <2> QED BY <1>1, <2>1
<1>7. Born' /\ Routed'
    BY <1>1, <1>2 DEF IInv, Born, Routed
<1>8. \A p \in Parties : ChallengesTo(p)' = ChallengesTo(p)
    BY <1>2 DEF ChallengesTo
<1>9. ChallengedOnce'
    <2>1. \A p \in Parties : ByeOf(p) \in asked' => ChallengesTo(p)' = {}
        BY <1>1, <1>8 DEF IInv, ChallengedOnce
    <2>2. \A p \in Parties : \A n, o \in ChallengesTo(p)' : n = o
        BY <1>8 DEF IInv, ChallengedOnce
    <2>3. \A p \in Parties : \A n \in ChallengesTo(p)' : ~(n \in net' /\ n \in late')
        BY <1>1, <1>8 DEF IInv, ChallengedOnce
    <2> QED BY <2>1, <2>2, <2>3 DEF ChallengedOnce
<1>10. Budget'
    BY <1>1, <1>8 DEF IInv, Budget, Repeat, Parties
<1>11. Acknowledged'
    BY <1>3 DEF Acknowledged
<1> QED BY <1>4, <1>5, <1>6, <1>7, <1>9, <1>10, <1>11 DEF IInv

\* The proxy challenges the INVITE.
LEMMA InviteChallenged ==
    ASSUME IInv, NEW m \in net, m.kind = "INVITE", Challenge(m)
    PROVE  IInv'
<1> DEFINE c == Msg("C", "Challenge")
<1>1. inv["S"].state = "NULL" /\ m.to = "S"
    BY DEF IInv, Born, Routed, ToCallee, Flying
<1>2. /\ inv["S"] = Idle /\ Flying \subseteq {Msg("S", "INVITE"), Msg("C", "Challenge")}
      /\ (\A n \in Flying : n = m) /\ net \cap late = {}
      /\ inv["C"].byes = 0 /\ inv["C"].open = {} /\ inv["C"].cancel = "None"
      /\ \/ inv["C"].state = "CALLING" /\ inv["C"].tsx = "Calling"
         \/ inv["C"].state = "DISCONNECTED" /\ inv["C"].tsx = "Ended"
    BY <1>1 DEF IInv, Unborn, Flying
<1>3. m = Msg("S", "INVITE")
    <2>1. Msg("C", "Challenge").kind = "Challenge" /\ m \in Flying
        BY DEF Msg, Flying
    <2> QED BY <1>2, <2>1
<1>4. net' = {c} /\ late' = {}
    <2>1. net \ {m} = {} /\ late = {}
        BY <1>2 DEF Flying
    <2>2. m.id = 0 /\ Other(m.to) = "C"
        BY <1>1, <1>3 DEF Msg, Other
    <2>3. net' = (net \ {m}) \cup {[to |-> "C", kind |-> "Challenge", id |-> 0]} /\ late' = late
        BY <2>2 DEF Challenge
    <2> QED BY <2>1, <2>3 DEF Msg
<1>5. /\ c \in Messages /\ c.kind = "Challenge" /\ c.to = "C"
    BY Plain DEF Parties, Kinds
<1>6. inv' = inv /\ faults' = faults /\ resent' = resent /\ asked' = asked \ {"INVITE"}
    BY DEF Challenge, Request
<1> HIDE DEF c
<1>7. Flying' = {c}
    BY <1>4 DEF Flying
<1>8. TypeOK'
    BY <1>4, <1>5, <1>6 DEF IInv, TypeOK
<1>9. CallerOK(inv["C"])' /\ CalleeOK(inv["S"])'
    BY <1>6 DEF IInv
<1>10. Unborn'
    BY <1>2, <1>4, <1>6, <1>7 DEF Unborn, c
<1>11. Born' /\ Routed'
    BY <1>1, <1>5, <1>6, <1>7 DEF Born, Routed, ToCaller, ToCallee
<1>12. \A p \in Parties : ChallengesTo(p)' = {}
    BY <1>5, <1>7 DEF ChallengesTo
<1>13. ChallengedOnce'
    BY <1>12 DEF ChallengedOnce
<1>14. Budget'
    <2>1. \A p \in Parties : Repeat(p)' \in {0, 1} /\ Repeat(p) \in {0, 1} /\ Repeat(p)' <= Repeat(p)
        BY <1>6, <1>12 DEF Repeat, One
    <2>2. /\ CallerUse(inv["C"]) \in Int /\ CalleeUse(inv["S"]) \in Int
          /\ CallerUse(inv["C"]) + Repeat("C") <= 4 /\ CalleeUse(inv["S"]) + Repeat("S") <= 4
        BY Ready
    <2>3. CallerUse(inv["C"]) + Repeat("C")' <= 4 /\ CalleeUse(inv["S"]) + Repeat("S")' <= 4
        BY <2>1, <2>2 DEF Parties
    <2> QED BY <1>6, <2>3 DEF Budget
<1>15. Acknowledged'
    <2>1. ~Heard(inv["S"])' /\ inv["S"].tsx' = "None"
        BY <1>2, <1>6 DEF Heard, Idle, Timeout
    <2> QED BY <1>4, <1>5, <2>1 DEF Acknowledged
<1> QED BY <1>8, <1>9, <1>10, <1>11, <1>13, <1>14, <1>15 DEF IInv

\* Or a BYE, once.
LEMMA ByeChallenged ==
    ASSUME IInv, NEW m \in net, m.kind = "BYE", Challenge(m)
    PROVE  IInv'
<1> DEFINE p == Other(m.to)
           c == [to |-> p, kind |-> "ByeChallenge", id |-> m.id]
<1>0. m \in Flying /\ m \in Messages /\ m.to \in Parties /\ m.id \in 0 .. MaxByes
    BY Arrives DEF Flying
<1>1. p \in Parties /\ Request(m) = ByeOf(p)
    BY <1>0 DEF Parties, Other, Request, ByeOf
<1>2. c \in Messages /\ c.kind = "ByeChallenge" /\ c.to = p
    BY <1>0, <1>1 DEF Messages, Kinds
<1>3. /\ net' = (net \ {m}) \cup {c} /\ late' = late /\ inv' = inv /\ faults' = faults /\ resent' = resent
      /\ ByeOf(p) \in asked /\ asked' = asked \ {ByeOf(p)}
    BY <1>1 DEF Challenge
<1> HIDE DEF c, p
<1>4. inv["S"].state # "NULL"
    <2>1. Msg("S", "INVITE").kind = "INVITE" /\ Msg("C", "Challenge").kind = "Challenge"
        BY DEF Msg
    <2> QED BY <1>0, <2>1, Arrives
<1>5. \A n \in Flying' : n \in Flying \/ n = c
    BY <1>3 DEF Flying
<1>6. TypeOK'
    BY <1>2, <1>3 DEF IInv, TypeOK
<1>7. CallerOK(inv["C"])' /\ CalleeOK(inv["S"])'
    BY <1>3 DEF IInv
<1>8. Unborn' /\ Born' /\ Routed'
    <2>1. Unborn'
        BY <1>3, <1>4 DEF Unborn
    <2>2. Born'
        BY <1>2, <1>3, <1>5 DEF IInv, Born
    <2>3. Routed'
        BY <1>2, <1>5 DEF IInv, Routed, ToCaller, ToCallee
    <2> QED BY <2>1, <2>2, <2>3
<1>9. ChallengesTo(p) = {} /\ c \notin Flying
    <2>1. ChallengesTo(p) = {}
        BY <1>1, <1>3 DEF IInv, ChallengedOnce
    <2> QED BY <1>2, <2>1 DEF ChallengesTo
<1>10. ChallengesTo(p)' \subseteq {c}
    BY <1>5, <1>9 DEF ChallengesTo
<1>11. \A q \in Parties \ {p} : ChallengesTo(q)' \subseteq ChallengesTo(q) /\ ByeOf(q) # ByeOf(p)
    BY <1>1, <1>2, <1>5 DEF ChallengesTo, ByeOf, Parties
<1>12. ChallengedOnce'
    <2> SUFFICES ASSUME NEW q \in Parties
                 PROVE  /\ ByeOf(q) \in asked' => ChallengesTo(q)' = {}
                        /\ \A n, o \in ChallengesTo(q)' : n = o
                        /\ \A n \in ChallengesTo(q)' : ~(n \in net' /\ n \in late')
        BY DEF ChallengedOnce
    <2>1. CASE q = p
        <3>1. ByeOf(p) \notin asked'
            BY <1>3
        <3>2. c \notin late'
            BY <1>3, <1>9 DEF Flying
        <3> QED BY <1>10, <2>1, <3>1, <3>2
    <2>2. CASE q # p
        <3>1. /\ ByeOf(q) \in asked => ChallengesTo(q) = {}
              /\ \A n, o \in ChallengesTo(q) : n = o
              /\ \A n \in ChallengesTo(q) : ~(n \in net /\ n \in late)
            BY DEF IInv, ChallengedOnce
        <3>2. ChallengesTo(q)' \subseteq ChallengesTo(q)
            BY <1>11, <2>2
        <3>3. \A n \in ChallengesTo(q)' : n # c
            BY <1>9, <3>2 DEF ChallengesTo
        <3> QED BY <1>3, <3>1, <3>2, <3>3
    <2> QED BY <2>1, <2>2
<1>13. Budget'
    <2>1. Repeat(p) = 1 /\ \A q \in Parties : Repeat(q)' \in {0, 1} /\ Repeat(q) \in {0, 1}
        BY <1>1, <1>3 DEF Repeat, One
    <2>2. \A q \in Parties \ {p} : Repeat(q)' <= Repeat(q)
        <3> SUFFICES ASSUME NEW q \in Parties \ {p}
                     PROVE  Repeat(q)' <= Repeat(q)
            OBVIOUS
        <3>1. (ByeOf(q) \in asked' \/ ChallengesTo(q)' # {}) => (ByeOf(q) \in asked \/ ChallengesTo(q) # {})
            BY <1>3, <1>11
        <3> QED BY <3>1 DEF Repeat, One
    <2>3. Repeat("C")' <= Repeat("C") /\ Repeat("S")' <= Repeat("S")
        BY <2>1, <2>2 DEF Parties
    <2>4. /\ CallerUse(inv["C"]) \in Int /\ CalleeUse(inv["S"]) \in Int
          /\ CallerUse(inv["C"]) + Repeat("C") <= 4 /\ CalleeUse(inv["S"]) + Repeat("S") <= 4
        BY Ready
    <2>5. CallerUse(inv["C"]) + Repeat("C")' <= 4 /\ CalleeUse(inv["S"]) + Repeat("S")' <= 4
        BY <2>1, <2>3, <2>4 DEF Parties
    <2> QED BY <1>3, <2>5 DEF Budget
<1>14. Acknowledged'
    <2>1. Msg("C", "2xx").kind = "2xx"
        BY DEF Msg
    <2> QED BY <1>2, <1>3, <2>1 DEF IInv, Acknowledged
<1> QED BY <1>6, <1>7, <1>8, <1>12, <1>13, <1>14 DEF IInv

LEMMA Challenges ==
    ASSUME IInv, NEW m \in net, Challenge(m)
    PROVE  IInv'
<1>1. Request(m) \in {"INVITE", "caller BYE", "callee BYE"}
    BY InvCallAssumption DEF Challenge, IInv, TypeOK
<1>2. m.kind \in {"INVITE", "BYE"}
    BY <1>1 DEF Request
<1> QED BY <1>2, InviteChallenged, ByeChallenged

LEMMA Retransmits ==
    ASSUME IInv, Retransmit
    PROVE  IInv'
<1> DEFINE c == Msg("C", "2xx")
<1>1. /\ c \in Messages /\ c.kind = "2xx" /\ c.to = "C"
    BY Plain DEF Parties, Kinds
<1>2. /\ inv["S"].tsx = "Accepted" /\ resent < MaxRetransmits /\ resent' = resent + 1 /\ net' = net \cup {c}
      /\ late' = late /\ inv' = inv /\ faults' = faults /\ asked' = asked
    BY DEF Retransmit
<1> HIDE DEF c
<1>3. resent' \in 0 .. MaxRetransmits
    BY <1>2, Bounds DEF IInv, TypeOK
<1>4. inv["S"].state # "NULL"
    BY <1>2 DEF IInv, Unborn, Idle
<1>5. \A n \in Flying' : n \in Flying \/ n = c
    BY <1>2 DEF Flying
<1>6. TypeOK'
    BY <1>1, <1>2, <1>3 DEF IInv, TypeOK
<1>7. CallerOK(inv["C"])' /\ CalleeOK(inv["S"])'
    BY <1>2 DEF IInv
<1>8. Unborn' /\ Born' /\ Routed'
    <2>1. Unborn'
        BY <1>2, <1>4 DEF Unborn
    <2>2. Born'
        BY <1>1, <1>2, <1>5 DEF IInv, Born
    <2>3. Routed'
        BY <1>1, <1>5 DEF IInv, Routed, ToCaller, ToCallee
    <2> QED BY <2>1, <2>2, <2>3
<1>9. \A p \in Parties : ChallengesTo(p)' \subseteq ChallengesTo(p)
    BY <1>1, <1>5 DEF ChallengesTo
<1>10. ChallengedOnce'
    <2>1. \A n : n \in net' /\ n.kind = "ByeChallenge" => n \in net
        BY <1>1, <1>2
    <2> QED BY <1>2, <1>9, <2>1, StillChallengedOnce DEF IInv
<1>11. Budget'
    <2>1. \A p \in Parties : Repeat(p)' <= Repeat(p) /\ Repeat(p) \in {0, 1} /\ Repeat(p)' \in {0, 1}
        BY <1>2, <1>9, Repeats
    <2>2. /\ CallerUse(inv["C"]) \in Int /\ CalleeUse(inv["S"]) \in Int
          /\ CallerUse(inv["C"]) + Repeat("C") <= 4 /\ CalleeUse(inv["S"]) + Repeat("S") <= 4
        BY Ready
    <2>3. CallerUse(inv["C"]) + Repeat("C")' <= 4 /\ CalleeUse(inv["S"]) + Repeat("S")' <= 4
        BY <2>1, <2>2 DEF Parties
    <2> QED BY <1>2, <2>3 DEF Budget
<1>12. Acknowledged'
    BY <1>1, <1>2 DEF IInv, Acknowledged
<1> QED BY <1>6, <1>7, <1>8, <1>10, <1>11, <1>12 DEF IInv

\* The timer of the INVITE transaction.
LEMMA InviteTimer ==
    ASSUME MaxByes >= 4, IInv, InviteTimesOut
    PROVE  IInv'
<1> DEFINE i == inv["C"]
           j == RxFailure(i, Timeout)
<1>1. Step("C", j) /\ CallerReady(i) /\ Timeout \in Codes
    BY Ready DEF InviteTimesOut, Timeout, Codes
<1>2. CallerStep(i, j) /\ j.state = "DISCONNECTED" /\ j.tsx = "Ended" /\ j.out = {}
      /\ j.byes = i.byes /\ j.open = i.open /\ j.cancel = i.cancel
    BY <1>1, CallerFails
<1> HIDE DEF j
<1>3. /\ Becomes("C", j) /\ net' = (net \ {}) \cup j.out /\ late' = late \ {}
      /\ UNCHANGED <<faults, resent, asked>>
    BY <1>1, StepIs
<1>4. CASE inv["S"].state # "NULL"
    <2>1. Msg("C", "2xx") \notin {}
        OBVIOUS
    <2> QED BY ONLY <1>2, <1>3, <1>4, <2>1, CallerGoes, IInv
<1>5. CASE inv["S"].state = "NULL"
    <2>1. i.byes = 0 /\ i.open = {} /\ i.cancel = "None"
        BY <1>5 DEF IInv, Unborn
    <2>2. j \in Session /\ CallerOK(j) /\ CallerUse(j) <= CallerUse(i)
        BY <1>2 DEF CallerStep
    <2> QED BY ONLY <1>2, <1>3, <1>5, <2>1, <2>2, CallerAlone, IInv
<1> QED BY <1>4, <1>5

\* Of the CANCEL.
LEMMA CancelTimer ==
    ASSUME MaxByes >= 4, IInv, CancelTimesOut
    PROVE  IInv'
<1> DEFINE i == inv["C"]
           e == [i EXCEPT !.cancel = "Ended"]
           j == IF e.state = "CALLING" THEN Disconnect(e, Timeout) ELSE UacTimeout("C", e)
<1>1. i.cancel = "Pending" /\ Step("C", j) /\ CallerReady(i)
    BY Ready DEF CancelTimesOut
<1>2. CallerStep(i, j)
    BY <1>1, CallerCancelTimesOut
<1> HIDE DEF j
<1>3. inv["S"].state # "NULL"
    BY <1>1 DEF IInv, Unborn
<1>4. CallerStep(inv["C"], j)
    BY <1>2
<1> QED BY <1>1, <1>3, <1>4, CallerSteps

\* Of a BYE.
LEMMA ByeTimer ==
    ASSUME IInv, NEW p \in Parties, ByeTimesOut(p)
    PROVE  IInv'
<1>1. PICK id \in inv[p].open : Step(p, RxByeDone(inv[p], id))
    BY DEF ByeTimesOut
<1> DEFINE j == RxByeDone(inv[p], id)
<1>2. /\ Becomes(p, j) /\ net' = (net \ {}) \cup j.out /\ late' = late \ {}
      /\ UNCHANGED <<faults, resent, asked>>
    BY <1>1, StepIs
<1>3. inv["S"].state # "NULL" /\ Msg("C", "2xx") \notin {}
    <2>1. ASSUME inv["S"].state = "NULL"
          PROVE  FALSE
        <3>1. inv["S"].open = {} /\ inv["C"].open = {}
            BY <2>1 DEF IInv, Unborn, Idle
        <3> QED BY <1>1, <3>1 DEF Parties
    <2> QED BY <2>1
<1>4. CASE p = "C"
    <2>1. CallerStep(inv["C"], j)
        BY <1>4, Ready, CallerByeEnds
    <2>2. Step("C", j)
        BY <1>1, <1>4
    <2> QED BY <1>3, <2>1, <2>2, CallerSteps
<1>5. CASE p = "S"
    <2>1. CalleeStep(inv["S"], j) /\ (Heard(j) => Heard(inv["S"]))
        <3>1. CalleeReady(inv["S"]) /\ j = RxByeDone(inv["S"], id)
            BY <1>5, Ready
        <3> HIDE DEF j
        <3> QED BY ONLY <3>1, CalleeByeEnds
    <2> HIDE DEF j
    <2>2. Becomes("S", j)
        BY <1>2, <1>5
    <2> QED BY ONLY <1>2, <1>3, <2>1, <2>2, CalleeGoes, IInv
<1> QED BY <1>4, <1>5 DEF Parties

\* Of the 2xx.
LEMMA AckTimer ==
    ASSUME MaxByes >= 4, IInv, AckTimesOut
    PROVE  IInv'
<1> DEFINE i == inv["S"]
           j == AckTimeout(i)
<1>1. i.tsx = "Accepted" /\ Quiet({"2xx", "ACK"}, 0) /\ Step("S", j) /\ CalleeReady(i)
    BY Ready DEF AckTimesOut
<1>2. i.state # "NULL" /\ Msg("C", "2xx") \notin {}
    BY <1>1 DEF IInv, Unborn, Idle
<1>3. CalleeStep(i, j)
    BY <1>1, <1>2, CalleeGivesUp
<1> HIDE DEF j
<1>4. /\ Becomes("S", j) /\ net' = (net \ {}) \cup j.out /\ late' = late \ {}
      /\ UNCHANGED <<faults, resent, asked>>
    BY <1>1, StepIs
<1>5. faults = MaxFaults => CallerDone(inv["C"])
    <2>1. Msg("C", "2xx") \notin net
        BY <1>1 DEF Quiet, Msg
    <2> QED BY <1>1, <2>1 DEF IInv, Acknowledged
<1> QED BY ONLY <1>2, <1>3, <1>4, <1>5, CalleeGoes, IInv

-------------------------------------------------------------------------------
(* The theorems.                                                           *)

LEMMA Begins ==
    ASSUME Init
    PROVE  IInv
<1> DEFINE c == [Idle EXCEPT !.state = "CALLING", !.tsx = "Calling"]
           m == Msg("S", "INVITE")
<1>1. Idle \in Session
    BY Bounds DEF Idle, Session, States, Codes
<1>2. c \in Session
    BY <1>1 DEF Session, States
<1>3. /\ c.state = "CALLING" /\ c.tsx = "Calling" /\ ~c.hanging_up /\ ~c.pending_cancel /\ c.cancel = "None"
      /\ c.byes = 0 /\ c.open = {} /\ c.out = {}
    BY DEF Idle
<1>4. /\ Idle.state = "NULL" /\ Idle.tsx = "None" /\ ~Idle.hanging_up /\ ~Idle.pending_bye /\ Idle.byes = 0
      /\ Idle.open = {} /\ Idle.out = {} /\ Idle.cause = 0
    BY DEF Idle
<1>5. /\ inv = [p \in Parties |-> IF p = "C" THEN c ELSE Idle]
      /\ net = {m} /\ late = {} /\ faults = MaxFaults /\ resent = 0 /\ asked = Challenged
    BY DEF Init
<1>6. m \in Messages /\ m.kind = "INVITE" /\ m.to = "S"
    BY Plain DEF Parties, Kinds
<1> HIDE DEF c, m
<1>7. inv["C"] = c /\ inv["S"] = Idle /\ Flying = {m}
    BY <1>5 DEF Parties, Flying
<1>8. TypeOK
    BY <1>1, <1>2, <1>3, <1>4, <1>5, <1>6, Bounds DEF TypeOK, Parties
<1>9. CallerOK(inv["C"]) /\ CalleeOK(inv["S"])
    BY ONLY <1>3, <1>4, <1>7 DEF CallerOK, CalleeOK
<1>10. Unborn
    BY <1>3, <1>5, <1>7 DEF Unborn, m
<1>11. Born /\ Routed
    BY <1>4, <1>6, <1>7 DEF Born, Routed, ToCaller, ToCallee
<1>12. \A p \in Parties : ChallengesTo(p) = {}
    BY <1>6, <1>7 DEF ChallengesTo
<1>13. ChallengedOnce
    BY <1>12 DEF ChallengedOnce
<1>14. Budget
    <2>1. \A p \in Parties : Repeat(p) \in {0, 1}
        BY DEF Repeat, One
    <2>2. CallerUse(inv["C"]) = 3 /\ CalleeUse(inv["S"]) = 2
        BY ONLY <1>3, <1>4, <1>7 DEF CallerUse, CalleeUse, One
    <2> QED BY <2>1, <2>2 DEF Budget, Parties
<1>15. Acknowledged
    BY <1>4, <1>5, <1>6, <1>7 DEF Acknowledged, Heard, Timeout
<1> QED BY <1>8, <1>9, <1>10, <1>11, <1>13, <1>14, <1>15 DEF IInv

LEMMA Steps ==
    ASSUME MaxByes >= 4, IInv, [Next]_vars
    PROVE  IInv'
<1>1. ASSUME NEW p \in Parties, Hangup(p)
      PROVE  IInv'
    BY <1>1, CallerHangsUp, CalleeHangsUp DEF Parties
<1>2. CASE Ring
    BY <1>2, Rings
<1>3. CASE Answer
    BY <1>3, Answers
<1>4. ASSUME NEW m \in net, Deliver(m) \/ Delay(m) \/ Challenge(m)
      PROVE  IInv'
    BY <1>4, Delivers, Delays, Challenges
<1>5. ASSUME NEW m \in late, DeliverLate(m)
      PROVE  IInv'
    BY <1>5, DeliversLate
<1>6. CASE Timers
    BY <1>6, InviteTimer, CancelTimer, AckTimer, ByeTimer DEF Timers
<1>7. CASE Retransmit
    BY <1>7, Retransmits
<1>8. CASE UNCHANGED vars
    <2>1. inv' = inv /\ net' = net /\ late' = late /\ faults' = faults /\ resent' = resent /\ asked' = asked
        BY <1>8 DEF vars
    <2>2. TypeOK' /\ CallerOK(inv["C"])' /\ CalleeOK(inv["S"])'
        BY <2>1 DEF IInv, TypeOK
    <2>3. Unborn' /\ Born' /\ Routed'
        BY <2>1 DEF IInv, Unborn, Born, Routed, Flying
    <2>4. ChallengedOnce' /\ Budget'
        BY <2>1 DEF IInv, ChallengedOnce, Budget, Repeat, ChallengesTo, Flying
    <2>5. Acknowledged'
        BY <2>1 DEF IInv, Acknowledged
    <2> QED BY <2>2, <2>3, <2>4, <2>5 DEF IInv
<1> QED BY <1>1, <1>2, <1>3, <1>4, <1>5, <1>6, <1>7, <1>8 DEF Next

\* Whatever is lost, late or challenged, no party of a call sends more than four BYE
\* requests (the bound of the types), every session has a state of its role, and nothing
\* is left unsent after a handler (sip_inv.c; pjsip_inv_send_msg at each end).
THEOREM TypeCorrect ==
    ASSUME MaxByes >= 4
    PROVE  Spec => []TypeOK
<1>1. Init => IInv
    BY Begins
<1>2. IInv /\ [Next]_vars => IInv'
    BY Steps
<1>3. IInv => TypeOK
    BY DEF IInv
<1> QED BY <1>1, <1>2, <1>3, PTL DEF Spec

\* The BYE of a callee that got its ACK finds the caller confirmed or ending the call
\* itself, in every order of messages and timers while none is lost or late: what
\* pending_bye, the BYE that waits for the ACK (inv_perform_pending_bye), is for.
THEOREM ByeSafe ==
    ASSUME MaxByes >= 4
    PROVE  Spec => []ByeFindsCall
<1>1. Init => IInv
    BY Begins
<1>2. IInv /\ [Next]_vars => IInv'
    BY Steps
<1>3. IInv => ByeFindsCall
    BY DEF IInv, Acknowledged, ByeFindsCall, CallerDone
<1> QED BY <1>1, <1>2, <1>3, PTL DEF Spec
===============================================================================
