---------------------------- MODULE FrameworkProofs ----------------------------
(***************************************************************************)
(* Proofs about module Framework, for every number of call slots, objects, *)
(* URIs and timers: that no callback reaches a deleted object, with every  *)
(* policy of the UI and of the peers except REFER; the global pointer, the *)
(* microphone and the media under every policy; and what a restrained user *)
(* is promised, the order of the reports and the one active call being the *)
(* one the requests reach.                                                 *)
(***************************************************************************)
EXTENDS Framework, SequenceTheorems, TLAPS

\* The inductive invariant: what links the three pieces of state a callback
\* goes through, call table -> object -> global pointer.
HeapInv == UserDataLive /\ CallPointerLive /\ NoOrphanCall

\* HeapInv with the types its induction step needs.
IInv == TypeOK /\ HeapInv

\* A timer taken out of the queue leaves a queue of timers.
LEMMA RemoveAtType ==
    ASSUME NEW S, NEW q \in Seq(S), NEW i \in DOMAIN q
    PROVE  RemoveAt(q, i) \in Seq(S)
<1>1. i \in 1 .. Len(q)
    BY LenProperties
<1>2. SubSeq(q, 1, i - 1) \in Seq(S)
    BY <1>1, SubSeqProperties
<1>3. SubSeq(q, i + 1, Len(q)) \in Seq(S)
    BY <1>1, SubSeqProperties
<1> QED
    BY <1>2, <1>3, ConcatProperties DEF RemoveAt

\* The slots a new call can be put in, and the ids the allocator leaves.
LEMMA AllocType ==
    ASSUME NEW n \in 0 .. MaxCalls
    PROVE  NextCallId(n) \in 0 .. MaxCalls
    BY PjsuaCallsAssumption DEF NextCallId, Wrapped

\* Every record the table's operators build is a call record, and so is every
\* update the handlers make.
LEMMA RecordTypes ==
    /\ Idle \in CallRec
    /\ \A u \in Objs \cup {NULL} :
          OutgoingCall(u) \in CallRec /\ IncomingCall(u) \in CallRec
    /\ \A c \in CallRec : EndSession(c) \in CallRec /\ Hangup(c) \in CallRec
    /\ \A c \in CallRec, st \in InvStates, b \in BOOLEAN :
          /\ [c EXCEPT !.inv = st, !.media = b] \in CallRec
          /\ [c EXCEPT !.inv = st] \in CallRec
          /\ [c EXCEPT !.media = b] \in CallRec
          /\ [c EXCEPT !.hold = b] \in CallRec
<1>1. Idle \in CallRec
    BY DEF Idle, CallRec, InvStates
<1>2. \A u \in Objs \cup {NULL} :
          OutgoingCall(u) \in CallRec /\ IncomingCall(u) \in CallRec
    BY DEF Idle, CallRec, InvStates, OutgoingCall, IncomingCall
<1>3. \A c \in CallRec : EndSession(c) \in CallRec /\ Hangup(c) \in CallRec
    BY DEF Idle, CallRec, InvStates, EndSession, Hangup, IsActive
<1>4. \A c \in CallRec, st \in InvStates, b \in BOOLEAN :
          /\ [c EXCEPT !.inv = st, !.media = b] \in CallRec
          /\ [c EXCEPT !.inv = st] \in CallRec
          /\ [c EXCEPT !.media = b] \in CallRec
          /\ [c EXCEPT !.hold = b] \in CallRec
    BY DEF CallRec
<1> QED BY <1>1, <1>2, <1>3, <1>4

\* The same for object records.
LEMMA ObjTypes ==
    /\ NoObj \in ObjRec
    /\ \A r \in ObjRec, i \in Slots, st \in Reports :
          /\ [r EXCEPT !.id = i, !.rep = st] \in ObjRec
          /\ [r EXCEPT !.id = i] \in ObjRec
          /\ [r EXCEPT !.rep = st] \in ObjRec
    /\ \A i \in Slots \cup {NoId}, st \in Reports :
          [live |-> TRUE, id |-> i, rep |-> st] \in ObjRec
    BY DEF NoObj, ObjRec, Reports

\* What hanging up does to a record, used wherever a call ends.
LEMMA HangupFacts ==
    ASSUME NEW c \in CallRec
    PROVE  /\ EndSession(c).user = NULL /\ Hangup(c).user = NULL
           /\ ~IsActive(EndSession(c)) /\ ~IsActive(Hangup(c))
           /\ ~EndSession(c).media
    BY DEF Idle, CallRec, InvStates, EndSession, Hangup, IsActive

\* The worker's and the UI's first state satisfies the invariant.
LEMMA InitInv == ASSUME Init PROVE IInv
    BY EmptySeq, PjsuaCallsAssumption DEF Init, IInv, HeapInv, TypeOK, UserDataLive,
       CallPointerLive, NoOrphanCall, NoObj, ObjRec, Reports, Idle, CallRec, InvStates, IsActive, NoId, Slots, Faults

\* Every handler of the worker and every method of class PJSua2 leaves the
\* globals, the timer queue, the objects and the call table within their types.
LEMMA TypeStep ==
    ASSUME TypeOK, [Next]_vars
    PROVE  TypeOK'
<1> USE DEF TypeOK, ptrs, params, heap, audio
<1>t. ASSUME NEW i \in DOMAIN timers PROVE RemoveAt(timers, i) \in Seq(Timer)
    BY <1>t, RemoveAtType
<1>n. NextCallId(nextId) \in 0 .. MaxCalls
    BY AllocType
<1>0. CASE UNCHANGED vars
    BY <1>0 DEF vars
<1>1. CASE CreateLib
    BY <1>1 DEF CreateLib
<1>2. CASE CreateLibAgain
    BY <1>2 DEF CreateLibAgain, vars
<1>3. CASE ModifyAccount
    BY <1>3 DEF ModifyAccount, Die, vars, Faults
<1>4. CASE UnregisterAccount
    BY <1>4 DEF UnregisterAccount, Die, Faults
<1>5. CASE DeleteLibBegin
    BY <1>5 DEF DeleteLibBegin
<1>6. CASE DeleteLibEnd
    <2>1. CASE Die("useAfterFree") \/ Die("nullPointer")
        BY <2>1 DEF Die, Faults
    <2>2. CASE ~(Die("useAfterFree") \/ Die("nullPointer"))
        <3> DEFINE told == {slot[s].user : s \in {t \in Slots : IsActive(slot[t])}} \ {NULL}
        <3>1. /\ ep' = "freed" /\ lib' = "down" /\ ui' = "idle"
              /\ acc' = IF acc = "null" THEN "null" ELSE "freed"
              /\ timers' = << >>
              /\ slot' = [s \in Slots |-> Idle]
              /\ call' \in {call, NULL}
              /\ obj' = [o \in Objs |->
                            IF o = call /\ told # {} THEN NoObj
                            ELSE IF o \in told
                            THEN [obj[o] EXCEPT !.rep = "DISCONNECTED"]
                            ELSE obj[o]]
              /\ nextId' = 0
              /\ mic' = {}
              /\ fault' = LateFault(call')
              /\ UNCHANGED <<params, sndDev, sentOk>>
            BY <1>6, <2>2 DEF DeleteLibEnd
        <3> HIDE DEF told
        <3>2. obj' \in [Objs -> ObjRec]
            <4>1. \A o \in Objs : [obj[o] EXCEPT !.rep = "DISCONNECTED"] \in ObjRec
                BY DEF ObjRec, Reports
            <4> QED BY <3>1, <4>1, ObjTypes
        <3>3. slot' \in [Slots -> CallRec]
            BY <3>1, RecordTypes
        <3>4. fault' \in Faults
            BY <3>1 DEF LateFault, Faults
        <3>5. nextId' \in 0 .. MaxCalls /\ timers' \in Seq(Timer)
            BY <3>1, EmptySeq, PjsuaCallsAssumption
        <3> QED BY <3>1, <3>2, <3>3, <3>4, <3>5
    <2> QED BY <2>1, <2>2
<1>7. ASSUME NEW op \in ArgOps, NEW a \in Peers, AskWithArg(op, a) PROVE TypeOK'
    <2>1. ASSUME NEW later \in BOOLEAN
          PROVE  Append(timers, [op |-> op, arg |-> a, later |-> later]) \in Seq(Timer)
        BY <1>7, <2>1, AppendProperties DEF Timer, ArgOps, DestOps, Ops
    <2>2. Schedule(op, a) => timers' \in Seq(Timer)
        BY <2>1 DEF Schedule
    <2> QED BY <1>7, <2>2 DEF AskWithArg, Die, Faults
<1>8. ASSUME NEW op \in Ops, Ask(op) PROVE TypeOK'
    <2>1. ASSUME NEW later \in BOOLEAN
          PROVE  Append(timers, [op |-> op, arg |-> NULL, later |-> later]) \in Seq(Timer)
        BY <1>8, <2>1, AppendProperties DEF Timer
    <2>2. Schedule(op, NULL) => timers' \in Seq(Timer)
        BY <2>1 DEF Schedule
    <2> QED BY <1>8, <2>2 DEF Ask, Die, Faults
<1>9. ASSUME NEW i \in DOMAIN timers, NEW op \in DestOps, NEW o \in Objs, NEW s \in Slots,
             \/ FireMakeCallFails(i, op, o) \/ FireMakeCall(i, op, o, s)
             \/ FireMakeCallNoInv(i, op, o, s) \/ FireMakeCallUnsent(i, op, o, s)
      PROVE  TypeOK'
    <2>1. ASSUME NEW k \in Slots \cup {NoId}, NEW st \in {"none", "NULL", "CALLING"}
          PROVE  NewObj(o, k, st) \in [Objs -> ObjRec]
        BY <2>1, ObjTypes DEF NewObj, Reports, InvStates
    <2>2. CASE FireMakeCallFails(i, op, o)
        BY <1>t, <1>n, <2>1, <2>2 DEF FireMakeCallFails, Pop, Did
    <2>3. CASE FireMakeCall(i, op, o, s)
        <3>1. slot' \in [Slots -> CallRec]
            BY <2>3, RecordTypes DEF FireMakeCall
        <3>2. obj' \in [Objs -> ObjRec]
            BY <2>1, <2>3 DEF FireMakeCall
        <3> QED BY <1>t, <1>n, <2>3, <3>1, <3>2 DEF FireMakeCall, Pop, Did, SndDevFor
    <2>4. CASE FireMakeCallNoInv(i, op, o, s)
        <3>2. obj' \in [Objs -> ObjRec]
            BY <2>1, <2>4 DEF FireMakeCallNoInv
        <3> QED BY <1>t, <1>n, <2>4, <3>2 DEF FireMakeCallNoInv, Pop, Did
    <2>5. CASE FireMakeCallUnsent(i, op, o, s)
        BY <1>t, <1>n, <2>5 DEF FireMakeCallUnsent, Pop, Did
    <2> QED BY <1>9, <2>2, <2>3, <2>4, <2>5
\* Reporting a state to an object of the table keeps the types.
<1>c. ASSUME NEW s \in Slots, NEW u \in Objs,
             NEW st \in Reports, OnCallState(s, u, st)
      PROVE  /\ obj' \in [Objs -> ObjRec]
             /\ sndDev' \in {"default", "null"}
    BY <1>c, ObjTypes DEF OnCallState, SndDevFor
<1>d. ASSUME NEW s \in Slots, NEW u \in Objs, NEW rest \in CallRec,
             ToldDisconnected(s, u, rest)
      PROVE  /\ obj' \in [Objs -> ObjRec]
             /\ slot' \in [Slots -> CallRec] /\ call' = NULL
             /\ mic' \subseteq Slots
    <2> DEFINE own == [obj EXCEPT ![u] = [@ EXCEPT !.id = s, !.rep = "DISCONNECTED"]]
               cut == [slot EXCEPT ![s] = rest]
    <2>2. own \in [Objs -> ObjRec]
        BY <1>d, ObjTypes DEF Reports
    <2>3. cut \in [Slots -> CallRec]
        BY <1>d
    <2>4. ASSUME NEW k \in Slots \cup {NoId} PROVE DestroyCall(cut, k) \in [Slots -> CallRec]
        BY <2>3, <2>4, RecordTypes DEF DestroyCall
    <2>5. call # NULL => own[call].id \in Slots \cup {NoId}
        BY <2>2 DEF ObjRec
    <2>6. NoObj \in ObjRec
        BY DEF NoObj, ObjRec, Reports
    <2>7. obj' \in [Objs -> ObjRec]
        BY <1>d, <2>2, <2>6 DEF ToldDisconnected
    <2>8. slot' \in [Slots -> CallRec]
        <3>1. slot' = IF call = NULL THEN cut ELSE DestroyCall(cut, own[call].id)
            BY <1>d DEF ToldDisconnected
        <3> QED BY <2>3, <2>4, <2>5, <3>1
    <2> QED BY <1>d, <2>7, <2>8 DEF ToldDisconnected
<1>f. ASSUME NEW s \in Slots, NEW rest \in CallRec, slot[s].user # NULL,
             OnDisconnected(s, rest)
      PROVE  /\ obj' \in [Objs -> ObjRec]
             /\ slot' \in [Slots -> CallRec] /\ call' = NULL
             /\ mic' \subseteq Slots
    <2>1. slot[s].user \in Objs
        BY <1>f DEF CallRec
    <2>2. ToldDisconnected(s, slot[s].user, rest)
        BY <1>f DEF OnDisconnected
    <2> QED BY <1>d, <2>1, <2>2
<1>10. ASSUME NEW i \in DOMAIN timers, FireAnswer(i) PROVE TypeOK'
    <2>1. CASE UNCHANGED <<heap, audio, sentOk>>
        BY <1>t, <1>10, <2>1 DEF FireAnswer, Pop, Faults
    <2>2. CASE ~ UNCHANGED <<heap, audio, sentOk>>
        <3> DEFINE s == obj[call].id
        <3>1. /\ call \in Objs /\ s \in Slots /\ slot[s].inv # "FREE"
              /\ slot' = [slot EXCEPT ![s] = [@ EXCEPT !.inv = "CONNECTING",
                                                         !.media = TRUE]]
              /\ mic' = mic \cup {s}
              /\ IF slot[s].user = NULL THEN UNCHANGED <<obj, sndDev>>
                 ELSE OnCallState(s, slot[s].user, "CONNECTING")
              /\ UNCHANGED <<call, nextId, sentOk, fault>>
            BY <1>10, <2>2 DEF FireAnswer, NoInfo, ObjRec
        <3> HIDE DEF s
        <3>2. slot' \in [Slots -> CallRec]
            BY <3>1, RecordTypes DEF InvStates
        <3>3. slot[s].user \in Objs \cup {NULL}
            BY <3>1 DEF CallRec
        <3>4. "CONNECTING" \in Reports
            BY DEF Reports, InvStates
        <3>5. /\ obj' \in [Objs -> ObjRec]
              /\ sndDev' \in {"default", "null"}
            BY <1>c, <3>1, <3>3, <3>4
        <3> QED BY <1>t, <1>10, <3>1, <3>2, <3>5 DEF FireAnswer, Pop
    <2> QED BY <2>1, <2>2
<1>11. ASSUME NEW i \in DOMAIN timers, FireHangup(i) PROVE TypeOK'
    <2> DEFINE s == obj[call].id
    <2>1. CASE UNCHANGED <<call, obj, slot, mic>>
        BY <1>t, <1>11, <2>1 DEF FireHangup, Pop, Faults
    <2>2. CASE ~UNCHANGED <<call, obj, slot, mic>>
        <3>1. /\ call \in Objs /\ s \in Slots /\ UNCHANGED fault
              /\ \/ /\ slot' = [slot EXCEPT ![s] = EndSession(@)]
                    /\ mic' = mic \ {s}
                    /\ UNCHANGED <<call, obj>>
                 \/ slot[s].user # NULL /\ OnDisconnected(s, EndSession(slot[s]))
            BY <1>11, <2>2 DEF FireHangup, ObjRec, Slots, NoId
        <3> HIDE DEF s
        <3>2. EndSession(slot[s]) \in CallRec
            BY <3>1, RecordTypes
        <3>3. /\ obj' \in [Objs -> ObjRec]
              /\ slot' \in [Slots -> CallRec] /\ call' \in Objs \cup {NULL}
              /\ mic' \subseteq Slots
            BY <1>f, <3>1, <3>2
        <3> QED BY <1>t, <1>11, <3>1, <3>3 DEF FireHangup, Pop
    <2> QED BY <2>1, <2>2
<1>12. ASSUME NEW i \in DOMAIN timers, NEW op \in Ops, NEW on \in BOOLEAN, FireHold(i, op, on)
       PROVE TypeOK'
    <2>1. slot' \in [Slots -> CallRec]
        <3>1. CASE UNCHANGED slot
            BY <3>1
        <3>2. CASE ~UNCHANGED slot
            <4>1. /\ call \in Objs /\ obj[call].id \in Slots
                  /\ slot' = [slot EXCEPT ![obj[call].id] = [@ EXCEPT !.hold = on]]
                BY <1>12, <3>2 DEF FireHold, NoInfo, ObjRec
            <4> QED BY <4>1, RecordTypes DEF InvStates
        <3> QED BY <3>1, <3>2
    <2> QED BY <1>t, <1>12, <2>1 DEF FireHold, Pop
<1>13. ASSUME NEW i \in DOMAIN timers, NEW op \in Ops, NEW off \in BOOLEAN, FireMute(i, op, off)
       PROVE TypeOK'
    <2>1. mic' \subseteq Slots
        BY <1>13 DEF FireMute, NoInfo, ObjRec
    <2> QED BY <1>t, <1>13, <2>1 DEF FireMute, Pop, Faults
<1>14. ASSUME NEW i \in DOMAIN timers, NEW op \in Ops, NEW used, FireSend(i, op, used)
       PROVE TypeOK'
    <2>1. sentOk' \in BOOLEAN
        BY <1>14 DEF FireSend, Did
    <2> QED BY <1>t, <1>14, <2>1 DEF FireSend, Pop
<1>15. ASSUME NEW s \in Slots, CallbackToFreed(s) PROVE TypeOK'
    BY <1>15 DEF CallbackToFreed, Die, Faults
<1>16. ASSUME NEW s \in Slots, NEW o \in Objs, IncomingInvite(s, o)
       PROVE TypeOK'
    <2>1. slot' \in [Slots -> CallRec]
        BY <1>16, RecordTypes DEF IncomingInvite
    <2>2. obj' \in [Objs -> ObjRec]
        BY <1>16, ObjTypes DEF IncomingInvite, NewObj, Reports
    <2> QED BY <1>n, <1>16, <2>1, <2>2 DEF IncomingInvite
\* A state told to the object of a slot, if there is one.
<1>e. ASSUME NEW s \in Slots, NEW st \in Reports, TellState(s, st)
      PROVE  /\ obj' \in [Objs -> ObjRec]
             /\ sndDev' \in {"default", "null"}
    <2>1. slot[s].user \in Objs \cup {NULL}
        BY <1>e DEF CallRec
    <2> QED BY <1>c, <1>e, <2>1 DEF TellState
<1>r. {"EARLY", "CONFIRMED", "CALLING"} \subseteq Reports
    BY DEF Reports, InvStates
<1>17. ASSUME NEW s \in Slots, NEW sdp \in BOOLEAN, RemoteRings(s, sdp) PROVE TypeOK'
    <2>1. slot' \in [Slots -> CallRec]
        BY <1>17, RecordTypes DEF RemoteRings, InvStates
    <2> QED BY <1>e, <1>r, <1>17, <2>1 DEF RemoteRings
<1>18. ASSUME NEW s \in Slots, RemoteAnswers(s) PROVE TypeOK'
    <2>1. slot' \in [Slots -> CallRec]
        BY <1>18, RecordTypes DEF RemoteAnswers, InvStates
    <2> QED BY <1>e, <1>r, <1>18, <2>1 DEF RemoteAnswers
<1>19. ASSUME NEW s \in Slots, AckArrives(s) PROVE TypeOK'
    <2>1. slot' \in [Slots -> CallRec]
        BY <1>19, RecordTypes DEF AckArrives, InvStates
    <2> QED BY <1>e, <1>r, <1>19, <2>1 DEF AckArrives
<1>20. ASSUME NEW s \in Slots, MediaUpdate(s) PROVE TypeOK'
    <2>1. slot' \in [Slots -> CallRec]
        BY <1>20, RecordTypes DEF MediaUpdate, InvStates
    <2>2. obj' \in [Objs -> ObjRec]
        <3>1. slot[s].user \in Objs
            BY <1>20 DEF MediaUpdate, CallRec
        <3> QED BY <1>20, <3>1, ObjTypes DEF MediaUpdate, Reports
    <2> QED BY <1>20, <2>1, <2>2 DEF MediaUpdate
<1>21. ASSUME NEW s \in Slots, RemoteEnds(s) PROVE TypeOK'
    <2>1. slot[s].user = NULL => slot' = [slot EXCEPT ![s] = Idle]
        BY <1>21 DEF RemoteEnds
    <2>2. Idle \in CallRec
        BY RecordTypes
    <2>3. CASE slot[s].user = NULL
        BY <1>21, <2>1, <2>2, <2>3 DEF RemoteEnds
    <2>4. CASE slot[s].user # NULL
        <3>1. OnDisconnected(s, Idle)
            BY <1>21, <2>4 DEF RemoteEnds
        <3> QED BY <1>f, <1>21, <2>2, <2>4, <3>1 DEF RemoteEnds
    <2> QED BY <2>3, <2>4
<1>22. ASSUME NEW s \in Slots, HangupDone(s) PROVE TypeOK'
    <2>1. Idle \in CallRec
        BY RecordTypes
    <2> QED BY <1>22, <2>1 DEF HangupDone
<1>23. ASSUME NEW s \in Slots, NEW t \in Slots, ReferArrives(s, t)
       PROVE TypeOK'
    <2>1. slot[s].user \in Objs \cup {NULL}
        BY DEF CallRec
    <2>2. slot' \in [Slots -> CallRec]
        BY <1>23, <2>1, RecordTypes DEF ReferArrives, Referred
    <2> QED BY <1>c, <1>n, <1>r, <1>23, <2>1, <2>2 DEF ReferArrives, Referred
<1>23a. ASSUME NEW s \in Slots, ReferFails(s) PROVE TypeOK'
    BY <1>n, <1>23a DEF ReferFails
<1>23b. ASSUME NEW s \in Slots, NEW t \in Slots, ReferNoInv(s, t) PROVE TypeOK'
    <2>1. slot[s].user \in Objs \cup {NULL}
        BY DEF CallRec
    <2>2. obj' \in [Objs -> ObjRec]
        <3>1. CASE slot[s].user = NULL
            BY <1>23b, <3>1 DEF ReferNoInv
        <3>2. CASE slot[s].user # NULL
            <4>1. /\ slot[s].user \in Objs
                  /\ obj' = [obj EXCEPT ![slot[s].user] = [@ EXCEPT !.id = t, !.rep = "NULL"]]
                BY <1>23b, <2>1, <3>2 DEF ReferNoInv
            <4> QED BY <4>1, ObjTypes DEF Reports
        <3> QED BY <3>1, <3>2
    <2> QED BY <1>n, <1>23b, <2>2 DEF ReferNoInv
<1>23c. ASSUME NEW s \in Slots, NEW t \in Slots, ReferUnsent(s, t) PROVE TypeOK'
    <2>0. Idle \in CallRec
        BY RecordTypes
    <2>1. slot[s].user \in Objs \cup {NULL}
        BY DEF CallRec
    <2>2. CASE slot[s].user = NULL
        BY <1>n, <1>23c, <2>2 DEF ReferUnsent
    <2>3. CASE slot[s].user # NULL
        <3>1. ToldDisconnected(t, slot[s].user, Idle)
            BY <1>23c, <2>3 DEF ReferUnsent
        <3>2. /\ obj' \in [Objs -> ObjRec]
              /\ slot' \in [Slots -> CallRec] /\ call' = NULL
              /\ mic' \subseteq Slots
            BY <1>d, <2>0, <2>1, <2>3, <3>1
        <3> QED BY <1>n, <1>23c, <3>2 DEF ReferUnsent
    <2> QED BY <2>2, <2>3
<1> HIDE DEF TypeOK
<1>24. CASE UiStep
    BY <1>1, <1>2, <1>3, <1>4, <1>5, <1>6, <1>7, <1>8, <1>24,
       FrameworkAssumption DEF UiStep
<1>25. CASE OnTimer
    <2>1. 0 \in Slots
        BY PjsuaCallsAssumption DEF Slots
    <2>2. PICK i \in DOMAIN timers :
            \/ \E op \in DestOps, o \in Objs :
                 \/ FireMakeCallFails(i, op, o)
                 \/ \E s \in Slots : \/ FireMakeCall(i, op, o, s)
                                     \/ FireMakeCallNoInv(i, op, o, s)
                                     \/ FireMakeCallUnsent(i, op, o, s)
            \/ FireAnswer(i) \/ FireHangup(i)
            \/ FireHold(i, "HOLD_CALL", TRUE) \/ FireHold(i, "UNHOLD_CALL", FALSE)
            \/ FireMute(i, "MUTE_CALL", TRUE) \/ FireMute(i, "UNMUTE_CALL", FALSE)
            \/ FireSend(i, "SEND_DTMF_TONE", tone)
            \/ FireSend(i, "TRANSFER_CALL", xferDest)
        BY <1>25 DEF OnTimer
    <2>3. {"HOLD_CALL", "UNHOLD_CALL", "MUTE_CALL", "UNMUTE_CALL",
           "SEND_DTMF_TONE", "TRANSFER_CALL"} \subseteq Ops
        BY DEF Ops
    <2> QED BY <1>9, <1>10, <1>11, <1>12, <1>13, <1>14, <2>1, <2>2, <2>3
<1>26. CASE SipEvent
    BY <1>15, <1>16, <1>17, <1>18, <1>19, <1>20, <1>21, <1>22, <1>23, <1>26,
       <1>23a, <1>23b, <1>23c DEF SipEvent
<1> QED
    BY <1>0, <1>24, <1>25, <1>26 DEF Next

\* Steps of the handlers that only move the states of calls and objects along:
\* slot s keeps its object, stays active or not, and at most its own object
\* changes, to a report other than DISCONNECTED.
LEMMA MovedAlong ==
    ASSUME TypeOK, HeapInv, NEW s \in Slots,
           call' = call,
           \A t \in Slots : slot'[t].user = slot[t].user,
           \A t \in Slots : IsActive(slot'[t]) => IsActive(slot[t]),
           \A o \in Objs : /\ obj'[o].live = obj[o].live
                           /\ \/ obj'[o] = obj[o]
                              \/ /\ o = slot[s].user
                                 /\ obj'[o].id = s
                                 /\ obj'[o].rep # "DISCONNECTED"
    PROVE  HeapInv'
<1>1. \A t \in Slots : slot[t].user \in Objs \cup {NULL}
    BY DEF TypeOK, CallRec
<1>2. UserDataLive'
    <2> SUFFICES ASSUME NEW t \in Slots, slot'[t].user # NULL
                 PROVE  /\ obj'[slot'[t].user].live
                        /\ obj'[slot'[t].user].id = t
                        /\ obj'[slot'[t].user].rep # "DISCONNECTED"
        BY DEF UserDataLive
    <2>1. slot[t].user \in Objs /\ slot'[t].user = slot[t].user
        BY <1>1
    <2>2. obj[slot[t].user].live /\ obj[slot[t].user].id = t
          /\ obj[slot[t].user].rep # "DISCONNECTED"
        BY <2>1 DEF HeapInv, UserDataLive
    <2>3. slot[s].user # NULL => obj[slot[s].user].id = s
        BY DEF HeapInv, UserDataLive
    <2> QED BY <2>1, <2>2, <2>3, <1>1
<1>3. CallPointerLive'
    BY DEF HeapInv, CallPointerLive, TypeOK
<1>4. NoOrphanCall'
    BY DEF HeapInv, NoOrphanCall
<1> QED BY <1>2, <1>3, <1>4 DEF HeapInv

\* A call that ends (hung up, or ended by the peer): the object the global
\* points to is destroyed, and with it the tie from its own slot, so no slot
\* keeps a pointer to it.
LEMMA Disconnects ==
    ASSUME TypeOK, HeapInv, NEW s \in Slots, NEW rest \in CallRec,
           slot[s].user # NULL, rest.user = NULL, ~IsActive(rest),
           OnDisconnected(s, rest)
    PROVE  HeapInv'
<1> DEFINE u == slot[s].user
           own == [obj EXCEPT ![u] = [@ EXCEPT !.id = s, !.rep = "DISCONNECTED"]]
           cut == [slot EXCEPT ![s] = rest]
<1>1. u \in Objs
    BY DEF TypeOK, CallRec
<1>2. \A t \in Slots : slot[t] \in CallRec
    BY DEF TypeOK
<1>3. \A t \in Slots : slot[t].user # NULL =>
          /\ slot[t].user \in Objs /\ obj[slot[t].user].live
          /\ obj[slot[t].user].id = t
          /\ obj[slot[t].user].rep # "DISCONNECTED"
    BY <1>2 DEF HeapInv, UserDataLive, CallRec
<1>4. /\ \A o \in Objs : o # u => own[o] = obj[o]
      /\ own[u].id = s
    BY <1>1 DEF TypeOK, ObjRec
<1>5. /\ cut[s] = rest
      /\ \A t \in Slots : t # s => cut[t] = slot[t]
    BY DEF TypeOK
<1>6. call' = NULL
    BY DEF OnDisconnected, ToldDisconnected
<1>7. CASE call = NULL
    <2>1. obj' = own /\ slot' = cut
        BY <1>7 DEF OnDisconnected, ToldDisconnected
    <2>2. \A t \in Slots : slot'[t].user # NULL => t # s /\ slot[t].user # u
        BY <1>3, <1>5, <2>1
    <2>3. UserDataLive'
        BY <1>3, <1>4, <1>5, <2>1, <2>2 DEF UserDataLive
    <2>4. NoOrphanCall'
        BY <1>5, <2>1 DEF NoOrphanCall, HeapInv
    <2> QED BY <1>6, <2>3, <2>4 DEF HeapInv, CallPointerLive
<1>8. CASE call # NULL
    <2> DEFINE k == own[call].id
    <2>1. call \in Objs
        BY <1>8 DEF TypeOK
    <2>2. obj' = [own EXCEPT ![call] = NoObj] /\ slot' = DestroyCall(cut, k)
        BY <1>8 DEF OnDisconnected, ToldDisconnected
    <2>3. k \in Slots \cup {NoId}
        BY <2>1, <1>1, <1>4 DEF TypeOK, ObjRec
    <2>4. ASSUME NEW t \in Slots
          PROVE  slot'[t] = IF t = k THEN Hangup(cut[t]) ELSE cut[t]
        BY <2>2, <2>3, <1>5 DEF DestroyCall, NoId, Slots, TypeOK
    <2> HIDE DEF k
    <2>5. ASSUME NEW t \in Slots
          PROVE  /\ IsActive(slot'[t]) => t # s /\ t # k /\ slot'[t] = slot[t]
                 /\ slot'[t].user # NULL => t # s /\ t # k /\ slot'[t] = slot[t]
        <3>1. cut[t] \in CallRec
            BY <1>2, <1>5
        <3>2. Hangup(cut[t]).user = NULL /\ ~IsActive(Hangup(cut[t]))
            BY <3>1, HangupFacts
        <3> QED BY <1>5, <2>4, <3>2
    <2>6. ASSUME NEW t \in Slots, slot'[t].user # NULL
          PROVE  slot[t].user # u /\ slot[t].user # call
        <3>1. slot'[t] = slot[t] /\ t # s /\ t # k
            BY <2>5, <2>6
        <3>2. slot[t].user # u
            BY <1>3, <2>6, <3>1
        <3>3. slot[t].user = call => obj[call].id = t
            BY <1>3, <2>6, <3>1
        <3> QED BY <1>4, <2>1, <3>1, <3>2, <3>3 DEF k
    <2>7. UserDataLive'
        <3> SUFFICES ASSUME NEW t \in Slots, slot'[t].user # NULL
                     PROVE  /\ obj'[slot'[t].user].live
                            /\ obj'[slot'[t].user].id = t
                            /\ obj'[slot'[t].user].rep # "DISCONNECTED"
            BY DEF UserDataLive
        <3>1. slot'[t] = slot[t] /\ slot[t].user # u /\ slot[t].user # call
            BY <2>5, <2>6
        <3>2. slot[t].user \in Objs
            BY <1>3, <3>1
        <3>3. \A x \in Objs : x # call => obj'[x] = own[x]
            <4>1. DOMAIN own = Objs
                BY DEF TypeOK
            <4> HIDE DEF own
            <4> QED BY <2>2, <4>1
        <3>4. obj'[slot[t].user] = obj[slot[t].user]
            BY <1>4, <3>1, <3>2, <3>3
        <3> QED BY <1>3, <3>1, <3>4
    <2>8. NoOrphanCall'
        BY <2>5 DEF NoOrphanCall, HeapInv
    <2> QED BY <1>6, <2>7, <2>8 DEF HeapInv, CallPointerLive
<1> QED BY <1>7, <1>8

\* A new object takes over the global: no slot pointed to its address before.
LEMMA NewObject ==
    ASSUME TypeOK, HeapInv, NEW o \in Objs, ~obj[o].live, call' = o,
           obj'[o].live, \A x \in Objs : x # o => obj'[x] = obj[x],
           \/ slot' = slot
           \/ \E s \in Slots : /\ \A t \in Slots : t # s => slot'[t] = slot[t]
                               /\ slot'[s].user = o
                               /\ obj'[o].id = s
                               /\ obj'[o].rep # "DISCONNECTED"
    PROVE  HeapInv'
<1>1. \A t \in Slots : slot[t].user # NULL =>
          /\ slot[t].user \in Objs /\ slot[t].user # o
          /\ obj[slot[t].user].live
          /\ obj[slot[t].user].id = t
          /\ obj[slot[t].user].rep # "DISCONNECTED"
    BY DEF HeapInv, UserDataLive, TypeOK, CallRec
<1>2. o # NULL
    BY PjsuaCallsAssumption
<1>3. UserDataLive'
    BY <1>1 DEF UserDataLive
<1>4. NoOrphanCall'
    BY <1>2 DEF NoOrphanCall, HeapInv
<1>5. CallPointerLive'
    BY DEF CallPointerLive
<1> QED BY <1>3, <1>4, <1>5 DEF HeapInv

\* No handler of the worker and no method of the UI leaves a slot with a deleted
\* or foreign object, an active slot without one, or the global dangling, unless
\* the peer sends REFER.
LEMMA HeapStep ==
    ASSUME TypeOK, HeapInv, ~Refer, [Next]_vars
    PROVE  HeapInv'
<1> USE DEF ptrs, params, heap, audio
<1>a. ASSUME UNCHANGED <<call, obj, slot>> PROVE HeapInv'
    BY <1>a DEF HeapInv, UserDataLive, CallPointerLive, NoOrphanCall, IsActive
<1>b. \A t \in Slots : slot[t] \in CallRec /\ slot[t].user \in Objs \cup {NULL}
    BY DEF TypeOK, CallRec
<1>c. \A t \in Slots : slot[t].user # NULL =>
          /\ slot[t].user \in Objs /\ obj[slot[t].user].live
          /\ obj[slot[t].user].id = t /\ obj[slot[t].user].rep # "DISCONNECTED"
    BY <1>b DEF HeapInv, UserDataLive
<1>s. ASSUME NEW s \in Slots, NEW st \in Reports, st # "DISCONNECTED",
             slot[s].user # NULL, OnCallState(s, slot[s].user, st)
      PROVE  \A o \in Objs : /\ obj'[o].live = obj[o].live
                              /\ \/ obj'[o] = obj[o]
                                 \/ /\ o = slot[s].user
                                    /\ obj'[o].id = s
                                    /\ obj'[o].rep # "DISCONNECTED"
    BY <1>c, <1>s DEF OnCallState, TypeOK, ObjRec
<1>1. CASE CreateLib
    BY <1>a, <1>1 DEF CreateLib
<1>2. CASE CreateLibAgain
    BY <1>a, <1>2 DEF CreateLibAgain, vars
<1>3. CASE ModifyAccount
    BY <1>a, <1>3 DEF ModifyAccount, Die, vars
<1>4. CASE UnregisterAccount
    BY <1>a, <1>4 DEF UnregisterAccount, Die
<1>5. CASE DeleteLibBegin
    BY <1>a, <1>5 DEF DeleteLibBegin
<1>6. CASE DeleteLibEnd
    <2>1. CASE Die("useAfterFree") \/ Die("nullPointer")
        BY <1>a, <2>1 DEF Die
    <2>2. CASE ~(Die("useAfterFree") \/ Die("nullPointer"))
        <3> DEFINE told == {slot[s].user : s \in {t \in Slots : IsActive(slot[t])}} \ {NULL}
        <3>1. /\ slot' = [s \in Slots |-> Idle]
              /\ call' = IF told = {} THEN call ELSE NULL
              /\ obj' = [o \in Objs |->
                            IF o = call /\ told # {} THEN NoObj
                            ELSE IF o \in told
                            THEN [obj[o] EXCEPT !.rep = "DISCONNECTED"]
                            ELSE obj[o]]
            BY <1>6, <2>2 DEF DeleteLibEnd
        <3> HIDE DEF told
        <3>2. CallPointerLive'
            BY <3>1 DEF HeapInv, CallPointerLive, TypeOK
        <3> QED BY <3>1, <3>2 DEF HeapInv, UserDataLive, NoOrphanCall, Idle, IsActive
    <2> QED BY <2>1, <2>2
<1>7. ASSUME NEW op \in ArgOps, NEW a \in Peers, AskWithArg(op, a) PROVE HeapInv'
    BY <1>a, <1>7 DEF AskWithArg, Die
<1>8. ASSUME NEW op, Ask(op) PROVE HeapInv'
    BY <1>a, <1>8 DEF Ask, Die
<1>9. ASSUME NEW i \in DOMAIN timers, NEW op \in DestOps, NEW o \in Objs,
             FireMakeCallFails(i, op, o)
      PROVE  HeapInv'
    <2>1. /\ obj' = [obj EXCEPT ![o] = [live |-> TRUE, id |-> NoId, rep |-> "none"]]
          /\ ~obj[o].live /\ call' = o /\ slot' = slot
        BY <1>9 DEF FireMakeCallFails, NewObj
    <2>2. obj'[o].live /\ \A x \in Objs : x # o => obj'[x] = obj[x]
        BY <2>1 DEF TypeOK
    <2> QED BY <2>1, <2>2, NewObject
<1>10. ASSUME NEW i \in DOMAIN timers, NEW op \in DestOps, NEW o \in Objs, NEW s \in Slots,
              FireMakeCall(i, op, o, s)
       PROVE  HeapInv'
    <2>1. /\ obj' = [obj EXCEPT ![o] = [live |-> TRUE, id |-> s, rep |-> "CALLING"]]
          /\ ~obj[o].live /\ call' = o
          /\ slot' = [slot EXCEPT ![s] = OutgoingCall(o)]
        BY <1>10 DEF FireMakeCall, NewObj
    <2>2. /\ obj'[o].live /\ obj'[o].id = s /\ obj'[o].rep # "DISCONNECTED"
          /\ \A x \in Objs : x # o => obj'[x] = obj[x]
        BY <2>1 DEF TypeOK
    <2>3. slot'[s].user = o /\ \A t \in Slots : t # s => slot'[t] = slot[t]
        BY <2>1 DEF TypeOK, OutgoingCall, Idle
    <2> QED BY <2>1, <2>2, <2>3, NewObject
<1>11. ASSUME NEW i \in DOMAIN timers, NEW op \in DestOps, NEW o \in Objs, NEW s \in Slots,
              FireMakeCallNoInv(i, op, o, s)
       PROVE  HeapInv'
    <2>1. /\ obj' = [obj EXCEPT ![o] = [live |-> TRUE, id |-> s, rep |-> "NULL"]]
          /\ ~obj[o].live /\ call' = o /\ slot' = slot
        BY <1>11 DEF FireMakeCallNoInv, NewObj
    <2>2. obj'[o].live /\ \A x \in Objs : x # o => obj'[x] = obj[x]
        BY <2>1 DEF TypeOK
    <2> QED BY <2>1, <2>2, NewObject
<1>12. ASSUME NEW i \in DOMAIN timers, NEW op \in DestOps, NEW o \in Objs, NEW s \in Slots,
              FireMakeCallUnsent(i, op, o, s)
       PROVE  HeapInv'
    <2>1. call' = NULL /\ UNCHANGED <<slot, obj>>
        BY <1>12 DEF FireMakeCallUnsent
    <2> QED BY <2>1 DEF HeapInv, UserDataLive, CallPointerLive, NoOrphanCall, IsActive
<1>13. ASSUME NEW i \in DOMAIN timers, FireAnswer(i) PROVE HeapInv'
    <2>1. CASE UNCHANGED <<call, obj, slot>>
        BY <1>a, <2>1
    <2>2. CASE ~UNCHANGED <<call, obj, slot>>
        <3> DEFINE s == obj[call].id
        <3>1. /\ call \in Objs /\ s \in Slots
              /\ InfoState(slot[s]) = "INCOMING"
              /\ slot' = [slot EXCEPT ![s] = [@ EXCEPT !.inv = "CONNECTING",
                                                         !.media = TRUE]]
              /\ IF slot[s].user = NULL THEN UNCHANGED <<obj, sndDev>>
                 ELSE OnCallState(s, slot[s].user, "CONNECTING")
              /\ UNCHANGED call
            BY <1>13, <2>2 DEF FireAnswer, NoInfo, TypeOK, ObjRec
        <3> HIDE DEF s
        <3>2. /\ \A t \in Slots : slot'[t].user = slot[t].user
              /\ \A t \in Slots : IsActive(slot'[t]) => IsActive(slot[t])
            BY <1>b, <3>1 DEF TypeOK, CallRec, IsActive, InfoState
        <3>3. "CONNECTING" \in Reports
            BY DEF Reports, InvStates
        <3>4. \A o \in Objs : /\ obj'[o].live = obj[o].live
                               /\ \/ obj'[o] = obj[o]
                                  \/ /\ o = slot[s].user
                                     /\ obj'[o].id = s
                                     /\ obj'[o].rep # "DISCONNECTED"
            BY <1>s, <3>1, <3>3
        <3> QED BY <3>1, <3>2, <3>4, MovedAlong
    <2> QED BY <2>1, <2>2
\* A slot without an object that ends: nothing else changes.
<1>d. ASSUME NEW s \in Slots, NEW rest \in CallRec, rest.user = NULL, ~IsActive(rest),
             slot' = [slot EXCEPT ![s] = rest], slot[s].user = NULL,
             UNCHANGED <<call, obj>>
      PROVE  HeapInv'
    <2>1. /\ \A t \in Slots : slot'[t].user = slot[t].user
          /\ \A t \in Slots : IsActive(slot'[t]) => IsActive(slot[t])
        BY <1>d DEF TypeOK
    <2> QED BY <1>d, <2>1, MovedAlong
<1>14. ASSUME NEW i \in DOMAIN timers, FireHangup(i) PROVE HeapInv'
    <2>1. CASE UNCHANGED <<call, obj, slot>>
        BY <1>a, <2>1
    <2>2. CASE ~UNCHANGED <<call, obj, slot>>
        <3> DEFINE s == obj[call].id
        <3>1. /\ call \in Objs /\ s \in Slots
              /\ \/ /\ slot[s].user = NULL
                    /\ slot' = [slot EXCEPT ![s] = EndSession(slot[s])]
                    /\ UNCHANGED <<call, obj>>
                 \/ slot[s].user # NULL /\ OnDisconnected(s, EndSession(slot[s]))
            BY <1>14, <2>2 DEF FireHangup, TypeOK, ObjRec
        <3> HIDE DEF s
        <3>2. /\ EndSession(slot[s]) \in CallRec /\ EndSession(slot[s]).user = NULL
              /\ ~IsActive(EndSession(slot[s]))
            BY <1>b, <3>1, RecordTypes, HangupFacts
        <3> QED BY <1>d, <3>1, <3>2, Disconnects
    <2> QED BY <2>1, <2>2
<1>15. ASSUME NEW i \in DOMAIN timers, NEW op, NEW on, FireHold(i, op, on) PROVE HeapInv'
    <2>1. CASE UNCHANGED slot
        BY <1>a, <1>15, <2>1 DEF FireHold
    <2>2. CASE ~UNCHANGED slot
        <3> DEFINE s == obj[call].id
        <3>1. /\ s \in Slots /\ slot' = [slot EXCEPT ![s] = [@ EXCEPT !.hold = on]]
              /\ UNCHANGED <<call, obj>>
            BY <1>15, <2>2 DEF FireHold, NoInfo, TypeOK, ObjRec
        <3> HIDE DEF s
        <3>2. /\ \A t \in Slots : slot'[t].user = slot[t].user
              /\ \A t \in Slots : IsActive(slot'[t]) => IsActive(slot[t])
            BY <1>b, <3>1 DEF TypeOK, CallRec, IsActive
        <3> QED BY <3>1, <3>2, MovedAlong
    <2> QED BY <2>1, <2>2
<1>16. ASSUME NEW i \in DOMAIN timers, NEW op, NEW off, FireMute(i, op, off) PROVE HeapInv'
    BY <1>a, <1>16 DEF FireMute
<1>17. ASSUME NEW i \in DOMAIN timers, NEW op, NEW used, FireSend(i, op, used) PROVE HeapInv'
    BY <1>a, <1>17 DEF FireSend
<1>18. ASSUME NEW s \in Slots, CallbackToFreed(s) PROVE HeapInv'
    BY <1>a, <1>18 DEF CallbackToFreed, Die
<1>19. ASSUME NEW s \in Slots, NEW o \in Objs, IncomingInvite(s, o)
       PROVE HeapInv'
    <2>1. /\ obj' = [obj EXCEPT ![o] = [live |-> TRUE, id |-> s, rep |-> "none"]]
          /\ ~obj[o].live /\ call' = o
          /\ slot' = [slot EXCEPT ![s] = IncomingCall(o)]
        BY <1>19 DEF IncomingInvite, NewObj
    <2>2. /\ obj'[o].live /\ obj'[o].id = s /\ obj'[o].rep # "DISCONNECTED"
          /\ \A x \in Objs : x # o => obj'[x] = obj[x]
        BY <2>1 DEF TypeOK
    <2>3. slot'[s].user = o /\ \A t \in Slots : t # s => slot'[t] = slot[t]
        BY <2>1 DEF TypeOK, IncomingCall, Idle
    <2> QED BY <2>1, <2>2, <2>3, NewObject
\* A state told to the object of a slot, if there is one.
<1>e. ASSUME NEW s \in Slots, NEW st \in {"EARLY", "CONFIRMED"}, TellState(s, st),
             call' = call,
             \A t \in Slots : slot'[t].user = slot[t].user,
             \A t \in Slots : IsActive(slot'[t]) => IsActive(slot[t])
      PROVE  HeapInv'
    <2>1. st \in Reports /\ st # "DISCONNECTED"
        BY DEF Reports, InvStates
    <2>2. \A o \in Objs : /\ obj'[o].live = obj[o].live
                           /\ \/ obj'[o] = obj[o]
                              \/ /\ o = slot[s].user
                                 /\ obj'[o].id = s
                                 /\ obj'[o].rep # "DISCONNECTED"
        BY <1>e, <1>s, <2>1 DEF TellState
    <2> QED BY <1>e, <2>2, MovedAlong
<1>20. ASSUME NEW s \in Slots, NEW sdp \in BOOLEAN, RemoteRings(s, sdp) PROVE HeapInv'
    <2>1. /\ \A t \in Slots : slot'[t].user = slot[t].user
          /\ \A t \in Slots : IsActive(slot'[t]) => IsActive(slot[t])
        BY <1>b, <1>20 DEF RemoteRings, TypeOK, CallRec, IsActive
    <2> QED BY <1>e, <1>20, <2>1 DEF RemoteRings
<1>21. ASSUME NEW s \in Slots, RemoteAnswers(s) PROVE HeapInv'
    <2>1. /\ \A t \in Slots : slot'[t].user = slot[t].user
          /\ \A t \in Slots : IsActive(slot'[t]) => IsActive(slot[t])
        BY <1>b, <1>21 DEF RemoteAnswers, TypeOK, CallRec, IsActive
    <2> QED BY <1>e, <1>21, <2>1 DEF RemoteAnswers
<1>22. ASSUME NEW s \in Slots, AckArrives(s) PROVE HeapInv'
    <2>1. /\ \A t \in Slots : slot'[t].user = slot[t].user
          /\ \A t \in Slots : IsActive(slot'[t]) => IsActive(slot[t])
        BY <1>b, <1>22 DEF AckArrives, TypeOK, CallRec, IsActive
    <2> QED BY <1>e, <1>22, <2>1 DEF AckArrives
<1>23. ASSUME NEW s \in Slots, MediaUpdate(s) PROVE HeapInv'
    <2>1. /\ \A t \in Slots : slot'[t].user = slot[t].user
          /\ \A t \in Slots : IsActive(slot'[t]) => IsActive(slot[t])
        BY <1>b, <1>23 DEF MediaUpdate, TypeOK, CallRec, IsActive
    <2>2. slot[s].user \in Objs /\ obj[slot[s].user].rep # "DISCONNECTED"
        BY <1>c, <1>23 DEF MediaUpdate
    <2>3. \A o \in Objs : /\ obj'[o].live = obj[o].live
                           /\ \/ obj'[o] = obj[o]
                              \/ /\ o = slot[s].user
                                 /\ obj'[o].id = s
                                 /\ obj'[o].rep # "DISCONNECTED"
        BY <1>23, <2>2 DEF MediaUpdate, TypeOK, ObjRec
    <2>4. call' = call
        BY <1>23 DEF MediaUpdate
    <2> QED BY <2>1, <2>3, <2>4, MovedAlong
<1>i. Idle \in CallRec /\ Idle.user = NULL /\ ~IsActive(Idle)
    BY RecordTypes DEF Idle, IsActive
<1>24. ASSUME NEW s \in Slots, RemoteEnds(s) PROVE HeapInv'
    <2>1. CASE slot[s].user = NULL
        <3>1. slot' = [slot EXCEPT ![s] = Idle] /\ UNCHANGED <<call, obj>>
            BY <1>24, <2>1 DEF RemoteEnds
        <3> QED BY <1>d, <1>i, <2>1, <3>1
    <2>2. CASE slot[s].user # NULL
        <3>1. OnDisconnected(s, Idle)
            BY <1>24, <2>2 DEF RemoteEnds
        <3> QED BY <1>i, <2>2, <3>1, Disconnects
    <2> QED BY <2>1, <2>2
<1>25. ASSUME NEW s \in Slots, HangupDone(s) PROVE HeapInv'
    <2>1. /\ slot' = [slot EXCEPT ![s] = Idle] /\ UNCHANGED <<call, obj>>
        BY <1>25 DEF HangupDone
    <2>2. slot'[s] = Idle /\ \A t \in Slots : t # s => slot'[t] = slot[t]
        BY <2>1 DEF TypeOK
    <2>3. UserDataLive'
        <3> SUFFICES ASSUME NEW t \in Slots, slot'[t].user # NULL
                     PROVE  /\ obj'[slot'[t].user].live
                            /\ obj'[slot'[t].user].id = t
                            /\ obj'[slot'[t].user].rep # "DISCONNECTED"
            BY DEF UserDataLive
        <3>1. slot'[t] = slot[t]
            BY <1>i, <2>2
        <3> QED BY <1>c, <2>1, <3>1
    <2>4. NoOrphanCall'
        BY <1>i, <2>2 DEF HeapInv, NoOrphanCall, IsActive
    <2> QED BY <2>1, <2>3, <2>4 DEF HeapInv, CallPointerLive
<1>26. CASE UiStep
    BY <1>1, <1>2, <1>3, <1>4, <1>5, <1>6, <1>7, <1>8, <1>26 DEF UiStep
<1>27. CASE OnTimer
    <2>1. PICK i \in DOMAIN timers :
            \/ \E op \in DestOps, o \in Objs :
                 \/ FireMakeCallFails(i, op, o)
                 \/ \E s \in Slots : \/ FireMakeCall(i, op, o, s)
                                     \/ FireMakeCallNoInv(i, op, o, s)
                                     \/ FireMakeCallUnsent(i, op, o, s)
            \/ FireAnswer(i) \/ FireHangup(i)
            \/ FireHold(i, "HOLD_CALL", TRUE) \/ FireHold(i, "UNHOLD_CALL", FALSE)
            \/ FireMute(i, "MUTE_CALL", TRUE) \/ FireMute(i, "UNMUTE_CALL", FALSE)
            \/ FireSend(i, "SEND_DTMF_TONE", tone)
            \/ FireSend(i, "TRANSFER_CALL", xferDest)
        BY <1>27 DEF OnTimer
    <2> QED BY <1>9, <1>10, <1>11, <1>12, <1>13, <1>14, <1>15, <1>16, <1>17, <2>1
<1>28. CASE SipEvent
    <2>1. ASSUME NEW s \in Slots, NEW t \in Slots,
                 ReferFails(s) \/ ReferArrives(s, t) \/ ReferNoInv(s, t) \/ ReferUnsent(s, t)
          PROVE  FALSE
        BY <2>1 DEF ReferFails, ReferArrives, ReferNoInv, ReferUnsent, Referred
    <2> QED BY <1>18, <1>19, <1>20, <1>21, <1>22, <1>23, <1>24, <1>25, <1>28, <2>1
            DEF SipEvent
<1>29. CASE UNCHANGED vars
    BY <1>a, <1>29 DEF vars
<1> QED
    BY <1>26, <1>27, <1>28, <1>29 DEF Next

\* Whatever the user, the timers and the peers do (REFER included), the globals
\* of CustomPJSUA2.cpp, the objects and PJSUA's call table keep their types.
THEOREM TypeCorrect == Spec => []TypeOK
<1>1. Init => TypeOK
    BY InitInv DEF IInv
<1>2. TypeOK /\ [Next]_vars => TypeOK'
    BY TypeStep
<1> QED BY <1>1, <1>2, PTL DEF Spec

\* Without REFER no PJSUA call keeps a deleted or foreign Call object in its
\* user_data: delete call in MyCall::onCallState, of whatever object the global
\* points to by then, unties that object from its own slot first.
THEOREM UserDataSafe == ASSUME ~Refer PROVE Spec => []UserDataLive
<1>1. Init => IInv
    BY InitInv
<1>2. IInv /\ [Next]_vars => IInv'
    BY TypeStep, HeapStep DEF IInv
<1>3. IInv => UserDataLive
    BY DEF IInv, HeapInv
<1> QED BY <1>1, <1>2, <1>3, PTL DEF Spec

\* Without REFER every active call has an object that hears of its end, although
\* MAKE_CALL and onIncomingCall forget the object the global held before.
THEOREM NoOrphan == ASSUME ~Refer PROVE Spec => []NoOrphanCall
<1>1. Init => IInv
    BY InitInv
<1>2. IInv /\ [Next]_vars => IInv'
    BY TypeStep, HeapStep DEF IInv
<1>3. IInv => NoOrphanCall
    BY DEF IInv, HeapInv
<1> QED BY <1>1, <1>2, <1>3, PTL DEF Spec

-------------------------------------------------------------------------------
(* The audio, the order of the reports and the one call: invariants.       *)

\* Media only where a call is active and past CALLING and INCOMING.
Plugged(c) == c.media => IsActive(c) /\ c.inv \notin {"CALLING", "INCOMING"}

\* Inductive invariant of the audio: with the media of every slot, since the
\* handlers take a slot off the microphone by looking at its media.
MicInv == /\ \A s \in Slots : Plugged(slot[s])
          /\ \A s \in mic : slot[s].media

\* No object is ahead of the call that reports to it.
Behind == \A s \in Slots : slot[s].user # NULL =>
              /\ slot[s].inv # "FREE"
              /\ Rank(obj[slot[s].user].rep) <= Rank(slot[s].inv)

\* The parts of the invariant for one call at a time.
\* A call is asked for only once, and while there is none.
AskedOnce == \A i \in DOMAIN timers : timers[i].op \in DestOps =>
                 /\ \A s \in Slots : slot[s].inv = "FREE"
                 /\ \A j \in DOMAIN timers : timers[j].op \in DestOps => i = j

\* One slot at most is in use.
OneCall == \A s, t \in Slots :
               slot[s].inv # "FREE" /\ slot[t].inv # "FREE" => s = t

SingleInv == AskedOnce /\ OneCall /\ ActiveCallIsControlled

-------------------------------------------------------------------------------
(* The global pointer.                                                     *)

\* A state told to an object neither deletes nor revives any object.
LEMMA TellKeepsLive ==
    ASSUME TypeOK, NEW s, NEW u \in Objs, NEW st, OnCallState(s, u, st)
    PROVE  \A o \in Objs : obj'[o].live <=> obj[o].live
    BY DEF OnCallState, TypeOK, ObjRec

\* No step leaves the global pointing to a deleted object: whoever deletes the
\* object clears the global, REFER or not.
LEMMA PointerStep ==
    ASSUME TypeOK, CallPointerLive, [Next]_vars
    PROVE  CallPointerLive'
<1> USE DEF ptrs, params, heap, audio
<1>a. ASSUME UNCHANGED <<call, obj>> PROVE CallPointerLive'
    BY <1>a DEF CallPointerLive
<1>b. ASSUME call' = NULL PROVE CallPointerLive'
    BY <1>b DEF CallPointerLive
<1>c. ASSUME NEW s, NEW u \in Objs, NEW st, call' = call, OnCallState(s, u, st)
      PROVE  CallPointerLive'
    BY <1>c, TellKeepsLive DEF CallPointerLive, TypeOK
<1>o. ASSUME NEW o \in Objs, NEW i, NEW st, obj' = NewObj(o, i, st), call' = o
      PROVE  CallPointerLive'
    BY <1>o DEF CallPointerLive, NewObj, TypeOK
<1>u. \A s \in Slots : slot[s].user \in Objs \cup {NULL}
    BY DEF TypeOK, CallRec
<1>t. ASSUME NEW s \in Slots, NEW st, TellState(s, st), call' = call
      PROVE  CallPointerLive'
    BY <1>a, <1>c, <1>t, <1>u DEF TellState
<1>1. CASE UiStep /\ ~DeleteLibEnd
    <2>1. UNCHANGED <<call, obj>>
        BY <1>1 DEF UiStep, CreateLib, CreateLibAgain, ModifyAccount, UnregisterAccount,
           DeleteLibBegin, AskWithArg, Ask, Die, vars
    <2> QED BY <1>a, <2>1
<1>2. CASE DeleteLibEnd
    <2> DEFINE told == {slot[s].user : s \in {t \in Slots : IsActive(slot[t])}} \ {NULL}
    <2>1. \/ UNCHANGED <<call, obj>>
          \/ /\ call' = IF told = {} THEN call ELSE NULL
             /\ obj' = [o \in Objs |->
                          IF o = call /\ told # {} THEN NoObj
                          ELSE IF o \in told
                          THEN [obj[o] EXCEPT !.rep = "DISCONNECTED"]
                          ELSE obj[o]]
        BY <1>2 DEF DeleteLibEnd, Die
    <2> HIDE DEF told
    <2>2. CASE told = {}
        BY <2>1, <2>2 DEF CallPointerLive, TypeOK
    <2>3. CASE told # {}
        BY <1>a, <1>b, <2>1, <2>3
    <2> QED BY <2>2, <2>3
<1>3. CASE OnTimer
    <2>1. PICK i \in DOMAIN timers :
            \/ \E op \in DestOps, o \in Objs :
                 \/ FireMakeCallFails(i, op, o)
                 \/ \E s \in Slots : \/ FireMakeCall(i, op, o, s)
                                     \/ FireMakeCallNoInv(i, op, o, s)
                                     \/ FireMakeCallUnsent(i, op, o, s)
            \/ FireAnswer(i) \/ FireHangup(i)
            \/ FireHold(i, "HOLD_CALL", TRUE) \/ FireHold(i, "UNHOLD_CALL", FALSE)
            \/ FireMute(i, "MUTE_CALL", TRUE) \/ FireMute(i, "UNMUTE_CALL", FALSE)
            \/ FireSend(i, "SEND_DTMF_TONE", tone)
            \/ FireSend(i, "TRANSFER_CALL", xferDest)
        BY <1>3 DEF OnTimer
    <2>2. ASSUME NEW op, NEW o \in Objs, FireMakeCallFails(i, op, o)
          PROVE  CallPointerLive'
        BY <1>o, <2>2 DEF FireMakeCallFails
    <2>3. ASSUME NEW op, NEW o \in Objs, NEW s \in Slots,
                 \/ FireMakeCall(i, op, o, s) \/ FireMakeCallNoInv(i, op, o, s)
          PROVE  CallPointerLive'
        BY <1>o, <2>3 DEF FireMakeCall, FireMakeCallNoInv
    <2>4. ASSUME NEW op, NEW o, NEW s, FireMakeCallUnsent(i, op, o, s)
          PROVE  CallPointerLive'
        BY <1>b, <2>4 DEF FireMakeCallUnsent
    <2>5. CASE FireAnswer(i)
        <3>1. CASE UNCHANGED <<call, obj>>
            BY <1>a, <3>1
        <3>2. CASE ~UNCHANGED <<call, obj>>
            <4>1. /\ call \in Objs /\ obj[call].id \in Slots /\ call' = call
                  /\ slot[obj[call].id].user # NULL
                  /\ OnCallState(obj[call].id, slot[obj[call].id].user, "CONNECTING")
                BY <2>5, <3>2 DEF FireAnswer, NoInfo, TypeOK, ObjRec
            <4> QED BY <1>c, <1>u, <4>1
        <3> QED BY <3>1, <3>2
    <2>6. CASE FireHangup(i)
        BY <1>a, <1>b, <2>6 DEF FireHangup, OnDisconnected, ToldDisconnected
    <2>7. ASSUME NEW op, NEW b, FireHold(i, op, b) \/ FireMute(i, op, b) \/ FireSend(i, op, b)
          PROVE  CallPointerLive'
        BY <1>a, <2>7 DEF FireHold, FireMute, FireSend
    <2> QED BY <2>1, <2>2, <2>3, <2>4, <2>5, <2>6, <2>7
<1>4. CASE SipEvent
    <2>1. PICK s \in Slots :
            \/ CallbackToFreed(s) \/ \E o \in Objs : IncomingInvite(s, o)
            \/ \E sdp \in BOOLEAN : RemoteRings(s, sdp)
            \/ RemoteAnswers(s) \/ AckArrives(s) \/ MediaUpdate(s)
            \/ RemoteEnds(s) \/ HangupDone(s) \/ ReferFails(s)
            \/ \E t \in Slots : ReferArrives(s, t) \/ ReferNoInv(s, t) \/ ReferUnsent(s, t)
        BY <1>4 DEF SipEvent
    <2>2. CASE CallbackToFreed(s) \/ HangupDone(s)
        BY <1>a, <2>2 DEF CallbackToFreed, Die, HangupDone
    <2>3. ASSUME NEW o \in Objs, IncomingInvite(s, o) PROVE CallPointerLive'
        BY <1>o, <2>3 DEF IncomingInvite
    <2>4. ASSUME NEW sdp, RemoteRings(s, sdp) \/ RemoteAnswers(s) \/ AckArrives(s)
          PROVE  CallPointerLive'
        BY <1>t, <2>4 DEF RemoteRings, RemoteAnswers, AckArrives
    <2>5. CASE MediaUpdate(s)
        <3>1. /\ slot[s].user \in Objs /\ call' = call
              /\ obj' = [obj EXCEPT ![slot[s].user] = [@ EXCEPT !.id = s]]
            BY <1>u, <2>5 DEF MediaUpdate
        <3>2. \A o \in Objs : obj'[o].live <=> obj[o].live
            BY <3>1 DEF TypeOK, ObjRec
        <3> QED BY <3>1, <3>2 DEF CallPointerLive, TypeOK
    <2>6. CASE RemoteEnds(s)
        BY <1>a, <1>b, <2>6 DEF RemoteEnds, OnDisconnected, ToldDisconnected
    <2>7. ASSUME NEW t \in Slots, ReferArrives(s, t) PROVE CallPointerLive'
        BY <1>a, <1>c, <1>u, <2>7 DEF ReferArrives
    <2>8. CASE ReferFails(s)
        BY <1>a, <2>8 DEF ReferFails
    <2>9. ASSUME NEW t \in Slots, ReferNoInv(s, t) PROVE CallPointerLive'
        <3>1. CASE slot[s].user = NULL
            BY <1>a, <2>9, <3>1 DEF ReferNoInv
        <3>2. CASE slot[s].user # NULL
            <4>1. /\ slot[s].user \in Objs /\ call' = call
                  /\ obj' = [obj EXCEPT ![slot[s].user] = [@ EXCEPT !.id = t, !.rep = "NULL"]]
                BY <1>u, <2>9, <3>2 DEF ReferNoInv
            <4>2. \A o \in Objs : obj'[o].live <=> obj[o].live
                BY <4>1 DEF TypeOK, ObjRec
            <4> QED BY <4>1, <4>2 DEF CallPointerLive, TypeOK
        <3> QED BY <3>1, <3>2
    <2>10. ASSUME NEW t \in Slots, ReferUnsent(s, t) PROVE CallPointerLive'
        BY <1>a, <1>b, <2>10 DEF ReferUnsent, ToldDisconnected
    <2> QED BY <2>1, <2>2, <2>3, <2>4, <2>5, <2>6, <2>7, <2>8, <2>9, <2>10
<1>5. CASE UNCHANGED vars
    BY <1>a, <1>5 DEF vars
<1> QED BY <1>1, <1>2, <1>3, <1>4, <1>5 DEF Next

\* Whatever the user and the peers do, REFER included, the global call of
\* CustomPJSUA2.cpp never points to a deleted object: onCallState, which
\* deletes it, sets it to NULL, and the UI and the timers go through it.
THEOREM PointerSafe == Spec => []CallPointerLive
<1> DEFINE I == TypeOK /\ CallPointerLive
<1>1. Init => I
    BY InitInv DEF IInv, HeapInv
<1>2. I /\ [Next]_vars => I'
    BY TypeStep, PointerStep
<1> QED BY <1>1, <1>2, PTL DEF Spec

-------------------------------------------------------------------------------
(* The microphone and the media.                                           *)

\* A handler that replaces one slot, and at most adds that slot to the
\* microphone when its new record has media.
LEMMA OneSlot ==
    ASSUME TypeOK, MicInv, NEW s \in Slots, NEW c, Plugged(c),
           slot' = [slot EXCEPT ![s] = c],
           mic' \subseteq mic \cup {s}, s \in mic' => c.media
    PROVE  MicInv'
<1>1. slot'[s] = c /\ \A t \in Slots : t # s => slot'[t] = slot[t]
    BY DEF TypeOK
<1>2. \A t \in Slots : Plugged(slot'[t])
    BY <1>1 DEF MicInv
<1>3. \A t \in mic' : slot'[t].media
    BY <1>1 DEF MicInv, TypeOK
<1> QED BY <1>2, <1>3 DEF MicInv, Plugged

\* A slot that is free, or being hung up, is not connected.
LEMMA Unplugged ==
    ASSUME MicInv, NEW s \in Slots, slot[s].inv = "FREE" \/ slot[s].hangingUp
    PROVE  s \notin mic
    BY DEF MicInv, Plugged, IsActive

\* What a call record looks like when it is new or over.
LEMMA PluggedRecords ==
    /\ Plugged(Idle) /\ ~Idle.media
    /\ \A u : Plugged(OutgoingCall(u)) /\ ~OutgoingCall(u).media
    /\ \A u : Plugged(IncomingCall(u)) /\ ~IncomingCall(u).media
    /\ \A c \in CallRec : Plugged(EndSession(c)) /\ ~EndSession(c).media
    /\ \A c \in CallRec : Plugged(c) => Plugged(Hangup(c))
<1>1. Plugged(Idle) /\ ~Idle.media
    BY DEF Plugged, Idle
<1>2. \A u : /\ Plugged(OutgoingCall(u)) /\ ~OutgoingCall(u).media
             /\ Plugged(IncomingCall(u)) /\ ~IncomingCall(u).media
    BY DEF Plugged, Idle, OutgoingCall, IncomingCall
<1>3. \A c \in CallRec : Plugged(EndSession(c)) /\ ~EndSession(c).media
    BY HangupFacts DEF Plugged
<1>4. \A c \in CallRec : Plugged(c) => Plugged(Hangup(c))
    BY <1>3 DEF Plugged, Hangup, CallRec, IsActive
<1> QED BY <1>1, <1>2, <1>3, <1>4

\* The end of a call hangs up, at most, the call of the object it deletes, and
\* the microphone is taken off every slot whose media is gone.
LEMMA DisconnectUnplugs ==
    ASSUME TypeOK, MicInv, NEW s \in Slots, NEW rest \in CallRec, Plugged(rest),
           NEW u \in Objs, ToldDisconnected(s, u, rest)
    PROVE  MicInv'
<1> DEFINE own == [obj EXCEPT ![u] = [@ EXCEPT !.id = s, !.rep = "DISCONNECTED"]]
           cut == [slot EXCEPT ![s] = rest]
<1>1. cut \in [Slots -> CallRec] /\ \A t \in Slots : Plugged(cut[t])
    BY DEF TypeOK, MicInv
<1>2. slot' = IF call = NULL THEN cut ELSE DestroyCall(cut, own[call].id)
    BY DEF ToldDisconnected
<1>3. call # NULL => own[call].id \in Slots \cup {NoId}
    <2>2. own \in [Objs -> ObjRec]
        BY ObjTypes DEF TypeOK, Reports
    <2> QED BY <2>2 DEF TypeOK, ObjRec
<1>4. mic' = {t \in mic : slot'[t].media}
    BY DEF ToldDisconnected
<1> HIDE DEF cut, own
<1>5. ASSUME NEW k \in Slots \cup {NoId}
      PROVE  \A t \in Slots : Plugged(DestroyCall(cut, k)[t])
    BY <1>1, <1>5, PluggedRecords DEF DestroyCall
<1>6. \A t \in Slots : Plugged(slot'[t])
    BY <1>1, <1>2, <1>3, <1>5
<1> QED BY <1>4, <1>6 DEF MicInv, Plugged

\* Every handler keeps the media with the active calls, and the microphone with
\* the media.
LEMMA MicStep ==
    ASSUME TypeOK, MicInv, [Next]_vars
    PROVE  MicInv'
<1> USE DEF ptrs, params, heap, audio
<1>a. ASSUME UNCHANGED <<slot, mic>> PROVE MicInv'
    BY <1>a DEF MicInv, Plugged, IsActive
<1>r. \A s \in Slots : slot[s] \in CallRec /\ Plugged(slot[s])
    BY DEF TypeOK, MicInv
<1>m. \A s \in mic : s \in Slots /\ slot[s].media
    BY DEF TypeOK, MicInv
<1>u. \A s \in Slots : slot[s].user \in Objs \cup {NULL}
    BY DEF TypeOK, CallRec
<1>1. CASE UiStep /\ ~DeleteLibEnd
    <2>1. UNCHANGED <<slot, mic>>
        BY <1>1 DEF UiStep, CreateLib, CreateLibAgain, ModifyAccount, UnregisterAccount,
           DeleteLibBegin, AskWithArg, Ask, Die, vars
    <2> QED BY <1>a, <2>1
<1>2. CASE DeleteLibEnd
    <2>1. UNCHANGED <<slot, mic>> \/ (slot' = [s \in Slots |-> Idle] /\ mic' = {})
        BY <1>2 DEF DeleteLibEnd, Die
    <2>2. CASE slot' = [s \in Slots |-> Idle] /\ mic' = {}
        BY <2>2 DEF MicInv, Plugged, Idle
    <2> QED BY <1>a, <2>1, <2>2
\* A call that starts in a free slot.
<1>n. ASSUME NEW s \in Slots, NEW c, Plugged(c), ~c.media, slot[s].inv = "FREE",
             slot' = [slot EXCEPT ![s] = c], mic' = mic
      PROVE  MicInv'
    <2>1. s \notin mic'
        BY <1>n, Unplugged
    <2> QED BY <1>n, <2>1, OneSlot
<1>3. CASE OnTimer
    <2>1. PICK i \in DOMAIN timers :
            \/ \E op \in DestOps, o \in Objs :
                 \/ FireMakeCallFails(i, op, o)
                 \/ \E s \in Slots : \/ FireMakeCall(i, op, o, s)
                                     \/ FireMakeCallNoInv(i, op, o, s)
                                     \/ FireMakeCallUnsent(i, op, o, s)
            \/ FireAnswer(i) \/ FireHangup(i)
            \/ FireHold(i, "HOLD_CALL", TRUE) \/ FireHold(i, "UNHOLD_CALL", FALSE)
            \/ FireMute(i, "MUTE_CALL", TRUE) \/ FireMute(i, "UNMUTE_CALL", FALSE)
            \/ FireSend(i, "SEND_DTMF_TONE", tone)
            \/ FireSend(i, "TRANSFER_CALL", xferDest)
        BY <1>3 DEF OnTimer
    <2>2. ASSUME NEW op, NEW o, NEW s,
                 \/ FireMakeCallFails(i, op, o) \/ FireMakeCallNoInv(i, op, o, s)
                 \/ FireMakeCallUnsent(i, op, o, s)
          PROVE  MicInv'
        BY <1>a, <2>2 DEF FireMakeCallFails, FireMakeCallNoInv, FireMakeCallUnsent
    <2>3. ASSUME NEW op, NEW o, NEW s \in Slots, FireMakeCall(i, op, o, s)
          PROVE  MicInv'
        <3>1. /\ slot[s].inv = "FREE" /\ mic' = mic
              /\ slot' = [slot EXCEPT ![s] = OutgoingCall(o)]
            BY <2>3 DEF FireMakeCall, AllocCallId
        <3> QED BY <1>n, <3>1, PluggedRecords
    <2>4. CASE FireAnswer(i)
        <3>1. CASE UNCHANGED <<slot, mic>>
            BY <1>a, <3>1
        <3>2. CASE ~UNCHANGED <<slot, mic>>
            <4> DEFINE s == obj[call].id
                       c == [slot[s] EXCEPT !.inv = "CONNECTING", !.media = TRUE]
            <4>1. /\ s \in Slots /\ InfoState(slot[s]) = "INCOMING"
                  /\ slot' = [slot EXCEPT ![s] = c] /\ mic' = mic \cup {s}
                BY <2>4, <3>2 DEF FireAnswer, NoInfo, TypeOK, ObjRec
            <4> HIDE DEF s
            <4>2. ~slot[s].hangingUp
                BY <1>r, <4>1 DEF InfoState, CallRec
            <4>3. c.media /\ Plugged(c)
                BY <1>r, <4>1, <4>2 DEF CallRec, Plugged, IsActive
            <4> HIDE DEF c
            <4> QED BY <4>1, <4>3, OneSlot
        <3> QED BY <3>1, <3>2
    <2>5. CASE FireHangup(i)
        <3>1. CASE UNCHANGED <<slot, mic>>
            BY <1>a, <3>1
        <3>2. CASE ~UNCHANGED <<slot, mic>>
            <4> DEFINE s == obj[call].id
            <4>1. /\ s \in Slots
                  /\ \/ slot' = [slot EXCEPT ![s] = EndSession(slot[s])] /\ mic' = mic \ {s}
                     \/ slot[s].user # NULL /\ OnDisconnected(s, EndSession(slot[s]))
                BY <2>5, <3>2 DEF FireHangup, TypeOK, ObjRec
            <4> HIDE DEF s
            <4>2. /\ EndSession(slot[s]) \in CallRec
                  /\ Plugged(EndSession(slot[s])) /\ ~EndSession(slot[s]).media
                BY <1>r, <4>1, RecordTypes, PluggedRecords
            <4>3. CASE slot' = [slot EXCEPT ![s] = EndSession(slot[s])] /\ mic' = mic \ {s}
                BY <4>1, <4>2, <4>3, OneSlot
            <4>4. CASE slot[s].user # NULL /\ OnDisconnected(s, EndSession(slot[s]))
                BY <1>u, <4>1, <4>2, <4>4, DisconnectUnplugs DEF OnDisconnected
            <4> QED BY <4>1, <4>3, <4>4
        <3> QED BY <3>1, <3>2
    <2>6. ASSUME NEW op, NEW on, FireHold(i, op, on) PROVE MicInv'
        <3>1. CASE UNCHANGED slot
            BY <1>a, <2>6, <3>1 DEF FireHold
        <3>2. CASE ~UNCHANGED slot
            <4> DEFINE s == obj[call].id
                       c == [slot[s] EXCEPT !.hold = on]
            <4>1. /\ s \in Slots /\ slot' = [slot EXCEPT ![s] = c] /\ mic' = mic
                BY <2>6, <3>2 DEF FireHold, NoInfo, TypeOK, ObjRec
            <4> HIDE DEF s
            <4>2. Plugged(c) /\ (c.media <=> slot[s].media)
                BY <1>r, <4>1 DEF CallRec, Plugged, IsActive
            <4> HIDE DEF c
            <4> QED BY <1>m, <4>1, <4>2, OneSlot
        <3> QED BY <3>1, <3>2
    <2>7. ASSUME NEW op, NEW off, FireMute(i, op, off) PROVE MicInv'
        <3>1. slot' = slot /\ \A s \in mic' : s \in mic \/ slot[s].media
            BY <2>7 DEF FireMute
        <3> QED BY <1>r, <1>m, <3>1 DEF MicInv, Plugged, IsActive
    <2>8. ASSUME NEW op, NEW used, FireSend(i, op, used) PROVE MicInv'
        BY <1>a, <2>8 DEF FireSend
    <2> QED BY <2>1, <2>2, <2>3, <2>4, <2>5, <2>6, <2>7, <2>8
<1>4. CASE SipEvent
    <2>1. PICK s \in Slots :
            \/ CallbackToFreed(s) \/ \E o \in Objs : IncomingInvite(s, o)
            \/ \E sdp \in BOOLEAN : RemoteRings(s, sdp)
            \/ RemoteAnswers(s) \/ AckArrives(s) \/ MediaUpdate(s)
            \/ RemoteEnds(s) \/ HangupDone(s) \/ ReferFails(s)
            \/ \E t \in Slots : ReferArrives(s, t) \/ ReferNoInv(s, t) \/ ReferUnsent(s, t)
        BY <1>4 DEF SipEvent
    <2>2. CASE CallbackToFreed(s)
        BY <1>a, <2>2 DEF CallbackToFreed, Die
    <2>3. ASSUME NEW o, IncomingInvite(s, o) PROVE MicInv'
        <3>1. /\ slot[s].inv = "FREE" /\ mic' = mic
              /\ slot' = [slot EXCEPT ![s] = IncomingCall(o)]
            BY <2>3 DEF IncomingInvite, AllocCallId
        <3> QED BY <1>n, <3>1, PluggedRecords
    <2>4. ASSUME NEW sdp \in BOOLEAN, RemoteRings(s, sdp) PROVE MicInv'
        <3> DEFINE early == sdp /\ ~slot[s].hangingUp
                   c == [slot[s] EXCEPT !.inv = "EARLY", !.media = slot[s].media \/ early]
        <3>1. /\ slot' = [slot EXCEPT ![s] = c]
              /\ mic' = IF early THEN mic \cup {s} ELSE mic
            BY <2>4 DEF RemoteRings
        <3>2. s \in mic => slot[s].media
            BY <1>m
        <3>3. Plugged(c) /\ (c.media <=> slot[s].media \/ early)
            BY <1>r DEF CallRec, Plugged, IsActive
        <3> HIDE DEF c
        <3> QED BY <3>1, <3>2, <3>3, OneSlot
    <2>5. CASE RemoteAnswers(s)
        <3> DEFINE up == ~slot[s].hangingUp
                   c == [slot[s] EXCEPT !.inv = "CONFIRMED", !.media = up]
        <3>1. /\ slot' = [slot EXCEPT ![s] = c]
              /\ mic' = IF up THEN mic \cup {s} ELSE mic
            BY <2>5 DEF RemoteAnswers
        <3>2. ~up => s \notin mic
            BY Unplugged
        <3>3. Plugged(c) /\ (c.media <=> up)
            BY <1>r DEF CallRec, Plugged, IsActive
        <3> HIDE DEF c
        <3> QED BY <3>1, <3>2, <3>3, OneSlot
    <2>6. CASE AckArrives(s)
        <3> DEFINE c == [slot[s] EXCEPT !.inv = "CONFIRMED"]
        <3>1. /\ slot' = [slot EXCEPT ![s] = c] /\ mic' = mic
            BY <2>6 DEF AckArrives
        <3>2. Plugged(c) /\ (c.media <=> slot[s].media)
            BY <1>r DEF CallRec, Plugged, IsActive
        <3> HIDE DEF c
        <3> QED BY <1>m, <3>1, <3>2, OneSlot
    <2>7. CASE MediaUpdate(s)
        <3> DEFINE c == [slot[s] EXCEPT !.media = TRUE]
        <3>1. /\ slot' = [slot EXCEPT ![s] = c] /\ mic' \subseteq mic \cup {s}
              /\ IsActive(slot[s]) /\ slot[s].inv = "CONFIRMED"
            BY <2>7 DEF MediaUpdate
        <3>2. Plugged(c) /\ c.media
            BY <1>r, <3>1 DEF CallRec, Plugged, IsActive
        <3> HIDE DEF c
        <3> QED BY <3>1, <3>2, OneSlot
    <2>8. CASE RemoteEnds(s)
        <3>1. CASE slot[s].user = NULL
            <4>1. slot' = [slot EXCEPT ![s] = Idle] /\ mic' = mic \ {s}
                BY <2>8, <3>1 DEF RemoteEnds
            <4> QED BY <4>1, OneSlot, PluggedRecords
        <3>2. CASE slot[s].user # NULL
            <4>1. OnDisconnected(s, Idle)
                BY <2>8, <3>2 DEF RemoteEnds
            <4> QED BY <1>u, <3>2, <4>1, DisconnectUnplugs, PluggedRecords, RecordTypes
                    DEF OnDisconnected
        <3> QED BY <3>1, <3>2
    <2>9. CASE HangupDone(s)
        <3>1. slot' = [slot EXCEPT ![s] = Idle] /\ mic' = mic /\ slot[s].hangingUp
            BY <2>9 DEF HangupDone
        <3> QED BY <3>1, OneSlot, PluggedRecords, Unplugged
    <2>10. ASSUME NEW t \in Slots, ReferArrives(s, t) PROVE MicInv'
        <3>1. /\ slot[t].inv = "FREE" /\ mic' = mic
              /\ slot' = [slot EXCEPT ![t] = OutgoingCall(slot[s].user)]
            BY <2>10 DEF ReferArrives, AllocCallId
        <3> QED BY <1>n, <3>1, PluggedRecords
    <2>11. CASE ReferFails(s)
        BY <1>a, <2>11 DEF ReferFails
    <2>12. ASSUME NEW t \in Slots, ReferNoInv(s, t) PROVE MicInv'
        BY <1>a, <2>12 DEF ReferNoInv
    <2>13. ASSUME NEW t \in Slots, ReferUnsent(s, t) PROVE MicInv'
        <3>1. CASE slot[s].user = NULL
            BY <1>a, <2>13, <3>1 DEF ReferUnsent
        <3>2. CASE slot[s].user # NULL
            BY <1>u, <2>13, <3>2, DisconnectUnplugs, PluggedRecords, RecordTypes DEF ReferUnsent
        <3> QED BY <3>1, <3>2
    <2> QED BY <2>1, <2>2, <2>3, <2>4, <2>5, <2>6, <2>7, <2>8, <2>9, <2>10, <2>11, <2>12, <2>13
<1>5. CASE UNCHANGED vars
    BY <1>a, <1>5 DEF vars
<1> QED BY <1>1, <1>2, <1>3, <1>4, <1>5 DEF Next

\* MicInv, with the types, along every behaviour; the two theorems below read
\* their property off it.
LEMMA MicAlways == Spec => [](TypeOK /\ MicInv)
<1> DEFINE I == TypeOK /\ MicInv
<1>1. Init => I
    <2>1. Init => MicInv
        BY DEF Init, MicInv, Plugged, Idle
    <2> QED BY <2>1, InitInv DEF IInv
<1>2. I /\ [Next]_vars => I'
    BY TypeStep, MicStep
<1> QED BY <1>1, <1>2, PTL DEF Spec

\* In every behaviour, REFER included, the capture device transmits only to
\* calls that are active and have media: hang-up, BYE and the destructor of a
\* Call take the slot off the microphone in the step that ends the call.
THEOREM MicSafe == Spec => []MicOnlyToCalls
<1>1. TypeOK /\ MicInv => MicOnlyToCalls
    BY DEF TypeOK, MicInv, Plugged, MicOnlyToCalls
<1> QED BY <1>1, MicAlways, PTL

\* In every behaviour, REFER included, a call with media is active and past
\* CALLING and INCOMING.
THEOREM MediaSafe == Spec => []MediaOfActive
<1>1. TypeOK /\ MicInv => MediaOfActive
    BY DEF MicInv, Plugged, MediaOfActive
<1> QED BY <1>1, MicAlways, PTL

-------------------------------------------------------------------------------
(* The order of the reports.                                               *)

\* The step shows no object an earlier state than before.
Onward == \A o \in Objs : obj[o].live /\ obj'[o].live
                             => Rank(obj[o].rep) <= Rank(obj'[o].rep)

\* The ranks of the states that are stored or reported.
LEMMA Ranks ==
    /\ \A st \in Reports : Rank(st) \in 0 .. 6
    /\ \A st \in InvStates \ {"FREE"} : Rank(st) \in 2 .. 5
    /\ Rank("none") = 0 /\ Rank("NULL") = 1 /\ Rank("CALLING") = 2
    /\ Rank("INCOMING") = 2 /\ Rank("EARLY") = 3 /\ Rank("CONNECTING") = 4
    /\ Rank("CONFIRMED") = 5 /\ Rank("DISCONNECTED") = 6
    BY DEF Rank, Reports, InvStates

\* A step that touches neither the objects nor the table.
LEMMA QuietOnward ==
    ASSUME TypeOK, Behind, UNCHANGED <<obj, slot>>
    PROVE  Behind' /\ Onward
<1>1. \A o \in Objs : Rank(obj[o].rep) \in 0 .. 6
    BY Ranks DEF TypeOK, ObjRec
<1> QED BY <1>1 DEF Behind, Onward

\* Slot s moves to record c, of the same object, at or after the old state, and
\* the object hears of the new state or of none.
LEMMA MovesOnward ==
    ASSUME TypeOK, HeapInv, Behind, NEW s \in Slots, NEW c \in CallRec,
           slot' = [slot EXCEPT ![s] = c], c.user = slot[s].user,
           slot[s].inv # "FREE", c.inv # "FREE",
           Rank(slot[s].inv) <= Rank(c.inv),
           \/ obj' = obj
           \/ /\ slot[s].user # NULL
              /\ \E r \in ObjRec : /\ obj' = [obj EXCEPT ![slot[s].user] = r]
                                   /\ r.rep \in {obj[slot[s].user].rep, c.inv}
    PROVE  Behind' /\ Onward
<1> DEFINE u == slot[s].user
<1>1. \A o \in Objs : Rank(obj[o].rep) \in 0 .. 6
    BY Ranks DEF TypeOK, ObjRec
<1>2. Rank(slot[s].inv) \in 2 .. 5 /\ Rank(c.inv) \in 2 .. 5
    BY Ranks DEF TypeOK, CallRec
<1>3. slot'[s] = c /\ \A t \in Slots : t # s => slot'[t] = slot[t]
    BY DEF TypeOK
<1>4. \A t \in Slots : slot[t].user # NULL =>
          slot[t].user \in Objs /\ obj[slot[t].user].id = t
    BY DEF TypeOK, CallRec, HeapInv, UserDataLive
<1>5. u # NULL => u \in Objs /\ Rank(obj[u].rep) <= Rank(slot[s].inv)
    BY <1>4 DEF Behind
<1>6. u # NULL => Rank(obj'[u].rep) <= Rank(c.inv) /\ Rank(obj[u].rep) <= Rank(obj'[u].rep)
    <2>1. CASE obj' = obj
        BY <1>1, <1>2, <1>5, <2>1
    <2>2. CASE obj' # obj
        <3>1. PICK r \in ObjRec : /\ obj' = [obj EXCEPT ![u] = r]
                                  /\ r.rep \in {obj[u].rep, c.inv}
            BY <2>2
        <3>2. u # NULL => obj'[u] = r
            BY <1>5, <3>1 DEF TypeOK
        <3> QED BY <1>1, <1>2, <1>5, <3>1, <3>2
    <2> QED BY <2>1, <2>2
<1>7. \A o \in Objs : o # u => obj'[o] = obj[o]
    BY DEF TypeOK
<1>8. \A t \in Slots : t # s /\ slot[t].user # NULL => slot[t].user # u
    BY <1>4
<1>9. Onward
    <2> SUFFICES ASSUME NEW o \in Objs PROVE Rank(obj[o].rep) <= Rank(obj'[o].rep)
        BY DEF Onward
    <2>1. u \in Objs => u # NULL
        BY PjsuaCallsAssumption
    <2> HIDE DEF u
    <2> QED BY <1>1, <1>6, <1>7, <2>1
<1>10. Behind'
    <2> SUFFICES ASSUME NEW t \in Slots, slot'[t].user # NULL
                 PROVE  /\ slot'[t].inv # "FREE"
                        /\ Rank(obj'[slot'[t].user].rep) <= Rank(slot'[t].inv)
        BY DEF Behind
    <2>1. CASE t = s
        BY <1>3, <1>6, <2>1
    <2>2. CASE t # s
        <3>1. slot'[t] = slot[t] /\ slot[t].user \in Objs /\ slot[t].user # u
            BY <1>3, <1>4, <1>8, <2>2
        <3> QED BY <1>7, <3>1 DEF Behind
    <2> QED BY <2>1, <2>2
<1> QED BY <1>9, <1>10

\* A new object, in slot s or in none.
LEMMA StartsOnward ==
    ASSUME TypeOK, HeapInv, Behind, NEW o \in Objs, ~obj[o].live, NEW i, NEW st,
           obj' = NewObj(o, i, st),
           \/ slot' = slot
           \/ \E s \in Slots, c \in CallRec :
                  /\ slot' = [slot EXCEPT ![s] = c] /\ c.user = o
                  /\ c.inv # "FREE" /\ Rank(st) <= Rank(c.inv)
    PROVE  Behind' /\ Onward
<1>1. \A x \in Objs : x # o => obj'[x] = obj[x]
    BY DEF NewObj, TypeOK
<1>2. \A x \in Objs : Rank(obj[x].rep) \in 0 .. 6
    BY Ranks DEF TypeOK, ObjRec
<1>3. Onward
    BY <1>1, <1>2 DEF Onward
<1>4. \A t \in Slots : slot[t].user # NULL => slot[t].user \in Objs /\ slot[t].user # o
    BY DEF TypeOK, CallRec, HeapInv, UserDataLive
<1>5. CASE slot' = slot
    <2>1. ASSUME NEW t \in Slots, slot[t].user # NULL
          PROVE  obj'[slot[t].user] = obj[slot[t].user]
        BY <1>1, <1>4, <2>1
    <2> QED BY <1>3, <1>5, <2>1 DEF Behind
<1>6. CASE slot' # slot
    <2>1. PICK s \in Slots, c \in CallRec :
              /\ slot' = [slot EXCEPT ![s] = c] /\ c.user = o
              /\ c.inv # "FREE" /\ Rank(st) <= Rank(c.inv)
        BY <1>6
    <2>2. slot'[s] = c /\ \A t \in Slots : t # s => slot'[t] = slot[t]
        BY <2>1 DEF TypeOK
    <2>3. obj'[o].rep = st
        BY DEF NewObj, TypeOK
    <2>4. ASSUME NEW t \in Slots, t # s, slot[t].user # NULL
          PROVE  obj'[slot[t].user] = obj[slot[t].user]
        BY <1>1, <1>4, <2>4
    <2> SUFFICES ASSUME NEW t \in Slots, slot'[t].user # NULL
                 PROVE  /\ slot'[t].inv # "FREE"
                        /\ Rank(obj'[slot'[t].user].rep) <= Rank(slot'[t].inv)
        BY <1>3 DEF Behind
    <2>5. CASE t = s
        BY <2>1, <2>2, <2>3, <2>5
    <2>6. CASE t # s
        BY <2>2, <2>4, <2>6 DEF Behind
    <2> QED BY <2>5, <2>6
<1> QED BY <1>3, <1>5, <1>6

\* A call that ends: DISCONNECTED is the last state, and the slots that keep an
\* object are the ones the end of the call did not touch.
LEMMA EndsOnward ==
    ASSUME TypeOK, HeapInv, Behind, HeapInv', NEW s \in Slots, NEW rest \in CallRec,
           slot[s].user # NULL, rest.user = NULL, OnDisconnected(s, rest)
    PROVE  Behind' /\ Onward
<1> DEFINE u == slot[s].user
           own == [obj EXCEPT ![u] = [@ EXCEPT !.id = s, !.rep = "DISCONNECTED"]]
           cut == [slot EXCEPT ![s] = rest]
<1>1. u \in Objs
    BY DEF TypeOK, CallRec
<1>2. own \in [Objs -> ObjRec] /\ own[u].rep = "DISCONNECTED"
      /\ \A o \in Objs : o # u => own[o] = obj[o]
    <2>1. [obj[u] EXCEPT !.id = s, !.rep = "DISCONNECTED"] \in ObjRec
        BY <1>1, ObjTypes DEF TypeOK, Reports
    <2> QED BY <1>1, <2>1 DEF TypeOK, ObjRec
<1>3. cut \in [Slots -> CallRec] /\ cut[s] = rest
      /\ \A t \in Slots : t # s => cut[t] = slot[t]
    BY DEF TypeOK
<1>4. /\ call = NULL => obj' = own /\ slot' = cut
      /\ call # NULL => obj' = [own EXCEPT ![call] = NoObj]
                        /\ slot' = DestroyCall(cut, own[call].id)
    BY DEF OnDisconnected, ToldDisconnected
<1>5. call \in Objs \cup {NULL}
    BY DEF TypeOK
<1> HIDE DEF own, cut
<1>6. \A o \in Objs : obj'[o].live => obj'[o] = own[o]
    BY <1>2, <1>4, <1>5 DEF NoObj
<1>7. ASSUME NEW o \in Objs, obj'[o].live
      PROVE  obj'[o] = obj[o] \/ obj'[o].rep = "DISCONNECTED"
    BY <1>2, <1>6, <1>7
<1>8. \A o \in Objs : Rank(obj[o].rep) \in 0 .. 6
    BY Ranks DEF TypeOK, ObjRec
<1>9. Onward
    BY <1>7, <1>8, Ranks DEF Onward
<1>10. ASSUME NEW t \in Slots, slot'[t].user # NULL
       PROVE  slot'[t] = slot[t]
    <2>1. cut[t] \in CallRec
        BY <1>3
    <2>2. Hangup(cut[t]).user = NULL
        BY <2>1, HangupFacts
    <2>3. call # NULL => own[call].id \in Slots \cup {NoId}
        BY <1>2, <1>5 DEF ObjRec
    <2>4. slot'[t] = cut[t]
        BY <1>3, <1>4, <1>10, <2>2, <2>3 DEF DestroyCall
    <2> QED BY <1>3, <1>10, <2>4
<1>11. Behind'
    <2> SUFFICES ASSUME NEW t \in Slots, slot'[t].user # NULL
                 PROVE  /\ slot'[t].inv # "FREE"
                        /\ Rank(obj'[slot'[t].user].rep) <= Rank(slot'[t].inv)
        BY DEF Behind
    <2>1. slot'[t] = slot[t] /\ slot[t].user \in Objs
        BY <1>10 DEF TypeOK, CallRec
    <2>2. obj'[slot[t].user].live /\ obj'[slot[t].user].rep # "DISCONNECTED"
        BY <2>1 DEF HeapInv, UserDataLive
    <2>3. obj'[slot[t].user] = obj[slot[t].user]
        BY <1>7, <2>1, <2>2
    <2> QED BY <2>1, <2>3 DEF Behind
<1> QED BY <1>9, <1>11

\* Every handler reports forward, and leaves no object ahead of its call.
LEMMA ForwardStep ==
    ASSUME TypeOK, HeapInv, Behind, ~Refer, [Next]_vars
    PROVE  Behind' /\ Onward
<1> USE DEF ptrs, params, heap, audio
<1>h. HeapInv'
    BY HeapStep
<1>a. ASSUME UNCHANGED <<obj, slot>> PROVE Behind' /\ Onward
    BY <1>a, QuietOnward
<1>r. \A s \in Slots : slot[s] \in CallRec /\ slot[s].user \in Objs \cup {NULL}
    BY DEF TypeOK, CallRec
\* A state told to the object of a slot, as MovesOnward wants it.
<1>t. ASSUME NEW s \in Slots, NEW st \in Reports, slot[s].user # NULL,
             OnCallState(s, slot[s].user, st)
      PROVE  \E r \in ObjRec : /\ obj' = [obj EXCEPT ![slot[s].user] = r]
                               /\ r.rep = st
    <2> DEFINE r == [obj[slot[s].user] EXCEPT !.id = s, !.rep = st]
    <2>1. slot[s].user \in Objs
        BY <1>r, <1>t
    <2>2. r \in ObjRec /\ r.rep = st
        BY <2>1, ObjTypes DEF TypeOK, ObjRec
    <2>3. obj' = [obj EXCEPT ![slot[s].user] = r]
        BY <1>t DEF OnCallState
    <2> QED BY <2>2, <2>3
<1>k. {"EARLY", "CONNECTING", "CONFIRMED"} \subseteq Reports
    BY DEF Reports, InvStates
\* Slot s takes state st, later than its own, and says so if there is an object.
<1>m. ASSUME NEW s \in Slots, NEW st \in {"EARLY", "CONNECTING", "CONFIRMED"}, NEW c \in CallRec,
             slot' = [slot EXCEPT ![s] = c], c.user = slot[s].user, c.inv = st,
             slot[s].inv # "FREE", Rank(slot[s].inv) <= Rank(st),
             obj' = obj \/ (slot[s].user # NULL /\ OnCallState(s, slot[s].user, st))
      PROVE  Behind' /\ Onward
    <2>1. \/ obj' = obj
          \/ /\ slot[s].user # NULL
             /\ \E r \in ObjRec : /\ obj' = [obj EXCEPT ![slot[s].user] = r]
                                  /\ r.rep \in {obj[slot[s].user].rep, c.inv}
        BY <1>k, <1>m, <1>t
    <2> QED BY <1>m, <2>1, MovesOnward
\* A slot without an object that is over.
<1>n. ASSUME NEW s \in Slots, NEW rest, rest.user = NULL,
             slot' = [slot EXCEPT ![s] = rest], obj' = obj
      PROVE  Behind' /\ Onward
    <2>1. slot'[s].user = NULL /\ \A t \in Slots : t # s => slot'[t] = slot[t]
        BY <1>n DEF TypeOK
    <2>2. \A o \in Objs : Rank(obj[o].rep) \in 0 .. 6
        BY Ranks DEF TypeOK, ObjRec
    <2> QED BY <1>n, <2>1, <2>2 DEF Behind, Onward
<1>1. CASE UiStep /\ ~DeleteLibEnd
    <2>1. UNCHANGED <<obj, slot>>
        BY <1>1 DEF UiStep, CreateLib, CreateLibAgain, ModifyAccount, UnregisterAccount,
           DeleteLibBegin, AskWithArg, Ask, Die, vars
    <2> QED BY <1>a, <2>1
<1>2. CASE DeleteLibEnd
    <2> DEFINE told == {slot[s].user : s \in {t \in Slots : IsActive(slot[t])}} \ {NULL}
    <2>1. \/ UNCHANGED <<obj, slot>>
          \/ /\ slot' = [s \in Slots |-> Idle]
             /\ obj' = [o \in Objs |->
                          IF o = call /\ told # {} THEN NoObj
                          ELSE IF o \in told
                          THEN [obj[o] EXCEPT !.rep = "DISCONNECTED"]
                          ELSE obj[o]]
        BY <1>2 DEF DeleteLibEnd, Die
    <2>2. CASE ~UNCHANGED <<obj, slot>>
        <3> HIDE DEF told
        <3>1. \A o \in Objs : \/ obj'[o] = NoObj
                              \/ obj'[o].rep = "DISCONNECTED"
                              \/ obj'[o] = obj[o]
            BY <2>1, <2>2 DEF TypeOK, ObjRec
        <3>2. \A o \in Objs : Rank(obj[o].rep) \in 0 .. 6
            BY Ranks DEF TypeOK, ObjRec
        <3>3. Onward
            BY <3>1, <3>2, Ranks DEF Onward, NoObj
        <3>4. Behind'
            BY <2>1, <2>2 DEF Behind, Idle
        <3> QED BY <3>3, <3>4
    <2> QED BY <1>a, <2>2
<1>3. CASE OnTimer
    <2>1. PICK i \in DOMAIN timers :
            \/ \E op \in DestOps, o \in Objs :
                 \/ FireMakeCallFails(i, op, o)
                 \/ \E s \in Slots : \/ FireMakeCall(i, op, o, s)
                                     \/ FireMakeCallNoInv(i, op, o, s)
                                     \/ FireMakeCallUnsent(i, op, o, s)
            \/ FireAnswer(i) \/ FireHangup(i)
            \/ FireHold(i, "HOLD_CALL", TRUE) \/ FireHold(i, "UNHOLD_CALL", FALSE)
            \/ FireMute(i, "MUTE_CALL", TRUE) \/ FireMute(i, "UNMUTE_CALL", FALSE)
            \/ FireSend(i, "SEND_DTMF_TONE", tone)
            \/ FireSend(i, "TRANSFER_CALL", xferDest)
        BY <1>3 DEF OnTimer
    <2>2. ASSUME NEW op, NEW o \in Objs, FireMakeCallFails(i, op, o)
          PROVE  Behind' /\ Onward
        BY <2>2, StartsOnward DEF FireMakeCallFails
    <2>3. ASSUME NEW op, NEW o \in Objs, NEW s, FireMakeCallNoInv(i, op, o, s)
          PROVE  Behind' /\ Onward
        BY <2>3, StartsOnward DEF FireMakeCallNoInv
    <2>4. ASSUME NEW op, NEW o, NEW s, FireMakeCallUnsent(i, op, o, s)
          PROVE  Behind' /\ Onward
        BY <1>a, <2>4 DEF FireMakeCallUnsent
    <2>5. ASSUME NEW op, NEW o \in Objs, NEW s \in Slots, FireMakeCall(i, op, o, s)
          PROVE  Behind' /\ Onward
        <3>1. /\ ~obj[o].live /\ obj' = NewObj(o, s, "CALLING")
              /\ slot' = [slot EXCEPT ![s] = OutgoingCall(o)]
            BY <2>5 DEF FireMakeCall
        <3>2. /\ OutgoingCall(o) \in CallRec /\ OutgoingCall(o).user = o
              /\ OutgoingCall(o).inv = "CALLING"
            BY RecordTypes DEF OutgoingCall, Idle
        <3>3. Rank("CALLING") <= Rank(OutgoingCall(o).inv)
            BY <3>2, Ranks
        <3> QED BY <3>1, <3>2, <3>3, StartsOnward
    <2>6. CASE FireAnswer(i)
        <3>1. CASE UNCHANGED <<obj, slot>>
            BY <1>a, <3>1
        <3>2. CASE ~UNCHANGED <<obj, slot>>
            <4> DEFINE s == obj[call].id
                       c == [slot[s] EXCEPT !.inv = "CONNECTING", !.media = TRUE]
            <4>1. /\ s \in Slots /\ InfoState(slot[s]) = "INCOMING"
                  /\ slot' = [slot EXCEPT ![s] = c]
                  /\ \/ obj' = obj
                     \/ slot[s].user # NULL /\ OnCallState(s, slot[s].user, "CONNECTING")
                BY <2>6, <3>2 DEF FireAnswer, NoInfo, TypeOK, ObjRec
            <4> HIDE DEF s
            <4>2. slot[s].inv = "INCOMING"
                BY <1>r, <4>1 DEF InfoState
            <4>3. c \in CallRec /\ c.user = slot[s].user /\ c.inv = "CONNECTING"
                BY <1>r, <4>1 DEF CallRec, InvStates
            <4> HIDE DEF c
            <4>4. Rank(slot[s].inv) <= Rank("CONNECTING")
                BY <4>2, Ranks
            <4> QED BY <1>m, <4>1, <4>2, <4>3, <4>4
        <3> QED BY <3>1, <3>2
    <2>7. CASE FireHangup(i)
        <3>1. CASE UNCHANGED <<obj, slot>>
            BY <1>a, <3>1
        <3>2. CASE ~UNCHANGED <<obj, slot>>
            <4> DEFINE s == obj[call].id
            <4>1. /\ s \in Slots
                  /\ \/ slot' = [slot EXCEPT ![s] = EndSession(slot[s])] /\ obj' = obj
                     \/ slot[s].user # NULL /\ OnDisconnected(s, EndSession(slot[s]))
                BY <2>7, <3>2 DEF FireHangup, TypeOK, ObjRec
            <4> HIDE DEF s
            <4>2. EndSession(slot[s]) \in CallRec /\ EndSession(slot[s]).user = NULL
                BY <1>r, <4>1, RecordTypes, HangupFacts
            <4>3. CASE slot' = [slot EXCEPT ![s] = EndSession(slot[s])] /\ obj' = obj
                BY <1>n, <4>1, <4>2, <4>3
            <4> QED BY <1>h, <4>1, <4>2, <4>3, EndsOnward
        <3> QED BY <3>1, <3>2
    <2>8. ASSUME NEW op, NEW on \in BOOLEAN, FireHold(i, op, on) PROVE Behind' /\ Onward
        <3>1. CASE UNCHANGED slot
            BY <1>a, <2>8, <3>1 DEF FireHold
        <3>2. CASE ~UNCHANGED slot
            <4> DEFINE s == obj[call].id
                       c == [slot[s] EXCEPT !.hold = on]
            <4>1. /\ s \in Slots /\ slot' = [slot EXCEPT ![s] = c] /\ obj' = obj
                  /\ InfoState(slot[s]) = "CONFIRMED"
                BY <2>8, <3>2 DEF FireHold, NoInfo, TypeOK, ObjRec
            <4> HIDE DEF s
            <4>2. slot[s].inv = "CONFIRMED"
                BY <1>r, <4>1 DEF InfoState
            <4>3. c \in CallRec /\ c.user = slot[s].user /\ c.inv = "CONFIRMED"
                BY <1>r, <4>1, <4>2 DEF CallRec
            <4> HIDE DEF c
            <4>4. Rank(slot[s].inv) <= Rank("CONFIRMED")
                BY <4>2, Ranks
            <4> QED BY <1>m, <4>1, <4>2, <4>3, <4>4
        <3> QED BY <3>1, <3>2
    <2>9. ASSUME NEW op, NEW b, FireMute(i, op, b) \/ FireSend(i, op, b)
          PROVE  Behind' /\ Onward
        BY <1>a, <2>9 DEF FireMute, FireSend
    <2> QED BY <2>1, <2>2, <2>3, <2>4, <2>5, <2>6, <2>7, <2>8, <2>9
<1>4. CASE SipEvent
    <2>1. PICK s \in Slots :
            \/ CallbackToFreed(s) \/ \E o \in Objs : IncomingInvite(s, o)
            \/ \E sdp \in BOOLEAN : RemoteRings(s, sdp)
            \/ RemoteAnswers(s) \/ AckArrives(s) \/ MediaUpdate(s)
            \/ RemoteEnds(s) \/ HangupDone(s) \/ ReferFails(s)
            \/ \E t \in Slots : ReferArrives(s, t) \/ ReferNoInv(s, t) \/ ReferUnsent(s, t)
        BY <1>4 DEF SipEvent
    <2>2. CASE CallbackToFreed(s)
        BY <1>a, <2>2 DEF CallbackToFreed, Die
    <2>3. ASSUME NEW o \in Objs, IncomingInvite(s, o) PROVE Behind' /\ Onward
        <3>1. /\ ~obj[o].live /\ obj' = NewObj(o, s, "none")
              /\ slot' = [slot EXCEPT ![s] = IncomingCall(o)]
            BY <2>3 DEF IncomingInvite
        <3>2. /\ IncomingCall(o) \in CallRec /\ IncomingCall(o).user = o
              /\ IncomingCall(o).inv = "INCOMING"
            BY RecordTypes DEF IncomingCall, Idle
        <3>3. Rank("none") <= Rank(IncomingCall(o).inv)
            BY <3>2, Ranks
        <3> QED BY <3>1, <3>2, <3>3, StartsOnward
    <2>4. ASSUME NEW sdp \in BOOLEAN, RemoteRings(s, sdp) PROVE Behind' /\ Onward
        <3> DEFINE c == [slot[s] EXCEPT !.inv = "EARLY",
                                        !.media = slot[s].media \/ (sdp /\ ~slot[s].hangingUp)]
        <3>1. /\ slot[s].inv \in {"CALLING", "EARLY"} /\ slot' = [slot EXCEPT ![s] = c]
              /\ obj' = obj \/ (slot[s].user # NULL /\ OnCallState(s, slot[s].user, "EARLY"))
            BY <2>4 DEF RemoteRings, TellState
        <3>2. c \in CallRec /\ c.user = slot[s].user /\ c.inv = "EARLY"
            BY <1>r DEF CallRec, InvStates
        <3> HIDE DEF c
        <3>3. Rank(slot[s].inv) <= Rank("EARLY")
            BY <3>1, Ranks
        <3> QED BY <1>m, <3>1, <3>2, <3>3
    <2>5. CASE RemoteAnswers(s)
        <3> DEFINE c == [slot[s] EXCEPT !.inv = "CONFIRMED", !.media = ~slot[s].hangingUp]
        <3>1. /\ slot[s].inv \in {"CALLING", "EARLY"} /\ slot' = [slot EXCEPT ![s] = c]
              /\ obj' = obj \/ (slot[s].user # NULL /\ OnCallState(s, slot[s].user, "CONFIRMED"))
            BY <2>5 DEF RemoteAnswers, TellState
        <3>2. c \in CallRec /\ c.user = slot[s].user /\ c.inv = "CONFIRMED"
            BY <1>r DEF CallRec, InvStates
        <3>3. slot[s].inv # "FREE" /\ Rank(slot[s].inv) <= Rank("CONFIRMED")
            BY <3>1, Ranks
        <3> HIDE DEF c
        <3> QED BY <1>m, <3>1, <3>2, <3>3
    <2>6. CASE AckArrives(s)
        <3> DEFINE c == [slot[s] EXCEPT !.inv = "CONFIRMED"]
        <3>1. /\ slot[s].inv = "CONNECTING" /\ slot' = [slot EXCEPT ![s] = c]
              /\ obj' = obj \/ (slot[s].user # NULL /\ OnCallState(s, slot[s].user, "CONFIRMED"))
            BY <2>6 DEF AckArrives, TellState
        <3>2. c \in CallRec /\ c.user = slot[s].user /\ c.inv = "CONFIRMED"
            BY <1>r DEF CallRec, InvStates
        <3> HIDE DEF c
        <3>3. Rank(slot[s].inv) <= Rank("CONFIRMED")
            BY <3>1, Ranks
        <3> QED BY <1>m, <3>1, <3>2, <3>3
    <2>7. CASE MediaUpdate(s)
        <3> DEFINE c == [slot[s] EXCEPT !.media = TRUE]
                   u == slot[s].user
                   r == [obj[u] EXCEPT !.id = s]
        <3>1. /\ slot[s].inv = "CONFIRMED" /\ slot' = [slot EXCEPT ![s] = c]
              /\ u # NULL /\ obj' = [obj EXCEPT ![u] = r]
            BY <2>7 DEF MediaUpdate
        <3>2. c \in CallRec /\ c.user = slot[s].user /\ c.inv = slot[s].inv
            BY <1>r DEF CallRec
        <3>3. u \in Objs
            BY <1>r, <3>1
        <3>4. r \in ObjRec /\ r.rep = obj[u].rep
            BY <3>3 DEF TypeOK, ObjRec
        <3> HIDE DEF c, r
        <3>5. \E x \in ObjRec : /\ obj' = [obj EXCEPT ![slot[s].user] = x]
                                /\ x.rep \in {obj[slot[s].user].rep, c.inv}
            BY <3>1, <3>4
        <3>6. c.inv # "FREE" /\ Rank(slot[s].inv) <= Rank(c.inv)
            BY <3>1, <3>2, Ranks
        <3> QED BY <3>1, <3>2, <3>5, <3>6, MovesOnward
    <2>8. CASE RemoteEnds(s)
        <3>0. Idle \in CallRec /\ Idle.user = NULL
            BY RecordTypes DEF Idle
        <3>1. CASE slot[s].user = NULL
            <4>1. slot' = [slot EXCEPT ![s] = Idle] /\ obj' = obj
                BY <2>8, <3>1 DEF RemoteEnds
            <4> QED BY <1>n, <3>0, <4>1
        <3>2. CASE slot[s].user # NULL
            <4>1. OnDisconnected(s, Idle)
                BY <2>8, <3>2 DEF RemoteEnds
            <4> QED BY <1>h, <3>0, <3>2, <4>1, EndsOnward
        <3> QED BY <3>1, <3>2
    <2>9. CASE HangupDone(s)
        <3>1. slot' = [slot EXCEPT ![s] = Idle] /\ obj' = obj
            BY <2>9 DEF HangupDone
        <3> QED BY <1>n, <3>1 DEF Idle
    <2>10. ASSUME NEW t \in Slots,
                  ReferFails(s) \/ ReferArrives(s, t) \/ ReferNoInv(s, t) \/ ReferUnsent(s, t)
           PROVE  FALSE
        BY <2>10 DEF ReferFails, ReferArrives, ReferNoInv, ReferUnsent, Referred
    <2> QED BY <2>1, <2>2, <2>3, <2>4, <2>5, <2>6, <2>7, <2>8, <2>9, <2>10
<1>5. CASE UNCHANGED vars
    BY <1>a, <1>5 DEF vars
<1> QED BY <1>1, <1>2, <1>3, <1>4, <1>5 DEF Next

\* Without REFER the listener is told the states of a call in the order of its
\* life, whatever the timers, the provisional and final responses, the re-INVITEs
\* and the ends of the calls interleave to.
THEOREM InOrder == ASSUME ~Refer PROVE Spec => ReportsForward
<1> DEFINE I == TypeOK /\ HeapInv /\ Behind
<1>1. Init => I
    <2>1. Init => Behind
        BY DEF Init, Behind, Idle
    <2> QED BY <2>1, InitInv DEF IInv
<1>2. I /\ [Next]_vars => I'
    BY TypeStep, HeapStep, ForwardStep
<1>3. I /\ [Next]_vars => [Onward]_vars
    BY ForwardStep
<1> QED BY <1>1, <1>2, <1>3, PTL DEF Spec, ReportsForward, Onward

-------------------------------------------------------------------------------
(* The queue of requests.                                                  *)

\* A timer taken out of the queue leaves the others, in their order.
LEMMA RemoveAtElements ==
    ASSUME NEW S, NEW q \in Seq(S), NEW i \in DOMAIN q
    PROVE  /\ DOMAIN RemoveAt(q, i) = 1 .. Len(q) - 1
           /\ \A k \in 1 .. Len(q) - 1 :
                 RemoveAt(q, i)[k] = IF k < i THEN q[k] ELSE q[k + 1]
<1> DEFINE a == SubSeq(q, 1, i - 1)
           b == SubSeq(q, i + 1, Len(q))
<1>1. i \in 1 .. Len(q) /\ Len(q) \in Nat
    BY LenProperties
<1>2. a \in Seq(S) /\ Len(a) = i - 1 /\ \A k \in 1 .. i - 1 : a[k] = q[k]
    BY <1>1, SubSeqProperties
<1>3. b \in Seq(S) /\ Len(b) = Len(q) - i /\ \A k \in 1 .. Len(q) - i : b[k] = q[k + i]
    <2>1. CASE i = Len(q)
        BY <1>1, <2>1, SubSeqProperties
    <2>2. CASE i < Len(q)
        BY <1>1, <2>2, SubSeqProperties
    <2> QED BY <1>1, <2>1, <2>2
<1>4. RemoveAt(q, i) = a \o b
    BY DEF RemoveAt
<1> HIDE DEF a, b
<1>5. /\ a \o b \in Seq(S) /\ Len(a \o b) = Len(a) + Len(b)
      /\ \A k \in 1 .. Len(a) + Len(b) :
            (a \o b)[k] = IF k <= Len(a) THEN a[k] ELSE b[k - Len(a)]
    BY <1>2, <1>3, ConcatProperties
<1>6. DOMAIN (a \o b) = 1 .. Len(q) - 1
    <2>1. DOMAIN (a \o b) = 1 .. Len(a \o b)
        BY <1>5, LenProperties
    <2>2. Len(a) + Len(b) = Len(q) - 1
        BY <1>1, <1>2, <1>3
    <2> QED BY <1>5, <2>1, <2>2
<1>7. ASSUME NEW k \in 1 .. Len(q) - 1
      PROVE  (a \o b)[k] = IF k < i THEN q[k] ELSE q[k + 1]
    <2>0. k \in 1 .. Len(a) + Len(b) /\ k \in Int /\ Len(a) \in Int
        BY <1>1, <1>2, <1>3
    <2>1. CASE k < i
        <3>1. k <= Len(a) /\ k \in 1 .. i - 1
            BY <1>1, <1>2, <2>1
        <3> QED BY <1>2, <1>5, <2>0, <2>1, <3>1
    <2>2. CASE ~(k < i)
        <3> DEFINE m == k - Len(a)
        <3>1. m \in 1 .. Len(q) - i /\ m + i = k + 1 /\ ~(k <= Len(a))
            BY <1>1, <1>2, <2>2
        <3>2. (a \o b)[k] = b[m]
            BY <1>5, <2>0, <3>1
        <3> HIDE DEF m
        <3>3. b[m] = q[m + i]
            BY <1>3, <3>1
        <3> QED BY <2>2, <3>1, <3>2, <3>3
    <2> QED BY <2>1, <2>2
<1> QED BY <1>4, <1>6, <1>7

\* The next request's place in the queue.
LEMMA ScheduleElements ==
    ASSUME TypeOK, NEW op, NEW arg, Schedule(op, arg)
    PROVE  /\ DOMAIN timers = 1 .. Len(timers) /\ Len(timers) \in Nat
           /\ DOMAIN timers' = 1 .. Len(timers) + 1
           /\ \A k \in DOMAIN timers : timers'[k] = timers[k]
           /\ timers'[Len(timers) + 1].op = op
           /\ timers'[Len(timers) + 1].arg = arg
<1>1. PICK later : timers' = Append(timers, [op |-> op, arg |-> arg, later |-> later])
    BY DEF Schedule
<1>2. timers \in Seq(Timer) /\ DOMAIN timers = 1 .. Len(timers) /\ Len(timers) \in Nat
    BY LenProperties DEF TypeOK
<1> DEFINE e == [op |-> op, arg |-> arg, later |-> later]
<1>3. timers \in Seq(Timer \cup {e})
    BY <1>2, SeqDef
<1>4. e.op = op /\ e.arg = arg /\ timers' = Append(timers, e)
    BY <1>1
<1> HIDE DEF e
<1>5. /\ DOMAIN Append(timers, e) = 1 .. Len(timers) + 1
      /\ \A k \in 1 .. Len(timers) : Append(timers, e)[k] = timers[k]
      /\ Append(timers, e)[Len(timers) + 1] = e
    BY <1>2, <1>3, AppendProperties, LenProperties
<1> QED BY <1>2, <1>4, <1>5

-------------------------------------------------------------------------------
(* A user who makes, and peers who offer, one call at a time.              *)

\* No free slot is taken by the step.
StaysFree == \A s \in Slots : slot[s].inv = "FREE" => slot'[s].inv = "FREE"

\* Carrying out request i: no other request for a call is left when i asked for
\* one, and the others are what they were.
LEMMA AskedAfterPop ==
    ASSUME TypeOK, AskedOnce, NEW i \in DOMAIN timers, timers' = RemoveAt(timers, i),
           timers[i].op \in DestOps \/ StaysFree
    PROVE  AskedOnce'
<1> DEFINE from(k) == IF k < i THEN k ELSE k + 1
<1>1. DOMAIN timers = 1 .. Len(timers) /\ Len(timers) \in Nat
    BY LenProperties DEF TypeOK
<1>2. /\ DOMAIN timers' = 1 .. Len(timers) - 1
      /\ \A k \in 1 .. Len(timers) - 1 : timers'[k] = timers[from(k)]
    <2>1. /\ DOMAIN RemoveAt(timers, i) = 1 .. Len(timers) - 1
          /\ \A k \in 1 .. Len(timers) - 1 :
                RemoveAt(timers, i)[k] = IF k < i THEN timers[k] ELSE timers[k + 1]
        BY RemoveAtElements DEF TypeOK
    <2> QED BY <2>1
<1>3. \A k \in 1 .. Len(timers) - 1 : from(k) \in DOMAIN timers /\ from(k) # i
    BY <1>1
<1>4. \A k, m \in 1 .. Len(timers) - 1 : from(k) = from(m) => k = m
    BY <1>1
<1> HIDE DEF from
<1>5. ASSUME NEW k \in DOMAIN timers', timers'[k].op \in DestOps
      PROVE  /\ \A s \in Slots : slot'[s].inv = "FREE"
             /\ \A m \in DOMAIN timers' : timers'[m].op \in DestOps => k = m
    <2>1. from(k) \in DOMAIN timers /\ from(k) # i /\ timers[from(k)].op \in DestOps
        BY <1>2, <1>3, <1>5
    <2>2. timers[i].op \notin DestOps
        BY <2>1 DEF AskedOnce
    <2>3. \A s \in Slots : slot'[s].inv = "FREE"
        BY <2>1, <2>2 DEF AskedOnce, StaysFree
    <2>4. ASSUME NEW m \in DOMAIN timers', timers'[m].op \in DestOps
          PROVE  from(k) = from(m)
        <3>1. from(m) \in DOMAIN timers /\ timers[from(m)].op \in DestOps
            BY <1>2, <1>3, <2>4
        <3> QED BY <2>1, <3>1 DEF AskedOnce
    <2> QED BY <1>2, <1>4, <2>3, <2>4
<1> QED BY <1>5 DEF AskedOnce

\* A step that starts no call, and moves an object at most to the active slot.
LEMMA CallLasts ==
    ASSUME TypeOK, OneCall, ActiveCallIsControlled, StaysFree, call' = call,
           \A s \in Slots : IsActive(slot'[s]) => IsActive(slot[s]),
           \A o \in Objs : \/ obj'[o].id = obj[o].id
                           \/ \E s \in Slots : IsActive(slot[s]) /\ obj'[o].id = s
    PROVE  OneCall' /\ ActiveCallIsControlled'
<1>1. OneCall'
    BY DEF OneCall, StaysFree
<1>2. ASSUME NEW s \in Slots, IsActive(slot'[s])
      PROVE  call' # NULL /\ obj'[call'].id = s
    <2>1. IsActive(slot[s]) /\ call # NULL /\ obj[call].id = s /\ call \in Objs
        BY <1>2 DEF ActiveCallIsControlled, TypeOK
    <2>2. \A t \in Slots : IsActive(slot[t]) => t = s
        BY <2>1 DEF OneCall, IsActive
    <2> QED BY <2>1, <2>2
<1> QED BY <1>1, <1>2 DEF ActiveCallIsControlled

\* After the end of the active call nothing is active.
LEMMA CallEnds ==
    ASSUME TypeOK, OneCall, NEW s \in Slots, NEW rest \in CallRec, IsActive(slot[s]),
           slot[s].user # NULL, ~IsActive(rest), OnDisconnected(s, rest)
    PROVE  StaysFree /\ OneCall' /\ ActiveCallIsControlled'
<1> DEFINE u == slot[s].user
           own == [obj EXCEPT ![u] = [@ EXCEPT !.id = s, !.rep = "DISCONNECTED"]]
           cut == [slot EXCEPT ![s] = rest]
<1>1. cut \in [Slots -> CallRec] /\ cut[s] = rest
      /\ \A t \in Slots : t # s => cut[t] = slot[t]
    BY DEF TypeOK
<1>2. slot' = IF call = NULL THEN cut ELSE DestroyCall(cut, own[call].id)
    BY DEF OnDisconnected, ToldDisconnected
<1>3. call # NULL => own[call].id \in Slots \cup {NoId}
    <2>1. u \in Objs
        BY DEF TypeOK, CallRec
    <2>2. own \in [Objs -> ObjRec]
        BY <2>1, ObjTypes DEF TypeOK, Reports
    <2> QED BY <2>2 DEF TypeOK, ObjRec
<1>4. \A t \in Slots : t # s => slot[t].inv = "FREE"
    BY DEF OneCall, IsActive
<1> HIDE DEF own, cut
<1>5. ASSUME NEW t \in Slots PROVE slot'[t] = cut[t] \/ slot'[t] = Hangup(cut[t])
    BY <1>1, <1>2, <1>3 DEF DestroyCall
<1>6. ASSUME NEW c \in CallRec
      PROVE  (c.inv = "FREE" => Hangup(c).inv = "FREE") /\ ~IsActive(Hangup(c))
    <2>1. c.inv = "FREE" => Hangup(c).inv = "FREE"
        BY DEF Hangup, IsActive, CallRec
    <2> QED BY <2>1, HangupFacts
<1>7. ASSUME NEW t \in Slots
      PROVE  (t # s => slot'[t].inv = "FREE") /\ ~IsActive(slot'[t])
    <2>1. CASE t = s
        BY <1>1, <1>5, <1>6, <2>1
    <2>2. CASE t # s
        <3>1. cut[t] \in CallRec /\ cut[t].inv = "FREE"
            BY <1>1, <1>4, <2>2
        <3> QED BY <1>5, <1>6, <3>1 DEF IsActive
    <2> QED BY <2>1, <2>2
<1>8. slot[s].inv # "FREE"
    BY DEF IsActive
<1> QED BY <1>7, <1>8 DEF StaysFree, OneCall, ActiveCallIsControlled

\* A call starts when there is none: its object becomes the global.
LEMMA CallStarts ==
    ASSUME TypeOK, \A t \in Slots : slot[t].inv = "FREE", NEW s \in Slots, NEW c,
           slot' = [slot EXCEPT ![s] = c], NEW o \in Objs, NEW st,
           obj' = NewObj(o, s, st), call' = o
    PROVE  OneCall' /\ ActiveCallIsControlled'
<1>1. \A t \in Slots : t # s => slot'[t].inv = "FREE"
    BY DEF TypeOK
<1>2. call' # NULL /\ obj'[call'].id = s
    BY PjsuaCallsAssumption DEF NewObj, TypeOK
<1> QED BY <1>1, <1>2 DEF OneCall, ActiveCallIsControlled, IsActive

\* No handler breaks the rule of the one call.
LEMMA SingleStep ==
    ASSUME TypeOK, SingleInv, ~CallWaiting, ~Refer, [Next]_vars
    PROVE  SingleInv'
<1> USE DEF ptrs, params, heap, audio
<1>0. AskedOnce /\ OneCall /\ ActiveCallIsControlled
    BY DEF SingleInv
<1>r. \A s \in Slots : slot[s] \in CallRec /\ slot[s].user \in Objs \cup {NULL}
    BY DEF TypeOK, CallRec
\* Nothing that the invariant reads changes.
<1>a. ASSUME UNCHANGED <<call, obj, slot>> PROVE StaysFree /\ OneCall' /\ ActiveCallIsControlled'
    BY <1>0, <1>a DEF StaysFree, OneCall, ActiveCallIsControlled, IsActive
<1>b. ASSUME UNCHANGED <<timers>>, StaysFree PROVE AskedOnce'
    BY <1>0, <1>b DEF AskedOnce, StaysFree
\* Slot s changes into c, no more active than it was.
<1>c. ASSUME NEW s \in Slots, NEW c, slot' = [slot EXCEPT ![s] = c], call' = call,
             slot[s].inv = "FREE" => c.inv = "FREE", IsActive(c) => IsActive(slot[s]),
             \/ obj' = obj
             \/ IsActive(slot[s]) /\ \E u \in Objs : \A o \in Objs :
                    obj'[o].id = IF o = u THEN s ELSE obj[o].id
      PROVE  StaysFree /\ OneCall' /\ ActiveCallIsControlled'
    <2>1. slot'[s] = c /\ \A t \in Slots : t # s => slot'[t] = slot[t]
        BY <1>c DEF TypeOK
    <2>2. StaysFree /\ \A t \in Slots : IsActive(slot'[t]) => IsActive(slot[t])
        BY <1>c, <2>1 DEF StaysFree
    <2>3. \A o \in Objs : \/ obj'[o].id = obj[o].id
                          \/ \E t \in Slots : IsActive(slot[t]) /\ obj'[o].id = t
        BY <1>c
    <2> QED BY <1>0, <1>c, <2>2, <2>3, CallLasts
\* What a report does to the ids.
<1>d. ASSUME NEW s \in Slots, slot[s].user # NULL, NEW st, OnCallState(s, slot[s].user, st)
      PROVE  \E u \in Objs : \A o \in Objs : obj'[o].id = IF o = u THEN s ELSE obj[o].id
    <2>1. slot[s].user \in Objs
        BY <1>d, <1>r
    <2>2. \A o \in Objs : obj'[o].id = IF o = slot[s].user THEN s ELSE obj[o].id
        BY <1>d, <2>1 DEF OnCallState, TypeOK, ObjRec
    <2> QED BY <2>1, <2>2
<1>e. ASSUME NEW s \in Slots, slot[s].inv # "FREE", NEW st, TellState(s, st)
      PROVE  \/ obj' = obj
             \/ IsActive(slot[s]) /\ \E u \in Objs : \A o \in Objs :
                    obj'[o].id = IF o = u THEN s ELSE obj[o].id
    BY <1>d, <1>e DEF TellState, IsActive
\* A new request.
<1>1. ASSUME NEW op, NEW arg, MayAsk(op), Schedule(op, arg), UNCHANGED <<call, obj, slot>>
      PROVE  SingleInv'
    <2>1. op \in DestOps => NoCall
        BY <1>1 DEF MayAsk
    <2> DEFINE n == Len(timers) + 1
    <2>2. /\ DOMAIN timers' = 1 .. n /\ DOMAIN timers = 1 .. n - 1 /\ n \in Nat \ {0}
          /\ \A k \in DOMAIN timers : timers'[k] = timers[k]
          /\ timers'[n].op = op
        BY <1>1, ScheduleElements
    <2> HIDE DEF n
    <2>3. \A k \in DOMAIN timers' : k = n \/ (k \in DOMAIN timers /\ timers'[k] = timers[k])
        BY <2>2
    <2>4. AskedOnce'
        <3>1. CASE op \in DestOps
            BY <1>1, <2>1, <2>2, <2>3, <3>1 DEF AskedOnce, NoCall
        <3>2. CASE op \notin DestOps
            BY <1>0, <1>1, <2>2, <2>3, <3>2 DEF AskedOnce
        <3> QED BY <3>1, <3>2
    <2> QED BY <1>1, <1>a, <2>4 DEF SingleInv
<1>2. CASE UiStep /\ ~DeleteLibEnd
    <2>1. CASE UNCHANGED <<timers, call, obj, slot>>
        BY <1>a, <1>b, <2>1 DEF SingleInv
    <2>2. CASE ~UNCHANGED <<timers, call, obj, slot>>
        <3>1. \E op, a : MayAsk(op) /\ Schedule(op, a) /\ UNCHANGED <<call, obj, slot>>
            BY <1>2, <2>2 DEF UiStep, CreateLib, CreateLibAgain, ModifyAccount,
               UnregisterAccount, DeleteLibBegin, AskWithArg, Ask, Die, vars
        <3> QED BY <1>1, <3>1
    <2> QED BY <2>1, <2>2
<1>3. CASE DeleteLibEnd
    <2>1. CASE UNCHANGED <<timers, call, obj, slot>>
        BY <1>a, <1>b, <2>1 DEF SingleInv
    <2>2. CASE ~UNCHANGED <<timers, call, obj, slot>>
        <3>1. timers' = << >> /\ slot' = [s \in Slots |-> Idle]
            BY <1>3, <2>2 DEF DeleteLibEnd, Die
        <3> QED BY <3>1 DEF SingleInv, AskedOnce, OneCall, ActiveCallIsControlled, Idle, IsActive
    <2> QED BY <2>1, <2>2
<1>4. CASE OnTimer
    <2>1. PICK i \in DOMAIN timers :
            \/ \E op \in DestOps, o \in Objs :
                 \/ FireMakeCallFails(i, op, o)
                 \/ \E s \in Slots : \/ FireMakeCall(i, op, o, s)
                                     \/ FireMakeCallNoInv(i, op, o, s)
                                     \/ FireMakeCallUnsent(i, op, o, s)
            \/ FireAnswer(i) \/ FireHangup(i)
            \/ FireHold(i, "HOLD_CALL", TRUE) \/ FireHold(i, "UNHOLD_CALL", FALSE)
            \/ FireMute(i, "MUTE_CALL", TRUE) \/ FireMute(i, "UNMUTE_CALL", FALSE)
            \/ FireSend(i, "SEND_DTMF_TONE", tone)
            \/ FireSend(i, "TRANSFER_CALL", xferDest)
        BY <1>4 DEF OnTimer
    \* A request that is not for a call.
    <2>p. ASSUME NEW op, Pop(i, op), StaysFree /\ OneCall' /\ ActiveCallIsControlled'
          PROVE  SingleInv'
        BY <1>0, <2>p, AskedAfterPop DEF Pop, SingleInv
    \* A request for a call: there is none.
    <2>q. ASSUME NEW op \in DestOps, Pop(i, op)
          PROVE  AskedOnce' /\ \A s \in Slots : slot[s].inv = "FREE"
        <3>1. AskedOnce'
            BY <1>0, <2>q, AskedAfterPop DEF Pop
        <3> QED BY <1>0, <2>q, <3>1 DEF Pop, AskedOnce
    <2>2. ASSUME NEW op \in DestOps, NEW o, NEW s,
                 \/ FireMakeCallFails(i, op, o) \/ FireMakeCallNoInv(i, op, o, s)
                 \/ FireMakeCallUnsent(i, op, o, s)
          PROVE  SingleInv'
        <3>1. Pop(i, op) /\ slot' = slot
            BY <2>2 DEF FireMakeCallFails, FireMakeCallNoInv, FireMakeCallUnsent
        <3> QED BY <2>q, <3>1 DEF SingleInv, OneCall, ActiveCallIsControlled, IsActive
    <2>3. ASSUME NEW op \in DestOps, NEW o \in Objs, NEW s \in Slots, FireMakeCall(i, op, o, s)
          PROVE  SingleInv'
        <3>1. /\ Pop(i, op) /\ slot' = [slot EXCEPT ![s] = OutgoingCall(o)]
              /\ obj' = NewObj(o, s, "CALLING") /\ call' = o
            BY <2>3 DEF FireMakeCall
        <3>2. AskedOnce' /\ \A t \in Slots : slot[t].inv = "FREE"
            BY <2>q, <3>1
        <3> QED BY <3>1, <3>2, CallStarts DEF SingleInv
    <2>4. CASE FireAnswer(i)
        <3>0. Pop(i, "ANSWER_CALL")
            BY <2>4 DEF FireAnswer
        <3>1. CASE UNCHANGED <<call, obj, slot>>
            BY <1>a, <2>p, <3>0, <3>1
        <3>2. CASE ~UNCHANGED <<call, obj, slot>>
            <4> DEFINE s == obj[call].id
                       c == [slot[s] EXCEPT !.inv = "CONNECTING", !.media = TRUE]
            <4>1. /\ s \in Slots /\ InfoState(slot[s]) = "INCOMING" /\ call' = call
                  /\ slot' = [slot EXCEPT ![s] = c]
                  /\ \/ obj' = obj
                     \/ slot[s].user # NULL /\ OnCallState(s, slot[s].user, "CONNECTING")
                BY <2>4, <3>2 DEF FireAnswer, NoInfo, TypeOK, ObjRec
            <4> HIDE DEF s, c
            <4>2. IsActive(slot[s]) /\ slot[s].inv # "FREE"
                BY <1>r, <4>1 DEF InfoState, IsActive, CallRec
            <4>3. StaysFree /\ OneCall' /\ ActiveCallIsControlled'
                BY <1>c, <1>d, <4>1, <4>2
            <4> QED BY <2>p, <3>0, <4>3
        <3> QED BY <3>1, <3>2
    <2>5. CASE FireHangup(i)
        <3>0. Pop(i, "HANGUP_CALL")
            BY <2>5 DEF FireHangup
        <3>1. CASE UNCHANGED <<call, obj, slot>>
            BY <1>a, <2>p, <3>0, <3>1
        <3>2. CASE ~UNCHANGED <<call, obj, slot>>
            <4> DEFINE s == obj[call].id
            <4>1. /\ s \in Slots /\ IsActive(slot[s])
                  /\ \/ /\ slot' = [slot EXCEPT ![s] = EndSession(slot[s])]
                        /\ UNCHANGED <<call, obj>>
                     \/ slot[s].user # NULL /\ OnDisconnected(s, EndSession(slot[s]))
                BY <2>5, <3>2 DEF FireHangup, TypeOK, ObjRec
            <4> HIDE DEF s
            <4>2. /\ EndSession(slot[s]) \in CallRec /\ ~IsActive(EndSession(slot[s]))
                  /\ slot[s].inv # "FREE"
                BY <1>r, <4>1, RecordTypes, HangupFacts DEF IsActive
            <4>3. CASE slot' = [slot EXCEPT ![s] = EndSession(slot[s])] /\ UNCHANGED <<call, obj>>
                <5>1. StaysFree /\ OneCall' /\ ActiveCallIsControlled'
                    BY <1>c, <4>1, <4>2, <4>3
                <5> QED BY <2>p, <3>0, <5>1
            <4>4. CASE slot[s].user # NULL /\ OnDisconnected(s, EndSession(slot[s]))
                <5>1. StaysFree /\ OneCall' /\ ActiveCallIsControlled'
                    BY <1>0, <4>1, <4>2, <4>4, CallEnds
                <5> QED BY <2>p, <3>0, <5>1
            <4> QED BY <4>1, <4>3, <4>4
        <3> QED BY <3>1, <3>2
    <2>6. ASSUME NEW op, NEW on, FireHold(i, op, on) PROVE SingleInv'
        <3>0. Pop(i, op) /\ UNCHANGED <<call, obj>>
            BY <2>6 DEF FireHold
        <3>1. CASE UNCHANGED slot
            BY <1>a, <2>p, <3>0, <3>1
        <3>2. CASE ~UNCHANGED slot
            <4> DEFINE s == obj[call].id
                       c == [slot[s] EXCEPT !.hold = on]
            <4>1. s \in Slots /\ slot' = [slot EXCEPT ![s] = c]
                BY <2>6, <3>2 DEF FireHold, NoInfo, TypeOK, ObjRec
            <4> HIDE DEF s
            <4>2. c.inv = slot[s].inv /\ (IsActive(c) => IsActive(slot[s]))
                BY <1>r, <4>1 DEF IsActive, CallRec
            <4> HIDE DEF c
            <4>3. StaysFree /\ OneCall' /\ ActiveCallIsControlled'
                BY <1>c, <3>0, <4>1, <4>2
            <4> QED BY <2>p, <3>0, <4>3
        <3> QED BY <3>1, <3>2
    <2>7. ASSUME NEW op, NEW b, FireMute(i, op, b) \/ FireSend(i, op, b)
          PROVE  SingleInv'
        <3>1. Pop(i, op) /\ UNCHANGED <<call, obj, slot>>
            BY <2>7 DEF FireMute, FireSend
        <3> QED BY <1>a, <2>p, <3>1
    <2> QED BY <2>1, <2>2, <2>3, <2>4, <2>5, <2>6, <2>7
<1>5. CASE SipEvent
    <2>1. PICK s \in Slots :
            \/ CallbackToFreed(s) \/ \E o \in Objs : IncomingInvite(s, o)
            \/ \E sdp \in BOOLEAN : RemoteRings(s, sdp)
            \/ RemoteAnswers(s) \/ AckArrives(s) \/ MediaUpdate(s)
            \/ RemoteEnds(s) \/ HangupDone(s) \/ ReferFails(s)
            \/ \E t \in Slots : ReferArrives(s, t) \/ ReferNoInv(s, t) \/ ReferUnsent(s, t)
        BY <1>5 DEF SipEvent
    <2>p. ASSUME UNCHANGED timers, StaysFree /\ OneCall' /\ ActiveCallIsControlled'
          PROVE  SingleInv'
        BY <1>b, <2>p DEF SingleInv
    <2>2. CASE CallbackToFreed(s)
        BY <1>a, <2>2, <2>p DEF CallbackToFreed, Die
    <2>3. ASSUME NEW o \in Objs, IncomingInvite(s, o) PROVE SingleInv'
        <3>1. /\ NoCall /\ UNCHANGED timers
              /\ slot' = [slot EXCEPT ![s] = IncomingCall(o)]
              /\ obj' = NewObj(o, s, "none") /\ call' = o
            BY <2>3 DEF IncomingInvite
        <3>2. OneCall' /\ ActiveCallIsControlled'
            BY <3>1, CallStarts DEF NoCall
        <3>3. AskedOnce'
            BY <3>1 DEF AskedOnce, NoCall
        <3> QED BY <3>2, <3>3 DEF SingleInv
    \* An event that moves the call on, with or without a report.
    <2>m. ASSUME NEW c, NEW st, slot' = [slot EXCEPT ![s] = c], UNCHANGED <<timers, call>>,
                 slot[s].inv # "FREE", IsActive(c) => ~slot[s].hangingUp, TellState(s, st)
          PROVE  SingleInv'
        <3>1. IsActive(c) => IsActive(slot[s])
            BY <2>m DEF IsActive
        <3>2. StaysFree /\ OneCall' /\ ActiveCallIsControlled'
            BY <1>c, <1>e, <2>m, <3>1
        <3> QED BY <2>m, <2>p, <3>2
    <2>4. ASSUME NEW sdp \in BOOLEAN, RemoteRings(s, sdp) PROVE SingleInv'
        <3> DEFINE c == [slot[s] EXCEPT !.inv = "EARLY",
                                        !.media = slot[s].media \/ (sdp /\ ~slot[s].hangingUp)]
        <3>1. /\ slot[s].inv \in {"CALLING", "EARLY"} /\ slot' = [slot EXCEPT ![s] = c]
              /\ UNCHANGED <<timers, call>> /\ TellState(s, "EARLY")
            BY <2>4 DEF RemoteRings
        <3>2. IsActive(c) => ~slot[s].hangingUp
            BY <1>r DEF CallRec, IsActive
        <3> HIDE DEF c
        <3> QED BY <2>m, <3>1, <3>2
    <2>5. CASE RemoteAnswers(s)
        <3> DEFINE c == [slot[s] EXCEPT !.inv = "CONFIRMED", !.media = ~slot[s].hangingUp]
        <3>1. /\ slot[s].inv \in {"CALLING", "EARLY"} /\ slot' = [slot EXCEPT ![s] = c]
              /\ UNCHANGED <<timers, call>> /\ TellState(s, "CONFIRMED")
            BY <2>5 DEF RemoteAnswers
        <3>2. IsActive(c) => ~slot[s].hangingUp
            BY <1>r DEF CallRec, IsActive
        <3> HIDE DEF c
        <3> QED BY <2>m, <3>1, <3>2
    <2>6. CASE AckArrives(s)
        <3> DEFINE c == [slot[s] EXCEPT !.inv = "CONFIRMED"]
        <3>1. /\ slot[s].inv = "CONNECTING" /\ slot' = [slot EXCEPT ![s] = c]
              /\ UNCHANGED <<timers, call>> /\ TellState(s, "CONFIRMED")
            BY <2>6 DEF AckArrives
        <3>2. IsActive(c) => ~slot[s].hangingUp
            BY <1>r DEF CallRec, IsActive
        <3> HIDE DEF c
        <3> QED BY <2>m, <3>1, <3>2
    <2>7. CASE MediaUpdate(s)
        <3> DEFINE c == [slot[s] EXCEPT !.media = TRUE]
                   u == slot[s].user
        <3>1. /\ IsActive(slot[s]) /\ u # NULL /\ slot' = [slot EXCEPT ![s] = c]
              /\ obj' = [obj EXCEPT ![u] = [@ EXCEPT !.id = s]]
              /\ UNCHANGED <<timers, call>>
            BY <2>7 DEF MediaUpdate
        <3>2. u \in Objs
            BY <1>r, <3>1
        <3> HIDE DEF c, u
        <3>3. \A o \in Objs : obj'[o].id = IF o = u THEN s ELSE obj[o].id
            BY <3>1, <3>2 DEF TypeOK, ObjRec
        <3>4. slot[s].inv # "FREE"
            BY <3>1 DEF IsActive
        <3>5. StaysFree /\ OneCall' /\ ActiveCallIsControlled'
            BY <1>c, <3>1, <3>2, <3>3, <3>4
        <3> QED BY <2>p, <3>1, <3>5
    <2>i. Idle \in CallRec /\ Idle.inv = "FREE" /\ ~IsActive(Idle)
        BY RecordTypes DEF Idle, IsActive
    <2>8. CASE RemoteEnds(s)
        <3>0. UNCHANGED timers /\ IsActive(slot[s])
            BY <2>8 DEF RemoteEnds
        <3>1. CASE slot[s].user = NULL
            <4>1. slot' = [slot EXCEPT ![s] = Idle] /\ UNCHANGED <<call, obj>>
                BY <2>8, <3>1 DEF RemoteEnds
            <4>2. StaysFree /\ OneCall' /\ ActiveCallIsControlled'
                BY <1>c, <2>i, <4>1
            <4> QED BY <2>p, <3>0, <4>2
        <3>2. CASE slot[s].user # NULL
            <4>1. OnDisconnected(s, Idle)
                BY <2>8, <3>2 DEF RemoteEnds
            <4>2. StaysFree /\ OneCall' /\ ActiveCallIsControlled'
                BY <1>0, <2>i, <3>0, <3>2, <4>1, CallEnds
            <4> QED BY <2>p, <3>0, <4>2
        <3> QED BY <3>1, <3>2
    <2>9. CASE HangupDone(s)
        <3>1. slot' = [slot EXCEPT ![s] = Idle] /\ UNCHANGED <<timers, call, obj>>
            BY <2>9 DEF HangupDone
        <3>2. StaysFree /\ OneCall' /\ ActiveCallIsControlled'
            BY <1>c, <2>i, <3>1
        <3> QED BY <2>p, <3>1, <3>2
    <2>10. ASSUME NEW t \in Slots,
                  ReferFails(s) \/ ReferArrives(s, t) \/ ReferNoInv(s, t) \/ ReferUnsent(s, t)
           PROVE  FALSE
        BY <2>10 DEF ReferFails, ReferArrives, ReferNoInv, ReferUnsent, Referred
    <2> QED BY <2>1, <2>2, <2>3, <2>4, <2>5, <2>6, <2>7, <2>8, <2>9, <2>10
<1>6. CASE UNCHANGED vars
    BY <1>a, <1>b, <1>6 DEF vars, SingleInv
<1> QED BY <1>2, <1>3, <1>4, <1>5, <1>6 DEF Next

\* When a call starts only while there is none, and no peer sends REFER, the
\* active call is always the one the global call points to, so that answer,
\* hold, mute and hang-up reach it, however the timers, the responses and the
\* end of the call interleave, and also with requests pending one upon another.
THEOREM Controlled ==
    ASSUME ~CallWaiting, ~Refer
    PROVE  Spec => []ActiveCallIsControlled
<1> DEFINE I == TypeOK /\ SingleInv
<1>1. Init => I
    <2>1. Init => SingleInv
        BY DEF Init, SingleInv, AskedOnce, OneCall, ActiveCallIsControlled, Idle, IsActive
    <2> QED BY <2>1, InitInv DEF IInv
<1>2. I /\ [Next]_vars => I'
    BY TypeStep, SingleStep
<1>3. I => ActiveCallIsControlled
    BY DEF SingleInv
<1> QED BY <1>1, <1>2, <1>3, PTL DEF Spec
===============================================================================
