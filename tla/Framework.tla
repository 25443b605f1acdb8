------------------------------- MODULE Framework -------------------------------
(***************************************************************************)
(* PJSIPFramework/PJSua2/CustomPJSUA2.cpp: the C++ object the Swift wrapper*)
(* calls, on top of pjsua2 (Endpoint, Account, Call) and of the call table *)
(* of PJSUA.  Two threads share the globals call, ep and acc:              *)
(*   - the thread of the user interface calls the methods of class PJSua2; *)
(*     a call operation only stores its argument in the account object and *)
(*     schedules a timer with delay 0;                                     *)
(*   - PJSUA's one worker thread runs MyEndpoint::onTimer and the          *)
(*     callbacks of the SIP stack, one at a time.                          *)
(* A handler of the worker is one action.                                  *)
(***************************************************************************)
EXTENDS PjsuaCalls, Sequences, SequencesExt

CONSTANTS Peers,        \* URIs (and tones) a request can be given
          MaxTimers,    \* bound: timers pending at a time
          UiOps,        \* bound: the operations the UI asks for
          Overlap,      \* the UI may issue a request while others are pending
          CallWaiting,  \* a call may start while another one exists
          Refer         \* the peer may send REFER (call transfer)

\* The op codes of the enum at the head of the file.
Ops == {"MAKE_CALL", "ANSWER_CALL", "HOLD_CALL", "UNHOLD_CALL", "HANGUP_CALL",
        "MUTE_CALL", "UNMUTE_CALL", "SEND_DTMF_TONE", "TRANSFER_CALL",
        "SEND_INVITE_TO_ANSWER_CALL"}

ASSUME FrameworkAssumption ==
    /\ NULL \notin Peers
    /\ MaxTimers \in Nat \ {0}
    /\ UiOps \subseteq Ops
    /\ Overlap \in BOOLEAN
    /\ CallWaiting \in BOOLEAN
    /\ Refer \in BOOLEAN

VARIABLES
    ep,        \* Endpoint *ep: "null", "live" or "freed"
    lib,       \* pjsua_var.state: "down", "inited" or "running"
    acc,       \* MyAccount *acc: "null", "invalid" (create threw), "valid", "freed"
    ui,        \* the UI thread: "idle" or "deleting" (inside deleteLib)
    timers,    \* pending user timers in the order they were scheduled
    dest, tone, xferDest,  \* acc->dest_uri, acc->dtmf_tone, acc->transfer_dest
    call,      \* Call *call
    obj,       \* the Call objects: allocated or not, id, last state reported
    slot,      \* pjsua_var.calls
    nextId,    \* pjsua_var.next_call_id
    mic,       \* slots the capture device transmits to
    sndDev,    \* the sound device selected (cap_dev, play_dev): "default" or "null"
    sentOk,    \* the last request carried out used the argument it was given
    fault      \* "none", or why the process is gone

ptrs   == <<ep, lib, acc, ui>>
params == <<dest, tone, xferDest>>
heap   == <<call, obj, slot, nextId>>
audio  == <<mic, sndDev>>
vars   == <<ptrs, timers, params, heap, audio, sentOk, fault>>

\* The operations whose argument travels through a member of the account.
DestOps == {"MAKE_CALL", "SEND_INVITE_TO_ANSWER_CALL"}
ArgOps  == DestOps \cup {"SEND_DTMF_TONE", "TRANSFER_CALL"}

Reports == {"none", "NULL", "DISCONNECTED"} \cup (InvStates \ {"FREE"})
ObjRec  == [live : BOOLEAN, id : Slots \cup {NoId}, rep : Reports]
Timer   == [op : Ops, arg : Peers \cup {NULL}, later : BOOLEAN]
Faults  == {"none", "nullPointer", "useAfterFree", "uncaughtError"}

\* The types of the globals, the objects, the table and the timers; next_call_id is at most one
\* past the last slot, as alloc_call_id leaves it.
TypeOK ==
    /\ ep \in {"null", "live", "freed"}
    /\ lib \in {"down", "inited", "running"}
    /\ acc \in {"null", "invalid", "valid", "freed"}
    /\ ui \in {"idle", "deleting"}
    /\ timers \in Seq(Timer)
    /\ dest \in Peers \cup {NULL}
    /\ tone \in Peers \cup {NULL}
    /\ xferDest \in Peers \cup {NULL}
    /\ call \in Objs \cup {NULL}
    /\ obj \in [Objs -> ObjRec]
    /\ slot \in [Slots -> CallRec]
    /\ nextId \in 0 .. MaxCalls
    /\ mic \subseteq Slots
    /\ sndDev \in {"default", "null"}
    /\ sentOk \in BOOLEAN
    /\ fault \in Faults

NoObj == [live |-> FALSE, id |-> NoId, rep |-> "none"]

Init ==
    /\ ep = "null" /\ lib = "down" /\ acc = "null" /\ ui = "idle"
    /\ timers = << >>
    /\ dest = NULL /\ tone = NULL /\ xferDest = NULL
    /\ call = NULL /\ obj = [o \in Objs |-> NoObj]
    /\ slot = [s \in Slots |-> Idle] /\ nextId = 0
    /\ mic = {} /\ sndDev = "default"
    /\ sentOk = TRUE
    /\ fault = "none"

\* The process dies; the rest of its state no longer matters.
Die(why) == /\ fault' = why
            /\ UNCHANGED <<ptrs, timers, params, heap, audio, sentOk>>

-------------------------------------------------------------------------------
(* The UI thread: the methods of class PJSua2.                             *)

UiReady == fault = "none" /\ ui = "idle"

\* createLib on a fresh process, with the setAccount it ends with.  Every step
\* catches its error and goes on to the next one.
CreateLib ==
    /\ UiReady
    /\ ep = "null"
    /\ ep' = "live"
    /\ lib' \in {"down", "inited", "running"}
    /\ acc' = IF acc = "null"
              THEN IF lib' = "down" THEN "invalid" ELSE "valid"
              ELSE acc
    /\ UNCHANGED <<ui, timers, params, heap, audio, sentOk, fault>>

\* createLib when ep is set returns at once: the endpoint of deleteLib too.
CreateLibAgain ==
    /\ UiReady
    /\ ep # "null"
    /\ UNCHANGED vars

\* createAccount and setAccount.  Before createLib there is no account and no
\* transport, so create fails and leaves an account that is not valid.  Once
\* the object exists both modify it; the error of modify is caught, and a
\* deleted account is used all the same.
ModifyAccount ==
    /\ UiReady
    /\ \/ /\ acc = "null"
          /\ acc' = "invalid"
          /\ UNCHANGED <<ep, lib, ui, timers, params, heap, audio, sentOk, fault>>
       \/ acc \in {"invalid", "valid"} /\ UNCHANGED vars
       \/ acc = "freed" /\ Die("useAfterFree")

\* unregisterAccount: no account configured here has a registrar, so
\* setRegistration raises PJ_EINVALIDOP, which nothing catches.
UnregisterAccount ==
    /\ UiReady
    /\ acc # "null"
    /\ Die(IF acc = "freed" THEN "useAfterFree" ELSE "uncaughtError")

\* deleteLib, first part: pj_thread_sleep(500) while the worker goes on.
DeleteLibBegin ==
    /\ UiReady
    /\ ui' = "deleting"
    /\ UNCHANGED <<ep, lib, acc, timers, params, heap, audio, sentOk, fault>>

\* What a timer that is still pending does when libDestroy polls it.
LateFault(g) ==
    IF \E i \in DOMAIN timers : timers[i].op \in ArgOps THEN "useAfterFree"
    ELSE IF /\ g # NULL
            /\ \E i \in DOMAIN timers :
                  timers[i].op \in {"ANSWER_CALL", "MUTE_CALL", "UNMUTE_CALL"}
         THEN "uncaughtError"
    ELSE "none"

\* deleteLib, second part: delete acc, libDestroy (hang up every call, each
\* reporting DISCONNECTED to its object, then poll for a while), delete ep.
\* Neither acc nor ep is set to NULL, nor is ep tested for it.
DeleteLibEnd ==
    /\ fault = "none" /\ ui = "deleting"
    /\ IF ep = "null" THEN Die("nullPointer")
       ELSE IF ep = "freed" \/ \E s \in Slots : /\ IsActive(slot[s])
                                           /\ slot[s].user # NULL
                                           /\ ~obj[slot[s].user].live
       THEN Die("useAfterFree")
       ELSE LET told == {slot[s].user : s \in {t \in Slots : IsActive(slot[t])}}
                          \ {NULL}
            IN /\ ep' = "freed" /\ lib' = "down" /\ ui' = "idle"
               /\ acc' = IF acc = "null" THEN "null" ELSE "freed"
               /\ timers' = << >>
               /\ slot' = [s \in Slots |-> Idle]
               /\ call' = IF told = {} THEN call ELSE NULL
               /\ obj' = [o \in Objs |->
                            IF o = call /\ told # {} THEN NoObj
                            ELSE IF o \in told
                            THEN [obj[o] EXCEPT !.rep = "DISCONNECTED"]
                            ELSE obj[o]]
               /\ nextId' = 0
               /\ mic' = {}
               /\ fault' = LateFault(call')
               /\ UNCHANGED <<params, sndDev, sentOk>>

\* There is no call and none has been asked for.
NoCall == /\ \A s \in Slots : slot[s].inv = "FREE"
          /\ \A i \in DOMAIN timers : timers[i].op \notin DestOps

\* What the UI may ask for: when Overlap is FALSE it waits until the pending
\* request is done, when CallWaiting is FALSE until there is no call.
MayAsk(op) == /\ UiReady
              /\ Len(timers) < MaxTimers
              /\ Overlap \/ timers = << >>
              /\ op \in DestOps => CallWaiting \/ NoCall

\* ep->utilTimerSchedule(0, op).  later: the clock (1 ms) has moved on since
\* the previous timer was scheduled; timers of the same instant may be polled
\* in any order.
Schedule(op, arg) ==
    \E later \in IF timers = << >> THEN {FALSE} ELSE BOOLEAN :
        timers' = Append(timers, [op |-> op, arg |-> arg, later |-> later])

\* outgoingCall(uri) and answerCall(uri, ..) share acc->dest_uri, sendDTMFTone
\* and transferCall have a member each; all of them return without an account.
AskWithArg(op, a) ==
    /\ MayAsk(op)
    /\ acc # "null"
    /\ IF acc = "freed" \/ ep = "freed" THEN Die("useAfterFree")
       ELSE IF lib = "down" THEN Die("nullPointer")
       ELSE /\ Schedule(op, a)
            /\ dest' = IF op \in DestOps THEN a ELSE dest
            /\ tone' = IF op = "SEND_DTMF_TONE" THEN a ELSE tone
            /\ xferDest' = IF op = "TRANSFER_CALL" THEN a ELSE xferDest
            /\ UNCHANGED <<ptrs, heap, audio, sentOk, fault>>

\* answerCall, holdCall, unholdCall, muteCall, unMuteCall: ep is not checked;
\* hangupCall returns when it is NULL.
Ask(op) ==
    /\ MayAsk(op)
    /\ op = "HANGUP_CALL" => ep # "null"
    /\ IF ep = "freed" THEN Die("useAfterFree")
       ELSE IF ep = "null" \/ lib = "down" THEN Die("nullPointer")
       ELSE /\ Schedule(op, NULL)
            /\ UNCHANGED <<ptrs, params, heap, audio, sentOk, fault>>

-------------------------------------------------------------------------------
(* The worker thread: callbacks.                                           *)

WorkerReady == fault = "none" /\ lib = "running"

\* Call::lookup finds an object that has been deleted.
Dangling(s) == slot[s].user # NULL /\ ~obj[slot[s].user].live

\* MyCall::onCallState for a state other than DISCONNECTED, for the call that
\* slot s holds when the callback runs: the listener is told, the caller id
\* stored, and the sound device chosen.
SndDevFor(st) == CASE st = "CALLING" -> "null"
                   [] st = "EARLY"   -> "default"
                   [] OTHER          -> sndDev

OnCallState(s, u, st) ==
    /\ obj' = [obj EXCEPT ![u] = [@ EXCEPT !.id = s, !.rep = st]]
    /\ sndDev' = SndDevFor(st)

\* Mutant of OnDisconnected: call = NULL is missing after delete call.
DeletesButKeepsPointer(s, rest) ==
    LET own == [obj EXCEPT ![slot[s].user] = [@ EXCEPT !.id = s, !.rep = "DISCONNECTED"]]
    IN  /\ obj' = IF call = NULL THEN own ELSE [own EXCEPT ![call] = NoObj]
        /\ slot' = DestroyCall([slot EXCEPT ![s] = rest],
                              IF call = NULL THEN NoId ELSE own[call].id)
        /\ mic' = {t \in mic : slot'[t].media}
        /\ UNCHANGED call

\* MyCall::onCallState of object u for DISCONNECTED on slot s, which the library
\* leaves as rest: processStateChange has cut the tie to the object, and the
\* handler deletes the object the global points to, whichever call that one
\* belongs to.
ToldDisconnected(s, u, rest) ==
    LET own == [obj EXCEPT ![u] = [@ EXCEPT !.id = s, !.rep = "DISCONNECTED"]]
        cut == [slot EXCEPT ![s] = rest]
    IN  /\ call' = NULL
        /\ IF call = NULL THEN obj' = own /\ slot' = cut
           ELSE /\ obj' = [own EXCEPT ![call] = NoObj]
                /\ slot' = DestroyCall(cut, own[call].id)
        /\ mic' = {t \in mic : slot'[t].media}

\* The same for the object that slot s has.
OnDisconnected(s, rest) == ToldDisconnected(s, slot[s].user, rest)

-------------------------------------------------------------------------------
(* The worker thread: MyEndpoint::onTimer.                                 *)

\* The poll pops a timer of the oldest instant.
Due(i) == i \in DOMAIN timers /\ \A j \in 2 .. i : ~timers[j].later

Pop(i, op) == /\ WorkerReady
              /\ Due(i)
              /\ timers[i].op = op
              /\ timers' = RemoveAt(timers, i)

Did(i, used) == sentOk' = (used = timers[i].arg)

NewObj(o, i, st) == [obj EXCEPT ![o] = [live |-> TRUE, id |-> i, rep |-> st]]

\* Mutant of FireMakeCall: the new object is not stored in the global.
MakeCallNotStored(i, op, o, s) ==
    /\ Pop(i, op)
    /\ acc = "valid"
    /\ ~obj[o].live
    /\ AllocCallId(slot, nextId, s)
    /\ nextId' = NextCallId(nextId)
    /\ slot' = [slot EXCEPT ![s] = OutgoingCall(o)]
    /\ obj' = NewObj(o, s, "CALLING")
    /\ sndDev' = SndDevFor("CALLING")
    /\ Did(i, dest)
    /\ UNCHANGED <<ptrs, params, call, mic, fault>>

\* MAKE_CALL and SEND_INVITE_TO_ANSWER_CALL: new MyCall, makeCall succeeds.
\* The INVITE is sent and CALLING reported before makeCall returns.
FireMakeCall(i, op, o, s) ==
    /\ Pop(i, op)
    /\ acc = "valid"
    /\ ~obj[o].live
    /\ AllocCallId(slot, nextId, s)
    /\ nextId' = NextCallId(nextId)
    /\ slot' = [slot EXCEPT ![s] = OutgoingCall(o)]
    /\ obj' = NewObj(o, s, "CALLING")
    /\ call' = o
    /\ sndDev' = SndDevFor("CALLING")
    /\ Did(i, dest)
    /\ UNCHANGED <<ptrs, params, mic, fault>>

\* The same when makeCall throws before it has a slot or after it gave the
\* slot back, with no callback: call keeps the new object, which has no id.
FireMakeCallFails(i, op, o) ==
    /\ Pop(i, op)
    /\ acc \in {"valid", "invalid"}
    /\ ~obj[o].live
    /\ nextId' \in {nextId, NextCallId(nextId)}
    /\ obj' = NewObj(o, NoId, "none")
    /\ call' = o
    /\ Did(i, dest)
    /\ UNCHANGED <<ptrs, params, slot, audio, fault>>

\* The same when the INVITE session cannot be created: on_call_state reports
\* state NULL to the new object first, which gives it the id of the slot.
FireMakeCallNoInv(i, op, o, s) ==
    /\ Pop(i, op)
    /\ acc = "valid"
    /\ ~obj[o].live
    /\ AllocCallId(slot, nextId, s)
    /\ nextId' = NextCallId(nextId)
    /\ obj' = NewObj(o, s, "NULL")
    /\ call' = o
    /\ Did(i, dest)
    /\ UNCHANGED <<ptrs, params, slot, audio, fault>>

\* The same when the INVITE cannot be sent: the session reports DISCONNECTED,
\* so the new object is deleted before makeCall throws.  The device selected
\* stays the same: make_call only opens it.
FireMakeCallUnsent(i, op, o, s) ==
    /\ Pop(i, op)
    /\ acc = "valid"
    /\ ~obj[o].live
    /\ AllocCallId(slot, nextId, s)
    /\ nextId' = NextCallId(nextId)
    /\ call' = NULL
    /\ Did(i, dest)
    /\ UNCHANGED <<ptrs, params, slot, obj, audio, fault>>

\* getInfo throws: the object has no id, or its slot holds no dialog.
NoInfo(o) == obj[o].id = NoId \/ slot[obj[o].id].inv = "FREE"

\* ANSWER_CALL.  Neither getInfo nor answer is inside a try block.
FireAnswer(i) ==
    /\ Pop(i, "ANSWER_CALL")
    /\ IF call # NULL /\ NoInfo(call)
       THEN /\ fault' = "uncaughtError"
            /\ UNCHANGED <<heap, audio, sentOk>>
       ELSE IF call # NULL /\ InfoState(slot[obj[call].id]) = "INCOMING"
       THEN LET s == obj[call].id
            IN \/ /\ slot' = [slot EXCEPT ![s] = [@ EXCEPT !.inv = "CONNECTING",
                                                          !.media = TRUE]]
                  /\ mic' = mic \cup {s}
                  /\ IF slot[s].user = NULL THEN UNCHANGED <<obj, sndDev>>
                     ELSE OnCallState(s, slot[s].user, "CONNECTING")
                  /\ UNCHANGED <<call, nextId, sentOk, fault>>
               \/ /\ fault' = "uncaughtError"
                  /\ UNCHANGED <<heap, audio, sentOk>>
       ELSE UNCHANGED <<heap, audio, sentOk, fault>>
    /\ UNCHANGED <<ptrs, params>>

\* HANGUP_CALL: pjsua_call_hangup reports DISCONNECTED to the object, which is
\* deleted, before the session is ended.
FireHangup(i) ==
    /\ Pop(i, "HANGUP_CALL")
    /\ IF /\ call # NULL
          /\ obj[call].id # NoId
          /\ IsActive(slot[obj[call].id])
       THEN LET s == obj[call].id
            IN IF slot[s].user = NULL
               THEN /\ slot' = [slot EXCEPT ![s] = EndSession(@)]
                    /\ mic' = mic \ {s}
                    /\ UNCHANGED <<call, obj, fault>>
               ELSE IF Dangling(s)
               THEN fault' = "useAfterFree" /\ UNCHANGED <<call, obj, slot, mic>>
               ELSE OnDisconnected(s, EndSession(slot[s])) /\ UNCHANGED fault
       ELSE UNCHANGED <<call, obj, slot, mic, fault>>
    /\ UNCHANGED <<ptrs, params, nextId, sndDev, sentOk>>

\* HOLD_CALL and UNHOLD_CALL: a re-INVITE, only in CONFIRMED; errors are caught.
FireHold(i, op, on) ==
    /\ Pop(i, op)
    /\ \/ /\ call # NULL
          /\ ~NoInfo(call)
          /\ InfoState(slot[obj[call].id]) = "CONFIRMED"
          /\ slot' = [slot EXCEPT ![obj[call].id] = [@ EXCEPT !.hold = on]]
       \/ UNCHANGED slot
    /\ UNCHANGED <<ptrs, params, call, obj, nextId, audio, sentOk, fault>>

\* MUTE_CALL and UNMUTE_CALL: getInfo is outside the try block.
FireMute(i, op, off) ==
    /\ Pop(i, op)
    /\ IF call # NULL /\ NoInfo(call)
       THEN fault' = "uncaughtError" /\ UNCHANGED <<mic>>
       ELSE LET s == IF call # NULL /\ slot[obj[call].id].media
                     THEN {obj[call].id} ELSE {}
            IN /\ mic' = IF off THEN mic \ s ELSE mic \cup s
               /\ UNCHANGED fault
    /\ UNCHANGED <<ptrs, params, heap, sndDev, sentOk>>

\* SEND_DTMF_TONE and TRANSFER_CALL: the member's value now, if the call can
\* take it; errors are caught.
FireSend(i, op, used) ==
    /\ Pop(i, op)
    /\ IF /\ call # NULL
          /\ ~NoInfo(call)
          /\ InfoState(slot[obj[call].id]) = "CONFIRMED"
       THEN Did(i, used)
       ELSE UNCHANGED sentOk
    /\ UNCHANGED <<ptrs, params, heap, audio, fault>>

-------------------------------------------------------------------------------
(* The worker thread: what the network and the SIP stack do to a call.     *)

\* A callback for slot s through Call::lookup runs on a deleted object.
CallbackToFreed(s) ==
    /\ WorkerReady
    /\ IsActive(slot[s])
    /\ Dangling(s)
    /\ Die("useAfterFree")

\* An INVITE is accepted: the incoming listener is told first, then the object
\* is created and replaces whatever call pointed to.
IncomingInvite(s, o) ==
    /\ WorkerReady
    /\ acc = "valid"
    /\ CallWaiting \/ NoCall
    /\ ~obj[o].live
    /\ AllocCallId(slot, nextId, s)
    /\ nextId' = NextCallId(nextId)
    /\ slot' = [slot EXCEPT ![s] = IncomingCall(o)]
    /\ obj' = NewObj(o, s, "none")
    /\ call' = o
    /\ UNCHANGED <<ptrs, timers, params, audio, sentOk, fault>>

\* A slot an event of its SIP session can reach, with its object if any.
Event(s) == WorkerReady /\ ~Dangling(s)

\* on_call_state, ignored by Endpoint::on_call_state when there is no object
\* and not invoked while the call is being hung up.
TellState(s, st) ==
    IF slot[s].user = NULL \/ slot[s].hangingUp
    THEN UNCHANGED <<obj, sndDev>>
    ELSE OnCallState(s, slot[s].user, st)

\* Mutant of RemoteRings: a provisional response that arrives late counts too.
RemoteRingsLate(s, sdp) ==
    /\ Event(s)
    /\ slot[s].role = "uac" /\ slot[s].inv # "FREE"
    /\ slot' = [slot EXCEPT ![s] = [@ EXCEPT !.inv = "EARLY"]]
    /\ TellState(s, "EARLY")
    /\ UNCHANGED <<ptrs, timers, params, call, nextId, mic, sentOk, fault>>

\* A provisional response with a To tag, the first one or a further one, with
\* a session description to negotiate or not.
RemoteRings(s, sdp) ==
    /\ Event(s)
    /\ slot[s].role = "uac" /\ slot[s].inv \in {"CALLING", "EARLY"}
    /\ LET early == sdp /\ ~slot[s].hangingUp
       IN /\ slot' = [slot EXCEPT ![s] = [@ EXCEPT !.inv = "EARLY",
                                                  !.media = slot[s].media \/ early]]
          /\ mic' = IF early THEN mic \cup {s} ELSE mic
    /\ TellState(s, "EARLY")
    /\ UNCHANGED <<ptrs, timers, params, call, nextId, sentOk, fault>>

\* A 200 to our INVITE: CONNECTING, media, ACK, CONFIRMED in one handler.  A
\* call that is being hung up gets BYE (the 200 has crossed our CANCEL).
RemoteAnswers(s) ==
    /\ Event(s)
    /\ slot[s].role = "uac" /\ slot[s].inv \in {"CALLING", "EARLY"}
    /\ LET up == ~slot[s].hangingUp
       IN /\ slot' = [slot EXCEPT ![s] = [@ EXCEPT !.inv = "CONFIRMED", !.media = up]]
          /\ mic' = IF up THEN mic \cup {s} ELSE mic
    /\ TellState(s, "CONFIRMED")
    /\ UNCHANGED <<ptrs, timers, params, call, nextId, sentOk, fault>>

\* The ACK of our 200 arrives.
AckArrives(s) ==
    /\ Event(s)
    /\ slot[s].role = "uas" /\ slot[s].inv = "CONNECTING"
    /\ slot' = [slot EXCEPT ![s] = [@ EXCEPT !.inv = "CONFIRMED"]]
    /\ TellState(s, "CONFIRMED")
    /\ UNCHANGED <<ptrs, timers, params, call, nextId, mic, sentOk, fault>>

\* A re-INVITE of either side is answered: onCallMediaState connects the audio
\* again unless the call is on local hold; the old port has been removed.
MediaUpdate(s) ==
    /\ Event(s)
    /\ slot[s].inv = "CONFIRMED" /\ IsActive(slot[s]) /\ slot[s].user # NULL
    /\ slot' = [slot EXCEPT ![s] = [@ EXCEPT !.media = TRUE]]
    /\ obj' = [obj EXCEPT ![slot[s].user] = [@ EXCEPT !.id = s]]
    /\ mic' = IF slot[s].hold THEN mic \ {s} ELSE mic \cup {s}
    /\ UNCHANGED <<ptrs, timers, params, call, nextId, sndDev, sentOk, fault>>

\* BYE, CANCEL, a failure response or a timeout ends the session.
RemoteEnds(s) ==
    /\ Event(s)
    /\ IsActive(slot[s])
    /\ IF slot[s].user = NULL
       THEN /\ slot' = [slot EXCEPT ![s] = Idle]
            /\ mic' = mic \ {s}
            /\ UNCHANGED <<call, obj>>
       ELSE OnDisconnected(s, Idle)
    /\ UNCHANGED <<ptrs, timers, params, nextId, sndDev, sentOk, fault>>

\* The session of a call that was hung up is over: its CANCEL or BYE was
\* answered or timed out, or the retries of call_inv_end_session ran out.
HangupDone(s) ==
    /\ WorkerReady
    /\ slot[s].hangingUp
    /\ slot' = [slot EXCEPT ![s] = Idle]
    /\ UNCHANGED <<ptrs, timers, params, call, obj, nextId, audio, sentOk, fault>>

\* REFER from the peer of slot s, which makes a call with the user data of s.
Referred(s) ==
    /\ Refer
    /\ Event(s)
    /\ IsActive(slot[s]) /\ slot[s].inv = "CONFIRMED"

\* MyCall does not override onCallTransferRequest, so the new call t shares the
\* object of s, and Call::lookup moves the object's id to t.
ReferArrives(s, t) ==
    /\ Referred(s)
    /\ AllocCallId(slot, nextId, t)
    /\ nextId' = NextCallId(nextId)
    /\ slot' = [slot EXCEPT ![t] = OutgoingCall(slot[s].user)]
    /\ IF slot[s].user = NULL THEN UNCHANGED <<obj, sndDev>>
       ELSE OnCallState(t, slot[s].user, "CALLING")
    /\ UNCHANGED <<ptrs, timers, params, call, mic, sentOk, fault>>

\* The REFER is refused, or the call it asks for fails with no callback.
ReferFails(s) ==
    /\ Referred(s)
    /\ nextId' \in {nextId, NextCallId(nextId)}
    /\ UNCHANGED <<ptrs, timers, params, call, obj, slot, audio, sentOk, fault>>

\* The INVITE session of the new call cannot be created: the shared object is
\* told state NULL, for slot t.
ReferNoInv(s, t) ==
    /\ Referred(s)
    /\ AllocCallId(slot, nextId, t)
    /\ nextId' = NextCallId(nextId)
    /\ IF slot[s].user = NULL THEN UNCHANGED obj
       ELSE obj' = [obj EXCEPT ![slot[s].user] = [@ EXCEPT !.id = t, !.rep = "NULL"]]
    /\ UNCHANGED <<ptrs, timers, params, call, slot, audio, sentOk, fault>>

\* The INVITE of the new call cannot be sent: the shared object is told
\* DISCONNECTED, for slot t.
ReferUnsent(s, t) ==
    /\ Referred(s)
    /\ AllocCallId(slot, nextId, t)
    /\ nextId' = NextCallId(nextId)
    /\ IF slot[s].user = NULL THEN UNCHANGED <<call, obj, slot, mic>>
       ELSE ToldDisconnected(t, slot[s].user, Idle)
    /\ UNCHANGED <<ptrs, timers, params, sndDev, sentOk, fault>>

-------------------------------------------------------------------------------
UiStep ==
    \/ CreateLib \/ CreateLibAgain \/ ModifyAccount \/ UnregisterAccount
    \/ DeleteLibBegin \/ DeleteLibEnd
    \/ \E op \in ArgOps \cap UiOps, a \in Peers : AskWithArg(op, a)
    \/ \E op \in UiOps \ ArgOps : Ask(op)

OnTimer ==
    \E i \in DOMAIN timers :
        \/ \E op \in DestOps, o \in Objs :
              \/ FireMakeCallFails(i, op, o)
              \/ \E s \in Slots : \/ FireMakeCall(i, op, o, s)
                                  \/ FireMakeCallNoInv(i, op, o, s)
                                  \/ FireMakeCallUnsent(i, op, o, s)
        \/ FireAnswer(i)
        \/ FireHangup(i)
        \/ FireHold(i, "HOLD_CALL", TRUE)
        \/ FireHold(i, "UNHOLD_CALL", FALSE)
        \/ FireMute(i, "MUTE_CALL", TRUE)
        \/ FireMute(i, "UNMUTE_CALL", FALSE)
        \/ FireSend(i, "SEND_DTMF_TONE", tone)
        \/ FireSend(i, "TRANSFER_CALL", xferDest)

SipEvent ==
    \E s \in Slots :
        \/ CallbackToFreed(s)
        \/ \E o \in Objs : IncomingInvite(s, o)
        \/ \E sdp \in BOOLEAN : RemoteRings(s, sdp)
        \/ RemoteAnswers(s)
        \/ AckArrives(s)
        \/ MediaUpdate(s)
        \/ RemoteEnds(s)
        \/ HangupDone(s)
        \/ ReferFails(s)
        \/ \E t \in Slots : \/ ReferArrives(s, t)
                           \/ ReferNoInv(s, t)
                           \/ ReferUnsent(s, t)

Next == UiStep \/ OnTimer \/ SipEvent

\* The worker polls its timers and sockets for ever; deleteLib, once begun,
\* goes on after its sleep; and a hung up session ends, if by timeout.  The
\* user and the peers owe nothing.
Fairness == /\ WF_vars(OnTimer)
            /\ WF_vars(DeleteLibEnd)
            /\ \A s \in Slots : WF_vars(HangupDone(s))

Spec == Init /\ [][Next]_vars /\ Fairness

-------------------------------------------------------------------------------
(* Properties.                                                             *)

\* The user_data of a PJSUA call is never a deleted Call object, it is the
\* object whose id is that call, and no callback reaches an object that has
\* reported DISCONNECTED.
UserDataLive ==
    \A s \in Slots : slot[s].user # NULL =>
        /\ obj[slot[s].user].live
        /\ obj[slot[s].user].id = s
        /\ obj[slot[s].user].rep # "DISCONNECTED"

\* The user_data of a PJSUA call is never a deleted Call object.
NoDanglingUserData == \A s \in Slots : ~Dangling(s)

\* The global call never points to a deleted object.
CallPointerLive == call # NULL => obj[call].live

\* An active call always has an object, so the application hears of it.
NoOrphanCall == \A s \in Slots : IsActive(slot[s]) => slot[s].user # NULL

\* The microphone is connected to active calls only.
MicOnlyToCalls == \A s \in mic : IsActive(slot[s]) /\ slot[s].media

\* Media is torn down before a call stops being active, and negotiated only
\* after CALLING or INCOMING.
MediaOfActive ==
    \A s \in Slots : slot[s].media =>
        IsActive(slot[s]) /\ slot[s].inv \notin {"CALLING", "INCOMING"}

\* The listener sees the states of a call in the order of its life.
ReportsForward ==
    [][\A o \in Objs : obj[o].live /\ obj'[o].live
                          => Rank(obj[o].rep) <= Rank(obj'[o].rep)]_vars

\* Every active call is the one the global points to, so that each request of
\* the user reaches it.
ActiveCallIsControlled ==
    \A s \in Slots : IsActive(slot[s]) => call # NULL /\ obj[call].id = s

\* A request uses the argument it was given, the tone that was pressed or the
\* URI that was asked for.  False when a second request comes before the timer
\* of the first: the two share a member of the account.
RequestUsesItsArgument == sentOk

\* A hang-up request for the active call frees its slot in the end.
HangupEndsCall ==
    \A s \in Slots :
        (\E i \in DOMAIN timers : timers[i].op = "HANGUP_CALL") /\ IsActive(slot[s])
            /\ lib = "running"
          ~> slot[s].inv = "FREE" \/ fault # "none"
===============================================================================
