------------------------------ MODULE PjsuaCalls ------------------------------
(***************************************************************************)
(* The call table of the PJSUA library (pjsua_var.calls of                 *)
(* pjsip/src/pjsua-lib/pjsua_call.c) as the framework uses it.  The table  *)
(* has no thread of its own: every operation runs inside a call made by    *)
(* the application or by the event loop, and may call the application      *)
(* back before it returns.  The operations are therefore operators on the  *)
(* table, which module Framework composes into the steps of its threads.   *)
(***************************************************************************)
EXTENDS Integers

CONSTANTS MaxCalls,   \* ua_cfg.max_calls
          Objs,       \* addresses a pjsua2 Call object can have
          NULL        \* the null pointer

\* At least one call can be made, and NULL is no object.
ASSUME PjsuaCallsAssumption ==
    /\ MaxCalls \in Nat \ {0}
    /\ NULL \notin Objs

NoId  == -1                 \* PJSUA_INVALID_ID
Slots == 0 .. MaxCalls - 1

\* pjsip_inv_state, "FREE" being a slot whose inv and async_call.dlg are NULL.
\* DISCONNECTED is never stored: the handler that reaches it also resets the
\* slot before it returns.
InvStates == {"FREE", "CALLING", "INCOMING", "EARLY", "CONNECTING", "CONFIRMED"}

\* The position of a state in the life of a call, as the application sees it.
Rank(st) == CASE st = "none"         -> 0
              [] st = "NULL"         -> 1
              [] st = "CALLING"      -> 2
              [] st = "INCOMING"     -> 2
              [] st = "EARLY"        -> 3
              [] st = "CONNECTING"   -> 4
              [] st = "CONFIRMED"    -> 5
              [] st = "DISCONNECTED" -> 6

CallRec == [inv : InvStates, role : {"uac", "uas"}, user : Objs \cup {NULL},
            hangingUp : BOOLEAN, hold : BOOLEAN, media : BOOLEAN]

\* reset_call
Idle == [inv |-> "FREE", role |-> "uac", user |-> NULL, hangingUp |-> FALSE,
         hold |-> FALSE, media |-> FALSE]

\* pjsua_call_is_active
IsActive(c) == ~c.hangingUp /\ c.inv # "FREE"

\* The state pjsua_call_get_info reports; "none" when it fails.
InfoState(c) == IF c.inv = "FREE" THEN "none"
                ELSE IF c.hangingUp THEN "DISCONNECTED"
                ELSE c.inv

-------------------------------------------------------------------------------
\* alloc_call_id: round robin from next, which wraps at the table's end.
Wrapped(next) == IF next >= MaxCalls THEN 0 ELSE next

HasFree(calls, S) == \E c \in S : calls[c].inv = "FREE"

\* alloc_call_id returns slot s.
AllocCallId(calls, next, s) ==
    LET n == Wrapped(next)
    IN  /\ calls[s].inv = "FREE"
        /\ IF s >= n THEN ~HasFree(calls, n .. s - 1)
           ELSE ~HasFree(calls, (n .. MaxCalls - 1) \cup (0 .. s - 1))

\* Mutant of NextCallId: the index is not wrapped.
NextCallIdNoWrap(next) == next + 1

\* The value alloc_call_id leaves in next_call_id when it finds a slot.
NextCallId(next) == Wrapped(next) + 1

\* The slot of an INVITE sent by pjsua_call_make_call.
OutgoingCall(u) ==
    [Idle EXCEPT !.inv = "CALLING", !.role = "uac", !.user = u]

\* The slot of a received INVITE once the callback has attached object u.
IncomingCall(u) ==
    [Idle EXCEPT !.inv = "INCOMING", !.role = "uas", !.user = u]

\* Mutant of EndSession: call->hanging_up is not set.
EndSessionNotMarked(c) ==
    IF c.role = "uas" /\ c.inv = "INCOMING" THEN Idle
    ELSE [c EXCEPT !.media = FALSE, !.user = NULL]

\* Mutant of EndSession: the media is not torn down.
EndSessionKeepsMedia(c) ==
    IF c.role = "uas" /\ c.inv = "INCOMING" THEN Idle
    ELSE [c EXCEPT !.hangingUp = TRUE, !.user = NULL]

\* call_inv_end_session: a final response ends an unanswered incoming call at
\* once, CANCEL and BYE only start the end of the session.
EndSession(c) ==
    IF c.role = "uas" /\ c.inv = "INCOMING" THEN Idle
    ELSE [c EXCEPT !.hangingUp = TRUE, !.media = FALSE, !.user = NULL]

\* pjsua_call_hangup on a slot whose user_data is or becomes NULL: ignored
\* unless the call is active.
Hangup(c) == IF IsActive(c) THEN EndSession(c) ELSE [c EXCEPT !.user = NULL]

\* Mutant of DestroyCall: the destructor forgets the PJSUA call.
DestroyCallForgets(calls, i) == calls

\* Call::~Call of an object whose id is i: user_data is cleared and a call
\* that is still active is hung up (its callback then finds no object).
DestroyCall(calls, i) ==
    IF i = NoId THEN calls ELSE [calls EXCEPT ![i] = Hangup(@)]
===============================================================================
