# Verification of the PJSUA2 Swift framework

TLA+ specifications of the PJSIP framework for Swift and of the parts of PJSIP it
runs on, the TLC configurations that check them, and TLAPS proofs of the safety
properties that matter most. Source paths are relative to `src/`.

## 1. The system

`PJSIPFramework/PJSua2` is the framework's own code. `wrapper.mm` exposes C++
methods to Swift; `CustomPJSUA2.cpp` implements them with pjsua2, the C++ binding
of PJSUA. Everything below is PJSIP (`PjsipLibrary`): PJSUA keeps a table of calls,
each call is an INVITE session (`sip_inv.c`) inside a dialog, the session sends
and receives through transactions (`sip_transaction.c`), transactions use
transports, timers come from one timer heap, and objects that callbacks share are
kept alive by reference-counted group locks.

Threads: the user-interface thread calls the framework; PJSUA's worker threads
(one by default, the framework does not change it) poll the timer heap and the
sockets and run every callback.

### Components

| Component | State | Operations | What makes it correct |
|---|---|---|---|
| Framework | globals `ep`, `acc`, `call`; members `dest_uri`, `dtmf_tone`, `transfer_dest` of the account; pending timers | the methods of `PJSua2`, `MyEndpoint::onTimer`, `onIncomingCall`, `onCallState`, `onCallMediaState` | no callback reaches a deleted object; every active call is under control; a request does what it was asked |
| PJSUA call table | `pjsua_var.calls`, `next_call_id`, user data, media | allocate, make, incoming, answer, hang up, media update, REFER | a slot is used once at a time, its user data is live, it is freed in the end |
| SIP transaction | state, status, two timers, transport flags, reference count | send, receive, timers, transport callbacks, terminate, destroy | states move forward, the user is told in order, a transaction ends, its memory is neither lost nor used after release |
| INVITE session | session state, offer/answer, pending CANCEL, 100rel | make, answer, end, re-INVITE, UPDATE | one final outcome, CANCEL and 2xx that cross are resolved |
| SDP negotiator | state, local and remote offer, active pair | create, modify, set, negotiate, cancel | both parties agree on the active pair; a refused offer changes nothing |
| Registration client | binding, refresh timer, pending operation | register, refresh, unregister, destroy | refreshed before it expires, no callback after destroy |
| Dialog and UA layer | CSeq, route set, session and transaction counts | create, send, receive, fork, destroy | destroyed only when unused; CSeq increases |
| Transport manager | transports, reference counts, idle timers | acquire, add and drop reference, shut down, destroy | a referenced transport is not destroyed |
| Event subscription, transfer | subscription state, timers | subscribe, notify, terminate | terminated exactly once |
| Timer heap | heap, slots, entry ids | schedule, cancel, poll | heap order, an entry fires at most once |
| Group lock | owner, chain, count, destroy handlers | acquire, release, chain, references | handlers run once, after the last reference |
| STUN, TURN, ICE | check lists, transactions, allocations | start, check, nominate | agreement on the nominated pair |
| Jitter buffer, streams | ring of frames, sequence numbers | put, get, reset | frames leave in order across wrap-around |
| SIP parsing, codecs, audio devices, pjlib-util, third-party code | - | text, signals, device I/O | out of scope (section 9) |

`PROJECT.json` lists the same components with their files and status.

### How they interact, and what is hard

* A framework method stores its argument in a member of the account and schedules
  a timer with delay 0. The worker reads the member when the timer fires. Argument
  and request therefore travel separately.
* There is one global `call`. Incoming calls, outgoing calls and the handler of
  DISCONNECTED all write it, whichever call they are about.
* PJSUA calls back synchronously: hanging up reports DISCONNECTED, whose handler
  deletes the object, before the session has been ended. The destructor calls
  PJSUA again.
* `makeCall` can fail at four points, some of them after a callback has run.
* The timer heap pops an entry before its callback has the lock. The transaction
  tells its user of TERMINATED and DESTROYED with the lock released. Send
  callbacks can come after the transaction has ended.
* Reference counts are given and taken back in different functions; one early
  return is enough to lose one.

The hazards, each with its source line and its properties, are in `PROJECT.json`.

## 2. Modules

| Module | Content |
|---|---|
| `PjsuaCalls` | the call table as operators on it (no thread of its own) |
| `Framework`, `MCFramework` | the UI thread, the worker thread and the network, on `PjsuaCalls` |
| `FrameworkProofs` | theorems about `Framework` |
| `SipTransaction` | one SIP transaction, client or server |
| `SipTransactionProofs` | theorems about `SipTransaction` |
| `InvCall` | a call between two INVITE sessions, from INVITE to the end of both |
| `InvCallProofs` | theorems about `InvCall` |
| `SdpNeg` | the SDP negotiator as operators on a record |
| `SdpSession`, `MCSdpSession` | two negotiators inside two sessions: re-INVITE, UPDATE, hold |
| `SdpSessionProofs` | theorems about the offers of `SdpSession` |
| `SdpAgreementProofs` | theorems about the media on which its parties agree |
| `TransportMgr` | the transport manager and the life of TCP transports |
| `TransportMgrProofs` | theorems about `TransportMgr` |
| `TimerSet` | what users of timers are promised (abstract) |
| `TimerHeap`, `MCTimerHeap` | the timer heap, which implements `TimerSet` |
| `TimerHeapProofs` | theorems about `TimerHeap`, with the refinement |
| `Playout` | what a listener is promised (abstract) |
| `FrameList`, `JitterBuffer` | the jitter buffer as operators on a record |
| `AudioReceive`, `MCAudioReceive` | the receiving side of an audio stream, which implements `Playout` |
| `AudioReceiveProofs` | theorems about `AudioReceive`, `JitterBuffer` and `FrameList` |

The modules meet where one takes for granted what another shows. `Framework` lets a
session that was hung up end (`HangupDone`), which `InvCall` shows of the sessions
(`HungUpEndsOrStranded`; section 5 has the exception). `SipTransaction` and `TransportMgr` pop
timers in any order and may find them cancelled or re-scheduled, as `TimerSet` allows and
`TimerHeap` implements.
`SdpSession` begins with the confirmed call at which `InvCall` arrives.

### PjsuaCalls and Framework

A slot of the table is a record of the state of its INVITE session (`FREE` for a
slot with neither session nor dialog), its role, its user data (a `Call` object
or `NULL`), and the flags `hanging_up`, local hold and media. `AllocCallId` and
`NextCallId` are `alloc_call_id`, `EndSession` is `call_inv_end_session`,
`Hangup` is `pjsua_call_hangup`, `DestroyCall` is `Call::~Call`.

| Variable | Code |
|---|---|
| `ep`, `acc`, `call` | the globals; `freed` is a pointer that was deleted and not reset |
| `lib` | how far `libCreate`, `libInit`, `libStart` came |
| `ui` | the UI thread is inside `deleteLib` or not |
| `timers` | user timers in scheduling order; `later` marks a new millisecond |
| `dest`, `tone`, `xferDest` | members of the account |
| `obj` | `Call` objects: allocated, id, last state reported |
| `slot`, `nextId` | `pjsua_var.calls`, `pjsua_var.next_call_id` |
| `mic`, `sndDev` | slots the microphone feeds; the sound device in use |
| `sentOk`, `fault` | observers: did the last request use its own argument; why the process is gone |

Each method of class `PJSua2` is one action of the UI thread (`CreateLib`,
`ModifyAccount`, `UnregisterAccount`, `DeleteLibBegin`, `DeleteLibEnd`,
`AskWithArg`, `Ask`). Each operation code of `onTimer` is one action of the worker
(`FireMakeCall` and its three ways to fail, `FireAnswer`, `FireHangup`,
`FireHold`, `FireMute`, `FireSend`). Each event of the SIP stack is one action
including the callbacks it runs (`IncomingInvite`, `RemoteRings`, `RemoteAnswers`,
`AckArrives`, `MediaUpdate`, `RemoteEnds`, `HangupDone`, `ReferArrives` and its ways
to fail, `ReferFails`, `ReferNoInv`, `ReferUnsent`). `ToldDisconnected` is what
`onCallState` does when a slot reports DISCONNECTED. A use of a deleted object, a call through a null pointer and an exception nobody catches
set `fault` and stop the model. Timers of one millisecond may fire in any order
(`Due`), as the heap does not order equal times.

### SipTransaction

The record `tsx` holds the fields of `pjsip_transaction` and its transport flags.
`refs` is the count of the group lock. `told` is the last state the user heard.
`busy` counts the worker threads at each of the places where one has work left and no
lock; several may be at the same one, with the same timer entry popped twice.

* A handler that keeps the lock is one action built from operators that map a
  transaction to a transaction: `Enter`, `Detach`, `Terminated` and `Shutdown`
  are the pieces of `tsx_set_state` and `tsx_shutdown`; `SendMsg` with `Resolve`,
  `SendDone`, `SendFailed` is `tsx_send_msg` with `send_msg_callback` run inside
  it; `SendRequest`, `Respond`, `ReceiveResponse`, `ReceiveAck`,
  `RetransmitTimer`, `TimeoutTimer` are the `tsx_on_state_*` handlers.
* Where the code lets go of the lock with work left, the rest is an action of its
  own: a popped timer (`RunRetransmit`, `RunTimeout`, ...), the steps of its callback
  before the lock (`ReadId` takes the id, `ClearTimeout` and `ClearTransport` clear it,
  the latter with the test of the state that is not made again in `TransportFailed` and
  `RunDisconnected`), the end of `tsx_set_state` after the user has returned (`FinishTerminated`,
  `FinishDestroyed`, `FinishTransportErr`, `FinishSendFailed`) and the end of
  `transport_callback` (`FinishTransportCb`).
* `Outcome` is what the transport layer does with a message: sent at once, later,
  or failed; resolved at once, later, or failed with 502, with 503, or with an
  error before any callback; over a reliable transport or not.
* `Workers` is the number of worker threads, `AsyncSend` whether
  `pjsip_transport_send` may answer `PJ_EPENDING`.

Messages are not stored: what the peers send is any message the transaction layer
would match. Loss, duplication and reordering are therefore all included.

### InvCall

`inv[p]` is the INVITE session of the caller (`C`) and the callee (`S`) with its
INVITE, CANCEL and BYE transactions, the pending CANCEL and BYE, the cause, and what
PJSUA remembers of a hang-up. `Hangup`, `Ring` and `Answer` are the calls of the user;
`EndSession`, `SendBye`, `SendAck` and the `Rx...` operators are `pjsip_inv_end_session`,
`pjsip_inv_send_msg` and the `inv_on_state_*` handlers. An action is everything done
under the dialog's lock. `Deliver` takes any message, so the network reorders. `Delay`
takes a message out with all its retransmissions, for good or (`DeliverLate`) until the
timers of its transaction have fired. `Challenge` is a proxy that asks for
authentication once. Timers fire when nothing that would stop them is on its way.

### SdpNeg and SdpSession

`SdpNeg` has the functions of `sdp_neg.c` on a record of the negotiator: local and
remote offers and answers, `cancel_offer`, the negotiation of lines, formats and
directions, versions, and the tables between payload types and codecs. `SdpSession`
puts one into each party of a confirmed call, with the transactions of the session and
what `pjsua_call.c` remembers of the hold. The users hold, release and change the call
(`Hold`, `CallReinvite`, `CallReinviteNoOffer`, `CallUpdate`), `Deliver` hands over any
message, `UpdateTerminates` is the end of an UPDATE transaction. Glare, refusals and
declined offers are in the handlers. `Habits` says what the users do not do; section
5 says what happens when they do.

### TransportMgr

`tp[t]` is one TCP transport: its two counts (`ref_cnt`, and `grp` of the group lock),
flags, lock, the idle timer and the keep-alive timer, each with its id and whether it is
in the heap. `table` is the manager's list for one destination. `thr[h]` is where a
thread is. A step ends wherever another thread can get in between: at a change of an
atomic counter, at the wait for a lock, between a timer's schedule and its id, between
the pop of a timer and its callback. So `pjsip_transport_dec_ref` is `Release`, `Rearm`,
`Drop`; `transport_idle_callback` is `PopIdle`, `IdleCallback`, `IdleCheck`, `Destroy`,
`LockTransport`, `Unregister`, `Close`, `TimerDone`; `pjsip_transport_shutdown2` is
`LockTransport`, `ShutNothing` or `ShutKeepAlive` with `ShutEnd`, `ShutVerify`, `ShutUnlock`.
`ShutdownAll` and `ShutdownNext` are `pjsip_tpmgr_shutdown_all`, which only an application
that calls `pjsua_handle_ip_change` runs (`IpChanges`). `Acquire` holds
the manager's lock through all of `pjsip_tpmgr_acquire_transport2`. The framework itself
creates a UDP transport only (`CustomPJSUA2.cpp:415`): the TCP part is what the library
does for applications that use it.

### TimerSet and TimerHeap

`TimerHeap` keeps the three arrays of `timer.c` (heap, timer ids with the free list
inside, copies of the entries), grows them, and moves nodes with `reheap_up` and
`reheap_down`. Either loop is the set of slots it visits (`Visits`, an iteration of the
step from a slot to its parent or its smaller child) and the copies it makes on the way
(`Shift`). `Poll` and `Pop` take one entry and let go of the lock until
`CallbackReturns`; meanwhile anybody may schedule and cancel. `TimerSet` has only armed
entries with their times. The mapping reads an entry's time through its id.

### FrameList, JitterBuffer, AudioReceive, Playout

`FrameList` is the ring with its origin, `JitterBuffer` the adaptive delay and the two
ways to discard. `AudioReceive` adds the RTP session's control of sequence numbers and
the threads: the network's (`RxPacket`, then `PutFrame`), the player's (`GetChecks`,
then `SoftStart`, `CountDown` or `GetFrame`), the application's (`Pause`, `PauseResets`, `Resume`,
`ResumeSoftStart`); they share `paused` and the soft start without a lock. Frame indexes
and sequence numbers wrap. `Playout` says that frames are heard in order and at most
once; a frame may always be lost.

## 3. Runs

States are distinct states.

| Run | Instance | Shows |
|---|---|---|
| `fw_single` | 2 slots, 2 objects, 2 URIs, one request and one call at a time; 116,935 states | `TypeOK`; `ActiveCallIsControlled`: through every failure of `makeCall`, crossing hang-ups and `deleteLib`, the active call is the one `call` points to; `HangupEndsCall` (liveness) |
| `fw_free` | 2 slots, 2 objects, two pending requests in any order, call waiting; 623,597 states | `UserDataLive`, `NoOrphanCall`, `ReportsForward` without REFER |
| `fw_refer` | 2 slots, 2 objects, call waiting, REFER, mute, hold; 236,537 states | `CallPointerLive`, `MicOnlyToCalls`, `MediaOfActive` even when two calls share an object |
| `tsx_one` | one worker, asynchronous sends; 18,558 states | `TypeOK`, `HoldersCounted`, `StateForward`, `ToldInOrder`, `EndsDestroyed` (liveness) |
| `tsx_two` | two workers, synchronous sends; 72,152 states | `FreedWhenDone`, `Armed` |
| `inv_call` | one fault, one retransmission of the 2xx, a proxy that challenges the INVITE and the callee's BYE; 288,751 states | `TypeOK`; `ByeFindsCall`: a BYE that waited for its ACK finds the caller in the call; `HungUpEndsOrStranded`, `EndsTogether`, `ConnectingEnds` (liveness) |
| `sdp_session` | four requests, audio and video, three dynamic codecs that the parties number differently; 1,293,892 states | `TypeOK`; `Agreement` on lines, codecs and directions; `HoldTrue`; `OfferEnds`; `OfferWaits`; `PtKeepsCodec` |
| `tp_idle` | one transport, two application threads that may also call `pjsua_handle_ip_change`, one worker; 245,365 states | `TypeOK`; `HeldIsOpen`: a transport in use is never destroyed; `AliveWhenUsed`: nobody but the keep-alive callback works with released memory; `UnusedIsReleasedOrLocked` (liveness) |
| `timer_heap` | six entries, arrays that start with room for two, six schedules, two entries a poll; 230,450 states | `TypeOK`; `Arrays`: heap, ids and free list agree; `RefsCounted`; `ImplementsTimerSet` (refinement) |
| `audio_receive` | six packets, two faults, a ring of three, the wrap of the time stamps; 940,315 states | `TypeOK`; `Ring`; `ImplementsPlayout` (refinement); `Drains` (liveness) |
| `fw_v_refer` | REFER | `NoDanglingUserData` is violated |
| `sdp_v_ack` | two requests, made also while the other party's is being answered | `OfferWaits` is violated |

The last two are disagreements between the code and what its headers or comments say:

1. `call.hpp:1971` warns that the object must not be destroyed when the
   transferred call disconnects; `onCallState` destroys it. The remaining call
   keeps the deleted object as its user data.
2. "Prevent from us cancelling different offer!" (`sip_inv.c:4270`): the handler of the
   ACK (696) cancels whatever local offer is open, also that of an UPDATE sent after the
   re-INVITE had been answered. The other party takes the offer, its answer is ignored,
   and the two are left with different media.

Three properties name the one state in which they do not hold, a disagreement of section 5:
`HungUpEndsOrStranded` and `ConnectingEnds` the BYE of `Stranded`, `UnusedIsReleasedOrLocked`
the deadlock of `LocksCross`. Everything else that could keep a session or a transport is excluded.

`CHECK_DEADLOCK FALSE` is set where the system may stop: a process that has died, a
transaction that has been released, a call that has ended, and where requests, schedules
or transports (each is created once) are used up. In `audio_receive` the player goes
on for ever, and deadlock is checked.

### Bounds

* Two slots are the least in which a call can end while another one lives and in
  which the round robin wraps in both ways. Two objects are enough for the object
  of one call to be deleted by the end of another, and for a failed `makeCall` to
  leave an object without id behind a second one. Each operation uses at most the
  slot it is about and the slot of `call`, so a third adds no new pair.
* Two URIs let a stale argument differ from the right one; where no property
  looks at arguments one is enough.
* `MaxTimers` bounds pending requests: two for overlap and for order reversal, one
  where the run asks for one at a time or has many operations. `UiOps` restricts a
  run to the operations its properties depend on; between them the runs use all.
* `Overlap`, `CallWaiting` and `Refer` separate what the framework supports from
  what breaks it: the passing runs say under which use a property holds.
* The transaction has no counters other than `refs`, which the code itself bounds,
  so `SipTransaction` is explored completely for its number of workers. One worker
  is PJSUA's default. Two is the least with overlapping callbacks.
* `InvCall`: `MaxFaults` 1 takes any one message out with all its retransmissions;
  a single retransmission of the 2xx is enough to meet an ended session. `MaxByes`
  bounds only the types: BYEs end by themselves, with at most four. `Challenged` is
  what the proxy challenges; the caller's BYE, which nothing delays, is left out of the run (with
  all three and no retransmission the properties hold too, on 456,515 states).
* `SdpSession`: four requests are two glares, or a change that drops a codec, one
  that gives its number away, and one that offers it again. Sequence numbers are
  small because each party counts its own requests.
* `TransportMgr`: one transport meets all interleavings of its own life; two
  transports (7,984,272 states) were explored for the safety properties with one
  application thread, with the same result. `MaxUsers` 2 lets one user release while
  another acquires.
* `TimerHeap`: six entries from room for two grow the arrays twice and give a node
  with two children and a grandchild; all entries but one are interchangeable
  (symmetry).
* `AudioReceive`: the constants of `jbuf.c` and `rtp.c` are scaled down together (a
  ring of 3, misorder and dropout 4, indexes modulo 16), their order kept, so that
  overflow, discard, late frames, a jump, a restart and the wrap all happen with six
  packets. Packets are overtaken by others sent after them, but from `InOrderFrom` on, near
  the wrap, only as far as `MAX_MISORDER` allows: beyond, a late packet is taken for a
  restart (section 5).

### Fairness

* `Framework`: the worker polls for ever (weak fairness of `OnTimer`), `deleteLib`
  goes on after its 500 ms sleep, and the session of a call that was hung up ends,
  if only by the timeouts of its BYE or CANCEL transaction (`HangupDone`). Users
  and peers owe nothing.
* `SipTransaction`: every worker finishes what it has begun (weak fairness per kind
  of unfinished work, since each kind is a different thread's). The heap pops its
  earliest entry, so an entry that is due comes out even when the workers are busy
  with other things in between: strong fairness of `PopTimeout`. The code can
  postpone the timeout only finitely often (a CANCEL, each further server of the
  resolver, a lost transport), and each postponement is to a finite time. Receivers,
  users, send callbacks and the retransmission timer's pop have no fairness.
* `InvCall`: messages that are not lost arrive and timers fire (weak fairness of
  each). Users owe nothing.
* `TransportMgr`: a thread goes on with what it began and gets a lock that is given
  back again and again (strong fairness per thread), and an idle timer that stays due
  is popped (strong fairness of `PopIdle`). Applications owe nothing: the
  property is about transports whose users have all gone.
* `AudioReceive`: the sound device keeps asking for frames and each request returns;
  `pjmedia_stream_resume` finishes.
* `SdpSession` and `TimerHeap` need none: what must be reached is stated of the states
  in which nothing is under way.

## 4. Proofs

All theorems are for every value of the constants that satisfies the named assumptions
(`PjsuaCallsAssumption`, `FrameworkAssumption`, `SipTransactionAssumption`,
`InvCallAssumption`, `SdpNegAssumption`, `SdpSessionAssumption`, `SdpMediaAssumption`,
`TransportMgrAssumption`, `FrameListAssumption`, `JitterBufferAssumption`,
`AudioReceiveAssumption`, `TimerHeapAssumption`), which TLC evaluates in the runs. A theorem that needs more has
it as a hypothesis of its own: a use that the code supports, each with what goes wrong
without it. Each inductive invariant was first checked by TLC as an invariant of the
instances named below. `SdpMediaAssumption` is about the media that the users have and ask
for: at most one line of a type (section 9), a static payload type that stands for one
codec, and no more codecs with dynamic payload types in an offered line than there are
numbers, which the code takes for granted too (`find_new_pt`, `sdp_neg.c:1690`).

| Theorem | Property | Hypothesis |
|---|---|---|
| `FrameworkProofs` `TypeCorrect` | `TypeOK` | |
| `UserDataSafe`, `NoOrphan` | `UserDataLive`, `NoOrphanCall` | `~Refer` |
| `PointerSafe` | `CallPointerLive` | |
| `MicSafe`, `MediaSafe` | `MicOnlyToCalls`, `MediaOfActive` | |
| `InOrder` | `ReportsForward` | `~Refer` |
| `Controlled` | `ActiveCallIsControlled` | `~CallWaiting`, `~Refer` |
| `SipTransactionProofs` `TypeCorrect`, `ReferencesSafe` | `TypeOK`, `HoldersCounted` | |
| `ToldForward`, `OneForward` | `ToldInOrder`, `StateForward` | `Workers = 1` |
| `InvCallProofs` `TypeCorrect`, `ByeSafe` | `TypeOK`, `ByeFindsCall` | `MaxByes >= 4` |
| `SdpSessionProofs` `TypeCorrect` | `TypeOK` | |
| `OffersEnd` | `OfferEnds` | `"response" \notin Declines` |
| `OffersWait` | `OfferWaits` | `{"own", "other"} \subseteq Habits` |
| `SdpAgreementProofs` `PartiesAgree` | `Agreement` | `"response" \notin Declines`, `{"own", "other"} \subseteq Habits` |
| `HoldsAreTrue` | `HoldTrue` | the same, and `"hold" \in Habits` |
| `TransportMgrProofs` `TypeCorrect`, `HeldSafe`, `MemorySafe` | `TypeOK`, `HeldIsOpen`, `AliveWhenUsed` | `OneWorker` |
| `AudioReceiveProofs` `TypeCorrect`, `RingCorrect` | `TypeOK`, `Ring` | |
| `TimerHeapProofs` `TypeCorrect`, `ArraysAgree`, `ReferencesCounted` | `TypeOK`, `Arrays`, `RefsCounted` | |
| `Refines` | `ImplementsTimerSet` | |

**FrameworkProofs.** `TypeCorrect`: the only part that is not routine is the round-robin
index, which is left one past the end and wrapped at the next allocation. `UserDataSafe`
and `NoOrphan`, without REFER: the user data of a call is live, is its own object and has
not heard DISCONNECTED, and an active call has an object. None of the two is inductive
alone: the handler of DISCONNECTED deletes the object `call` points to, so what `~Call`
then does to the table depends on that pointer being live and on its id. The inductive
invariant is `IInv == TypeOK /\ UserDataLive /\ CallPointerLive /\ NoOrphanCall`. The
lemmas `MovedAlong` (an event of one call), `Disconnects` (the handler of DISCONNECTED)
and `NewObject` cover most actions; `HeapStep` has one step per action. The assumption
`~Refer` is needed: run `fw_v_refer` is the counterexample.

The second half of the module has four more invariants, each no larger than it must be.

* `PointerSafe` needs only `TypeOK`: whoever deletes the object of `call` resets the
  global, with REFER too. What REFER breaks is the user data, not the pointer.
* `MicSafe` and `MediaSafe` rest on `MicInv`: a slot with media is active and past
  CALLING and INCOMING, and a slot the microphone feeds has media. `MicOnlyToCalls` alone
  is not inductive because the handlers disconnect a slot by looking at its media.
* `InOrder` rests on `Behind` (no object is ahead of the call that reports to it) and
  on `IInv`: with a shared object one call's report would
  follow the other's.
* `Controlled` rests on `SingleInv`: a call is asked for only while there is none, there
  is at most one active call, and it is the one of `call`. Most of the proof is what each
  failure of `makeCall` and each end of a call leaves behind.

TLC: `IInv`, `MicInv` and `Behind` on 623,597 states, `MicInv` with REFER on 236,537,
`SingleInv` on 116,935, and with overlapping requests on 9,774.

**SipTransactionProofs.** `TypeCorrect`: well typed, and the reference count is
never negative. `ReferencesSafe`: `HoldersCounted`, no reference is given back
twice, for any number of workers and any transport. With
`Slack(t) = t.refs - Held(t)`, the references not accounted for by what is to
come, the invariant is `RefInv`: types, and `Slack(tsx) >= Working(busy)`. Every
operator of the model keeps the slack or raises it (`Keeps`, one lemma per operator,
composed by transitivity), so an action is one of four shapes: nothing
begins or ends (`QuietStep`), a callback ends and drops its reference (`EndStep`),
hands its reference to the next part (`PassStep`), or begins (`BeginStep`).
`ToldForward` and `OneForward`: with one worker, PJSUA's default, and any transport the states
go forward and the user hears of them in order. `Follows(t, u)` says that `u` is `t` with a
state that is no earlier and news that are no older than what was told; every operator
follows (one lemma each), except that a failed resend sets TERMINATED whatever the state was.
`ToldInv` keeps that harmless: at most one callback is unfinished, and a DESTROYED
transaction with a message to send again has told its user and not returned, so the send
callback cannot be running. Two workers break both (section 5). TLC: `RefInv` and `ToldInv` on 18,558 states, `RefInv` with two workers on
72,152.

**InvCallProofs.** The hypothesis `MaxByes >= 4` is no restriction of the code: `TypeOK` bounds
the number of BYEs a party sends by `MaxByes`, and the proof shows that four is the
bound. `Budget` counts the reasons to send one that a party has left (the hang-up, a session
confirmed while it is hung up, the end of the INVITE transaction, a challenge). `ByeSafe`: a
BYE of the callee that waited for its ACK finds the caller in the call. Its proof follows the 2xx and the ACK:
unless a fault was used, whatever shows that the callee has heard the ACK (its state, a BYE
on its way) means that the caller is confirmed or ends the call itself (`Acknowledged`);
`Unborn`, `Born` and `Routed` say what can be on its way before and after the INVITE
has arrived. TLC: all three requests challenged and up to 0, 1, 2 faults with 37,325, 878,093
and 7,476,327 states; none challenged with 2,627, 54,311 and 402,967.

**SdpSessionProofs.** For any media, any number of requests and any of the users' habits.
`OffersEnd`: an offer that is open has a transaction that will close it (`Ends`): an own
re-INVITE, an UPDATE under way, or a 2xx whose ACK must bring the answer; so none
is open when nothing is under way. The hypothesis excludes the user who declines the offer in
a 2xx. `OffersWait`: while an UPDATE is under way no other transaction closes its offer
(`Waits`), for users who ask for one thing at a time and not while they are answering; the run
`sdp_v_ack` is the counterexample without the second half. `Wire` relates messages to the
numbers of requests: a 2xx without a description answers a re-INVITE, never an UPDATE.
What offers contain plays no part here: of a negotiation the proofs use its end state and that an
answer which is sent has a line. TLC: the instance of the run; no habits and declined
requests (359,249 states); declined responses as well with both habits (209,738).

**SdpAgreementProofs.** For any media and offers within `SdpMediaAssumption`, any payload type
numbers, and any number of requests that cross and are refused. Three lemmas say what a negotiator does
with descriptions. `MakeOffer`: whatever has been offered before, an offer has the lines it was
asked for, with a number for every codec and no number twice. `GiveAnswer`: an
answer that is sent is an answer to the offer (`AnswerTo`: for each line the same type, and if it is
active one format of the offer and directions that it allows), and it is in use where
it was made. `AcceptAnswer`: who takes such an answer uses lines that agree with it (`Agree`).

The invariant is `DuetInv`: `IInv` of `SdpSessionProofs`, and `Together(p)` and `Holding(p)` of both
parties. It looks at a party with its own messages: `OwnOf(p, net)`, its requests and the
responses to them, and `AcksOf(p, net)`. `Single`: a party has one request under way, or its response,
never two. `AckOnce`: one ACK for each re-INVITE that is over. `Carried`: a request carries the
offer that is open; a response without one carries the offer of the one who responds; what
answers an open offer (`Replies`) is an answer to it and in use where it comes from.
`Duet` adds what `Agreement` lacks to be inductive: the two agree unless an answer is on its
way, and never are answers on their way in both directions. The duet is symmetric
(`DuetSym`), so every handler has one lemma, for either party. A hold is inductive as `HoldOK`:
also the offer that is open does not receive, and a re-INVITE that releases the hold leaves
nothing that receives before it is answered.

The hypotheses exclude three uses, each with its counterexample in the model: an offer in a 2xx that is declined
stays open (section 5), a party that starts something while its re-INVITE is being answered cancels an
offer that was taken (run `sdp_v_ack`), and releasing a call that is not held marks it as held
when the re-INVITE fails (section 5). TLC: `DuetInv` on the 1,293,892 states of the run and,
with three requests, on 121,680 states of a second set of media with two lines, one-way lines and
lines that are not active.

**TransportMgrProofs.** For any number of transports, application threads and users. The
invariant makes both counts exact (`Counted`): `ref_cnt` is the number of users and of threads
that hold the transport for their own work, `grp` is `ref_cnt` plus the threads that hold the group
lock, the scheduled idle timer, and one each for the manager's table and the open socket.
`Life`, `Locks` and `Works` say where a thread can be in the life of the transport it works
with. `HeldSafe` (a transport in use is never destroyed) and `MemorySafe` (nobody uses released memory)
follow; the callback of the keep-alive timer is left out of the latter, because the timer has
no reference and may outlive the transport (section 5). `OneWorker` is PJSUA's
default (`pjsua_core.c`, `thread_cnt` 1); two workers break the check of the idle timer
(section 5). The theorems hold with `pjsua_handle_ip_change` and without. TLC: one transport, two
applications, 245,365 states; two transports, one application, 7,984,272 states.

**AudioReceiveProofs.** For any capacity, widths and settings. `RingCorrect` rests on lemmas about
the operators of `FrameList` (`FrameList` is arithmetic modulo `max_count`: what is `k` places after the head
after a put, a removal, a discard). The count of discarded frames is inductive only with
`Marked`: no frame after the one discarded last is discarded already, so none is counted twice.
`TypeCorrect` needs `Counted`: the cycles of the start stay below the limit unless
a put has just reached it, and then the next get or put ends the start. With the
static algorithm the invariant speaks of all numbers (`Refs`): TLC checks the two properties,
not the invariant, on the instance of the run.

**TimerHeapProofs.** For any entries, pollers, initial size and bounds: a heap of any depth. Three
things are proved of it, and of every copy that the loops make.

* *Where the nodes are.* `Iterates` shows that the recursive function inside `Visits` is what its
  definition says, and `VisitsPath` that the slots visited are a path without a cycle when
  every step but the last raises a rank (downwards the slot, upwards its distance from where
  the loop began). Along a path `Shift` moves every node to a slot of its own
  (`AfterBefore`) and its id follows (`ShiftPlaced`), whatever the order of times.
* *The heap order.* `UpOrdered` and `DownOrdered`: if all is in order but the moved node, and it is no
  earlier than its parent or no later than its children, the loop restores the order. Which
  of the two `remove_node` calls depends on a comparison with the parent of the emptied slot;
  `RemoveNode` shows that it chooses right in every slot, the last one included.
* *The free list.* `Chain(F, end, head, next)` says that the free ids hang together from `freelist` to
  `max_size` without a cycle. Absence of cycles is what `FreeList` alone does not say and
  what makes it inductive: only with it is there a free id whenever the heap has room
  (`ChainHead`, `Room`). A pop, a push and the growth keep it (`ChainPop`, `ChainPush`,
  `ChainGrow`).

`Sound` puts the three together; the invariant adds that entries and nodes are one to one
(`Linked`) and that the references of the group locks add up. `Refines` maps each step: a
cancel finds its entry and disarms it and no other; an entry taken by a poll is due and, since
the head is the earliest (`HeadFirst`), none is due before it. TLC: `IInv` on the 230,450
states of the run.

Induction over numbers is not available as a rule (the library's induction theorems take an
operator as a parameter); `LeastNumber`, which follows from the well-foundedness of `<`, does its work:
what fails for some number fails for a least one, and is then refuted there.

**Only model-checked.**

* Liveness (fairness and ENABLED are out of the prover's reach): `HangupEndsCall`,
  `EndsDestroyed`, `HungUpEndsOrStranded`, `EndsTogether`, `ConnectingEnds`,
  `UnusedIsReleasedOrLocked`, `Drains`.
* `FreedWhenDone` and `Armed` of transactions whose sends complete at once: with two workers
  (the run) and three (350,782 states). An inductive invariant would have to say what each
  place in `busy` knows of the timer's id.
* `PtKeepsCodec`: that a payload type keeps its codec holds only while there is a number that
  was never used; a session that changes its codecs for ever runs out of them (the code then
  takes one that the offer does not use). The run ends before that.
* `ImplementsPlayout`: whether late frames are told from a restart depends on how far the
  network reorders (section 5), which the run bounds with small constants.
* The two violation runs.

## 5. Further disagreements

Seen in the models or the code, without a run of their own. Where the model has the
behaviour the constant that shows it is named.

Framework:

* "Send a DTMF tone that user is pressing on the dialpad while in call"
  (`CustomPJSUA2.hpp:101`): a request stores its argument in a member of the account, and
  nothing makes the next one wait. A second key pressed before the timer of the first has
  fired is sent twice, the first never. The URIs of `outgoingCall` and `transferCall` travel
  the same way. With `Overlap = TRUE` and two pending requests TLC finds
  `RequestUsesItsArgument` violated; with one at a time nothing could violate it, so no run
  checks it.
* "Hangup active call (Incoming/Outgoing/Active)" (`CustomPJSUA2.hpp:69`): after a second call
  has replaced `call` (`CustomPJSUA2.cpp:318`) no request reaches the first
  (`ActiveCallIsControlled` is violated with `CallWaiting = TRUE`).
* "Cleanup when call is disconnected" (347) deletes the object of the global, not
  that of the call that ended. With two calls the wrong one is deleted, and hung up,
  and the ended one stays allocated (`CallWaiting = TRUE`).
* "Set NullDev during the calling state" (341): a call answered without a provisional
  response goes on with the null device.
* A request scheduled before `deleteLib` is polled inside `libDestroy` (437), when the
  account it reads has been deleted.
* "Get caller id for incoming call" (612): the incoming listener runs before the
  object exists (317), so a listener that asks gets the previous caller.
* "Mute the audio transmission" (229): a media update connects the microphone
  again (366 onwards).
* The branch "No incoming call to answer." (136) is not reached when the call has
  no session any more: `getInfo` throws at line 130 and nothing catches it.
* "Library is already initialized" (393) is also the outcome after `deleteLib`,
  which deletes `ep` (441) and leaves the pointer.
* `unregisterAccount` (523) always raises an error, because no account has a
  registrar; nothing catches it.

Transactions:

* `transport_callback` returns early on a pending destroy without giving back the
  reference of the send (`sip_transaction.c:2300`), although `tsx_shutdown` said
  that it "Will destroy later" (1247): the transaction is never freed (`FreedWhenDone` is
  violated with one worker and `AsyncSend = TRUE`).
* "New state must be greater than previous state" (`sip_transaction.c:1397`, asserted): the
  callback of a disconnection looks at the state (1289) before it takes the lock (1293). With
  two workers a retransmission that fails destroys the transaction in between, and it is
  TERMINATED again (`StateForward` is violated with `Workers = 2`, `AsyncSend = FALSE`).
* It also goes back with two workers and asynchronous sends:
  `transport_callback` resends while the user is being told of DESTROYED without the lock;
  a failed resend sets TERMINATED. The comment at 1442 says that "There should be no other
  processing taking place".
* `send_msg_callback` (2211) gives back its reference first and tells the user of
  TERMINATED without the lock; with a second worker the transaction can be gone
  when the lock is taken again (assertion at `lock.c:293`).
* With two workers a retransmission timer that was popped before a transport
  error can tell DESTROYED before the delayed TERMINATED, which the comment at 1336
  means to exclude.
* `pjsip_tsx_terminate_async` ignores its parameter "The status code to report"
  (`sip_transaction.h:425`).

INVITE sessions:

* `pjsua.h:5934`: `pjsua_call_hangup` "will hangup the call regardless of the state and
  role of the call". The callee's ACK is lost and the session sends a BYE with cause
  408, which is not delayed. The user hangs up, which changes the cause to 603. A proxy
  challenges the BYE: it is sent again, `pjsip_inv_send_msg` (`sip_inv.c:3742`) now
  delays it because the session is CONNECTING and the cause is not 408, and nothing is
  left to release it (`Stranded`).
* A callee that hung up while CONNECTING sends two BYEs when the ACK comes, and a
  BYE that overtakes the answer is left unanswered in CALLING. Both are harmless.

Offer and answer:

* Releasing a call that is not held, with a re-INVITE that fails, leaves it marked as
  held (`pjsua_call.c:6415`, reached from `CustomPJSUA2.cpp:176`) against `pjsua.h:5187`;
  remove the habit `"hold"`.
* A hold while the offer of an UPDATE is open sends that offer again and yet marks the
  call as held (`pjsua.h:5995`); remove the habit `"own"`.
* An UPDATE that releases a hold and fails leaves the mark off while the media stay held
  (`pjsua_call.c:6433`).
* An offer in a 2xx that the user declines leaves the negotiator in REMOTE_OFFER
  (`Declines = {"response"}`), and the loss of an ACK that bears the answer leaves it
  in LOCAL_OFFER: no later offer is possible.
* An UPDATE whose answer was ignored keeps `sdp_done` false and may cancel a later
  offer (`sip_inv.c:4262`).
* The version of the origin line is used again after a rejected offer
  (`sdp_neg.c:429`), and the offer that creates a negotiator never enters the table of
  payload types.

Transports:

* `pjsip_tpmgr_shutdown_all`, which `pjsua_handle_ip_change` calls, holds the manager's
  lock and takes each transport's; `pjsip_transport_shutdown2` and `destroy_transport`
  take them in the other order, and the two wait for each other (`LocksCross`).
  `sip_transport.h:1358` says that it "basically invokes pjsip_transport_shutdown2()" on all
  transports.
* "Stop keep-alive timer." (`sip_transport_tcp.c:1374`): a timer that is scheduled and whose
  id is not set yet (1561, 1620) is not stopped. It has no reference of the group lock, so it
  stays in the heap when the transport is released (`kaArmed` of a transport whose memory is
  `"freed"` is reachable in `tp_idle`).
* "to avoid race condition" (`sip_transport.c:1100`): with two workers a received message
  takes a reference between the check of `transport_idle_callback` and
  `pjsip_transport_destroy`, which then returns `PJSIP_EBUSY` with `is_destroying` set. The
  transport is not used and not destroyed any more.
* An incoming connection on which nothing is ever received is not closed when the initial
  timeout is 0 (`sip_config.h:685`).

Jitter buffer:

* PJSUA never calls `pjmedia_stream_pause`. For those who do: a frame in the player's or
  the network's hand during the pause can be played after it.
* The order breaks when packets are reordered around the wrap of the time stamps, or
  come `MAX_MISORDER` frames late: the buffer takes them for a restart.
* A get after a discarded frame drops the next normal frame too.
* `config.h:1513` documents 200 for the default of 100 of
  `PJMEDIA_JBUF_PRO_DISC_MAX_BURST`.

Registration and user agent layer (read, not modelled):

* `sip_reg.c` lets go of its lock around the callback with `has_tsx` already cleared and
  `current_op` stale: the response to a REGISTER sent meanwhile can be taken for that of
  an unregistration. A refresh timer that was popped races `pjsip_regc_destroy2`. The
  busy path of `pjsip_regc_send` gives its reference back without the test for a pending
  destroy. `expiration - delay_before_refresh` wraps when the expiration is below 5.
  Contacts to be removed are forgotten when the send fails. A 200 that comes between
  `pjsip_regc_unregister` and the send starts the refresh timer again.
* `pjsip_ua_find_dialog` gives up the user agent's lock before it waits for the dialog's,
  and the dialog may be destroyed in between: "THIS MAY CAUSE RACE CONDITION!" is its own
  comment (`sip_ua_layer.c:545`).

## 6. Plan

Done: `PjsuaCalls`, `Framework`, `SipTransaction`, `InvCall`, `SdpNeg`, `SdpSession`,
`TransportMgr`, `AudioReceive`, `TimerHeap` with their proofs. Next, in this order:

1. `Dialog` with the group lock: session and transaction counts, deferred destruction,
   the lock order of the user agent layer.
2. `Regc`: one registration with the races above. `Evsub`: a subscription and its timers.
3. `TsxContract`: what a transaction promises its user (states in order, one final
   outcome, destroyed in the end) as an abstract specification that
   `SipTransaction` implements with one worker; `TsxPair`: a client and a server
   transaction over a network that loses, duplicates and reorders.
4. STUN transactions and ICE.

Further theorems: the steps of `ImplementsPlayout` under an explicit bound on how far
the network reorders; `PtKeepsCodec` while a number is left.

## 7. Mutants

For each property of a passing run `PROJECT.json` names a plausible bug (a
definition next to the one it changes) that violates it: an object deleted but not
its pointer, a destructor that forgets the call, an index that is not wrapped, a
reference dropped though the timer was popped, a detached send that keeps its
reference, a timer stopped for the wrong method, a handler that is not scheduled, a cause that only grows, a BYE
that does not wait for the ACK, a re-INVITE that crosses ours and is taken, a free list
that grows one off, a right child that is not looked at, a late frame to which the
buffer jumps back, a transport reused while it is being destroyed.

## 8. Running

    tlc -workers 2 -config Framework_single.cfg MCFramework
    tlc -workers 2 -config SipTransaction_one.cfg SipTransaction
    tlc -workers 2 -config InvCall.cfg InvCall
    tlc -workers 2 -config SdpSession.cfg MCSdpSession
    tlc -workers 2 -config TransportMgr.cfg TransportMgr
    tlc -workers 2 -config TimerHeap.cfg MCTimerHeap
    tlc -workers 2 -config AudioReceive.cfg MCAudioReceive
    tlapm FrameworkProofs.tla
    tlapm SipTransactionProofs.tla
    tlapm InvCallProofs.tla
    tlapm SdpSessionProofs.tla
    tlapm SdpAgreementProofs.tla
    tlapm TransportMgrProofs.tla
    tlapm AudioReceiveProofs.tla
    tlapm TimerHeapProofs.tla

`PROJECT.json` names the configuration of every run and the source lines of every
definition.

## 9. Not modelled

* Framework: listener pointers (taken as set), caller id text, registration and
  transfer status (passed on to listeners), log output.
* PJSUA: instant messages, presence, video, ICE, several media per call, and
  retries of `call_inv_end_session` one by one (`HangupDone` is their end).
* Transaction: the table of transactions and its keys, `pjsip_tsx_set_transport`,
  `pjsip_tsx_retransmit_no_state`, `pjsip_tsx_stop_retransmit` (called by nothing),
  a limit on the number of retransmissions, shutting down the layer, calls of the
  user back into the transaction from inside a callback under the lock, and
  delays: a timer that is scheduled may fire at any time. `lock_timer` protects
  the timer fields inside a step; steps are atomic.
* INVITE session: PRACK and 100rel, session timers, forking, redirection, a hang-up while
  the media transport is being created.
* SDP: telephone-event, formats that are not numbers, matching by the codecs
  themselves, several lines of one type, answers with several codecs, challenged
  re-INVITE and UPDATE.
* Transports: TLS, UDP and loop transports, listeners and selectors, state listeners,
  `pjsip_tpmgr_destroy`, the initial timeout (off in this build), a failing start of
  reading.
* Timer heap: running out of memory, entries freed while they are armed, the
  linked-list build.
* Streams: several frames per packet or per get, statistics, a change of the ptime, the
  learning of G.722 time stamps, DTMF, RTCP, peeking (video), the sending direction and
  the conference bridge.
* Registration, dialogs, subscriptions, STUN, TURN and ICE: left for later (section 6).
* Parsing and printing of messages, codecs, audio devices, echo cancellation,
  XML, DNS and HTTP helpers and third-party code: text processing, signal
  processing and device I/O with no order of events to check. Most of the repository's
  lines are of this kind.
