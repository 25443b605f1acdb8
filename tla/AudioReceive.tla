----------------------------- MODULE AudioReceive ------------------------------
(***************************************************************************)
(* The receiving side of an audio stream (stream.c): the network thread    *)
(* puts the frames of RTP packets into the jitter buffer, the player's     *)
(* thread gets them out, and the application pauses the stream and resumes *)
(* it.  jb_mutex is held only while the buffer is used; what is looked at  *)
(* before may have changed by then.                                        *)
(*                                                                         *)
(* The network loses, duplicates and reorders packets, but no packet comes *)
(* MAX_MISORDER frames late, and where the time stamps are about to wrap   *)
(* or the source restarts packets come in order.  A packet carries one     *)
(* frame, a get asks for one.                                              *)
(***************************************************************************)
EXTENDS JitterBuffer

CONSTANTS Packets,        \* number of packets the source sends
          Starts,         \* where the source may start: frame indexes
          InOrderFrom,    \* those from which packets come in order
          Silences,       \* frames that the source may leave out before a packet
          IdxMod,         \* frame indexes wrap here (with the time stamps)
          SeqMod,         \* and sequence numbers here
          SeqDropout,     \* MAX_DROPOUT of rtp.c
          SeqMisorder,    \* MAX_MISORDER of rtp.c
          SOFT_START,
          Settings,       \* of the buffer, to choose from: its algorithm and the initial prefetch
          MaxFaults       \* how many times something out of the ordinary happens

ASSUME AudioReceiveAssumption ==
    /\ {Packets, InOrderFrom, IdxMod, SeqMod, SeqDropout, SeqMisorder, SOFT_START, MaxFaults} \subseteq Nat
    /\ Starts \subseteq 0 .. IdxMod - 1 /\ Silences \subseteq Nat
    /\ Settings \subseteq [algo : {"NONE", "STATIC", "PROGRESSIVE"}, prefetch : 0 .. jb_max_prefetch]

MIN_SEQUENTIAL == 2

VARIABLES source,   \* the newest packet sent
          net,      \* packets that were overtaken and may still arrive
          faults,   \* what was out of the ordinary so far: silences, losses, duplicates, restarts, pauses
          rtp,      \* sequence numbers as the RTP session sees them
          hand,     \* the packet that the network thread is about to put
          getting,  \* where the player's thread is: "idle", "soft", "count" or "get"
          control,  \* where the application is: "idle", "pausing" or "resuming"
          paused, soft_start_cnt,
          jb,       \* the jitter buffer
          last      \* the last frame played since the buffer was reset, 0 if none

netVars == <<source, net, faults>>
appVars == <<control, paused>>
vars == <<netVars, appVars, rtp, hand, getting, soft_start_cnt, jb, last>>

NoPacket == [n |-> 0, seq |-> 0, index |-> 0]
Nothing == [packet |-> NoPacket, restart |-> FALSE]

Frames == 1 .. Packets

Init ==
    /\ \E start \in Starts : source = [NoPacket EXCEPT !.index = start]
    /\ net = {} /\ faults = 0
    /\ rtp = [received |-> FALSE, max_seq |-> 0, bad_seq |-> SeqMod + 1, probation |-> 0]
    /\ hand = Nothing
    /\ getting = "idle"
    /\ control = "idle" /\ paused = FALSE
    /\ soft_start_cnt = SOFT_START
    /\ \E s \in Settings : jb = pjmedia_jbuf_create(s.prefetch, s.algo)
    /\ last = 0

---------------------------------------------------------------------------
\* The other party and the network

Fault == faults < MaxFaults /\ faults' = faults + 1

\* The packet after p: one frame later, or after silence.
After(p, skip) ==
    [n |-> p.n + 1, seq |-> (p.seq + 1) % SeqMod, index |-> (p.index + 1 + skip) % IdxMod]

\* The source starts again with other numbers.
Restarted(p, start) ==
    [n |-> p.n + 1, seq |-> (p.seq + SeqMod \div 2) % SeqMod, index |-> start]

\* Packets that may still arrive after one with index was sent.
InTime(ps, index) == {p \in ps : (index - p.index) % IdxMod < MAX_MISORDER - 1}

---------------------------------------------------------------------------
\* The network thread

pjmedia_rtp_seq_restart(seq) == [received |-> TRUE, max_seq |-> seq, bad_seq |-> SeqMod + 1, probation |-> 0]

pjmedia_rtp_seq_init(seq) ==
    [pjmedia_rtp_seq_restart(seq) EXCEPT !.max_seq = (seq - 1) % SeqMod, !.probation = MIN_SEQUENTIAL]

\* In probation only a packet in sequence is good.
Probation(s, seq) ==
    IF seq = (s.max_seq + 1) % SeqMod
    THEN [rtp |-> [s EXCEPT !.max_seq = seq, !.probation = @ - 1], status |-> "good"]
    ELSE [rtp |-> [s EXCEPT !.max_seq = seq, !.probation = MIN_SEQUENTIAL - 1], status |-> "bad"]

\* A very large jump: the second packet in sequence restarts the session.
Jump(s, seq) ==
    IF seq = s.bad_seq THEN [rtp |-> pjmedia_rtp_seq_restart(seq), status |-> "restart"]
    ELSE [rtp |-> [s EXCEPT !.bad_seq = (seq + 1) % SeqMod], status |-> "bad"]

\* The sequence number is udelta ahead of the largest one.
Step(s, seq, udelta) ==
    CASE udelta = 0 \/ udelta > SeqMod - SeqMisorder -> [rtp |-> s, status |-> "good"]
      [] 0 < udelta /\ udelta < SeqDropout -> [rtp |-> [s EXCEPT !.max_seq = seq], status |-> "good"]
      [] SeqDropout <= udelta /\ udelta <= SeqMod - SeqMisorder -> Jump(s, seq)

\* The session afterwards, and whether the packet is good, bad, or restarts it.
pjmedia_rtp_seq_update(s, seq) ==
    IF s.probation > 0 THEN Probation(s, seq) ELSE Step(s, seq, (seq - s.max_seq) % SeqMod)

pjmedia_rtp_session_update(s, seq) ==
    pjmedia_rtp_seq_update(IF s.received THEN s ELSE pjmedia_rtp_seq_init(seq), seq)

\* on_rx_rtp before the lock: a packet that is bad, or that comes while the stream is paused,
\* goes no further.
CheckPacket(p) ==
    IF paused THEN UNCHANGED <<rtp, hand>>
    ELSE \E u \in {pjmedia_rtp_session_update(rtp, p.seq)} :
             /\ rtp' = u.rtp
             /\ hand' = IF u.status = "bad" THEN Nothing ELSE [packet |-> p, restart |-> u.status = "restart"]

\* The next packet is sent and arrives.
NextArrives ==
    /\ source' = After(source, 0)
    /\ net' = InTime(net, source'.index)
    /\ UNCHANGED faults
    /\ CheckPacket(After(source, 0))

\* It is sent after frames of silence.
SilenceEnds(p) ==
    /\ Fault
    /\ source' = p
    /\ net' = InTime(net, p.index)
    /\ CheckPacket(p)

\* It overtakes the one sent before it, which is late or lost.
Overtakes(p, late) ==
    /\ Fault
    /\ source' = p
    /\ net' = IF source.index >= InOrderFrom THEN {} ELSE InTime(net \cup {late}, p.index)
    /\ CheckPacket(p)

\* The first packet after a restart of the source.
RestartArrives(p) ==
    /\ Fault
    /\ source' = p
    /\ net' = {}
    /\ CheckPacket(p)

LateArrives(p) ==
    /\ net' = net \ {p}
    /\ UNCHANGED <<source, faults>>
    /\ CheckPacket(p)

\* The newest packet comes again.
DuplicateArrives ==
    /\ Fault
    /\ UNCHANGED <<source, net>>
    /\ CheckPacket(source)

RxPacket ==
    /\ hand = Nothing
    /\ \/ source.n < Packets /\ NextArrives
       \/ source.n < Packets /\ \E skip \in Silences : SilenceEnds(After(source, skip))
       \/ source.n < Packets - 1 /\ Overtakes(After(After(source, 0), 0), After(source, 0))
       \/ 0 < source.n /\ source.n < Packets /\ \E start \in Starts : RestartArrives(Restarted(source, start))
       \/ \E p \in net : LateArrives(p)
       \/ 0 < source.n /\ DuplicateArrives
    /\ UNCHANGED <<getting, appVars, soft_start_cnt, jb, last>>

\* on_rx_rtp with the lock: the frame is put, or the buffer is reset when the session restarted.
PutFrame ==
    /\ hand # Nothing
    /\ hand' = Nothing
    /\ IF hand.restart
       THEN jb' = pjmedia_jbuf_reset(jb) /\ last' = 0
       ELSE jb' = pjmedia_jbuf_put_frame3(jb, hand.packet.index, hand.packet.n) /\ UNCHANGED last
    /\ UNCHANGED <<netVars, rtp, getting, appVars, soft_start_cnt>>

---------------------------------------------------------------------------
\* The player's thread

\* get_frame before the lock.
GetChecks ==
    /\ getting = "idle"
    /\ ~paused
    /\ getting' = IF soft_start_cnt = 0 THEN "get"
                  ELSE IF soft_start_cnt = SOFT_START THEN "soft" ELSE "count"
    /\ UNCHANGED <<netVars, rtp, hand, appVars, soft_start_cnt, jb, last>>

\* The first frame after the start or a resume: the buffer is reset.
SoftStart ==
    /\ getting = "soft"
    /\ getting' = "count"
    /\ jb' = pjmedia_jbuf_reset(jb) /\ last' = 0
    /\ UNCHANGED <<netVars, rtp, hand, appVars, soft_start_cnt>>

\* The counter goes down without the lock: a resume may have set it again since the test.
CountDown ==
    /\ getting = "count"
    /\ getting' = "idle"
    /\ soft_start_cnt' = soft_start_cnt - 1
    /\ UNCHANGED <<netVars, rtp, hand, appVars, jb, last>>

GetFrame ==
    /\ getting = "get"
    /\ getting' = "idle"
    /\ \E r \in {pjmedia_jbuf_get_frame3(jb)} :
           /\ jb' = r.jb
           /\ last' = IF r.frame \in Frames THEN r.frame ELSE last
    /\ UNCHANGED <<netVars, rtp, hand, appVars, soft_start_cnt>>

---------------------------------------------------------------------------
\* The application

\* pjmedia_stream_pause: the flag, then the reset.
Pause ==
    /\ control = "idle" /\ ~paused
    /\ Fault
    /\ control' = "pausing" /\ paused' = TRUE
    /\ UNCHANGED <<source, net, rtp, hand, getting, soft_start_cnt, jb, last>>

PauseResets ==
    /\ control = "pausing"
    /\ control' = "idle"
    /\ jb' = pjmedia_jbuf_reset(jb) /\ last' = 0
    /\ UNCHANGED <<netVars, rtp, hand, getting, paused, soft_start_cnt>>

\* pjmedia_stream_resume: the flag, then the soft start.
Resume ==
    /\ control = "idle" /\ paused
    /\ control' = "resuming" /\ paused' = FALSE
    /\ UNCHANGED <<netVars, rtp, hand, getting, soft_start_cnt, jb, last>>

ResumeSoftStart ==
    /\ control = "resuming"
    /\ control' = "idle"
    /\ soft_start_cnt' = SOFT_START
    /\ UNCHANGED <<netVars, rtp, hand, getting, paused, jb, last>>

Next ==
    \/ RxPacket \/ PutFrame
    \/ GetChecks \/ SoftStart \/ CountDown \/ GetFrame
    \/ Pause \/ PauseResets \/ Resume \/ ResumeSoftStart

\* A get that has been started takes its next step: SoftStart, CountDown or GetFrame.
Returns == getting # "idle" /\ getting' = IF getting = "soft" THEN "count" ELSE "idle"

\* The device asks for a frame again and again, no call waits for ever.
Fairness == WF_vars(GetChecks) /\ WF_getting(Returns) /\ WF_vars(ResumeSoftStart)

Spec == Init /\ [][Next]_vars /\ Fairness

---------------------------------------------------------------------------
\* Properties

\* Types: the burst levels and the prefetch stay within the buffer, whatever the bursts.
TypeOK ==
    /\ jb.level \in 0 .. LevelCap /\ jb.eff_level \in 0 .. MaxLevel
    /\ jb.max_hist_level \in 0 .. jb_max_burst /\ jb.stable_hist \in 0 .. STABLE_HISTORY_LIMIT
    /\ jb.last_op \in {"INIT", "PUT", "GET"} /\ jb.status \in {"INITIALIZING", "PROCESSING"}
    /\ jb.init_cycle_cnt \in 0 .. INIT_CYCLE + 1
    /\ jb.prefetch \in 0 .. jb_max_prefetch /\ jb.prefetching \in BOOLEAN
    /\ jb.discard_dist \in Nat /\ jb.discard_ref \in Int
    /\ hand.packet.n \in 0 .. Packets /\ last \in 0 .. Packets
    /\ getting \in {"idle", "soft", "count", "get"} /\ control \in {"idle", "pausing", "resuming"}
    /\ paused \in BOOLEAN /\ soft_start_cnt \in 0 .. SOFT_START

\* The ring is sound after every put, get, discard, overflow and jump: see RingSound.
Ring == RingSound(jb.fl)

\* Frames are played in the order in which they were sent and each at most once, whatever is
\* lost, late, doubled or discarded.
P == INSTANCE Playout WITH held <- Held(jb.fl), last <- last

ImplementsPlayout == P!Spec

\* What is in the buffer is played or given up sooner or later, unless the buffer is being
\* filled or the stream is paused: no frame that is missing or discarded blocks those behind it.
Drains == Held(jb.fl) # {} ~> Held(jb.fl) = {} \/ jb.prefetching \/ paused
===============================================================================
