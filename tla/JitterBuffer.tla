----------------------------- MODULE JitterBuffer ------------------------------
(***************************************************************************)
(* The jitter buffer (jbuf.c): a frame list, and the delay that adapts to  *)
(* the bursts in which frames arrive.  The operators take a buffer and     *)
(* return it changed.  Durations are in frames; the statistics are left    *)
(* out.                                                                    *)
(***************************************************************************)
EXTENDS FrameList

CONSTANTS INIT_CYCLE,            \* changes between puts and gets before the burst level counts
          STABLE_HISTORY_LIMIT,  \* lower levels in a row before the level is lowered
          jb_max_burst,          \* a longer burst of puts means that the gets were idle
          jb_min_prefetch, jb_max_prefetch,
          jb_min_shrink_gap,     \* frames between two discards
          MIN_BURST, MAX_BURST,  \* bursts between which the duration of a discard
          T1, T2                 \* goes from T1 to T2

ASSUME JitterBufferAssumption ==
    /\ INIT_CYCLE \in Nat \ {0}
    /\ {STABLE_HISTORY_LIMIT, jb_max_burst, jb_min_prefetch, jb_max_prefetch, T1, T2} \subseteq Nat
    /\ jb_min_prefetch <= jb_max_prefetch /\ jb_max_prefetch <= max_count
    /\ jb_min_shrink_gap \in Nat \ {0}
    /\ MIN_BURST \in Nat /\ MAX_BURST \in Nat /\ MIN_BURST < MAX_BURST /\ T1 <= T2

Larger(a, b) == IF a > b THEN a ELSE b

\* The largest effective level.
MaxLevel == (max_count * 4) \div 5

\* From here on the level is not told apart.
LevelCap == Larger(jb_max_burst, max_count) + 1

pjmedia_jbuf_reset(jb) ==
    [jb EXCEPT !.level = 0, !.last_op = "INIT", !.stable_hist = 0, !.status = "INITIALIZING",
               !.init_cycle_cnt = 0, !.max_hist_level = 0, !.prefetching = (jb.prefetch # 0),
               !.discard_dist = 0, !.fl = jb_framelist_reset]

\* pjmedia_jbuf_create, which still prefetches by default, then pjmedia_jbuf_set_adaptive and
\* pjmedia_jbuf_set_discard.
pjmedia_jbuf_create(init_prefetch, algo) ==
    [level |-> 0, last_op |-> "INIT", stable_hist |-> 0, status |-> "INITIALIZING", init_cycle_cnt |-> 0,
     max_hist_level |-> 0, eff_level |-> 0, discard_ref |-> 0, discard_dist |-> 0, fl |-> jb_framelist_reset,
     prefetching |-> MaxLevel # 0, prefetch |-> init_prefetch, init_prefetch |-> init_prefetch, algo |-> algo]

---------------------------------------------------------------------------
\* Adaptation

\* The prefetch follows the level, unless the buffer was set up without one.
Prefetch(jb) ==
    [jb EXCEPT !.prefetch = IF jb.init_prefetch = 0 THEN @
                            ELSE AtMost(Larger(jb.eff_level, jb_min_prefetch), jb_max_prefetch)]

Lowered(jb) ==
    Prefetch([jb EXCEPT !.eff_level = @ - Larger(1, (@ - jb.max_hist_level) \div 3),
                        !.max_hist_level = 0, !.stable_hist = 0])

Raised(jb) == Prefetch([jb EXCEPT !.eff_level = AtMost(jb.max_hist_level, MaxLevel), !.stable_hist = 0])

\* The level has been taken into the history.
NewLevel(jb) ==
    IF jb.level < jb.eff_level
    THEN IF jb.stable_hist + 1 > STABLE_HISTORY_LIMIT THEN Lowered(jb) ELSE [jb EXCEPT !.stable_hist = @ + 1]
    ELSE IF jb.level > jb.eff_level THEN Raised(jb)
    ELSE [jb EXCEPT !.stable_hist = 0]

\* Mutant of jbuf_calculate_jitter: levels are added up rather than compared.
jbuf_calculate_jitter_raw(jb) == NewLevel([jb EXCEPT !.max_hist_level = @ + jb.level])

jbuf_calculate_jitter(jb) == NewLevel([jb EXCEPT !.max_hist_level = Larger(@, jb.level)])

BurstLevel(jb) == Larger(jb.eff_level, jb.level)

\* After the reference has been moved back to the head in case the numbers started again.
StaticShrink(jb) ==
    IF jb.fl.origin - jb.discard_ref >= jb_min_shrink_gap
    THEN [jb EXCEPT !.fl = jb_framelist_remove_head(@, 1), !.discard_ref = jb.fl.origin + AtMost(1, jb.fl.size)]
    ELSE jb

jbuf_discard_static(jb) ==
    IF jb_framelist_eff_size(jb.fl) - 2 * BurstLevel(jb) >= 1
    THEN StaticShrink([jb EXCEPT !.discard_ref = AtMost(@, jb.fl.origin)])
    ELSE jb

\* How long a discard of one frame may take at a burst level.
DiscardTime(burst) ==
    IF burst <= MIN_BURST THEN T1
    ELSE IF burst >= MAX_BURST THEN T2
    ELSE T1 + ((T2 - T1) * (burst - MIN_BURST)) \div (MAX_BURST - MIN_BURST)

LastSeq(fl) == fl.origin + fl.size - 1

DiscardAt(jb, seq) == [jb EXCEPT !.fl = jb_framelist_discard(@, seq), !.discard_ref = seq]

\* The schedule has been set up.
DiscardDue(jb) ==
    IF LastSeq(jb.fl) >= jb.discard_ref + jb.discard_dist
    THEN DiscardAt(jb, Larger(jb.discard_ref + jb.discard_dist, jb.fl.origin))
    ELSE jb

\* A new schedule starts at the last frame; so does one whose frames are ahead of it.
Scheduled(jb) ==
    [jb EXCEPT !.discard_ref = IF jb.discard_dist = 0 THEN LastSeq(jb.fl) ELSE AtMost(@, LastSeq(jb.fl)),
               !.discard_dist = Larger(jb_min_shrink_gap, DiscardTime(BurstLevel(jb)) \div
                                           (jb_framelist_eff_size(jb.fl) - BurstLevel(jb)))]

jbuf_discard_progressive(jb) ==
    IF jb.last_op # "PUT" THEN jb
    ELSE IF jb_framelist_eff_size(jb.fl) <= BurstLevel(jb) THEN [jb EXCEPT !.discard_dist = 0]
    ELSE DiscardDue(Scheduled(jb))

Discard(jb) ==
    CASE jb.status = "INITIALIZING" \/ jb.algo = "NONE" -> jb
      [] jb.status = "PROCESSING" /\ jb.algo = "STATIC" -> jbuf_discard_static(jb)
      [] jb.status = "PROCESSING" /\ jb.algo = "PROGRESSIVE" -> jbuf_discard_progressive(jb)

---------------------------------------------------------------------------
\* Operations

\* The end of a burst, while the buffer is in use and while it is starting.
Switched(jb) ==
    [IF jb.last_op = "GET" /\ jb.level <= jb_max_burst THEN jbuf_calculate_jitter(jb) ELSE jb EXCEPT !.level = 0]

Starting(jb) ==
    IF jb.init_cycle_cnt >= INIT_CYCLE /\ jb.last_op = "GET"
    THEN Switched([jb EXCEPT !.status = "PROCESSING", !.level = AtMost(@, jb_max_burst)])
    ELSE [jb EXCEPT !.level = 0]

jbuf_update(jb, oper) ==
    Discard(IF jb.last_op = oper THEN jb
            ELSE IF jb.status = "INITIALIZING"
            THEN Starting([jb EXCEPT !.last_op = oper, !.init_cycle_cnt = @ + 1])
            ELSE Switched([jb EXCEPT !.last_op = oper]))

Burst(jb, n) == [jb EXCEPT !.level = AtMost(@ + n, LevelCap)]

\* A full list makes room for the frame.
Retried(r, index, frame) ==
    IF r.status = "TOOMANY"
    THEN jb_framelist_put_at(jb_framelist_remove_head(r.fl, index - r.fl.origin - max_count + 1), index, frame)
    ELSE r

\* The list has gone from cur_size to new_size frames.
PutDone(jb, r, cur_size, new_size) ==
    IF r.status = "SUCCESS"
    THEN jbuf_update(Burst([jb EXCEPT !.fl = r.fl, !.prefetching = @ /\ new_size < jb.prefetch],
                           Larger(1, new_size - cur_size)), "PUT")
    ELSE [jb EXCEPT !.fl = r.fl]

PutSized(jb, r) == PutDone(jb, r, jb_framelist_eff_size(jb.fl), jb_framelist_eff_size(r.fl))

pjmedia_jbuf_put_frame3(jb, index, frame) ==
    PutSized(jb, Retried(jb_framelist_put_at(jb.fl, index, frame), index, frame))

GetDone(jb, r) ==
    [frame |-> r.frame,
     jb |-> jbuf_update(Burst([jb EXCEPT !.fl = r.fl,
                                         !.prefetching = @ \/ (r.frame = NONE /\ jb.prefetch # 0)], 1), "GET")]

\* The frame, MISSING, or NONE when the buffer is empty or fills up first; and the buffer.
pjmedia_jbuf_get_frame3(jb) ==
    GetDone(jb, IF jb.prefetching THEN [frame |-> NONE, fl |-> jb.fl] ELSE jb_framelist_get(jb.fl))
===============================================================================
