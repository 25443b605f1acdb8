---------------------------- MODULE MCAudioReceive -----------------------------
(* The jitter buffer as PJSUA sets it up, and one with prefetching.        *)
EXTENDS AudioReceive

MCSettings ==
    {[algo |-> "PROGRESSIVE", prefetch |-> 0], [algo |-> "STATIC", prefetch |-> 2]}
===============================================================================
