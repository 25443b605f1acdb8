--------------------------- MODULE TransportMgrProofs ---------------------------
(***************************************************************************)
(* Proofs about module TransportMgr, for every number of transports, of    *)
(* threads of the application and of users, with one worker thread.        *)
(***************************************************************************)
EXTENDS TransportMgr, FiniteSetTheorems, SequenceTheorems, TLAPS

\* One thread polls timers and sockets.
OneWorker == \A v, w \in Workers : v = w

-------------------------------------------------------------------------------
(* Where a thread can be.                                                  *)

RefPcs == {"send", "queue", "verifyInit", "again", "shutVerify", "dec"}
ShutPcs == {"shutLock", "shut", "shutEnd", "shutMark", "unlock"}
DropPcs == {"rearm", "drop"}
GivePcs == {"shutVerify", "dec"} \cup DropPcs
DestroyPcs == {"destroy", "destroyLock", "unregister", "close"}
TimerPcs == DestroyPcs \cup {"idleCb", "idleCheck", "unref"}
FreshPcs == {"flush", "accepted"}
KeepAlivePcs == {"ka", "kaSchedule", "kaMark"}
WorkerPcs == TimerPcs \cup FreshPcs \cup KeepAlivePcs
Pcs == {"idle", "all", "verify"} \cup RefPcs \cup ShutPcs \cup DropPcs \cup WorkerPcs

ThreadState == [pc : Pcs, tp : Transports \cup {None},
                after : {"idle", "dec", "kaSchedule", "return", "all"}, rest : Seq(Transports)]

\* What is left of a function's calls agrees with where the thread is.
Shaped(s) ==
    /\ s.pc = "idle" => s = Idle
    /\ s.tp = None <=> s.pc \in {"idle", "all"}
    /\ s.pc = "all" => s.after = "all"
    /\ s.after = "all" => s.pc \in ShutPcs \cup GivePcs \cup {"all"}
    /\ s.after = "return" => s.pc \in ShutPcs \cup GivePcs
    /\ s.pc = "shutVerify" => s.after \in {"return", "all"}
    /\ s.after \in {"dec", "kaSchedule"} =>
          s.pc \in {"verifyInit", "again", "dec"} \cup ShutPcs \cup DropPcs

\* The references that a thread holds: one of ref_cnt for its own work, one that it gives
\* back when it is done with a shutdown, and one of the group lock alone.
Refers(s, t) ==
    /\ s.tp = t
    /\ s.pc \in RefPcs \/ (s.pc \in ShutPcs /\ s.after \notin {"return", "all"})
Owes(s, t) == s.tp = t /\ s.after = "dec"
Keeps(s, t) == s.tp = t /\ s.pc \in DropPcs \cup TimerPcs

Referrers(t) == {g \in Threads : Refers(thr[g], t)}
Owers(t) == {g \in Threads : Owes(thr[g], t)}
Keepers(t) == {g \in Threads : Keeps(thr[g], t)}

One(b) == IF b THEN 1 ELSE 0

\* The references of the transport itself, the socket and the manager.
Base(r) == IF r.mem = "live" /\ ~r.is_closing THEN 3 ELSE 0

-------------------------------------------------------------------------------
(* The inductive invariant.                                                *)

InAll(h) == thr[h].pc = "all" \/ thr[h].after = "all"

\* Thread s gives back the reference that its shutdown took, with both locks.
Gives(s) == s.pc \in GivePcs /\ s.after \in {"return", "all"}

Typed ==
    /\ tp \in [Transports -> Transport] /\ users \in [Transports -> 0 .. MaxUsers]
    /\ mgrLock \in Threads \cup {None} /\ thr \in [Threads -> ThreadState]
    /\ table \in Seq(Transports)
    /\ \A i, j \in DOMAIN table : table[i] = table[j] => i = j

\* Both counts are exact, and memory is released when the second is zero.
Counted(t) ==
    /\ tp[t].ref_cnt = users[t] + Cardinality(Referrers(t)) + Cardinality(Owers(t))
    /\ tp[t].grp = tp[t].ref_cnt + Cardinality(Keepers(t)) + One(tp[t].armed) + Base(tp[t])
    /\ tp[t].mem = "live" <=> tp[t].grp > 0

WorkerAt(pcs, t) == \E w \in Workers : thr[w].tp = t /\ thr[w].pc \in pcs

\* The life of a transport.
Life(t) ==
    /\ tp[t].mem = "none" => tp[t] = Unborn
    /\ tp[t].is_destroying => tp[t].ref_cnt = 0 /\ (tp[t].is_closing \/ WorkerAt(DestroyPcs, t))
    /\ tp[t].is_closing => tp[t].is_destroying /\ ~Valid(t) /\ ~tp[t].id
    /\ Valid(t) => tp[t].mem = "live" /\ ~tp[t].is_closing
    /\ Open(t) => Valid(t) \/ WorkerAt({"close"}, t)

\* A thread that is done with the manager's lock only later.
Locks(g) ==
    /\ InAll(g) => mgrLock = g /\ \A i \in DOMAIN thr[g].rest : Valid(thr[g].rest[i])
    /\ InAll(g) /\ thr[g].tp # None => Valid(thr[g].tp)
    /\ thr[g].pc \in {"shutEnd", "shutMark"} => mgrLock = g /\ Valid(thr[g].tp) /\ Usable(thr[g].tp)
    /\ thr[g].pc = "unlock" \/ Gives(thr[g]) => mgrLock = g /\ Valid(thr[g].tp)
    /\ thr[g].pc = "verify" /\ g \in Apps => mgrLock = g /\ Valid(thr[g].tp)

\* A worker and the transport it works with.
Works(g) ==
    /\ thr[g].pc \in WorkerPcs \/ thr[g].after \in {"return", "kaSchedule"} => g \in Workers
    /\ g \in Workers => ~InAll(g)
    /\ g \in Workers /\ thr[g].tp # None => LET r == tp[thr[g].tp] IN
          /\ r.mem # "none"
          /\ thr[g].pc \notin (TimerPcs \ {"idleCheck"}) \cup KeepAlivePcs =>
                Open(thr[g].tp) /\ ~r.is_destroying
          /\ thr[g].pc \in DestroyPcs => r.is_destroying /\ ~r.is_closing
          /\ thr[g].pc \in DestroyPcs \ {"close"} => Valid(thr[g].tp)
          /\ thr[g].pc = "close" => ~r.id /\ ~Valid(thr[g].tp)

IInv ==
    /\ Typed
    /\ \A t \in Transports : Counted(t) /\ Life(t)
    /\ \A g \in Threads : Shaped(thr[g]) /\ Locks(g) /\ Works(g)

-------------------------------------------------------------------------------
(* Counting.                                                               *)

\* A set that gains or loses at most h.
LEMMA CardinalityStep ==
    ASSUME NEW S, NEW T, NEW h, IsFiniteSet(S), T \in {S, S \cup {h}, S \ {h}}
    PROVE  /\ IsFiniteSet(T) /\ Cardinality(S) \in Nat /\ Cardinality(T) \in Nat
           /\ Cardinality(T) = Cardinality(S) + One(h \in T) - One(h \in S)
<1>1. Cardinality(S) \in Nat
    BY FS_CardinalityType
<1>2. CASE T = S
    BY <1>1, <1>2 DEF One
<1>3. CASE T = S \cup {h}
    <2>1. IsFiniteSet(T) /\ Cardinality(T) = IF h \in S THEN Cardinality(S) ELSE Cardinality(S) + 1
        BY <1>3, FS_AddElement
    <2> QED BY <1>1, <1>3, <2>1 DEF One
<1>4. CASE T = S \ {h}
    <2>1. IsFiniteSet(T) /\ Cardinality(T) = IF h \in S THEN Cardinality(S) - 1 ELSE Cardinality(S)
        BY <1>4, FS_RemoveElement
    <2>2. Cardinality(T) \in Nat
        BY <2>1, FS_CardinalityType
    <2> QED BY <1>1, <1>4, <2>1, <2>2 DEF One
<1> QED BY <1>2, <1>3, <1>4

\* What a step of thread h adds to the holders of a transport.
LEMMA Tally ==
    ASSUME NEW h \in Threads, NEW s, NEW t,
           thr \in [Threads -> ThreadState], thr' = [thr EXCEPT ![h] = s]
    PROVE  /\ Cardinality(Referrers(t)) \in Nat /\ Cardinality(Referrers(t)') \in Nat
           /\ Cardinality(Owers(t)) \in Nat /\ Cardinality(Owers(t)') \in Nat
           /\ Cardinality(Keepers(t)) \in Nat /\ Cardinality(Keepers(t)') \in Nat
           /\ Cardinality(Referrers(t)') =
                 Cardinality(Referrers(t)) + One(Refers(s, t)) - One(Refers(thr[h], t))
           /\ Cardinality(Owers(t)') = Cardinality(Owers(t)) + One(Owes(s, t)) - One(Owes(thr[h], t))
           /\ Cardinality(Keepers(t)') = Cardinality(Keepers(t)) + One(Keeps(s, t)) - One(Keeps(thr[h], t))
<1> thr'[h] = s /\ \A g \in Threads \ {h} : thr'[g] = thr[g]
    OBVIOUS
<1>f. ASSUME NEW S \in SUBSET Threads PROVE IsFiniteSet(S)
    BY FS_Subset, TransportMgrAssumption DEF Threads
<1>1. /\ Referrers(t)' \in {Referrers(t), Referrers(t) \cup {h}, Referrers(t) \ {h}}
      /\ h \in Referrers(t)' <=> Refers(s, t)
      /\ h \in Referrers(t) <=> Refers(thr[h], t)
    BY DEF Referrers
<1>2. /\ Owers(t)' \in {Owers(t), Owers(t) \cup {h}, Owers(t) \ {h}}
      /\ h \in Owers(t)' <=> Owes(s, t)
      /\ h \in Owers(t) <=> Owes(thr[h], t)
    BY DEF Owers
<1>3. /\ Keepers(t)' \in {Keepers(t), Keepers(t) \cup {h}, Keepers(t) \ {h}}
      /\ h \in Keepers(t)' <=> Keeps(s, t)
      /\ h \in Keepers(t) <=> Keeps(thr[h], t)
    BY DEF Keepers
<1>4. IsFiniteSet(Referrers(t)) /\ IsFiniteSet(Owers(t)) /\ IsFiniteSet(Keepers(t))
    BY <1>f DEF Referrers, Owers, Keepers
<1>5. /\ Cardinality(Referrers(t)) \in Nat /\ Cardinality(Referrers(t)') \in Nat
      /\ Cardinality(Referrers(t)') =
                 Cardinality(Referrers(t)) + One(Refers(s, t)) - One(Refers(thr[h], t))
    BY <1>1, <1>4, CardinalityStep, ZenonT(60) DEF One
<1>6. /\ Cardinality(Owers(t)) \in Nat /\ Cardinality(Owers(t)') \in Nat
      /\ Cardinality(Owers(t)') = Cardinality(Owers(t)) + One(Owes(s, t)) - One(Owes(thr[h], t))
    BY <1>2, <1>4, CardinalityStep, ZenonT(60) DEF One
<1>7. /\ Cardinality(Keepers(t)) \in Nat /\ Cardinality(Keepers(t)') \in Nat
      /\ Cardinality(Keepers(t)') = Cardinality(Keepers(t)) + One(Keeps(s, t)) - One(Keeps(thr[h], t))
    BY <1>3, <1>4, CardinalityStep, ZenonT(60) DEF One
<1> QED BY <1>5, <1>6, <1>7

\* A transport that a thread holds is counted at least once.
LEMMA HolderCounts ==
    ASSUME NEW g \in Threads, NEW t
    PROVE  /\ Cardinality(Referrers(t)) \in Nat /\ Cardinality(Owers(t)) \in Nat
           /\ Cardinality(Keepers(t)) \in Nat
           /\ Refers(thr[g], t) => Cardinality(Referrers(t)) > 0
           /\ Owes(thr[g], t) => Cardinality(Owers(t)) > 0
           /\ Keeps(thr[g], t) => Cardinality(Keepers(t)) > 0
<1>f. ASSUME NEW S \in SUBSET Threads
      PROVE  Cardinality(S) \in Nat /\ (g \in S => Cardinality(S) > 0)
    <2>1. IsFiniteSet(S)
        BY FS_Subset, TransportMgrAssumption DEF Threads
    <2>2. Cardinality(S) \in Nat
        BY <2>1, FS_CardinalityType
    <2>3. g \in S => Cardinality(S) # 0
        BY <2>1, FS_EmptySet
    <2> QED BY <2>2, <2>3
<1>1. /\ Referrers(t) \in SUBSET Threads /\ Owers(t) \in SUBSET Threads /\ Keepers(t) \in SUBSET Threads
      /\ Refers(thr[g], t) => g \in Referrers(t)
      /\ Owes(thr[g], t) => g \in Owers(t)
      /\ Keeps(thr[g], t) => g \in Keepers(t)
    BY DEF Referrers, Owers, Keepers
<1> QED BY <1>f, <1>1

-------------------------------------------------------------------------------
(* What the operators do to the fields of a transport.                     *)

\* Only the idle timer changed, together with its reference.
Timed(q, r) ==
    /\ r \in Transport
    /\ r.mem = q.mem /\ r.ref_cnt = q.ref_cnt /\ r.is_shutdown = q.is_shutdown
    /\ r.is_destroying = q.is_destroying /\ r.is_closing = q.is_closing
    /\ r.has_pending_connect = q.has_pending_connect /\ r.kaId = q.kaId /\ r.kaArmed = q.kaArmed
    /\ r.grp - One(r.armed) = q.grp - One(q.armed)

\* The transport's fields have their types.
LEMMA Fields ==
    ASSUME NEW r \in Transport
    PROVE  /\ r.ref_cnt \in Int /\ r.grp \in Int /\ r.mem \in {"none", "live", "freed"}
           /\ r.is_shutdown \in BOOLEAN /\ r.is_destroying \in BOOLEAN /\ r.is_closing \in BOOLEAN
           /\ r.has_pending_connect \in BOOLEAN /\ r.id \in BOOLEAN /\ r.armed \in BOOLEAN
           /\ r.kaId \in BOOLEAN /\ r.kaArmed \in BOOLEAN /\ r.lock \in Threads \cup {None}
    BY DEF Transport

\* Only lock, delayed and referred may be set without consequence for what is proved here.
LEMMA Marks ==
    ASSUME NEW r \in Transport, NEW l \in Threads \cup {None}
    PROVE  /\ Timed(r, r)
           /\ Timed(r, [r EXCEPT !.lock = l])
           /\ [r EXCEPT !.lock = l].id = r.id /\ [r EXCEPT !.lock = l].armed = r.armed
           /\ Timed(r, [r EXCEPT !.lock = l, !.delayed = TRUE])
           /\ [r EXCEPT !.lock = l, !.delayed = TRUE].id = r.id
           /\ [r EXCEPT !.lock = l, !.delayed = TRUE].armed = r.armed
           /\ Timed(r, [r EXCEPT !.delayed = FALSE])
           /\ [r EXCEPT !.delayed = FALSE].id = r.id /\ [r EXCEPT !.delayed = FALSE].armed = r.armed
           /\ Timed(r, [r EXCEPT !.referred = TRUE])
           /\ [r EXCEPT !.referred = TRUE].id = r.id /\ [r EXCEPT !.referred = TRUE].armed = r.armed
    BY DEF Transport, Timed, One

LEMMA TimedTrans ==
    ASSUME NEW q \in Transport, NEW r \in Transport, NEW s, Timed(q, r), Timed(r, s)
    PROVE  Timed(q, s)
    BY Fields DEF Timed, One

LEMMA CancelIdleFacts ==
    ASSUME NEW r \in Transport, r.grp > 1
    PROVE  Timed(r, CancelIdle(r)) /\ CancelIdle(r).id = r.id /\ ~CancelIdle(r).armed
<1>1. r.grp \in Int /\ r.grp - 1 \in Int /\ r.grp # 1
    BY Fields
<1>2. CASE r.armed
    <2>1. CancelIdle(r) = [r EXCEPT !.armed = FALSE, !.grp = r.grp - 1]
        BY <1>1, <1>2 DEF CancelIdle, Unref, Transport
    <2> DEFINE q == [r EXCEPT !.armed = FALSE, !.grp = r.grp - 1]
    <2>2. q \in Transport /\ q.grp = r.grp - 1 /\ ~q.armed /\ q.id = r.id
        BY <1>1 DEF Transport
    <2>3. r.grp - 1 - One(FALSE) = r.grp - One(TRUE)
        BY <1>1 DEF One
    <2>4. q.grp - One(q.armed) = r.grp - One(r.armed)
        BY <1>2, <2>2, <2>3, Fields
    <2>5. Timed(r, q)
        BY <2>2, <2>4 DEF Transport, Timed
    <2> QED BY <2>1, <2>2, <2>5
<1>3. CASE ~r.armed
    BY <1>3, Marks DEF CancelIdle
<1> QED BY <1>2, <1>3

LEMMA StopIdleFacts ==
    ASSUME NEW r \in Transport, r.grp > 1
    PROVE  Timed(r, StopIdle(r)) /\ ~StopIdle(r).id /\ StopIdle(r).grp > 0
<1>1. CASE r.id
    <2> DEFINE q == [r EXCEPT !.id = FALSE]
    <2>1. q \in Transport /\ Timed(r, q) /\ q.grp = r.grp /\ ~q.id
        BY DEF Transport, Timed, One
    <2>2. Timed(q, CancelIdle(q)) /\ CancelIdle(q).id = q.id /\ ~CancelIdle(q).armed
        BY <2>1, CancelIdleFacts
    <2>3. Timed(r, CancelIdle(q))
        BY <2>1, <2>2, TimedTrans
    <2>4. CancelIdle(q).grp > 0
        BY <2>2, <2>1, Fields DEF Timed, One
    <2> QED BY <1>1, <2>2, <2>3, <2>1, <2>4 DEF StopIdle
<1>2. CASE ~r.id
    <2>1. StopIdle(r) = r
        BY <1>2 DEF StopIdle
    <2>2. r.grp \in Int /\ Timed(r, r)
        BY Marks, Fields
    <2> QED BY <1>2, <2>1, <2>2
<1> QED BY <1>1, <1>2

LEMMA StartIdleFacts ==
    ASSUME NEW r \in Transport, r.grp > 1
    PROVE  Timed(r, StartIdle(r))
<1> DEFINE q == CancelIdle(r)
           s == [q EXCEPT !.id = TRUE, !.armed = TRUE, !.grp = @ + 1]
<1>1. Timed(r, q) /\ ~q.armed
    BY CancelIdleFacts
<1>2. q \in Transport /\ q.grp \in Int /\ q.grp + 1 \in Int
    BY <1>1, Fields DEF Timed
<1>3. s \in Transport /\ s.grp = q.grp + 1 /\ s.armed
    BY <1>2 DEF Transport
<1>4. Timed(q, s)
    BY <1>1, <1>2, <1>3 DEF Transport, Timed, One
<1>5. Timed(r, s)
    BY <1>1, <1>2, <1>4, TimedTrans
<1> QED BY <1>5 DEF StartIdle

LEMMA VerifiedFacts ==
    ASSUME NEW r \in Transport, NEW v \in BOOLEAN, v => r.grp > 1
    PROVE  Timed(r, Verified(r, v)) /\ (Verified(r, v).id => r.id)
    BY Marks, StopIdleFacts DEF Verified

LEMMA RearmedFacts ==
    ASSUME NEW r \in Transport, NEW v \in BOOLEAN, v => r.grp > 1
    PROVE  Timed(r, Rearmed(r, v)) /\ (Rearmed(r, v).id => r.id \/ v)
    BY Marks, StartIdleFacts DEF Rearmed

-------------------------------------------------------------------------------
(* A step of thread h on transport t, which leaves r, s and u behind.      *)

Moves(h, t, r, s, u) ==
    /\ tp' = [tp EXCEPT ![t] = r] /\ r \in Transport
    /\ thr' = [thr EXCEPT ![h] = s] /\ s \in ThreadState /\ Shaped(s)
    /\ users' = [users EXCEPT ![t] = u] /\ u \in 0 .. MaxUsers
    /\ thr[h].tp \in {t, None} /\ s.tp \in {t, None}

\* References only change hands.
Balanced(h, t, r, s, u) ==
    /\ r.ref_cnt - tp[t].ref_cnt =
          u - users[t] + One(Refers(s, t)) - One(Refers(thr[h], t)) + One(Owes(s, t)) - One(Owes(thr[h], t))
    /\ (r.grp - tp[t].grp) - (r.ref_cnt - tp[t].ref_cnt) =
          One(Keeps(s, t)) - One(Keeps(thr[h], t)) + One(r.armed) - One(tp[t].armed) + Base(r) - Base(tp[t])
    /\ r.mem = "live" <=> r.grp > 0

\* The table changes for t only, and somebody else's lock stays.
Listed(h, t) ==
    /\ table' \in Seq(Transports) /\ \A i, j \in DOMAIN table' : table'[i] = table'[j] => i = j
    /\ \A x \in Transports \ {t} : Valid(x)' <=> Valid(x)
    /\ mgrLock' \in Threads \cup {None}
    /\ mgrLock \notin {None, h} => mgrLock' = mgrLock

\* What the other threads rely on.
Respects(h, t, r) ==
    /\ mgrLock \notin {None, h} => (Valid(t) => Valid(t)') /\ (Usable(t) => Usable(t)')
    /\ \A g \in Workers \ {h} : thr[g].tp = t =>
          /\ Open(t) => r.mem = "live"
          /\ tp[t].mem # "none" => r.mem # "none"
          /\ r.is_destroying = tp[t].is_destroying /\ r.is_closing = tp[t].is_closing
          /\ Valid(t)' <=> Valid(t)
          /\ r.id => tp[t].id \/ Valid(t)

LEMMA ThreadFields ==
    ASSUME NEW s \in ThreadState
    PROVE  /\ s.pc \in Pcs /\ s.tp \in Transports \cup {None} /\ s.rest \in Seq(Transports)
           /\ s.after \in {"idle", "dec", "kaSchedule", "return", "all"}
    BY DEF ThreadState

\* Both counts stay exact.
LEMMA CountedStep ==
    ASSUME IInv, NEW h \in Threads, NEW t \in Transports, NEW r, NEW s, NEW u,
           Moves(h, t, r, s, u), Balanced(h, t, r, s, u), NEW x \in Transports
    PROVE  Counted(x)'
<1>1. /\ tp \in [Transports -> Transport] /\ users \in [Transports -> 0 .. MaxUsers]
      /\ thr \in [Threads -> ThreadState] /\ Counted(x)
    BY DEF IInv, Typed
<1>2. /\ Cardinality(Referrers(x)) \in Nat /\ Cardinality(Referrers(x)') \in Nat
      /\ Cardinality(Owers(x)) \in Nat /\ Cardinality(Owers(x)') \in Nat
      /\ Cardinality(Keepers(x)) \in Nat /\ Cardinality(Keepers(x)') \in Nat
      /\ Cardinality(Referrers(x)') =
            Cardinality(Referrers(x)) + One(Refers(s, x)) - One(Refers(thr[h], x))
      /\ Cardinality(Owers(x)') = Cardinality(Owers(x)) + One(Owes(s, x)) - One(Owes(thr[h], x))
      /\ Cardinality(Keepers(x)') = Cardinality(Keepers(x)) + One(Keeps(s, x)) - One(Keeps(thr[h], x))
    BY <1>1, Tally DEF Moves
<1>3. \A b : One(b) \in Int
    BY DEF One
<1>4. \A q : Base(q) \in Int
    BY DEF Base
<1>5. users[x] \in Int /\ users'[x] \in Int
    BY <1>1, TransportMgrAssumption DEF Moves
<1>6. CASE x = t
    <2>1. tp'[x] = r /\ users'[x] = u
        BY <1>1, <1>6 DEF Moves
    <2>2. tp[x].ref_cnt \in Int /\ tp[x].grp \in Int /\ r.ref_cnt \in Int /\ r.grp \in Int
        BY <1>1, Fields DEF Moves
    <2> HIDE DEF One, Base
    <2>3. r.ref_cnt = u + Cardinality(Referrers(x)') + Cardinality(Owers(x)')
        BY <1>1, <1>2, <1>3, <1>5, <1>6, <2>1, <2>2 DEF Balanced, Counted
    <2>4. r.grp = r.ref_cnt + Cardinality(Keepers(x)') + One(r.armed) + Base(r)
        BY <1>1, <1>2, <1>3, <1>4, <1>6, <2>1, <2>2 DEF Balanced, Counted
    <2> QED BY <2>1, <2>3, <2>4, <1>6 DEF Balanced, Counted
<1>7. CASE x # t
    <2>1. tp'[x] = tp[x] /\ users'[x] = users[x]
        BY <1>1, <1>7 DEF Moves
    <2>2. x # None
        BY TransportMgrAssumption
    <2>3. /\ ~Refers(s, x) /\ ~Owes(s, x) /\ ~Keeps(s, x)
          /\ ~Refers(thr[h], x) /\ ~Owes(thr[h], x) /\ ~Keeps(thr[h], x)
        BY <1>7, <2>2 DEF Moves, Refers, Owes, Keeps
    <2>4. /\ Cardinality(Referrers(x)') = Cardinality(Referrers(x))
          /\ Cardinality(Owers(x)') = Cardinality(Owers(x))
          /\ Cardinality(Keepers(x)') = Cardinality(Keepers(x))
        BY <1>2, <2>3 DEF One
    <2> QED BY <1>1, <2>1, <2>4 DEF Counted
<1> QED BY <1>6, <1>7

\* Nothing happens to the transports that the step is not about.
LEMMA LifeStep ==
    ASSUME IInv, NEW h \in Threads, NEW t \in Transports, NEW r, NEW s, NEW u,
           Moves(h, t, r, s, u), Listed(h, t), NEW x \in Transports, x # t
    PROVE  Life(x)'
<1>1. /\ tp \in [Transports -> Transport] /\ thr \in [Threads -> ThreadState] /\ Life(x)
    BY DEF IInv, Typed
<1>2. tp'[x] = tp[x] /\ (Valid(x)' <=> Valid(x)) /\ x # None
    BY <1>1, TransportMgrAssumption DEF Moves, Listed
<1>3. Open(x)' <=> Open(x)
    BY <1>2 DEF Open
<1>4. \A g \in Threads : thr'[g].tp = x \/ thr[g].tp = x => thr'[g] = thr[g]
    BY <1>1, <1>2 DEF Moves
<1>5. ASSUME NEW pcs PROVE WorkerAt(pcs, x)' <=> WorkerAt(pcs, x)
    BY <1>4 DEF WorkerAt, Threads
<1>6. /\ WorkerAt(DestroyPcs, x)' <=> WorkerAt(DestroyPcs, x)
      /\ WorkerAt({"close"}, x)' <=> WorkerAt({"close"}, x)
    BY <1>5
<1> QED BY <1>1, <1>2, <1>3, <1>6 DEF Life

\* The other threads keep what they rely on.
LEMMA LocksStep ==
    ASSUME IInv, NEW h \in Threads, NEW t \in Transports, NEW r, NEW s, NEW u,
           Moves(h, t, r, s, u), Listed(h, t), Respects(h, t, r), NEW g \in Threads, g # h
    PROVE  Locks(g)'
<1>1. /\ tp \in [Transports -> Transport] /\ thr \in [Threads -> ThreadState]
      /\ Locks(g) /\ Shaped(thr[g]) /\ thr'[g] = thr[g] /\ thr'[h] = s
    BY DEF IInv, Typed, Moves
<1>2. thr[g].tp \in Transports \cup {None} /\ thr[g].rest \in Seq(Transports) /\ g # None
    BY <1>1, ThreadFields, TransportMgrAssumption DEF Threads
<1>3. InAll(g)' <=> InAll(g)
    BY <1>1 DEF InAll
<1>4. ASSUME mgrLock = g, NEW x \in Transports
      PROVE  /\ mgrLock' = g /\ (Valid(x) => Valid(x)') /\ (Usable(x) => Usable(x)')
    <2>1. mgrLock' = g
        BY <1>2, <1>4 DEF Listed
    <2>2. CASE x = t
        BY <2>1, <2>2, <1>2, <1>4 DEF Respects
    <2>3. CASE x # t
        BY <2>1, <2>3, <1>1 DEF Listed, Usable, Moves
    <2> QED BY <2>2, <2>3
<1>5. InAll(g) => mgrLock' = g /\ \A i \in DOMAIN thr[g].rest : Valid(thr[g].rest[i])'
    BY <1>1, <1>2, <1>4 DEF Locks
<1>6. InAll(g) /\ thr[g].tp # None => Valid(thr[g].tp)'
    BY <1>1, <1>2, <1>4 DEF Locks
<1>7. thr[g].pc \in {"shutEnd", "shutMark"} =>
          mgrLock' = g /\ thr[g].tp \in Transports /\ Valid(thr[g].tp)' /\ Usable(thr[g].tp)'
    BY <1>1, <1>2, <1>4 DEF Locks, Shaped
<1>8. thr[g].pc = "verify" /\ g \in Apps => mgrLock' = g /\ Valid(thr[g].tp)'
    BY <1>1, <1>2, <1>4 DEF Locks, Shaped
<1>9. thr[g].pc = "unlock" \/ Gives(thr[g]) =>
          mgrLock' = g /\ thr[g].tp \in Transports /\ Valid(thr[g].tp)'
    BY <1>1, <1>2, <1>4 DEF Locks, Shaped, Gives, GivePcs, DropPcs
<1> QED BY <1>1, <1>3, <1>5, <1>6, <1>7, <1>8, <1>9 DEF Locks

LEMMA WorksStep ==
    ASSUME IInv, NEW h \in Threads, NEW t \in Transports, NEW r, NEW s, NEW u,
           Moves(h, t, r, s, u), Listed(h, t), Respects(h, t, r), NEW g \in Threads, g # h
    PROVE  Works(g)'
<1>1. /\ tp \in [Transports -> Transport] /\ thr \in [Threads -> ThreadState]
      /\ Works(g) /\ thr'[g] = thr[g] /\ (InAll(g)' <=> InAll(g))
    BY DEF IInv, Typed, Moves, InAll
<1>2. thr[g].tp \in Transports \cup {None}
    BY <1>1, ThreadFields
<1>3. CASE g \notin Workers \/ thr[g].tp = None
    BY <1>1, <1>3 DEF Works
<1>4. CASE g \in Workers /\ thr[g].tp = t /\ thr[g].tp # None
    <2>1. tp'[t] = r
        BY <1>1 DEF Moves
    <2>2. /\ Open(t) => Open(t)'
          /\ tp[t].mem # "none" => r.mem # "none"
          /\ r.is_destroying = tp[t].is_destroying /\ r.is_closing = tp[t].is_closing
          /\ Valid(t)' <=> Valid(t)
          /\ r.id => tp[t].id \/ Valid(t)
        BY <1>4, <2>1 DEF Respects, Open
    <2> QED BY <1>1, <1>4, <2>1, <2>2 DEF Works
<1>5. CASE g \in Workers /\ thr[g].tp # t /\ thr[g].tp # None
    <2>1. tp'[thr[g].tp] = tp[thr[g].tp] /\ (Valid(thr[g].tp)' <=> Valid(thr[g].tp))
        BY <1>1, <1>2, <1>5 DEF Moves, Listed
    <2>2. Open(thr[g].tp)' <=> Open(thr[g].tp)
        BY <2>1, <1>1 DEF Open
    <2> QED BY <1>1, <1>5, <2>1, <2>2 DEF Works
<1> QED BY <1>3, <1>4, <1>5

\* What is left to show of a step: its effect on t and h.
LEMMA StepKeeps ==
    ASSUME IInv, NEW h \in Threads, NEW t \in Transports, NEW r, NEW s, NEW u,
           Moves(h, t, r, s, u), Balanced(h, t, r, s, u), Listed(h, t), Respects(h, t, r),
           Life(t)', Locks(h)', Works(h)'
    PROVE  IInv'
<1>1. Typed'
    BY DEF IInv, Typed, Moves, Listed
<1>2. \A x \in Transports : Counted(x)'
    BY CountedStep
<1>3. \A x \in Transports : Life(x)'
    BY LifeStep
<1>4. \A g \in Threads : Locks(g)' /\ Works(g)'
    BY LocksStep, WorksStep
<1>5. \A g \in Threads : Shaped(thr'[g])
    BY DEF IInv, Typed, Moves
<1> QED BY <1>1, <1>2, <1>3, <1>4, <1>5 DEF IInv

-------------------------------------------------------------------------------
(* What the invariant says of a state.                                     *)

\* Both counts cover what is held.
LEMMA CountFacts ==
    ASSUME IInv, NEW t \in Transports
    PROVE  /\ tp[t] \in Transport /\ users[t] \in 0 .. MaxUsers /\ users[t] \in Nat
           /\ tp[t].ref_cnt \in Nat /\ tp[t].grp \in Nat
           /\ tp[t].ref_cnt >= users[t] /\ tp[t].grp >= tp[t].ref_cnt
           /\ tp[t].mem = "live" <=> tp[t].grp > 0
           /\ tp[t].armed => tp[t].grp > 0
           /\ Open(t) => tp[t].grp > 2
<1>1. tp[t] \in Transport /\ users[t] \in 0 .. MaxUsers /\ users[t] \in Nat /\ Counted(t)
    BY TransportMgrAssumption DEF IInv, Typed
<1>2. tp[t].ref_cnt \in Int /\ tp[t].grp \in Int /\ tp[t].armed \in BOOLEAN
    BY <1>1, Fields
<1>3. Cardinality(Referrers(t)) \in Nat /\ Cardinality(Owers(t)) \in Nat /\ Cardinality(Keepers(t)) \in Nat
    <2>1. \A S \in SUBSET Threads : Cardinality(S) \in Nat
        BY FS_Subset, FS_CardinalityType, TransportMgrAssumption DEF Threads
    <2> QED BY <2>1 DEF Referrers, Owers, Keepers
<1>4. One(tp[t].armed) \in 0 .. 1 /\ Base(tp[t]) \in {0, 3} /\ (tp[t].armed => One(tp[t].armed) = 1)
    BY DEF One, Base
<1>5. Open(t) => Base(tp[t]) = 3
    BY DEF Open, Base
<1> HIDE DEF Open, Base, One
<1> QED BY <1>1, <1>2, <1>3, <1>4, <1>5 DEF Counted

\* Who holds a reference keeps the count above zero.
LEMMA HolderFacts ==
    ASSUME IInv, NEW g \in Threads, NEW t \in Transports
    PROVE  /\ Refers(thr[g], t) \/ Owes(thr[g], t) => tp[t].ref_cnt > 0
           /\ Refers(thr[g], t) \/ Owes(thr[g], t) \/ Keeps(thr[g], t) => tp[t].grp > 0
           /\ Refers(thr[g], t) /\ Owes(thr[g], t) => tp[t].ref_cnt > 1
           /\ Keeps(thr[g], t) /\ Open(t) => tp[t].grp > 3
           /\ Keeps(thr[g], t) /\ Open(t) /\ tp[t].armed => tp[t].grp > 4
           /\ Keeps(thr[g], t) /\ tp[t].armed => tp[t].grp > 1
<1>1. Counted(t) /\ users[t] \in Nat
    BY CountFacts DEF IInv
<1>2. tp[t].ref_cnt \in Nat /\ tp[t].grp \in Nat
    BY CountFacts
<1>3. /\ Cardinality(Referrers(t)) \in Nat /\ Cardinality(Owers(t)) \in Nat
      /\ Cardinality(Keepers(t)) \in Nat
      /\ Refers(thr[g], t) => Cardinality(Referrers(t)) > 0
      /\ Owes(thr[g], t) => Cardinality(Owers(t)) > 0
      /\ Keeps(thr[g], t) => Cardinality(Keepers(t)) > 0
    BY HolderCounts
<1>4. One(tp[t].armed) \in 0 .. 1 /\ Base(tp[t]) \in {0, 3} /\ (tp[t].armed => One(tp[t].armed) = 1)
    BY DEF One, Base
<1>5. Open(t) => Base(tp[t]) = 3
    BY DEF Open, Base
<1> HIDE DEF Open, Base, One, Refers, Owes, Keeps
<1> QED BY <1>1, <1>2, <1>3, <1>4, <1>5 DEF Counted

\* A transport in use is open and listed.
LEMMA UsedFacts ==
    ASSUME IInv, NEW t \in Transports, tp[t].ref_cnt > 0
    PROVE  Open(t) /\ Valid(t) /\ ~tp[t].is_destroying
<1>1. Life(t) /\ tp[t].mem = "live"
    BY CountFacts DEF IInv
<1>2. ~tp[t].is_destroying /\ ~tp[t].is_closing
    BY <1>1, CountFacts DEF Life
<1>3. ~WorkerAt({"close"}, t)
    BY <1>2, TransportMgrAssumption DEF IInv, Works, WorkerAt, Threads, DestroyPcs
<1> QED BY <1>1, <1>2, <1>3 DEF Life, Open

\* What a thread works with is in memory, unless it is in the callback of the keep-alive timer.
LEMMA WorkFacts ==
    ASSUME IInv, NEW g \in Threads, NEW t \in Transports, thr[g].tp = t,
           thr[g].pc \notin KeepAlivePcs
    PROVE  tp[t].mem = "live" /\ tp[t].grp > 0 /\ Life(t) /\ thr[g].pc \notin {"idle", "all"}
<1>1. thr[g] \in ThreadState /\ Shaped(thr[g]) /\ Locks(g) /\ Works(g) /\ Life(t) /\ t # None
    BY TransportMgrAssumption DEF IInv, Typed
<1>2. thr[g].pc \notin {"idle", "all"} /\ thr[g].pc \in Pcs
    BY <1>1, ThreadFields DEF Shaped
<1>3. CASE Refers(thr[g], t) \/ Keeps(thr[g], t)
    BY <1>1, <1>2, <1>3, HolderFacts, CountFacts
<1>4. CASE ~Refers(thr[g], t) /\ ~Keeps(thr[g], t)
    <2>1. \/ g \in Workers /\ thr[g].pc \notin TimerPcs
          \/ Valid(t)
        <3>1. thr[g].pc \notin RefPcs \cup DropPcs \cup TimerPcs
            BY <1>4 DEF Refers, Keeps
        <3>2. CASE thr[g].pc \in ShutPcs
            <4>1. thr[g].after \in {"return", "all"}
                BY <1>4, <3>2 DEF Refers
            <4> QED BY <4>1, <3>1, <1>1 DEF Locks, InAll, Works
        <3>3. CASE thr[g].pc = "verify"
            BY <3>3, <3>1, <1>1 DEF Locks, Threads
        <3>4. CASE thr[g].pc \in WorkerPcs
            BY <3>4, <3>1, <1>1 DEF Works
        <3> QED BY <1>2, <3>1, <3>2, <3>3, <3>4 DEF Pcs
    <2>2. tp[t].mem = "live"
        BY <2>1, <1>1 DEF Works, Life, Open
    <2> QED BY <1>1, <1>2, <2>2, CountFacts
<1> QED BY <1>3, <1>4

\* What the runs check follows from the invariant.
LEMMA InvariantSuffices ==
    ASSUME IInv
    PROVE  TypeOK /\ HeldIsOpen /\ AliveWhenUsed
<1>1. TypeOK
    BY CountFacts DEF IInv, Typed, TypeOK
<1>2. HeldIsOpen
    BY CountFacts, UsedFacts DEF HeldIsOpen
<1>3. \A h \in Threads : thr[h].tp # None /\ thr[h].pc \notin KeepAlivePcs => tp[thr[h].tp].mem = "live"
    BY WorkFacts, ThreadFields DEF IInv, Typed
<1>4. \A t \in Transports : tp[t].armed => tp[t].mem = "live"
    BY CountFacts
<1> QED BY <1>1, <1>2, <1>3, <1>4 DEF AliveWhenUsed, KeepAlivePcs

-------------------------------------------------------------------------------
(* Steps that leave the life of a transport alone.                         *)

Plain(t, r) ==
    /\ tp[t].mem = "live" /\ r.mem \in {"live", "freed"} /\ (r.mem = "freed" => tp[t].is_closing)
    /\ r.is_destroying = tp[t].is_destroying /\ r.is_closing = tp[t].is_closing
    /\ r.id => tp[t].id \/ Valid(t)
    /\ r.is_destroying => r.ref_cnt = 0

\* What else a plain step leaves alone: the table, somebody else's lock, and whether a
\* transport may be used while somebody else has the lock.
Calm(h, t, r, s) ==
    /\ table' = table /\ mgrLock' \in Threads \cup {None}
    /\ mgrLock \notin {None, h} => mgrLock' = mgrLock /\ (r.is_shutdown => tp[t].is_shutdown)
    /\ thr[h].pc # "close"
    /\ thr[h].pc \in DestroyPcs => s.pc \in DestroyPcs /\ s.tp = t

LEMMA PlainKeeps ==
    ASSUME OneWorker, IInv, NEW h \in Threads, NEW t \in Transports, NEW r, NEW s, NEW u,
           Moves(h, t, r, s, u), Balanced(h, t, r, s, u), Plain(t, r), Calm(h, t, r, s),
           Locks(h)', Works(h)'
    PROVE  IInv'
<1>1. /\ tp \in [Transports -> Transport] /\ thr \in [Threads -> ThreadState] /\ Typed
      /\ tp'[t] = r /\ thr'[h] = s /\ \A g \in Threads \ {h} : thr'[g] = thr[g]
      /\ Life(t)
    BY DEF IInv, Typed, Moves
<1>2. \A x \in Transports : Valid(x)' <=> Valid(x)
    BY DEF Calm, Valid
<1>3. Listed(h, t)
    BY <1>1, <1>2 DEF Calm, Listed, Typed
<1>5. Open(t) => r.mem = "live"
    BY DEF Plain, Open
<1>6. Respects(h, t, r)
    BY <1>1, <1>2, <1>5 DEF Respects, Plain, Calm, Usable
<1>7. /\ WorkerAt(DestroyPcs, t) => WorkerAt(DestroyPcs, t)'
      /\ WorkerAt({"close"}, t) => WorkerAt({"close"}, t)'
    BY <1>1 DEF WorkerAt, Calm, Threads
<1>8. Open(t)' <=> r.mem = "live" /\ ~r.is_closing
    BY <1>1 DEF Open
<1>9. Life(t)'
    BY <1>1, <1>2, <1>7, <1>8 DEF Life, Plain, Open
<1> QED BY <1>3, <1>6, <1>9, StepKeeps

\* A thread that is neither in a callback nor, in consequence of the step, holds the lock.
LEMMA PlainThread ==
    ASSUME IInv, NEW h \in Threads, NEW t \in Transports, NEW r, NEW s, NEW u,
           Moves(h, t, r, s, u), Plain(t, r), Calm(h, t, r, s),
           s.pc \notin WorkerPcs \cup {"all", "shutEnd", "shutMark", "verify"},
           s.pc = "unlock" \/ Gives(s) => Gives(thr[h]) /\ s.tp = t /\ mgrLock' = mgrLock,
           s.after \in {"idle", "dec"} \/ s.after = thr[h].after,
           s.after = "all" => s.rest = thr[h].rest /\ s.tp = thr[h].tp /\ mgrLock' = mgrLock,
           h \in Workers /\ s.tp # None => Open(t) /\ ~tp[t].is_destroying
    PROVE  Locks(h)' /\ Works(h)'
<1>1. /\ tp'[t] = r /\ thr'[h] = s /\ Locks(h) /\ Works(h) /\ thr[h] \in ThreadState
      /\ Shaped(thr[h]) /\ Shaped(s) /\ s.tp \in {t, None} /\ thr[h].tp \in {t, None}
    BY DEF IInv, Typed, Moves
<1>2. \A x : Valid(x)' <=> Valid(x)
    BY DEF Calm, Valid
<1>3. InAll(h)' <=> s.after = "all"
    BY <1>1 DEF InAll
<1>4. Locks(h)'
    BY <1>1, <1>2, <1>3 DEF Locks, InAll, Gives, GivePcs, DropPcs, Shaped
<1>5. Open(t) => Open(t)'
    BY <1>1 DEF Plain, Open
<1>7. /\ s.pc \notin DestroyPcs /\ s.pc \notin FreshPcs /\ s.pc \notin KeepAlivePcs
      /\ s.pc \notin {"close", "ka", "kaSchedule"} /\ s.pc \notin WorkerPcs
    BY DEF WorkerPcs, TimerPcs, DestroyPcs, KeepAlivePcs
<1>8. s.after \in {"return", "kaSchedule"} => h \in Workers
    BY <1>1 DEF Works
<1>9. h \in Workers => ~InAll(h)'
    BY <1>1, <1>3 DEF Works, InAll
<1>10. h \in Workers /\ s.tp # None => Open(t)' /\ ~r.is_destroying
    BY <1>5 DEF Plain
<1>11. Works(h)'
    BY <1>1, <1>7, <1>8, <1>9, <1>10 DEF Works, Plain
<1> QED BY <1>4, <1>11

LEMMA IdleFacts ==
    ASSUME NEW t \in Transports
    PROVE  /\ Idle \in ThreadState /\ Shaped(Idle) /\ Idle.tp = None /\ Idle.pc = "idle"
           /\ Idle.after = "idle" /\ ~Refers(Idle, t) /\ ~Owes(Idle, t) /\ ~Keeps(Idle, t)
    BY TransportMgrAssumption
    DEF Idle, ThreadState, Shaped, Refers, Owes, Keeps, Pcs, ShutPcs, GivePcs, DropPcs

LEMMA AtFacts ==
    ASSUME NEW t \in Transports, NEW pc \in Pcs \ {"idle", "all", "shutVerify"},
           NEW after \in {"idle", "dec", "kaSchedule", "return"},
           after = "return" => pc \in ShutPcs,
           after \in {"dec", "kaSchedule"} => pc \in {"verifyInit", "again", "dec"} \cup ShutPcs \cup DropPcs
    PROVE  /\ At(pc, t, after) \in ThreadState /\ Shaped(At(pc, t, after))
           /\ At(pc, t, after).tp = t /\ At(pc, t, after).pc = pc /\ At(pc, t, after).after = after
           /\ Refers(At(pc, t, after), t) <=> pc \in RefPcs \/ (pc \in ShutPcs /\ after # "return")
           /\ Owes(At(pc, t, after), t) <=> after = "dec"
           /\ Keeps(At(pc, t, after), t) <=> pc \in DropPcs \cup TimerPcs
    BY TransportMgrAssumption
    DEF At, ThreadState, Shaped, Refers, Owes, Keeps

\* Where a thread that works with t is, in terms of what it holds.
LEMMA HereFacts ==
    ASSUME IInv, NEW h \in Threads, NEW t \in Transports, NEW pc, Is(h, pc, t)
    PROVE  /\ thr[h] \in ThreadState /\ Shaped(thr[h]) /\ thr[h].tp = t /\ thr[h].pc = pc
           /\ thr[h].after \in {"idle", "dec", "kaSchedule", "return", "all"}
           /\ Refers(thr[h], t) <=> pc \in RefPcs \/ (pc \in ShutPcs /\ thr[h].after \notin {"return", "all"})
           /\ Owes(thr[h], t) <=> thr[h].after = "dec"
           /\ Keeps(thr[h], t) <=> pc \in DropPcs \cup TimerPcs
           /\ pc \notin ShutPcs \cup GivePcs => thr[h].after \notin {"return", "all"}
           /\ pc \notin {"verifyInit", "again"} \cup ShutPcs \cup GivePcs => thr[h].after = "idle"
           /\ tp[t].mem = "live"
<1>1. thr[h] \in ThreadState /\ Shaped(thr[h])
    BY DEF IInv, Typed
<1>2. t # None
    BY TransportMgrAssumption
<1> QED BY <1>1, <1>2, ThreadFields DEF Is, Shaped, Refers, Owes, Keeps, GivePcs

\* A thread goes on with the same work.
LEMMA PcFacts ==
    ASSUME NEW q \in ThreadState, Shaped(q), NEW t \in Transports, q.tp = t,
           q.pc \in GivePcs \cup ShutPcs,
           NEW s \in ThreadState, s.tp = t, s.after = q.after, s.pc \in GivePcs \cup ShutPcs,
           s.pc = "shutVerify" => q.after \in {"return", "all"}
    PROVE  /\ Shaped(s)
           /\ Refers(s, t) <=> s.pc \in RefPcs \/ (s.pc \in ShutPcs /\ s.after \notin {"return", "all"})
           /\ Owes(s, t) <=> s.after = "dec"
           /\ Keeps(s, t) <=> s.pc \in DropPcs
<1>1. t # None /\ s.pc \notin {"idle", "all"} /\ s.pc \notin TimerPcs /\ q.pc # "all"
    BY TransportMgrAssumption DEF GivePcs, DropPcs, ShutPcs, TimerPcs, DestroyPcs
<1>2. Shaped(s)
    <2>1. s.after \in {"dec", "kaSchedule"} =>
              s.pc \in {"verifyInit", "again", "dec"} \cup ShutPcs \cup DropPcs
        BY DEF GivePcs
    <2> QED BY <1>1, <2>1 DEF Shaped
<1> QED BY <1>1, <1>2 DEF Refers, Owes, Keeps

\* The place alone changes.
LEMMA PcFields ==
    ASSUME NEW q \in ThreadState, NEW pc \in Pcs, NEW s, s = [q EXCEPT !.pc = pc]
    PROVE  s \in ThreadState /\ s.tp = q.tp /\ s.pc = pc /\ s.after = q.after /\ s.rest = q.rest
    BY DEF ThreadState

LEMMA ReferredFacts ==
    ASSUME NEW r \in Transport
    PROVE  /\ Referred(r) \in Transport
           /\ Referred(r).ref_cnt = r.ref_cnt + 1 /\ Referred(r).grp = r.grp + 1
           /\ Referred(r).mem = r.mem /\ Referred(r).is_shutdown = r.is_shutdown
           /\ Referred(r).is_destroying = r.is_destroying /\ Referred(r).is_closing = r.is_closing
           /\ Referred(r).has_pending_connect = r.has_pending_connect
           /\ Referred(r).kaId = r.kaId /\ Referred(r).kaArmed = r.kaArmed
           /\ Referred(r).id = r.id /\ Referred(r).armed = r.armed
<1>1. r.ref_cnt + 1 \in Int /\ r.grp + 1 \in Int
    BY Fields
<1> QED BY <1>1 DEF Referred, Transport

\* The transport that is in the table is open.
LEMMA ValidFacts ==
    ASSUME IInv, NEW t \in Transports, Valid(t)
    PROVE  Open(t) /\ tp[t].mem = "live" /\ ~tp[t].is_closing /\ tp[t].grp > 2
<1>1. Open(t) /\ tp[t].mem = "live" /\ ~tp[t].is_closing
    BY DEF IInv, Life, Open
<1> QED BY <1>1, CountFacts

\* An open transport on which no worker is busy destroying it can be used.
LEMMA OpenFacts ==
    ASSUME OneWorker, IInv, NEW t \in Transports, NEW h \in Workers,
           Open(t), thr[h].tp # t \/ thr[h].pc \notin DestroyPcs
    PROVE  ~tp[t].is_destroying /\ Valid(t) /\ tp[t].grp > 2 /\ tp[t].mem = "live"
<1>1. ~WorkerAt(DestroyPcs, t) /\ ~WorkerAt({"close"}, t)
    BY DEF OneWorker, WorkerAt, DestroyPcs
<1>2. Life(t)
    BY DEF IInv
<1> QED BY <1>1, <1>2, CountFacts DEF Life, Open

LEMMA VerifyThread ==
    ASSUME IInv, NEW h \in Threads, NEW t \in Transports, NEW r, NEW s, NEW u,
           Moves(h, t, r, s, u), Plain(t, r), Calm(h, t, r, s), s = At("verify", t, "idle"),
           h \in Apps => mgrLock' = h /\ Valid(t), Open(t), ~tp[t].is_destroying
    PROVE  Locks(h)' /\ Works(h)'
<1>1. tp'[t] = r /\ thr'[h] = s /\ (Valid(t)' <=> Valid(t))
    BY DEF IInv, Typed, Moves, Calm, Valid
<1>2. s.pc = "verify" /\ s.tp = t /\ s.after = "idle"
    BY DEF At
<1>3. Locks(h)'
    BY <1>1, <1>2 DEF Locks, InAll, Gives
<1>4. Open(t)' /\ ~r.is_destroying /\ r.mem # "none"
    BY <1>1 DEF Plain, Open
<1>5. Works(h)'
    BY <1>1, <1>2, <1>4
    DEF Works, InAll, WorkerPcs, TimerPcs, DestroyPcs, FreshPcs, KeepAlivePcs
<1> QED BY <1>3, <1>5

\* One more user.
LEMMA UserBalance ==
    ASSUME IInv, NEW h \in Threads, NEW t \in Transports, NEW s, tp[t].mem = "live",
           thr[h] = Idle, s \in {Idle, At("verify", t, "idle")}
    PROVE  Balanced(h, t, Referred(tp[t]), s, users[t] + 1)
<1>1. tp[t] \in Transport /\ tp[t].grp \in Nat /\ tp[t].ref_cnt \in Nat /\ users[t] \in Nat
    BY CountFacts
<1>2. ~Refers(s, t) /\ ~Owes(s, t) /\ ~Keeps(s, t)
    BY IdleFacts, AtFacts DEF Pcs, RefPcs, ShutPcs, DropPcs, TimerPcs, DestroyPcs
<1>3. ~Refers(thr[h], t) /\ ~Owes(thr[h], t) /\ ~Keeps(thr[h], t)
    BY IdleFacts
<1> QED BY <1>1, <1>2, <1>3, ReferredFacts DEF Balanced, One, Base

LEMMA AcquireStep ==
    ASSUME OneWorker, IInv, NEW h \in Threads, Acquire(h)
    PROVE  IInv'
<1>1. PICK i \in DOMAIN table :
          /\ thr[h] = Idle /\ mgrLock = None
          /\ Usable(table[i])
          /\ users[table[i]] < MaxUsers
          /\ Change(table[i], Referred(tp[table[i]]))
          /\ users' = [users EXCEPT ![table[i]] = @ + 1]
          /\ IF tp[table[i]].ref_cnt = 0 THEN Set(h, At("verify", table[i], "idle")) /\ mgrLock' = h
                                         ELSE UNCHANGED <<thr, mgrLock>>
          /\ UNCHANGED table
    BY DEF Acquire
<1> DEFINE t == table[i]
           r == Referred(tp[t])
<1>2. t \in Transports /\ Valid(t) /\ Typed
    BY DEF IInv, Typed, Valid
<1>3. Open(t) /\ tp[t].mem = "live" /\ ~tp[t].is_closing /\ ~tp[t].is_destroying
    BY <1>1, <1>2, ValidFacts DEF Usable
<1>4. PICK s \in {Idle, At("verify", t, "idle")} :
          /\ thr' = [thr EXCEPT ![h] = s]
          /\ mgrLock' \in {None, h} /\ (s # Idle => mgrLock' = h)
    BY <1>1, <1>2 DEF Set, Typed
<1>5. s \in ThreadState /\ Shaped(s) /\ s.tp \in {t, None} /\ s.pc \in {"idle", "verify"} /\ s.after = "idle"
    BY <1>2, IdleFacts, AtFacts DEF Pcs
<1>6. users[t] + 1 \in 0 .. MaxUsers
    BY <1>1, <1>2, CountFacts, TransportMgrAssumption
<1>7. Moves(h, t, r, s, users[t] + 1)
    BY <1>1, <1>2, <1>4, <1>5, <1>6, ReferredFacts, CountFacts, IdleFacts DEF Moves, Change
<1>8. Balanced(h, t, r, s, users[t] + 1)
    BY <1>1, <1>2, <1>3, UserBalance
<1>9. Plain(t, r)
    BY <1>2, <1>3, ReferredFacts, CountFacts DEF Plain
<1>10. Calm(h, t, r, s)
    BY <1>1, <1>2, <1>4, <1>5, IdleFacts DEF Calm, KeepAlivePcs, DestroyPcs
<1>11. Locks(h)' /\ Works(h)'
    <2>1. CASE s = Idle
        BY <2>1, <1>2, <1>3, <1>7, <1>9, <1>10, PlainThread, IdleFacts
        DEF WorkerPcs, TimerPcs, DestroyPcs, FreshPcs, KeepAlivePcs, Gives, GivePcs, DropPcs
    <2>2. CASE s # Idle
        BY <2>2, <1>2, <1>3, <1>4, <1>7, <1>9, <1>10, VerifyThread
    <2> QED BY <2>1, <2>2
<1> QED BY <1>2, <1>7, <1>8, <1>9, <1>10, <1>11, PlainKeeps

\* A plain step after which the thread is at a plain place.
LEMMA PlainStep ==
    ASSUME OneWorker, IInv, NEW h \in Threads, NEW t \in Transports, NEW r, NEW s, NEW u,
           Moves(h, t, r, s, u), Balanced(h, t, r, s, u), Plain(t, r), Calm(h, t, r, s),
           s.pc \notin WorkerPcs \cup {"all", "shutEnd", "shutMark", "verify"},
           s.pc = "unlock" \/ Gives(s) => Gives(thr[h]) /\ s.tp = t /\ mgrLock' = mgrLock,
           s.after \in {"idle", "dec"} \/ s.after = thr[h].after,
           s.after = "all" => s.rest = thr[h].rest /\ s.tp = thr[h].tp /\ mgrLock' = mgrLock,
           h \in Workers /\ s.tp # None => Open(t) /\ ~tp[t].is_destroying
    PROVE  IInv'
    BY PlainThread, PlainKeeps

\* At most the idle timer changes and the thread holds what it held.
LEMMA TimedPlain ==
    ASSUME IInv, NEW h \in Threads, NEW t \in Transports, NEW r, NEW s, Timed(tp[t], r),
           tp[t].mem = "live", r.id => tp[t].id \/ Valid(t),
           (r.grp = tp[t].grp /\ r.armed = tp[t].armed) \/ Open(t),
           Refers(s, t) <=> Refers(thr[h], t), Owes(s, t) <=> Owes(thr[h], t),
           Keeps(s, t) <=> Keeps(thr[h], t)
    PROVE  Plain(t, r) /\ Balanced(h, t, r, s, users[t])
<1>1. /\ tp[t] \in Transport /\ r \in Transport /\ Life(t) /\ Counted(t) /\ users[t] \in Nat
      /\ tp[t].grp \in Nat /\ tp[t].ref_cnt \in Nat
    BY CountFacts DEF IInv, Timed
<1>2. Plain(t, r)
    BY <1>1 DEF Plain, Timed, Life
<1>3. /\ Cardinality(Keepers(t)) \in Nat /\ r.grp \in Int
      /\ One(r.armed) \in 0 .. 1 /\ One(tp[t].armed) \in 0 .. 1
    BY <1>1, HolderCounts, Fields DEF One
<1>4. Base(r) = Base(tp[t]) /\ (Open(t) => Base(r) = 3) /\ Base(r) \in {0, 3}
    BY DEF Base, Timed, Open
<1>5. r.mem = "live" <=> r.grp > 0
    <2>1. CASE r.grp = tp[t].grp
        BY <2>1, <1>1 DEF Counted, Timed
    <2>2. CASE Open(t)
        <3>1. r.grp = r.ref_cnt + Cardinality(Keepers(t)) + One(r.armed) + 3
            BY <2>2, <1>1, <1>3, <1>4 DEF Counted, Timed
        <3> QED BY <3>1, <2>2, <1>1, <1>3 DEF Timed, Open
    <2> QED BY <2>1, <2>2
<1>6. Balanced(h, t, r, s, users[t])
    <2>1. /\ One(Refers(s, t)) = One(Refers(thr[h], t)) /\ One(Owes(s, t)) = One(Owes(thr[h], t))
          /\ One(Keeps(s, t)) = One(Keeps(thr[h], t))
          /\ One(Refers(s, t)) \in Int /\ One(Owes(s, t)) \in Int /\ One(Keeps(s, t)) \in Int
        BY DEF One
    <2>2. r.ref_cnt = tp[t].ref_cnt /\ r.grp - One(r.armed) = tp[t].grp - One(tp[t].armed)
        BY DEF Timed
    <2>3. r.ref_cnt - tp[t].ref_cnt =
             users[t] - users[t] + One(Refers(s, t)) - One(Refers(thr[h], t)) + One(Owes(s, t)) - One(Owes(thr[h], t))
        BY <2>1, <2>2, <1>1
    <2>4. (r.grp - tp[t].grp) - (r.ref_cnt - tp[t].ref_cnt) =
             One(Keeps(s, t)) - One(Keeps(thr[h], t)) + One(r.armed) - One(tp[t].armed) + Base(r) - Base(tp[t])
        <3>1. r.grp - tp[t].grp = One(r.armed) - One(tp[t].armed)
            BY <2>2, <1>1, <1>3
        <3>2. One(Keeps(s, t)) - One(Keeps(thr[h], t)) = 0
            BY <2>1
        <3>3. Base(r) - Base(tp[t]) = 0
            BY <1>4
        <3>4. r.ref_cnt - tp[t].ref_cnt = 0
            BY <2>2, <1>1
        <3> QED BY <3>1, <3>2, <3>3, <3>4, <2>1, <1>1, <1>3, <1>4
    <2> QED BY <2>3, <2>4, <1>5 DEF Balanced
<1> QED BY <1>2, <1>6

LEMMA VerifyStep ==
    ASSUME OneWorker, IInv, NEW h \in Threads, NEW t \in Transports, Verify(h, t)
    PROVE  IInv'
<1> DEFINE r == Verified(tp[t], Valid(t))
<1>1. Is(h, "verify", t) /\ LockFree(h)
    BY DEF Verify
<1>2. /\ thr[h].tp = t /\ thr[h].pc = "verify" /\ thr[h].after = "idle"
      /\ ~Refers(thr[h], t) /\ ~Owes(thr[h], t) /\ ~Keeps(thr[h], t)
    BY <1>1, HereFacts DEF RefPcs, ShutPcs, GivePcs, DropPcs, TimerPcs, DestroyPcs
<1>3. tp[t].mem = "live" /\ tp[t] \in Transport
    BY <1>2, WorkFacts, CountFacts DEF KeepAlivePcs
<1>4. Open(t)
    BY <1>2, TransportMgrAssumption, ValidFacts
    DEF IInv, Works, Locks, Threads, TimerPcs, DestroyPcs, KeepAlivePcs
<1>5. Timed(tp[t], r) /\ (r.id => tp[t].id)
    <2>1. Valid(t) \in BOOLEAN
        BY DEF Valid
    <2>2. Valid(t) => tp[t].grp > 1
        BY ValidFacts, CountFacts
    <2> QED BY <1>3, <2>1, <2>2, VerifiedFacts
<1>6. Moves(h, t, r, Idle, users[t])
    BY <1>2, <1>5, CountFacts, IdleFacts DEF Verify, Moves, Change, Set, Timed, IInv, Typed
<1>7. Plain(t, r) /\ Balanced(h, t, r, Idle, users[t])
    BY <1>2, <1>3, <1>4, <1>5, IdleFacts, TimedPlain
<1>8. Calm(h, t, r, Idle)
    BY <1>1, <1>2, <1>5, IdleFacts DEF Verify, Calm, LockFree, KeepAlivePcs, DestroyPcs, Timed
<1> QED BY <1>6, <1>7, <1>8, IdleFacts, PlainStep
        DEF WorkerPcs, TimerPcs, DestroyPcs, FreshPcs, KeepAlivePcs, Gives, GivePcs, DropPcs

\* What pjsip_transport_dec_ref leaves of the count.
LEMMA DecRefFacts ==
    ASSUME IInv, NEW t \in Transports, tp[t].ref_cnt > 0
    PROVE  LET r == [tp[t] EXCEPT !.ref_cnt = @ - 1] IN
           /\ r \in Transport /\ Plain(t, r) /\ r.is_shutdown = tp[t].is_shutdown
           /\ r.ref_cnt = tp[t].ref_cnt - 1 /\ r.grp = tp[t].grp /\ r.armed = tp[t].armed
           /\ r.mem = "live" /\ tp[t].mem = "live" /\ Base(r) = Base(tp[t])
           /\ tp[t].ref_cnt \in Nat /\ tp[t].grp \in Nat /\ tp[t].grp > 0
<1>1. tp[t] \in Transport /\ Open(t) /\ ~tp[t].is_destroying
    BY CountFacts, UsedFacts
<1>2. tp[t].ref_cnt \in Nat /\ tp[t].grp \in Nat /\ tp[t].grp > 0 /\ tp[t].ref_cnt - 1 \in Int
    BY CountFacts
<1> DEFINE r == [tp[t] EXCEPT !.ref_cnt = @ - 1]
<1>3. /\ r \in Transport /\ r.ref_cnt = tp[t].ref_cnt - 1 /\ r.grp = tp[t].grp /\ r.armed = tp[t].armed
      /\ r.mem = tp[t].mem /\ r.is_closing = tp[t].is_closing /\ r.is_shutdown = tp[t].is_shutdown
      /\ r.is_destroying = tp[t].is_destroying /\ r.has_pending_connect = tp[t].has_pending_connect
      /\ r.kaId = tp[t].kaId /\ r.kaArmed = tp[t].kaArmed /\ r.id = tp[t].id
    BY <1>1, <1>2 DEF Transport
<1> QED BY <1>1, <1>2, <1>3 DEF Plain, Open, Base

\* A reference that a user or the thread gives back becomes one of the group lock.
LEMMA DecRefStep ==
    ASSUME OneWorker, IInv, NEW h \in Threads, NEW t \in Transports, NEW u, NEW q \in ThreadState,
           Shaped(q), q.tp = t, q.pc = "dec",
           DecRef(h, t, q), users' = [users EXCEPT ![t] = u], u \in 0 .. MaxUsers,
           \/ thr[h] = Idle /\ q.after = "idle" /\ u = users[t] - 1 /\ users[t] > 0
           \/ Is(h, "dec", t) /\ q = thr[h] /\ u = users[t]
    PROVE  IInv'
<1> DEFINE r == [tp[t] EXCEPT !.ref_cnt = @ - 1]
           s == [q EXCEPT !.pc = IF tp[t].ref_cnt = 1 THEN "rearm" ELSE "drop"]
<1>1. /\ thr[h].tp \in {t, None} /\ thr[h].pc \in {"idle", "dec"} /\ tp[t].ref_cnt > 0
      /\ users[t] \in Nat /\ ~Keeps(thr[h], t)
      /\ Owes(thr[h], t) <=> q.after = "dec"
      /\ Refers(thr[h], t) <=> u = users[t]
      /\ q.after # "idle" => q = thr[h]
    <2>1. users[t] \in Nat
        BY CountFacts
    <2>2. CASE thr[h] = Idle /\ q.after = "idle" /\ u = users[t] - 1 /\ users[t] > 0
        BY <2>1, <2>2, IdleFacts, CountFacts
    <2>3. CASE Is(h, "dec", t) /\ q = thr[h] /\ u = users[t]
        BY <2>1, <2>3, HereFacts, HolderFacts DEF RefPcs, DropPcs, TimerPcs, DestroyPcs
    <2> QED BY <2>2, <2>3
<1>2. /\ s \in ThreadState /\ Shaped(s) /\ s.tp = t /\ s.pc \in {"rearm", "drop"} /\ s.after = q.after
      /\ s.rest = q.rest
      /\ ~Refers(s, t) /\ Keeps(s, t) /\ (Owes(s, t) <=> q.after = "dec")
    <2>1. s \in ThreadState /\ s.tp = t /\ s.pc \in {"rearm", "drop"} /\ s.after = q.after /\ s.rest = q.rest
        BY PcFields DEF Pcs, DropPcs
    <2> HIDE DEF s
    <2> QED BY <2>1, PcFacts DEF RefPcs, ShutPcs, GivePcs, DropPcs
<1>3. /\ r \in Transport /\ Plain(t, r) /\ r.is_shutdown = tp[t].is_shutdown
      /\ r.ref_cnt = tp[t].ref_cnt - 1 /\ r.grp = tp[t].grp /\ r.armed = tp[t].armed
      /\ r.mem = "live" /\ tp[t].mem = "live" /\ Base(r) = Base(tp[t])
      /\ tp[t].ref_cnt \in Nat /\ tp[t].grp \in Nat /\ tp[t].grp > 0
    BY <1>1, DecRefFacts
<1>4. Moves(h, t, r, s, u)
    BY <1>1, <1>2, <1>3 DEF Moves, DecRef, Change, Set
<1>5. Balanced(h, t, r, s, u)
    <2>1. u - users[t] = IF Refers(thr[h], t) THEN 0 ELSE -1
        BY <1>1, IdleFacts, HereFacts DEF RefPcs, Is, Idle
    <2>2. One(r.armed) = One(tp[t].armed) /\ One(r.armed) \in Int /\ Base(r) \in Int
        BY <1>3 DEF One, Base
    <2>3. One(Refers(s, t)) = 0 /\ One(Keeps(s, t)) = 1 /\ One(Keeps(thr[h], t)) = 0
        BY <1>1, <1>2 DEF One
    <2>4. One(Owes(s, t)) = One(Owes(thr[h], t)) /\ One(Owes(s, t)) \in Int
        BY <1>1, <1>2 DEF One
    <2>5. u - users[t] - One(Refers(thr[h], t)) = -1
        BY <2>1 DEF One
    <2>6. u \in Int /\ users[t] \in Int /\ One(Refers(thr[h], t)) \in Int
        BY <1>1, TransportMgrAssumption DEF One
    <2> HIDE DEF One, Base, r, s
    <2> QED BY <1>3, <2>2, <2>3, <2>4, <2>5, <2>6 DEF Balanced
<1> HIDE DEF r, s
<1>6. table' = table /\ mgrLock' = mgrLock
    BY DEF DecRef
<1>7. Calm(h, t, r, s)
    BY <1>1, <1>2, <1>3, <1>6 DEF Calm, DestroyPcs, IInv, Typed
<1>8. /\ Gives(s) => Gives(thr[h])
      /\ s.after = "idle" \/ s.after = thr[h].after
      /\ s.after = "all" => s.rest = thr[h].rest /\ s.tp = thr[h].tp
    BY <1>1, <1>2 DEF Gives, GivePcs
<1>9. Open(t) /\ ~tp[t].is_destroying
    BY <1>1, UsedFacts
<1> QED BY <1>2, <1>3, <1>4, <1>5, <1>6, <1>7, <1>8, <1>9, PlainStep
        DEF WorkerPcs, TimerPcs, DestroyPcs, FreshPcs, KeepAlivePcs

LEMMA ReleaseStep ==
    ASSUME OneWorker, IInv, NEW h \in Threads, NEW t \in Transports, Release(h, t)
    PROVE  IInv'
<1>1. users[t] \in 0 .. MaxUsers /\ users[t] > 0 /\ users[t] - 1 \in 0 .. MaxUsers
    BY CountFacts, TransportMgrAssumption DEF Release
<1>2. users' = [users EXCEPT ![t] = users[t] - 1] /\ thr[h] = Idle /\ DecRef(h, t, At("dec", t, "idle"))
    BY DEF Release
<1>3. LET q == At("dec", t, "idle") IN
      q \in ThreadState /\ Shaped(q) /\ q.tp = t /\ q.pc = "dec" /\ q.after = "idle"
    BY AtFacts DEF Pcs, RefPcs
<1> QED BY <1>1, <1>2, <1>3, DecRefStep

LEMMA DecStep ==
    ASSUME OneWorker, IInv, NEW h \in Threads, NEW t \in Transports, Dec(h, t)
    PROVE  IInv'
<1>1. Is(h, "dec", t) /\ DecRef(h, t, thr[h]) /\ users' = users
    BY DEF Dec
<1>2. thr[h] \in ThreadState /\ Shaped(thr[h]) /\ thr[h].tp = t /\ thr[h].pc = "dec"
    BY <1>1, HereFacts
<1>3. users[t] \in 0 .. MaxUsers /\ users' = [users EXCEPT ![t] = users[t]]
    BY <1>1, CountFacts DEF IInv, Typed
<1> QED BY <1>1, <1>2, <1>3, DecRefStep

LEMMA RearmStep ==
    ASSUME OneWorker, IInv, NEW h \in Threads, NEW t \in Transports, Rearm(h, t)
    PROVE  IInv'
<1> DEFINE r == Rearmed(tp[t], Valid(t))
           s == [thr[h] EXCEPT !.pc = "drop"]
<1>1. Is(h, "rearm", t) /\ LockFree(h)
    BY DEF Rearm
<1>2. /\ thr[h].tp = t /\ thr[h].pc = "rearm" /\ thr[h] \in ThreadState /\ Shaped(thr[h])
      /\ ~Refers(thr[h], t) /\ (Owes(thr[h], t) <=> thr[h].after = "dec") /\ Keeps(thr[h], t)
    BY <1>1, HereFacts DEF RefPcs, ShutPcs, GivePcs, DropPcs
<1>3. /\ s \in ThreadState /\ Shaped(s) /\ s.tp = t /\ s.pc = "drop" /\ s.after = thr[h].after
      /\ s.rest = thr[h].rest
      /\ ~Refers(s, t) /\ (Owes(s, t) <=> thr[h].after = "dec") /\ Keeps(s, t)
    <2>1. s \in ThreadState /\ s.tp = t /\ s.pc = "drop" /\ s.after = thr[h].after /\ s.rest = thr[h].rest
        BY <1>2, PcFields DEF Pcs, DropPcs
    <2> HIDE DEF s
    <2> QED BY <1>2, <2>1, PcFacts DEF RefPcs, ShutPcs, GivePcs, DropPcs
<1> HIDE DEF s
<1>4. tp[t].mem = "live" /\ tp[t] \in Transport
    BY <1>2, WorkFacts, CountFacts DEF KeepAlivePcs
<1>5. Timed(tp[t], r) /\ (r.id => tp[t].id \/ Valid(t))
    <2>1. Valid(t) \in BOOLEAN
        BY DEF Valid
    <2>2. Valid(t) => tp[t].grp > 1
        BY ValidFacts, CountFacts
    <2> QED BY <1>4, <2>1, <2>2, RearmedFacts
<1>6. (r.grp = tp[t].grp /\ r.armed = tp[t].armed) \/ Open(t)
    BY ValidFacts DEF Rearmed
<1>7. Moves(h, t, r, s, users[t])
    BY <1>2, <1>3, <1>5, CountFacts DEF Rearm, Moves, Change, Set, Timed, IInv, Typed, s
<1>8. Plain(t, r) /\ Balanced(h, t, r, s, users[t])
    BY <1>2, <1>3, <1>4, <1>5, <1>6, TimedPlain
<1>9. Calm(h, t, r, s)
    BY <1>1, <1>2, <1>3, <1>5 DEF Rearm, Calm, KeepAlivePcs, DestroyPcs, Timed, IInv, Typed
<1>10. h \in Workers => Open(t) /\ ~tp[t].is_destroying
    BY <1>2, TransportMgrAssumption DEF IInv, Works, TimerPcs, DestroyPcs, KeepAlivePcs
<1>11. mgrLock' = mgrLock /\ (Gives(s) => Gives(thr[h]))
    BY <1>2, <1>3 DEF Rearm, Gives, GivePcs, DropPcs
<1> QED BY <1>2, <1>3, <1>7, <1>8, <1>9, <1>10, <1>11, PlainStep
        DEF WorkerPcs, TimerPcs, DestroyPcs, FreshPcs, KeepAlivePcs, Gives, GivePcs, DropPcs

\* pj_grp_lock_dec_ref.
LEMMA UnrefFacts ==
    ASSUME NEW r \in Transport, NEW n \in Nat
    PROVE  /\ Unref(r, n) \in Transport /\ Unref(r, n).grp = r.grp - n
           /\ r.grp = n => Unref(r, n).mem = "freed"
           /\ r.grp # n => Unref(r, n).mem = r.mem
           /\ Unref(r, n).ref_cnt = r.ref_cnt /\ Unref(r, n).is_shutdown = r.is_shutdown
           /\ Unref(r, n).is_destroying = r.is_destroying /\ Unref(r, n).is_closing = r.is_closing
           /\ Unref(r, n).has_pending_connect = r.has_pending_connect
           /\ Unref(r, n).kaId = r.kaId /\ Unref(r, n).kaArmed = r.kaArmed
           /\ Unref(r, n).id = r.id /\ Unref(r, n).armed = r.armed
<1>1. r.grp - n \in Int
    BY Fields
<1> QED BY <1>1 DEF Unref, Transport

\* A thread gives back a reference of the group lock; only a transport that is closed
\* already can go with it.
LEMMA DropBalance ==
    ASSUME IInv, NEW h \in Threads, NEW t \in Transports, NEW s, Keeps(thr[h], t), ~Refers(thr[h], t),
           ~Keeps(s, t), ~Owes(s, t), Refers(s, t) <=> Owes(thr[h], t)
    PROVE  LET r == Unref(tp[t], 1) IN
           /\ r \in Transport /\ Plain(t, r) /\ Balanced(h, t, r, s, users[t])
           /\ r.is_shutdown = tp[t].is_shutdown
<1> DEFINE r == Unref(tp[t], 1)
<1>1. /\ tp[t] \in Transport /\ tp[t].grp \in Nat /\ tp[t].grp > 0 /\ tp[t].mem = "live"
      /\ tp[t].ref_cnt \in Nat /\ users[t] \in Nat /\ Life(t)
    BY CountFacts, HolderFacts DEF IInv
<1>2. /\ r \in Transport /\ r.grp = tp[t].grp - 1
      /\ (tp[t].grp = 1 => r.mem = "freed") /\ (tp[t].grp # 1 => r.mem = "live")
      /\ r.ref_cnt = tp[t].ref_cnt /\ r.is_shutdown = tp[t].is_shutdown
      /\ r.is_destroying = tp[t].is_destroying /\ r.is_closing = tp[t].is_closing
      /\ r.has_pending_connect = tp[t].has_pending_connect
      /\ r.kaId = tp[t].kaId /\ r.kaArmed = tp[t].kaArmed /\ r.id = tp[t].id /\ r.armed = tp[t].armed
    <2>1. 1 \in Nat
        OBVIOUS
    <2>2. tp[t] \in Transport
        BY <1>1
    <2> QED BY <2>1, <2>2, <1>1, UnrefFacts, ZenonT(60)
<1>3. tp[t].grp = 1 => tp[t].is_closing
    BY <1>1, HolderFacts DEF Open
<1>4. Plain(t, r)
    BY <1>1, <1>2, <1>3 DEF Plain, Life
<1>5. Base(r) = Base(tp[t]) /\ Base(r) \in Int
    BY <1>1, <1>2, <1>3 DEF Base
<1>6. /\ One(Keeps(thr[h], t)) = 1 /\ One(Keeps(s, t)) = 0 /\ One(Owes(s, t)) = 0
      /\ One(Refers(thr[h], t)) = 0 /\ One(Refers(s, t)) = One(Owes(thr[h], t))
      /\ One(Refers(s, t)) \in Int
    BY DEF One
<1>7. One(r.armed) = One(tp[t].armed) /\ One(r.armed) \in Int
    BY <1>2 DEF One
<1>8. r.mem = "live" <=> r.grp > 0
    BY <1>1, <1>2
<1>9. Balanced(h, t, r, s, users[t])
    <2>1. r.ref_cnt - tp[t].ref_cnt = 0 /\ users[t] - users[t] = 0
        BY <1>1, <1>2
    <2>2. (r.grp - tp[t].grp) - (r.ref_cnt - tp[t].ref_cnt) = -1
        BY <1>1, <1>2
    <2>3. One(Keeps(s, t)) - One(Keeps(thr[h], t)) + One(r.armed) - One(tp[t].armed)
             + Base(r) - Base(tp[t]) = -1
        BY <1>2, <1>5 DEF One
    <2>4. users[t] - users[t] + One(Refers(s, t)) - One(Refers(thr[h], t))
             + One(Owes(s, t)) - One(Owes(thr[h], t)) = 0
        BY <2>1, <1>6
    <2> QED BY <1>8, <2>1, <2>2, <2>3, <2>4 DEF Balanced
<1> QED BY <1>2, <1>4, <1>9

LEMMA DropStep ==
    ASSUME OneWorker, IInv, NEW h \in Threads, NEW t \in Transports, Drop(h, t)
    PROVE  IInv'
<1> DEFINE r == Unref(tp[t], 1)
           s == Resume(h, t)
           gives == thr[h].after \in {"return", "all"}
<1>1. Is(h, "drop", t) /\ table' = table /\ mgrLock' = mgrLock /\ users' = users
    BY DEF Drop
<1>2. /\ thr[h].tp = t /\ thr[h].pc = "drop" /\ thr[h] \in ThreadState /\ Shaped(thr[h])
      /\ thr[h].after \in {"idle", "dec", "kaSchedule", "return", "all"}
      /\ ~Refers(thr[h], t) /\ (Owes(thr[h], t) <=> thr[h].after = "dec") /\ Keeps(thr[h], t)
    BY <1>1, HereFacts DEF RefPcs, ShutPcs, GivePcs, DropPcs
<1>3. /\ s \in ThreadState /\ Shaped(s) /\ s.tp \in {t, None}
      /\ s.pc = IF gives THEN "unlock" ELSE thr[h].after
      /\ s.after = IF gives THEN thr[h].after ELSE "idle"
      /\ gives => s.tp = t /\ s.rest = thr[h].rest
      /\ (Refers(s, t) <=> thr[h].after = "dec") /\ ~Owes(s, t) /\ ~Keeps(s, t)
    <2>1. CASE gives
        <3>1. s = [thr[h] EXCEPT !.pc = "unlock"]
            BY <2>1 DEF Resume
        <3> HIDE DEF s
        <3>2. s \in ThreadState /\ s.tp = t /\ s.pc = "unlock" /\ s.after = thr[h].after /\ s.rest = thr[h].rest
            BY <1>2, <3>1, PcFields DEF Pcs, ShutPcs
        <3> QED BY <1>2, <2>1, <3>2, PcFacts DEF RefPcs, ShutPcs, GivePcs, DropPcs
    <2>2. CASE thr[h].after = "idle"
        BY <2>2, IdleFacts DEF Resume
    <2>3. CASE thr[h].after \in {"dec", "kaSchedule"}
        <3>1. s = At(thr[h].after, t, "idle")
            BY <2>3 DEF Resume
        <3> QED BY <2>3, <3>1, AtFacts
                DEF Pcs, RefPcs, ShutPcs, DropPcs, WorkerPcs, TimerPcs, DestroyPcs, FreshPcs, KeepAlivePcs
    <2> QED BY <1>2, <2>1, <2>2, <2>3
<1> HIDE DEF s
<1>5. /\ r \in Transport /\ Plain(t, r) /\ Balanced(h, t, r, s, users[t])
      /\ r.is_shutdown = tp[t].is_shutdown
    BY <1>2, <1>3, DropBalance
<1>6. Moves(h, t, r, s, users[t])
    BY <1>2, <1>3, <1>5, CountFacts DEF Drop, Moves, Change, Set, IInv, Typed, s
<1>7. h \in Workers => Works(h) /\ Open(t) /\ ~tp[t].is_destroying
    BY <1>2, TransportMgrAssumption DEF IInv, Works, TimerPcs, DestroyPcs, KeepAlivePcs
<1>8. thr[h].after = "kaSchedule" => h \in Workers
    BY <1>2 DEF IInv, Works
<1>9. Calm(h, t, r, s)
    BY <1>1, <1>2, <1>5 DEF Calm, DestroyPcs, IInv, Typed
<1>10. CASE thr[h].after # "kaSchedule"
    <2>1. s.pc \in {"unlock", "idle", "dec"}
        BY <1>2, <1>3, <1>10
    <2>2. s.pc = "unlock" \/ Gives(s) => Gives(thr[h]) /\ s.tp = t
        BY <1>2, <1>3, <1>10 DEF Gives, GivePcs, DropPcs
    <2>3. /\ s.after \in {"idle", "dec"} \/ s.after = thr[h].after
          /\ s.after = "all" => s.rest = thr[h].rest /\ s.tp = thr[h].tp
        BY <1>2, <1>3
    <2> QED BY <1>1, <1>5, <1>6, <1>7, <1>9, <2>1, <2>2, <2>3, PlainStep
            DEF WorkerPcs, TimerPcs, DestroyPcs, FreshPcs, KeepAlivePcs
<1>11. CASE thr[h].after = "kaSchedule"
    <2>1. tp'[t] = r /\ thr'[h] = s /\ s.pc = "kaSchedule" /\ s.after = "idle"
        BY <1>3, <1>6, <1>11 DEF Moves, IInv, Typed
    <2>2. r.mem # "none"
        BY <1>5 DEF Plain
    <2>3. Locks(h)'
        BY <2>1 DEF Locks, InAll, Gives
    <2>4. Works(h)'
        BY <2>1, <2>2, <1>3, <1>8, <1>11 DEF Works, InAll, TimerPcs, DestroyPcs, KeepAlivePcs
    <2> QED BY <1>5, <1>6, <1>9, <2>3, <2>4, PlainKeeps
<1> QED BY <1>10, <1>11

LEMMA TimerDoneStep ==
    ASSUME OneWorker, IInv, NEW h \in Threads, NEW t \in Transports, TimerDone(h, t)
    PROVE  IInv'
<1> DEFINE r == Unref(tp[t], 1)
<1>1. Is(h, "unref", t)
    BY DEF TimerDone
<1>2. /\ thr[h].tp = t /\ thr[h].pc = "unref" /\ thr[h].after = "idle"
      /\ ~Refers(thr[h], t) /\ ~Owes(thr[h], t) /\ Keeps(thr[h], t)
    BY <1>1, HereFacts DEF RefPcs, ShutPcs, GivePcs, DropPcs, TimerPcs
<1>3. /\ r \in Transport /\ Plain(t, r) /\ Balanced(h, t, r, Idle, users[t])
      /\ r.is_shutdown = tp[t].is_shutdown
    BY <1>2, IdleFacts, DropBalance
<1>4. Moves(h, t, r, Idle, users[t])
    BY <1>2, <1>3, IdleFacts, CountFacts DEF TimerDone, Moves, Change, Set, IInv, Typed
<1>5. Calm(h, t, r, Idle)
    BY <1>2, <1>3, IdleFacts DEF TimerDone, Calm, KeepAlivePcs, DestroyPcs, IInv, Typed
<1> QED BY <1>3, <1>4, <1>5, IdleFacts, PlainStep
        DEF WorkerPcs, TimerPcs, DestroyPcs, FreshPcs, KeepAlivePcs, Gives, GivePcs, DropPcs

-------------------------------------------------------------------------------
(* The idle timer and the end of a transport.                              *)

\* In the callback of the idle timer nothing is demanded of the transport, except of one
\* that it may have to destroy.
LEMMA TimerThread ==
    ASSUME IInv, NEW h \in Workers, NEW t \in Transports, NEW r, NEW s, NEW u,
           Moves(h, t, r, s, u), table' = table, s.tp = t,
           s.pc \in TimerPcs \ {"close"}, s.after = "idle", r.mem # "none",
           s.pc = "idleCheck" => r.mem = "live" /\ ~r.is_closing /\ ~r.is_destroying,
           s.pc \in DestroyPcs => r.is_destroying /\ ~r.is_closing /\ Valid(t)
    PROVE  Locks(h)' /\ Works(h)'
<1>1. tp'[t] = r /\ thr'[h] = s /\ h \in Threads /\ (Valid(t)' <=> Valid(t)) /\ (Open(t)' <=> r.mem = "live" /\ ~r.is_closing)
    BY DEF IInv, Typed, Moves, Threads, Valid, Open
<1>2. h \notin Apps /\ s.pc \notin {"all", "shutEnd", "shutMark", "unlock", "verify"}
    BY TransportMgrAssumption DEF TimerPcs, DestroyPcs
<1>3. Locks(h)'
    BY <1>1, <1>2 DEF Locks, InAll, Gives
<1>4. s.pc \notin FreshPcs /\ s.pc \notin KeepAlivePcs /\ s.pc \notin {"ka", "kaSchedule"}
    BY DEF TimerPcs, DestroyPcs, FreshPcs, KeepAlivePcs
<1>5. Works(h)'
    BY <1>1, <1>2, <1>4 DEF Works, InAll
<1> QED BY <1>3, <1>5

LEMMA PopIdleStep ==
    ASSUME OneWorker, IInv, NEW h \in Threads, NEW t \in Transports, PopIdle(h, t)
    PROVE  IInv'
<1> DEFINE r == [tp[t] EXCEPT !.armed = FALSE]
           s == At("idleCb", t, "idle")
<1>1. h \in Workers /\ thr[h] = Idle /\ tp[t].armed /\ table' = table
    BY DEF PopIdle
<1>2. /\ thr[h].tp = None /\ thr[h].pc = "idle"
      /\ ~Refers(thr[h], t) /\ ~Owes(thr[h], t) /\ ~Keeps(thr[h], t)
    BY <1>1, IdleFacts
<1>3. /\ s \in ThreadState /\ Shaped(s) /\ s.tp = t /\ s.pc = "idleCb" /\ s.after = "idle"
      /\ ~Refers(s, t) /\ ~Owes(s, t) /\ Keeps(s, t)
    BY AtFacts DEF Pcs, RefPcs, ShutPcs, WorkerPcs, TimerPcs
<1>4. /\ tp[t] \in Transport /\ tp[t].grp \in Nat /\ tp[t].mem = "live" /\ tp[t].grp > 0
      /\ tp[t].ref_cnt \in Nat /\ users[t] \in Nat /\ users[t] \in 0 .. MaxUsers /\ Life(t)
    BY <1>1, CountFacts DEF IInv
<1>5. /\ r \in Transport /\ r.grp = tp[t].grp /\ r.mem = tp[t].mem
      /\ r.ref_cnt = tp[t].ref_cnt /\ r.is_shutdown = tp[t].is_shutdown
      /\ r.is_destroying = tp[t].is_destroying /\ r.is_closing = tp[t].is_closing
      /\ r.has_pending_connect = tp[t].has_pending_connect
      /\ r.kaId = tp[t].kaId /\ r.kaArmed = tp[t].kaArmed /\ r.id = tp[t].id /\ ~r.armed
    BY <1>4 DEF Transport
<1>6. Moves(h, t, r, s, users[t])
    BY <1>2, <1>3, <1>4, <1>5 DEF PopIdle, Moves, Change, Set, IInv, Typed
<1>7. Base(r) = Base(tp[t]) /\ Base(r) \in Int
    BY <1>5 DEF Base
<1>8. Balanced(h, t, r, s, users[t])
    BY <1>1, <1>2, <1>3, <1>4, <1>5, <1>7 DEF Balanced, One
<1>9. Plain(t, r)
    BY <1>4, <1>5 DEF Plain, Life
<1>10. Calm(h, t, r, s)
    BY <1>1, <1>2, <1>3, <1>5 DEF PopIdle, Calm, KeepAlivePcs, DestroyPcs, IInv, Typed
<1>11. Locks(h)' /\ Works(h)'
    <2> HIDE DEF r, s
    <2> QED BY <1>1, <1>3, <1>4, <1>5, <1>6, TimerThread DEF TimerPcs, DestroyPcs
<1> QED BY <1>6, <1>8, <1>9, <1>10, <1>11, PlainKeeps

LEMMA IdleCallbackStep ==
    ASSUME OneWorker, IInv, NEW h \in Threads, NEW t \in Transports, IdleCallback(h, t)
    PROVE  IInv'
<1> DEFINE r == [tp[t] EXCEPT !.id = FALSE]
           s == At(IF tp[t].id THEN "idleCheck" ELSE "unref", t, "idle")
<1>1. Is(h, "idleCb", t) /\ table' = table
    BY DEF IdleCallback
<1>2. /\ thr[h].tp = t /\ thr[h].pc = "idleCb" /\ thr[h].after = "idle"
      /\ ~Refers(thr[h], t) /\ ~Owes(thr[h], t) /\ Keeps(thr[h], t)
    BY <1>1, HereFacts DEF RefPcs, ShutPcs, GivePcs, DropPcs, TimerPcs
<1>3. h \in Workers
    BY <1>2 DEF IInv, Works, WorkerPcs, TimerPcs
<1>4. /\ s \in ThreadState /\ Shaped(s) /\ s.tp = t /\ s.pc \in {"idleCheck", "unref"} /\ s.after = "idle"
      /\ s.pc = "idleCheck" => tp[t].id
      /\ ~Refers(s, t) /\ ~Owes(s, t) /\ Keeps(s, t)
    BY AtFacts DEF Pcs, RefPcs, ShutPcs, WorkerPcs, TimerPcs
<1>5. tp[t] \in Transport /\ tp[t].mem = "live" /\ Life(t)
    BY <1>2, WorkFacts, CountFacts DEF KeepAlivePcs
<1>6. Timed(tp[t], r) /\ ~r.id /\ r.grp = tp[t].grp /\ r.armed = tp[t].armed
    BY <1>5 DEF Transport, Timed, One
<1>7. Moves(h, t, r, s, users[t])
    BY <1>2, <1>4, <1>6, CountFacts DEF IdleCallback, Moves, Change, Set, Timed, IInv, Typed
<1> HIDE DEF s
<1>8. Plain(t, r) /\ Balanced(h, t, r, s, users[t])
    BY <1>2, <1>4, <1>5, <1>6, TimedPlain
<1>9. Calm(h, t, r, s)
    BY <1>1, <1>2, <1>4, <1>6 DEF IdleCallback, Calm, KeepAlivePcs, DestroyPcs, Timed, IInv, Typed
<1>10. tp[t].id => ~tp[t].is_closing /\ ~tp[t].is_destroying
    BY <1>2, <1>3, <1>5, OpenFacts DEF Life, Open, DestroyPcs
<1>11. Locks(h)' /\ Works(h)'
    <2>1. r.mem = "live" /\ r.is_closing = tp[t].is_closing /\ r.is_destroying = tp[t].is_destroying
        BY <1>5, <1>6 DEF Timed
    <2> HIDE DEF r
    <2> QED BY <1>1, <1>3, <1>4, <1>7, <1>10, <2>1, TimerThread DEF TimerPcs, DestroyPcs
<1> QED BY <1>7, <1>8, <1>9, <1>11, PlainKeeps

LEMMA IdleCheckStep ==
    ASSUME OneWorker, IInv, NEW h \in Threads, NEW t \in Transports, IdleCheck(h, t)
    PROVE  IInv'
<1>1. Is(h, "idleCheck", t) /\ LockFree(h) /\ table' = table /\ mgrLock' = mgrLock /\ users' = users
    BY DEF IdleCheck
<1>2. /\ thr[h].tp = t /\ thr[h].pc = "idleCheck" /\ thr[h].after = "idle"
      /\ ~Refers(thr[h], t) /\ ~Owes(thr[h], t) /\ Keeps(thr[h], t)
    BY <1>1, HereFacts DEF RefPcs, ShutPcs, GivePcs, DropPcs, TimerPcs
<1>3. h \in Workers /\ Open(t) /\ ~tp[t].is_destroying
    BY <1>2, TransportMgrAssumption DEF IInv, Works, WorkerPcs, TimerPcs, DestroyPcs, KeepAlivePcs
<1>4. Valid(t) /\ tp[t].mem = "live" /\ tp[t] \in Transport /\ Life(t) /\ ~tp[t].is_closing
    BY <1>2, <1>3, OpenFacts, CountFacts DEF DestroyPcs, IInv, Open
<1>5. \A pc \in {"destroy", "unref"} : LET s == At(pc, t, "idle") IN
          /\ s \in ThreadState /\ Shaped(s) /\ s.tp = t /\ s.pc = pc /\ s.after = "idle"
          /\ ~Refers(s, t) /\ ~Owes(s, t) /\ Keeps(s, t)
    BY AtFacts DEF Pcs, RefPcs, ShutPcs, WorkerPcs, TimerPcs, DestroyPcs
<1>6. CASE tp[t].ref_cnt = 0
    <2> DEFINE r == [tp[t] EXCEPT !.is_destroying = TRUE]
               s == At("destroy", t, "idle")
    <2>1. /\ r \in Transport /\ r.grp = tp[t].grp /\ r.mem = "live" /\ r.ref_cnt = 0
          /\ r.is_destroying /\ ~r.is_closing /\ r.armed = tp[t].armed
          /\ r.has_pending_connect = tp[t].has_pending_connect
          /\ r.kaId = tp[t].kaId /\ r.kaArmed = tp[t].kaArmed
        BY <1>4, <1>6 DEF Transport
    <2>2. /\ s \in ThreadState /\ Shaped(s) /\ s.tp = t /\ s.pc = "destroy" /\ s.after = "idle"
          /\ ~Refers(s, t) /\ ~Owes(s, t) /\ Keeps(s, t)
        BY <1>5
    <2>3. Moves(h, t, r, s, users[t])
        BY <1>1, <1>2, <1>6, <2>1, <2>2, CountFacts DEF IdleCheck, Moves, Change, Set, IInv, Typed
    <2> HIDE DEF s
    <2>4. Balanced(h, t, r, s, users[t])
        <3>1. Base(r) = Base(tp[t]) /\ Base(r) \in Int
            BY <2>1, <1>4 DEF Base
        <3> QED BY <1>2, <1>6, <2>1, <2>2, <3>1, CountFacts DEF Balanced, One
    <2>5. Listed(h, t)
        BY <1>1 DEF Listed, Valid, IInv, Typed
    <2>6. Respects(h, t, r)
        BY <1>1, <1>3 DEF OneWorker, Respects, LockFree
    <2>7. tp'[t] = r /\ thr'[h] = s /\ (Valid(t)' <=> Valid(t))
        BY <2>3, <1>1 DEF Moves, IInv, Typed, Valid
    <2>8. Life(t)'
        <3>1. WorkerAt(DestroyPcs, t)'
            BY <2>7, <2>2, <1>3 DEF WorkerAt, DestroyPcs
        <3> QED BY <2>1, <2>7, <3>1, <1>4 DEF Life, Open
    <2>9. Locks(h)' /\ Works(h)'
        BY <1>1, <1>3, <1>4, <2>1, <2>2, <2>3, TimerThread DEF TimerPcs, DestroyPcs
    <2> QED BY <2>3, <2>4, <2>5, <2>6, <2>8, <2>9, StepKeeps
<1>7. CASE tp[t].ref_cnt # 0
    <2> DEFINE s == At("unref", t, "idle")
    <2>1. /\ s \in ThreadState /\ Shaped(s) /\ s.tp = t /\ s.pc = "unref" /\ s.after = "idle"
          /\ ~Refers(s, t) /\ ~Owes(s, t) /\ Keeps(s, t)
        BY <1>5
    <2>2. Moves(h, t, tp[t], s, users[t])
        BY <1>1, <1>2, <1>4, <1>7, <2>1, CountFacts DEF IdleCheck, Moves, Change, Set, IInv, Typed
    <2> HIDE DEF s
    <2>3. Plain(t, tp[t]) /\ Balanced(h, t, tp[t], s, users[t])
        BY <1>2, <1>3, <1>4, <2>1, Marks, TimedPlain
    <2>4. Calm(h, t, tp[t], s)
        BY <1>1, <1>2, <2>1 DEF Calm, KeepAlivePcs, DestroyPcs, IInv, Typed
    <2>5. Locks(h)' /\ Works(h)'
        BY <1>1, <1>3, <1>4, <2>1, <2>2, TimerThread DEF TimerPcs, DestroyPcs
    <2> QED BY <2>2, <2>3, <2>4, <2>5, PlainKeeps
<1> QED BY <1>6, <1>7

LEMMA DestroyStep ==
    ASSUME OneWorker, IInv, NEW h \in Threads, NEW t \in Transports, Destroy(h, t)
    PROVE  IInv'
<1> DEFINE s == At("destroyLock", t, "idle")
<1>1. Is(h, "destroy", t) /\ table' = table /\ mgrLock' = mgrLock /\ users' = users /\ tp' = tp
    BY DEF Destroy
<1>2. /\ thr[h].tp = t /\ thr[h].pc = "destroy" /\ thr[h].after = "idle"
      /\ ~Refers(thr[h], t) /\ ~Owes(thr[h], t) /\ Keeps(thr[h], t)
    BY <1>1, HereFacts DEF RefPcs, ShutPcs, GivePcs, DropPcs, TimerPcs, DestroyPcs
<1>3. h \in Workers /\ tp[t].is_destroying /\ ~tp[t].is_closing /\ Valid(t)
    BY <1>2, TransportMgrAssumption DEF IInv, Works, WorkerPcs, TimerPcs, DestroyPcs
<1>4. tp[t].mem = "live" /\ tp[t] \in Transport /\ tp[t].ref_cnt = 0
    BY <1>3, ValidFacts, CountFacts DEF IInv, Life
<1>5. /\ s \in ThreadState /\ Shaped(s) /\ s.tp = t /\ s.pc = "destroyLock" /\ s.after = "idle"
      /\ ~Refers(s, t) /\ ~Owes(s, t) /\ Keeps(s, t)
    BY AtFacts DEF Pcs, RefPcs, ShutPcs, WorkerPcs, TimerPcs, DestroyPcs
<1>6. Moves(h, t, tp[t], s, users[t])
    BY <1>1, <1>2, <1>4, <1>5, CountFacts DEF Destroy, Moves, Set, IInv, Typed
<1> HIDE DEF s
<1>7. Plain(t, tp[t]) /\ Balanced(h, t, tp[t], s, users[t])
    BY <1>2, <1>4, <1>5, Marks, TimedPlain
<1>8. Calm(h, t, tp[t], s)
    BY <1>1, <1>2, <1>5 DEF Calm, KeepAlivePcs, DestroyPcs, IInv, Typed
<1>9. Locks(h)' /\ Works(h)'
    BY <1>1, <1>3, <1>4, <1>5, <1>6, TimerThread DEF TimerPcs, DestroyPcs
<1> QED BY <1>6, <1>7, <1>8, <1>9, PlainKeeps

LEMMA LockTransportStep ==
    ASSUME OneWorker, IInv, NEW h \in Threads, NEW t \in Transports, LockTransport(h, t)
    PROVE  IInv'
<1> DEFINE r == [tp[t] EXCEPT !.lock = h]
           s == [thr[h] EXCEPT !.pc = IF @ = "shutLock" THEN "shut" ELSE "unregister"]
<1>1. /\ Is(h, "destroyLock", t) \/ Is(h, "shutLock", t)
      /\ table' = table /\ mgrLock' = mgrLock /\ users' = users
    BY DEF LockTransport
<1>2. thr[h].tp = t /\ thr[h] \in ThreadState /\ Shaped(thr[h])
    BY <1>1 DEF Is, IInv, Typed
<1>3. tp[t].mem = "live" /\ tp[t] \in Transport
    BY <1>1, CountFacts DEF Is
<1>4. Timed(tp[t], r) /\ r.id = tp[t].id /\ r.grp = tp[t].grp /\ r.armed = tp[t].armed
    <2>1. r.grp = tp[t].grp
        BY <1>3 DEF Transport
    <2> QED BY <2>1, <1>3, Marks
<1>5. /\ s.tp = t /\ s.after = thr[h].after /\ s.rest = thr[h].rest /\ s \in ThreadState
      /\ s.pc = IF thr[h].pc = "shutLock" THEN "shut" ELSE "unregister"
    BY <1>2 DEF ThreadState, Pcs, ShutPcs, WorkerPcs, TimerPcs, DestroyPcs
<1>6. ASSUME Shaped(s), Refers(s, t) <=> Refers(thr[h], t), Owes(s, t) <=> Owes(thr[h], t),
             Keeps(s, t) <=> Keeps(thr[h], t)
      PROVE  /\ Moves(h, t, r, s, users[t]) /\ Plain(t, r) /\ Balanced(h, t, r, s, users[t])
    <2>1. Moves(h, t, r, s, users[t])
        BY <1>2, <1>3, <1>4, <1>5, <1>6, CountFacts
        DEF LockTransport, Moves, Change, Set, Timed, IInv, Typed
    <2> HIDE DEF r, s
    <2> QED BY <2>1, <1>3, <1>4, <1>6, TimedPlain
<1>7. CASE Is(h, "shutLock", t)
    <2>1. thr[h].pc = "shutLock" /\ s.pc = "shut"
        BY <1>5, <1>7 DEF Is
    <2> HIDE DEF r, s
    <2>2. /\ Shaped(s) /\ (Refers(s, t) <=> Refers(thr[h], t)) /\ (Owes(s, t) <=> Owes(thr[h], t))
          /\ (Keeps(s, t) <=> Keeps(thr[h], t))
        BY <1>2, <1>5, <2>1, TransportMgrAssumption
        DEF Shaped, Refers, Owes, Keeps, RefPcs, ShutPcs, DropPcs, TimerPcs, DestroyPcs
    <2>3. Calm(h, t, r, s)
        BY <1>1, <1>4, <2>1 DEF Calm, KeepAlivePcs, DestroyPcs, Timed, IInv, Typed
    <2>4. h \in Workers => Open(t) /\ ~tp[t].is_destroying
        BY <1>2, <2>1, TransportMgrAssumption DEF IInv, Works, TimerPcs, DestroyPcs, KeepAlivePcs
    <2> QED BY <1>1, <1>2, <1>5, <1>6, <2>1, <2>2, <2>3, <2>4, PlainStep
            DEF WorkerPcs, TimerPcs, DestroyPcs, FreshPcs, KeepAlivePcs, Gives, GivePcs, DropPcs
<1>8. CASE Is(h, "destroyLock", t)
    <2>1. thr[h].pc = "destroyLock" /\ s.pc = "unregister" /\ thr[h].after = "idle"
        BY <1>5, <1>8, HereFacts DEF Is, ShutPcs, GivePcs, DropPcs
    <2> HIDE DEF r, s
    <2>2. /\ Shaped(s) /\ (Refers(s, t) <=> Refers(thr[h], t)) /\ (Owes(s, t) <=> Owes(thr[h], t))
          /\ (Keeps(s, t) <=> Keeps(thr[h], t))
        BY <1>2, <1>5, <2>1, TransportMgrAssumption
        DEF Shaped, Refers, Owes, Keeps, RefPcs, ShutPcs, DropPcs, TimerPcs, DestroyPcs
    <2>3. Calm(h, t, r, s)
        BY <1>1, <1>4, <1>5, <2>1 DEF Calm, KeepAlivePcs, DestroyPcs, Timed, IInv, Typed
    <2>4. h \in Workers /\ tp[t].is_destroying /\ ~tp[t].is_closing /\ Valid(t)
        BY <1>2, <2>1, TransportMgrAssumption DEF IInv, Works, WorkerPcs, TimerPcs, DestroyPcs
    <2>5. Locks(h)' /\ Works(h)'
        BY <1>1, <1>3, <1>4, <1>5, <1>6, <2>1, <2>2, <2>4, TimerThread DEF TimerPcs, DestroyPcs, Timed
    <2> QED BY <1>6, <2>2, <2>3, <2>5, PlainKeeps
<1> QED BY <1>1, <1>7, <1>8

\* An entry taken out of a list without duplicates.
LEMMA RemoveAtFacts ==
    ASSUME NEW S, NEW q \in Seq(S), NEW i \in DOMAIN q,
           \A j, k \in DOMAIN q : q[j] = q[k] => j = k
    PROVE  LET p == RemoveAt(q, i) IN
           /\ p \in Seq(S)
           /\ \A j, k \in DOMAIN p : p[j] = p[k] => j = k
           /\ \A x : (\E j \in DOMAIN p : p[j] = x) <=> x # q[i] /\ \E j \in DOMAIN q : q[j] = x
<1> DEFINE p == RemoveAt(q, i)
           a == SubSeq(q, 1, i - 1)
           b == SubSeq(q, i + 1, Len(q))
<1>1. i \in 1 .. Len(q) /\ DOMAIN q = 1 .. Len(q) /\ Len(q) \in Nat
    BY LenProperties
<1>2. a \in Seq(S) /\ Len(a) = i - 1 /\ \A j \in 1 .. i - 1 : a[j] = q[j]
    BY <1>1, SubSeqProperties
<1>3. b \in Seq(S) /\ Len(b) = Len(q) - i /\ \A j \in 1 .. Len(q) - i : b[j] = q[i + j]
    BY <1>1, SubSeqProperties
<1>4. /\ p \in Seq(S) /\ Len(p) = Len(q) - 1
      /\ \A j \in 1 .. Len(p) : p[j] = IF j <= Len(a) THEN a[j] ELSE b[j - Len(a)]
    <2>1. p = a \o b
        BY DEF RemoveAt
    <2> HIDE DEF p, a, b
    <2>2. /\ a \o b \in Seq(S) /\ Len(a \o b) = Len(a) + Len(b)
          /\ \A j \in 1 .. Len(a) + Len(b) : (a \o b)[j] = IF j <= Len(a) THEN a[j] ELSE b[j - Len(a)]
        <3>1. a \in Seq(S) /\ b \in Seq(S)
            BY <1>2, <1>3
        <3> QED BY ONLY <3>1, ConcatProperties, ZenonT(60)
    <2>3. Len(a) + Len(b) = Len(q) - 1
        BY <1>1, <1>2, <1>3
    <2> QED BY <2>1, <2>2, <2>3
<1>5. DOMAIN p = 1 .. Len(q) - 1
    BY <1>4, LenProperties
<1> HIDE DEF p, a, b
<1>6. \A j \in 1 .. Len(q) - 1 : p[j] = IF j < i THEN q[j] ELSE q[j + 1]
    <2> TAKE j \in 1 .. Len(q) - 1
    <2>1. CASE j < i
        BY <1>1, <1>2, <1>4, <2>1
    <2>2. CASE ~(j < i)
        <3>1. j - Len(a) \in 1 .. Len(q) - i /\ ~(j <= Len(a)) /\ i + (j - Len(a)) = j + 1
            BY <1>1, <1>2, <2>2
        <3> QED BY <1>3, <1>4, <2>2, <3>1
    <2> QED BY <2>1, <2>2
<1>7. \A j, k \in DOMAIN p : p[j] = p[k] => j = k
    <2> SUFFICES ASSUME NEW j \in 1 .. Len(q) - 1, NEW k \in 1 .. Len(q) - 1, p[j] = p[k]
                 PROVE  j = k
        BY <1>5
    <2> DEFINE n(m) == IF m < i THEN m ELSE m + 1
    <2>1. n(j) \in DOMAIN q /\ n(k) \in DOMAIN q /\ p[j] = q[n(j)] /\ p[k] = q[n(k)]
        BY <1>1, <1>6
    <2>2. n(j) = n(k)
        BY <2>1
    <2> QED BY <2>2, <1>1
<1>8. ASSUME NEW x PROVE (\E j \in DOMAIN p : p[j] = x) <=> x # q[i] /\ \E j \in DOMAIN q : q[j] = x
    <2>1. ASSUME NEW j \in DOMAIN p, p[j] = x PROVE x # q[i] /\ \E k \in DOMAIN q : q[k] = x
        <3> DEFINE n == IF j < i THEN j ELSE j + 1
        <3>1. n \in DOMAIN q /\ n # i /\ p[j] = q[n]
            BY <1>1, <1>5, <1>6
        <3> QED BY <3>1, <2>1
    <2>2. ASSUME NEW k \in DOMAIN q, q[k] = x, x # q[i] PROVE \E j \in DOMAIN p : p[j] = x
        <3> DEFINE j == IF k < i THEN k ELSE k - 1
        <3>1. k # i
            BY <2>2
        <3>2. j \in 1 .. Len(q) - 1 /\ (j < i => j = k) /\ (~(j < i) => j + 1 = k)
            BY <1>1, <3>1
        <3>3. p[j] = x
            BY <1>6, <2>2, <3>2
        <3> QED BY <1>5, <3>2, <3>3
    <2> QED BY <2>1, <2>2
<1> QED BY <1>4, <1>7, <1>8 DEF p

LEMMA UnregisterStep ==
    ASSUME OneWorker, IInv, NEW h \in Threads, NEW t \in Transports, Unregister(h, t)
    PROVE  IInv'
<1> DEFINE r == [StopIdle(tp[t]) EXCEPT !.lock = None]
           s == At("close", t, "idle")
<1>1. Is(h, "unregister", t) /\ LockFree(h) /\ mgrLock' = mgrLock /\ users' = users
    BY DEF Unregister
<1>2. /\ thr[h].tp = t /\ thr[h].pc = "unregister" /\ thr[h].after = "idle"
      /\ ~Refers(thr[h], t) /\ ~Owes(thr[h], t) /\ Keeps(thr[h], t)
    BY <1>1, HereFacts DEF RefPcs, ShutPcs, GivePcs, DropPcs, TimerPcs, DestroyPcs
<1>3. h \in Workers /\ tp[t].is_destroying /\ ~tp[t].is_closing /\ Valid(t)
    BY <1>2, TransportMgrAssumption DEF IInv, Works, WorkerPcs, TimerPcs, DestroyPcs
<1>4. Open(t) /\ tp[t].mem = "live" /\ tp[t] \in Transport /\ tp[t].grp > 1 /\ Life(t)
    BY <1>3, ValidFacts, CountFacts DEF IInv
<1>5. /\ s \in ThreadState /\ Shaped(s) /\ s.tp = t /\ s.pc = "close" /\ s.after = "idle"
      /\ ~Refers(s, t) /\ ~Owes(s, t) /\ Keeps(s, t)
    BY AtFacts DEF Pcs, RefPcs, ShutPcs, WorkerPcs, TimerPcs, DestroyPcs
<1>6. Timed(tp[t], r) /\ ~r.id
    <2> DEFINE q == StopIdle(tp[t])
    <2>1. Timed(tp[t], q) /\ ~q.id /\ q \in Transport
        BY <1>4, StopIdleFacts DEF Timed
    <2> HIDE DEF q
    <2>2. Timed(q, [q EXCEPT !.lock = None]) /\ [q EXCEPT !.lock = None].id = q.id
        BY <2>1, Marks
    <2>3. Timed(tp[t], [q EXCEPT !.lock = None]) /\ ~[q EXCEPT !.lock = None].id
        BY <2>1, <2>2, <1>4, TimedTrans
    <2> QED BY <2>3 DEF q
<1>7. Moves(h, t, r, s, users[t])
    BY <1>1, <1>2, <1>5, <1>6, CountFacts DEF Unregister, Moves, Change, Set, Timed, IInv, Typed
<1> HIDE DEF r, s
<1>8. Balanced(h, t, r, s, users[t])
    BY <1>2, <1>4, <1>5, <1>6, TimedPlain
<1>9. /\ table' \in Seq(Transports) /\ \A i, j \in DOMAIN table' : table'[i] = table'[j] => i = j
      /\ \A x : Valid(x)' <=> x # t /\ Valid(x)
    <2>1. PICK i \in DOMAIN table : table[i] = t /\ table' = RemoveAt(table, i)
        BY DEF Unregister
    <2>2. table \in Seq(Transports) /\ \A j, k \in DOMAIN table : table[j] = table[k] => j = k
        BY DEF IInv, Typed
    <2>3. /\ table' \in Seq(Transports) /\ \A j, k \in DOMAIN table' : table'[j] = table'[k] => j = k
          /\ \A x : (\E j \in DOMAIN table' : table'[j] = x) <=> x # t /\ \E j \in DOMAIN table : table[j] = x
        <3>1. LET p == RemoveAt(table, i) IN
              /\ p \in Seq(Transports)
              /\ \A j, k \in DOMAIN p : p[j] = p[k] => j = k
              /\ \A x : (\E j \in DOMAIN p : p[j] = x) <=> x # table[i] /\ \E j \in DOMAIN table : table[j] = x
            BY <2>2, RemoveAtFacts, Zenon
        <3> QED BY <2>1, <3>1, Zenon
    <2> QED BY <2>3 DEF Valid
<1>10. Listed(h, t)
    BY <1>1, <1>9 DEF Listed, IInv, Typed
<1>11. Respects(h, t, r)
    BY <1>1, <1>3 DEF OneWorker, Respects, LockFree
<1>12. tp'[t] = r /\ thr'[h] = s
    BY <1>7 DEF Moves, IInv, Typed
<1>13. Life(t)'
    <2>1. WorkerAt(DestroyPcs, t)' /\ WorkerAt({"close"}, t)'
        BY <1>3, <1>5, <1>12 DEF WorkerAt, DestroyPcs
    <2> QED BY <1>3, <1>4, <1>6, <1>9, <1>12, <2>1 DEF Life, Open, Timed
<1>14. Locks(h)'
    BY <1>5, <1>12 DEF Locks, InAll, Gives
<1>15. Works(h)'
    BY <1>3, <1>4, <1>5, <1>6, <1>9, <1>12
    DEF Works, InAll, Timed, TimerPcs, DestroyPcs, FreshPcs, KeepAlivePcs
<1> QED BY <1>7, <1>8, <1>10, <1>11, <1>13, <1>14, <1>15, StepKeeps

\* tcp_destroy, for the last time that anybody sees the socket.
LEMMA ClosedFacts ==
    ASSUME NEW q \in Transport, q.grp > 3
    PROVE  LET r == Closed(Unref(q, 1)) IN
           /\ r \in Transport /\ r.grp = q.grp - 3 /\ r.mem = q.mem /\ r.ref_cnt = q.ref_cnt
           /\ r.is_shutdown = q.is_shutdown /\ r.is_destroying = q.is_destroying /\ r.is_closing
           /\ r.id = q.id /\ r.armed = q.armed
<1> DEFINE p == Unref(q, 1)
           o == [p EXCEPT !.is_closing = TRUE, !.delayed = FALSE, !.kaId = FALSE,
                          !.kaArmed = ~p.kaId /\ p.kaArmed]
<1>1. q.grp \in Int /\ 1 \in Nat /\ 2 \in Nat /\ q.grp # 1 /\ q.grp - 1 # 2
    BY Fields
<1>2. /\ p \in Transport /\ p.grp = q.grp - 1 /\ p.mem = q.mem /\ p.ref_cnt = q.ref_cnt
      /\ p.is_shutdown = q.is_shutdown /\ p.is_destroying = q.is_destroying
      /\ p.has_pending_connect = q.has_pending_connect /\ p.kaId = q.kaId /\ p.kaArmed = q.kaArmed
      /\ p.id = q.id /\ p.armed = q.armed
    BY <1>1, UnrefFacts, Zenon
<1> HIDE DEF p
<1>3. (~p.kaId /\ p.kaArmed) \in BOOLEAN
    BY <1>2, Fields
<1>4. /\ o \in Transport /\ o.grp = p.grp /\ o.mem = p.mem /\ o.ref_cnt = p.ref_cnt
      /\ o.is_shutdown = p.is_shutdown /\ o.is_destroying = p.is_destroying /\ o.is_closing
      /\ o.id = p.id /\ o.armed = p.armed
    BY <1>2, <1>3, ZenonT(60) DEF Transport
<1> HIDE DEF o
<1>5. o.grp # 2 /\ o.grp - 2 = q.grp - 3
    BY <1>1, <1>2, <1>4
<1>6. LET r == Unref(o, 2) IN
      /\ r \in Transport /\ r.grp = o.grp - 2 /\ r.mem = o.mem /\ r.ref_cnt = o.ref_cnt
      /\ r.is_shutdown = o.is_shutdown /\ r.is_destroying = o.is_destroying /\ r.is_closing = o.is_closing
      /\ r.has_pending_connect = o.has_pending_connect /\ r.kaId = o.kaId /\ r.kaArmed = o.kaArmed
      /\ r.id = o.id /\ r.armed = o.armed
    BY <1>1, <1>4, <1>5, UnrefFacts, Zenon
<1>7. Closed(p) = Unref(o, 2)
    BY DEF Closed, o
<1> QED BY <1>2, <1>4, <1>5, <1>6, <1>7, ZenonT(60) DEF p

LEMMA CloseStep ==
    ASSUME OneWorker, IInv, NEW h \in Threads, NEW t \in Transports, Close(h, t)
    PROVE  IInv'
<1> DEFINE r == Closed(Unref(tp[t], 1))
           s == At("unref", t, "idle")
<1>1. Is(h, "close", t) /\ table' = table /\ mgrLock' = mgrLock /\ users' = users
    BY DEF Close
<1>2. /\ thr[h].tp = t /\ thr[h].pc = "close" /\ thr[h].after = "idle"
      /\ ~Refers(thr[h], t) /\ ~Owes(thr[h], t) /\ Keeps(thr[h], t)
    BY <1>1, HereFacts DEF RefPcs, ShutPcs, GivePcs, DropPcs, TimerPcs, DestroyPcs
<1>3. h \in Workers /\ tp[t].is_destroying /\ ~tp[t].is_closing /\ ~Valid(t) /\ ~tp[t].id
    BY <1>2, TransportMgrAssumption DEF IInv, Works, WorkerPcs, TimerPcs, DestroyPcs
<1>4. /\ tp[t].mem = "live" /\ Open(t) /\ tp[t] \in Transport /\ Life(t) /\ tp[t].ref_cnt = 0
      /\ tp[t].grp \in Nat /\ users[t] \in Nat
    BY <1>2, <1>3, WorkFacts, CountFacts DEF Open, Life, KeepAlivePcs
<1>5. tp[t].grp > 3
    BY <1>2, <1>4, HolderFacts
<1>7. /\ r \in Transport /\ r.grp = tp[t].grp - 3 /\ r.mem = "live" /\ r.ref_cnt = 0
      /\ r.is_destroying /\ r.is_closing /\ ~r.id /\ r.armed = tp[t].armed
    BY <1>3, <1>4, <1>5, ClosedFacts
<1>8. /\ s \in ThreadState /\ Shaped(s) /\ s.tp = t /\ s.pc = "unref" /\ s.after = "idle"
      /\ ~Refers(s, t) /\ ~Owes(s, t) /\ Keeps(s, t)
    BY AtFacts DEF Pcs, RefPcs, ShutPcs, WorkerPcs, TimerPcs, DestroyPcs
<1>9. Moves(h, t, r, s, users[t])
    BY <1>1, <1>2, <1>7, <1>8, CountFacts DEF Close, Moves, Change, Set, IInv, Typed
<1> HIDE DEF r, s
<1>10. Balanced(h, t, r, s, users[t])
    <2>1. Base(r) = 0 /\ Base(tp[t]) = 3
        BY <1>3, <1>4, <1>7 DEF Base
    <2> QED BY <1>2, <1>4, <1>5, <1>7, <1>8, <2>1 DEF Balanced, One
<1>11. Listed(h, t)
    BY <1>1 DEF Listed, Valid, IInv, Typed
<1>12. Respects(h, t, r)
    BY <1>3 DEF OneWorker, Respects, Usable
<1>13. tp'[t] = r /\ thr'[h] = s /\ ~Valid(t)'
    BY <1>1, <1>3, <1>9 DEF Moves, IInv, Typed, Valid
<1>14. Life(t)'
    BY <1>4, <1>7, <1>13 DEF Life, Open
<1>15. Locks(h)' /\ Works(h)'
    BY <1>1, <1>3, <1>7, <1>8, <1>9, TimerThread DEF TimerPcs, DestroyPcs
<1> QED BY <1>9, <1>10, <1>11, <1>12, <1>14, <1>15, StepKeeps

-------------------------------------------------------------------------------
(* Shutting down.                                                          *)

\* Nothing but where the thread is changes.
LEMMA StillStep ==
    ASSUME OneWorker, IInv, NEW h \in Threads, NEW t \in Transports, NEW s,
           tp' = tp, users' = users, table' = table, thr' = [thr EXCEPT ![h] = s],
           s \in ThreadState, Shaped(s), s.tp \in {t, None}, thr[h].tp \in {t, None},
           Refers(s, t) <=> Refers(thr[h], t), Owes(s, t) <=> Owes(thr[h], t),
           Keeps(s, t) <=> Keeps(thr[h], t),
           mgrLock' \in Threads \cup {None}, mgrLock \notin {None, h} => mgrLock' = mgrLock,
           thr[h].pc \notin DestroyPcs, Locks(h)', Works(h)'
    PROVE  IInv'
<1>1. /\ tp[t] \in Transport /\ users[t] \in 0 .. MaxUsers /\ users[t] \in Nat
      /\ tp[t].ref_cnt \in Nat /\ tp[t].grp \in Nat /\ (tp[t].mem = "live" <=> tp[t].grp > 0)
      /\ Life(t) /\ Typed
    BY CountFacts DEF IInv
<1>2. Moves(h, t, tp[t], s, users[t])
    BY <1>1 DEF Moves, Typed
<1>3. Balanced(h, t, tp[t], s, users[t])
    <2>1. Base(tp[t]) - Base(tp[t]) = 0
        BY DEF Base
    <2> QED BY <1>1, <2>1 DEF Balanced, One
<1>4. \A x : Valid(x)' <=> Valid(x)
    BY DEF Valid
<1>5. Listed(h, t)
    BY <1>1, <1>4 DEF Listed, Typed
<1>6. Respects(h, t, tp[t])
    BY <1>4 DEF Respects, Open, Usable
<1>7. Life(t)'
    <2>1. \A g \in Threads \ {h} : thr'[g] = thr[g]
        BY <1>1 DEF Typed
    <2>2. /\ WorkerAt(DestroyPcs, t) => WorkerAt(DestroyPcs, t)'
          /\ WorkerAt({"close"}, t) => WorkerAt({"close"}, t)'
        BY <2>1 DEF WorkerAt, Threads, DestroyPcs
    <2> QED BY <1>1, <1>4, <2>2 DEF Life, Open
<1> QED BY <1>2, <1>3, <1>5, <1>6, <1>7, StepKeeps

\* The transport that is being shut down is in the table.
LEMMA ShutValid ==
    ASSUME OneWorker, IInv, NEW h \in Threads, NEW t \in Transports, thr[h].tp = t, thr[h].pc \in ShutPcs
    PROVE  /\ Valid(t) /\ Open(t) /\ tp[t].mem = "live" /\ tp[t] \in Transport
           /\ h \in Workers => ~tp[t].is_destroying
           /\ thr[h] \in ThreadState /\ Shaped(thr[h]) /\ Locks(h) /\ Works(h)
<1>1. thr[h] \in ThreadState /\ Shaped(thr[h]) /\ Locks(h) /\ Works(h) /\ t # None
    BY TransportMgrAssumption DEF IInv, Typed
<1>2. h \in Workers => Open(t) /\ ~tp[t].is_destroying
    BY <1>1 DEF Works, ShutPcs, TimerPcs, DestroyPcs, KeepAlivePcs
<1>3. ASSUME h \in Workers PROVE Valid(t)
    BY <1>2, <1>3, OpenFacts DEF ShutPcs, DestroyPcs
<1>4. ASSUME h \notin Workers, thr[h].after = "all" PROVE Valid(t)
    BY <1>1, <1>4 DEF Locks, InAll
<1>5. ASSUME h \notin Workers, thr[h].after # "all" PROVE Valid(t)
    <2>1. Refers(thr[h], t)
        BY <1>1, <1>5 DEF Works, Refers
    <2> QED BY <2>1, HolderFacts, UsedFacts
<1>6. Valid(t)
    BY <1>3, <1>4, <1>5
<1> QED BY <1>1, <1>2, <1>6, ValidFacts, CountFacts

\* Where a thread goes on, and that it holds the same.
LEMMA AfterShutFacts ==
    ASSUME IInv, NEW h \in Threads, NEW t \in Transports, thr[h].tp = t, thr[h].pc \in ShutPcs
    PROVE  LET s == AfterShut(h, t) IN
           /\ s \in ThreadState /\ Shaped(s) /\ s.tp \in {t, None} /\ s.pc \in {"all", "idle", "dec"}
           /\ Refers(s, t) <=> Refers(thr[h], t)
           /\ Owes(s, t) <=> Owes(thr[h], t)
           /\ Keeps(s, t) <=> Keeps(thr[h], t)
           /\ s.pc = "all" => s.tp = None /\ s.after = "all" /\ s.rest = thr[h].rest /\ thr[h].after = "all"
           /\ s.pc # "all" => s.after # "all" /\ thr[h].after # "all"
           /\ s.pc = "dec" => s.after \in {"idle", "dec", "kaSchedule"} /\ s.after = thr[h].after
           /\ s.pc = "idle" => s = Idle
<1>1. /\ thr[h] \in ThreadState /\ Shaped(thr[h]) /\ t # None
      /\ thr[h].after \in {"idle", "dec", "kaSchedule", "return", "all"}
    BY ThreadFields, TransportMgrAssumption DEF IInv, Typed
<1>2. ~Keeps(thr[h], t) /\ (Owes(thr[h], t) <=> thr[h].after = "dec")
      /\ (Refers(thr[h], t) <=> thr[h].after \notin {"return", "all"})
    BY DEF Keeps, Owes, Refers, ShutPcs, RefPcs, DropPcs, TimerPcs, DestroyPcs
<1>3. CASE thr[h].after = "all"
    <2> DEFINE s == [thr[h] EXCEPT !.pc = "all", !.tp = None]
    <2>1. AfterShut(h, t) = s
        BY <1>3 DEF AfterShut
    <2>2. s \in ThreadState /\ s.tp = None /\ s.pc = "all" /\ s.after = "all" /\ s.rest = thr[h].rest
        BY <1>1, <1>3 DEF ThreadState, Pcs
    <2> HIDE DEF s
    <2>3. Shaped(s) /\ ~Refers(s, t) /\ ~Owes(s, t) /\ ~Keeps(s, t)
        BY <1>1, <2>2 DEF Shaped, Refers, Owes, Keeps
    <2> QED BY <1>2, <1>3, <2>1, <2>2, <2>3
<1>4. CASE thr[h].after = "return"
    <2>1. AfterShut(h, t) = Idle
        BY <1>4 DEF AfterShut
    <2> QED BY <1>2, <1>4, <2>1, IdleFacts
<1>5. CASE thr[h].after \in {"idle", "dec", "kaSchedule"}
    <2> DEFINE s == At("dec", t, thr[h].after)
    <2>1. AfterShut(h, t) = s
        BY <1>5 DEF AfterShut
    <2>2. /\ s \in ThreadState /\ Shaped(s) /\ s.tp = t /\ s.pc = "dec" /\ s.after = thr[h].after
          /\ Refers(s, t) /\ (Owes(s, t) <=> thr[h].after = "dec") /\ ~Keeps(s, t)
        BY <1>5, AtFacts DEF Pcs, RefPcs, DropPcs, TimerPcs, DestroyPcs
    <2> HIDE DEF s
    <2> QED BY <1>2, <1>5, <2>1, <2>2
<1> QED BY <1>1, <1>3, <1>4, <1>5

LEMMA AfterShutThread ==
    ASSUME OneWorker, IInv, NEW h \in Threads, NEW t \in Transports, NEW r,
           thr[h].tp = t, thr[h].pc \in ShutPcs, tp'[t] = r, thr'[h] = AfterShut(h, t),
           table' = table, Unlock(h), r.mem = "live", r.is_closing = tp[t].is_closing,
           r.is_destroying = tp[t].is_destroying
    PROVE  Locks(h)' /\ Works(h)'
<1> DEFINE s == AfterShut(h, t)
<1>1. /\ s.tp \in {t, None} /\ s.pc \in {"all", "idle", "dec"}
      /\ s.pc = "all" => s.tp = None /\ s.after = "all" /\ s.rest = thr[h].rest /\ thr[h].after = "all"
      /\ s.pc # "all" => s.after # "all" /\ thr[h].after # "all"
      /\ s.pc = "dec" => s.after \in {"idle", "dec", "kaSchedule"} /\ s.after = thr[h].after
      /\ s.pc = "idle" => s.tp = None /\ s.after = "idle"
    BY AfterShutFacts, IdleFacts
<1>2. /\ Valid(t) /\ Open(t) /\ tp[t].mem = "live" /\ t # None
      /\ h \in Workers => ~tp[t].is_destroying
      /\ Locks(h) /\ Works(h)
    BY ShutValid, TransportMgrAssumption
<1> HIDE DEF s
<1>3. thr'[h] = s /\ (\A x : Valid(x)' <=> Valid(x)) /\ Open(t)' /\ (InAll(h)' <=> s.pc = "all")
    BY <1>1, <1>2 DEF s, Valid, Open, InAll
<1>4. s.pc = "all" => mgrLock' = h
    BY <1>1 DEF Unlock
<1>5. Locks(h)'
    <2>1. ~Gives(s) /\ s.pc \notin {"shutEnd", "shutMark", "unlock", "verify"}
        BY <1>1 DEF Gives, GivePcs, DropPcs
    <2>2. s.pc = "all" => mgrLock' = h /\ \A i \in DOMAIN s.rest : Valid(s.rest[i])
        BY <1>1, <1>2, <1>4 DEF Locks, InAll
    <2> QED BY <1>1, <1>3, <2>1, <2>2 DEF Locks
<1>6. s.after = "kaSchedule" => h \in Workers
    BY <1>1, <1>2 DEF Works
<1>7. s.pc \notin WorkerPcs /\ s.pc \notin TimerPcs /\ s.pc \notin DestroyPcs /\ s.pc \notin FreshPcs
      /\ s.pc \notin KeepAlivePcs /\ s.pc \notin {"close", "ka", "kaSchedule"} /\ s.after # "return"
    BY <1>1 DEF WorkerPcs, TimerPcs, DestroyPcs, FreshPcs, KeepAlivePcs, Gives, GivePcs, DropPcs
<1>8. h \in Workers => s.pc # "all"
    BY <1>1, <1>2 DEF Works, InAll
<1>9. Works(h)'
    BY <1>1, <1>2, <1>3, <1>6, <1>7, <1>8 DEF Works
<1> QED BY <1>5, <1>9

LEMMA ShutNothingStep ==
    ASSUME OneWorker, IInv, NEW h \in Threads, NEW t \in Transports, ShutNothing(h, t)
    PROVE  IInv'
<1> DEFINE r == [tp[t] EXCEPT !.lock = None]
           s == AfterShut(h, t)
<1>1. Is(h, "shut", t) /\ LockFree(h) /\ table' = table /\ users' = users /\ Unlock(h)
    BY DEF ShutNothing
<1>2. thr[h].tp = t /\ thr[h].pc = "shut" /\ thr[h].pc \in ShutPcs
    BY <1>1 DEF Is, ShutPcs
<1>3. Open(t) /\ tp[t].mem = "live" /\ tp[t] \in Transport
    BY <1>2, ShutValid
<1>4. /\ s \in ThreadState /\ Shaped(s) /\ s.tp \in {t, None} /\ s.pc \in {"all", "idle", "dec"}
      /\ (Refers(s, t) <=> Refers(thr[h], t)) /\ (Owes(s, t) <=> Owes(thr[h], t))
      /\ (Keeps(s, t) <=> Keeps(thr[h], t))
    BY <1>2, AfterShutFacts
<1>5. Timed(tp[t], r) /\ r.id = tp[t].id
    BY <1>3, Marks
<1>6. Moves(h, t, r, s, users[t])
    BY <1>1, <1>2, <1>4, <1>5, CountFacts DEF ShutNothing, Moves, Change, Set, Timed, IInv, Typed
<1>7. tp'[t] = r /\ thr'[h] = AfterShut(h, t)
    BY <1>6 DEF Moves, IInv, Typed
<1> HIDE DEF r, s
<1>8. Plain(t, r) /\ Balanced(h, t, r, s, users[t])
    BY <1>3, <1>4, <1>5, TimedPlain
<1>9. mgrLock' \in {None, h}
    BY <1>1 DEF Unlock
<1>10. Calm(h, t, r, s)
    BY <1>1, <1>2, <1>4, <1>5, <1>9 DEF Calm, LockFree, KeepAlivePcs, DestroyPcs, Timed
<1>11. Locks(h)' /\ Works(h)'
    BY <1>1, <1>2, <1>3, <1>5, <1>7, AfterShutThread DEF Timed
<1> QED BY <1>6, <1>8, <1>10, <1>11, PlainKeeps

\* A thread that has both locks keeps the others from relying on the transport.
LEMMA LockedRespects ==
    ASSUME IInv, NEW h \in Threads, NEW t \in Transports, NEW r,
           LockFree(h), table' = table, r.mem = "live",
           r.is_destroying = tp[t].is_destroying, r.is_closing = tp[t].is_closing,
           r.id => tp[t].id \/ Valid(t)
    PROVE  Respects(h, t, r)
<1>1. Valid(t)' <=> Valid(t)
    BY DEF Valid
<1> QED BY <1>1 DEF Respects, LockFree

LEMMA ShutKeepAliveStep ==
    ASSUME OneWorker, IInv, NEW h \in Threads, NEW t \in Transports, ShutKeepAlive(h, t)
    PROVE  IInv'
<1> DEFINE r == IF tp[t].kaId THEN [tp[t] EXCEPT !.kaArmed = FALSE] ELSE tp[t]
           s == [thr[h] EXCEPT !.pc = IF tp[t].kaId THEN "shutEnd" ELSE "shutMark"]
<1>1. /\ Is(h, "shut", t) /\ LockFree(h) /\ Usable(t) /\ mgrLock' = h
      /\ table' = table /\ users' = users
    BY DEF ShutKeepAlive
<1>2. thr[h].tp = t /\ thr[h].pc = "shut" /\ thr[h].pc \in ShutPcs
    BY <1>1 DEF Is, ShutPcs
<1>3. /\ Valid(t) /\ Open(t) /\ tp[t].mem = "live" /\ tp[t] \in Transport
      /\ thr[h] \in ThreadState /\ Shaped(thr[h]) /\ Locks(h) /\ Works(h) /\ Life(t)
      /\ ~tp[t].is_closing /\ ~tp[t].is_destroying /\ ~tp[t].is_shutdown /\ t # None
    BY <1>1, <1>2, ShutValid, TransportMgrAssumption DEF IInv, Open, Usable
<1>4. /\ s \in ThreadState /\ s.tp = t /\ s.after = thr[h].after /\ s.rest = thr[h].rest
      /\ s.pc = IF tp[t].kaId THEN "shutEnd" ELSE "shutMark"
    BY <1>2, <1>3 DEF ThreadState, Pcs, ShutPcs
<1>5. /\ r \in Transport /\ r.grp = tp[t].grp /\ r.mem = tp[t].mem
      /\ r.ref_cnt = tp[t].ref_cnt /\ r.is_shutdown = tp[t].is_shutdown
      /\ r.is_destroying = tp[t].is_destroying /\ r.is_closing = tp[t].is_closing
      /\ r.id = tp[t].id /\ r.armed = tp[t].armed
    BY <1>3 DEF Transport
<1>6. tp' = [tp EXCEPT ![t] = r] /\ thr' = [thr EXCEPT ![h] = s]
    BY DEF ShutKeepAlive, Change, Set, IInv, Typed
<1> HIDE DEF r, s
<1>7. /\ Shaped(s) /\ (Refers(s, t) <=> Refers(thr[h], t)) /\ (Owes(s, t) <=> Owes(thr[h], t))
      /\ (Keeps(s, t) <=> Keeps(thr[h], t))
    BY <1>2, <1>3, <1>4
    DEF Shaped, Refers, Owes, Keeps, RefPcs, ShutPcs, DropPcs, TimerPcs, DestroyPcs
<1>8. Moves(h, t, r, s, users[t])
    BY <1>1, <1>2, <1>4, <1>5, <1>6, <1>7, CountFacts DEF Moves, IInv, Typed
<1>9. Balanced(h, t, r, s, users[t])
    <2>1. Base(r) = Base(tp[t]) /\ Base(r) \in Int
        BY <1>5 DEF Base
    <2>2. /\ tp[t].grp \in Nat /\ tp[t].ref_cnt \in Nat /\ users[t] \in Nat
          /\ tp[t].mem = "live" <=> tp[t].grp > 0
        BY CountFacts
    <2> QED BY <1>5, <1>7, <2>1, <2>2 DEF Balanced, One
<1>10. \A x : Valid(x)' <=> Valid(x)
    BY <1>1 DEF Valid
<1>11. Listed(h, t)
    BY <1>1, <1>10 DEF Listed, LockFree, IInv, Typed
<1>12. Respects(h, t, r)
    BY <1>1, <1>3, <1>5, LockedRespects
<1>13. tp'[t] = r /\ thr'[h] = s /\ \A g \in Threads \ {h} : thr'[g] = thr[g]
    BY <1>6 DEF IInv, Typed
<1>14. Life(t)'
    BY <1>3, <1>5, <1>10, <1>13 DEF Life, Open
<1>15. s.pc \in {"shutEnd", "shutMark"}
    BY <1>4
<1>17. Usable(t)' /\ Open(t)' /\ (InAll(h)' <=> InAll(h))
    BY <1>2, <1>3, <1>4, <1>5, <1>13, <1>15 DEF Usable, Open, InAll
<1>18. Locks(h)'
    <2>1. InAll(h) => \A i \in DOMAIN thr[h].rest : Valid(thr[h].rest[i])
        BY <1>3 DEF Locks
    <2>2. ~Gives(s)
        BY <1>15 DEF Gives, GivePcs, DropPcs
    <2> QED BY <1>1, <1>3, <1>4, <1>10, <1>13, <1>15, <1>17, <2>1, <2>2 DEF Locks
<1>19. Works(h)'
    <2>1. /\ s.pc \notin WorkerPcs /\ s.pc \notin DestroyPcs /\ s.pc \notin FreshPcs
          /\ s.pc \notin KeepAlivePcs /\ s.pc \notin {"close", "ka", "kaSchedule"}
        BY <1>15 DEF WorkerPcs, TimerPcs, DestroyPcs, FreshPcs, KeepAlivePcs, Gives, GivePcs, DropPcs
    <2>3. thr[h].after \in {"return", "kaSchedule"} => h \in Workers
        BY <1>3 DEF Works
    <2>4. h \in Workers => ~InAll(h)
        BY <1>3 DEF Works
    <2> QED BY <1>3, <1>4, <1>5, <1>13, <1>17, <2>1, <2>3, <2>4 DEF Works
<1> QED BY <1>8, <1>9, <1>11, <1>12, <1>14, <1>18, <1>19, StepKeeps

\* A thread that has both locks goes on.
LEMMA LockedThread ==
    ASSUME IInv, NEW h \in Threads, NEW t \in Transports, NEW r, NEW s,
           thr[h].tp = t, thr[h].pc \in {"shutEnd", "shutMark", "shutVerify"},
           tp'[t] = r, thr'[h] = s, table' = table, mgrLock' = mgrLock,
           r.mem = "live", r.is_closing = tp[t].is_closing, r.is_destroying = tp[t].is_destroying,
           s.tp = t, s.pc \in {"shutVerify", "dec", "unlock"}, s.after = thr[h].after, s.rest = thr[h].rest
    PROVE  Locks(h)' /\ Works(h)'
<1>1. Shaped(thr[h]) /\ Locks(h) /\ Works(h) /\ t # None
    BY TransportMgrAssumption DEF IInv
<1>2. mgrLock' = h /\ Valid(t)
    BY <1>1 DEF Locks, Shaped, Gives, GivePcs
<1>3. \A x : Valid(x)' <=> Valid(x)
    BY DEF Valid
<1>4. InAll(h)' <=> InAll(h)
    BY DEF InAll
<1>5. Locks(h)'
    BY <1>1, <1>2, <1>3, <1>4 DEF Locks
<1>6. h \in Workers => Open(t)' /\ ~r.is_destroying
    BY <1>1 DEF Works, Open, TimerPcs, DestroyPcs, KeepAlivePcs
<1>7. s.pc \notin WorkerPcs /\ s.pc \notin TimerPcs /\ s.pc \notin DestroyPcs /\ s.pc \notin KeepAlivePcs
      /\ s.pc # "close"
    BY DEF WorkerPcs, TimerPcs, DestroyPcs, FreshPcs, KeepAlivePcs
<1>8. Works(h)'
    BY <1>1, <1>4, <1>6, <1>7 DEF Works
<1> QED BY <1>5, <1>8

LEMMA ShutEndStep ==
    ASSUME OneWorker, IInv, NEW h \in Threads, NEW t \in Transports, ShutEnd(h, t)
    PROVE  IInv'
<1> DEFINE q == [tp[t] EXCEPT !.is_shutdown = TRUE,
                              !.kaId = IF thr[h].pc = "shutEnd" THEN FALSE ELSE @]
           r == IF q.ref_cnt = 0 THEN Referred(q) ELSE q
           s == [thr[h] EXCEPT !.pc = IF tp[t].ref_cnt = 0 THEN "shutVerify" ELSE "unlock"]
<1>1. /\ Is(h, "shutEnd", t) \/ Is(h, "shutMark", t)
      /\ tp' = [tp EXCEPT ![t] = r] /\ thr' = [thr EXCEPT ![h] = s]
      /\ table' = table /\ users' = users /\ mgrLock' = mgrLock
    BY DEF ShutEnd, Change, Set
<1>2. thr[h].tp = t /\ thr[h].pc \in {"shutEnd", "shutMark"} /\ thr[h].pc \in ShutPcs
    BY <1>1 DEF Is, ShutPcs
<1>3. /\ Valid(t) /\ Open(t) /\ tp[t].mem = "live" /\ tp[t] \in Transport /\ Locks(h) /\ Life(t)
      /\ thr[h] \in ThreadState /\ Shaped(thr[h])
    BY <1>2, ShutValid DEF IInv
<1>4. mgrLock = h /\ ~tp[t].is_destroying /\ ~tp[t].is_closing
    BY <1>2, <1>3 DEF Locks, Usable, Open
<1>5. /\ tp[t].grp > 2 /\ tp[t].grp \in Nat /\ tp[t].ref_cnt \in Nat /\ users[t] \in Nat
      /\ users[t] \in 0 .. MaxUsers
    BY <1>3, CountFacts
<1>6. /\ Refers(thr[h], t) <=> thr[h].after \notin {"return", "all"}
      /\ Owes(thr[h], t) <=> thr[h].after = "dec"
      /\ ~Keeps(thr[h], t)
      /\ tp[t].ref_cnt = 0 => thr[h].after \in {"return", "all"}
    <2>1. /\ Refers(thr[h], t) <=> thr[h].after \notin {"return", "all"}
          /\ Owes(thr[h], t) <=> thr[h].after = "dec"
          /\ ~Keeps(thr[h], t)
        BY <1>2 DEF Refers, Owes, Keeps, RefPcs, DropPcs, TimerPcs, DestroyPcs
    <2> QED BY <2>1, <1>5, HolderFacts
<1>7. /\ s \in ThreadState /\ Shaped(s) /\ s.tp = t /\ s.after = thr[h].after /\ s.rest = thr[h].rest
      /\ s.pc = IF tp[t].ref_cnt = 0 THEN "shutVerify" ELSE "unlock"
      /\ Refers(s, t) <=> tp[t].ref_cnt = 0 \/ Refers(thr[h], t)
      /\ Owes(s, t) <=> Owes(thr[h], t)
      /\ ~Keeps(s, t)
    <2> DEFINE pc == IF tp[t].ref_cnt = 0 THEN "shutVerify" ELSE "unlock"
    <2>1. s \in ThreadState /\ s.tp = t /\ s.pc = pc /\ s.after = thr[h].after /\ s.rest = thr[h].rest
        <3>1. pc \in Pcs
            BY DEF Pcs, RefPcs, ShutPcs
        <3> HIDE DEF pc
        <3> QED BY <1>2, <1>3, <3>1, PcFields DEF pc
    <2> HIDE DEF s
    <2>2. CASE tp[t].ref_cnt = 0
        <3>1. s.pc = "shutVerify" /\ thr[h].after \in {"return", "all"}
            BY <2>1, <2>2, <1>6
        <3> QED BY <2>1, <2>2, <3>1, <1>2, <1>3, <1>6, PcFacts DEF RefPcs, ShutPcs, GivePcs, DropPcs
    <2>3. CASE tp[t].ref_cnt # 0
        <3>1. s.pc = "unlock"
            BY <2>1, <2>3
        <3> QED BY <2>1, <2>3, <3>1, <1>2, <1>3, <1>6, PcFacts DEF RefPcs, ShutPcs, GivePcs, DropPcs
    <2> QED BY <2>2, <2>3
<1>8. /\ q \in Transport /\ q.grp = tp[t].grp /\ q.mem = "live" /\ q.ref_cnt = tp[t].ref_cnt
      /\ ~q.is_destroying /\ ~q.is_closing /\ q.id = tp[t].id /\ q.armed = tp[t].armed
    BY <1>3, <1>4 DEF Transport
<1> HIDE DEF q, s
<1>9. /\ r \in Transport /\ r.mem = "live" /\ ~r.is_destroying /\ ~r.is_closing
      /\ r.id = tp[t].id /\ r.armed = tp[t].armed
      /\ r.ref_cnt = IF tp[t].ref_cnt = 0 THEN 1 ELSE tp[t].ref_cnt
      /\ r.grp = IF tp[t].ref_cnt = 0 THEN tp[t].grp + 1 ELSE tp[t].grp
    <2>1. CASE q.ref_cnt = 0
        BY <2>1, <1>5, <1>8, ReferredFacts
    <2>2. CASE q.ref_cnt # 0
        BY <2>2, <1>8
    <2> QED BY <2>1, <2>2
<1> HIDE DEF r
<1>10. r.is_destroying = tp[t].is_destroying /\ r.is_closing = tp[t].is_closing
    BY <1>3, <1>4, <1>9, Fields
<1>11. Moves(h, t, r, s, users[t])
    BY <1>1, <1>2, <1>5, <1>7, <1>9 DEF Moves, IInv, Typed
<1>12. Balanced(h, t, r, s, users[t])
    <2>1. Base(r) = 3 /\ Base(tp[t]) = 3
        BY <1>3, <1>4, <1>9 DEF Base
    <2>2. /\ One(Owes(s, t)) = One(Owes(thr[h], t)) /\ One(Owes(s, t)) \in Int
          /\ One(Keeps(s, t)) = One(Keeps(thr[h], t)) /\ One(Keeps(s, t)) \in Int
          /\ One(r.armed) = One(tp[t].armed) /\ One(r.armed) \in Int
        BY <1>6, <1>7, <1>9 DEF One
    <2>3. /\ One(Refers(s, t)) - One(Refers(thr[h], t)) = IF tp[t].ref_cnt = 0 THEN 1 ELSE 0
          /\ One(Refers(s, t)) \in Int /\ One(Refers(thr[h], t)) \in Int
        BY <1>6, <1>7 DEF One
    <2> HIDE DEF One, Base
    <2>4. r.ref_cnt - tp[t].ref_cnt = One(Refers(s, t)) - One(Refers(thr[h], t))
        BY <1>5, <1>9, <2>3
    <2>5. r.grp - tp[t].grp = r.ref_cnt - tp[t].ref_cnt
        BY <1>5, <1>9
    <2>6. users[t] - users[t] = 0 /\ r.ref_cnt \in Int /\ r.grp \in Int /\ r.grp > 0
        BY <1>5, <1>9
    <2>7. (r.grp - tp[t].grp) - (r.ref_cnt - tp[t].ref_cnt) = 0
        BY <1>5, <2>5, <2>6
    <2>8. /\ r.ref_cnt - tp[t].ref_cnt = users[t] - users[t] + One(Refers(s, t)) - One(Refers(thr[h], t))
                                            + One(Owes(s, t)) - One(Owes(thr[h], t))
        BY <2>2, <2>3, <2>4, <2>6
    <2>9. One(Keeps(s, t)) - One(Keeps(thr[h], t)) + One(r.armed) - One(tp[t].armed) + Base(r) - Base(tp[t]) = 0
        BY <2>1, <2>2
    <2> QED BY <1>9, <2>6, <2>7, <2>8, <2>9 DEF Balanced
<1>13. Plain(t, r)
    BY <1>3, <1>9, <1>10 DEF Plain
<1>14. Calm(h, t, r, s)
    BY <1>1, <1>2, <1>4 DEF Calm, DestroyPcs
<1>15. tp'[t] = r /\ thr'[h] = s
    BY <1>1 DEF IInv, Typed
<1>16. Locks(h)' /\ Works(h)'
    BY <1>1, <1>2, <1>7, <1>9, <1>10, <1>15, LockedThread
<1> QED BY <1>11, <1>12, <1>13, <1>14, <1>16, PlainKeeps

LEMMA ShutVerifyStep ==
    ASSUME OneWorker, IInv, NEW h \in Threads, NEW t \in Transports, ShutVerify(h, t)
    PROVE  IInv'
<1> DEFINE r == Verified(tp[t], Valid(t))
           s == [thr[h] EXCEPT !.pc = "dec"]
<1>1. /\ Is(h, "shutVerify", t) /\ tp' = [tp EXCEPT ![t] = r] /\ thr' = [thr EXCEPT ![h] = s]
      /\ table' = table /\ users' = users /\ mgrLock' = mgrLock
    BY DEF ShutVerify, Change, Set
<1>2. /\ thr[h].tp = t /\ thr[h].pc = "shutVerify" /\ thr[h] \in ThreadState /\ Shaped(thr[h])
      /\ Refers(thr[h], t) /\ (Owes(thr[h], t) <=> thr[h].after = "dec") /\ ~Keeps(thr[h], t)
      /\ tp[t].mem = "live" /\ tp[t] \in Transport
    BY <1>1, HereFacts, CountFacts DEF RefPcs, ShutPcs, GivePcs, DropPcs, TimerPcs, DestroyPcs
<1>3. /\ s \in ThreadState /\ Shaped(s) /\ s.tp = t /\ s.pc = "dec"
      /\ s.after = thr[h].after /\ s.rest = thr[h].rest
      /\ Refers(s, t) /\ (Owes(s, t) <=> thr[h].after = "dec") /\ ~Keeps(s, t)
    <2>1. s \in ThreadState /\ s.tp = t /\ s.pc = "dec" /\ s.after = thr[h].after /\ s.rest = thr[h].rest
        BY <1>2, PcFields DEF Pcs, RefPcs
    <2> HIDE DEF s
    <2> QED BY <1>2, <2>1, PcFacts DEF RefPcs, ShutPcs, GivePcs, DropPcs
<1> HIDE DEF s
<1>4. Open(t) /\ ~tp[t].is_destroying
    BY <1>2, HolderFacts, UsedFacts
<1>5. Timed(tp[t], r) /\ (r.id => tp[t].id)
    <2>1. Valid(t) \in BOOLEAN
        BY DEF Valid
    <2>2. Valid(t) => tp[t].grp > 1
        BY ValidFacts, CountFacts
    <2> QED BY <1>2, <2>1, <2>2, VerifiedFacts
<1> HIDE DEF r
<1>6. Moves(h, t, r, s, users[t])
    BY <1>1, <1>2, <1>3, <1>5, CountFacts DEF Moves, Timed, IInv, Typed
<1>7. Plain(t, r) /\ Balanced(h, t, r, s, users[t])
    BY <1>2, <1>3, <1>4, <1>5, TimedPlain
<1>8. Calm(h, t, r, s)
    BY <1>1, <1>2, <1>5 DEF Calm, DestroyPcs, Timed, IInv, Typed
<1>9. tp'[t] = r /\ thr'[h] = s
    BY <1>1 DEF IInv, Typed
<1>10. Locks(h)' /\ Works(h)'
    BY <1>1, <1>2, <1>3, <1>5, <1>9, LockedThread DEF Timed
<1> QED BY <1>6, <1>7, <1>8, <1>10, PlainKeeps

LEMMA ShutUnlockStep ==
    ASSUME OneWorker, IInv, NEW h \in Threads, NEW t \in Transports, ShutUnlock(h, t)
    PROVE  IInv'
<1> DEFINE r == [tp[t] EXCEPT !.lock = None]
           s == AfterShut(h, t)
<1>1. Is(h, "unlock", t) /\ table' = table /\ users' = users /\ Unlock(h)
    BY DEF ShutUnlock
<1>2. thr[h].tp = t /\ thr[h].pc = "unlock" /\ thr[h].pc \in ShutPcs
    BY <1>1 DEF Is, ShutPcs
<1>3. Open(t) /\ tp[t].mem = "live" /\ tp[t] \in Transport /\ mgrLock = h
    BY <1>2, ShutValid DEF Locks
<1>4. /\ s \in ThreadState /\ Shaped(s) /\ s.tp \in {t, None} /\ s.pc \in {"all", "idle", "dec"}
      /\ (Refers(s, t) <=> Refers(thr[h], t)) /\ (Owes(s, t) <=> Owes(thr[h], t))
      /\ (Keeps(s, t) <=> Keeps(thr[h], t))
    BY <1>2, AfterShutFacts
<1>5. Timed(tp[t], r) /\ r.id = tp[t].id
    BY <1>3, Marks
<1>6. Moves(h, t, r, s, users[t])
    BY <1>1, <1>2, <1>4, <1>5, CountFacts DEF ShutUnlock, Moves, Change, Set, Timed, IInv, Typed
<1>7. tp'[t] = r /\ thr'[h] = AfterShut(h, t)
    BY <1>6 DEF Moves, IInv, Typed
<1> HIDE DEF r, s
<1>8. Plain(t, r) /\ Balanced(h, t, r, s, users[t])
    BY <1>3, <1>4, <1>5, TimedPlain
<1>9. mgrLock' \in {None, h}
    BY <1>1 DEF Unlock
<1>10. Calm(h, t, r, s)
    BY <1>1, <1>2, <1>3, <1>4, <1>5, <1>9 DEF Calm, DestroyPcs, Timed
<1>11. Locks(h)' /\ Works(h)'
    BY <1>1, <1>2, <1>3, <1>5, <1>7, AfterShutThread DEF Timed
<1> QED BY <1>6, <1>8, <1>10, <1>11, PlainKeeps

LEMMA ShutdownStep ==
    ASSUME OneWorker, IInv, NEW h \in Threads, NEW t \in Transports, Shutdown(h, t)
    PROVE  IInv'
<1> DEFINE s == At("shutLock", t, "return")
<1>1. /\ h \in Workers /\ thr[h] = Idle /\ Open(t) /\ thr' = [thr EXCEPT ![h] = s]
      /\ tp' = tp /\ table' = table /\ mgrLock' = mgrLock /\ users' = users
    BY DEF Shutdown, Set
<1>2. /\ thr[h].tp = None /\ thr[h].pc = "idle"
      /\ ~Refers(thr[h], t) /\ ~Owes(thr[h], t) /\ ~Keeps(thr[h], t)
    BY <1>1, IdleFacts
<1>3. /\ s \in ThreadState /\ Shaped(s) /\ s.tp = t /\ s.pc = "shutLock" /\ s.after = "return"
      /\ ~Refers(s, t) /\ ~Owes(s, t) /\ ~Keeps(s, t)
    BY AtFacts DEF Pcs, ShutPcs, RefPcs, DropPcs, TimerPcs, DestroyPcs
<1> HIDE DEF s
<1>4. ~tp[t].is_destroying
    BY <1>1, <1>2, OpenFacts DEF DestroyPcs
<1>5. thr'[h] = s /\ Open(t)'
    BY <1>1 DEF IInv, Typed, Open
<1>6. Locks(h)' /\ Works(h)'
    <2>1. tp'[t].mem = "live" /\ ~tp'[t].is_destroying
        BY <1>1, <1>4 DEF Open
    <2>2. h \notin Apps
        BY <1>1, TransportMgrAssumption
    <2>3. s.pc \notin WorkerPcs /\ s.pc \notin TimerPcs /\ s.pc \notin DestroyPcs /\ ~Gives(s)
        BY <1>3 DEF WorkerPcs, TimerPcs, DestroyPcs, FreshPcs, KeepAlivePcs, Gives, GivePcs, DropPcs
    <2> QED BY <1>1, <1>3, <1>5, <2>1, <2>2, <2>3 DEF Locks, Works, InAll, DestroyPcs
<1> QED BY <1>1, <1>2, <1>3, <1>6, StillStep DEF DestroyPcs, KeepAlivePcs, IInv, Typed

LEMMA ShutdownAllStep ==
    ASSUME OneWorker, IInv, NEW h \in Threads, ShutdownAll(h)
    PROVE  IInv'
<1> DEFINE s == [Idle EXCEPT !.pc = "all", !.after = "all", !.rest = table]
<1>1. /\ h \in Apps /\ thr[h] = Idle /\ mgrLock = None /\ mgrLock' = h /\ thr' = [thr EXCEPT ![h] = s]
      /\ tp' = tp /\ table' = table /\ users' = users
    BY DEF ShutdownAll, Set
<1>2. PICK t \in Transports : TRUE
    BY TransportMgrAssumption
<1>3. /\ thr[h].tp = None /\ thr[h].pc = "idle" /\ t # None /\ table \in Seq(Transports) /\ h \notin Workers
      /\ ~Refers(thr[h], t) /\ ~Owes(thr[h], t) /\ ~Keeps(thr[h], t)
    BY <1>1, IdleFacts, TransportMgrAssumption DEF IInv, Typed
<1>4. s.tp = None /\ s.pc = "all" /\ s.after = "all" /\ s.rest = table /\ s \in ThreadState
    BY <1>3 DEF Idle, ThreadState, Pcs
<1> HIDE DEF s
<1>5. Shaped(s) /\ ~Refers(s, t) /\ ~Owes(s, t) /\ ~Keeps(s, t)
    BY <1>3, <1>4 DEF Shaped, Refers, Owes, Keeps
<1>6. thr'[h] = s /\ \A i \in DOMAIN table : Valid(table[i])'
    BY <1>1 DEF IInv, Typed, Valid
<1>7. Locks(h)'
    BY <1>1, <1>4, <1>6 DEF Locks, InAll, Gives, GivePcs, DropPcs
<1>8. Works(h)'
    BY <1>3, <1>4, <1>6 DEF Works, WorkerPcs, TimerPcs, DestroyPcs, FreshPcs, KeepAlivePcs
<1> QED BY <1>1, <1>3, <1>4, <1>5, <1>7, <1>8, StillStep DEF DestroyPcs, KeepAlivePcs

LEMMA ShutdownNextStep ==
    ASSUME OneWorker, IInv, NEW h \in Threads, ShutdownNext(h)
    PROVE  IInv'
<1>1. thr[h].pc = "all" /\ tp' = tp /\ table' = table /\ users' = users
    BY DEF ShutdownNext
<1>2. /\ thr[h] \in ThreadState /\ Shaped(thr[h]) /\ Locks(h) /\ Works(h)
      /\ thr[h].rest \in Seq(Transports)
    BY ThreadFields DEF IInv, Typed
<1>3. /\ thr[h].tp = None /\ thr[h].after = "all" /\ mgrLock = h /\ h \notin Workers
      /\ \A i \in DOMAIN thr[h].rest : Valid(thr[h].rest[i])
    BY <1>1, <1>2 DEF Shaped, Locks, Works, InAll
<1>4. \A t \in Transports : t # None /\ ~Refers(thr[h], t) /\ ~Owes(thr[h], t) /\ ~Keeps(thr[h], t)
    BY <1>3, TransportMgrAssumption DEF Refers, Owes, Keeps
<1>5. CASE thr[h].rest = <<>>
    <2>1. PICK t \in Transports : TRUE
        BY TransportMgrAssumption
    <2>2. thr' = [thr EXCEPT ![h] = Idle] /\ mgrLock' = None /\ thr'[h] = Idle
        BY <1>5 DEF ShutdownNext, Set, IInv, Typed
    <2>3. Locks(h)' /\ Works(h)'
        BY <1>3, <2>2, IdleFacts
        DEF Locks, Works, InAll, Idle, WorkerPcs, TimerPcs, DestroyPcs, FreshPcs, KeepAlivePcs, Gives, GivePcs, DropPcs
    <2> QED BY <1>1, <1>3, <1>4, <2>2, <2>3, IdleFacts, StillStep DEF DestroyPcs, KeepAlivePcs
<1>6. CASE thr[h].rest # <<>>
    <2> DEFINE t == Head(thr[h].rest)
               s == [At("shutLock", t, "all") EXCEPT !.rest = Tail(thr[h].rest)]
    <2>1. /\ t \in Transports /\ Tail(thr[h].rest) \in Seq(Transports) /\ Valid(t)
          /\ \A i \in DOMAIN Tail(thr[h].rest) : Valid(Tail(thr[h].rest)[i])
        <3> DEFINE q == thr[h].rest
        <3> HIDE DEF q
        <3>1. q \in Seq(Transports) /\ q # <<>> /\ \A i \in DOMAIN q : Valid(q[i])
            BY <1>2, <1>3, <1>6 DEF q
        <3>2. Head(q) \in Transports /\ Tail(q) \in Seq(Transports) /\ Head(q) = q[1] /\ 1 \in DOMAIN q
            BY <3>1
        <3>3. \A i \in DOMAIN Tail(q) : i + 1 \in DOMAIN q /\ Tail(q)[i] = q[i + 1]
            BY <3>1
        <3>4. Valid(Head(q)) /\ \A i \in DOMAIN Tail(q) : Valid(Tail(q)[i])
            BY <3>1, <3>2, <3>3
        <3> QED BY <3>2, <3>4 DEF q
    <2>2. thr' = [thr EXCEPT ![h] = s] /\ mgrLock' = mgrLock /\ thr'[h] = s
        BY <1>6 DEF ShutdownNext, Set, IInv, Typed
    <2>3. /\ s.tp = t /\ s.pc = "shutLock" /\ s.after = "all" /\ s.rest = Tail(thr[h].rest)
          /\ s \in ThreadState
        BY <2>1 DEF At, ThreadState, Pcs, ShutPcs
    <2>4. t # None /\ ~Refers(thr[h], t) /\ ~Owes(thr[h], t) /\ ~Keeps(thr[h], t)
        BY <1>4, <2>1
    <2>5. \A x : Valid(x)' <=> Valid(x)
        BY <1>1 DEF Valid
    <2> HIDE DEF s, t
    <2>6. Shaped(s) /\ ~Refers(s, t) /\ ~Owes(s, t) /\ ~Keeps(s, t)
        BY <2>3, <2>4
        DEF Shaped, Refers, Owes, Keeps, RefPcs, ShutPcs, DropPcs, TimerPcs, DestroyPcs
    <2>7. Locks(h)'
        BY <1>3, <2>1, <2>2, <2>3, <2>5 DEF Locks, InAll, Gives, GivePcs, DropPcs
    <2>8. Works(h)'
        BY <1>3, <2>2, <2>3 DEF Works, WorkerPcs, TimerPcs, DestroyPcs, FreshPcs, KeepAlivePcs
    <2> QED BY <1>1, <1>3, <2>1, <2>2, <2>3, <2>4, <2>6, <2>7, <2>8, StillStep DEF DestroyPcs, KeepAlivePcs
<1> QED BY <1>5, <1>6

LEMMA CheckAgainStep ==
    ASSUME OneWorker, IInv, NEW h \in Threads, NEW t \in Transports, CheckAgain(h, t)
    PROVE  IInv'
<1> DEFINE s == At(IF Usable(t) THEN "shutLock" ELSE "dec", t, thr[h].after)
<1>1. /\ Is(h, "again", t) /\ thr' = [thr EXCEPT ![h] = s]
      /\ tp' = tp /\ table' = table /\ mgrLock' = mgrLock /\ users' = users
    BY DEF CheckAgain, Set
<1>2. /\ thr[h].tp = t /\ thr[h].pc = "again" /\ thr[h].after \in {"idle", "dec", "kaSchedule"}
      /\ Refers(thr[h], t) /\ (Owes(thr[h], t) <=> thr[h].after = "dec") /\ ~Keeps(thr[h], t)
    BY <1>1, HereFacts DEF RefPcs, ShutPcs, GivePcs, DropPcs, TimerPcs, DestroyPcs
<1>3. /\ s \in ThreadState /\ Shaped(s) /\ s.tp = t /\ s.pc \in {"shutLock", "dec"} /\ s.after = thr[h].after
      /\ Refers(s, t) /\ (Owes(s, t) <=> thr[h].after = "dec") /\ ~Keeps(s, t)
    BY <1>2, AtFacts DEF Pcs, RefPcs, ShutPcs, DropPcs, TimerPcs, DestroyPcs
<1> HIDE DEF s
<1>4. tp[t].mem = "live" /\ tp[t] \in Transport
    BY <1>2, WorkFacts, CountFacts DEF KeepAlivePcs
<1>5. Plain(t, tp[t]) /\ Balanced(h, t, tp[t], s, users[t])
    BY <1>2, <1>3, <1>4, Marks, TimedPlain
<1>6. Moves(h, t, tp[t], s, users[t])
    BY <1>1, <1>2, <1>3, <1>4, CountFacts DEF Moves, IInv, Typed
<1>7. Calm(h, t, tp[t], s)
    BY <1>1, <1>2, <1>3 DEF Calm, KeepAlivePcs, DestroyPcs, IInv, Typed
<1>8. Open(t) /\ ~tp[t].is_destroying
    BY <1>2, HolderFacts, UsedFacts
<1> QED BY <1>2, <1>3, <1>5, <1>6, <1>7, <1>8, PlainStep
        DEF WorkerPcs, TimerPcs, DestroyPcs, FreshPcs, KeepAlivePcs, Gives, GivePcs, DropPcs

-------------------------------------------------------------------------------
(* The TCP transport.                                                      *)

LEMMA VerifyInitStep ==
    ASSUME OneWorker, IInv, NEW h \in Threads, NEW t \in Transports, VerifyInit(h, t)
    PROVE  IInv'
<1> DEFINE r == Verified(tp[t], Valid(t))
           s == At("again", t, thr[h].after)
<1>1. Is(h, "verifyInit", t) /\ LockFree(h)
    BY DEF VerifyInit
<1>2. /\ thr[h].tp = t /\ thr[h].pc = "verifyInit" /\ thr[h].after \in {"idle", "dec", "kaSchedule"}
      /\ Refers(thr[h], t) /\ (Owes(thr[h], t) <=> thr[h].after = "dec") /\ ~Keeps(thr[h], t)
    BY <1>1, HereFacts DEF RefPcs, ShutPcs, GivePcs, DropPcs, TimerPcs, DestroyPcs
<1>3. /\ s \in ThreadState /\ Shaped(s) /\ s.tp = t /\ s.pc = "again" /\ s.after = thr[h].after
      /\ Refers(s, t) /\ (Owes(s, t) <=> thr[h].after = "dec") /\ ~Keeps(s, t)
    BY <1>2, AtFacts DEF Pcs, RefPcs, ShutPcs, DropPcs, TimerPcs, DestroyPcs
<1>4. Open(t) /\ ~tp[t].is_destroying /\ tp[t].mem = "live" /\ tp[t] \in Transport
    BY <1>2, HolderFacts, UsedFacts, CountFacts
<1>5. Timed(tp[t], r) /\ (r.id => tp[t].id)
    <2>1. Valid(t) \in BOOLEAN
        BY DEF Valid
    <2>2. Valid(t) => tp[t].grp > 1
        BY ValidFacts, CountFacts
    <2> QED BY <1>4, <2>1, <2>2, VerifiedFacts
<1>6. Moves(h, t, r, s, users[t])
    BY <1>2, <1>3, <1>5, CountFacts DEF VerifyInit, Moves, Change, Set, Timed, IInv, Typed
<1> HIDE DEF s
<1>7. Plain(t, r) /\ Balanced(h, t, r, s, users[t])
    BY <1>2, <1>3, <1>4, <1>5, TimedPlain
<1>8. Calm(h, t, r, s)
    BY <1>2, <1>3, <1>5 DEF VerifyInit, Calm, KeepAlivePcs, DestroyPcs, Timed, IInv, Typed
<1> QED BY <1>2, <1>3, <1>4, <1>6, <1>7, <1>8, PlainStep
        DEF WorkerPcs, TimerPcs, DestroyPcs, FreshPcs, KeepAlivePcs, Gives, GivePcs, DropPcs

LEMMA SendStep ==
    ASSUME OneWorker, IInv, NEW h \in Threads, NEW t \in Transports, Send(h, t)
    PROVE  IInv'
<1> DEFINE r == Referred(tp[t])
           s == At("send", t, "idle")
<1>1. thr[h] = Idle /\ users[t] > 0 /\ users' = users
    BY DEF Send
<1>2. /\ thr[h].tp = None /\ thr[h].pc = "idle"
      /\ ~Refers(thr[h], t) /\ ~Owes(thr[h], t) /\ ~Keeps(thr[h], t)
    BY <1>1, IdleFacts
<1>3. /\ s \in ThreadState /\ Shaped(s) /\ s.tp = t /\ s.pc = "send" /\ s.after = "idle"
      /\ Refers(s, t) /\ ~Owes(s, t) /\ ~Keeps(s, t)
    BY AtFacts DEF Pcs, RefPcs, ShutPcs, DropPcs, TimerPcs, DestroyPcs
<1>4. /\ tp[t] \in Transport /\ tp[t].grp \in Nat /\ tp[t].ref_cnt \in Nat /\ users[t] \in Nat
      /\ tp[t].ref_cnt > 0 /\ users[t] \in 0 .. MaxUsers
    BY <1>1, CountFacts
<1>5. Open(t) /\ ~tp[t].is_destroying /\ tp[t].mem = "live"
    BY <1>4, UsedFacts DEF Open
<1>6. Moves(h, t, r, s, users[t])
    BY <1>1, <1>2, <1>3, <1>4, ReferredFacts DEF Send, Moves, Change, Set, IInv, Typed
<1> HIDE DEF s
<1>7. Balanced(h, t, r, s, users[t])
    BY <1>2, <1>3, <1>4, <1>5, ReferredFacts DEF Balanced, One, Base
<1>8. Plain(t, r)
    BY <1>4, <1>5, ReferredFacts DEF Plain
<1>9. Calm(h, t, r, s)
    BY <1>2, <1>3, <1>4, ReferredFacts DEF Send, Calm, KeepAlivePcs, DestroyPcs, IInv, Typed
<1> QED BY <1>2, <1>3, <1>5, <1>6, <1>7, <1>8, <1>9, PlainStep
        DEF WorkerPcs, TimerPcs, DestroyPcs, FreshPcs, KeepAlivePcs, Gives, GivePcs, DropPcs

\* Sending keeps the reference until the message has been handed over.
LEMMA SendingStep ==
    ASSUME OneWorker, IInv, NEW h \in Threads, NEW t \in Transports, NEW r,
           Is(h, "send", t) \/ Is(h, "queue", t), NEW pc \in {"queue", "dec"},
           tp' = [tp EXCEPT ![t] = r], thr' = [thr EXCEPT ![h] = At(pc, t, "idle")],
           UNCHANGED <<table, mgrLock, users>>, Timed(tp[t], r), r.id = tp[t].id
    PROVE  IInv'
<1> DEFINE s == At(pc, t, "idle")
<1>1. /\ thr[h].tp = t /\ thr[h].pc \in {"send", "queue"} /\ thr[h].after = "idle"
      /\ Refers(thr[h], t) /\ ~Owes(thr[h], t) /\ ~Keeps(thr[h], t)
    BY HereFacts DEF RefPcs, ShutPcs, GivePcs, DropPcs, TimerPcs, DestroyPcs
<1>2. /\ s \in ThreadState /\ Shaped(s) /\ s.tp = t /\ s.pc = pc /\ s.after = "idle"
      /\ Refers(s, t) /\ ~Owes(s, t) /\ ~Keeps(s, t)
    BY AtFacts DEF Pcs, RefPcs, ShutPcs, DropPcs, TimerPcs, DestroyPcs
<1>3. Open(t) /\ ~tp[t].is_destroying /\ tp[t].mem = "live" /\ tp[t] \in Transport
    BY <1>1, HolderFacts, UsedFacts, CountFacts
<1>4. Moves(h, t, r, s, users[t])
    BY <1>1, <1>2, CountFacts DEF Moves, Timed, IInv, Typed
<1> HIDE DEF s
<1>5. Plain(t, r) /\ Balanced(h, t, r, s, users[t])
    BY <1>1, <1>2, <1>3, TimedPlain
<1>6. Calm(h, t, r, s)
    BY <1>1, <1>2 DEF Calm, KeepAlivePcs, DestroyPcs, Timed, IInv, Typed
<1> QED BY <1>1, <1>2, <1>3, <1>4, <1>5, <1>6, PlainStep
        DEF WorkerPcs, TimerPcs, DestroyPcs, FreshPcs, KeepAlivePcs, Gives, GivePcs, DropPcs

LEMMA SendLaterStep ==
    ASSUME OneWorker, IInv, NEW h \in Threads, NEW t \in Transports, SendLater(h, t)
    PROVE  IInv'
    BY SendingStep, Marks, CountFacts DEF SendLater, Change, Set

LEMMA QueueStep ==
    ASSUME OneWorker, IInv, NEW h \in Threads, NEW t \in Transports, Queue(h, t)
    PROVE  IInv'
    BY SendingStep, Marks, CountFacts, ZenonT(60) DEF Queue, Change, Set

\* tcp_init_shutdown by a thread that works with an open transport; q is the transport
\* with what the caller did to it before.
LEMMA InitShutdownStep ==
    ASSUME OneWorker, IInv, NEW h \in Threads, NEW t \in Transports, NEW q \in Transport,
           NEW after \in {"idle", "dec", "kaSchedule"}, InitShutdown(h, t, q, after),
           Open(t), ~tp[t].is_destroying, thr[h].tp \in {t, None},
           thr[h].pc \notin DestroyPcs,
           ~Owes(thr[h], t), ~Keeps(thr[h], t), Refers(thr[h], t) <=> after = "dec",
           q.mem = tp[t].mem, q.ref_cnt = tp[t].ref_cnt, q.grp = tp[t].grp,
           q.is_shutdown = tp[t].is_shutdown, q.is_destroying = tp[t].is_destroying,
           q.is_closing = tp[t].is_closing, q.id = tp[t].id, q.armed = tp[t].armed,
           h \in Workers \/ after = "dec"
    PROVE  IInv'
<1>1. /\ tp[t] \in Transport /\ tp[t].grp \in Nat /\ tp[t].ref_cnt \in Nat /\ users[t] \in Nat
      /\ users[t] \in 0 .. MaxUsers /\ tp[t].mem = "live" /\ ~tp[t].is_closing /\ tp[t].grp > 0
      /\ table' = table /\ mgrLock' = mgrLock /\ users' = users /\ Life(t) /\ t # None
    BY CountFacts, TransportMgrAssumption DEF InitShutdown, Open, IInv
<1>3. PICK r, s :
          /\ tp' = [tp EXCEPT ![t] = r] /\ thr' = [thr EXCEPT ![h] = s]
          /\ r \in Transport /\ s \in ThreadState /\ Shaped(s) /\ s.tp \in {t, None}
          /\ s.pc \in {"idle", "dec", "kaSchedule", "verifyInit", "again"} /\ s.after \in {"idle", after}
          /\ s.pc = "kaSchedule" => after = "kaSchedule"
          /\ ~Keeps(s, t)
          /\ r.ref_cnt - q.ref_cnt = One(Refers(s, t)) + One(Owes(s, t)) - One(after = "dec")
          /\ r.grp - q.grp = r.ref_cnt - q.ref_cnt /\ r.grp \in Int /\ r.ref_cnt \in Int /\ r.grp > 0
          /\ r.mem = q.mem /\ r.is_shutdown = q.is_shutdown /\ r.is_destroying = q.is_destroying
          /\ r.is_closing = q.is_closing /\ r.id = q.id /\ r.armed = q.armed
    <2>1. CASE q.is_shutdown \/ q.is_destroying
        <3> DEFINE s == IF after = "idle" THEN Idle ELSE At(after, t, "idle")
        <3>1. tp' = [tp EXCEPT ![t] = q] /\ thr' = [thr EXCEPT ![h] = s]
            BY <2>1 DEF InitShutdown, Change, Set
        <3>2. /\ s \in ThreadState /\ Shaped(s) /\ s.tp \in {t, None} /\ s.pc = after
              /\ s.after = "idle" /\ ~Keeps(s, t) /\ ~Owes(s, t) /\ (Refers(s, t) <=> after = "dec")
            <4>1. CASE after = "idle"
                BY <4>1, IdleFacts
            <4>2. CASE after # "idle"
                BY <4>2, AtFacts
                DEF Pcs, RefPcs, ShutPcs, DropPcs, WorkerPcs, TimerPcs, DestroyPcs, KeepAlivePcs
            <4> QED BY <4>1, <4>2
        <3> HIDE DEF s
        <3>3. 0 = One(Refers(s, t)) + One(Owes(s, t)) - One(after = "dec")
            BY <3>2 DEF One
        <3>4. q.ref_cnt - q.ref_cnt = 0 /\ q.grp - q.grp = 0 /\ q.grp \in Int /\ q.ref_cnt \in Int /\ q.grp > 0
            BY <1>1
        <3> QED BY <3>1, <3>2, <3>3, <3>4
    <2>2. CASE ~(q.is_shutdown \/ q.is_destroying)
        <3> DEFINE r == Referred(q)
                   s == At(IF q.ref_cnt = 0 THEN "verifyInit" ELSE "again", t, after)
        <3>1. tp' = [tp EXCEPT ![t] = r] /\ thr' = [thr EXCEPT ![h] = s]
            BY <2>2 DEF InitShutdown, Change, Set
        <3>2. /\ s \in ThreadState /\ Shaped(s) /\ s.tp = t /\ s.pc \in {"verifyInit", "again"}
              /\ s.after = after /\ ~Keeps(s, t) /\ (Owes(s, t) <=> after = "dec") /\ Refers(s, t)
            BY AtFacts DEF Pcs, RefPcs, ShutPcs, DropPcs, TimerPcs, DestroyPcs
        <3>3. /\ r \in Transport /\ r.ref_cnt = q.ref_cnt + 1 /\ r.grp = q.grp + 1
              /\ r.mem = q.mem /\ r.is_shutdown = q.is_shutdown /\ r.is_destroying = q.is_destroying
              /\ r.is_closing = q.is_closing /\ r.id = q.id /\ r.armed = q.armed
            BY ReferredFacts
        <3> HIDE DEF r, s
        <3>4. 1 = One(Refers(s, t)) + One(Owes(s, t)) - One(after = "dec")
            BY <3>2 DEF One
        <3>5. /\ r.ref_cnt - q.ref_cnt = 1 /\ r.grp - q.grp = 1 /\ r.grp \in Int /\ r.ref_cnt \in Int
              /\ r.grp > 0
            BY <1>1, <3>3
        <3> QED BY <3>1, <3>2, <3>3, <3>4, <3>5, ZenonT(60)
    <2> QED BY <2>1, <2>2
<1>4. Moves(h, t, r, s, users[t])
    BY <1>1, <1>3 DEF Moves, IInv, Typed
<1>5. Balanced(h, t, r, s, users[t])
    <2>1. Base(r) = 3 /\ Base(tp[t]) = 3
        BY <1>1, <1>3 DEF Base
    <2> QED BY <1>1, <1>3, <2>1 DEF Balanced, One
<1>6. \A x : Valid(x)' <=> Valid(x)
    BY <1>1 DEF Valid
<1>7. Listed(h, t)
    BY <1>1, <1>6 DEF Listed, IInv, Typed
<1>8. Respects(h, t, r)
    <2>1. tp'[t] = r
        BY <1>3 DEF IInv, Typed
    <2> QED BY <1>1, <1>3, <1>6, <2>1 DEF Respects, Usable
<1>9. tp'[t] = r /\ thr'[h] = s /\ \A g \in Threads \ {h} : thr'[g] = thr[g]
    BY <1>3 DEF IInv, Typed
<1>10. Life(t)'
    <2>1. WorkerAt({"close"}, t) => WorkerAt({"close"}, t)'
        BY <1>9 DEF WorkerAt, Threads, DestroyPcs
    <2> QED BY <1>1, <1>3, <1>6, <1>9, <2>1 DEF Life, Open
<1>11. Locks(h)'
    BY <1>3, <1>9 DEF Locks, InAll, Gives
<1>12. Works(h)'
    <2>1. Open(t)' /\ ~r.is_destroying /\ r.mem # "none"
        BY <1>1, <1>3, <1>9 DEF Open
    <2>2. s.pc \in WorkerPcs \/ s.after \in {"return", "kaSchedule"} => h \in Workers
        BY <1>3 DEF WorkerPcs, TimerPcs, DestroyPcs, FreshPcs, KeepAlivePcs, Gives, GivePcs, DropPcs
    <2>3. /\ s.pc \notin TimerPcs /\ s.pc \notin DestroyPcs /\ s.pc \notin FreshPcs
          /\ s.pc \in KeepAlivePcs => s.pc = "kaSchedule"
        BY <1>3 DEF TimerPcs, DestroyPcs, FreshPcs, KeepAlivePcs
    <2> QED BY <1>3, <1>9, <2>1, <2>2, <2>3 DEF Works, InAll, DestroyPcs
<1> QED BY <1>4, <1>5, <1>7, <1>8, <1>10, <1>11, <1>12, StepKeeps

LEMMA SendNowStep ==
    ASSUME OneWorker, IInv, NEW h \in Threads, NEW t \in Transports, SendNow(h, t)
    PROVE  IInv'
<1>1. Is(h, "send", t)
    BY DEF SendNow
<1>2. /\ thr[h].tp = t /\ thr[h].pc = "send"
      /\ Refers(thr[h], t) /\ ~Owes(thr[h], t) /\ ~Keeps(thr[h], t)
    BY <1>1, HereFacts DEF RefPcs, ShutPcs, GivePcs, DropPcs, TimerPcs, DestroyPcs
<1>3. Open(t) /\ ~tp[t].is_destroying /\ tp[t] \in Transport /\ Life(t)
    BY <1>2, HolderFacts, UsedFacts, CountFacts DEF IInv
<1>4. CASE Set(h, At("dec", t, "idle")) /\ UNCHANGED <<tp, table, mgrLock, users>>
    <2>1. tp' = [tp EXCEPT ![t] = tp[t]]
        BY <1>4 DEF IInv, Typed
    <2> QED BY <1>1, <1>3, <1>4, <2>1, SendingStep, Marks DEF Set
<1>5. CASE ~tp[t].has_pending_connect /\ InitShutdown(h, t, tp[t], "dec")
    BY <1>2, <1>3, <1>5, InitShutdownStep DEF DestroyPcs
<1> QED BY <1>4, <1>5 DEF SendNow

LEMMA PeerClosesStep ==
    ASSUME OneWorker, IInv, NEW h \in Threads, NEW t \in Transports, PeerCloses(h, t)
    PROVE  IInv'
<1>1. /\ h \in Workers /\ thr[h] = Idle /\ Open(t) /\ ~tp[t].has_pending_connect
      /\ InitShutdown(h, t, tp[t], "idle")
    BY DEF PeerCloses
<1>2. /\ thr[h].tp = None /\ thr[h].pc = "idle"
      /\ ~Refers(thr[h], t) /\ ~Owes(thr[h], t) /\ ~Keeps(thr[h], t)
    BY <1>1, IdleFacts
<1>3. ~tp[t].is_destroying /\ tp[t] \in Transport
    BY <1>1, <1>2, OpenFacts, CountFacts DEF DestroyPcs
<1> QED BY <1>1, <1>2, <1>3, InitShutdownStep DEF DestroyPcs

LEMMA ReceiveStep ==
    ASSUME OneWorker, IInv, NEW h \in Threads, NEW t \in Transports, Receive(h, t)
    PROVE  IInv'
<1> DEFINE r == Referred(tp[t])
           s == IF tp[t].ref_cnt = 0 THEN At("verify", t, "idle") ELSE Idle
<1>1. h \in Workers /\ thr[h] = Idle /\ Open(t) /\ users[t] < MaxUsers
    BY DEF Receive
<1>2. /\ thr[h].tp = None /\ thr[h].pc = "idle" /\ h \notin Apps
      /\ ~Refers(thr[h], t) /\ ~Owes(thr[h], t) /\ ~Keeps(thr[h], t)
    BY <1>1, IdleFacts, TransportMgrAssumption
<1>3. ~tp[t].is_destroying /\ tp[t].mem = "live" /\ tp[t] \in Transport
    BY <1>1, <1>2, OpenFacts, CountFacts DEF DestroyPcs
<1>4. /\ s \in {Idle, At("verify", t, "idle")} /\ s \in ThreadState /\ Shaped(s)
      /\ s.tp \in {t, None} /\ s.pc \in {"idle", "verify"}
    BY IdleFacts, AtFacts DEF Pcs
<1>5. users[t] + 1 \in 0 .. MaxUsers
    BY <1>1, CountFacts, TransportMgrAssumption
<1>6. Moves(h, t, r, s, users[t] + 1)
    BY <1>2, <1>3, <1>4, <1>5, ReferredFacts DEF Receive, Moves, Change, Set
<1> HIDE DEF s
<1>7. Balanced(h, t, r, s, users[t] + 1)
    BY <1>1, <1>3, <1>4, UserBalance
<1>8. Plain(t, r)
    BY <1>3, ReferredFacts DEF Plain
<1>9. Calm(h, t, r, s)
    BY <1>2, <1>3, <1>4, ReferredFacts DEF Receive, Calm, KeepAlivePcs, DestroyPcs, IInv, Typed
<1>10. Locks(h)' /\ Works(h)'
    <2>1. CASE s = Idle
        BY <2>1, <1>6, <1>8, <1>9, PlainThread, IdleFacts
        DEF WorkerPcs, TimerPcs, DestroyPcs, FreshPcs, KeepAlivePcs, Gives, GivePcs, DropPcs
    <2>2. CASE s = At("verify", t, "idle")
        BY <2>2, <1>1, <1>2, <1>3, <1>6, <1>8, <1>9, VerifyThread
    <2> QED BY <1>4, <2>1, <2>2
<1> QED BY <1>6, <1>7, <1>8, <1>9, <1>10, PlainKeeps

\* A list with a new entry at its end.
LEMMA AppendFacts ==
    ASSUME NEW S, NEW q \in Seq(S), NEW x \in S, \A i \in DOMAIN q : q[i] # x,
           \A j, k \in DOMAIN q : q[j] = q[k] => j = k
    PROVE  LET p == Append(q, x) IN
           /\ p \in Seq(S)
           /\ \A j, k \in DOMAIN p : p[j] = p[k] => j = k
           /\ \A y : (\E j \in DOMAIN p : p[j] = y) <=> y = x \/ \E j \in DOMAIN q : q[j] = y
<1> DEFINE p == Append(q, x)
<1>1. DOMAIN q = 1 .. Len(q) /\ Len(q) \in Nat
    BY LenProperties
<1>2. /\ p \in Seq(S) /\ Len(p) = Len(q) + 1 /\ p[Len(q) + 1] = x
      /\ \A i \in 1 .. Len(q) : p[i] = q[i]
    BY <1>1, AppendProperties
<1>3. DOMAIN p = 1 .. Len(q) + 1
    BY <1>2, LenProperties
<1> HIDE DEF p
<1>4. \A j, k \in DOMAIN p : p[j] = p[k] => j = k
    <2> SUFFICES ASSUME NEW j \in 1 .. Len(q) + 1, NEW k \in 1 .. Len(q) + 1, p[j] = p[k] PROVE j = k
        BY <1>3
    <2>1. CASE j \in 1 .. Len(q) /\ k \in 1 .. Len(q)
        BY <1>1, <1>2, <2>1
    <2>2. CASE j = Len(q) + 1 \/ k = Len(q) + 1
        BY <1>1, <1>2, <2>2
    <2> QED BY <1>1, <2>1, <2>2
<1>5. ASSUME NEW y PROVE (\E j \in DOMAIN p : p[j] = y) <=> y = x \/ \E j \in DOMAIN q : q[j] = y
    <2>1. ASSUME NEW j \in DOMAIN p, p[j] = y PROVE y = x \/ \E k \in DOMAIN q : q[k] = y
        BY <1>1, <1>2, <1>3, <2>1
    <2>2. ASSUME NEW j \in DOMAIN q, q[j] = y PROVE \E k \in DOMAIN p : p[k] = y
        <3>1. j \in DOMAIN p /\ p[j] = y
            BY <1>1, <1>2, <1>3, <2>2
        <3> QED BY <3>1
    <2>3. Len(q) + 1 \in DOMAIN p /\ p[Len(q) + 1] = x
        BY <1>1, <1>2, <1>3
    <2> QED BY <2>1, <2>2, <2>3
<1> QED BY <1>2, <1>4, <1>5 DEF p

\* The fields of a new transport.
LEMMA NewRecord ==
    ASSUME NEW q \in Transport, NEW b \in BOOLEAN, 3 \in Int
    PROVE  LET r == [q EXCEPT !.mem = "live", !.grp = 3, !.has_pending_connect = b] IN
           r \in Transport /\ r.has_pending_connect = b
<1>1. CASE b = TRUE
    BY <1>1 DEF Transport
<1>2. CASE b = FALSE
    BY <1>2 DEF Transport
<1> QED BY <1>1, <1>2

LEMMA CreatedFacts ==
    ASSUME NEW b \in BOOLEAN
    PROVE  /\ Created(b) \in Transport /\ Created(b).mem = "live" /\ Created(b).ref_cnt = 0
           /\ Created(b).grp = 3 /\ ~Created(b).is_destroying /\ ~Created(b).is_closing
           /\ ~Created(b).id /\ ~Created(b).armed /\ ~Created(b).kaId /\ ~Created(b).kaArmed
           /\ Created(b).has_pending_connect = b
<1>1. Unborn \in Transport /\ 3 \in Int
    BY DEF Unborn, Transport
<1>2. Created(b) \in Transport /\ Created(b).has_pending_connect = b
    BY <1>1, NewRecord DEF Created
<1>3. /\ Created(b).mem = "live" /\ Created(b).ref_cnt = 0
           /\ Created(b).grp = 3 /\ ~Created(b).is_destroying /\ ~Created(b).is_closing
           /\ ~Created(b).id /\ ~Created(b).armed /\ ~Created(b).kaId /\ ~Created(b).kaArmed
    BY DEF Created, Unborn
<1> QED BY <1>2, <1>3

LEMMA Freed ==
    ASSUME NEW q \in Transport
    PROVE  [q EXCEPT !.mem = "freed"] \in Transport
    BY DEF Transport

LEMMA KeptAlive ==
    ASSUME NEW q \in Transport, NEW c \in BOOLEAN
    PROVE  LET r == [q EXCEPT !.kaId = c, !.kaArmed = c] IN
           /\ r \in Transport /\ r.kaId = c /\ r.kaArmed = c
           /\ r.mem = q.mem /\ r.ref_cnt = q.ref_cnt /\ r.grp = q.grp
           /\ r.is_destroying = q.is_destroying
           /\ r.is_closing = q.is_closing /\ r.id = q.id /\ r.armed = q.armed
           /\ r.has_pending_connect = q.has_pending_connect
<1>1. CASE c = TRUE
    BY <1>1 DEF Transport
<1>2. CASE c = FALSE
    BY <1>2 DEF Transport
<1> QED BY <1>1, <1>2

LEMMA ConnectedFacts ==
    ASSUME NEW b \in BOOLEAN, NEW c \in BOOLEAN
    PROVE  LET r == [Referred(Created(b)) EXCEPT !.kaId = c, !.kaArmed = c] IN
           /\ r \in Transport /\ r.mem = "live" /\ r.ref_cnt = 1 /\ r.grp = 4 /\ ~r.is_destroying
           /\ ~r.is_closing /\ ~r.id /\ ~r.armed
           /\ r.kaId = c /\ r.kaArmed = c /\ r.has_pending_connect = b
<1> DEFINE p == Created(b)
           q == Referred(p)
<1>1. /\ p \in Transport /\ p.mem = "live" /\ p.ref_cnt = 0 /\ p.grp = 3 /\ ~p.is_destroying
      /\ ~p.is_closing /\ ~p.id /\ ~p.armed /\ p.has_pending_connect = b
    BY CreatedFacts
<1> HIDE DEF p
<1>2. /\ q \in Transport /\ q.mem = "live" /\ q.ref_cnt = 1 /\ q.grp = 4 /\ ~q.is_destroying
      /\ ~q.is_closing /\ ~q.id /\ ~q.armed /\ q.has_pending_connect = b
    BY <1>1, ReferredFacts
<1> HIDE DEF q
<1> DEFINE r == [q EXCEPT !.kaId = c, !.kaArmed = c]
<1>3. /\ r \in Transport /\ r.kaId = c /\ r.kaArmed = c
      /\ r.mem = q.mem /\ r.ref_cnt = q.ref_cnt /\ r.grp = q.grp
      /\ r.is_destroying = q.is_destroying
      /\ r.is_closing = q.is_closing /\ r.id = q.id /\ r.armed = q.armed
      /\ r.has_pending_connect = q.has_pending_connect
    BY <1>2, KeptAlive, ZenonT(60)
<1> HIDE DEF r
<1>4. /\ r \in Transport /\ r.mem = "live" /\ r.ref_cnt = 1 /\ r.grp = 4 /\ ~r.is_destroying
      /\ ~r.is_closing /\ ~r.id /\ ~r.armed
      /\ r.kaId = c /\ r.kaArmed = c /\ r.has_pending_connect = b
    BY <1>2, <1>3
<1> QED BY <1>4, Zenon DEF p, q, r

\* A transport that does not exist yet is nobody's.
LEMMA UnbornFacts ==
    ASSUME IInv, NEW t \in Transports, tp[t].mem = "none"
    PROVE  tp[t] = Unborn /\ users[t] = 0 /\ ~Valid(t) /\ \A g \in Threads : thr[g].tp # t
<1>1. tp[t] = Unborn /\ ~Valid(t)
    BY DEF IInv, Life
<1>2. users[t] = 0
    BY <1>1, CountFacts DEF Unborn
<1>3. \A g \in Threads : thr[g].tp # t
    BY WorkFacts, TransportMgrAssumption DEF IInv, Works, WorkerPcs
<1> QED BY <1>1, <1>2, <1>3

LEMMA NewTransport ==
    ASSUME OneWorker, IInv, NEW h \in Threads, NEW t \in Transports, NEW r, NEW s, NEW u,
           thr[h] = Idle, mgrLock = None, mgrLock' = None, tp[t].mem = "none",
           Moves(h, t, r, s, u), Balanced(h, t, r, s, u), table' = Append(table, t),
           r.mem = "live", ~r.is_destroying, ~r.is_closing, ~r.id, ~r.armed,
           Locks(h)', Works(h)'
    PROVE  IInv'
<1>1. tp[t] = Unborn /\ users[t] = 0 /\ ~Valid(t) /\ t # None /\ \A g \in Threads : thr[g].tp # t
    BY UnbornFacts, TransportMgrAssumption
<1>4. /\ table' \in Seq(Transports) /\ \A j, k \in DOMAIN table' : table'[j] = table'[k] => j = k
      /\ \A y : Valid(y)' <=> y = t \/ Valid(y)
    <2>1. /\ table \in Seq(Transports) /\ \A j, k \in DOMAIN table : table[j] = table[k] => j = k
          /\ \A i \in DOMAIN table : table[i] # t
        BY <1>1 DEF IInv, Typed, Valid
    <2>2. LET p == Append(table, t) IN
          /\ p \in Seq(Transports)
          /\ \A j, k \in DOMAIN p : p[j] = p[k] => j = k
          /\ \A y : (\E j \in DOMAIN p : p[j] = y) <=> y = t \/ \E j \in DOMAIN table : table[j] = y
        BY <2>1, AppendFacts, ZenonT(60)
    <2> QED BY <2>2, ZenonT(60) DEF Valid
<1>5. Listed(h, t)
    BY <1>4 DEF Listed
<1>6. Respects(h, t, r)
    BY <1>1 DEF Respects, Is, Threads
<1>7. tp'[t] = r /\ thr'[h] = s /\ Open(t)' /\ Valid(t)'
    BY <1>4 DEF Moves, IInv, Typed, Open
<1>8. Life(t)'
    BY <1>7 DEF Life, Open
<1> QED BY <1>5, <1>6, <1>8, StepKeeps

LEMMA AcquireNewStep ==
    ASSUME OneWorker, IInv, NEW h \in Threads, AcquireNew(h)
    PROVE  IInv'
<1>1. PICK t \in Transports, connect \in {"now", "later", "failed"} :
        /\ thr[h] = Idle /\ mgrLock = None /\ tp[t].mem = "none"
        /\ IF connect = "failed"
           THEN Change(t, [Unborn EXCEPT !.mem = "freed"]) /\ UNCHANGED <<table, users>>
           ELSE /\ Change(t, [Referred(Created(connect = "later")) EXCEPT
                                 !.kaId = (connect = "now"), !.kaArmed = (connect = "now")])
                /\ table' = Append(table, t)
                /\ users' = [users EXCEPT ![t] = 1]
        /\ UNCHANGED <<mgrLock, thr>>
    BY DEF AcquireNew
<1>2. /\ tp[t] = Unborn /\ users[t] = 0 /\ ~Valid(t) /\ t # None /\ (\A g \in Threads : thr[g].tp # t)
      /\ thr' = [thr EXCEPT ![h] = Idle] /\ thr[h].tp = None
    BY <1>1, UnbornFacts, IdleFacts, TransportMgrAssumption DEF IInv, Typed
<1>3. CASE connect # "failed"
    <2> DEFINE b == (connect = "later")
               c == (connect = "now")
               r == [Referred(Created(b)) EXCEPT !.kaId = c, !.kaArmed = c]
    <2>1. /\ r \in Transport /\ r.mem = "live" /\ r.ref_cnt = 1 /\ r.grp = 4 /\ ~r.is_destroying
          /\ ~r.is_closing /\ ~r.id /\ ~r.armed
          /\ r.kaId = c /\ r.kaArmed = c /\ r.has_pending_connect = b
        <3>1. b \in BOOLEAN /\ c \in BOOLEAN
            OBVIOUS
        <3> QED BY <3>1, ConnectedFacts, ZenonT(60)
    <2>3. tp' = [tp EXCEPT ![t] = r] /\ table' = Append(table, t) /\ users' = [users EXCEPT ![t] = 1]
        BY <1>1, <1>3 DEF Change
    <2> HIDE DEF r
    <2>4. 1 \in 0 .. MaxUsers
        BY TransportMgrAssumption
    <2>5. Idle \in ThreadState /\ Shaped(Idle) /\ Idle.tp = None
        BY IdleFacts
    <2>6. Moves(h, t, r, Idle, 1)
        BY <1>2, <2>1, <2>3, <2>4, <2>5 DEF Moves
    <2>7. Balanced(h, t, r, Idle, 1)
        <3>1. Base(r) = 3 /\ Base(tp[t]) = 0 /\ tp[t].grp = 0 /\ tp[t].ref_cnt = 0 /\ ~tp[t].armed
            BY <1>2, <2>1 DEF Base, Unborn
        <3> QED BY <1>1, <1>2, <2>1, <3>1, IdleFacts DEF Balanced, One
    <2>8. thr[h] = Idle /\ mgrLock = None /\ mgrLock' = None /\ tp[t].mem = "none"
        BY <1>1
    <2> HIDE DEF b, c
    <2>9. thr'[h] = Idle
        BY <1>2 DEF IInv, Typed
    <2>10. Locks(h)' /\ Works(h)'
        BY <2>9, IdleFacts
        DEF Locks, Works, InAll, WorkerPcs, TimerPcs, DestroyPcs, FreshPcs, KeepAlivePcs, Gives, GivePcs, DropPcs
    <2> QED BY <2>1, <2>3, <2>6, <2>7, <2>8, <2>10, NewTransport
<1>4. CASE connect = "failed"
    <2> DEFINE r == [Unborn EXCEPT !.mem = "freed"]
    <2>1. /\ r \in Transport /\ r.mem = "freed" /\ r.ref_cnt = 0 /\ r.grp = 0 /\ ~r.is_destroying
          /\ ~r.is_closing /\ ~r.id /\ ~r.armed /\ ~r.kaId /\ ~r.kaArmed /\ ~r.has_pending_connect
        <3>1. Unborn \in Transport
            BY DEF Unborn, Transport
        <3>2. r \in Transport
            BY <3>1, Freed
        <3>3. /\ r.mem = "freed" /\ r.ref_cnt = 0 /\ r.grp = 0 /\ ~r.is_destroying
              /\ ~r.is_closing /\ ~r.id /\ ~r.armed /\ ~r.kaId /\ ~r.kaArmed /\ ~r.has_pending_connect
            BY DEF Unborn
        <3> QED BY <3>2, <3>3
    <2>2. tp' = [tp EXCEPT ![t] = r] /\ table' = table /\ users' = users /\ mgrLock' = None
        BY <1>1, <1>4 DEF Change
    <2> HIDE DEF r
    <2>a. Idle \in ThreadState /\ Shaped(Idle) /\ Idle.tp = None /\ 0 \in 0 .. MaxUsers
        BY IdleFacts, TransportMgrAssumption
    <2>b. users' = [users EXCEPT ![t] = 0]
        BY <1>2, <2>2 DEF IInv, Typed
    <2>3. Moves(h, t, r, Idle, 0)
        BY <1>2, <2>1, <2>2, <2>a, <2>b DEF Moves
    <2>4. Balanced(h, t, r, Idle, 0)
        <3>1. Base(r) = 0 /\ Base(tp[t]) = 0 /\ tp[t].grp = 0 /\ tp[t].ref_cnt = 0 /\ ~tp[t].armed
            BY <1>2, <2>1 DEF Base, Unborn
        <3> QED BY <1>1, <1>2, <2>1, <3>1, IdleFacts DEF Balanced, One
    <2>5. Listed(h, t)
        BY <1>1, <2>2 DEF Listed, Valid, IInv, Typed
    <2>6. Respects(h, t, r)
        BY <1>1, <1>2 DEF Respects, Threads
    <2>7. tp'[t] = r /\ thr'[h] = Idle /\ ~Valid(t)'
        BY <1>2, <2>2 DEF IInv, Typed, Valid
    <2>8. Life(t)'
        BY <2>1, <2>7 DEF Life, Open
    <2>9. Locks(h)' /\ Works(h)'
        BY <2>7, IdleFacts
        DEF Locks, Works, InAll, WorkerPcs, TimerPcs, DestroyPcs, FreshPcs, KeepAlivePcs, Gives, GivePcs, DropPcs
    <2> QED BY <2>3, <2>4, <2>5, <2>6, <2>8, <2>9, StepKeeps
<1> QED BY <1>3, <1>4

LEMMA AcceptStep ==
    ASSUME OneWorker, IInv, NEW h \in Threads, Accept(h)
    PROVE  IInv'
<1>1. PICK t \in Transports :
        /\ h \in Workers /\ thr[h] = Idle /\ mgrLock = None /\ tp[t].mem = "none"
        /\ Change(t, Created(FALSE)) /\ table' = Append(table, t)
        /\ Set(h, At("accepted", t, "idle"))
        /\ UNCHANGED <<mgrLock, users>>
    BY DEF Accept
<1> DEFINE r == Created(FALSE)
           s == At("accepted", t, "idle")
<1>2. users[t] = 0 /\ thr[h].tp = None /\ 0 \in 0 .. MaxUsers
    BY <1>1, UnbornFacts, IdleFacts, TransportMgrAssumption
<1>3. /\ r \in Transport /\ r.mem = "live" /\ r.ref_cnt = 0 /\ r.grp = 3 /\ ~r.is_destroying
      /\ ~r.is_closing /\ ~r.id /\ ~r.armed /\ ~r.kaId /\ ~r.kaArmed /\ ~r.has_pending_connect
    BY CreatedFacts
<1>4. s \in ThreadState /\ Shaped(s) /\ s.tp = t
    BY AtFacts DEF Pcs, WorkerPcs, FreshPcs
<1> HIDE DEF r
<1>6. users' = [users EXCEPT ![t] = 0]
    BY <1>1, <1>2, <1>3 DEF IInv, Typed
<1>7. tp' = [tp EXCEPT ![t] = r] /\ thr' = [thr EXCEPT ![h] = s]
    BY <1>1 DEF Change, Set, r
<1> HIDE DEF s
<1>5. Moves(h, t, r, s, 0)
    BY <1>2, <1>3, <1>4, <1>6, <1>7 DEF Moves
<1>8. Balanced(h, t, r, s, 0)
    <2>1. tp[t] = Unborn /\ ~Refers(s, t) /\ ~Owes(s, t) /\ ~Keeps(s, t)
        BY <1>1, UnbornFacts, AtFacts
        DEF s, Pcs, WorkerPcs, FreshPcs, RefPcs, ShutPcs, DropPcs, TimerPcs, DestroyPcs
    <2>2. Base(r) = 3 /\ Base(tp[t]) = 0 /\ tp[t].grp = 0 /\ tp[t].ref_cnt = 0 /\ ~tp[t].armed
        BY <1>3, <2>1 DEF Base, Unborn
    <2> QED BY <1>1, <1>2, <1>3, <2>1, <2>2, IdleFacts DEF Balanced, One
<1>9. s.pc = "accepted" /\ s.after = "idle"
    BY DEF s, At
<1>10. tp'[t] = r /\ thr'[h] = s
    BY <1>5 DEF Moves, IInv, Typed
<1>11. Locks(h)'
    BY <1>4, <1>9, <1>10 DEF Locks, InAll, Gives
<1>12. Works(h)'
    BY <1>1, <1>3, <1>4, <1>9, <1>10
    DEF Works, InAll, Open, TimerPcs, DestroyPcs, FreshPcs, KeepAlivePcs
<1> QED BY <1>1, <1>3, <1>5, <1>8, <1>11, <1>12, NewTransport

-------------------------------------------------------------------------------
(* The callbacks of the socket and of the keep-alive timer.                *)

\* A worker goes on in a callback or returns from it, and holds no reference.
LEMMA CallbackStep ==
    ASSUME OneWorker, IInv, NEW h \in Workers, NEW t \in Transports, NEW r \in Transport,
           NEW pc \in {"flush", "kaSchedule", "kaMark", "ka"}, NEW s \in {Idle, At(pc, t, "idle")},
           tp' = [tp EXCEPT ![t] = r], thr' = [thr EXCEPT ![h] = s], UNCHANGED <<table, mgrLock, users>>,
           tp[t].mem = "live", s.pc = "flush" => Open(t) /\ ~tp[t].is_destroying,
           thr[h].tp \in {t, None}, thr[h].pc \notin DestroyPcs,
           ~Refers(thr[h], t), ~Owes(thr[h], t), ~Keeps(thr[h], t),
           r.mem = tp[t].mem, r.ref_cnt = tp[t].ref_cnt, r.grp = tp[t].grp,
           r.is_shutdown = tp[t].is_shutdown, r.is_destroying = tp[t].is_destroying,
           r.is_closing = tp[t].is_closing, r.id = tp[t].id, r.armed = tp[t].armed
    PROVE  IInv'
<1>1. /\ tp[t] \in Transport /\ tp[t].grp \in Nat /\ tp[t].ref_cnt \in Nat /\ users[t] \in Nat
      /\ users[t] \in 0 .. MaxUsers /\ tp[t].grp > 0
      /\ table' = table /\ mgrLock' = mgrLock /\ users' = users /\ Life(t) /\ t # None /\ h \in Threads
    BY CountFacts, TransportMgrAssumption DEF IInv, Threads
<1>2. /\ s \in ThreadState /\ Shaped(s) /\ s.tp \in {t, None} /\ s.pc \in {"idle", pc} /\ s.after = "idle"
      /\ ~Refers(s, t) /\ ~Owes(s, t) /\ ~Keeps(s, t) /\ (s.pc = "idle" => s.tp = None)
      /\ (s.pc # "idle" => s.tp = t)
    <2>1. CASE s = Idle
        BY <2>1, IdleFacts
    <2>2. CASE s = At(pc, t, "idle")
        BY <2>2, AtFacts
        DEF Pcs, RefPcs, ShutPcs, DropPcs, WorkerPcs, TimerPcs, DestroyPcs, FreshPcs, KeepAlivePcs
    <2> QED BY <2>1, <2>2
<1>3. Moves(h, t, r, s, users[t])
    BY <1>1, <1>2 DEF Moves, IInv, Typed
<1>4. Balanced(h, t, r, s, users[t])
    <2>1. Base(r) = Base(tp[t]) /\ Base(r) \in Int
        BY DEF Base
    <2> QED BY <1>1, <1>2, <2>1 DEF Balanced, One
<1>5. Plain(t, r)
    BY <1>1 DEF Plain, Life
<1>6. Calm(h, t, r, s)
    BY <1>1 DEF Calm, DestroyPcs, IInv, Typed
<1>7. tp'[t] = r /\ thr'[h] = s
    BY <1>1 DEF IInv, Typed
<1>8. Locks(h)'
    BY <1>2, <1>7 DEF Locks, InAll, Gives
<1>9. Works(h)'
    <2>1. s.pc = "flush" => Open(t)' /\ ~r.is_destroying
        BY <1>7 DEF Open
    <2>2. /\ s.pc \notin TimerPcs /\ s.pc \notin DestroyPcs
          /\ s.pc \in {"idle", "flush"} \/ s.pc \in KeepAlivePcs
        BY <1>2 DEF TimerPcs, DestroyPcs, KeepAlivePcs
    <2> QED BY <1>2, <1>7, <2>1, <2>2 DEF Works, InAll, DestroyPcs
<1> QED BY <1>1, <1>3, <1>4, <1>5, <1>6, <1>8, <1>9, PlainKeeps

\* A worker in a callback of the socket or of the keep-alive timer.
LEMMA CallbackFacts ==
    ASSUME OneWorker, IInv, NEW h \in Threads, NEW t \in Transports,
           NEW pc \in FreshPcs \cup KeepAlivePcs, Is(h, pc, t)
    PROVE  /\ h \in Workers /\ tp[t].mem = "live" /\ thr[h].tp = t /\ thr[h].pc = pc
           /\ thr[h].pc \notin DestroyPcs
           /\ ~Refers(thr[h], t) /\ ~Owes(thr[h], t) /\ ~Keeps(thr[h], t)
           /\ pc \in FreshPcs => Open(t) /\ ~tp[t].is_destroying
           /\ tp[t] \in Transport
<1>1. /\ thr[h].tp = t /\ thr[h].pc = pc /\ thr[h].after = "idle" /\ tp[t].mem = "live"
      /\ ~Refers(thr[h], t) /\ ~Owes(thr[h], t) /\ ~Keeps(thr[h], t)
    BY HereFacts DEF RefPcs, ShutPcs, GivePcs, DropPcs, TimerPcs, DestroyPcs, FreshPcs, KeepAlivePcs
<1>2. Works(h) /\ t # None /\ tp[t] \in Transport
    BY CountFacts, TransportMgrAssumption DEF IInv
<1>3. h \in Workers /\ pc \notin TimerPcs /\ pc \notin DestroyPcs
    BY <1>1, <1>2 DEF Works, WorkerPcs, TimerPcs, DestroyPcs, FreshPcs, KeepAlivePcs
<1>4. pc \in FreshPcs => Open(t) /\ ~tp[t].is_destroying
    BY <1>1, <1>2, <1>3 DEF Works, FreshPcs, KeepAlivePcs
<1> QED BY <1>1, <1>2, <1>3, <1>4

\* A field of the connection or of the keep-alive timer is set.
LEMMA CallbackMarks ==
    ASSUME NEW q \in Transport, NEW r,
           r \in {[q EXCEPT !.has_pending_connect = FALSE],
                  [q EXCEPT !.has_pending_connect = FALSE, !.delayed = FALSE],
                  [q EXCEPT !.delayed = FALSE], [q EXCEPT !.kaArmed = TRUE],
                  [q EXCEPT !.kaArmed = FALSE], [q EXCEPT !.kaId = TRUE]}
    PROVE  /\ r \in Transport
           /\ r.mem = q.mem /\ r.ref_cnt = q.ref_cnt /\ r.grp = q.grp
           /\ r.is_shutdown = q.is_shutdown /\ r.is_destroying = q.is_destroying
           /\ r.is_closing = q.is_closing /\ r.id = q.id /\ r.armed = q.armed
    BY ZenonT(60) DEF Transport

LEMMA AcceptedStep ==
    ASSUME OneWorker, IInv, NEW h \in Threads, NEW t \in Transports, Accepted(h, t)
    PROVE  IInv'
<1> DEFINE s == IF Usable(t) THEN At("kaSchedule", t, "idle") ELSE Idle
<1>1. /\ Is(h, "accepted", t) /\ thr' = [thr EXCEPT ![h] = s]
      /\ tp' = tp /\ UNCHANGED <<table, mgrLock, users>>
    BY DEF Accepted, Set
<1>2. /\ h \in Workers /\ tp[t].mem = "live" /\ thr[h].tp = t /\ thr[h].pc \notin DestroyPcs
      /\ ~Refers(thr[h], t) /\ ~Owes(thr[h], t) /\ ~Keeps(thr[h], t) /\ tp[t] \in Transport
    BY <1>1, CallbackFacts DEF FreshPcs
<1>3. tp' = [tp EXCEPT ![t] = tp[t]]
    BY <1>1 DEF IInv, Typed
<1>4. s \in {Idle, At("kaSchedule", t, "idle")} /\ s.pc \in {"idle", "kaSchedule"}
    BY DEF Idle, At
<1> HIDE DEF s
<1> QED BY <1>1, <1>2, <1>3, <1>4, CallbackStep

LEMMA ConnectDoneStep ==
    ASSUME OneWorker, IInv, NEW h \in Threads, NEW t \in Transports, ConnectDone(h, t)
    PROVE  IInv'
<1>1. h \in Workers /\ thr[h] = Idle /\ Open(t) /\ tp[t].has_pending_connect
    BY DEF ConnectDone
<1>2. /\ thr[h].tp = None /\ thr[h].pc = "idle" /\ thr[h].pc \notin DestroyPcs
      /\ ~Refers(thr[h], t) /\ ~Owes(thr[h], t) /\ ~Keeps(thr[h], t)
    BY <1>1, IdleFacts DEF DestroyPcs
<1>3. ~tp[t].is_destroying /\ tp[t] \in Transport /\ tp[t].mem = "live"
    BY <1>1, <1>2, OpenFacts, CountFacts
<1>4. CASE /\ Change(t, [tp[t] EXCEPT !.has_pending_connect = FALSE])
           /\ Set(h, At("flush", t, "idle"))
           /\ UNCHANGED <<table, mgrLock, users>>
    <2> DEFINE r == [tp[t] EXCEPT !.has_pending_connect = FALSE]
               s == At("flush", t, "idle")
    <2>2. /\ r \in Transport
          /\ r.mem = tp[t].mem /\ r.ref_cnt = tp[t].ref_cnt /\ r.grp = tp[t].grp
          /\ r.is_shutdown = tp[t].is_shutdown /\ r.is_destroying = tp[t].is_destroying
          /\ r.is_closing = tp[t].is_closing /\ r.id = tp[t].id /\ r.armed = tp[t].armed
        BY <1>3, CallbackMarks
    <2>3. tp' = [tp EXCEPT ![t] = r] /\ thr' = [thr EXCEPT ![h] = s] /\ s.pc = "flush"
        BY <1>4 DEF Change, Set, At
    <2> HIDE DEF r, s
    <2>5. s \in {Idle, At("flush", t, "idle")}
        BY DEF s
    <2> QED BY <1>1, <1>2, <1>3, <1>4, <2>2, <2>3, <2>5, CallbackStep
<1>5. CASE InitShutdown(h, t, [tp[t] EXCEPT !.has_pending_connect = FALSE, !.delayed = FALSE], "idle")
    <2> DEFINE q == [tp[t] EXCEPT !.has_pending_connect = FALSE, !.delayed = FALSE]
    <2>2. /\ q \in Transport
          /\ q.mem = tp[t].mem /\ q.ref_cnt = tp[t].ref_cnt /\ q.grp = tp[t].grp
          /\ q.is_shutdown = tp[t].is_shutdown /\ q.is_destroying = tp[t].is_destroying
          /\ q.is_closing = tp[t].is_closing /\ q.id = tp[t].id /\ q.armed = tp[t].armed
        BY <1>3, CallbackMarks
    <2>3. InitShutdown(h, t, q, "idle")
        BY <1>5
    <2> HIDE DEF q
    <2> QED BY <1>1, <1>2, <1>3, <2>2, <2>3, InitShutdownStep
<1> QED BY <1>4, <1>5 DEF ConnectDone

LEMMA FlushStep ==
    ASSUME OneWorker, IInv, NEW h \in Threads, NEW t \in Transports, Flush(h, t)
    PROVE  IInv'
<1> DEFINE r == [tp[t] EXCEPT !.delayed = FALSE]
<1>1. Is(h, "flush", t)
    BY DEF Flush
<1>2. /\ h \in Workers /\ Open(t) /\ ~tp[t].is_destroying /\ thr[h].tp = t /\ thr[h].pc = "flush"
      /\ thr[h].pc \notin DestroyPcs /\ tp[t].mem = "live"
      /\ ~Refers(thr[h], t) /\ ~Owes(thr[h], t) /\ ~Keeps(thr[h], t) /\ tp[t] \in Transport
    BY <1>1, CallbackFacts DEF FreshPcs
<1>4. /\ r \in Transport
      /\ r.mem = tp[t].mem /\ r.ref_cnt = tp[t].ref_cnt /\ r.grp = tp[t].grp
      /\ r.is_shutdown = tp[t].is_shutdown /\ r.is_destroying = tp[t].is_destroying
      /\ r.is_closing = tp[t].is_closing /\ r.id = tp[t].id /\ r.armed = tp[t].armed
    BY <1>2, CallbackMarks
<1>5. CASE Change(t, r) /\ Set(h, At("kaSchedule", t, "idle")) /\ UNCHANGED <<table, mgrLock, users>>
    <2> DEFINE s == At("kaSchedule", t, "idle")
    <2>1. tp' = [tp EXCEPT ![t] = r] /\ thr' = [thr EXCEPT ![h] = s] /\ s.pc = "kaSchedule"
        BY <1>5 DEF Change, Set, At
    <2> HIDE DEF r, s
    <2>2. s \in {Idle, At("kaSchedule", t, "idle")}
        BY DEF s
    <2> QED BY <1>2, <1>4, <1>5, <2>1, <2>2, CallbackStep
<1>6. CASE InitShutdown(h, t, r, "kaSchedule")
    <2> HIDE DEF r
    <2> QED BY <1>2, <1>4, <1>6, InitShutdownStep
<1> QED BY <1>5, <1>6 DEF Flush

LEMMA KeepAliveScheduleStep ==
    ASSUME OneWorker, IInv, NEW h \in Threads, NEW t \in Transports, KeepAliveSchedule(h, t)
    PROVE  IInv'
<1> DEFINE r == [tp[t] EXCEPT !.kaArmed = TRUE]
           s == At("kaMark", t, "idle")
<1>1. /\ Is(h, "kaSchedule", t) /\ tp' = [tp EXCEPT ![t] = r] /\ thr' = [thr EXCEPT ![h] = s]
      /\ UNCHANGED <<table, mgrLock, users>> /\ s.pc = "kaMark"
    BY DEF KeepAliveSchedule, Change, Set, At
<1>2. /\ h \in Workers /\ tp[t].mem = "live" /\ thr[h].tp = t /\ thr[h].pc \notin DestroyPcs
      /\ ~Refers(thr[h], t) /\ ~Owes(thr[h], t) /\ ~Keeps(thr[h], t) /\ tp[t] \in Transport
    BY <1>1, CallbackFacts DEF KeepAlivePcs
<1>4. /\ r \in Transport /\ r.mem = tp[t].mem /\ r.ref_cnt = tp[t].ref_cnt /\ r.grp = tp[t].grp
      /\ r.is_shutdown = tp[t].is_shutdown /\ r.is_destroying = tp[t].is_destroying
      /\ r.is_closing = tp[t].is_closing /\ r.id = tp[t].id /\ r.armed = tp[t].armed
    BY <1>2, CallbackMarks
<1> HIDE DEF r, s
<1>5. s \in {Idle, At("kaMark", t, "idle")}
    BY DEF s
<1> QED BY <1>1, <1>2, <1>4, <1>5, CallbackStep

LEMMA KeepAliveMarkStep ==
    ASSUME OneWorker, IInv, NEW h \in Threads, NEW t \in Transports, KeepAliveMark(h, t)
    PROVE  IInv'
<1> DEFINE r == [tp[t] EXCEPT !.kaId = TRUE]
<1>1. /\ Is(h, "kaMark", t) /\ tp' = [tp EXCEPT ![t] = r] /\ thr' = [thr EXCEPT ![h] = Idle]
      /\ UNCHANGED <<table, mgrLock, users>>
    BY DEF KeepAliveMark, Change, Set
<1>2. /\ h \in Workers /\ tp[t].mem = "live" /\ thr[h].tp = t /\ thr[h].pc \notin DestroyPcs
      /\ ~Refers(thr[h], t) /\ ~Owes(thr[h], t) /\ ~Keeps(thr[h], t) /\ tp[t] \in Transport
    BY <1>1, CallbackFacts DEF KeepAlivePcs
<1>4. /\ r \in Transport /\ r.mem = tp[t].mem /\ r.ref_cnt = tp[t].ref_cnt /\ r.grp = tp[t].grp
      /\ r.is_shutdown = tp[t].is_shutdown /\ r.is_destroying = tp[t].is_destroying
      /\ r.is_closing = tp[t].is_closing /\ r.id = tp[t].id /\ r.armed = tp[t].armed
    BY <1>2, CallbackMarks
<1> HIDE DEF r
<1>5. Idle \in {Idle, At("ka", t, "idle")} /\ Idle.pc = "idle"
    BY DEF Idle
<1> QED BY <1>1, <1>2, <1>4, <1>5, CallbackStep

LEMMA PopKeepAliveStep ==
    ASSUME OneWorker, IInv, NEW h \in Threads, NEW t \in Transports, PopKeepAlive(h, t)
    PROVE  IInv'
<1> DEFINE r == [tp[t] EXCEPT !.kaArmed = FALSE]
           s == At("ka", t, "idle")
<1>1. /\ h \in Workers /\ thr[h] = Idle /\ tp[t].kaArmed
      /\ tp' = [tp EXCEPT ![t] = r] /\ thr' = [thr EXCEPT ![h] = s]
      /\ table' = table /\ mgrLock' = mgrLock /\ users' = users
    BY DEF PopKeepAlive, Change, Set
<1>2. /\ thr[h].tp = None /\ thr[h].pc = "idle"
      /\ ~Refers(thr[h], t) /\ ~Owes(thr[h], t) /\ ~Keeps(thr[h], t)
    BY <1>1, IdleFacts
<1>3. /\ s \in ThreadState /\ Shaped(s) /\ s.tp = t /\ s.pc = "ka" /\ s.after = "idle"
      /\ ~Refers(s, t) /\ ~Owes(s, t) /\ ~Keeps(s, t)
    BY AtFacts DEF Pcs, RefPcs, ShutPcs, DropPcs, WorkerPcs, TimerPcs, DestroyPcs, KeepAlivePcs
<1>4. /\ tp[t] \in Transport /\ tp[t].grp \in Nat /\ tp[t].ref_cnt \in Nat /\ users[t] \in Nat
      /\ users[t] \in 0 .. MaxUsers /\ (tp[t].mem = "live" <=> tp[t].grp > 0) /\ Life(t)
    BY CountFacts DEF IInv
<1>5. tp[t].mem # "none"
    BY <1>1, <1>4 DEF Life, Unborn
<1>6. /\ r \in Transport /\ r.mem = tp[t].mem /\ r.ref_cnt = tp[t].ref_cnt /\ r.grp = tp[t].grp
      /\ r.is_shutdown = tp[t].is_shutdown /\ r.is_destroying = tp[t].is_destroying
      /\ r.is_closing = tp[t].is_closing /\ r.id = tp[t].id /\ r.armed = tp[t].armed
    BY <1>4, CallbackMarks
<1> HIDE DEF r, s
<1>7. Moves(h, t, r, s, users[t])
    BY <1>1, <1>2, <1>3, <1>4, <1>6 DEF Moves, IInv, Typed
<1>8. Balanced(h, t, r, s, users[t])
    <2>1. Base(r) = Base(tp[t]) /\ Base(r) \in Int
        BY <1>6 DEF Base
    <2> QED BY <1>2, <1>3, <1>4, <1>6, <2>1 DEF Balanced, One
<1>9. \A x : Valid(x)' <=> Valid(x)
    BY <1>1 DEF Valid
<1>10. Listed(h, t)
    BY <1>1, <1>9 DEF Listed, IInv, Typed
<1>11. tp'[t] = r /\ thr'[h] = s /\ \A g \in Threads \ {h} : thr'[g] = thr[g]
    BY <1>1 DEF IInv, Typed
<1>12. Respects(h, t, r)
    BY <1>6, <1>9, <1>11 DEF Respects, Open, Usable
<1>13. Life(t)'
    <2>1. /\ WorkerAt(DestroyPcs, t) => WorkerAt(DestroyPcs, t)'
          /\ WorkerAt({"close"}, t) => WorkerAt({"close"}, t)'
        BY <1>2, <1>11 DEF WorkerAt, Threads, DestroyPcs
    <2> QED BY <1>4, <1>5, <1>6, <1>9, <1>11, <2>1 DEF Life, Open
<1>14. Locks(h)'
    BY <1>3, <1>11 DEF Locks, InAll, Gives
<1>15. Works(h)'
    BY <1>1, <1>3, <1>5, <1>6, <1>11 DEF Works, InAll, TimerPcs, DestroyPcs, KeepAlivePcs
<1> QED BY <1>7, <1>8, <1>10, <1>12, <1>13, <1>14, <1>15, StepKeeps

LEMMA KeepAliveStep ==
    ASSUME OneWorker, IInv, NEW h \in Threads, NEW t \in Transports, KeepAlive(h, t)
    PROVE  IInv'
<1> DEFINE r == [tp[t] EXCEPT !.kaId = TRUE]
<1>1. Is(h, "ka", t)
    BY DEF KeepAlive
<1>2. /\ h \in Workers /\ tp[t].mem = "live" /\ thr[h].tp = t /\ thr[h].pc \notin DestroyPcs
      /\ ~Refers(thr[h], t) /\ ~Owes(thr[h], t) /\ ~Keeps(thr[h], t) /\ tp[t] \in Transport
    BY <1>1, CallbackFacts DEF KeepAlivePcs
<1>3. /\ r \in Transport
      /\ r.mem = tp[t].mem /\ r.ref_cnt = tp[t].ref_cnt /\ r.grp = tp[t].grp
      /\ r.is_shutdown = tp[t].is_shutdown /\ r.is_destroying = tp[t].is_destroying
      /\ r.is_closing = tp[t].is_closing /\ r.id = tp[t].id /\ r.armed = tp[t].armed
    BY <1>2, CallbackMarks
<1>4. CASE Change(t, r) /\ Set(h, At("kaSchedule", t, "idle")) /\ UNCHANGED <<table, mgrLock, users>>
    <2> DEFINE s == At("kaSchedule", t, "idle")
    <2>1. tp' = [tp EXCEPT ![t] = r] /\ thr' = [thr EXCEPT ![h] = s] /\ s.pc = "kaSchedule"
        BY <1>4 DEF Change, Set, At
    <2> HIDE DEF r, s
    <2>2. s \in {Idle, At("kaSchedule", t, "idle")}
        BY DEF s
    <2> QED BY <1>2, <1>3, <1>4, <2>1, <2>2, CallbackStep
<1>5. CASE InitShutdown(h, t, r, "idle") /\ ~tp[t].is_destroying
    <2>1. Open(t)
        BY <1>2, <1>5 DEF IInv, Life, Open
    <2> HIDE DEF r
    <2> QED BY <1>2, <1>3, <1>5, <2>1, InitShutdownStep
<1>6. CASE InitShutdown(h, t, r, "idle") /\ tp[t].is_destroying
    <2> HIDE DEF r
    <2>1. /\ tp' = [tp EXCEPT ![t] = r] /\ thr' = [thr EXCEPT ![h] = Idle]
          /\ UNCHANGED <<table, mgrLock, users>>
        BY <1>3, <1>6 DEF InitShutdown, Change, Set
    <2>2. Idle \in {Idle, At("ka", t, "idle")} /\ Idle.pc = "idle"
        BY DEF Idle
    <2> QED BY <1>2, <1>3, <2>1, <2>2, CallbackStep
<1> QED BY <1>4, <1>5, <1>6 DEF KeepAlive

-------------------------------------------------------------------------------
(* Theorems.                                                               *)

LEMMA InitInv == Init => IInv
<1> SUFFICES ASSUME Init PROVE IInv
    OBVIOUS
<1>1. /\ tp = [t \in Transports |-> Unborn] /\ table = <<>> /\ mgrLock = None
      /\ thr = [h \in Threads |-> Idle] /\ users = [t \in Transports |-> 0]
    BY DEF Init
<1>2. Unborn \in Transport
    BY DEF Unborn, Transport
<1>3. PICK x \in Transports : TRUE
    BY TransportMgrAssumption
<1>4. Idle \in ThreadState /\ Shaped(Idle)
    BY IdleFacts
<1>5. Typed
    BY <1>1, <1>2, <1>4, TransportMgrAssumption DEF Typed
<1>6. \A t : ~Valid(t)
    BY <1>1 DEF Valid
<1>7. ASSUME NEW t \in Transports PROVE Counted(t) /\ Life(t)
    <2>1. Referrers(t) = {} /\ Owers(t) = {} /\ Keepers(t) = {}
        BY <1>1, IdleFacts DEF Referrers, Owers, Keepers
    <2>2. Cardinality(Referrers(t)) = 0 /\ Cardinality(Owers(t)) = 0 /\ Cardinality(Keepers(t)) = 0
        BY <2>1, FS_EmptySet
    <2>3. tp[t] = Unborn /\ users[t] = 0
        BY <1>1
    <2>4. /\ Unborn.mem = "none" /\ Unborn.ref_cnt = 0 /\ Unborn.grp = 0 /\ ~Unborn.is_destroying
          /\ ~Unborn.is_closing /\ ~Unborn.armed
        BY DEF Unborn
    <2>5. Counted(t)
        BY <2>2, <2>3, <2>4 DEF Counted, One, Base
    <2>6. Life(t)
        BY <1>6, <2>3, <2>4 DEF Life, Open
    <2> QED BY <2>5, <2>6
<1>8. ASSUME NEW g \in Threads PROVE Shaped(thr[g]) /\ Locks(g) /\ Works(g)
    <2>1. thr[g] = Idle /\ Idle.pc = "idle" /\ Idle.tp = None /\ Idle.after = "idle"
        BY <1>1 DEF Idle
    <2>2. Locks(g)
        BY <2>1 DEF Locks, InAll, Gives
    <2>3. Works(g)
        BY <2>1 DEF Works, InAll, WorkerPcs, TimerPcs, DestroyPcs, FreshPcs, KeepAlivePcs
    <2> QED BY <1>4, <2>1, <2>2, <2>3
<1> QED BY <1>5, <1>7, <1>8 DEF IInv

LEMMA BeginStep ==
    ASSUME OneWorker, IInv, NEW h \in Threads, Begin(h)
    PROVE  IInv'
<1>1. CASE Acquire(h) \/ AcquireNew(h) \/ ShutdownAll(h) \/ Accept(h)
    BY <1>1, AcquireStep, AcquireNewStep, ShutdownAllStep, AcceptStep
<1>2. ASSUME NEW t \in Transports,
             \/ Release(h, t) \/ Send(h, t) \/ Shutdown(h, t) \/ ConnectDone(h, t) \/ Receive(h, t)
             \/ PeerCloses(h, t) \/ PopIdle(h, t) \/ PopKeepAlive(h, t)
      PROVE  IInv'
    BY <1>2, ReleaseStep, SendStep, ShutdownStep, ConnectDoneStep, ReceiveStep, PeerClosesStep,
       PopIdleStep, PopKeepAliveStep
<1> QED BY <1>1, <1>2 DEF Begin

LEMMA ContinueStep ==
    ASSUME OneWorker, IInv, NEW h \in Threads, NEW t \in Transports, Continue(h, t)
    PROVE  IInv'
<1>1. CASE \/ Verify(h, t) \/ Dec(h, t) \/ Rearm(h, t) \/ Drop(h, t)
           \/ IdleCallback(h, t) \/ IdleCheck(h, t) \/ Destroy(h, t) \/ TimerDone(h, t)
    BY <1>1, VerifyStep, DecStep, RearmStep, DropStep, IdleCallbackStep, IdleCheckStep, DestroyStep,
       TimerDoneStep
<1>2. CASE \/ LockTransport(h, t) \/ Unregister(h, t) \/ Close(h, t)
           \/ ShutNothing(h, t) \/ ShutKeepAlive(h, t) \/ ShutEnd(h, t)
           \/ ShutVerify(h, t) \/ ShutUnlock(h, t)
    BY <1>2, LockTransportStep, UnregisterStep, CloseStep, ShutNothingStep, ShutKeepAliveStep,
       ShutEndStep, ShutVerifyStep, ShutUnlockStep
<1>3. CASE \/ VerifyInit(h, t) \/ CheckAgain(h, t) \/ SendLater(h, t) \/ Queue(h, t) \/ SendNow(h, t)
    BY <1>3, VerifyInitStep, CheckAgainStep, SendLaterStep, QueueStep, SendNowStep
<1>4. CASE \/ Flush(h, t) \/ Accepted(h, t) \/ KeepAliveSchedule(h, t) \/ KeepAliveMark(h, t)
           \/ KeepAlive(h, t)
    BY <1>4, FlushStep, AcceptedStep, KeepAliveScheduleStep, KeepAliveMarkStep, KeepAliveStep
<1> QED BY <1>1, <1>2, <1>3, <1>4 DEF Continue

\* Nothing happens.
LEMMA StutterStep ==
    ASSUME IInv, UNCHANGED vars
    PROVE  IInv'
<1>1. tp' = tp /\ table' = table /\ mgrLock' = mgrLock /\ thr' = thr /\ users' = users
    BY DEF vars
<1>2. Typed'
    BY <1>1 DEF IInv, Typed
<1>3. \A t : (Valid(t)' <=> Valid(t)) /\ (Open(t)' <=> Open(t)) /\ (Usable(t)' <=> Usable(t))
    BY <1>1 DEF Valid, Open, Usable
<1>4. ASSUME NEW t \in Transports PROVE Counted(t)' /\ Life(t)'
    <2>1. Referrers(t)' = Referrers(t) /\ Owers(t)' = Owers(t) /\ Keepers(t)' = Keepers(t)
        BY <1>1 DEF Referrers, Owers, Keepers
    <2>2. Counted(t)'
        BY <1>1, <2>1 DEF IInv, Counted
    <2>3. ASSUME NEW pcs PROVE WorkerAt(pcs, t)' <=> WorkerAt(pcs, t)
        BY <1>1 DEF WorkerAt
    <2>4. Life(t)'
        BY <1>1, <1>3, <2>3 DEF IInv, Life
    <2> QED BY <2>2, <2>4
<1>5. ASSUME NEW g \in Threads PROVE Shaped(thr'[g]) /\ Locks(g)' /\ Works(g)'
    BY <1>1, <1>3 DEF IInv, Locks, Works, InAll, Gives
<1> QED BY <1>2, <1>4, <1>5 DEF IInv

\* The invariant is inductive.
LEMMA NextInv ==
    ASSUME OneWorker
    PROVE  IInv /\ [Next]_vars => IInv'
<1> SUFFICES ASSUME IInv, [Next]_vars PROVE IInv'
    OBVIOUS
<1>1. CASE Next
    BY <1>1, BeginStep, ShutdownNextStep, ContinueStep DEF Next
<1>2. CASE UNCHANGED vars
    BY <1>2, StutterStep
<1> QED BY <1>1, <1>2

LEMMA SpecInv ==
    ASSUME OneWorker
    PROVE  Spec => []IInv
    BY InitInv, NextInv, PTL DEF Spec

LEMMA InvariantImplies == IInv => TypeOK /\ HeldIsOpen /\ AliveWhenUsed
    BY InvariantSuffices

\* Type correctness: whatever the application, the sockets and the timers do, neither of the
\* two counts of a transport is ever below the references that are really held, so no path of
\* sip_transport.c and sip_transport_tcp.c gives a reference back twice.
THEOREM TypeCorrect ==
    ASSUME OneWorker
    PROVE  Spec => []TypeOK
    BY SpecInv, InvariantImplies, PTL

\* The idle timer never takes a transport away from somebody who holds a reference, even when
\* it fires while the transport is being acquired (transport_idle_callback decides under the
\* manager's lock, and destroying is decided by the count alone).
THEOREM HeldSafe ==
    ASSUME OneWorker
    PROVE  Spec => []HeldIsOpen
    BY SpecInv, InvariantImplies, PTL

\* The last pj_grp_lock_dec_ref releases a transport when no thread works with it any more and
\* no idle timer points to it, unless the thread is in the callback of the keep-alive timer,
\* which has no reference of the group lock.
THEOREM MemorySafe ==
    ASSUME OneWorker
    PROVE  Spec => []AliveWhenUsed
    BY SpecInv, InvariantImplies, PTL
===============================================================================
