-------------------------- MODULE AudioReceiveProofs ---------------------------
(***************************************************************************)
(* Proofs about the receiving side of an audio stream: the ring of the     *)
(* jitter buffer stays sound and the adaptation within its bounds, for     *)
(* every capacity, threshold and schedule of packets, gets and pauses.     *)
(***************************************************************************)
EXTENDS AudioReceive, FiniteSetTheorems, WellFoundedInduction, TLAPS

\* The frame lists and the buffers.
ListRec == [head : Slots, origin : Int, size : 0 .. max_count, discarded_num : Int,
            slot : [Slots -> Int]]
BufRec  == [level : 0 .. LevelCap, last_op : {"INIT", "PUT", "GET"},
            stable_hist : 0 .. STABLE_HISTORY_LIMIT,
            status : {"INITIALIZING", "PROCESSING"}, init_cycle_cnt : 0 .. INIT_CYCLE + 1,
            max_hist_level : 0 .. jb_max_burst, eff_level : 0 .. MaxLevel,
            discard_ref : Int, discard_dist : Nat, fl : ListRec,
            prefetching : BOOLEAN, prefetch : 0 .. jb_max_prefetch,
            init_prefetch : 0 .. jb_max_prefetch, algo : {"NONE", "STATIC", "PROGRESSIVE"}]

\* What is k places after the head.
At(l, k) == l.slot[Pos(l, k)]

\* No frame after the one discarded last is discarded already, so that none is
\* discarded, and counted, twice.
Marked(l, ref) == \A k \in 0 .. l.size - 1 : At(l, k) = DISCARDED => l.origin + k <= ref

\* While the buffer starts its cycles are below the limit, or just reached it
\* with a put.
Counted(b) == b.status = "INITIALIZING" =>
                  /\ b.init_cycle_cnt <= INIT_CYCLE
                  /\ b.init_cycle_cnt = INIT_CYCLE => b.last_op = "PUT"

\* A list that may be used: well typed, sound, and no frame after ref discarded.
Good(l, ref) == l \in ListRec /\ RingSound(l) /\ Marked(l, ref)

\* Only the progressive algorithm discards frames in their place, up to its
\* reference: with the others no frame is discarded after any reference.
Refs(b) == IF b.algo = "PROGRESSIVE" THEN {b.discard_ref} ELSE Int

\* The buffer between two operations.
BufInv(b) == b \in BufRec /\ (\A ref \in Refs(b) : Good(b.fl, ref)) /\ Counted(b)

\* The inductive invariant.
IInv ==
    /\ BufInv(jb)
    /\ source.n \in 0 .. Packets /\ source.index \in 0 .. IdxMod - 1
    /\ \A p \in net : p.n \in 0 .. Packets /\ p.index \in 0 .. IdxMod - 1
    /\ hand.packet.n \in 0 .. Packets
    /\ hand = Nothing \/ hand.packet.index \in 0 .. IdxMod - 1
    /\ last \in 0 .. Packets
    /\ getting \in {"idle", "soft", "count", "get"} /\ control \in {"idle", "pausing", "resuming"}
    /\ paused \in BOOLEAN /\ soft_start_cnt \in 0 .. SOFT_START
    /\ getting \in {"soft", "count"} => soft_start_cnt > 0

-------------------------------------------------------------------------------
(* Arithmetic of the ring.                                                 *)

\* Once around the ring, or not.
LEMMA ModOnce ==
    ASSUME NEW N \in Nat \ {0}, NEW x \in Int
    PROVE  /\ 0 <= x /\ x < N => x % N = x
           /\ N <= x /\ x < N + N => x % N = x - N
           /\ -N <= x /\ x < 0 => x % N = x + N
           /\ x % N \in 0 .. N - 1
    OBVIOUS

\* A place after the head is a slot, and each slot is one place after the head.
LEMMA Places ==
    ASSUME NEW l \in ListRec
    PROVE  /\ \A k \in 0 .. max_count - 1 :
                 Pos(l, k) \in Slots /\ (Pos(l, k) - l.head) % max_count = k
           /\ \A i \in Slots :
                 /\ (i - l.head) % max_count \in 0 .. max_count - 1
                 /\ Pos(l, (i - l.head) % max_count) = i
<1>1. max_count \in Nat \ {0} /\ l.head \in 0 .. max_count - 1
    BY FrameListAssumption DEF ListRec, Slots
<1> DEFINE N == max_count
           h == l.head
<1> HIDE DEF N, h
<1>2. N \in Nat \ {0} /\ h \in 0 .. N - 1
    BY <1>1 DEF N, h
<1>3. ASSUME NEW k \in 0 .. N - 1
      PROVE  (h + k) % N \in 0 .. N - 1 /\ (((h + k) % N) - h) % N = k
    <2>1. CASE h + k < N
        <3>1. (h + k) % N = h + k
            <4> DEFINE x == h + k
            <4>1. x \in Int /\ 0 <= x /\ x < N
                BY <1>2, <2>1
            <4> HIDE DEF x
            <4>2. x % N = x
                BY <1>2, <4>1, ModOnce
            <4> QED BY <4>2 DEF x
        <3>2. k % N = k
            BY <1>2, ModOnce
        <3>3. h + k - h = k
            BY <1>2
        <3> QED BY <1>2, <2>1, <3>1, <3>2, <3>3
    <2>2. CASE h + k >= N
        <3>1. (h + k) % N = h + k - N
            <4> DEFINE x == h + k
            <4>1. x \in Int /\ N <= x /\ x < N + N
                BY <1>2, <2>2
            <4> HIDE DEF x
            <4>2. x % N = x - N
                BY <1>2, <4>1, ModOnce
            <4> QED BY <1>2, <4>1, <4>2 DEF x
        <3>2. (k - N) % N = k
            BY <1>2, ModOnce
        <3>3. h + k - N - h = k - N
            BY <1>2
        <3> QED BY <1>2, <2>2, <3>1, <3>2, <3>3
    <2> QED BY <1>2, <2>1, <2>2
<1>4. ASSUME NEW i \in 0 .. N - 1
      PROVE  (i - h) % N \in 0 .. N - 1 /\ (h + ((i - h) % N)) % N = i
    <2>1. CASE i >= h
        <3>1. (i - h) % N = i - h
            <4> DEFINE x == i - h
            <4>1. x \in Int /\ 0 <= x /\ x < N
                BY <1>2, <2>1
            <4> HIDE DEF x
            <4>2. x % N = x
                BY <1>2, <4>1, ModOnce
            <4> QED BY <4>2 DEF x
        <3>2. i % N = i /\ h + (i - h) = i
            BY <1>2, ModOnce
        <3> QED BY <1>2, <2>1, <3>1, <3>2
    <2>2. CASE i < h
        <3>1. (i - h) % N = i - h + N
            <4> DEFINE x == i - h
            <4>1. x \in Int /\ -N <= x /\ x < 0
                BY <1>2, <2>2
            <4> HIDE DEF x
            <4>2. x % N = x + N
                BY <1>2, <4>1, ModOnce
            <4> QED BY <4>2 DEF x
        <3>2. (i + N) % N = i /\ h + (i - h + N) = i + N
            BY <1>2, ModOnce
        <3> QED BY <1>2, <2>2, <3>1, <3>2
    <2> QED BY <1>2, <2>1, <2>2
<1> QED BY <1>3, <1>4 DEF N, h, Pos, Slots

\* Two places after the head are two slots.
LEMMA PlacesApart ==
    ASSUME NEW l \in ListRec, NEW j \in 0 .. max_count - 1, NEW k \in 0 .. max_count - 1,
           Pos(l, j) = Pos(l, k)
    PROVE  j = k
    BY Places

\* The discarded frames of a list, by their place.
Dis(l, n) == {k \in 0 .. n - 1 : At(l, k) = DISCARDED}

\* A finite number of them.
LEMMA DisFinite ==
    ASSUME NEW l, NEW n \in Nat
    PROVE  /\ IsFiniteSet(Dis(l, n)) /\ Cardinality(Dis(l, n)) \in Nat
           /\ DiscardedAmong(l, n) = Cardinality(Dis(l, n))
<1>1. IsFiniteSet(0 .. n - 1)
    BY FS_Interval
<1>2. IsFiniteSet(Dis(l, n))
    BY <1>1, FS_Subset DEF Dis
<1> QED BY <1>2, FS_CardinalityType DEF Dis, DiscardedAmong, At

\* A sound ring, seen from its head.
LEMMA RingView ==
    ASSUME NEW l \in ListRec
    PROVE  RingSound(l) <=> /\ \A k \in l.size .. max_count - 1 : At(l, k) = MISSING
                            /\ l.discarded_num = Cardinality(Dis(l, l.size))
<1>1. l.head \in Slots /\ l.size \in 0 .. max_count /\ l.size \in Nat
    BY FrameListAssumption DEF ListRec
<1>2. l.discarded_num = DiscardedAmong(l, l.size) <=> l.discarded_num = Cardinality(Dis(l, l.size))
    BY <1>1, DisFinite
<1>3. ASSUME \A i \in Slots : (i - l.head) % max_count >= l.size => l.slot[i] = MISSING,
             NEW k \in l.size .. max_count - 1
      PROVE  At(l, k) = MISSING
    <2>1. k \in 0 .. max_count - 1 /\ k >= l.size
        BY <1>1, FrameListAssumption
    <2> QED BY <1>3, <2>1, Places DEF At
<1>4. ASSUME \A k \in l.size .. max_count - 1 : At(l, k) = MISSING,
             NEW i \in Slots, (i - l.head) % max_count >= l.size
      PROVE  l.slot[i] = MISSING
    <2> DEFINE k == (i - l.head) % max_count
    <2>1. k \in 0 .. max_count - 1 /\ Pos(l, k) = i
        BY Places
    <2> HIDE DEF k
    <2>2. k \in l.size .. max_count - 1
        BY <1>1, <1>4, <2>1, FrameListAssumption DEF k
    <2> QED BY <1>4, <2>1, <2>2 DEF At
<1> QED BY <1>1, <1>2, <1>3, <1>4 DEF RingSound

\* Places without the modulus, the one past the end of the ring included.
LEMMA PosLinear ==
    ASSUME NEW l \in ListRec, NEW k \in 0 .. max_count
    PROVE  Pos(l, k) = IF l.head + k < max_count THEN l.head + k ELSE l.head + k - max_count
<1> DEFINE N == max_count
           x == l.head + k
<1>1. N \in Nat \ {0} /\ x \in Int /\ 0 <= x /\ x < N + N
    BY FrameListAssumption DEF ListRec, Slots
<1>2. Pos(l, k) = x % N
    BY DEF Pos
<1> HIDE DEF x, N
<1>3. x % N = IF x < N THEN x ELSE x - N
    <2>1. CASE x < N
        <3>1. x % N = x
            BY <1>1, <2>1, ModOnce
        <3> QED BY <2>1, <3>1
    <2>2. CASE ~(x < N)
        <3>1. N <= x
            BY <1>1, <2>2
        <3>2. x % N = x - N
            BY <1>1, <3>1, ModOnce
        <3> QED BY <2>2, <3>2
    <2> QED BY <2>1, <2>2
<1>4. Pos(l, k) = IF x < N THEN x ELSE x - N
    BY <1>2, <1>3
<1>5. l.head \in Int /\ k \in Int /\ max_count \in Int
    BY FrameListAssumption DEF ListRec, Slots
<1> QED BY <1>4, <1>5 DEF x, N

\* The head moved on by n places.
LEMMA HeadMoved ==
    ASSUME NEW l \in ListRec, NEW m \in ListRec, NEW n \in 0 .. max_count, m.head = Pos(l, n),
           NEW k \in 0 .. max_count - 1
    PROVE  Pos(m, k) = IF k + n < max_count THEN Pos(l, k + n) ELSE Pos(l, k + n - max_count)
<1>1. max_count \in Nat \ {0} /\ l.head \in 0 .. max_count - 1
    BY FrameListAssumption DEF ListRec, Slots
<1>2. m.head = IF l.head + n < max_count THEN l.head + n ELSE l.head + n - max_count
    BY PosLinear
<1>3. Pos(m, k) = IF m.head + k < max_count THEN m.head + k ELSE m.head + k - max_count
    BY <1>1, PosLinear
<1>4. CASE k + n < max_count
    <2>1. Pos(l, k + n) = IF l.head + (k + n) < max_count THEN l.head + (k + n)
                          ELSE l.head + (k + n) - max_count
        BY <1>1, <1>4, PosLinear
    <2> QED BY <1>1, <1>2, <1>3, <1>4, <2>1
<1>5. CASE ~(k + n < max_count)
    <2>1. k + n - max_count \in 0 .. max_count
        BY <1>1, <1>5
    <2>2. Pos(l, k + n - max_count) =
              IF l.head + (k + n - max_count) < max_count THEN l.head + (k + n - max_count)
              ELSE l.head + (k + n - max_count) - max_count
        BY <2>1, PosLinear
    <2> QED BY <1>1, <1>2, <1>3, <1>5, <2>2
<1> QED BY <1>4, <1>5

\* Two sets of places that differ by a shift have as many elements.
LEMMA ShiftedSet ==
    ASSUME NEW S \in SUBSET Int, NEW T \in SUBSET Int, NEW n \in Int, IsFiniteSet(S),
           \A k \in Int : k \in S <=> k + n \in T
    PROVE  IsFiniteSet(T) /\ Cardinality(T) = Cardinality(S)
<1> DEFINE f == [k \in S |-> k + n]
<1>1. f \in [S -> T] /\ \A k \in S : f[k] = k + n
    OBVIOUS
<1>2. \A j, k \in S : f[j] = f[k] => j = k
    BY <1>1
<1>3. \A t \in T : \E k \in S : f[k] = t
    <2> SUFFICES ASSUME NEW t \in T PROVE \E k \in S : f[k] = t
        OBVIOUS
    <2>1. t - n \in S /\ f[t - n] = t
        <3>1. t - n \in Int /\ (t - n) + n = t
            OBVIOUS
        <3> QED BY <1>1, <3>1
    <2> QED BY <2>1
<1> HIDE DEF f
<1>4. f \in Bijection(S, T)
    BY <1>1, <1>2, <1>3 DEF Bijection, Injection, Surjection, IsInjective
<1> QED BY <1>4, FS_Bijection DEF ExistsBijection

-------------------------------------------------------------------------------
(* The operations of the frame list.                                       *)

\* The list without its first n frames: the rest moves to the head, and the
\* slots that were given up are empty.
LEMMA RemovesHead ==
    ASSUME NEW l \in ListRec, RingSound(l), NEW n \in 0 .. l.size, NEW m,
           m = Without(l, n, {i \in Slots : (i - l.head) % max_count < n})
    PROVE  /\ m \in ListRec /\ RingSound(m)
           /\ m.origin = l.origin + n /\ m.size = l.size - n
           /\ \A k \in 0 .. max_count - 1 :
                 At(m, k) = IF k + n < max_count THEN At(l, k + n) ELSE MISSING
<1>0. /\ max_count \in Nat \ {0} /\ l.size \in 0 .. max_count /\ n \in 0 .. max_count /\ n \in Nat
      /\ l.head \in Slots /\ l.origin \in Int /\ l.discarded_num \in Int /\ l.slot \in [Slots -> Int]
    BY FrameListAssumption DEF ListRec
<1>1. Pos(l, n) \in Slots
    BY <1>0, PosLinear DEF Slots
<1>2. /\ m.head = Pos(l, n) /\ m.origin = l.origin + n /\ m.size = l.size - n
      /\ m.discarded_num = l.discarded_num - DiscardedAmong(l, n)
      /\ m.slot = [i \in Slots |-> IF (i - l.head) % max_count < n THEN MISSING ELSE l.slot[i]]
      /\ m = [head |-> m.head, origin |-> m.origin, size |-> m.size,
              discarded_num |-> m.discarded_num, slot |-> m.slot]
    BY DEF Without, ListRec, Pos
<1>3. DiscardedAmong(l, n) = Cardinality(Dis(l, n)) /\ Cardinality(Dis(l, n)) \in Nat
    BY <1>0, DisFinite
<1>4. m.slot \in [Slots -> Int]
    <2> DEFINE v(i) == IF (i - l.head) % max_count < n THEN MISSING ELSE l.slot[i]
    <2>1. \A i \in Slots : v(i) \in Int
        BY <1>0 DEF MISSING
    <2>2. m.slot = [i \in Slots |-> v(i)]
        BY <1>2
    <2> HIDE DEF v
    <2> QED BY <2>1, <2>2
<1>5. m \in ListRec
    BY <1>0, <1>1, <1>2, <1>3, <1>4 DEF ListRec
<1>6. ASSUME NEW k \in 0 .. max_count - 1
      PROVE  At(m, k) = IF k + n < max_count THEN At(l, k + n) ELSE MISSING
    <2>1. CASE k + n < max_count
        <3> DEFINE p == Pos(l, k + n)
        <3>1. k + n \in 0 .. max_count - 1 /\ k + n >= n
            BY <1>0, <2>1
        <3>2. p \in Slots /\ (p - l.head) % max_count = k + n
            BY <3>1, Places
        <3>3. Pos(m, k) = p
            BY <1>0, <1>2, <1>5, <2>1, HeadMoved
        <3> HIDE DEF p
        <3>4. m.slot[p] = l.slot[p]
            BY <1>0, <1>2, <3>1, <3>2
        <3> QED BY <2>1, <3>3, <3>4 DEF At, p
    <2>2. CASE ~(k + n < max_count)
        <3> DEFINE p == Pos(l, k + n - max_count)
        <3>1. k + n - max_count \in 0 .. max_count - 1 /\ k + n - max_count < n
            BY <1>0, <2>2
        <3>2. p \in Slots /\ (p - l.head) % max_count = k + n - max_count
            BY <3>1, Places
        <3>3. Pos(m, k) = p
            BY <1>0, <1>2, <1>5, <2>2, HeadMoved
        <3> HIDE DEF p
        <3>4. m.slot[p] = MISSING
            BY <1>0, <1>2, <3>1, <3>2
        <3> QED BY <2>2, <3>3, <3>4 DEF At
    <2> QED BY <2>1, <2>2
<1>7. /\ \A k \in l.size .. max_count - 1 : At(l, k) = MISSING
      /\ l.discarded_num = Cardinality(Dis(l, l.size))
    BY RingView
<1>8. \A k \in m.size .. max_count - 1 : At(m, k) = MISSING
    <2> SUFFICES ASSUME NEW k \in m.size .. max_count - 1 PROVE At(m, k) = MISSING
        OBVIOUS
    <2>1. k \in 0 .. max_count - 1 /\ (k + n < max_count => k + n \in l.size .. max_count - 1)
        BY <1>0, <1>2
    <2> QED BY <1>6, <1>7, <2>1
<1>9. m.discarded_num = Cardinality(Dis(m, m.size))
    <2> DEFINE S == Dis(m, m.size)
               T == Dis(l, l.size) \ Dis(l, n)
    <2>1. IsFiniteSet(Dis(l, l.size)) /\ Cardinality(Dis(l, l.size)) \in Nat
        BY <1>0, DisFinite
    <2>2. Dis(l, l.size) \cap Dis(l, n) = Dis(l, n)
        BY <1>0 DEF Dis
    <2>3. Cardinality(T) = Cardinality(Dis(l, l.size)) - Cardinality(Dis(l, n))
        BY <2>1, <2>2, FS_Difference
    <2>4. ASSUME NEW k \in Int PROVE k \in S <=> k + n \in T
        <3>1. CASE k \in 0 .. m.size - 1
            <4>1. /\ k \in 0 .. max_count - 1 /\ k + n < max_count
                  /\ k + n \in 0 .. l.size - 1 /\ k + n \notin 0 .. n - 1
                BY <1>0, <1>2, <3>1
            <4>2. At(m, k) = At(l, k + n)
                BY <1>6, <4>1
            <4> QED BY <3>1, <4>1, <4>2 DEF Dis
        <3>2. CASE k \notin 0 .. m.size - 1
            <4>1. k \notin S
                BY <3>2 DEF Dis
            <4>2. ASSUME k + n \in 0 .. l.size - 1, k + n \notin 0 .. n - 1 PROVE FALSE
                BY <1>0, <1>2, <3>2, <4>2
            <4>3. ASSUME k + n \in T PROVE FALSE
                <5>1. k + n \in 0 .. l.size - 1 /\ At(l, k + n) = DISCARDED
                    BY <4>3 DEF Dis
                <5>2. k + n \notin 0 .. n - 1
                    BY <4>3, <5>1 DEF Dis
                <5> QED BY <4>2, <5>1, <5>2
            <4> QED BY <4>1, <4>3
        <3> QED BY <3>1, <3>2
    <2>5. S \in SUBSET Int /\ T \in SUBSET Int /\ n \in Int
        BY <1>0 DEF Dis
    <2>6. IsFiniteSet(S)
        BY <1>0, <1>2, DisFinite
    <2> HIDE DEF S, T
    <2>7. Cardinality(T) = Cardinality(S)
        BY <2>4, <2>5, <2>6, ShiftedSet
    <2> QED BY <1>2, <1>3, <1>7, <2>3, <2>7 DEF S
<1>10. RingSound(m)
    BY <1>5, <1>8, <1>9, RingView
<1> QED BY <1>2, <1>5, <1>6, <1>10

\* jb_framelist_remove_head, as the full list and the static discard use it.
LEMMA RemoveHeadGood ==
    ASSUME NEW l, NEW ref \in Int, Good(l, ref), NEW count \in Nat, NEW m,
           m = jb_framelist_remove_head(l, count)
    PROVE  /\ Good(m, ref) /\ m.size = l.size - AtMost(count, l.size)
           /\ m.origin = l.origin + AtMost(count, l.size)
           /\ \A k \in 0 .. max_count - 1 :
                 At(m, k) = IF k + AtMost(count, l.size) < max_count
                            THEN At(l, k + AtMost(count, l.size)) ELSE MISSING
<1> DEFINE n == AtMost(count, l.size)
<1>0. /\ l \in ListRec /\ RingSound(l) /\ Marked(l, ref)
      /\ l.size \in 0 .. max_count /\ l.origin \in Int /\ max_count \in Nat
    BY FrameListAssumption DEF Good, ListRec
<1>1. n \in 0 .. l.size
    BY <1>0 DEF AtMost
<1>2. m = Without(l, n, {i \in Slots : (i - l.head) % max_count < n})
    BY DEF jb_framelist_remove_head
<1> HIDE DEF n
<1>3. /\ m \in ListRec /\ RingSound(m) /\ m.origin = l.origin + n /\ m.size = l.size - n
      /\ \A k \in 0 .. max_count - 1 :
             At(m, k) = IF k + n < max_count THEN At(l, k + n) ELSE MISSING
    BY <1>0, <1>1, <1>2, RemovesHead
<1>4. ASSUME NEW k \in 0 .. m.size - 1, At(m, k) = DISCARDED PROVE m.origin + k <= ref
    <2>1. /\ k \in 0 .. max_count - 1 /\ k + n < max_count /\ k + n \in 0 .. l.size - 1
          /\ m.origin + k = l.origin + (k + n)
        BY <1>0, <1>1, <1>3
    <2>2. At(l, k + n) = DISCARDED
        BY <1>3, <1>4, <2>1
    <2> QED BY <1>0, <2>1, <2>2 DEF Marked
<1> QED BY <1>3, <1>4 DEF Good, Marked, n

\* The head of a list, if it is not a discarded one, taken off.
LEMMA HeadTakenGood ==
    ASSUME NEW l, NEW ref \in Int, Good(l, ref), l.size > 0, At(l, 0) # DISCARDED
    PROVE  /\ Good(HeadTaken(l), ref) /\ l.slot[l.head] \in Int
           /\ HeadTaken(l) = jb_framelist_remove_head(l, 1)
<1>0. /\ l \in ListRec /\ l.size \in 1 .. max_count /\ max_count \in Nat \ {0}
      /\ l.head \in Slots /\ l.slot \in [Slots -> Int] /\ l.discarded_num \in Int
      /\ l.head \in 0 .. max_count - 1
    BY FrameListAssumption DEF Good, ListRec, Slots
<1>1. AtMost(1, l.size) = 1
    BY <1>0 DEF AtMost
<1>2. DiscardedAmong(l, 1) = 0
    <2>1. Dis(l, 1) = {}
        BY DEF Dis
    <2> QED BY <2>1, DisFinite, FS_EmptySet
<1>3. ASSUME NEW i \in Slots PROVE (i - l.head) % max_count < 1 <=> i = l.head
    <2>1. (i - l.head) % max_count \in 0 .. max_count - 1 /\ Pos(l, (i - l.head) % max_count) = i
        BY <1>0, Places
    <2>2. Pos(l, 0) = l.head
        BY <1>0, PosLinear
    <2>3. 0 \in 0 .. max_count - 1 /\ (Pos(l, 0) - l.head) % max_count = 0
        BY <1>0, Places
    <2> QED BY <1>0, <2>1, <2>2, <2>3
<1>4. [i \in Slots |-> IF i \in {j \in Slots : (j - l.head) % max_count < 1}
                        THEN MISSING ELSE l.slot[i]]
          = [l.slot EXCEPT ![l.head] = MISSING]
    BY <1>0, <1>3
<1>5. l.discarded_num - 0 = l.discarded_num
    BY <1>0
<1>6. jb_framelist_remove_head(l, 1) =
          [l EXCEPT !.head = (@ + 1) % max_count, !.origin = @ + 1, !.size = @ - 1,
                    !.discarded_num = @ - 0, !.slot = [l.slot EXCEPT ![l.head] = MISSING]]
    BY <1>1, <1>2, <1>4, ZenonT(60) DEF jb_framelist_remove_head, Without
<1>7. HeadTaken(l) = jb_framelist_remove_head(l, 1)
    BY <1>0, <1>5, <1>6 DEF HeadTaken, ListRec
<1> QED BY <1>0, <1>7, RemoveHeadGood

\* The discarded frames at the head, up to the first that is not.
LEMMA SkippedValue ==
    ASSUME NEW l \in ListRec
    PROVE  /\ Skipped(l) \in 0 .. l.size
           /\ Skipped(l) = l.size \/ At(l, Skipped(l)) # DISCARDED
<1>0. l.size \in Nat
    BY FrameListAssumption DEF ListRec
<1> DEFINE T == {n \in 0 .. l.size : n = l.size \/ At(l, n) # DISCARDED}
<1>1. T \subseteq Nat /\ T # {}
    BY <1>0
<1> HIDE DEF T
<1>2. PICK n \in T : \A m \in T : ~(<<m, n>> \in OpToRel(<, Nat))
    BY <1>1, WFMin, NatLessThanWellFounded
<1>3. \A m \in T : ~(m < n)
    BY <1>1, <1>2 DEF OpToRel
<1>4. n \in 0 .. l.size /\ (n = l.size \/ At(l, n) # DISCARDED)
    BY DEF T
<1>5. \A k \in 0 .. n - 1 : At(l, k) = DISCARDED
    BY <1>0, <1>3, <1>4 DEF T
<1>6. DiscardedAmong(l, n) = n
    <2>1. Dis(l, n) = 0 .. n - 1
        BY <1>5 DEF Dis
    <2>2. n \in Nat
        BY <1>0, <1>4
    <2>3. Cardinality(0 .. n - 1) = n
        BY <2>2, FS_Interval
    <2> QED BY <2>1, <2>2, <2>3, DisFinite
<1> DEFINE Q(k) == DiscardedAmong(l, k) = k /\ (k = l.size \/ l.slot[Pos(l, k)] # DISCARDED)
<1>7. \E k \in 0 .. l.size : Q(k)
    BY <1>4, <1>6 DEF At
<1>8. Skipped(l) = CHOOSE k \in 0 .. l.size : Q(k)
    BY DEF Skipped
<1>9. Skipped(l) \in 0 .. l.size /\ Q(Skipped(l))
    <2> HIDE DEF Q
    <2> QED BY <1>7, <1>8
<1> QED BY <1>9 DEF At

\* jb_framelist_get: the discarded frames are skipped, the next one is taken.
LEMMA GetGood ==
    ASSUME NEW l, NEW ref \in Int, Good(l, ref)
    PROVE  Good(jb_framelist_get(l).fl, ref)
<1> DEFINE n == Skipped(l)
           m == jb_framelist_remove_head(l, n)
<1>0. /\ l \in ListRec /\ l.size \in 0 .. max_count /\ max_count \in Nat \ {0}
    BY FrameListAssumption DEF Good, ListRec
<1>1. n \in 0 .. l.size /\ n \in Nat /\ (n = l.size \/ At(l, n) # DISCARDED)
    BY <1>0, SkippedValue
<1>2. AtMost(n, l.size) = n
    BY <1>0, <1>1 DEF AtMost
<1> HIDE DEF n
<1>3. /\ Good(m, ref) /\ m.size = l.size - n
      /\ \A k \in 0 .. max_count - 1 :
             At(m, k) = IF k + n < max_count THEN At(l, k + n) ELSE MISSING
    BY <1>1, <1>2, RemoveHeadGood
<1> HIDE DEF m
<1>4. jb_framelist_get(l) = TakeFrom(m, n > 0)
    BY DEF jb_framelist_get, m, n
<1>5. CASE m.size = 0
    <2>1. jb_framelist_get(l).fl = m
        BY <1>4, <1>5 DEF TakeFrom
    <2> QED BY <1>3, <2>1
<1>6. CASE m.size # 0
    <2>1. n < l.size /\ m.size > 0 /\ n < max_count
        BY <1>0, <1>1, <1>3, <1>6
    <2>2. At(m, 0) = At(l, n)
        <3>1. 0 \in 0 .. max_count - 1 /\ 0 + n = n
            BY <1>0, <1>1
        <3> QED BY <1>3, <2>1, <3>1
    <2>3. At(m, 0) # DISCARDED
        BY <1>0, <1>1, <2>1, <2>2
    <2>4. jb_framelist_get(l).fl = HeadTaken(m)
        BY <1>4, <1>6 DEF TakeFrom
    <2> QED BY <1>3, <2>1, <2>3, <2>4, HeadTakenGood
<1> QED BY <1>5, <1>6

\* An empty list is good wherever it starts.
LEMMA EmptyGood ==
    ASSUME NEW o \in Int, NEW ref
    PROVE  Good(JumpTo(o), ref) /\ JumpTo(o).origin = o /\ Good(jb_framelist_reset, ref)
<1>1. ASSUME NEW l, l = [jb_framelist_reset EXCEPT !.origin = l.origin], l.origin \in Int
      PROVE  Good(l, ref)
    <2>0. max_count \in Nat \ {0} /\ 0 \in Slots
        BY FrameListAssumption DEF Slots
    <2>1. /\ l.head = 0 /\ l.size = 0 /\ l.discarded_num = 0
          /\ l.slot = [i \in Slots |-> MISSING]
        BY <1>1 DEF jb_framelist_reset
    <2>2. l \in ListRec
        BY <1>1, <2>0 DEF jb_framelist_reset, ListRec, MISSING
    <2>3. \A k \in 0 .. max_count - 1 : At(l, k) = MISSING
        BY <2>1, <2>2, Places DEF At
    <2>4. Dis(l, 0) = {}
        BY DEF Dis
    <2>5. RingSound(l)
        BY <2>1, <2>2, <2>3, <2>4, RingView, FS_EmptySet
    <2>6. Marked(l, ref)
        BY <2>1 DEF Marked
    <2> QED BY <2>2, <2>5, <2>6 DEF Good
<1>2. JumpTo(o).origin = o /\ JumpTo(o) = [jb_framelist_reset EXCEPT !.origin = o]
    BY DEF JumpTo, jb_framelist_reset
<1>3. /\ jb_framelist_reset.origin \in Int
      /\ jb_framelist_reset = [jb_framelist_reset EXCEPT !.origin = jb_framelist_reset.origin]
    BY DEF jb_framelist_reset, INVALID_OFFSET
<1> QED BY <1>1, <1>2, <1>3

\* A list that starts at another index: its frames are numbered again, lower
\* than before, or there are none.
LEMMA RenumberedGood ==
    ASSUME NEW l, NEW ref \in Int, Good(l, ref), NEW o \in Int, o <= l.origin \/ l.size = 0
    PROVE  /\ Good([l EXCEPT !.origin = o], ref) /\ [l EXCEPT !.origin = o].origin = o
           /\ [l EXCEPT !.origin = o].size = l.size
<1> DEFINE m == [l EXCEPT !.origin = o]
<1>0. /\ l \in ListRec /\ l.size \in Nat /\ l.origin \in Int
    BY FrameListAssumption DEF Good, ListRec
<1>1. /\ m \in ListRec /\ m.origin = o /\ m.size = l.size /\ m.head = l.head
      /\ m.slot = l.slot /\ m.discarded_num = l.discarded_num
    BY <1>0 DEF ListRec
<1> HIDE DEF m
<1>2. \A k : At(m, k) = At(l, k)
    BY <1>1 DEF At, Pos
<1>3. Dis(m, m.size) = Dis(l, l.size)
    BY <1>1, <1>2 DEF Dis
<1>4. RingSound(m)
    BY <1>0, <1>1, <1>2, <1>3, RingView DEF Good
<1>5. ASSUME NEW k \in 0 .. m.size - 1, At(m, k) = DISCARDED PROVE m.origin + k <= ref
    <2>1. k \in 0 .. l.size - 1 /\ At(l, k) = DISCARDED /\ l.size # 0
        BY <1>0, <1>1, <1>2, <1>5
    <2>2. l.origin + k <= ref
        BY <2>1 DEF Good, Marked
    <2> QED BY <1>0, <1>1, <2>1, <2>2
<1> QED BY <1>1, <1>4, <1>5 DEF Good, Marked, m

\* The slot of a frame filled: nothing else in the list changes.
LEMMA PutIntoGood ==
    ASSUME NEW l, NEW ref \in Int, Good(l, ref), NEW d \in Nat, NEW frame \in Nat, NEW r,
           r = PutInto(l, d, frame)
    PROVE  Good(r.fl, ref) /\ (r.status = "TOOMANY" => r.fl = l /\ d >= max_count)
<1>0. /\ l \in ListRec /\ RingSound(l) /\ max_count \in Nat \ {0} /\ l.size \in 0 .. max_count
      /\ l.origin \in Int /\ l.discarded_num \in Int /\ l.slot \in [Slots -> Int]
    BY FrameListAssumption DEF Good, ListRec
<1>1. CASE d >= max_count
    BY <1>1 DEF PutInto
<1>2. CASE ~(d >= max_count) /\ l.slot[Pos(l, d)] # MISSING
    BY <1>2 DEF PutInto
<1>3. CASE ~(d >= max_count) /\ l.slot[Pos(l, d)] = MISSING
    <2> DEFINE m == r.fl
    <2>1. d \in 0 .. max_count - 1 /\ d < max_count
        BY <1>0, <1>3
    <2>2. Pos(l, d) \in Slots
        BY <1>0, <2>1, Places
    <2>3. r.status = "SUCCESS" /\
          m = [l EXCEPT !.slot[Pos(l, d)] = frame,
                        !.size = IF l.size <= d THEN d + 1 ELSE @]
        BY <1>3 DEF PutInto
    <2>4. /\ m.head = l.head /\ m.origin = l.origin /\ m.discarded_num = l.discarded_num
          /\ m.slot = [l.slot EXCEPT ![Pos(l, d)] = frame]
          /\ m.size = IF l.size <= d THEN d + 1 ELSE l.size
          /\ m = [head |-> m.head, origin |-> m.origin, size |-> m.size,
                  discarded_num |-> m.discarded_num, slot |-> m.slot]
        BY <1>0, <2>3 DEF ListRec
    <2>5. m.size \in 0 .. max_count /\ l.size <= m.size /\ d < m.size
        BY <1>0, <2>1, <2>4
    <2>6. m \in ListRec
        <3>1. m.slot \in [Slots -> Int]
            BY <1>0, <2>2, <2>4
        <3> QED BY <1>0, <2>4, <2>5, <3>1 DEF ListRec
    <2> HIDE DEF m
    <2>7. ASSUME NEW k \in 0 .. max_count - 1
          PROVE  At(m, k) = IF k = d THEN frame ELSE At(l, k)
        <3>1. Pos(l, k) \in Slots /\ Pos(m, k) = Pos(l, k)
            BY <1>0, <2>4, Places DEF Pos
        <3>2. Pos(l, k) = Pos(l, d) => k = d
            BY <1>0, <2>1, PlacesApart
        <3> QED BY <1>0, <2>4, <3>1, <3>2 DEF At
    <2>8. /\ \A k \in l.size .. max_count - 1 : At(l, k) = MISSING
          /\ l.discarded_num = Cardinality(Dis(l, l.size))
        BY <1>0, RingView
    <2>9. \A k \in 0 .. max_count - 1 : At(m, k) = DISCARDED <=> At(l, k) = DISCARDED
        BY <1>3, <2>7 DEF At, DISCARDED, MISSING
    <2>10. \A k \in 0 .. m.size - 1 : At(l, k) = DISCARDED => k \in 0 .. l.size - 1
        <3> SUFFICES ASSUME NEW k \in 0 .. m.size - 1, At(l, k) = DISCARDED, k \notin 0 .. l.size - 1
                     PROVE  FALSE
            OBVIOUS
        <3>1. k \in l.size .. max_count - 1
            BY <1>0, <2>5
        <3> QED BY <2>8, <3>1 DEF DISCARDED, MISSING
    <2>11. 0 .. m.size - 1 \subseteq 0 .. max_count - 1 /\ 0 .. l.size - 1 \subseteq 0 .. m.size - 1
        BY <1>0, <2>5
    <2>12. Dis(m, m.size) = Dis(l, l.size)
        BY <2>9, <2>10, <2>11 DEF Dis
    <2>13. \A k \in m.size .. max_count - 1 : At(m, k) = MISSING
        <3> SUFFICES ASSUME NEW k \in m.size .. max_count - 1 PROVE At(m, k) = MISSING
            OBVIOUS
        <3>1. k \in l.size .. max_count - 1 /\ k \in 0 .. max_count - 1 /\ k # d
            BY <1>0, <2>5
        <3> QED BY <2>7, <2>8, <3>1
    <2>14. RingSound(m)
        BY <2>4, <2>6, <2>8, <2>12, <2>13, RingView
    <2>15. Marked(m, ref)
        BY <2>4, <2>9, <2>10, <2>11 DEF Marked, Good
    <2> QED BY <2>3, <2>6, <2>14, <2>15 DEF Good, m
<1> QED BY <1>1, <1>2, <1>3

\* Before the slot is looked up the list has been moved so that the frame is not
\* before it.
LEMMA AlignedGood ==
    ASSUME NEW l, NEW ref \in Int, Good(l, ref), NEW index \in Int, NEW m,
           m = Ahead(Back(l, index), index)
    PROVE  Good(m, ref) /\ m.origin \in Int /\ index - m.origin \in Nat
<1> DEFINE b == Back(l, index)
<1>0. l.size \in Nat /\ l.origin \in Int
    BY FrameListAssumption DEF Good, ListRec
<1>1. Good(b, ref) /\ b.origin <= index
    <2>1. CASE index >= l.origin
        BY <1>0, <2>1 DEF Back
    <2>2. CASE ~(index >= l.origin) /\ l.origin + l.size >= MAX_FRAME_INDEX
        <3>1. b = [l EXCEPT !.origin = index - l.size]
            BY <2>2 DEF Back
        <3>2. index - l.size \in Int /\ index - l.size <= l.origin /\ index - l.size <= index
            BY <1>0, <2>2
        <3> QED BY <3>1, <3>2, RenumberedGood
    <2>3. CASE ~(index >= l.origin) /\ ~(l.origin + l.size >= MAX_FRAME_INDEX)
        <3>1. b = JumpTo(index)
            BY <2>3 DEF Back
        <3> QED BY <3>1, EmptyGood
    <2> QED BY <2>1, <2>2, <2>3
<1>2. m = Ahead(b, index)
    OBVIOUS
<1> HIDE DEF b
<1>3. b.origin \in Int /\ b.size \in Nat
    BY <1>1, FrameListAssumption DEF Good, ListRec
<1>4. CASE b.size = 0
    <2>1. m = [b EXCEPT !.origin = index]
        BY <1>2, <1>4 DEF Ahead
    <2>2. Good(m, ref) /\ m.origin = index
        BY <1>1, <1>4, <2>1, RenumberedGood
    <2> QED BY <2>2
<1>5. CASE b.size # 0 /\ index - b.origin >= max_count /\ index - b.origin > MAX_DROPOUT
    <2>1. m = JumpTo(index)
        BY <1>2, <1>5 DEF Ahead
    <2>2. Good(m, ref) /\ m.origin = index
        BY <2>1, EmptyGood
    <2> QED BY <2>2
<1>6. CASE b.size # 0 /\ ~(index - b.origin >= max_count /\ index - b.origin > MAX_DROPOUT)
    <2>1. m = b
        BY <1>2, <1>6 DEF Ahead
    <2> QED BY <1>1, <1>3, <2>1
<1> QED BY <1>4, <1>5, <1>6

\* jb_framelist_put_at; when it says that the list is full the frame is behind it.
LEMMA PutAtGood ==
    ASSUME NEW l, NEW ref \in Int, Good(l, ref), NEW index \in Int, NEW frame \in Nat, NEW r,
           r = jb_framelist_put_at(l, index, frame)
    PROVE  /\ Good(r.fl, ref)
           /\ r.status = "TOOMANY" => r.fl.origin \in Int /\ index - r.fl.origin >= max_count
<1>1. CASE TooLate(l, index)
    BY <1>1 DEF jb_framelist_put_at
<1>2. CASE ~TooLate(l, index)
    <2> DEFINE m == Ahead(Back(l, index), index)
    <2>1. Good(m, ref) /\ m.origin \in Int /\ index - m.origin \in Nat
        BY AlignedGood
    <2>2. r = PutInto(m, index - m.origin, frame)
        BY <1>2 DEF jb_framelist_put_at, PutAligned
    <2> DEFINE d == index - m.origin
    <2>3. Good(m, ref) /\ d \in Nat /\ r = PutInto(m, d, frame)
        BY <2>1, <2>2
    <2> HIDE DEF m, d
    <2>4. Good(r.fl, ref) /\ (r.status = "TOOMANY" => r.fl = m /\ d >= max_count)
        BY <2>3, PutIntoGood
    <2> QED BY <2>1, <2>4 DEF d
<1> QED BY <1>1, <1>2

\* A put that made room for the frame first.
LEMMA RetriedGood ==
    ASSUME NEW l, NEW ref \in Int, Good(l, ref), NEW index \in Int, NEW frame \in Nat
    PROVE  Good(Retried(jb_framelist_put_at(l, index, frame), index, frame).fl, ref)
<1> DEFINE r == jb_framelist_put_at(l, index, frame)
           count == index - r.fl.origin - max_count + 1
           m == jb_framelist_remove_head(r.fl, count)
<1>1. /\ Good(r.fl, ref)
      /\ r.status = "TOOMANY" => r.fl.origin \in Int /\ index - r.fl.origin >= max_count
    BY PutAtGood
<1> HIDE DEF r
<1>2. CASE r.status # "TOOMANY"
    BY <1>1, <1>2 DEF Retried, r
<1>3. CASE r.status = "TOOMANY"
    <2>1. count \in Nat
        BY <1>1, <1>3, FrameListAssumption
    <2>2. Retried(r, index, frame) = jb_framelist_put_at(m, index, frame)
        BY <1>3 DEF Retried
    <2> HIDE DEF count
    <2>3. Good(m, ref)
        BY <1>1, <2>1, RemoveHeadGood
    <2> HIDE DEF m
    <2>4. Good(jb_framelist_put_at(m, index, frame).fl, ref)
        BY <2>3, PutAtGood
    <2> QED BY <2>2, <2>4 DEF r
<1> QED BY <1>2, <1>3

\* jb_framelist_discard of a frame in the list, after the one discarded last: it is
\* not discarded yet, and it is the last one now.
LEMMA DiscardGood ==
    ASSUME NEW l, NEW ref \in Int, Good(l, ref), NEW seq \in Int, ref < seq,
           l.origin <= seq, seq <= LastSeq(l), NEW m, m = jb_framelist_discard(l, seq)
    PROVE  Good(m, seq)
<1> DEFINE d == seq - l.origin
<1>0. /\ l \in ListRec /\ RingSound(l) /\ max_count \in Nat \ {0} /\ l.size \in 0 .. max_count
      /\ l.origin \in Int /\ l.discarded_num \in Int /\ l.slot \in [Slots -> Int] /\ l.size \in Nat
    BY FrameListAssumption DEF Good, ListRec
<1>1. d \in 0 .. l.size - 1 /\ d \in 0 .. max_count - 1 /\ l.origin + d = seq
    BY <1>0 DEF LastSeq
<1>2. m = [l EXCEPT !.slot[Pos(l, d)] = DISCARDED, !.discarded_num = @ + 1]
    BY DEF jb_framelist_discard
<1> HIDE DEF d
<1>3. Pos(l, d) \in Slots
    BY <1>0, <1>1, Places
<1>4. /\ m.head = l.head /\ m.origin = l.origin /\ m.size = l.size
      /\ m.discarded_num = l.discarded_num + 1
      /\ m.slot = [l.slot EXCEPT ![Pos(l, d)] = DISCARDED]
      /\ m = [head |-> m.head, origin |-> m.origin, size |-> m.size,
              discarded_num |-> m.discarded_num, slot |-> m.slot]
    BY <1>0, <1>2 DEF ListRec
<1>5. m \in ListRec
    <2>1. m.slot \in [Slots -> Int]
        BY <1>0, <1>3, <1>4 DEF DISCARDED
    <2> QED BY <1>0, <1>4, <2>1 DEF ListRec
<1>6. ASSUME NEW k \in 0 .. max_count - 1
      PROVE  At(m, k) = IF k = d THEN DISCARDED ELSE At(l, k)
    <2>1. Pos(l, k) \in Slots /\ Pos(m, k) = Pos(l, k)
        BY <1>0, <1>4, Places DEF Pos
    <2>2. Pos(l, k) = Pos(l, d) => k = d
        BY <1>0, <1>1, PlacesApart
    <2> QED BY <1>0, <1>4, <2>1, <2>2 DEF At
<1>7. At(l, d) # DISCARDED
    BY <1>0, <1>1 DEF Good, Marked
<1>8. /\ \A k \in l.size .. max_count - 1 : At(l, k) = MISSING
      /\ l.discarded_num = Cardinality(Dis(l, l.size))
    BY <1>0, RingView
<1>9. 0 .. l.size - 1 \subseteq 0 .. max_count - 1
    BY <1>0
<1>10. Dis(m, m.size) = Dis(l, l.size) \cup {d} /\ d \notin Dis(l, l.size)
    BY <1>1, <1>4, <1>6, <1>7, <1>9 DEF Dis
<1>11. m.discarded_num = Cardinality(Dis(m, m.size))
    <2>1. IsFiniteSet(Dis(l, l.size))
        BY <1>0, DisFinite
    <2> QED BY <1>4, <1>8, <1>10, <2>1, FS_AddElement
<1>12. \A k \in m.size .. max_count - 1 : At(m, k) = MISSING
    <2> SUFFICES ASSUME NEW k \in m.size .. max_count - 1 PROVE At(m, k) = MISSING
        OBVIOUS
    <2>1. k \in l.size .. max_count - 1 /\ k \in 0 .. max_count - 1 /\ k # d
        BY <1>0, <1>1, <1>4
    <2> QED BY <1>6, <1>8, <2>1
<1>13. RingSound(m)
    BY <1>5, <1>11, <1>12, RingView
<1>14. ASSUME NEW k \in 0 .. m.size - 1, At(m, k) = DISCARDED PROVE m.origin + k <= seq
    <2>1. k \in 0 .. l.size - 1 /\ k \in 0 .. max_count - 1
        BY <1>4, <1>9
    <2>2. CASE k = d
        BY <1>0, <1>1, <1>4, <2>2
    <2>3. CASE k # d
        <3>1. At(l, k) = DISCARDED
            BY <1>6, <1>14, <2>1, <2>3
        <3>2. l.origin + k <= ref
            BY <2>1, <3>1 DEF Good, Marked
        <3> QED BY <1>0, <1>4, <2>1, <3>2
    <2> QED BY <2>2, <2>3
<1> QED BY <1>5, <1>13, <1>14 DEF Good, Marked

-------------------------------------------------------------------------------
(* The adaptation of the buffer.                                           *)

\* The bounds of the levels.
LEMMA Levels ==
    /\ max_count \in Nat \ {0} /\ MaxLevel \in Nat /\ LevelCap \in Nat
    /\ jb_max_burst \in Nat /\ jb_max_burst <= LevelCap
    /\ jb_min_prefetch \in Nat /\ jb_max_prefetch \in Nat
    /\ INIT_CYCLE \in Nat \ {0} /\ STABLE_HISTORY_LIMIT \in Nat /\ jb_min_shrink_gap \in Nat \ {0}
    /\ MIN_BURST \in Nat /\ MAX_BURST \in Nat /\ MIN_BURST < MAX_BURST
    /\ T1 \in Nat /\ T2 \in Nat /\ T1 <= T2
    BY FrameListAssumption, JitterBufferAssumption DEF MaxLevel, LevelCap, Larger

\* What adapting the levels leaves alone.
Same(b, c) ==
    /\ c.fl = b.fl /\ c.algo = b.algo /\ c.discard_ref = b.discard_ref /\ c.discard_dist = b.discard_dist
    /\ c.status = b.status /\ c.last_op = b.last_op /\ c.init_cycle_cnt = b.init_cycle_cnt

\* The prefetch stays within its bounds.
LEMMA PrefetchSteady ==
    ASSUME NEW b \in BufRec
    PROVE  Prefetch(b) \in BufRec /\ Same(b, Prefetch(b))
<1> DEFINE x == IF b.init_prefetch = 0 THEN b.prefetch
                ELSE AtMost(Larger(b.eff_level, jb_min_prefetch), jb_max_prefetch)
<1>1. x \in 0 .. jb_max_prefetch
    <2>1. b.eff_level \in Nat /\ b.prefetch \in 0 .. jb_max_prefetch
        BY Levels DEF BufRec
    <2> QED BY <2>1, Levels DEF AtMost, Larger
<1>2. Prefetch(b) = [b EXCEPT !.prefetch = x]
    BY DEF Prefetch, BufRec
<1> HIDE DEF x
<1> QED BY <1>1, <1>2 DEF BufRec, Same

\* A level lowered stays above zero, one raised within the buffer.
LEMMA NewLevelSteady ==
    ASSUME NEW b \in BufRec
    PROVE  NewLevel(b) \in BufRec /\ Same(b, NewLevel(b))
<1>0. /\ b.level \in Nat /\ b.eff_level \in Nat /\ b.eff_level <= MaxLevel
      /\ b.max_hist_level \in Nat /\ b.stable_hist \in 0 .. STABLE_HISTORY_LIMIT
    BY Levels DEF BufRec
<1>1. CASE b.level < b.eff_level /\ b.stable_hist + 1 > STABLE_HISTORY_LIMIT
    <2> DEFINE x == b.eff_level - Larger(1, (b.eff_level - b.max_hist_level) \div 3)
               c == [b EXCEPT !.eff_level = x, !.max_hist_level = 0, !.stable_hist = 0]
    <2>1. x \in 0 .. MaxLevel
        BY <1>0, <1>1, Levels DEF Larger
    <2>2. NewLevel(b) = Prefetch(c)
        <3>1. NewLevel(b) = Lowered(b)
            BY <1>1 DEF NewLevel
        <3>2. [b EXCEPT !.eff_level = @ - Larger(1, (@ - b.max_hist_level) \div 3),
                        !.max_hist_level = 0, !.stable_hist = 0] = c
            OBVIOUS
        <3> HIDE DEF c, x
        <3> QED BY <3>1, <3>2 DEF Lowered
    <2> HIDE DEF x
    <2>3. c \in BufRec /\ Same(b, c)
        <3>1. 0 \in 0 .. STABLE_HISTORY_LIMIT /\ 0 \in 0 .. jb_max_burst
            BY Levels
        <3>2. c \in BufRec
            BY <2>1, <3>1 DEF BufRec
        <3> QED BY <3>2 DEF BufRec, Same
    <2> HIDE DEF c
    <2>4. Prefetch(c) \in BufRec /\ Same(c, Prefetch(c))
        BY <2>3, PrefetchSteady
    <2> QED BY <2>2, <2>3, <2>4 DEF Same
<1>2. CASE b.level < b.eff_level /\ ~(b.stable_hist + 1 > STABLE_HISTORY_LIMIT)
    <2>1. NewLevel(b) = [b EXCEPT !.stable_hist = b.stable_hist + 1]
        BY <1>2 DEF NewLevel, BufRec
    <2>2. b.stable_hist + 1 \in 0 .. STABLE_HISTORY_LIMIT
        BY <1>0, <1>2, Levels
    <2> QED BY <2>1, <2>2 DEF BufRec, Same
<1>3. CASE ~(b.level < b.eff_level) /\ b.level > b.eff_level
    <2> DEFINE x == AtMost(b.max_hist_level, MaxLevel)
               c == [b EXCEPT !.eff_level = x, !.stable_hist = 0]
    <2>1. x \in 0 .. MaxLevel
        BY <1>0, Levels DEF AtMost
    <2>2. NewLevel(b) = Prefetch(c)
        BY <1>3 DEF NewLevel, Raised
    <2> HIDE DEF x
    <2>3. c \in BufRec /\ Same(b, c)
        <3>1. 0 \in 0 .. STABLE_HISTORY_LIMIT /\ 0 \in 0 .. jb_max_burst
            BY Levels
        <3>2. c \in BufRec
            BY <2>1, <3>1 DEF BufRec
        <3> QED BY <3>2 DEF BufRec, Same
    <2> HIDE DEF c
    <2>4. Prefetch(c) \in BufRec /\ Same(c, Prefetch(c))
        BY <2>3, PrefetchSteady
    <2> QED BY <2>2, <2>3, <2>4 DEF Same
<1>4. CASE ~(b.level < b.eff_level) /\ ~(b.level > b.eff_level)
    <2>1. NewLevel(b) = [b EXCEPT !.stable_hist = 0]
        BY <1>4 DEF NewLevel
    <2> QED BY <2>1, Levels DEF BufRec, Same
<1> QED BY <1>1, <1>2, <1>3, <1>4

\* The end of a burst; bursts too long to count are left out.
LEMMA SwitchedSteady ==
    ASSUME NEW b \in BufRec
    PROVE  Switched(b) \in BufRec /\ Same(b, Switched(b))
<1> DEFINE c == IF b.last_op = "GET" /\ b.level <= jb_max_burst THEN jbuf_calculate_jitter(b) ELSE b
<1>1. c \in BufRec /\ Same(b, c)
    <2>1. CASE b.last_op = "GET" /\ b.level <= jb_max_burst
        <3> DEFINE x == Larger(b.max_hist_level, b.level)
                   d == [b EXCEPT !.max_hist_level = x]
        <3>1. x \in 0 .. jb_max_burst
            BY <2>1, Levels DEF Larger, BufRec
        <3>2. c = NewLevel(d)
            BY <2>1 DEF jbuf_calculate_jitter, BufRec
        <3> HIDE DEF x, c
        <3>3. d \in BufRec /\ Same(b, d)
            BY <3>1 DEF BufRec, Same
        <3> HIDE DEF d
        <3>4. NewLevel(d) \in BufRec /\ Same(d, NewLevel(d))
            BY <3>3, NewLevelSteady
        <3> QED BY <3>2, <3>3, <3>4 DEF Same
    <2>2. CASE ~(b.last_op = "GET" /\ b.level <= jb_max_burst)
        BY <2>2 DEF Same
    <2> QED BY <2>1, <2>2
<1>2. Switched(b) = [c EXCEPT !.level = 0]
    BY DEF Switched
<1> HIDE DEF c
<1>3. [c EXCEPT !.level = 0] \in BufRec /\ Same(c, [c EXCEPT !.level = 0])
    BY <1>1, Levels DEF BufRec, Same
<1> QED BY <1>1, <1>2, <1>3 DEF Same

\* A change between puts and gets, before anything is discarded: the cycles are
\* counted until the buffer is in use, which starts with a get.
LEMMA ChangeSteady ==
    ASSUME NEW b \in BufRec, Counted(b), NEW oper \in {"PUT", "GET"}, b.last_op # oper, NEW c,
           c = IF b.status = "INITIALIZING"
               THEN Starting([b EXCEPT !.last_op = oper, !.init_cycle_cnt = @ + 1])
               ELSE Switched([b EXCEPT !.last_op = oper])
    PROVE  c \in BufRec /\ Counted(c) /\ c.fl = b.fl /\ c.algo = b.algo /\ c.discard_ref = b.discard_ref
<1>1. CASE b.status # "INITIALIZING"
    <2> DEFINE d == [b EXCEPT !.last_op = oper]
    <2>1. d \in BufRec
        BY DEF BufRec
    <2>2. d.status = b.status /\ d.fl = b.fl /\ d.algo = b.algo /\ d.discard_ref = b.discard_ref
        BY DEF BufRec
    <2>3. c = Switched(d)
        BY <1>1
    <2> HIDE DEF d
    <2>4. c \in BufRec /\ Same(d, c)
        BY <2>1, <2>3, SwitchedSteady
    <2> QED BY <1>1, <2>2, <2>4 DEF Same, Counted
<1>2. CASE b.status = "INITIALIZING"
    <2> DEFINE n == b.init_cycle_cnt + 1
               d == [b EXCEPT !.last_op = oper, !.init_cycle_cnt = n]
    <2>1. /\ n \in 0 .. INIT_CYCLE + 1
          /\ n = INIT_CYCLE + 1 => oper = "GET"
        BY <1>2, Levels DEF Counted, BufRec
    <2>2. c = Starting(d)
        BY <1>2
    <2> HIDE DEF n
    <2>3. d \in BufRec
        BY <2>1 DEF BufRec
    <2>4. /\ d.status = "INITIALIZING" /\ d.last_op = oper /\ d.init_cycle_cnt = n
          /\ d.fl = b.fl /\ d.algo = b.algo /\ d.discard_ref = b.discard_ref
        BY <1>2 DEF BufRec
    <2> HIDE DEF d
    <2>5. CASE n >= INIT_CYCLE /\ oper = "GET"
        <3> DEFINE x == AtMost(d.level, jb_max_burst)
                   e == [d EXCEPT !.status = "PROCESSING", !.level = x]
        <3>1. x \in 0 .. LevelCap
            BY <2>3, Levels DEF AtMost, BufRec
        <3>2. c = Switched(e)
            BY <2>2, <2>4, <2>5 DEF Starting
        <3> HIDE DEF x
        <3>3. e \in BufRec
            BY <2>3, <3>1 DEF BufRec
        <3>4. e.status = "PROCESSING" /\ e.fl = d.fl /\ e.algo = d.algo /\ e.discard_ref = d.discard_ref
            BY <2>3 DEF BufRec
        <3> HIDE DEF e
        <3>5. c \in BufRec /\ Same(e, c)
            BY <3>2, <3>3, SwitchedSteady
        <3> QED BY <2>4, <3>4, <3>5 DEF Same, Counted
    <2>6. CASE ~(n >= INIT_CYCLE /\ oper = "GET")
        <3>1. c = [d EXCEPT !.level = 0]
            BY <2>2, <2>4, <2>6 DEF Starting
        <3>2. c \in BufRec
            BY <2>3, <3>1, Levels DEF BufRec
        <3>3. Same(d, c)
            BY <2>3, <3>1 DEF BufRec, Same
        <3>4. n <= INIT_CYCLE /\ (n = INIT_CYCLE => oper = "PUT")
            BY <2>1, <2>6, Levels
        <3> QED BY <2>4, <3>2, <3>3, <3>4 DEF Same, Counted
    <2> QED BY <2>5, <2>6
<1> QED BY <1>1, <1>2

\* How long a discard may take.
LEMMA TimeType ==
    ASSUME NEW burst \in Nat
    PROVE  DiscardTime(burst) \in Nat
<1>1. CASE burst <= MIN_BURST \/ burst >= MAX_BURST
    BY <1>1, Levels DEF DiscardTime
<1>2. CASE ~(burst <= MIN_BURST) /\ ~(burst >= MAX_BURST)
    <2> DEFINE x == T2 - T1
               y == burst - MIN_BURST
               w == MAX_BURST - MIN_BURST
               q == (x * y) \div w
    <2>1. x \in Nat /\ y \in Nat /\ w \in Nat \ {0}
        BY <1>2, Levels
    <2> HIDE DEF x, y, w
    <2>2. x * y \in Nat
        BY <2>1
    <2>3. q \in Nat
        <3> DEFINE z == x * y
        <3>1. z \in Nat
            BY <2>2
        <3> HIDE DEF z
        <3>2. z \div w \in Nat
            BY <2>1, <3>1
        <3> QED BY <3>2 DEF z
    <2>4. DiscardTime(burst) = T1 + q
        BY <1>2 DEF DiscardTime, x, y, w
    <2> HIDE DEF q
    <2> QED BY <2>3, <2>4, Levels
<1> QED BY <1>1, <1>2

\* The list of a buffer that is all right, and its sizes.
LEMMA ListOf ==
    ASSUME NEW b, BufInv(b)
    PROVE  /\ b \in BufRec /\ Counted(b) /\ \E ref \in Refs(b) : ref \in Int /\ Good(b.fl, ref)
           /\ Refs(b) \subseteq Int
           /\ b.fl \in ListRec /\ RingSound(b.fl)
           /\ b.fl.size \in Nat /\ b.fl.origin \in Int /\ b.fl.discarded_num \in Nat
           /\ jb_framelist_eff_size(b.fl) \in Int /\ jb_framelist_eff_size(b.fl) <= b.fl.size
           /\ BurstLevel(b) \in Nat
<1>1. b \in BufRec /\ b.discard_ref \in Int /\ b.level \in Nat /\ b.eff_level \in Nat
    BY Levels DEF BufInv, BufRec
<1>2. PICK ref \in Refs(b) : ref \in Int /\ Good(b.fl, ref)
    BY <1>1 DEF Refs, BufInv
<1>3. /\ b.fl \in ListRec /\ RingSound(b.fl) /\ b.fl.size \in Nat /\ b.fl.origin \in Int
    BY <1>2, FrameListAssumption DEF Good, ListRec
<1>4. b.fl.discarded_num \in Nat
    BY <1>3, RingView, DisFinite
<1>5. Refs(b) \subseteq Int
    BY <1>1 DEF Refs
<1> QED BY <1>1, <1>2, <1>3, <1>4, <1>5 DEF BufInv, jb_framelist_eff_size, BurstLevel, Larger

\* The static algorithm drops frames at the head.
LEMMA StaticGood ==
    ASSUME NEW b, BufInv(b), b.algo = "STATIC"
    PROVE  BufInv(jbuf_discard_static(b))
<1>0. /\ b \in BufRec /\ Counted(b) /\ b.discard_ref \in Int /\ b.fl \in ListRec
      /\ b.fl.size \in Nat /\ b.fl.origin \in Int /\ \A ref \in Int : Good(b.fl, ref)
    BY ListOf DEF BufInv, Refs, BufRec
<1>1. CASE ~(jb_framelist_eff_size(b.fl) - 2 * BurstLevel(b) >= 1)
    BY <1>1 DEF jbuf_discard_static
<1>2. CASE jb_framelist_eff_size(b.fl) - 2 * BurstLevel(b) >= 1
    <2> DEFINE x == AtMost(b.discard_ref, b.fl.origin)
               c == [b EXCEPT !.discard_ref = x]
    <2>1. x \in Int
        BY <1>0 DEF AtMost
    <2>2. jbuf_discard_static(b) = StaticShrink(c)
        BY <1>2 DEF jbuf_discard_static, BufRec
    <2> HIDE DEF x
    <2>3. /\ c \in BufRec /\ c.fl = b.fl /\ c.discard_ref = x /\ c.algo = b.algo
          /\ c.status = b.status /\ c.init_cycle_cnt = b.init_cycle_cnt /\ c.last_op = b.last_op
        BY <1>0, <2>1 DEF BufRec
    <2> HIDE DEF c
    <2>4. CASE ~(c.fl.origin - c.discard_ref >= jb_min_shrink_gap)
        <3>1. jbuf_discard_static(b) = c
            BY <2>2, <2>4 DEF StaticShrink
        <3> QED BY <1>0, <2>3, <3>1 DEF BufInv, Refs, Counted
    <2>5. CASE c.fl.origin - c.discard_ref >= jb_min_shrink_gap
        <3> DEFINE m == jb_framelist_remove_head(b.fl, 1)
                   y == b.fl.origin + AtMost(1, b.fl.size)
                   d == [c EXCEPT !.fl = m, !.discard_ref = y]
        <3>1. y \in Int
            BY <1>0 DEF AtMost
        <3>2. \A ref \in Int : Good(m, ref)
            BY <1>0, RemoveHeadGood
        <3>3. jbuf_discard_static(b) = d
            BY <2>2, <2>3, <2>5 DEF StaticShrink
        <3> HIDE DEF m, y
        <3>4. m \in ListRec
            BY <3>2 DEF Good
        <3>5. d \in BufRec
            BY <2>3, <3>1, <3>4 DEF BufRec
        <3>6. /\ d.fl = m /\ d.algo = c.algo
              /\ d.status = c.status /\ d.init_cycle_cnt = c.init_cycle_cnt /\ d.last_op = c.last_op
            BY <2>3 DEF BufRec
        <3> HIDE DEF d
        <3>7. Counted(d)
            BY <1>0, <2>3, <3>6 DEF Counted
        <3>8. \A ref \in Refs(d) : Good(d.fl, ref)
            BY <2>3, <3>2, <3>6 DEF Refs
        <3> QED BY <3>3, <3>5, <3>7, <3>8 DEF BufInv
    <2> QED BY <2>4, <2>5
<1> QED BY <1>1, <1>2

\* The progressive algorithm discards the frame that is due, a gap after the last one.
LEMMA ProgressiveGood ==
    ASSUME NEW b, BufInv(b), b.algo = "PROGRESSIVE"
    PROVE  BufInv(jbuf_discard_progressive(b))
<1>0. /\ b \in BufRec /\ Counted(b) /\ b.discard_ref \in Int /\ b.fl \in ListRec
      /\ b.fl.size \in Nat /\ b.fl.origin \in Int /\ Good(b.fl, b.discard_ref)
      /\ jb_framelist_eff_size(b.fl) \in Int /\ jb_framelist_eff_size(b.fl) <= b.fl.size
      /\ BurstLevel(b) \in Nat
    BY ListOf DEF BufInv, Refs, BufRec
<1>1. CASE b.last_op # "PUT"
    BY <1>1 DEF jbuf_discard_progressive
<1>2. CASE b.last_op = "PUT" /\ jb_framelist_eff_size(b.fl) <= BurstLevel(b)
    <2> DEFINE c == [b EXCEPT !.discard_dist = 0]
    <2>1. jbuf_discard_progressive(b) = c
        BY <1>2 DEF jbuf_discard_progressive
    <2>2. c \in BufRec
        BY <1>0 DEF BufRec
    <2>3. /\ c.fl = b.fl /\ c.discard_ref = b.discard_ref /\ c.algo = b.algo
          /\ c.status = b.status /\ c.init_cycle_cnt = b.init_cycle_cnt /\ c.last_op = b.last_op
        BY <1>0 DEF BufRec
    <2> HIDE DEF c
    <2> QED BY <1>0, <2>1, <2>2, <2>3 DEF BufInv, Refs, Counted
<1>3. CASE b.last_op = "PUT" /\ ~(jb_framelist_eff_size(b.fl) <= BurstLevel(b))
    <2> DEFINE end == LastSeq(b.fl)
               ref == IF b.discard_dist = 0 THEN end ELSE AtMost(b.discard_ref, end)
               over == jb_framelist_eff_size(b.fl) - BurstLevel(b)
               q == DiscardTime(BurstLevel(b)) \div over
               dist == Larger(jb_min_shrink_gap, q)
               c == [b EXCEPT !.discard_ref = ref, !.discard_dist = dist]
    <2>1. jbuf_discard_progressive(b) = DiscardDue(c)
        BY <1>3 DEF jbuf_discard_progressive, Scheduled
    <2>2. b.fl.size >= 1 /\ end \in Int /\ b.fl.origin <= end /\ ref \in Int /\ ref <= end
        BY <1>0, <1>3 DEF LastSeq, AtMost
    <2>3. dist \in Nat \ {0}
        <3>1. DiscardTime(BurstLevel(b)) \in Nat
            BY <1>0, TimeType
        <3>2. over \in Nat \ {0}
            BY <1>0, <1>3
        <3> HIDE DEF over
        <3>3. q \in Nat
            BY <3>1, <3>2
        <3> HIDE DEF q
        <3> QED BY <3>3, Levels DEF Larger
    <2>4. Good(b.fl, ref)
        <3>1. ASSUME NEW k \in 0 .. b.fl.size - 1, At(b.fl, k) = DISCARDED PROVE b.fl.origin + k <= ref
            <4>1. b.fl.origin + k <= b.discard_ref
                BY <1>0, <3>1 DEF Good, Marked
            <4>2. b.fl.origin + k <= end
                BY <1>0 DEF LastSeq
            <4> HIDE DEF end
            <4> QED BY <1>0, <2>2, <4>1, <4>2 DEF AtMost
        <3> QED BY <1>0, <3>1 DEF Good, Marked
    <2>5. end = LastSeq(b.fl)
        OBVIOUS
    <2> HIDE DEF end, ref, dist, over, q
    <2>6. c \in BufRec
        BY <1>0, <2>2, <2>3 DEF BufRec
    <2>7. /\ c.fl = b.fl /\ c.discard_ref = ref /\ c.discard_dist = dist /\ c.algo = b.algo
          /\ c.status = b.status /\ c.init_cycle_cnt = b.init_cycle_cnt /\ c.last_op = b.last_op
        BY <1>0 DEF BufRec
    <2> HIDE DEF c
    <2>8. CASE ~(end >= ref + dist)
        <3>1. jbuf_discard_progressive(b) = c
            BY <2>1, <2>5, <2>7, <2>8 DEF DiscardDue
        <3> QED BY <1>0, <2>4, <2>6, <2>7, <3>1 DEF BufInv, Refs, Counted
    <2>9. CASE end >= ref + dist
        <3> DEFINE seq == Larger(ref + dist, b.fl.origin)
                   m == jb_framelist_discard(b.fl, seq)
                   d == [c EXCEPT !.fl = m, !.discard_ref = seq]
        <3>1. seq \in Int /\ ref < seq /\ b.fl.origin <= seq /\ seq <= end
            BY <1>0, <2>2, <2>3, <2>9 DEF Larger
        <3>2. jbuf_discard_progressive(b) = d
            BY <2>1, <2>5, <2>7, <2>9 DEF DiscardDue, DiscardAt
        <3> HIDE DEF seq
        <3>3. Good(m, seq)
            BY <2>2, <2>4, <2>5, <3>1, DiscardGood
        <3> HIDE DEF m
        <3>4. m \in ListRec
            BY <3>3 DEF Good
        <3>5. d \in BufRec
            BY <2>6, <3>1, <3>4 DEF BufRec
        <3>6. /\ d.fl = m /\ d.discard_ref = seq /\ d.algo = c.algo
              /\ d.status = c.status /\ d.init_cycle_cnt = c.init_cycle_cnt /\ d.last_op = c.last_op
            BY <2>6 DEF BufRec
        <3> HIDE DEF d
        <3>7. Counted(d)
            BY <1>0, <2>7, <3>6 DEF Counted
        <3>8. \A x \in Refs(d) : Good(d.fl, x)
            BY <2>7, <3>3, <3>6 DEF Refs
        <3> QED BY <3>2, <3>5, <3>7, <3>8 DEF BufInv
    <2> QED BY <2>8, <2>9
<1> QED BY <1>1, <1>2, <1>3

\* jbuf_update: the adaptation, then the discard.
LEMMA UpdateGood ==
    ASSUME NEW b, BufInv(b), NEW oper \in {"PUT", "GET"}
    PROVE  BufInv(jbuf_update(b, oper))
<1> DEFINE c == IF b.last_op = oper THEN b
                ELSE IF b.status = "INITIALIZING"
                THEN Starting([b EXCEPT !.last_op = oper, !.init_cycle_cnt = @ + 1])
                ELSE Switched([b EXCEPT !.last_op = oper])
<1>0. b \in BufRec /\ Counted(b)
    BY DEF BufInv
<1>1. BufInv(c)
    <2>1. CASE b.last_op = oper
        BY <2>1
    <2>2. CASE b.last_op # oper
        <3>1. c \in BufRec /\ Counted(c) /\ c.fl = b.fl /\ c.algo = b.algo /\ c.discard_ref = b.discard_ref
            BY <1>0, <2>2, ChangeSteady, ZenonT(60)
        <3> HIDE DEF c
        <3> QED BY <3>1 DEF BufInv, Refs
    <2> QED BY <2>1, <2>2
<1>2. jbuf_update(b, oper) = Discard(c)
    BY DEF jbuf_update
<1> HIDE DEF c
<1>3. c.status \in {"INITIALIZING", "PROCESSING"} /\ c.algo \in {"NONE", "STATIC", "PROGRESSIVE"}
    BY <1>1 DEF BufInv, BufRec
<1>4. CASE c.status = "INITIALIZING" \/ c.algo = "NONE"
    <2>1. Discard(c) = c
        BY <1>4 DEF Discard
    <2> QED BY <1>1, <1>2, <2>1
<1>5. CASE c.status = "PROCESSING" /\ c.algo = "STATIC"
    <2>1. Discard(c) = jbuf_discard_static(c)
        BY <1>5 DEF Discard
    <2> QED BY <1>1, <1>2, <1>5, <2>1, StaticGood
<1>6. CASE c.status = "PROCESSING" /\ c.algo = "PROGRESSIVE"
    <2>1. Discard(c) = jbuf_discard_progressive(c)
        BY <1>6 DEF Discard
    <2> QED BY <1>1, <1>2, <1>6, <2>1, ProgressiveGood
<1> QED BY <1>3, <1>4, <1>5, <1>6

\* A buffer with another list, as good for its references, and another prefetch flag,
\* after a burst that is n frames longer.
LEMMA BurstGood ==
    ASSUME NEW b, BufInv(b), NEW l, \A ref \in Refs(b) : Good(l, ref), NEW p \in BOOLEAN, NEW n \in Nat,
           NEW c, c = Burst([b EXCEPT !.fl = l, !.prefetching = p], n)
    PROVE  BufInv(c)
<1> DEFINE d == [b EXCEPT !.fl = l, !.prefetching = p]
           x == AtMost(b.level + n, LevelCap)
<1>0. b \in BufRec /\ Counted(b) /\ l \in ListRec
    BY ListOf DEF Good
<1>1. d \in BufRec /\ d.level = b.level
    BY <1>0 DEF BufRec
<1>2. x \in 0 .. LevelCap
    BY <1>0, Levels DEF AtMost, BufRec
<1>3. /\ d.fl = l /\ d.algo = b.algo /\ d.discard_ref = b.discard_ref
      /\ d.status = b.status /\ d.init_cycle_cnt = b.init_cycle_cnt /\ d.last_op = b.last_op
    BY <1>0 DEF BufRec
<1> HIDE DEF d
<1>4. c = [d EXCEPT !.level = x]
    BY <1>1 DEF Burst, d
<1> HIDE DEF x
<1>5. c \in BufRec
    BY <1>1, <1>2, <1>4 DEF BufRec
<1>6. /\ c.fl = l /\ c.algo = b.algo /\ c.discard_ref = b.discard_ref
      /\ c.status = b.status /\ c.init_cycle_cnt = b.init_cycle_cnt /\ c.last_op = b.last_op
    BY <1>1, <1>3, <1>4 DEF BufRec
<1> QED BY <1>0, <1>5, <1>6 DEF BufInv, Refs, Counted

-------------------------------------------------------------------------------
(* The operations of the buffer.                                           *)

\* pjmedia_jbuf_put_frame3 of a frame with any index.
LEMMA PutFrameGood ==
    ASSUME NEW b, BufInv(b), NEW index \in Int, NEW frame \in Nat
    PROVE  BufInv(pjmedia_jbuf_put_frame3(b, index, frame))
<1> DEFINE r == Retried(jb_framelist_put_at(b.fl, index, frame), index, frame)
           old == jb_framelist_eff_size(b.fl)
           new == jb_framelist_eff_size(r.fl)
           p == b.prefetching /\ new < b.prefetch
           n == Larger(1, new - old)
           c == [b EXCEPT !.fl = r.fl, !.prefetching = p]
           d == [b EXCEPT !.fl = r.fl]
<1>0. b \in BufRec /\ Counted(b) /\ old \in Int /\ Refs(b) \subseteq Int
    BY ListOf
<1>1. \A ref \in Refs(b) : Good(r.fl, ref)
    BY <1>0, RetriedGood DEF BufInv
<1>2. pjmedia_jbuf_put_frame3(b, index, frame) = PutDone(b, r, old, new)
    BY DEF pjmedia_jbuf_put_frame3, PutSized
<1> HIDE DEF r
<1>3. r.fl \in ListRec /\ new \in Int
    <2>1. r.fl \in ListRec
        BY <1>1, ListOf DEF Good
    <2>2. r.fl.size \in Int /\ r.fl.discarded_num \in Int
        BY <2>1, FrameListAssumption DEF ListRec
    <2> QED BY <2>1, <2>2 DEF jb_framelist_eff_size
<1> HIDE DEF old, new
<1>4. n \in Nat
    BY <1>0, <1>3 DEF Larger
<1>5. p \in BOOLEAN
    OBVIOUS
<1>6. CASE r.status = "SUCCESS"
    <2>1. PutDone(b, r, old, new) = jbuf_update(Burst(c, n), "PUT")
        BY <1>6 DEF PutDone
    <2> HIDE DEF p, n
    <2>2. BufInv(Burst(c, n))
        BY <1>1, <1>4, <1>5, BurstGood
    <2> HIDE DEF c
    <2> QED BY <1>2, <2>1, <2>2, UpdateGood
<1>7. CASE r.status # "SUCCESS"
    <2>1. PutDone(b, r, old, new) = d
        BY <1>7 DEF PutDone
    <2>2. d \in BufRec
        BY <1>0, <1>3 DEF BufRec
    <2>3. /\ d.fl = r.fl /\ d.algo = b.algo /\ d.discard_ref = b.discard_ref
          /\ d.status = b.status /\ d.init_cycle_cnt = b.init_cycle_cnt /\ d.last_op = b.last_op
        BY <1>0 DEF BufRec
    <2> HIDE DEF d
    <2> QED BY <1>0, <1>1, <1>2, <2>1, <2>2, <2>3 DEF BufInv, Refs, Counted
<1> QED BY <1>6, <1>7

\* pjmedia_jbuf_get_frame3.
LEMMA GetFrameGood ==
    ASSUME NEW b, BufInv(b)
    PROVE  BufInv(pjmedia_jbuf_get_frame3(b).jb)
<1> DEFINE r == IF b.prefetching THEN [frame |-> NONE, fl |-> b.fl] ELSE jb_framelist_get(b.fl)
           p == b.prefetching \/ (r.frame = NONE /\ b.prefetch # 0)
           c == [b EXCEPT !.fl = r.fl, !.prefetching = p]
<1>0. b \in BufRec /\ Refs(b) \subseteq Int
    BY ListOf
<1>1. \A ref \in Refs(b) : Good(r.fl, ref)
    BY <1>0, GetGood DEF BufInv
<1>2. pjmedia_jbuf_get_frame3(b) = GetDone(b, r)
    BY DEF pjmedia_jbuf_get_frame3
<1> HIDE DEF r
<1>3. p \in BOOLEAN
    <2>1. b.prefetching \in BOOLEAN
        BY <1>0 DEF BufRec
    <2> QED BY <2>1
<1>4. GetDone(b, r).jb = jbuf_update(Burst(c, 1), "GET")
    BY DEF GetDone
<1> HIDE DEF p
<1>5. BufInv(Burst(c, 1))
    BY <1>1, <1>3, BurstGood
<1> HIDE DEF c
<1> QED BY <1>2, <1>4, <1>5, UpdateGood

\* pjmedia_jbuf_reset.
LEMMA ResetGood ==
    ASSUME NEW b, BufInv(b)
    PROVE  BufInv(pjmedia_jbuf_reset(b))
<1> DEFINE p == b.prefetch # 0
           c == [b EXCEPT !.level = 0, !.last_op = "INIT", !.stable_hist = 0, !.status = "INITIALIZING",
                          !.init_cycle_cnt = 0, !.max_hist_level = 0, !.prefetching = p,
                          !.discard_dist = 0, !.fl = jb_framelist_reset]
<1>0. b \in BufRec
    BY DEF BufInv
<1>1. \A ref : Good(jb_framelist_reset, ref)
    BY EmptyGood
<1>2. jb_framelist_reset \in ListRec
    BY <1>1 DEF Good
<1>3. p \in BOOLEAN
    OBVIOUS
<1>4. /\ 0 \in 0 .. LevelCap /\ 0 \in 0 .. STABLE_HISTORY_LIMIT /\ 0 \in 0 .. jb_max_burst
      /\ 0 \in 0 .. INIT_CYCLE + 1 /\ 0 \in Nat /\ 0 < INIT_CYCLE /\ INIT_CYCLE \in Nat
    BY Levels
<1>5. pjmedia_jbuf_reset(b) = c
    BY DEF pjmedia_jbuf_reset
<1> HIDE DEF p
<1>6. c \in BufRec
    BY <1>0, <1>2, <1>3, <1>4 DEF BufRec
<1>7. c.fl = jb_framelist_reset /\ c.init_cycle_cnt = 0
    BY <1>0 DEF BufRec
<1> HIDE DEF c
<1> QED BY <1>1, <1>4, <1>5, <1>6, <1>7 DEF BufInv, Counted

\* pjmedia_jbuf_create and the settings of the stream.
LEMMA CreateGood ==
    ASSUME NEW s \in Settings
    PROVE  BufInv(pjmedia_jbuf_create(s.prefetch, s.algo))
<1> DEFINE p == MaxLevel # 0
           c == pjmedia_jbuf_create(s.prefetch, s.algo)
<1>0. s.algo \in {"NONE", "STATIC", "PROGRESSIVE"} /\ s.prefetch \in 0 .. jb_max_prefetch
    BY AudioReceiveAssumption
<1>1. \A ref : Good(jb_framelist_reset, ref)
    BY EmptyGood
<1>2. jb_framelist_reset \in ListRec
    BY <1>1 DEF Good
<1>3. p \in BOOLEAN
    OBVIOUS
<1>4. /\ 0 \in 0 .. LevelCap /\ 0 \in 0 .. STABLE_HISTORY_LIMIT /\ 0 \in 0 .. jb_max_burst
      /\ 0 \in 0 .. INIT_CYCLE + 1 /\ 0 \in Nat /\ 0 \in Int /\ 0 < INIT_CYCLE /\ INIT_CYCLE \in Nat /\ 0 \in 0 .. MaxLevel
    BY Levels
<1>5. c = [level |-> 0, last_op |-> "INIT", stable_hist |-> 0, status |-> "INITIALIZING",
           init_cycle_cnt |-> 0, max_hist_level |-> 0, eff_level |-> 0, discard_ref |-> 0,
           discard_dist |-> 0, fl |-> jb_framelist_reset, prefetching |-> p,
           prefetch |-> s.prefetch, init_prefetch |-> s.prefetch, algo |-> s.algo]
    BY DEF pjmedia_jbuf_create
<1> HIDE DEF p
<1>6. c \in BufRec
    BY <1>0, <1>2, <1>3, <1>4, <1>5 DEF BufRec
<1>7. c.fl = jb_framelist_reset /\ c.init_cycle_cnt = 0
    BY <1>5
<1> HIDE DEF c
<1>8. BufInv(c)
    BY <1>1, <1>4, <1>6, <1>7 DEF BufInv, Counted
<1> QED BY <1>8 DEF c

-------------------------------------------------------------------------------
(* The stream.                                                             *)

\* The initial state.
LEMMA InitInv == Init => IInv
<1> SUFFICES ASSUME Init PROVE IInv
    OBVIOUS
<1>1. BufInv(jb)
    BY CreateGood DEF Init
<1>2. Packets \in Nat /\ SOFT_START \in Nat /\ Starts \subseteq 0 .. IdxMod - 1
    BY AudioReceiveAssumption
<1>3. source.n = 0 /\ source.index \in Starts
    BY DEF Init, NoPacket
<1>4. hand = Nothing /\ hand.packet.n = 0
    BY DEF Init, Nothing, NoPacket
<1>5. net = {} /\ last = 0 /\ getting = "idle" /\ control = "idle" /\ paused = FALSE
      /\ soft_start_cnt = SOFT_START
    BY DEF Init
<1>6. 0 \in 0 .. Packets /\ SOFT_START \in 0 .. SOFT_START
    BY <1>2
<1> QED BY <1>1, <1>2, <1>3, <1>4, <1>5, <1>6 DEF IInv

\* A packet that the source may send.
Sent(p) == p.n \in 0 .. Packets /\ p.index \in 0 .. IdxMod - 1

\* The packet after another one.
LEMMA AfterSent ==
    ASSUME NEW p, Sent(p), p.n < Packets, NEW skip \in Nat
    PROVE  Sent(After(p, skip)) /\ After(p, skip).n = p.n + 1
<1>0. Packets \in Nat /\ IdxMod \in Nat \ {0} /\ p.index \in Nat /\ p.n \in Nat
    BY AudioReceiveAssumption DEF Sent
<1> DEFINE x == p.index + 1 + skip
<1>1. x \in Int
    BY <1>0
<1>2. After(p, skip).n = p.n + 1 /\ After(p, skip).index = x % IdxMod
    BY DEF After
<1> HIDE DEF x
<1>3. x % IdxMod \in 0 .. IdxMod - 1
    BY <1>0, <1>1, ModOnce
<1> QED BY <1>0, <1>2, <1>3 DEF Sent

\* on_rx_rtp before the lock hands on the packet that came, or nothing.
LEMMA CheckHands ==
    ASSUME NEW p, hand = Nothing, CheckPacket(p)
    PROVE  hand' = Nothing \/ hand'.packet = p
    BY DEF CheckPacket

\* What is left of the packets that were overtaken.
LEMMA InTimeSubset ==
    ASSUME NEW ps, NEW index
    PROVE  InTime(ps, index) \subseteq ps
    BY DEF InTime

\* A packet comes in.
LEMMA RxStep == ASSUME IInv, RxPacket PROVE IInv'
<1>0. /\ hand = Nothing /\ Sent(source) /\ \A p \in net : Sent(p)
      /\ Packets \in Nat /\ Silences \subseteq Nat /\ Starts \subseteq 0 .. IdxMod - 1
    BY AudioReceiveAssumption DEF IInv, RxPacket, Sent
<1>1. UNCHANGED <<getting, control, paused, soft_start_cnt, jb, last>>
    BY DEF RxPacket, appVars
<1>2. SUFFICES \E p : /\ Sent(p) /\ CheckPacket(p)
                      /\ Sent(source') /\ \A q \in net' : Sent(q)
    <2>1. PICK p : /\ Sent(p) /\ CheckPacket(p)
                   /\ Sent(source') /\ \A q \in net' : Sent(q)
        BY <1>2
    <2>2. hand' = Nothing \/ hand'.packet = p
        BY <1>0, <2>1, CheckHands
    <2>3. hand'.packet.n \in 0 .. Packets /\ (hand' = Nothing \/ hand'.packet.index \in 0 .. IdxMod - 1)
        <3>1. CASE hand' = Nothing
            BY <1>0, <3>1 DEF Nothing, NoPacket
        <3>2. CASE hand'.packet = p
            BY <2>1, <3>2 DEF Sent
        <3> QED BY <2>2, <3>1, <3>2
    <2>4. BufInv(jb)'
        BY <1>1 DEF IInv
    <2> QED BY <1>1, <2>1, <2>3, <2>4 DEF IInv, Sent
<1>3. CASE source.n < Packets /\ NextArrives
    <2>1. Sent(After(source, 0))
        BY <1>0, <1>3, AfterSent
    <2>2. /\ source' = After(source, 0) /\ net' = InTime(net, source'.index) /\ CheckPacket(After(source, 0))
        BY <1>3 DEF NextArrives
    <2>3. \A q \in net' : Sent(q)
        BY <1>0, <2>2, InTimeSubset
    <2> QED BY <2>1, <2>2, <2>3
<1>4. ASSUME source.n < Packets, NEW skip \in Silences, SilenceEnds(After(source, skip))
      PROVE  \E p : /\ Sent(p) /\ CheckPacket(p)
                    /\ Sent(source') /\ \A q \in net' : Sent(q)
    <2> DEFINE p == After(source, skip)
    <2>1. Sent(p)
        BY <1>0, <1>4, AfterSent
    <2>2. source' = p /\ net' = InTime(net, p.index) /\ CheckPacket(p)
        BY <1>4 DEF SilenceEnds
    <2> HIDE DEF p
    <2>3. \A q \in net' : Sent(q)
        BY <1>0, <2>2, InTimeSubset
    <2> QED BY <2>1, <2>2, <2>3
<1>5. CASE source.n < Packets - 1 /\ Overtakes(After(After(source, 0), 0), After(source, 0))
    <2> DEFINE late == After(source, 0)
               p == After(late, 0)
    <2>1. source.n < Packets /\ source.n \in Int
        BY <1>0, <1>5 DEF Sent
    <2>2. Sent(late) /\ late.n = source.n + 1
        BY <1>0, <2>1, AfterSent
    <2>3. Overtakes(p, late)
        BY <1>5
    <2> HIDE DEF late
    <2>4. late.n < Packets
        BY <1>0, <1>5, <2>1, <2>2
    <2>5. Sent(p)
        BY <2>2, <2>4, AfterSent
    <2> HIDE DEF p
    <2>6. /\ source' = p /\ CheckPacket(p)
          /\ net' = IF source.index >= InOrderFrom THEN {} ELSE InTime(net \cup {late}, p.index)
        BY <2>3 DEF Overtakes
    <2>7. \A q \in net' : Sent(q)
        BY <1>0, <2>2, <2>6, InTimeSubset
    <2> QED BY <2>5, <2>6, <2>7
<1>6. ASSUME 0 < source.n, source.n < Packets, NEW start \in Starts, RestartArrives(Restarted(source, start))
      PROVE  \E p : /\ Sent(p) /\ CheckPacket(p)
                    /\ Sent(source') /\ \A q \in net' : Sent(q)
    <2> DEFINE p == Restarted(source, start)
    <2>1. Sent(p)
        BY <1>0, <1>6 DEF Restarted, Sent
    <2>2. source' = p /\ net' = {} /\ CheckPacket(p)
        BY <1>6 DEF RestartArrives
    <2> HIDE DEF p
    <2> QED BY <2>1, <2>2
<1>7. ASSUME NEW p \in net, LateArrives(p)
      PROVE  Sent(p) /\ CheckPacket(p) /\ Sent(source') /\ \A q \in net' : Sent(q)
    BY <1>0, <1>7 DEF LateArrives
<1>8. CASE 0 < source.n /\ DuplicateArrives
    BY <1>0, <1>8 DEF DuplicateArrives
<1> QED BY <1>3, <1>4, <1>5, <1>6, <1>7, <1>8 DEF RxPacket

\* The next step, one case for each action.
LEMMA StepInv == ASSUME IInv, [Next]_vars PROVE IInv'
<1>0. Packets \in Nat /\ SOFT_START \in Nat /\ 0 \in 0 .. Packets
    BY AudioReceiveAssumption
<1>1. CASE RxPacket
    BY <1>1, RxStep
<1>2. CASE PutFrame
    <2>1. UNCHANGED <<source, net, getting, control, paused, soft_start_cnt>> /\ hand' = Nothing
        BY <1>2 DEF PutFrame, netVars, appVars
    <2>2. BufInv(jb') /\ last' \in 0 .. Packets
        <3>1. CASE hand.restart
            <4>1. jb' = pjmedia_jbuf_reset(jb) /\ last' = 0
                BY <1>2, <3>1 DEF PutFrame
            <4> QED BY <1>0, <4>1, ResetGood DEF IInv
        <3>2. CASE ~hand.restart
            <4>1. jb' = pjmedia_jbuf_put_frame3(jb, hand.packet.index, hand.packet.n) /\ last' = last
                BY <1>2, <3>2 DEF PutFrame
            <4>2. hand.packet.index \in Int /\ hand.packet.n \in Nat
                BY <1>0, <1>2 DEF IInv, PutFrame
            <4> QED BY <4>1, <4>2, PutFrameGood DEF IInv
        <3> QED BY <3>1, <3>2
    <2>3. Nothing.packet.n \in 0 .. Packets
        BY <1>0 DEF Nothing, NoPacket
    <2> QED BY <2>1, <2>2, <2>3 DEF IInv
<1>3. CASE GetChecks
    <2>1. UNCHANGED <<source, net, hand, control, paused, soft_start_cnt, jb, last>>
        BY <1>3 DEF GetChecks, netVars, appVars
    <2>2. /\ getting' \in {"idle", "soft", "count", "get"}
          /\ getting' \in {"soft", "count"} => soft_start_cnt' > 0
        BY <1>0, <1>3, <2>1 DEF GetChecks, IInv
    <2>3. BufInv(jb')
        BY <2>1 DEF IInv
    <2> QED BY <2>1, <2>2, <2>3 DEF IInv
<1>4. CASE SoftStart \/ CountDown
    <2>1. CASE SoftStart
        <3>1. /\ UNCHANGED <<source, net, hand, control, paused, soft_start_cnt>>
              /\ getting = "soft" /\ getting' = "count" /\ last' = 0
            BY <2>1 DEF SoftStart, netVars, appVars
        <3>2. BufInv(jb')
            BY <2>1, ResetGood DEF IInv, SoftStart
        <3> QED BY <1>0, <3>1, <3>2 DEF IInv
    <2>2. CASE CountDown
        <3>1. UNCHANGED <<source, net, hand, control, paused, jb, last>> /\ getting' = "idle"
            BY <2>2 DEF CountDown, netVars, appVars
        <3>2. soft_start_cnt' \in 0 .. SOFT_START
            BY <1>0, <2>2 DEF CountDown, IInv
        <3>3. BufInv(jb')
            BY <3>1 DEF IInv
        <3> QED BY <3>1, <3>2, <3>3 DEF IInv
    <2> QED BY <1>4, <2>1, <2>2
<1>5. CASE GetFrame
    <2>1. UNCHANGED <<source, net, hand, control, paused, soft_start_cnt>> /\ getting' = "idle"
        BY <1>5 DEF GetFrame, netVars, appVars
    <2>2. BufInv(jb')
        BY <1>5, GetFrameGood DEF IInv, GetFrame
    <2>3. last' \in 0 .. Packets
        BY <1>0, <1>5 DEF GetFrame, IInv, Frames
    <2> QED BY <2>1, <2>2, <2>3 DEF IInv
<1>6. CASE Pause \/ Resume
    <2>1. UNCHANGED <<source, net, hand, getting, soft_start_cnt, jb, last>>
        BY <1>6 DEF Pause, Resume, netVars
    <2>2. control' \in {"idle", "pausing", "resuming"} /\ paused' \in BOOLEAN
        BY <1>6 DEF Pause, Resume
    <2>3. BufInv(jb')
        BY <2>1 DEF IInv
    <2> QED BY <2>1, <2>2, <2>3 DEF IInv
<1>7. CASE PauseResets
    <2>1. UNCHANGED <<source, net, hand, getting, paused, soft_start_cnt>> /\ control' = "idle" /\ last' = 0
        BY <1>7 DEF PauseResets, netVars
    <2>2. BufInv(jb')
        BY <1>7, ResetGood DEF IInv, PauseResets
    <2> QED BY <1>0, <2>1, <2>2 DEF IInv
<1>8. CASE ResumeSoftStart
    <2>1. UNCHANGED <<source, net, hand, getting, paused, jb, last>> /\ control' = "idle"
        BY <1>8 DEF ResumeSoftStart, netVars
    <2>2. soft_start_cnt' = SOFT_START
        BY <1>8 DEF ResumeSoftStart
    <2>3. BufInv(jb')
        BY <2>1 DEF IInv
    <2>4. soft_start_cnt' \in 0 .. SOFT_START /\ (getting' \in {"soft", "count"} => soft_start_cnt' > 0)
        BY <1>0, <2>1, <2>2 DEF IInv
    <2> QED BY <2>1, <2>3, <2>4 DEF IInv
<1>9. CASE UNCHANGED vars
    <2>1. UNCHANGED <<source, net, hand, getting, control, paused, soft_start_cnt, jb, last>>
        BY <1>9 DEF vars, netVars, appVars
    <2>2. BufInv(jb')
        BY <2>1 DEF IInv
    <2> QED BY <2>1, <2>2 DEF IInv
<1> QED BY <1>1, <1>2, <1>3, <1>4, <1>5, <1>6, <1>7, <1>8, <1>9 DEF Next

\* The invariant has both properties.
LEMMA InvMeans == IInv => TypeOK /\ Ring
<1> SUFFICES ASSUME IInv PROVE TypeOK /\ Ring
    OBVIOUS
<1>1. jb \in BufRec /\ RingSound(jb.fl)
    BY ListOf DEF IInv
<1>2. TypeOK
    BY <1>1 DEF TypeOK, IInv, BufRec
<1> QED BY <1>1, <1>2 DEF Ring

\* The burst levels, the prefetch and the counters of the buffer stay within their
\* bounds (jbuf_calculate_jitter, jbuf_update, the soft start of get_frame), whatever
\* is lost, late, doubled or restarted and however long the bursts are.
THEOREM TypeCorrect == Spec => []TypeOK
<1>1. Init => IInv
    BY InitInv
<1>2. IInv /\ [Next]_vars => IInv'
    BY StepInv
<1>3. IInv => TypeOK
    BY InvMeans
<1> QED BY <1>1, <1>2, <1>3, PTL DEF Spec

\* The ring of the jitter buffer stays sound (jb_framelist_put_at, _get, _remove_head,
\* _discard): its free slots are empty and the discarded frames are counted exactly,
\* after every put, get, discard, overflow, jump, wrap-around and reset, for every
\* capacity of the buffer and every setting of its thresholds.
THEOREM RingCorrect == Spec => []Ring
<1>1. Init => IInv
    BY InitInv
<1>2. IInv /\ [Next]_vars => IInv'
    BY StepInv
<1>3. IInv => Ring
    BY InvMeans
<1> QED BY <1>1, <1>2, <1>3, PTL DEF Spec
===============================================================================
