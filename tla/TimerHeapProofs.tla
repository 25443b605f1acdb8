---------------------------- MODULE TimerHeapProofs ---------------------------
(***************************************************************************)
(* Proofs about module TimerHeap, for every set of entries and pollers and *)
(* every initial size: what the loops of reheap_up and reheap_down do with *)
(* a heap of any depth, that the heap stays in order, that the free list   *)
(* stays one chain, and that the whole implements the set of TimerSet.     *)
(*                                                                         *)
(* Induction over numbers is by a least counterexample (LeastNumber).      *)
(***************************************************************************)
EXTENDS TimerHeap, FiniteSetTheorems, WellFoundedInduction, TLAPS

-------------------------------------------------------------------------------
(* The loops.                                                              *)

\* Induction: what fails for some number fails for a least one.
LEMMA LeastNumber ==
    ASSUME NEW T \in SUBSET Nat, T # {}
    PROVE  \E n \in T : \A m \in T : n <= m
<1> DEFINE R == OpToRel(<, Nat)
<1>1. IsWellFoundedOn(R, Nat)
    BY NatLessThanWellFounded
<1>2. \A i, j \in Nat : i < j => <<i, j>> \in R
    BY DEF OpToRel
<1> HIDE DEF R
<1>3. PICK x \in T : \A y \in T : ~(<<y, x>> \in R)
    BY <1>1, WFMin
<1>4. ASSUME NEW m \in T
      PROVE  x <= m
    <2>1. x \in Nat /\ m \in Nat
        OBVIOUS
    <2>2. ~(m < x)
        BY <1>2, <1>3, <2>1
    <2> QED BY <2>1, <2>2
<1> QED BY <1>4

\* A run of n steps of the function F from x.
Begins(F, x, n, g) == g[0] = x /\ \A i \in 0 .. n - 1 : g[i + 1] = F[g[i]]

Walks(F, x, S, n) == {g \in [0 .. n -> S] : Begins(F, x, n, g)}

LEMMA WalkExists ==
    ASSUME NEW S, NEW F \in [S -> S], NEW x \in S, NEW n \in Nat
    PROVE  Walks(F, x, S, n) # {}
<1> DEFINE T == {k \in Nat : Walks(F, x, S, k) = {}}
<1>1. SUFFICES ASSUME T # {} PROVE FALSE
    OBVIOUS
<1>2. PICK k \in T : \A m \in T : k <= m
    BY <1>1, LeastNumber
<1>3. CASE k = 0
    <2>1. [i \in 0 .. 0 |-> x] \in Walks(F, x, S, 0)
        BY DEF Walks, Begins
    <2> QED BY <1>2, <1>3, <2>1
<1>4. CASE k # 0
    <2>1. k - 1 \in Nat /\ k - 1 \notin T
        BY <1>2, <1>4
    <2>2. PICK g \in Walks(F, x, S, k - 1) : TRUE
        BY <2>1
    <2> DEFINE h == [i \in 0 .. k |-> IF i = k THEN F[g[k - 1]] ELSE g[i]]
    <2>3. g \in [0 .. k - 1 -> S] /\ g[0] = x /\ \A i \in 0 .. k - 2 : g[i + 1] = F[g[i]]
        BY <2>1, <2>2 DEF Walks, Begins
    <2>4. h \in [0 .. k -> S]
        BY <2>1, <2>3
    <2>5. h[0] = x /\ \A i \in 0 .. k - 1 : h[i + 1] = F[h[i]]
        BY <2>1, <2>3
    <2>6. h \in Walks(F, x, S, k)
        BY <2>4, <2>5 DEF Walks, Begins
    <2> QED BY <1>2, <2>6
<1> QED BY <1>3, <1>4

LEMMA WalksAgree ==
    ASSUME NEW S, NEW F \in [S -> S], NEW x \in S, NEW n \in Nat, NEW m \in Nat,
           NEW g, NEW h, Begins(F, x, n, g), Begins(F, x, m, h),
           NEW i \in Nat, i <= n, i <= m
    PROVE  g[i] = h[i]
<1> DEFINE T == {k \in 0 .. i : g[k] # h[k]}
<1>1. SUFFICES ASSUME T # {} PROVE FALSE
    OBVIOUS
<1>2. PICK k \in T : \A j \in T : k <= j
    <2>1. T \in SUBSET Nat
        OBVIOUS
    <2> HIDE DEF T
    <2> QED BY <1>1, <2>1, LeastNumber
<1>3. k # 0
    BY <1>2 DEF Begins
<1>4. k - 1 \in 0 .. n - 1 /\ k - 1 \in 0 .. m - 1 /\ k - 1 \in 0 .. i /\ k - 1 + 1 = k
    BY <1>2, <1>3
<1>5. g[k - 1] = h[k - 1]
    BY <1>2, <1>4
<1>6. g[k] = F[g[k - 1]] /\ h[k] = F[h[k - 1]]
    BY <1>4 DEF Begins
<1> QED BY <1>2, <1>5, <1>6

\* A recursive function of the kind Visits uses exists.
LEMMA Iterates ==
    ASSUME NEW S, NEW F \in [S -> S], NEW x \in S
    PROVE  \E g : g = [n \in Nat |-> IF n = 0 THEN x ELSE F[g[n - 1]]]
<1> DEFINE w(n) == CHOOSE h : h \in Walks(F, x, S, n)
           g == [n \in Nat |-> w(n)[n]]
<1>1. \A n \in Nat : w(n) \in Walks(F, x, S, n)
    BY WalkExists
<1> HIDE DEF w
<1>2. \A n \in Nat : Begins(F, x, n, w(n))
    BY <1>1 DEF Walks
<1>3. g[0] = x
    BY <1>2 DEF Begins
<1>4. ASSUME NEW n \in Nat, n # 0
      PROVE  g[n] = F[g[n - 1]]
    <2>1. n - 1 \in Nat /\ n - 1 <= n /\ n - 1 \in 0 .. n - 1 /\ n - 1 + 1 = n
        BY <1>4
    <2>2. Begins(F, x, n, w(n)) /\ Begins(F, x, n - 1, w(n - 1))
        BY <1>2, <2>1
    <2>3. w(n)[n] = F[w(n)[n - 1]]
        BY <2>1, <2>2 DEF Begins
    <2>4. w(n)[n - 1] = w(n - 1)[n - 1]
        BY <2>1, <2>2, WalksAgree
    <2> QED BY <2>1, <2>3, <2>4
<1>5. \A n \in Nat : g[n] = IF n = 0 THEN x ELSE F[g[n - 1]]
    BY <1>3, <1>4
<1>6. g = [n \in Nat |-> g[n]]
    OBVIOUS
<1> HIDE DEF g
<1>7. [n \in Nat |-> g[n]] = [n \in Nat |-> IF n = 0 THEN x ELSE F[g[n - 1]]]
    BY <1>5
<1> QED BY <1>6, <1>7

\* The run that Visits collects.
Collects(P, F, x, S, at) ==
    /\ at \in [Nat -> S]
    /\ at[0] = x /\ \A n \in Nat : at[n + 1] = F[at[n]]
    /\ P = {at[n] : n \in 0 .. Cardinality(S)}

LEMMA VisitsRun ==
    ASSUME NEW S, NEW F \in [S -> S], NEW x \in S
    PROVE  \E at : Collects(Visits(F, x), F, x, S, at)
<1> DEFINE g == CHOOSE g : g = [n \in Nat |-> IF n = 0 THEN x ELSE F[g[n - 1]]]
<1>1. g = [n \in Nat |-> IF n = 0 THEN x ELSE F[g[n - 1]]]
    <2>1. \E f : f = [n \in Nat |-> IF n = 0 THEN x ELSE F[f[n - 1]]]
        BY Iterates
    <2> QED BY <2>1
<1>2. Visits(F, x) = {g[n] : n \in 0 .. Cardinality(S)}
    BY DEF Visits
<1> HIDE DEF g
<1>3. g[0] = x /\ \A n \in Nat : g[n + 1] = F[g[n]]
    <2>1. \A n \in Nat : g[n] = IF n = 0 THEN x ELSE F[g[n - 1]]
        BY <1>1
    <2> QED BY <2>1
<1>4. \A n \in Nat : g[n] \in S
    <2> DEFINE T == {k \in Nat : g[k] \notin S}
    <2>1. SUFFICES ASSUME T # {} PROVE FALSE
        OBVIOUS
    <2>2. PICK k \in T : \A m \in T : k <= m
        BY <2>1, LeastNumber
    <2>3. k # 0
        BY <1>3, <2>2
    <2>4. k - 1 \in Nat /\ k - 1 \notin T /\ k = k - 1 + 1
        BY <2>2, <2>3
    <2>5. g[k] = F[g[k - 1]]
        BY <1>3, <2>4
    <2> QED BY <2>2, <2>4, <2>5
<1>5. g = [n \in Nat |-> g[n]]
    BY <1>1
<1>6. g \in [Nat -> S]
    BY <1>4, <1>5
<1> QED BY <1>2, <1>3, <1>6 DEF Collects

\* What a loop has visited when every step but the last raises rank, which K bounds.
Path(P, slot, step) ==
    /\ slot \in P
    /\ \A s \in P : step[s] \in P /\ (step[s] # s => step[s] # slot)
    /\ \A s, t \in P : step[s] = step[t] /\ step[s] # s /\ step[t] # t => s = t
    /\ \A t \in P : t # slot => \E s \in P : s # t /\ step[s] = t
    /\ \E e \in P : step[e] = e /\ \A s \in P : step[s] = s => s = e

LEMMA VisitsPath ==
    ASSUME NEW S, NEW step \in [S -> S], NEW slot \in S, Cardinality(S) \in Nat,
           NEW rank \in [S -> 0 .. Cardinality(S) - 1],
           \A s \in S : step[s] = s \/ rank[s] < rank[step[s]]
    PROVE  /\ Path(Visits(step, slot), slot, step) /\ Visits(step, slot) \subseteq S
           /\ \A s \in Visits(step, slot) : rank[slot] <= rank[s]
<1> DEFINE K == Cardinality(S)
           P == Visits(step, slot)
<1>0. PICK at : Collects(P, step, slot, S, at)
    BY VisitsRun
<1>1. /\ at \in [Nat -> S] /\ at[0] = slot /\ \A n \in Nat : at[n + 1] = step[at[n]]
      /\ P = {at[n] : n \in 0 .. K}
    BY <1>0 DEF Collects
<1> HIDE DEF P, K
<1>2. K \in Nat /\ \A s \in S : rank[s] \in 0 .. K - 1
    BY DEF K
<1>3. P \subseteq S
    BY <1>1
<1>4. \A n \in Nat : rank[at[n]] \in 0 .. K - 1 /\ rank[at[n]] <= rank[at[n + 1]]
    <2>1. ASSUME NEW n \in Nat
          PROVE  rank[at[n]] \in 0 .. K - 1 /\ rank[at[n]] <= rank[at[n + 1]]
        <3>1. at[n] \in S /\ at[n + 1] = step[at[n]] /\ at[n + 1] \in S
            BY <1>1
        <3>2. rank[at[n]] \in 0 .. K - 1 /\ rank[at[n + 1]] \in 0 .. K - 1
            BY <1>2, <3>1
        <3> QED BY <3>1, <3>2
    <2> QED BY <2>1
<1>5. ASSUME NEW i \in Nat, NEW j \in Nat, i <= j
      PROVE  rank[at[i]] <= rank[at[j]]
    <2> DEFINE T == {k \in Nat : i <= k /\ ~(rank[at[i]] <= rank[at[k]])}
    <2>1. SUFFICES ASSUME T # {} PROVE FALSE
        BY <1>5
    <2>2. PICK k \in T : \A m \in T : k <= m
        <3>1. T \in SUBSET Nat
            OBVIOUS
        <3> HIDE DEF T
        <3> QED BY <2>1, <3>1, LeastNumber
    <2>3. k # i
        BY <1>4, <2>2
    <2>4. k - 1 \in Nat /\ i <= k - 1 /\ ~(k <= k - 1) /\ k - 1 + 1 = k
        BY <2>2, <2>3
    <2>5. rank[at[i]] <= rank[at[k - 1]]
        BY <2>2, <2>4
    <2> QED BY <1>4, <2>2, <2>4, <2>5
\* Once the loop stands still it stays.
<1>6. ASSUME NEW i \in Nat, step[at[i]] = at[i], NEW j \in Nat, i <= j
      PROVE  at[j] = at[i]
    <2> DEFINE T == {k \in Nat : i <= k /\ at[k] # at[i]}
    <2>1. SUFFICES ASSUME T # {} PROVE FALSE
        BY <1>6
    <2>2. PICK k \in T : \A m \in T : k <= m
        <3>1. T \in SUBSET Nat
            OBVIOUS
        <3> HIDE DEF T
        <3> QED BY <2>1, <3>1, LeastNumber
    <2>3. k # i
        BY <2>2
    <2>4. k - 1 \in Nat /\ i <= k - 1 /\ ~(k <= k - 1) /\ k - 1 + 1 = k
        BY <2>2, <2>3
    <2>5. at[k - 1] = at[i]
        BY <2>2, <2>4
    <2> QED BY <1>1, <1>6, <2>2, <2>4, <2>5
\* It stands still after K steps.
<1>7. ASSUME NEW i \in Nat
      PROVE  step[at[i]] = at[i] \/ i <= rank[at[i]]
    <2> DEFINE T == {k \in Nat : ~(step[at[k]] = at[k] \/ k <= rank[at[k]])}
    <2>1. SUFFICES ASSUME T # {} PROVE FALSE
        OBVIOUS
    <2>2. PICK k \in T : \A m \in T : k <= m
        <3>1. T \in SUBSET Nat
            OBVIOUS
        <3> HIDE DEF T
        <3> QED BY <2>1, <3>1, LeastNumber
    <2>3. k # 0
        BY <1>4, <2>2
    <2>4. k - 1 \in Nat /\ ~(k <= k - 1) /\ k - 1 + 1 = k /\ k - 1 <= k
        BY <2>2, <2>3
    <2>5. step[at[k - 1]] = at[k - 1] \/ k - 1 <= rank[at[k - 1]]
        BY <2>2, <2>4
    <2>6. CASE step[at[k - 1]] = at[k - 1]
        <3>1. at[k] = at[k - 1]
            BY <1>6, <2>4, <2>6
        <3> QED BY <2>2, <2>6, <3>1
    <2>7. CASE step[at[k - 1]] # at[k - 1] /\ k - 1 <= rank[at[k - 1]]
        <3>1. at[k] = step[at[k - 1]] /\ at[k - 1] \in S
            BY <1>1, <2>4
        <3>2. rank[at[k - 1]] < rank[at[k]]
            BY <2>7, <3>1
        <3>3. rank[at[k - 1]] \in Nat /\ rank[at[k]] \in Nat
            BY <1>4, <2>4
        <3> QED BY <2>2, <2>4, <2>7, <3>2, <3>3
    <2> QED BY <2>5, <2>6, <2>7
<1>8. step[at[K]] = at[K]
    BY <1>2, <1>4, <1>7
<1>9. \A s \in P : step[s] \in P
    <2>1. ASSUME NEW n \in 0 .. K
          PROVE  step[at[n]] \in P
        <3>1. CASE n = K
            BY <1>1, <1>2, <1>8, <3>1
        <3>2. CASE n # K
            <4>1. n + 1 \in 0 .. K /\ step[at[n]] = at[n + 1]
                BY <1>1, <1>2, <3>2
            <4> QED BY <1>1, <4>1
        <3> QED BY <3>1, <3>2
    <2> QED BY <1>1, <2>1
<1>10. slot \in P
    BY <1>1, <1>2
\* A step that moves raises the rank above everything before it.
<1>11. ASSUME NEW i \in Nat, NEW j \in Nat, i <= j, step[at[j]] # at[j]
       PROVE  at[j + 1] # at[i]
    <2>1. at[j + 1] = step[at[j]] /\ at[j] \in S
        BY <1>1
    <2>2. rank[at[j]] < rank[at[j + 1]]
        BY <1>11, <2>1
    <2>3. rank[at[i]] <= rank[at[j]]
        BY <1>5, <1>11
    <2>4. rank[at[i]] \in Nat /\ rank[at[j]] \in Nat /\ rank[at[j + 1]] \in Nat
        BY <1>4
    <2> QED BY <2>2, <2>3, <2>4
<1>12. ASSUME NEW s \in P, step[s] # s
       PROVE  step[s] # slot
    <2>1. PICK n \in 0 .. K : s = at[n]
        BY <1>1
    <2>2. 0 <= n /\ n \in Nat /\ 0 \in Nat /\ step[at[n]] # at[n]
        BY <1>2, <1>12, <2>1
    <2>3. at[n + 1] # at[0]
        BY <1>11, <2>2
    <2> QED BY <1>1, <2>1, <2>2, <2>3
<1>13. ASSUME NEW s \in P, NEW t \in P, step[s] = step[t], step[s] # s, step[t] # t
       PROVE  s = t
    <2>1. PICK i \in 0 .. K : s = at[i]
        BY <1>1
    <2>2. PICK j \in 0 .. K : t = at[j]
        BY <1>1
    <2>3. i \in Nat /\ j \in Nat /\ i + 1 \in Nat /\ j + 1 \in Nat
        BY <1>2
    <2>4. at[i + 1] = at[j + 1]
        BY <1>1, <1>13, <2>1, <2>2, <2>3
    <2>5. CASE i < j
        <3>1. i + 1 <= j
            BY <2>3, <2>5
        <3>2. at[j + 1] # at[i + 1]
            BY <1>11, <1>13, <2>2, <2>3, <3>1
        <3> QED BY <2>4, <3>2
    <2>6. CASE j < i
        <3>1. j + 1 <= i
            BY <2>3, <2>6
        <3>2. at[i + 1] # at[j + 1]
            BY <1>11, <1>13, <2>1, <2>3, <3>1
        <3> QED BY <2>4, <3>2
    <2>7. i = j \/ i < j \/ j < i
        BY <2>3
    <2> QED BY <2>1, <2>2, <2>5, <2>6, <2>7
<1>14. ASSUME NEW t \in P, t # slot
       PROVE  \E s \in P : s # t /\ step[s] = t
    <2> DEFINE T == {k \in Nat : at[k] = t}
    <2>1. PICK n \in 0 .. K : t = at[n]
        BY <1>1
    <2>2. PICK k \in T : \A m \in T : k <= m
        <3>1. n \in T /\ T \in SUBSET Nat
            BY <1>2, <2>1
        <3> HIDE DEF T
        <3> QED BY <3>1, LeastNumber
    <2>3. k \in Nat /\ at[k] = t /\ k <= n
        BY <1>2, <2>1, <2>2
    <2>4. k # 0
        BY <1>1, <1>14, <2>3
    <2>5. k - 1 \in 0 .. K /\ k - 1 \in Nat /\ ~(k <= k - 1) /\ k - 1 + 1 = k
        BY <1>2, <2>3, <2>4
    <2>6. at[k - 1] \in P /\ at[k - 1] # t
        BY <1>1, <2>2, <2>5
    <2>7. step[at[k - 1]] = t
        BY <1>1, <2>3, <2>5
    <2> QED BY <2>6, <2>7
<1>15. at[K] \in P /\ \A s \in P : step[s] = s => s = at[K]
    <2>1. at[K] \in P
        BY <1>1, <1>2
    <2>2. ASSUME NEW s \in P, step[s] = s
          PROVE  s = at[K]
        <3>1. PICK n \in 0 .. K : s = at[n]
            BY <1>1
        <3>2. n \in Nat /\ n <= K
            BY <1>2
        <3> QED BY <1>2, <1>6, <2>2, <3>1, <3>2
    <2> QED BY <2>1, <2>2
<1>16. ASSUME NEW s \in P
       PROVE  rank[slot] <= rank[s]
    <2>1. PICK n \in 0 .. K : s = at[n]
        BY <1>1
    <2>2. 0 <= n /\ n \in Nat /\ 0 \in Nat
        BY <1>2
    <2> QED BY <1>1, <1>5, <2>1, <2>2
<1>17. Path(P, slot, step)
    BY <1>8, <1>9, <1>10, <1>12, <1>13, <1>14, <1>15 DEF Path
<1> QED BY <1>3, <1>16, <1>17 DEF P

-------------------------------------------------------------------------------
(* Where the nodes are.                                                    *)

Shape(h) ==
    h \in [max_size : {h.max_size}, freelist : {h.freelist}, heap : {h.heap},
           dups : {h.dups}, ids : {h.ids}]

Nodes(h) == {h.heap[s] : s \in DOMAIN h.heap}

\* The first n slots are used and found through ids.
Placed(h, n) ==
    /\ Shape(h) /\ DOMAIN h.heap = 0 .. n - 1
    /\ \A s \in 0 .. n - 1 : h.heap[s] \in DOMAIN h.ids /\ h.ids[h.heap[s]] = s

\* The same for the first m slots but one, which is for id.
Hole(h, m, slot, id) ==
    /\ Shape(h) /\ DOMAIN h.heap \cup {slot} = 0 .. m - 1
    /\ id \in DOMAIN h.ids
    /\ \A s \in (0 .. m - 1) \ {slot} :
          h.heap[s] \in DOMAIN h.ids /\ h.ids[h.heap[s]] = s /\ h.heap[s] # id

\* What is in a slot before and after the loop.
Before(h, id, slot, s) == IF s = slot THEN id ELSE h.heap[s]

After(h, id, slot, step, s) ==
    IF s \notin Visits(step, slot) THEN Before(h, id, slot, s)
    ELSE IF step[s] = s THEN id ELSE Before(h, id, slot, step[s])

\* A loop on h that may begin.
Loop(h, m, slot, id, step) ==
    /\ m \in Nat /\ slot \in 0 .. m - 1
    /\ Hole(h, m, slot, id)
    /\ Path(Visits(step, slot), slot, step) /\ Visits(step, slot) \subseteq 0 .. m - 1

\* g is h with all its nodes moved.
Moved(g, h, m, slot, id, step) ==
    /\ Shape(g)
    /\ g.max_size = h.max_size /\ g.freelist = h.freelist /\ g.dups = h.dups
    /\ DOMAIN g.heap = 0 .. m - 1
    /\ \A s \in 0 .. m - 1 : g.heap[s] = After(h, id, slot, step, s)

\* Every node moves to a slot of its own.
Permuted(h, m, slot, id, step) ==
    /\ \A s, t \in 0 .. m - 1 : Before(h, id, slot, s) = Before(h, id, slot, t) => s = t
    /\ \A s, t \in 0 .. m - 1 : After(h, id, slot, step, s) = After(h, id, slot, step, t) => s = t
    /\ \A s \in 0 .. m - 1 : \E t \in 0 .. m - 1 :
          After(h, id, slot, step, s) = Before(h, id, slot, t)
    /\ \A t \in 0 .. m - 1 : \E s \in 0 .. m - 1 :
          After(h, id, slot, step, s) = Before(h, id, slot, t)

\* The ids follow their nodes, and no others change.
Followed(g, h, m, slot, id) ==
    /\ Placed(g, m)
    /\ Nodes(g) = {Before(h, id, slot, s) : s \in 0 .. m - 1}
    /\ g.ids = [i \in DOMAIN h.ids |-> g.ids[i]]
    /\ \A i \in DOMAIN h.ids \ Nodes(g) : g.ids[i] = h.ids[i]

\* The array heap after the loop.
LEMMA ShiftHeap ==
    ASSUME NEW h, NEW m, NEW slot, NEW id, NEW step, Loop(h, m, slot, id, step)
    PROVE  Moved(Shift(h, id, slot, step), h, m, slot, id, step)
<1> DEFINE P == Visits(step, slot)
           hp == [s \in DOMAIN h.heap \cup {slot} |->
                     IF s \notin P THEN h.heap[s]
                     ELSE IF step[s] = s THEN id ELSE h.heap[step[s]]]
           is == [i \in DOMAIN h.ids |-> IF \E s \in P : hp[s] = i
                                         THEN CHOOSE s \in P : hp[s] = i
                                         ELSE h.ids[i]]
           g == Shift(h, id, slot, step)
<1>1. g = [h EXCEPT !.heap = hp, !.ids = is]
    BY DEF Shift
<1>2. \A s \in P : step[s] \in P /\ (step[s] # s => step[s] # slot)
    BY DEF Path, Loop
<1>3. slot \in P /\ P \subseteq 0 .. m - 1
    BY DEF Path, Loop
<1>4. DOMAIN hp = 0 .. m - 1
    BY DEF Hole, Loop
<1>5. ASSUME NEW s \in 0 .. m - 1
      PROVE  hp[s] = After(h, id, slot, step, s)
    <2> HIDE DEF P
    <2>1. hp[s] = IF s \notin P THEN h.heap[s] ELSE IF step[s] = s THEN id ELSE h.heap[step[s]]
        BY DEF Hole, Loop
    <2> HIDE DEF hp
    <2> QED BY <1>2, <1>3, <2>1 DEF After, Before, P
<1> HIDE DEF hp, is, g
<1>6. /\ g \in [max_size : {g.max_size}, freelist : {g.freelist}, heap : {g.heap},
                dups : {g.dups}, ids : {g.ids}]
      /\ g.max_size = h.max_size /\ g.freelist = h.freelist /\ g.dups = h.dups
      /\ g.heap = hp
    BY <1>1 DEF Hole, Shape, Loop
<1> QED BY <1>4, <1>5, <1>6 DEF Shape, Moved, g

\* Every node but one moves by one step, the moved node to the end.
LEMMA AfterBefore ==
    ASSUME NEW h, NEW m, NEW slot, NEW id, NEW step, Loop(h, m, slot, id, step)
    PROVE  Permuted(h, m, slot, id, step)
<1> DEFINE P == Visits(step, slot)
           bf(s) == Before(h, id, slot, s)
           af(s) == After(h, id, slot, step, s)
<1>1. /\ slot \in P /\ P \subseteq 0 .. m - 1
      /\ \A s \in P : step[s] \in P /\ (step[s] # s => step[s] # slot)
      /\ \A s, t \in P : step[s] = step[t] /\ step[s] # s /\ step[t] # t => s = t
      /\ \A t \in P : t # slot => \E s \in P : s # t /\ step[s] = t
      /\ \E e \in P : step[e] = e /\ \A s \in P : step[s] = s => s = e
    BY DEF Path, Loop
<1>2. \A s, t \in 0 .. m - 1 : bf(s) = bf(t) => s = t
    BY DEF Hole, Before, Loop
<1>3. \A s : af(s) = IF s \notin P THEN bf(s) ELSE IF step[s] = s THEN id ELSE bf(step[s])
    BY DEF After
<1>4. bf(slot) = id
    BY DEF Before
<1> HIDE DEF P, bf, af
<1>5. PICK e \in P : step[e] = e /\ \A s \in P : step[s] = s => s = e
    BY <1>1
<1>6. \A s, t \in 0 .. m - 1 : af(s) = af(t) => s = t
    <2>1. ASSUME NEW s \in 0 .. m - 1, NEW t \in 0 .. m - 1, af(s) = af(t)
          PROVE  s = t
        <3>1. CASE s \notin P /\ t \notin P
            BY <1>2, <1>3, <2>1, <3>1
        <3>2. ASSUME NEW x \in 0 .. m - 1, NEW y \in P, x \notin P
              PROVE  af(x) # af(y)
            <4>1. af(x) = bf(x)
                BY <1>3, <3>2
            <4>2. \E z \in P : af(y) = bf(z)
                BY <1>1, <1>3, <1>4
            <4> QED BY <1>1, <1>2, <3>2, <4>1, <4>2
        <3>3. CASE s \in P /\ t \in P
            <4>1. CASE step[s] = s
                BY <1>1, <1>2, <1>3, <1>4, <1>5, <2>1, <3>3, <4>1
            <4>2. CASE step[t] = t
                BY <1>1, <1>2, <1>3, <1>4, <1>5, <2>1, <3>3, <4>2
            <4>3. CASE step[s] # s /\ step[t] # t
                <5>1. step[s] \in 0 .. m - 1 /\ step[t] \in 0 .. m - 1
                    BY <1>1, <3>3
                <5>2. af(s) = bf(step[s]) /\ af(t) = bf(step[t])
                    BY <1>3, <3>3, <4>3
                <5>3. step[s] = step[t]
                    BY <1>2, <2>1, <5>1, <5>2
                <5> QED BY <1>1, <3>3, <4>3, <5>3
            <4> QED BY <4>1, <4>2, <4>3
        <3> QED BY <2>1, <3>1, <3>2, <3>3
    <2> QED BY <2>1
<1>7. \A s \in 0 .. m - 1 : \E t \in 0 .. m - 1 : af(s) = bf(t)
    BY <1>1, <1>3, <1>4
<1>8. ASSUME NEW t \in 0 .. m - 1
      PROVE  \E s \in 0 .. m - 1 : af(s) = bf(t)
    <2>1. CASE t \notin P
        BY <1>3, <2>1
    <2>2. CASE t = slot
        <3>1. e \in 0 .. m - 1 /\ af(e) = bf(t)
            BY <1>1, <1>3, <1>4, <1>5, <2>2
        <3> QED BY <3>1
    <2>3. CASE t \in P /\ t # slot
        <3>1. PICK s \in P : s # t /\ step[s] = t
            BY <1>1, <2>3
        <3>2. s \in 0 .. m - 1 /\ af(s) = bf(t)
            BY <1>1, <1>3, <3>1
        <3> QED BY <3>2
    <2> QED BY <2>1, <2>2, <2>3
<1> QED BY <1>2, <1>6, <1>7, <1>8 DEF Permuted, bf, af

LEMMA ShiftPlaced ==
    ASSUME NEW h, NEW m, NEW slot, NEW id, NEW step, Loop(h, m, slot, id, step)
    PROVE  Followed(Shift(h, id, slot, step), h, m, slot, id)
<1> DEFINE P == Visits(step, slot)
           bf(s) == Before(h, id, slot, s)
           af(s) == After(h, id, slot, step, s)
           hp == [s \in DOMAIN h.heap \cup {slot} |->
                     IF s \notin P THEN h.heap[s]
                     ELSE IF step[s] = s THEN id ELSE h.heap[step[s]]]
           is == [i \in DOMAIN h.ids |-> IF \E s \in P : hp[s] = i
                                         THEN CHOOSE s \in P : hp[s] = i
                                         ELSE h.ids[i]]
           g == Shift(h, id, slot, step)
<1>1. Shape(g) /\ DOMAIN g.heap = 0 .. m - 1 /\ \A s \in 0 .. m - 1 : g.heap[s] = af(s)
    BY ShiftHeap DEF Moved
<1>2. g.heap = hp /\ g.ids = is
    BY DEF Shift, Hole, Shape, Loop
<1>3. P \subseteq 0 .. m - 1 /\ \A s \in 0 .. m - 1 : s \notin P => af(s) = bf(s) /\ s # slot
    BY DEF Path, After, Loop
<1>4. /\ \A s, t \in 0 .. m - 1 : af(s) = af(t) => s = t
      /\ \A s \in 0 .. m - 1 : \E t \in 0 .. m - 1 : af(s) = bf(t)
      /\ \A t \in 0 .. m - 1 : \E s \in 0 .. m - 1 : af(s) = bf(t)
    BY AfterBefore DEF Permuted
<1>5. /\ \A s \in 0 .. m - 1 : bf(s) \in DOMAIN h.ids
      /\ \A s \in 0 .. m - 1 : s # slot => h.ids[bf(s)] = s
    BY DEF Hole, Before, Loop
<1>6. is = [i \in DOMAIN h.ids |-> is[i]] /\ DOMAIN is = DOMAIN h.ids
    OBVIOUS
<1>7. ASSUME NEW i \in DOMAIN h.ids
      PROVE  /\ (\E s \in P : hp[s] = i) => is[i] \in P /\ hp[is[i]] = i
             /\ (\A s \in P : hp[s] # i) => is[i] = h.ids[i]
    <2>1. is[i] = IF \E s \in P : hp[s] = i THEN CHOOSE s \in P : hp[s] = i ELSE h.ids[i]
        OBVIOUS
    <2> HIDE DEF is, hp, P
    <2> QED BY <2>1
<1> HIDE DEF P, bf, af, hp, is, g
<1>8. ASSUME NEW s \in 0 .. m - 1
      PROVE  g.heap[s] \in DOMAIN h.ids /\ g.ids[g.heap[s]] = s
    <2>1. g.heap[s] = af(s) /\ hp[s] = af(s)
        BY <1>1, <1>2
    <2>0. af(s) \in DOMAIN h.ids
        <3>1. PICK t \in 0 .. m - 1 : af(s) = bf(t)
            BY <1>4
        <3> QED BY <1>5, <3>1
    <2>2. CASE s \in P
        <3>1. is[af(s)] \in P /\ hp[is[af(s)]] = af(s)
            BY <1>7, <2>0, <2>1, <2>2
        <3>2. af(is[af(s)]) = af(s)
            BY <1>1, <1>2, <1>3, <3>1
        <3> QED BY <1>2, <1>3, <1>4, <2>0, <2>1, <3>1, <3>2
    <2>3. CASE s \notin P
        <3>1. ASSUME NEW t \in P
              PROVE  hp[t] # af(s)
            BY <1>1, <1>2, <1>3, <1>4, <2>3
        <3>2. is[af(s)] = h.ids[af(s)]
            BY <1>7, <2>0, <2>1, <3>1
        <3> QED BY <1>2, <1>3, <1>5, <2>0, <2>1, <2>3, <3>2
    <2> QED BY <2>2, <2>3
<1>9. Nodes(g) = {bf(s) : s \in 0 .. m - 1}
    <2>1. \A x : x \in Nodes(g) <=> \E s \in 0 .. m - 1 : x = af(s)
        BY <1>1 DEF Nodes
    <2>2. \A x : (\E s \in 0 .. m - 1 : x = af(s)) <=> \E s \in 0 .. m - 1 : x = bf(s)
        BY <1>4
    <2> QED BY <2>1, <2>2
<1>10. ASSUME NEW i \in DOMAIN h.ids \ Nodes(g)
       PROVE  g.ids[i] = h.ids[i]
    <2>1. \A s \in P : hp[s] # i
        BY <1>1, <1>2, <1>3 DEF Nodes
    <2> QED BY <1>2, <1>7, <2>1
<1> QED BY <1>1, <1>2, <1>6, <1>8, <1>9, <1>10 DEF Placed, Followed, bf, g

-------------------------------------------------------------------------------
(* The order of the heap.                                                  *)

UpStep(h, id, slot) ==
    [s \in 0 .. slot |->
        IF s > 0 /\ h.dups[id].value < Value(h, HEAP_PARENT(s)) THEN HEAP_PARENT(s) ELSE s]

DownStep(h, id) ==
    [s \in 0 .. cur_size(h) - 1 |->
        IF HEAP_LEFT(s) < cur_size(h) /\ Value(h, SmallerChild(h, s)) < h.dups[id].value
        THEN SmallerChild(h, s) ELSE s]

LEMMA Reheaps ==
    ASSUME NEW h, NEW id, NEW slot
    PROVE  /\ reheap_up(h, id, slot) = Shift(h, id, slot, UpStep(h, id, slot))
           /\ reheap_down(h, id, slot) = Shift(h, id, slot, DownStep(h, id))
BY DEF reheap_up, reheap_down, UpStep, DownStep

LEMMA Parents ==
    /\ HEAP_PARENT(0) = 0
    /\ \A s \in Nat : s > 0 => HEAP_PARENT(s) \in 0 .. s - 1
    /\ \A s \in Nat : /\ HEAP_LEFT(s) \in Nat /\ HEAP_LEFT(s) > s
                      /\ HEAP_PARENT(HEAP_LEFT(s)) = s /\ HEAP_PARENT(HEAP_LEFT(s) + 1) = s
    /\ \A s, t \in Nat : s > 0 /\ HEAP_PARENT(s) = t => s = HEAP_LEFT(t) \/ s = HEAP_LEFT(t) + 1
BY DEF HEAP_PARENT, HEAP_LEFT

LEMMA Interval ==
    ASSUME NEW n \in Nat
    PROVE  Cardinality(0 .. n - 1) = n /\ IsFiniteSet(0 .. n - 1)
BY FS_Interval

LEMMA UpLoop ==
    ASSUME NEW h, NEW m \in Nat, NEW slot \in 0 .. m - 1, NEW id, Hole(h, m, slot, id)
    PROVE  /\ Loop(h, m, slot, id, UpStep(h, id, slot))
           /\ \A s \in Visits(UpStep(h, id, slot), slot) : s \in 0 .. slot
<1> DEFINE S == 0 .. slot
           step == UpStep(h, id, slot)
           rank == [s \in S |-> slot - s]
<1>1. Cardinality(S) = slot + 1
    BY FS_Interval
<1>2. step \in [S -> S]
    BY Parents DEF UpStep
<1>3. rank \in [S -> 0 .. Cardinality(S) - 1]
    BY <1>1
<1>4. ASSUME NEW s \in S
      PROVE  step[s] = s \/ rank[s] < rank[step[s]]
    <2>1. step[s] \in S /\ (step[s] = s \/ (s > 0 /\ step[s] = HEAP_PARENT(s)))
        BY <1>2 DEF UpStep
    <2>2. s > 0 => HEAP_PARENT(s) \in 0 .. s - 1
        BY Parents
    <2> HIDE DEF step
    <2> QED BY <2>1, <2>2
<1> HIDE DEF step, rank
<1>5. slot \in S /\ Cardinality(S) \in Nat
    BY <1>1
<1>6. Path(Visits(step, slot), slot, step) /\ Visits(step, slot) \subseteq S
    BY <1>2, <1>3, <1>4, <1>5, VisitsPath
<1> QED BY <1>6 DEF Loop, step

LEMMA DownLoop ==
    ASSUME NEW h, NEW m \in Nat, NEW slot \in 0 .. m - 1, NEW id, Hole(h, m, slot, id),
           DOMAIN h.heap = 0 .. m - 1
    PROVE  /\ Loop(h, m, slot, id, DownStep(h, id))
           /\ \A s \in Visits(DownStep(h, id), slot) : s \in slot .. m - 1
<1> DEFINE S == 0 .. m - 1
           step == DownStep(h, id)
           rank == [s \in S |-> s]
<1>1. cur_size(h) = m /\ Cardinality(S) = m
    BY Interval DEF cur_size
<1>2. ASSUME NEW s \in S
      PROVE  step[s] = s \/ (step[s] \in S /\ s < step[s])
    <2>1. step[s] = IF HEAP_LEFT(s) < m /\ Value(h, SmallerChild(h, s)) < h.dups[id].value
                    THEN SmallerChild(h, s) ELSE s
        BY <1>1 DEF DownStep
    <2>2. HEAP_LEFT(s) \in Nat /\ HEAP_LEFT(s) > s
        BY DEF HEAP_LEFT
    <2>3. SmallerChild(h, s) = HEAP_LEFT(s)
          \/ (HEAP_LEFT(s) + 1 < m /\ SmallerChild(h, s) = HEAP_LEFT(s) + 1)
        BY <1>1 DEF SmallerChild
    <2> QED BY <2>1, <2>2, <2>3
<1>3. step \in [S -> S]
    <2>1. DOMAIN step = S /\ step = [s \in DOMAIN step |-> step[s]]
        BY <1>1 DEF DownStep
    <2> HIDE DEF step
    <2>2. \A s \in S : step[s] \in S
        BY <1>2
    <2> QED BY <2>1, <2>2
<1>4. rank \in [S -> 0 .. Cardinality(S) - 1]
    BY <1>1
<1>5. ASSUME NEW s \in S
      PROVE  step[s] = s \/ rank[s] < rank[step[s]]
    BY <1>2
<1>6. rank[slot] = slot /\ \A s \in S : rank[s] = s
    OBVIOUS
<1> HIDE DEF step, rank
<1>7. slot \in S /\ Cardinality(S) \in Nat
    BY <1>1
<1>8. /\ Path(Visits(step, slot), slot, step) /\ Visits(step, slot) \subseteq S
      /\ \A s \in Visits(step, slot) : rank[slot] <= rank[s]
    BY <1>3, <1>4, <1>5, <1>7, VisitsPath
<1>9. \A s \in Visits(step, slot) : s \in slot .. m - 1
    BY <1>6, <1>8
<1> QED BY <1>8, <1>9 DEF Loop, step

\* The first n slots are in heap order.
Ordered(h, n) ==
    \A s \in 1 .. n - 1 : Value(h, HEAP_PARENT(s)) <= Value(h, s)

\* The expiry time in a slot before the loop.
Key(h, id, slot, s) == h.dups[Before(h, id, slot, s)].value

\* All is in order but the moved node, whose neighbours are.
Nearly(h, m, slot, id) ==
    /\ \A s \in 0 .. m - 1 : Key(h, id, slot, s) \in Nat
    /\ \A s \in 1 .. m - 1 : s # slot /\ HEAP_PARENT(s) # slot =>
          Key(h, id, slot, HEAP_PARENT(s)) <= Key(h, id, slot, s)
    /\ \A s \in 1 .. m - 1 : slot > 0 /\ HEAP_PARENT(s) = slot =>
          Key(h, id, slot, HEAP_PARENT(slot)) <= Key(h, id, slot, s)

LEMMA ParentOf ==
    ASSUME NEW m \in Nat, NEW x \in 1 .. m - 1
    PROVE  HEAP_PARENT(x) \in 0 .. m - 1 /\ HEAP_PARENT(x) < x
BY DEF HEAP_PARENT

\* Upwards: no child of the moved node is earlier.
LEMMA UpOrdered ==
    ASSUME NEW h, NEW m \in Nat, NEW slot \in 0 .. m - 1, NEW id, Hole(h, m, slot, id),
           Nearly(h, m, slot, id),
           \A s \in 1 .. m - 1 : HEAP_PARENT(s) = slot =>
               Key(h, id, slot, slot) <= Key(h, id, slot, s)
    PROVE  Ordered(reheap_up(h, id, slot), m)
<1> DEFINE step == UpStep(h, id, slot)
           P == Visits(step, slot)
           k(s) == Key(h, id, slot, s)
           a(s) == h.dups[After(h, id, slot, step, s)].value
           g == Shift(h, id, slot, step)
<1>1. Loop(h, m, slot, id, step) /\ \A s \in P : s \in 0 .. slot
    BY UpLoop
<1>2. /\ slot \in P /\ P \subseteq 0 .. m - 1
      /\ \A s \in P : step[s] \in P
      /\ \A t \in P : t # slot => \E s \in P : s # t /\ step[s] = t
    BY <1>1 DEF Loop, Path
<1>3. \A s : a(s) = IF s \notin P THEN k(s) ELSE IF step[s] = s THEN k(slot) ELSE k(step[s])
    BY DEF After, Before, Key
<1>4. ASSUME NEW s \in 0 .. slot
      PROVE  step[s] = IF s > 0 /\ k(slot) < k(HEAP_PARENT(s)) THEN HEAP_PARENT(s) ELSE s
    <2>1. s > 0 => HEAP_PARENT(s) # slot
        BY DEF HEAP_PARENT
    <2> QED BY <2>1 DEF UpStep, Key, Before, Value
<1>5. Moved(g, h, m, slot, id, step)
    BY <1>1, ShiftHeap
<1>6. \A s \in 0 .. m - 1 : Value(g, s) = a(s)
    BY <1>5 DEF Moved, Value
<1>7. /\ \A s \in 0 .. m - 1 : k(s) \in Nat
      /\ \A s \in 1 .. m - 1 : s # slot /\ HEAP_PARENT(s) # slot => k(HEAP_PARENT(s)) <= k(s)
      /\ \A s \in 1 .. m - 1 : slot > 0 /\ HEAP_PARENT(s) = slot => k(HEAP_PARENT(slot)) <= k(s)
      /\ \A s \in 1 .. m - 1 : HEAP_PARENT(s) = slot => k(slot) <= k(s)
    BY DEF Nearly
<1> HIDE DEF step, P, k, a, g
<1>8. ASSUME NEW x \in 1 .. m - 1
      PROVE  a(HEAP_PARENT(x)) <= a(x)
    <2> DEFINE q == HEAP_PARENT(x)
    <2>1. q \in 0 .. m - 1 /\ q < x /\ x \in 0 .. m - 1
        BY ParentOf
    <2>2. k(q) \in Nat /\ k(x) \in Nat /\ k(slot) \in Nat
        BY <1>7, <2>1
    <2>3. q # 0 => q \in 1 .. m - 1 /\ HEAP_PARENT(q) \in 0 .. m - 1 /\ HEAP_PARENT(q) < q
                   /\ k(HEAP_PARENT(q)) \in Nat
        BY <1>7, <2>1, ParentOf
\* A slot that was passed held a later node.
    <2>4. ASSUME NEW t \in P, t # slot
          PROVE  k(slot) < k(t)
        <3>1. PICK s \in P : s # t /\ step[s] = t
            BY <1>2, <2>4
        <3> QED BY <1>1, <1>4, <3>1
    <2>5. CASE x \in P /\ step[x] # x
        <3>1. step[x] = q /\ q \in P /\ a(x) = k(q) /\ k(slot) < k(q) /\ q # slot
            BY <1>1, <1>2, <1>3, <1>4, <2>1, <2>5
        <3>2. CASE step[q] = q
            BY <1>3, <2>2, <3>1, <3>2
        <3>3. CASE step[q] # q
            <4>1. q > 0 /\ step[q] = HEAP_PARENT(q) /\ a(q) = k(HEAP_PARENT(q))
                BY <1>1, <1>3, <1>4, <3>1, <3>3
            <4>2. HEAP_PARENT(q) # slot
                BY <1>1, <2>1, <2>3, <3>1, <4>1
            <4> QED BY <1>7, <2>1, <2>3, <3>1, <4>1, <4>2
        <3> QED BY <3>2, <3>3
    <2>6. CASE x \in P /\ step[x] = x
        <3>1. a(x) = k(slot) /\ ~(k(slot) < k(q)) /\ x <= slot
            BY <1>1, <1>3, <1>4, <2>1, <2>6
        <3>2. CASE q \in P
            <4>1. q # slot
                BY <2>1, <3>1
            <4>2. k(slot) < k(q)
                BY <2>4, <3>2, <4>1
            <4> QED BY <3>1, <4>2
        <3>3. CASE q \notin P
            BY <1>3, <2>2, <3>1, <3>3
        <3> QED BY <3>2, <3>3
    <2>7. CASE x \notin P /\ q \in P
        <3>1. a(x) = k(x) /\ x # slot
            BY <1>2, <1>3, <2>7
        <3>2. CASE step[q] = q
            <4>1. a(q) = k(slot)
                BY <1>3, <2>7, <3>2
            <4>2. CASE q = slot
                BY <1>7, <3>1, <4>1, <4>2
            <4>3. CASE q # slot
                <5>1. k(slot) < k(q) /\ k(q) <= k(x)
                    BY <1>7, <2>4, <2>7, <3>1, <4>3
                <5> QED BY <2>2, <3>1, <4>1, <5>1
            <4> QED BY <4>2, <4>3
        <3>3. CASE step[q] # q
            <4>1. q > 0 /\ step[q] = HEAP_PARENT(q) /\ a(q) = k(HEAP_PARENT(q))
                BY <1>1, <1>3, <1>4, <2>7, <3>3
            <4>2. CASE q = slot
                BY <1>7, <3>1, <4>1, <4>2
            <4>3. CASE q # slot
                <5>1. k(q) <= k(x)
                    BY <1>7, <3>1, <4>3
                <5>2. HEAP_PARENT(q) # slot
                    BY <1>1, <2>1, <2>3, <2>7, <4>1
                <5>3. k(HEAP_PARENT(q)) <= k(q)
                    BY <1>7, <2>1, <2>3, <4>1, <4>3, <5>2
                <5> QED BY <2>2, <2>3, <3>1, <4>1, <5>1, <5>3
            <4> QED BY <4>2, <4>3
        <3> QED BY <3>2, <3>3
    <2>8. CASE x \notin P /\ q \notin P
        BY <1>2, <1>3, <1>7, <2>8
    <2> QED BY <2>5, <2>6, <2>7, <2>8
<1>9. Ordered(g, m)
    BY <1>6, <1>8, ParentOf DEF Ordered
<1> QED BY <1>9, Reheaps DEF g, step

\* Downwards: the parent of the moved node is no later.
LEMMA DownOrdered ==
    ASSUME NEW h, NEW m \in Nat, NEW slot \in 0 .. m - 1, NEW id, Hole(h, m, slot, id),
           DOMAIN h.heap = 0 .. m - 1, h.heap[slot] = id,
           Nearly(h, m, slot, id),
           slot > 0 => Key(h, id, slot, HEAP_PARENT(slot)) <= Key(h, id, slot, slot)
    PROVE  Ordered(reheap_down(h, id, slot), m)
<1> DEFINE step == DownStep(h, id)
           P == Visits(step, slot)
           k(s) == Key(h, id, slot, s)
           a(s) == h.dups[After(h, id, slot, step, s)].value
           c(s) == SmallerChild(h, s)
           g == Shift(h, id, slot, step)
<1>1. Loop(h, m, slot, id, step) /\ \A s \in P : s \in slot .. m - 1
    BY DownLoop
<1>2. /\ slot \in P /\ P \subseteq 0 .. m - 1
      /\ \A s \in P : step[s] \in P
      /\ \A t \in P : t # slot => \E s \in P : s # t /\ step[s] = t
    BY <1>1 DEF Loop, Path
<1>3. \A s : a(s) = IF s \notin P THEN k(s) ELSE IF step[s] = s THEN k(slot) ELSE k(step[s])
    BY DEF After, Before, Key
<1>4. cur_size(h) = m
    BY Interval DEF cur_size
<1>5. \A s \in 0 .. m - 1 : Value(h, s) = k(s)
    BY DEF Key, Before, Value
<1>6. h.dups[id].value = k(slot)
    BY DEF Key, Before
\* The smaller child is a child, and no later than the other.
<1>7. ASSUME NEW s \in 0 .. m - 1
      PROVE  /\ step[s] = IF HEAP_LEFT(s) < m /\ k(c(s)) < k(slot) THEN c(s) ELSE s
             /\ HEAP_LEFT(s) < m => c(s) \in 1 .. m - 1 /\ HEAP_PARENT(c(s)) = s
             /\ \A x \in 1 .. m - 1 : HEAP_PARENT(x) = s => HEAP_LEFT(s) < m /\ k(c(s)) <= k(x)
    <2>1. /\ HEAP_LEFT(s) \in Nat /\ HEAP_LEFT(s) > s /\ s \in Nat
          /\ HEAP_PARENT(HEAP_LEFT(s)) = s /\ HEAP_PARENT(HEAP_LEFT(s) + 1) = s
        <3>1. s \in Nat
            OBVIOUS
        <3> QED BY <3>1, Parents
    <2>2. c(s) = IF HEAP_LEFT(s) + 1 < m /\ Value(h, HEAP_LEFT(s) + 1) < Value(h, HEAP_LEFT(s))
                 THEN HEAP_LEFT(s) + 1 ELSE HEAP_LEFT(s)
        BY <1>4 DEF SmallerChild
    <2>3. c(s) = IF HEAP_LEFT(s) + 1 < m /\ k(HEAP_LEFT(s) + 1) < k(HEAP_LEFT(s))
                 THEN HEAP_LEFT(s) + 1 ELSE HEAP_LEFT(s)
        <3>1. HEAP_LEFT(s) + 1 < m => /\ Value(h, HEAP_LEFT(s) + 1) = k(HEAP_LEFT(s) + 1)
                                      /\ Value(h, HEAP_LEFT(s)) = k(HEAP_LEFT(s))
            BY <1>5, <2>1
        <3> HIDE DEF k, c
        <3> QED BY <2>2, <3>1
    <2>4. HEAP_LEFT(s) < m => c(s) \in 1 .. m - 1 /\ HEAP_PARENT(c(s)) = s
        <3> HIDE DEF k, c
        <3> QED BY <2>1, <2>3
    <2>5. HEAP_LEFT(s) < m => Value(h, c(s)) = k(c(s))
        <3>1. HEAP_LEFT(s) < m => c(s) \in 0 .. m - 1
            BY <2>4
        <3> QED BY <1>5, <3>1
    <2>6. step[s] = IF HEAP_LEFT(s) < m /\ Value(h, c(s)) < k(slot) THEN c(s) ELSE s
        BY <1>4, <1>6 DEF DownStep
    <2>7. ASSUME NEW x \in 1 .. m - 1, HEAP_PARENT(x) = s
          PROVE  HEAP_LEFT(s) < m /\ k(c(s)) <= k(x)
        <3>1. x = HEAP_LEFT(s) \/ x = HEAP_LEFT(s) + 1
            BY <2>7 DEF HEAP_PARENT, HEAP_LEFT
        <3>2. \A y \in 0 .. m - 1 : k(y) \in Nat
            BY DEF Nearly
        <3> HIDE DEF k, c
        <3>3. HEAP_LEFT(s) < m
            BY <2>1, <3>1
        <3>4. k(x) \in Nat /\ k(HEAP_LEFT(s)) \in Nat /\ k(c(s)) \in Nat
            BY <2>1, <2>4, <3>2, <3>3
        <3> QED BY <2>1, <2>3, <3>1, <3>3, <3>4
    <2> HIDE DEF step, k, c
    <2> QED BY <2>4, <2>5, <2>6, <2>7
<1>8. Moved(g, h, m, slot, id, step)
    BY <1>1, ShiftHeap
<1>9. \A s \in 0 .. m - 1 : Value(g, s) = a(s)
    BY <1>8 DEF Moved, Value
<1>10. /\ \A s \in 0 .. m - 1 : k(s) \in Nat
       /\ \A s \in 1 .. m - 1 : s # slot /\ HEAP_PARENT(s) # slot => k(HEAP_PARENT(s)) <= k(s)
       /\ \A s \in 1 .. m - 1 : slot > 0 /\ HEAP_PARENT(s) = slot => k(HEAP_PARENT(slot)) <= k(s)
       /\ slot > 0 => k(HEAP_PARENT(slot)) <= k(slot)
    BY DEF Nearly
<1> HIDE DEF step, P, k, a, c, g
<1>11. ASSUME NEW x \in 1 .. m - 1
       PROVE  a(HEAP_PARENT(x)) <= a(x)
    <2> DEFINE q == HEAP_PARENT(x)
    <2>1. q \in 0 .. m - 1 /\ q < x /\ x \in 0 .. m - 1
        BY ParentOf
    <2>2. k(q) \in Nat /\ k(x) \in Nat /\ k(slot) \in Nat
        BY <1>10, <2>1
\* What moves into a slot that was passed was one of its children, and earlier.
    <2>3. ASSUME NEW s \in P, step[s] # s
          PROVE  /\ step[s] = c(s) /\ c(s) \in 1 .. m - 1 /\ HEAP_PARENT(c(s)) = s
                 /\ k(c(s)) < k(slot) /\ k(c(s)) \in Nat /\ a(s) = k(c(s))
        <3>1. s \in 0 .. m - 1
            BY <1>2
        <3>2. step[s] = c(s) /\ HEAP_LEFT(s) < m /\ k(c(s)) < k(slot)
            BY <1>7, <2>3, <3>1
        <3>3. c(s) \in 1 .. m - 1 /\ HEAP_PARENT(c(s)) = s
            BY <1>7, <3>1, <3>2
        <3>4. c(s) \in 0 .. m - 1
            BY <3>3
        <3> QED BY <1>3, <1>10, <2>3, <3>2, <3>3, <3>4
    <2>4. CASE x \in P /\ x # slot
        <3>1. PICK s \in P : s # x /\ step[s] = x
            BY <1>2, <2>4
        <3>2. s = q /\ a(q) = k(x) /\ k(x) < k(slot)
            BY <2>3, <3>1
        <3>3. CASE step[x] = x
            BY <1>3, <2>2, <2>4, <3>2, <3>3
        <3>4. CASE step[x] # x
            <4>1. /\ c(x) \in 1 .. m - 1 /\ HEAP_PARENT(c(x)) = x /\ a(x) = k(c(x))
                BY <2>3, <2>4, <3>4
            <4>2. c(x) # slot
                BY <1>1, <1>2, <2>3, <2>4, <3>4, <4>1, ParentOf
            <4> QED BY <1>10, <2>4, <3>2, <4>1, <4>2
        <3> QED BY <3>3, <3>4
    <2>5. CASE x = slot
        <3>1. q \notin P /\ a(q) = k(q)
            BY <1>1, <1>3, <2>1, <2>5
        <3>2. CASE step[x] = x
            BY <1>2, <1>3, <1>10, <2>1, <2>5, <3>1, <3>2
        <3>3. CASE step[x] # x
            <4>1. c(x) \in 1 .. m - 1 /\ HEAP_PARENT(c(x)) = x /\ a(x) = k(c(x))
                BY <1>2, <2>3, <2>5, <3>3
            <4> QED BY <1>10, <2>1, <2>5, <3>1, <4>1
        <3> QED BY <3>2, <3>3
    <2>6. CASE x \notin P /\ q \in P
        <3>1. a(x) = k(x) /\ HEAP_LEFT(q) < m /\ k(c(q)) <= k(x)
            BY <1>3, <1>7, <2>1, <2>6
        <3>2. CASE step[q] = q
            <4>1. a(q) = k(slot)
                BY <1>3, <2>6, <3>2
            <4>2. c(q) \in 1 .. m - 1 /\ HEAP_PARENT(c(q)) = q
                BY <1>7, <2>1, <3>1
            <4>3. c(q) # q /\ k(c(q)) \in Nat
                BY <1>10, <4>2, ParentOf
            <4>4. ~(k(c(q)) < k(slot))
                BY <1>7, <2>1, <3>1, <3>2, <4>3
            <4> QED BY <2>2, <3>1, <4>1, <4>3, <4>4
        <3>3. CASE step[q] # q
            BY <2>3, <2>6, <3>1, <3>3
        <3> QED BY <3>2, <3>3
    <2>7. CASE x \notin P /\ q \notin P
        BY <1>2, <1>3, <1>10, <2>7
    <2> QED BY <2>4, <2>5, <2>6, <2>7
<1>12. Ordered(g, m)
    BY <1>9, <1>11, ParentOf DEF Ordered
<1> QED BY <1>12, Reheaps DEF g, step

-------------------------------------------------------------------------------
(* The free list.                                                          *)

\* The ids of F hang together by next: a chain from head to end, without a cycle.
Chain(F, end, head, next) ==
    /\ end \notin F
    /\ head \in F \cup {end}
    /\ \A i \in F : next[i] \in F \cup {end} /\ next[i] # head
    /\ \A i, j \in F : next[i] = next[j] => i = j
    /\ \A x \in F \cup {end} : x = head \/ \E i \in F : next[i] = x
    /\ \A C \in SUBSET F : C # {} => \E i \in C : next[i] \notin C

\* A chain that is not empty has its head in F: a cycle apart from it is impossible.
LEMMA ChainHead ==
    ASSUME NEW F, NEW end, NEW head, NEW next, Chain(F, end, head, next), F # {}
    PROVE  head \in F
<1>1. PICK i \in F : next[i] \notin F
    BY DEF Chain
<1> QED BY <1>1 DEF Chain

LEMMA ChainPop ==
    ASSUME NEW F, NEW end, NEW head, NEW next, Chain(F, end, head, next), head \in F
    PROVE  Chain(F \ {head}, end, next[head], next)
<1> DEFINE G == F \ {head}
<1>1. \A i \in G : next[i] \in G \cup {end} /\ next[i] # next[head]
    BY DEF Chain
<1>2. \A x \in G \cup {end} : x = next[head] \/ \E i \in G : next[i] = x
    BY DEF Chain
<1>3. next[head] \in G \cup {end} /\ end \notin G
    BY DEF Chain
<1>4. \A i, j \in G : next[i] = next[j] => i = j
    BY DEF Chain
<1>5. \A C \in SUBSET G : C # {} => \E i \in C : next[i] \notin C
    BY DEF Chain
<1> QED BY <1>1, <1>2, <1>3, <1>4, <1>5 DEF Chain

\* The chain says nothing about what is not in F.
LEMMA ChainFrame ==
    ASSUME NEW F, NEW end, NEW head, NEW next, NEW new, Chain(F, end, head, next),
           \A i \in F : new[i] = next[i]
    PROVE  Chain(F, end, head, new)
<1>1. \A C \in SUBSET F : C # {} => \E i \in C : new[i] \notin C
    <2>1. ASSUME NEW C \in SUBSET F, C # {}
          PROVE  \E i \in C : new[i] \notin C
        <3>1. PICK i \in C : next[i] \notin C
            BY <2>1 DEF Chain
        <3> QED BY <3>1
    <2> QED BY <2>1
<1>2. \A x \in F \cup {end} : x = head \/ \E i \in F : new[i] = x
    BY DEF Chain
<1>3. \A i \in F : new[i] \in F \cup {end} /\ new[i] # head
    BY DEF Chain
<1>4. \A i, j \in F : new[i] = new[j] => i = j
    BY DEF Chain
<1> QED BY <1>1, <1>2, <1>3, <1>4 DEF Chain

LEMMA ChainPush ==
    ASSUME NEW F, NEW end, NEW head, NEW next, NEW id, NEW new, Chain(F, end, head, next),
           id \notin F, id # end, new[id] = head, \A i \in F : new[i] = next[i]
    PROVE  Chain(F \cup {id}, end, id, new)
<1> DEFINE G == F \cup {id}
<1>1. \A i \in G : new[i] \in G \cup {end} /\ new[i] # id
    BY DEF Chain
<1>2. \A x \in G \cup {end} : x = id \/ \E i \in G : new[i] = x
    <2>1. ASSUME NEW x \in F \cup {end}
          PROVE  \E i \in G : new[i] = x
        <3>1. x = head \/ \E i \in F : next[i] = x
            BY DEF Chain
        <3> QED BY <3>1
    <2> QED BY <2>1
<1>3. id \in G \cup {end} /\ end \notin G
    BY DEF Chain
<1>4. \A i, j \in G : new[i] = new[j] => i = j
    <2>1. \A i \in F : new[i] # new[id]
        BY DEF Chain
    <2>2. \A i, j \in F : new[i] = new[j] => i = j
        BY DEF Chain
    <2> QED BY <2>1, <2>2
<1>5. ASSUME NEW C \in SUBSET G, C # {}
      PROVE  \E i \in C : new[i] \notin C
    <2>1. CASE C = {id}
        BY <2>1 DEF Chain
    <2>2. CASE C # {id}
        <3>1. C \ {id} \in SUBSET F /\ C \ {id} # {}
            BY <1>5, <2>2
        <3>2. PICK i \in C \ {id} : next[i] \notin C \ {id}
            BY <3>1 DEF Chain
        <3>3. i \in F /\ new[i] = next[i] /\ next[i] # id
            BY <3>1 DEF Chain
        <3> QED BY <3>2, <3>3
    <2> QED BY <2>1, <2>2
<1> QED BY <1>1, <1>2, <1>3, <1>4, <1>5 DEF Chain

\* grow_heap: the chain goes on through the new ids, in order.
LEMMA ChainGrow ==
    ASSUME NEW F, NEW end \in Nat, NEW head, NEW next, NEW new, NEW size \in Nat,
           Chain(F, end, head, next), F \subseteq 1 .. end - 1, size > end,
           \A i \in F : new[i] = next[i], \A i \in end .. size - 1 : new[i] = i + 1
    PROVE  Chain(F \cup end .. size - 1, size, head, new)
<1> DEFINE N == end .. size - 1
           G == F \cup N
<1>0. /\ \A i \in F : i \in Nat /\ i < end
      /\ \A i \in N : i \in Nat /\ i + 1 \in Nat /\ i + 1 > end /\ (i + 1 \in N \/ i + 1 = size)
      /\ \A i \in N : end <= i /\ i < size
      /\ end \in N /\ size \notin N
    OBVIOUS
<1>1. \A i \in F : new[i] \in F \cup {end} /\ new[i] # head
    BY DEF Chain
<1>2. \A i \in N : new[i] = i + 1
    OBVIOUS
<1>3. size \notin G
    BY <1>0
<1>4. head \in F \cup {end}
    BY DEF Chain
<1> HIDE DEF N
<1>5. \A i \in G : new[i] \in G \cup {size} /\ new[i] # head
    <2>1. \A i \in F : new[i] \in G \cup {size} /\ new[i] # head
        BY <1>0, <1>1
    <2>2. ASSUME NEW i \in N
          PROVE  new[i] \in G \cup {size} /\ new[i] # head
        <3>1. new[i] = i + 1 /\ i + 1 > end /\ (i + 1 \in N \/ i + 1 = size)
            BY <1>0, <1>2
        <3>2. head \in Nat /\ head <= end
            BY <1>0, <1>4
        <3>3. i + 1 # head
            BY <1>0, <3>1, <3>2
        <3> QED BY <3>1, <3>3
    <2> QED BY <2>1, <2>2
<1>6. \A i, j \in G : new[i] = new[j] => i = j
    <2>1. \A i, j \in F : new[i] = new[j] => i = j
        BY DEF Chain
    <2>2. \A i, j \in N : new[i] = new[j] => i = j
        BY <1>0, <1>2
    <2>3. \A i \in F, j \in N : new[i] # new[j]
        <3>1. ASSUME NEW i \in F, NEW j \in N
              PROVE  new[i] # new[j]
            <4>0. new[i] \in F \cup {end}
                BY <1>1
            <4>1. new[i] \in Nat /\ new[i] <= end
                <5>1. CASE new[i] = end
                    BY <5>1
                <5>2. CASE new[i] \in F
                    <6>1. new[i] \in 1 .. end - 1
                        BY <5>2
                    <6> QED BY <6>1
                <5> QED BY <4>0, <5>1, <5>2
            <4>2. new[j] = j + 1 /\ j + 1 \in Nat /\ j + 1 > end
                BY <1>0, <1>2
            <4> QED BY <4>1, <4>2
        <3> QED BY <3>1
    <2> QED BY <2>1, <2>2, <2>3
<1>7. ASSUME NEW x \in G \cup {size}
      PROVE  x = head \/ \E i \in G : new[i] = x
    <2>1. CASE x \in F \cup {end}
        <3>1. x = head \/ \E i \in F : next[i] = x
            BY <2>1 DEF Chain
        <3> QED BY <3>1
    <2>2. CASE x \notin F \cup {end}
        <3>1. x - 1 \in N /\ x - 1 + 1 = x
            BY <1>0, <2>2 DEF N
        <3> QED BY <1>2, <3>1
    <2> QED BY <2>1, <2>2
<1>8. ASSUME NEW C \in SUBSET G, C # {}
      PROVE  \E i \in C : new[i] \notin C
    <2>1. CASE C \in SUBSET F
        <3>1. PICK i \in C : next[i] \notin C
            BY <1>8, <2>1 DEF Chain
        <3> QED BY <2>1, <3>1
    <2>2. CASE C \notin SUBSET F
        <3> DEFINE T == {k \in Nat : size - k \in C \cap N}
        <3>1. PICK y \in C : y \in N
            BY <2>2
        <3>2. size - y \in T
            BY <1>0, <3>1
        <3>3. PICK k \in T : \A m \in T : k <= m
            <4>1. T \in SUBSET Nat /\ T # {}
                BY <3>2
            <4> HIDE DEF T
            <4> QED BY <4>1, LeastNumber
        <3>4. k \in Nat /\ size - k \in C /\ size - k \in N /\ new[size - k] = size - k + 1
            BY <1>2, <3>3
        <3>5. size - k + 1 \notin C
            <4>1. SUFFICES ASSUME size - k + 1 \in C PROVE FALSE
                OBVIOUS
            <4>2. size - k + 1 \in N
                BY <1>0, <1>3, <3>4, <4>1
            <4>3. k - 1 \in Nat /\ size - (k - 1) = size - k + 1 /\ ~(k <= k - 1)
                BY <1>0, <3>4, <4>2
            <4>4. k - 1 \in T
                BY <4>1, <4>2, <4>3
            <4> QED BY <3>3, <4>3, <4>4
        <3> QED BY <3>4, <3>5
    <2> QED BY <2>1, <2>2
<1>9. head \in G \cup {size}
    BY <1>0, <1>4
<1>10. Chain(G, size, head, new)
    BY <1>3, <1>5, <1>6, <1>7, <1>8, <1>9 DEF Chain
<1> QED BY <1>10 DEF N

-------------------------------------------------------------------------------
(* The operations on the heap.                                             *)

Free(h) == (1 .. h.max_size - 1) \ Nodes(h)

\* The chain that the negated elements of timer_ids make.
IdNext(h) == [i \in DOMAIN h.ids |-> -h.ids[i]]

\* A heap of n nodes whose arrays agree and whose nodes are in order.
Sound(h, n) ==
    /\ n \in Nat /\ h.max_size \in Nat /\ n + 2 <= h.max_size
    /\ Placed(h, n)
    /\ Nodes(h) \subseteq 1 .. h.max_size - 1
    /\ h.ids \in [0 .. h.max_size - 1 -> -h.max_size .. h.max_size]
    /\ DOMAIN h.dups = Nodes(h) /\ \A i \in Nodes(h) : h.dups[i] \in Dup
    /\ Chain(Free(h), h.max_size, h.freelist, IdNext(h))
    /\ Ordered(h, n)

LEMMA SoundSize ==
    ASSUME NEW h, NEW n, Sound(h, n)
    PROVE  cur_size(h) = n
BY Interval DEF Sound, Placed, cur_size

LEMMA SoundSlot ==
    ASSUME NEW h, NEW n, Sound(h, n), NEW s \in 0 .. n - 1
    PROVE  /\ h.heap[s] \in Nodes(h) /\ h.ids[h.heap[s]] = s
           /\ h.heap[s] \in 1 .. h.max_size - 1
           /\ Value(h, s) \in Times /\ Value(h, s) \in Nat
<1>1. h.heap[s] \in Nodes(h) /\ h.ids[h.heap[s]] = s
    BY DEF Sound, Placed, Nodes
<1>2. h.dups[h.heap[s]] \in Dup /\ h.heap[s] \in 1 .. h.max_size - 1
    BY <1>1 DEF Sound
<1>3. h.dups[h.heap[s]].value \in Times
    BY <1>2 DEF Dup
<1> QED BY <1>1, <1>2, <1>3, TimerHeapAssumption DEF Times, Value

LEMMA SoundNode ==
    ASSUME NEW h, NEW n, Sound(h, n), NEW i \in Nodes(h)
    PROVE  h.ids[i] \in 0 .. n - 1 /\ h.heap[h.ids[i]] = i
<1>1. PICK s \in 0 .. n - 1 : i = h.heap[s]
    BY DEF Sound, Placed, Nodes
<1> QED BY <1>1, SoundSlot

\* There is always a free id.
LEMMA Room ==
    ASSUME NEW h, NEW n, Sound(h, n)
    PROVE  h.freelist \in Free(h) /\ IsFiniteSet(Nodes(h))
<1> DEFINE f == [s \in 0 .. n - 1 |-> h.heap[s]]
<1>1. n \in Nat /\ h.max_size \in Nat /\ n + 2 <= h.max_size
    BY DEF Sound
<1>2. f \in Surjection(0 .. n - 1, Nodes(h))
    <2>1. \A s \in 0 .. n - 1 : f[s] = h.heap[s] /\ h.heap[s] \in Nodes(h)
        BY SoundSlot
    <2>2. \A i \in Nodes(h) : \E s \in 0 .. n - 1 : i = h.heap[s]
        BY DEF Sound, Placed, Nodes
    <2> QED BY <2>1, <2>2 DEF Surjection
<1>3. IsFiniteSet(Nodes(h)) /\ Cardinality(Nodes(h)) <= n
    <2>1. IsFiniteSet(0 .. n - 1) /\ Cardinality(0 .. n - 1) = n
        BY <1>1, Interval
    <2> HIDE DEF f
    <2> QED BY <1>2, <2>1, FS_Surjection
<1>4. Cardinality(1 .. h.max_size - 1) = h.max_size - 1
    <2>1. 1 \in Int /\ h.max_size - 1 \in Int /\ ~(1 > h.max_size - 1)
        BY <1>1
    <2>2. Cardinality(1 .. h.max_size - 1)
          = IF 1 > h.max_size - 1 THEN 0 ELSE h.max_size - 1 - 1 + 1
        BY <2>1, FS_Interval
    <2> QED BY <1>1, <2>1, <2>2
<1>5. Free(h) # {}
    <2>1. SUFFICES ASSUME Free(h) = {} PROVE FALSE
        OBVIOUS
    <2>2. Nodes(h) = 1 .. h.max_size - 1
        BY <2>1 DEF Sound, Free
    <2> QED BY <1>1, <1>3, <1>4, <2>2
<1> QED BY <1>3, <1>5, ChainHead DEF Sound

\* What remove_node leaves.
Removed(g, h, n, slot) ==
    /\ Sound(g, n - 1) /\ g.max_size = h.max_size
    /\ Nodes(g) = Nodes(h) \ {h.heap[slot]}
    /\ \A i \in Nodes(g) : g.dups[i] = h.dups[i]

LEMMA RemovedSound ==
    ASSUME NEW h, NEW n, Sound(h, n), NEW slot \in 0 .. n - 1,
           NEW g, NEW x, x = h.heap[slot],
           Placed(g, n - 1), Nodes(g) = Nodes(h) \ {x}, Ordered(g, n - 1),
           g.max_size = h.max_size, g.freelist = x,
           g.dups = [i \in DOMAIN h.dups \ {x} |-> h.dups[i]],
           g.ids = [i \in DOMAIN h.ids |-> g.ids[i]],
           \A i \in DOMAIN h.ids \ Nodes(g) :
               g.ids[i] = IF i = x THEN -h.freelist ELSE h.ids[i]
    PROVE  Removed(g, h, n, slot)
<1>0. n \in Nat /\ h.max_size \in Nat /\ n + 2 <= h.max_size /\ n - 1 \in Nat
    BY DEF Sound
<1>1. x \in Nodes(h) /\ x \in 1 .. h.max_size - 1
    BY SoundSlot
<1>2. /\ h.ids \in [0 .. h.max_size - 1 -> -h.max_size .. h.max_size]
      /\ DOMAIN h.ids = 0 .. h.max_size - 1
    BY DEF Sound
<1>3. Free(g) = Free(h) \cup {x} /\ x \notin Free(h) /\ x # h.max_size
    BY <1>0, <1>1 DEF Free
<1>4. h.freelist \in 1 .. h.max_size - 1
    BY Room DEF Free
<1>5. Chain(Free(g), g.max_size, g.freelist, IdNext(g))
    <2>1. \A i \in Free(h) : i \in DOMAIN h.ids \ Nodes(g) /\ i # x
        BY <1>1, <1>2 DEF Free
    <2>2. \A i \in Free(h) : IdNext(g)[i] = IdNext(h)[i]
        BY <2>1 DEF IdNext
    <2>3. IdNext(g)[x] = h.freelist
        <3>1. x \in DOMAIN h.ids /\ x \notin Nodes(g) /\ DOMAIN g.ids = DOMAIN h.ids
            BY <1>1, <1>2
        <3>2. g.ids[x] = -h.freelist
            BY <3>1
        <3>3. -(-h.freelist) = h.freelist
            BY <1>4
        <3> QED BY <3>1, <3>2, <3>3 DEF IdNext
    <2>4. Chain(Free(h), h.max_size, h.freelist, IdNext(h))
        BY DEF Sound
    <2> QED BY <1>3, <2>2, <2>3, <2>4, ChainPush
<1>6. g.ids \in [0 .. g.max_size - 1 -> -g.max_size .. g.max_size]
    <2>1. ASSUME NEW i \in 0 .. h.max_size - 1
          PROVE  g.ids[i] \in -h.max_size .. h.max_size
        <3>1. CASE i \in Nodes(g)
            <4>1. PICK s \in 0 .. n - 2 : i = g.heap[s]
                BY <3>1, <1>0 DEF Placed, Nodes
            <4>2. g.ids[i] = s
                BY <4>1, <1>0 DEF Placed
            <4> QED BY <4>2, <1>0
        <3>2. CASE i \notin Nodes(g)
            <4>1. g.ids[i] = -h.freelist \/ g.ids[i] = h.ids[i]
                BY <1>2, <3>2
            <4>2. -h.freelist \in -h.max_size .. h.max_size
                BY <1>0, <1>4
            <4> QED BY <1>2, <4>1, <4>2
        <3> QED BY <3>1, <3>2
    <2> QED BY <1>2, <2>1
<1>7. /\ DOMAIN g.dups = Nodes(g)
      /\ \A i \in Nodes(g) : g.dups[i] = h.dups[i] /\ g.dups[i] \in Dup
    BY DEF Sound
<1>8. Nodes(g) \subseteq 1 .. g.max_size - 1
    BY DEF Sound
<1>9. n - 1 + 2 <= g.max_size
    BY <1>0
<1> QED BY <1>0, <1>5, <1>6, <1>7, <1>8, <1>9 DEF Removed, Sound

\* Whatever slot is emptied and whichever way the last node goes.
LEMMA RemoveNode ==
    ASSUME NEW h, NEW n, Sound(h, n), NEW slot \in 0 .. n - 1
    PROVE  Removed(remove_node(h, slot), h, n, slot)
<1> DEFINE x == h.heap[slot]
           last == n - 1
           id == h.heap[last]
           freed == push_freelist(h, x)
           shrunk == [freed EXCEPT !.heap = [s \in 0 .. last - 1 |-> freed.heap[s]],
                                   !.dups = [i \in DOMAIN freed.dups \ {x} |-> freed.dups[i]]]
           placed == copy_node(shrunk, slot, id)
<1>1. n \in Nat /\ last \in Nat /\ last \in 0 .. n - 1 /\ slot <= last /\ slot \in Nat
    BY DEF Sound
<1>2. remove_node(h, slot) =
          IF slot = last THEN shrunk
          ELSE IF h.dups[id].value >= Value(placed, HEAP_PARENT(slot))
               THEN reheap_down(placed, id, slot)
               ELSE reheap_up(placed, id, slot)
    BY SoundSize DEF remove_node
<1>3. Shape(h) /\ DOMAIN h.heap = 0 .. n - 1 /\ DOMAIN h.dups = Nodes(h)
    BY DEF Sound, Placed
<1>4. /\ Shape(freed) /\ freed.max_size = h.max_size /\ freed.freelist = x
      /\ freed.heap = h.heap /\ freed.dups = h.dups
      /\ freed.ids = [h.ids EXCEPT ![x] = -h.freelist]
    BY <1>3 DEF Shape, push_freelist
<1> HIDE DEF freed
<1>5. /\ Shape(shrunk) /\ shrunk.max_size = h.max_size /\ shrunk.freelist = x
      /\ shrunk.heap = [s \in 0 .. last - 1 |-> h.heap[s]]
      /\ shrunk.dups = [i \in DOMAIN h.dups \ {x} |-> h.dups[i]]
      /\ shrunk.ids = [h.ids EXCEPT ![x] = -h.freelist]
    BY <1>4 DEF Shape
<1> HIDE DEF shrunk
<1>6. \A s \in 0 .. n - 1 : /\ h.heap[s] \in DOMAIN h.ids /\ h.ids[h.heap[s]] = s
                            /\ h.heap[s] \in Nodes(h)
    BY SoundSlot DEF Sound, Placed
<1>7. \A s, t \in 0 .. n - 1 : h.heap[s] = h.heap[t] => s = t
    BY <1>6
<1>8. /\ Ordered(h, n)
      /\ \A s \in 0 .. n - 1 : Value(h, s) \in Nat
    BY SoundSlot DEF Sound
<1>9. \A i : i \in Nodes(h) <=> \E s \in 0 .. n - 1 : i = h.heap[s]
    BY <1>3 DEF Nodes
<1>10. CASE slot = last
    <2>1. Nodes(shrunk) = Nodes(h) \ {x}
        <3>1. \A i : i \in Nodes(shrunk) <=> \E s \in 0 .. last - 1 : i = h.heap[s]
            BY <1>5 DEF Nodes
        <3>2. \A s \in 0 .. n - 1 : s \in 0 .. last - 1 \/ s = slot
            BY <1>1, <1>10
        <3>3. \A s \in 0 .. last - 1 : s \in 0 .. n - 1 /\ s # slot
            BY <1>1, <1>10
        <3> HIDE DEF last
        <3>4. ASSUME NEW i \in Nodes(shrunk)
              PROVE  i \in Nodes(h) \ {x}
            BY <1>7, <1>9, <3>1, <3>3
        <3>5. ASSUME NEW i \in Nodes(h), i # x
              PROVE  i \in Nodes(shrunk)
            BY <1>9, <3>1, <3>2, <3>5
        <3> QED BY <3>4, <3>5
    <2>2. Placed(shrunk, last)
        <3>1. ASSUME NEW s \in 0 .. last - 1
              PROVE  shrunk.heap[s] \in DOMAIN shrunk.ids /\ shrunk.ids[shrunk.heap[s]] = s
            <4>1. s \in 0 .. n - 1 /\ s # slot /\ shrunk.heap[s] = h.heap[s]
                BY <1>1, <1>5, <1>10
            <4>2. h.heap[s] # x
                BY <1>7, <4>1
            <4> QED BY <1>5, <1>6, <4>1, <4>2
        <3> QED BY <1>5, <3>1 DEF Placed
    <2>3. Ordered(shrunk, last)
        <3>1. ASSUME NEW s \in 0 .. last - 1
              PROVE  Value(shrunk, s) = Value(h, s)
            <4>1. s \in 0 .. n - 1 /\ s # slot /\ shrunk.heap[s] = h.heap[s]
                BY <1>1, <1>5, <1>10
            <4>2. h.heap[s] # x /\ h.heap[s] \in DOMAIN h.dups
                BY <1>3, <1>6, <1>7, <4>1
            <4> QED BY <1>5, <4>1, <4>2 DEF Value
        <3>2. ASSUME NEW s \in 1 .. last - 1
              PROVE  Value(shrunk, HEAP_PARENT(s)) <= Value(shrunk, s)
            <4>1. s \in 1 .. n - 1 /\ s \in 0 .. last - 1
                BY <1>1
            <4>2. HEAP_PARENT(s) \in 0 .. last - 1
                BY <1>1, ParentOf
            <4> QED BY <1>8, <3>1, <4>1, <4>2 DEF Ordered
        <3> QED BY <3>2 DEF Ordered
    <2>4. /\ shrunk.ids = [i \in DOMAIN h.ids |-> shrunk.ids[i]]
          /\ \A i \in DOMAIN h.ids \ Nodes(shrunk) :
                shrunk.ids[i] = IF i = x THEN -h.freelist ELSE h.ids[i]
        BY <1>5
    <2>5. Removed(shrunk, h, n, slot)
        BY <1>5, <2>1, <2>2, <2>3, <2>4, RemovedSound
    <2> QED BY <1>2, <1>10, <2>5
<1>11. CASE slot # last
    <2>1. /\ Shape(placed) /\ placed.max_size = h.max_size /\ placed.freelist = x
          /\ placed.heap = With(shrunk.heap, slot, id)
          /\ placed.dups = shrunk.dups
          /\ placed.ids = [shrunk.ids EXCEPT ![id] = slot]
        BY <1>5 DEF Shape, copy_node
    <2> HIDE DEF placed
    <2>2. id # x /\ id \in DOMAIN h.ids /\ id \in Nodes(h) /\ slot \in 0 .. last - 1
        BY <1>1, <1>6, <1>7, <1>11
    <2>3. \A s \in 0 .. last - 1 : s \in 0 .. n - 1 /\ s # last
        BY <1>1
    <2>4. /\ DOMAIN placed.heap = 0 .. last - 1
          /\ \A s \in 0 .. last - 1 : placed.heap[s] = IF s = slot THEN id ELSE h.heap[s]
        BY <1>5, <2>1, <2>2 DEF With
    <2>5. placed.ids = [i \in DOMAIN h.ids |->
                           IF i = id THEN slot ELSE IF i = x THEN -h.freelist ELSE h.ids[i]]
        <3>1. x \in DOMAIN h.ids
            BY <1>6
        <3> QED BY <1>5, <2>1, <2>2, <3>1
    <2> HIDE DEF last, id, x
    <2>6. Hole(placed, last, slot, id)
        <3>1. ASSUME NEW s \in (0 .. last - 1) \ {slot}
              PROVE  /\ placed.heap[s] \in DOMAIN placed.ids
                     /\ placed.ids[placed.heap[s]] = s /\ placed.heap[s] # id
            <4>1. s \in 0 .. n - 1 /\ s # last /\ s # slot /\ placed.heap[s] = h.heap[s]
                BY <2>3, <2>4
            <4>2. h.heap[s] # id /\ h.heap[s] # x
                BY <1>1, <1>7, <4>1 DEF id, x
            <4> QED BY <1>6, <2>5, <4>1, <4>2
        <3> QED BY <2>1, <2>2, <2>4, <2>5, <3>1 DEF Hole
    <2>7. \A s \in 0 .. last - 1 : Before(placed, id, slot, s) = IF s = slot THEN id ELSE h.heap[s]
        BY <2>4 DEF Before
    <2>8. \A i : (\E s \in 0 .. last - 1 : i = Before(placed, id, slot, s))
                 <=> i \in Nodes(h) \ {x}
        <3>1. ASSUME NEW s \in 0 .. last - 1
              PROVE  Before(placed, id, slot, s) \in Nodes(h) \ {x}
            <4>1. CASE s = slot
                BY <2>2, <2>7, <4>1
            <4>2. CASE s # slot
                BY <1>6, <1>7, <2>3, <2>7, <4>2 DEF x
            <4> QED BY <4>1, <4>2
        <3>2. ASSUME NEW i \in Nodes(h), i # x
              PROVE  \E s \in 0 .. last - 1 : i = Before(placed, id, slot, s)
            <4>1. PICK s \in 0 .. n - 1 : i = h.heap[s]
                BY <1>9
            <4>2. CASE s = last
                BY <2>2, <2>7, <4>1, <4>2 DEF id
            <4>3. CASE s # last
                <5>1. s \in 0 .. last - 1 /\ s # slot
                    BY <1>1, <3>2, <4>1, <4>3 DEF last, x
                <5> QED BY <2>7, <4>1, <5>1
            <4> QED BY <4>2, <4>3
        <3> QED BY <3>1, <3>2
    <2>9. ASSUME NEW s \in 0 .. last - 1
          PROVE  Key(placed, id, slot, s) = IF s = slot THEN Value(h, last) ELSE Value(h, s)
        <3>1. Before(placed, id, slot, s) \in Nodes(h) \ {x}
            BY <2>8
        <3>2. placed.dups[Before(placed, id, slot, s)] = h.dups[Before(placed, id, slot, s)]
            BY <1>3, <1>5, <2>1, <3>1 DEF x
        <3> QED BY <2>7, <3>2 DEF Key, Value, id
    <2>10. \A s \in 1 .. n - 1 : Value(h, HEAP_PARENT(s)) <= Value(h, s)
        BY <1>8 DEF Ordered
    <2>11. \A s \in 1 .. last - 1 : /\ HEAP_PARENT(s) \in 0 .. last - 1 /\ s \in 1 .. n - 1
                                    /\ s \in 0 .. last - 1
        BY <1>1, <2>3, ParentOf
    <2>12. Nearly(placed, last, slot, id)
        <3>1. \A s \in 0 .. last - 1 : Key(placed, id, slot, s) \in Nat
            BY <1>1, <1>8, <2>3, <2>9
        <3>2. ASSUME NEW s \in 1 .. last - 1, s # slot, HEAP_PARENT(s) # slot
              PROVE  Key(placed, id, slot, HEAP_PARENT(s)) <= Key(placed, id, slot, s)
            BY <2>9, <2>10, <2>11, <3>2
        <3>3. ASSUME NEW s \in 1 .. last - 1, slot > 0, HEAP_PARENT(s) = slot
              PROVE  Key(placed, id, slot, HEAP_PARENT(slot)) <= Key(placed, id, slot, s)
            <4>1. slot \in 1 .. last - 1 /\ slot \in 1 .. n - 1
                BY <1>1, <2>2, <3>3 DEF last
            <4>2. HEAP_PARENT(slot) \in 0 .. last - 1 /\ HEAP_PARENT(slot) < slot
                BY <1>1, <4>1, ParentOf
            <4>3. HEAP_PARENT(slot) # slot /\ s # slot
                BY <1>1, <3>3, <4>2
            <4>4. /\ Key(placed, id, slot, HEAP_PARENT(slot)) = Value(h, HEAP_PARENT(slot))
                  /\ Key(placed, id, slot, s) = Value(h, s)
                BY <2>9, <2>11, <4>2, <4>3
            <4>5. Value(h, HEAP_PARENT(slot)) <= Value(h, slot) /\ Value(h, slot) <= Value(h, s)
                BY <2>10, <2>11, <3>3, <4>1
            <4>6. /\ Value(h, HEAP_PARENT(slot)) \in Nat /\ Value(h, slot) \in Nat
                  /\ Value(h, s) \in Nat
                BY <1>8, <2>3, <2>11, <4>2
            <4> QED BY <4>4, <4>5, <4>6
        <3> QED BY <3>1, <3>2, <3>3 DEF Nearly
    <2>13. placed.heap[slot] = id /\ h.dups[id].value = Value(h, last)
        BY <2>2, <2>4 DEF Value, id
    <2>14. Value(placed, HEAP_PARENT(slot)) = Key(placed, id, slot, HEAP_PARENT(slot))
        BY <2>13 DEF Key, Before, Value
    <2>15. Key(placed, id, slot, slot) = Value(h, last)
        BY <2>2, <2>9
    <2>16. slot = 0 => HEAP_PARENT(slot) = slot
        BY DEF HEAP_PARENT
    <2>17. ASSUME NEW g, Followed(g, placed, last, slot, id), Ordered(g, last),
                  g.max_size = placed.max_size, g.freelist = placed.freelist,
                  g.dups = placed.dups
           PROVE  Removed(g, h, n, slot)
        <3>1. Nodes(g) = Nodes(h) \ {x}
            BY <2>8, <2>17 DEF Followed
        <3>2. /\ Placed(g, n - 1) /\ Ordered(g, n - 1)
              /\ g.dups = [i \in DOMAIN h.dups \ {x} |-> h.dups[i]]
            BY <1>5, <2>1, <2>17 DEF Followed, last
        <3>3. /\ g.ids = [i \in DOMAIN h.ids |-> g.ids[i]]
              /\ \A i \in DOMAIN h.ids \ Nodes(g) :
                    g.ids[i] = IF i = x THEN -h.freelist ELSE h.ids[i]
            <4>1. DOMAIN placed.ids = DOMAIN h.ids
                BY <2>5
            <4>2. id \in Nodes(g)
                BY <2>2, <3>1
            <4> QED BY <2>5, <2>17, <4>1, <4>2 DEF Followed
        <3> QED BY <2>1, <2>17, <3>1, <3>2, <3>3, RemovedSound DEF x
    <2>18. CASE h.dups[id].value >= Value(placed, HEAP_PARENT(slot))
        <3> DEFINE g == reheap_down(placed, id, slot)
        <3>1. slot > 0 => Key(placed, id, slot, HEAP_PARENT(slot)) <= Key(placed, id, slot, slot)
            BY <2>13, <2>14, <2>15, <2>18
        <3>2. Ordered(g, last)
            BY <1>1, <2>2, <2>4, <2>6, <2>12, <2>13, <3>1, DownOrdered
        <3>3. Loop(placed, last, slot, id, DownStep(placed, id))
            BY <1>1, <2>2, <2>4, <2>6, DownLoop
        <3>4. /\ Followed(g, placed, last, slot, id)
              /\ g.max_size = placed.max_size /\ g.freelist = placed.freelist
              /\ g.dups = placed.dups
            BY <3>3, ShiftHeap, ShiftPlaced, Reheaps DEF Moved
        <3>5. Removed(g, h, n, slot)
            BY <2>17, <3>2, <3>4
        <3> QED BY <1>2, <1>11, <2>18, <3>5
    <2>19. CASE ~(h.dups[id].value >= Value(placed, HEAP_PARENT(slot)))
        <3> DEFINE g == reheap_up(placed, id, slot)
        <3>1. slot # 0
            BY <1>1, <1>8, <2>13, <2>14, <2>15, <2>16, <2>19
        <3>2. ASSUME NEW s \in 1 .. last - 1, HEAP_PARENT(s) = slot
              PROVE  Key(placed, id, slot, slot) <= Key(placed, id, slot, s)
            <4>1. Key(placed, id, slot, HEAP_PARENT(slot)) <= Key(placed, id, slot, s)
                BY <1>1, <2>12, <3>1, <3>2 DEF Nearly
            <4>2. HEAP_PARENT(slot) \in 0 .. last - 1
                BY <1>1, <2>2, <3>1, ParentOf
            <4>3. /\ Key(placed, id, slot, HEAP_PARENT(slot)) \in Nat
                  /\ Key(placed, id, slot, s) \in Nat
                  /\ Key(placed, id, slot, slot) \in Nat
                BY <2>2, <2>11, <2>12, <4>2 DEF Nearly
            <4> QED BY <2>13, <2>14, <2>15, <2>19, <4>1, <4>3
        <3>3. Ordered(g, last)
            BY <1>1, <2>2, <2>6, <2>12, <3>2, UpOrdered
        <3>4. Loop(placed, last, slot, id, UpStep(placed, id, slot))
            BY <1>1, <2>2, <2>6, UpLoop
        <3>5. /\ Followed(g, placed, last, slot, id)
              /\ g.max_size = placed.max_size /\ g.freelist = placed.freelist
              /\ g.dups = placed.dups
            BY <3>4, ShiftHeap, ShiftPlaced, Reheaps DEF Moved
        <3>6. Removed(g, h, n, slot)
            BY <2>17, <3>3, <3>5
        <3> QED BY <1>2, <1>11, <2>19, <3>6
    <2> QED BY <2>18, <2>19
<1> QED BY <1>10, <1>11

\* The heap as schedule_entry leaves it to reheap_up: an id is taken, and there is room.
Roomy(h) ==
    LET popped == [h EXCEPT !.freelist = -h.ids[h.freelist]]
    IN  IF cur_size(h) + 2 >= h.max_size THEN grow_heap(popped) ELSE popped

Prepared(k, h, n) ==
    /\ Shape(k) /\ k.heap = h.heap /\ k.dups = h.dups
    /\ k.max_size \in Nat /\ h.max_size <= k.max_size /\ n + 3 <= k.max_size
    /\ k.ids \in [0 .. k.max_size - 1 -> -k.max_size .. k.max_size]
    /\ \A i \in 0 .. h.max_size - 1 : k.ids[i] = h.ids[i]
    /\ Chain((1 .. k.max_size - 1) \ (Nodes(h) \cup {h.freelist}), k.max_size, k.freelist, IdNext(k))

LEMMA RoomyPrepared ==
    ASSUME NEW h, NEW n, Sound(h, n)
    PROVE  Prepared(Roomy(h), h, n)
<1> DEFINE id == h.freelist
           popped == [h EXCEPT !.freelist = -h.ids[h.freelist]]
           F == Free(h) \ {id}
           max == h.max_size
<1>1. n \in Nat /\ max \in Nat /\ n + 2 <= max /\ Shape(h) /\ cur_size(h) = n
    BY SoundSize DEF Sound, Placed
<1>2. h.ids \in [0 .. max - 1 -> -max .. max] /\ Nodes(h) \subseteq 1 .. max - 1
    BY DEF Sound
<1>3. id \in Free(h) /\ id \in 1 .. max - 1
    BY Room DEF Free
<1>4. Chain(F, max, IdNext(h)[id], IdNext(h))
    BY <1>3, ChainPop DEF Sound
<1>5. IdNext(h)[id] = -h.ids[id]
    <2>1. DOMAIN h.ids = 0 .. max - 1
        BY <1>2
    <2>2. id \in 0 .. max - 1
        BY <1>1, <1>3
    <2> QED BY <2>1, <2>2 DEF IdNext
<1>6. F = (1 .. max - 1) \ (Nodes(h) \cup {id})
    BY DEF Free
<1>7. /\ Shape(popped) /\ popped.max_size = max /\ popped.freelist = -h.ids[id]
      /\ popped.heap = h.heap /\ popped.dups = h.dups /\ popped.ids = h.ids
    BY <1>1 DEF Shape
<1>8. Roomy(h) = IF n + 2 >= max THEN grow_heap(popped) ELSE popped
    BY <1>1 DEF Roomy
<1> HIDE DEF popped, F
<1>9. CASE ~(n + 2 >= max)
    <2>1. Chain(F, popped.max_size, popped.freelist, IdNext(popped))
        BY <1>4, <1>5, <1>7 DEF IdNext
    <2>2. n + 3 <= max
        BY <1>1, <1>9
    <2>3. Prepared(popped, h, n)
        BY <1>1, <1>2, <1>6, <1>7, <2>1, <2>2 DEF Prepared
    <2> QED BY <1>8, <1>9, <2>3
<1>10. CASE n + 2 >= max
    <2> DEFINE k == grow_heap(popped)
               size == 2 * max
    <2>1. /\ Shape(k) /\ k.max_size = size /\ k.freelist = -h.ids[id]
          /\ k.heap = h.heap /\ k.dups = h.dups
          /\ k.ids = [i \in 0 .. size - 1 |-> IF i < max THEN h.ids[i] ELSE -(i + 1)]
        BY <1>7 DEF Shape, grow_heap
    <2>2. size \in Nat /\ size > max /\ max <= size /\ n + 3 <= size
        BY <1>1
    <2> HIDE DEF k, size
    <2>3. k.ids \in [0 .. size - 1 -> -size .. size]
        <3>1. ASSUME NEW i \in 0 .. size - 1
              PROVE  (IF i < max THEN h.ids[i] ELSE -(i + 1)) \in -size .. size
            <4>1. CASE i < max
                <5>1. i \in 0 .. max - 1
                    BY <1>1, <2>2, <4>1
                <5>2. h.ids[i] \in -max .. max
                    BY <1>2, <5>1
                <5> QED BY <1>1, <2>2, <4>1, <5>2
            <4>2. CASE ~(i < max)
                BY <2>2, <4>2
            <4> QED BY <4>1, <4>2
        <3> QED BY <2>1, <3>1
    <2>4. \A i \in 0 .. max - 1 : i \in 0 .. size - 1 /\ k.ids[i] = h.ids[i]
        BY <1>1, <2>1, <2>2
    <2>5. \A i \in F : i \in 0 .. max - 1
        BY <1>1, <1>6
    <2>6. \A i \in F : IdNext(k)[i] = IdNext(h)[i]
        BY <1>2, <2>3, <2>4, <2>5 DEF IdNext
    <2>7. ASSUME NEW i \in max .. size - 1
          PROVE  IdNext(k)[i] = i + 1
        <3>1. i \in 0 .. size - 1 /\ ~(i < max)
            BY <1>1, <2>2
        <3>2. k.ids[i] = -(i + 1) /\ i \in DOMAIN k.ids
            BY <2>1, <3>1
        <3>3. -(-(i + 1)) = i + 1
            BY <3>1
        <3> QED BY <3>2, <3>3 DEF IdNext
    <2>8. F \subseteq 1 .. max - 1
        BY <1>6
    <2>9. Chain(F \cup max .. size - 1, size, IdNext(h)[id], IdNext(k))
        BY <1>1, <1>4, <2>2, <2>6, <2>7, <2>8, ChainGrow
    <2>10. F \cup max .. size - 1 = (1 .. size - 1) \ (Nodes(h) \cup {id})
        <3>1. \A i \in 1 .. size - 1 : i \in 1 .. max - 1 \/ i \in max .. size - 1
            BY <1>1, <2>2
        <3>2. \A i \in max .. size - 1 : i \in 1 .. size - 1 /\ i \notin 1 .. max - 1
            BY <1>1, <2>2
        <3>3. \A i \in 1 .. max - 1 : i \in 1 .. size - 1
            BY <1>1, <2>2
        <3> QED BY <1>2, <1>3, <1>6, <3>1, <3>2, <3>3
    <2>11. Prepared(k, h, n)
        BY <1>5, <2>1, <2>2, <2>3, <2>4, <2>9, <2>10 DEF Prepared
    <2> QED BY <1>8, <1>10, <2>11 DEF k
<1> QED BY <1>9, <1>10

\* What schedule_entry leaves.
Scheduled(g, h, n, entry, expires) ==
    /\ Sound(g, n + 1) /\ h.max_size <= g.max_size
    /\ h.freelist \in Free(h) /\ Nodes(g) = Nodes(h) \cup {h.freelist}
    /\ g.dups[h.freelist] = [entry |-> entry, value |-> expires]
    /\ \A i \in Nodes(h) : g.dups[i] = h.dups[i]

LEMMA ScheduleEntry ==
    ASSUME NEW h, NEW n, Sound(h, n), NEW entry \in Entries, NEW expires \in Times
    PROVE  Scheduled(schedule_entry(h, entry, expires), h, n, entry, expires)
<1> DEFINE id == h.freelist
           r == Roomy(h)
           node == [entry |-> entry, value |-> expires]
           k == [r EXCEPT !.dups = With(r.dups, id, node)]
           g == reheap_up(k, id, n)
           m == n + 1
<1>0. n \in Nat /\ cur_size(h) = n /\ h.max_size \in Nat /\ n + 2 <= h.max_size /\ m \in Nat
    BY SoundSize DEF Sound
<1>1. schedule_entry(h, entry, expires) = g
    BY <1>0 DEF schedule_entry, Roomy
<1>2. /\ Shape(r) /\ r.heap = h.heap /\ r.dups = h.dups
      /\ r.max_size \in Nat /\ h.max_size <= r.max_size /\ n + 3 <= r.max_size
      /\ r.ids \in [0 .. r.max_size - 1 -> -r.max_size .. r.max_size]
      /\ \A i \in 0 .. h.max_size - 1 : r.ids[i] = h.ids[i]
      /\ Chain((1 .. r.max_size - 1) \ (Nodes(h) \cup {id}), r.max_size, r.freelist, IdNext(r))
    BY RoomyPrepared DEF Prepared
<1>3. id \in Free(h) /\ id \notin Nodes(h) /\ id \in 1 .. h.max_size - 1
    BY Room DEF Free
<1> HIDE DEF r, id
<1>4. /\ Shape(k) /\ k.heap = h.heap /\ k.dups = With(h.dups, id, node)
      /\ k.max_size = r.max_size /\ k.freelist = r.freelist /\ k.ids = r.ids
    BY <1>2 DEF Shape
<1>5. /\ DOMAIN h.heap = 0 .. n - 1 /\ DOMAIN h.dups = Nodes(h)
      /\ Nodes(h) \subseteq 1 .. h.max_size - 1
      /\ \A i \in Nodes(h) : h.dups[i] \in Dup
      /\ Ordered(h, n)
    BY DEF Sound, Placed
<1>6. /\ DOMAIN k.dups = Nodes(h) \cup {id} /\ k.dups[id] = node
      /\ \A i \in Nodes(h) : k.dups[i] = h.dups[i]
    BY <1>3, <1>4, <1>5 DEF With
<1>7. node \in Dup /\ node.value = expires /\ expires \in Nat
    BY TimerHeapAssumption DEF Dup, Times
<1> HIDE DEF k, node, g
<1>8. 0 .. m - 1 = 0 .. n - 1 \cup {n} /\ (0 .. m - 1) \ {n} = 0 .. n - 1 /\ n \in 0 .. m - 1
    BY <1>0
<1>9. \A s \in 0 .. n - 1 : /\ h.heap[s] \in Nodes(h) /\ h.ids[h.heap[s]] = s
                            /\ h.heap[s] \in 1 .. h.max_size - 1 /\ Value(h, s) \in Nat
    BY SoundSlot
<1>10. \A i \in 1 .. h.max_size - 1 : i \in DOMAIN k.ids /\ k.ids[i] = h.ids[i]
    <2>1. \A i \in 1 .. h.max_size - 1 : i \in 0 .. h.max_size - 1 /\ i \in 0 .. r.max_size - 1
        BY <1>0, <1>2
    <2> QED BY <1>2, <1>4, <2>1
<1>11. Hole(k, m, n, id)
    <2>1. ASSUME NEW s \in (0 .. m - 1) \ {n}
          PROVE  k.heap[s] \in DOMAIN k.ids /\ k.ids[k.heap[s]] = s /\ k.heap[s] # id
        <3>1. s \in 0 .. n - 1 /\ k.heap[s] = h.heap[s]
            BY <1>4, <1>8
        <3> QED BY <1>3, <1>9, <1>10, <3>1
    <2>2. id \in DOMAIN k.ids
        BY <1>3, <1>10
    <2>3. DOMAIN k.heap \cup {n} = 0 .. m - 1
        BY <1>4, <1>5, <1>8
    <2> QED BY <1>4, <2>1, <2>2, <2>3 DEF Hole
<1>12. \A s \in 0 .. m - 1 : Before(k, id, n, s) = IF s = n THEN id ELSE h.heap[s]
    BY <1>4 DEF Before
<1>13. ASSUME NEW s \in 0 .. m - 1
       PROVE  Key(k, id, n, s) = IF s = n THEN expires ELSE Value(h, s)
    <2>1. CASE s = n
        BY <1>6, <1>7, <1>12, <2>1 DEF Key
    <2>2. CASE s # n
        <3>1. s \in 0 .. n - 1
            BY <1>8, <2>2
        <3> QED BY <1>6, <1>9, <1>12, <2>2, <3>1 DEF Key, Value
    <2> QED BY <2>1, <2>2
<1>14. \A s \in 1 .. m - 1 : HEAP_PARENT(s) \in 0 .. m - 1 /\ HEAP_PARENT(s) < s /\ HEAP_PARENT(s) # n
    <2>1. \A s \in 1 .. m - 1 : HEAP_PARENT(s) \in 0 .. m - 1 /\ HEAP_PARENT(s) < s
        BY <1>0, ParentOf
    <2> QED BY <1>0, <2>1
<1>15. Nearly(k, m, n, id)
    <2>1. \A s \in 0 .. m - 1 : Key(k, id, n, s) \in Nat
        BY <1>7, <1>8, <1>9, <1>13
    <2>2. ASSUME NEW s \in 1 .. m - 1, s # n
          PROVE  Key(k, id, n, HEAP_PARENT(s)) <= Key(k, id, n, s)
        <3>1. s \in 1 .. n - 1 /\ s \in 0 .. m - 1
            BY <1>0, <2>2
        <3>2. Value(h, HEAP_PARENT(s)) <= Value(h, s)
            BY <1>5, <3>1 DEF Ordered
        <3> QED BY <1>13, <1>14, <2>2, <3>1, <3>2
    <2> QED BY <1>14, <2>1, <2>2 DEF Nearly
<1>16. Ordered(g, m)
    BY <1>0, <1>8, <1>11, <1>14, <1>15, UpOrdered DEF g
<1>17. Loop(k, m, n, id, UpStep(k, id, n))
    BY <1>0, <1>8, <1>11, UpLoop
<1>18. /\ Followed(g, k, m, n, id)
       /\ g.max_size = k.max_size /\ g.freelist = k.freelist /\ g.dups = k.dups
    BY <1>17, ShiftHeap, ShiftPlaced, Reheaps DEF Moved, g
<1>19. Nodes(g) = Nodes(h) \cup {id}
    <2>1. \A i : i \in Nodes(h) <=> \E s \in 0 .. n - 1 : i = h.heap[s]
        BY <1>5 DEF Nodes
    <2>2. \A i : i \in Nodes(g) <=> \E s \in 0 .. m - 1 : i = Before(k, id, n, s)
        BY <1>18 DEF Followed
    <2>3. n \notin 0 .. n - 1
        BY <1>0
    <2>4. ASSUME NEW i
          PROVE  i \in Nodes(g) <=> i \in Nodes(h) \/ i = id
        BY <1>8, <1>12, <2>1, <2>2, <2>3
    <2> QED BY <2>4
<1>20. /\ g.ids = [i \in DOMAIN k.ids |-> g.ids[i]] /\ DOMAIN k.ids = 0 .. g.max_size - 1
       /\ \A i \in DOMAIN k.ids \ Nodes(g) : g.ids[i] = k.ids[i]
    BY <1>2, <1>4, <1>18 DEF Followed
<1>21. Placed(g, m)
    BY <1>18 DEF Followed
<1>22. g.ids \in [0 .. g.max_size - 1 -> -g.max_size .. g.max_size]
    <2>1. ASSUME NEW i \in 0 .. g.max_size - 1
          PROVE  g.ids[i] \in -g.max_size .. g.max_size
        <3>1. CASE i \in Nodes(g)
            <4>1. PICK s \in 0 .. m - 1 : i = g.heap[s]
                BY <3>1, <1>21 DEF Placed, Nodes
            <4>2. g.ids[i] = s
                BY <4>1, <1>21 DEF Placed
            <4>3. g.max_size \in Nat /\ s <= n /\ n + 3 <= g.max_size /\ s \in Nat
                BY <1>0, <1>2, <1>4, <1>18
            <4> QED BY <1>0, <4>2, <4>3
        <3>2. CASE i \notin Nodes(g)
            <4>1. g.ids[i] = r.ids[i] /\ i \in 0 .. r.max_size - 1
                BY <1>4, <1>18, <1>20, <3>2
            <4> QED BY <1>2, <1>4, <1>18, <4>1
        <3> QED BY <3>1, <3>2
    <2> QED BY <1>20, <2>1
<1>23. Chain(Free(g), g.max_size, g.freelist, IdNext(g))
    <2>1. Free(g) = (1 .. r.max_size - 1) \ (Nodes(h) \cup {id})
        BY <1>4, <1>18, <1>19 DEF Free
    <2>2. \A i \in Free(g) : i \in 0 .. g.max_size - 1
        BY <1>2, <1>4, <1>18, <2>1
    <2>3. \A i \in Free(g) : i \in DOMAIN g.ids /\ i \in DOMAIN r.ids /\ g.ids[i] = r.ids[i]
        BY <1>4, <1>20, <2>2 DEF Free
    <2>4. \A i \in Free(g) : IdNext(g)[i] = IdNext(r)[i]
        BY <2>3 DEF IdNext
    <2> QED BY <1>2, <1>4, <1>18, <2>1, <2>4, ChainFrame
<1>24. /\ DOMAIN g.dups = Nodes(g) /\ g.dups[id] = node
       /\ \A i \in Nodes(h) : g.dups[i] = h.dups[i]
    BY <1>6, <1>18, <1>19
<1>25. \A i \in Nodes(g) : g.dups[i] \in Dup
    BY <1>5, <1>7, <1>19, <1>24
<1>26. /\ g.max_size \in Nat /\ h.max_size <= g.max_size /\ m + 2 <= g.max_size
       /\ Nodes(g) \subseteq 1 .. g.max_size - 1
    <2>1. g.max_size \in Nat /\ h.max_size <= g.max_size /\ n + 3 <= g.max_size
        BY <1>2, <1>4, <1>18
    <2>2. \A i \in 1 .. h.max_size - 1 : i \in 1 .. g.max_size - 1
        BY <1>0, <2>1
    <2>3. m + 2 <= g.max_size
        BY <1>0, <2>1
    <2> QED BY <1>3, <1>5, <1>19, <2>1, <2>2, <2>3
<1>27. Sound(g, n + 1)
    BY <1>0, <1>16, <1>21, <1>22, <1>23, <1>24, <1>25, <1>26 DEF Sound
<1> QED BY <1>1, <1>3, <1>19, <1>24, <1>26, <1>27 DEF Scheduled, id, node

-------------------------------------------------------------------------------
(* The invariant.                                                          *)

GroupNodes(h) == {i \in Nodes(h) : h.dups[i].entry \in Grouped}

Callbacks(pl) == {p \in Pollers : pl[p].entry \in Grouped}

\* The entries that believe they are running and the nodes of the heap, one to one.
Linked(h, t) ==
    /\ t \in [Entries -> {-1} \cup Nodes(h)]
    /\ \A e \in Entries : t[e] # -1 => h.dups[t[e]].entry = e
    /\ \A i \in Nodes(h) : t[h.dups[i].entry] = i

PollOK == poll \in [Pollers -> [entry : Entries \cup {Nothing}, count : 0 .. PerPoll]]

IInv ==
    /\ Sound(ht, cur_size(ht)) /\ Linked(ht, tid)
    /\ PollOK /\ now \in Times /\ left \in 0 .. MaxSched
    /\ IsFiniteSet(Callbacks(poll))
    /\ refs = Cardinality(GroupNodes(ht)) + Cardinality(Callbacks(poll))

\* When each entry expires, as its users see it.
ArmedTimes(h, t) == [e \in Entries |-> IF t[e] = -1 THEN Nothing ELSE h.dups[t[e]].value]

\* What both operations on the heap do to the entry they are about.
Rearmed(g, u, h, t, e, value) ==
    /\ Sound(g, cur_size(g)) /\ Linked(g, u)
    /\ ArmedTimes(g, u) = [ArmedTimes(h, t) EXCEPT ![e] = value]

LEMMA GroupFinite ==
    ASSUME NEW h, NEW n, Sound(h, n)
    PROVE  IsFiniteSet(GroupNodes(h)) /\ Cardinality(GroupNodes(h)) \in Nat
<1>1. GroupNodes(h) \in SUBSET Nodes(h)
    BY DEF GroupNodes
<1>2. IsFiniteSet(GroupNodes(h))
    BY <1>1, Room, FS_Subset
<1> QED BY <1>2, FS_CardinalityType

\* Cancelled or popped, the entry of a node is disarmed and no other.
LEMMA Disarms ==
    ASSUME NEW h, NEW t, Sound(h, cur_size(h)), Linked(h, t), NEW e \in Entries, t[e] # -1
    PROVE  /\ Rearmed(remove_node(h, h.ids[t[e]]), [t EXCEPT ![e] = -1], h, t, e, Nothing)
           /\ Cardinality(GroupNodes(remove_node(h, h.ids[t[e]])))
              = Cardinality(GroupNodes(h)) - Ref(e)
<1> DEFINE n == cur_size(h)
           x == t[e]
           slot == h.ids[x]
           g == remove_node(h, slot)
           u == [t EXCEPT ![e] = -1]
<1>1. x \in Nodes(h) /\ h.dups[x].entry = e
    BY DEF Linked
<1>2. slot \in 0 .. n - 1 /\ h.heap[slot] = x /\ Nodes(h) \subseteq 1 .. h.max_size - 1
    BY <1>1, SoundNode DEF Sound
<1>3. /\ Sound(g, n - 1) /\ Nodes(g) = Nodes(h) \ {x}
      /\ \A i \in Nodes(g) : g.dups[i] = h.dups[i]
    BY <1>2, RemoveNode DEF Removed
<1> HIDE DEF g, slot, n
<1>4. cur_size(g) = n - 1
    BY <1>3, SoundSize
<1>5. \A i \in Nodes(h) : i # -1
    BY <1>2
<1>6. /\ t \in [Entries -> {-1} \cup Nodes(h)]
      /\ \A f \in Entries : t[f] # -1 => h.dups[t[f]].entry = f
      /\ \A i \in Nodes(h) : t[h.dups[i].entry] = i
    BY DEF Linked
<1>7. \A i \in Nodes(h) : h.dups[i].entry \in Entries
    BY DEF Sound, Dup
<1>8. u \in [Entries -> {-1} \cup Nodes(g)]
    <2>1. \A f \in Entries : f # e => t[f] # x
        BY <1>1, <1>5, <1>6
    <2>2. \A f \in Entries : u[f] = IF f = e THEN -1 ELSE t[f]
        BY <1>6
    <2>3. \A f \in Entries : u[f] \in {-1} \cup Nodes(g)
        BY <1>3, <1>6, <2>1, <2>2
    <2> QED BY <1>6, <2>3
<1>9. Linked(g, u)
    <2>1. \A f \in Entries : u[f] # -1 => f # e /\ u[f] = t[f] /\ u[f] \in Nodes(g)
        BY <1>6, <1>8
    <2>2. \A f \in Entries : u[f] # -1 => g.dups[u[f]].entry = f
        BY <1>3, <1>6, <2>1
    <2>3. ASSUME NEW i \in Nodes(g)
          PROVE  u[g.dups[i].entry] = i
        <3>1. i \in Nodes(h) /\ i # x /\ g.dups[i] = h.dups[i]
            BY <1>3
        <3>2. h.dups[i].entry # e /\ h.dups[i].entry \in Entries
            BY <1>6, <1>7, <3>1
        <3> QED BY <1>6, <3>1, <3>2
    <2> QED BY <1>8, <2>2, <2>3 DEF Linked
<1>10. ArmedTimes(g, u) = [ArmedTimes(h, t) EXCEPT ![e] = Nothing]
    <2>1. ASSUME NEW f \in Entries
          PROVE  (IF u[f] = -1 THEN Nothing ELSE g.dups[u[f]].value)
                 = IF f = e THEN Nothing ELSE ArmedTimes(h, t)[f]
        <3>1. CASE f = e
            BY <1>6, <3>1
        <3>2. CASE f # e
            <4>1. u[f] = t[f] /\ (t[f] # -1 => g.dups[t[f]] = h.dups[t[f]])
                BY <1>3, <1>6, <1>8, <3>2
            <4> QED BY <3>2, <4>1 DEF ArmedTimes
        <3> QED BY <3>1, <3>2
    <2> QED BY <2>1 DEF ArmedTimes
<1>11. Cardinality(GroupNodes(g)) = Cardinality(GroupNodes(h)) - Ref(e)
    <2>1. GroupNodes(g) = GroupNodes(h) \ {x}
        BY <1>3 DEF GroupNodes
    <2>2. x \in GroupNodes(h) <=> e \in Grouped
        BY <1>1 DEF GroupNodes
    <2>3. IsFiniteSet(GroupNodes(h)) /\ Cardinality(GroupNodes(h)) \in Nat
        BY GroupFinite
    <2>4. Cardinality(GroupNodes(h) \ {x})
          = IF x \in GroupNodes(h) THEN Cardinality(GroupNodes(h)) - 1
            ELSE Cardinality(GroupNodes(h))
        BY <2>3, FS_RemoveElement
    <2> QED BY <2>1, <2>2, <2>3, <2>4 DEF Ref
<1> QED BY <1>3, <1>4, <1>9, <1>10, <1>11 DEF Rearmed, g, slot

\* An entry that is not running is armed, and no other is touched.
LEMMA Arms ==
    ASSUME NEW h, NEW t, Sound(h, cur_size(h)), Linked(h, t), NEW e \in Entries, t[e] = -1,
           NEW expires \in Times
    PROVE  /\ Rearmed(schedule_entry(h, e, expires), [t EXCEPT ![e] = h.freelist], h, t, e, expires)
           /\ Cardinality(GroupNodes(schedule_entry(h, e, expires)))
              = Cardinality(GroupNodes(h)) + Ref(e)
<1> DEFINE n == cur_size(h)
           x == h.freelist
           g == schedule_entry(h, e, expires)
           u == [t EXCEPT ![e] = x]
<1>1. /\ Sound(g, n + 1) /\ x \in Free(h) /\ Nodes(g) = Nodes(h) \cup {x}
      /\ g.dups[x] = [entry |-> e, value |-> expires]
      /\ \A i \in Nodes(h) : g.dups[i] = h.dups[i]
    BY ScheduleEntry DEF Scheduled
<1>2. x \notin Nodes(h) /\ x # -1 /\ g.dups[x].entry = e /\ g.dups[x].value = expires
    BY <1>1 DEF Free
<1> HIDE DEF g, n, x
<1>3. cur_size(g) = n + 1
    BY <1>1, SoundSize
<1>4. /\ t \in [Entries -> {-1} \cup Nodes(h)]
      /\ \A f \in Entries : t[f] # -1 => h.dups[t[f]].entry = f
      /\ \A i \in Nodes(h) : t[h.dups[i].entry] = i
    BY DEF Linked
<1>5. \A i \in Nodes(h) : h.dups[i].entry \in Entries /\ i # -1
    BY DEF Sound, Dup
<1>6. \A f \in Entries : u[f] = IF f = e THEN x ELSE t[f]
    BY <1>4
<1>7. u \in [Entries -> {-1} \cup Nodes(g)]
    BY <1>1, <1>4
<1>8. Linked(g, u)
    <2>1. ASSUME NEW f \in Entries, u[f] # -1
          PROVE  g.dups[u[f]].entry = f
        <3>1. CASE f = e
            BY <1>2, <1>6, <3>1
        <3>2. CASE f # e
            BY <1>1, <1>4, <1>6, <2>1, <3>2
        <3> QED BY <3>1, <3>2
    <2>2. ASSUME NEW i \in Nodes(g)
          PROVE  u[g.dups[i].entry] = i
        <3>1. CASE i = x
            BY <1>2, <1>6, <3>1
        <3>2. CASE i # x
            <4>1. i \in Nodes(h) /\ g.dups[i] = h.dups[i] /\ t[h.dups[i].entry] = i
                BY <1>1, <1>4, <2>2, <3>2
            <4>2. h.dups[i].entry # e /\ h.dups[i].entry \in Entries
                BY <1>5, <4>1
            <4> QED BY <1>6, <4>1, <4>2
        <3> QED BY <3>1, <3>2
    <2> QED BY <1>7, <2>1, <2>2 DEF Linked
<1>9. ArmedTimes(g, u) = [ArmedTimes(h, t) EXCEPT ![e] = expires]
    <2>1. ASSUME NEW f \in Entries
          PROVE  (IF u[f] = -1 THEN Nothing ELSE g.dups[u[f]].value)
                 = IF f = e THEN expires ELSE ArmedTimes(h, t)[f]
        <3>1. CASE f = e
            BY <1>2, <1>6, <3>1
        <3>2. CASE f # e
            <4>1. u[f] = t[f] /\ (t[f] # -1 => g.dups[t[f]] = h.dups[t[f]])
                BY <1>1, <1>4, <1>6, <3>2
            <4> QED BY <3>2, <4>1 DEF ArmedTimes
        <3> QED BY <3>1, <3>2
    <2> QED BY <2>1 DEF ArmedTimes
<1>10. Cardinality(GroupNodes(g)) = Cardinality(GroupNodes(h)) + Ref(e)
    <2>1. IsFiniteSet(GroupNodes(h)) /\ Cardinality(GroupNodes(h)) \in Nat
        BY GroupFinite
    <2>2. CASE e \in Grouped
        <3>1. GroupNodes(g) = GroupNodes(h) \cup {x} /\ x \notin GroupNodes(h)
            BY <1>1, <1>2, <2>2 DEF GroupNodes
        <3> QED BY <2>1, <2>2, <3>1, FS_AddElement DEF Ref
    <2>3. CASE e \notin Grouped
        <3>1. GroupNodes(g) = GroupNodes(h)
            BY <1>1, <1>2, <2>3 DEF GroupNodes
        <3> QED BY <2>1, <2>3, <3>1 DEF Ref
    <2> QED BY <2>2, <2>3
<1> QED BY <1>1, <1>3, <1>8, <1>9, <1>10 DEF Rearmed, g, x

\* The callbacks that hold a reference, when one poller goes on to another entry.
LEMMA Turns ==
    ASSUME NEW pl \in [Pollers -> [entry : Entries \cup {Nothing}, count : 0 .. PerPoll]],
           IsFiniteSet(Callbacks(pl)), NEW p \in Pollers, NEW node
    PROVE  /\ IsFiniteSet(Callbacks([pl EXCEPT ![p] = node]))
           /\ Cardinality(Callbacks([pl EXCEPT ![p] = node]))
              = Cardinality(Callbacks(pl)) - Ref(pl[p].entry) + Ref(node.entry)
           /\ Cardinality(Callbacks(pl)) \in Nat
<1> DEFINE C == Callbacks(pl)
           D == Callbacks([pl EXCEPT ![p] = node])
<1>1. p \in C <=> pl[p].entry \in Grouped
    BY DEF Callbacks
<1>2. D = IF node.entry \in Grouped THEN (C \ {p}) \cup {p} ELSE C \ {p}
    BY DEF Callbacks
<1> HIDE DEF C, D
<1>3. IsFiniteSet(C) /\ Cardinality(C) \in Nat
    BY FS_CardinalityType DEF C
<1>4. /\ IsFiniteSet(C \ {p})
      /\ Cardinality(C \ {p}) = IF p \in C THEN Cardinality(C) - 1 ELSE Cardinality(C)
    BY <1>3, FS_RemoveElement
<1>5. /\ IsFiniteSet((C \ {p}) \cup {p})
      /\ Cardinality((C \ {p}) \cup {p})
         = IF p \in C \ {p} THEN Cardinality(C \ {p}) ELSE Cardinality(C \ {p}) + 1
    BY <1>4, FS_AddElement
<1>6. Cardinality(C \ {p}) = Cardinality(C) - Ref(pl[p].entry)
    BY <1>1, <1>3, <1>4 DEF Ref
<1>7. IsFiniteSet(D) /\ Cardinality(D) = Cardinality(C \ {p}) + Ref(node.entry)
    <2>1. CASE node.entry \in Grouped
        <3>1. D = (C \ {p}) \cup {p}
            BY <1>2, <2>1
        <3> QED BY <1>5, <2>1, <3>1 DEF Ref
    <2>2. CASE node.entry \notin Grouped
        <3>1. Cardinality(C \ {p}) \in Int
            BY <1>3, <1>4
        <3> QED BY <1>2, <1>4, <2>2, <3>1 DEF Ref
    <2> QED BY <2>1, <2>2
<1> QED BY <1>3, <1>6, <1>7 DEF C, D

-------------------------------------------------------------------------------
(* The steps.                                                              *)

\* No entry is due before the one at the head.
LEMMA HeadFirst ==
    ASSUME NEW h, NEW n, Sound(h, n), NEW s \in 0 .. n - 1
    PROVE  Value(h, 0) <= Value(h, s)
<1> DEFINE T == {k \in 0 .. n - 1 : ~(Value(h, 0) <= Value(h, k))}
<1>0. n \in Nat /\ Ordered(h, n) /\ 0 \in 0 .. n - 1
    BY DEF Sound
<1>1. SUFFICES ASSUME T # {} PROVE FALSE
    OBVIOUS
<1>2. PICK k \in T : \A m \in T : k <= m
    <2>1. T \in SUBSET Nat
        OBVIOUS
    <2> HIDE DEF T
    <2> QED BY <1>1, <2>1, LeastNumber
<1>3. \A i \in 0 .. n - 1 : Value(h, i) \in Nat
    BY SoundSlot
<1>4. k # 0
    BY <1>0, <1>2, <1>3
<1>5. k \in 1 .. n - 1 /\ HEAP_PARENT(k) \in 0 .. n - 1 /\ HEAP_PARENT(k) < k
    BY <1>0, <1>2, <1>4, ParentOf
<1>6. ~(k <= HEAP_PARENT(k)) /\ k \in 0 .. n - 1
    BY <1>0, <1>5
<1>7. Value(h, 0) <= Value(h, HEAP_PARENT(k))
    BY <1>2, <1>5, <1>6
<1>8. Value(h, HEAP_PARENT(k)) <= Value(h, k)
    BY <1>0, <1>5 DEF Ordered
<1> QED BY <1>0, <1>2, <1>3, <1>5, <1>6, <1>7, <1>8

\* The callbacks that the heap's users see.
Calling(pl) == [p \in Pollers |-> pl[p].entry]

\* A pop, from either of the two places in poll that take an entry.
LEMMA Pops ==
    ASSUME IInv, Expired, NEW p \in Pollers, Pop(p), poll[p].count < PerPoll,
           refs' = refs - Ref(poll[p].entry), now' = now, left' = left
    PROVE  IInv' /\ \E e \in Entries : Promise!Take(p, e)
<1> DEFINE n == cur_size(ht)
           node == ht.dups[ht.heap[0]]
<1>1. /\ Sound(ht, n) /\ Linked(ht, tid)
      /\ poll \in [Pollers -> [entry : Entries \cup {Nothing}, count : 0 .. PerPoll]]
      /\ IsFiniteSet(Callbacks(poll))
      /\ refs = Cardinality(GroupNodes(ht)) + Cardinality(Callbacks(poll))
      /\ now \in Times /\ left \in 0 .. MaxSched
    BY DEF IInv, PollOK
<1>2. n \in Nat /\ n > 0 /\ 0 \in 0 .. n - 1 /\ Value(ht, 0) <= now
    BY <1>1 DEF Expired, Sound
<1>3. ht.heap[0] \in Nodes(ht) /\ ht.ids[ht.heap[0]] = 0 /\ ht.heap[0] # -1
    <2>1. ht.heap[0] \in Nodes(ht) /\ ht.ids[ht.heap[0]] = 0 /\ ht.heap[0] \in 1 .. ht.max_size - 1
        BY <1>1, <1>2, SoundSlot
    <2> QED BY <2>1
<1>4. PICK e \in Entries : e = node.entry /\ tid[e] = ht.heap[0] /\ tid[e] # -1
    <2>1. node \in Dup
        BY <1>1, <1>3 DEF Sound
    <2>2. node.entry \in Entries
        BY <2>1 DEF Dup
    <2> QED BY <1>1, <1>3, <2>2 DEF Linked
<1>5. /\ ht' = remove_node(ht, ht.ids[tid[e]])
      /\ tid' = [tid EXCEPT ![e] = -1]
      /\ poll' = [poll EXCEPT ![p] = [entry |-> e, count |-> poll[p].count + 1]]
    BY <1>3, <1>4 DEF Pop
<1>6. /\ Sound(ht', cur_size(ht')) /\ Linked(ht', tid')
      /\ ArmedTimes(ht', tid') = [ArmedTimes(ht, tid) EXCEPT ![e] = Nothing]
      /\ Cardinality(GroupNodes(ht')) = Cardinality(GroupNodes(ht)) - Ref(e)
    <2>1. /\ Rearmed(ht', tid', ht, tid, e, Nothing)
          /\ Cardinality(GroupNodes(ht')) = Cardinality(GroupNodes(ht)) - Ref(e)
        BY <1>1, <1>4, <1>5, Disarms
    <2> QED BY <2>1 DEF Rearmed
<1> DEFINE rec == [entry |-> e, count |-> poll[p].count + 1]
<1>7. rec \in [entry : Entries \cup {Nothing}, count : 0 .. PerPoll] /\ rec.entry = e
    <2>1. poll[p].count \in 0 .. PerPoll
        BY <1>1
    <2>2. poll[p].count + 1 \in 0 .. PerPoll
        BY <2>1, TimerHeapAssumption
    <2> QED BY <1>4, <2>2
<1>8. poll' = [poll EXCEPT ![p] = rec]
    BY <1>5
<1> HIDE DEF rec, n
<1>9. poll' \in [Pollers -> [entry : Entries \cup {Nothing}, count : 0 .. PerPoll]]
    BY <1>1, <1>7, <1>8
<1>10. /\ IsFiniteSet(Callbacks(poll'))
       /\ Cardinality(Callbacks(poll'))
          = Cardinality(Callbacks(poll)) - Ref(poll[p].entry) + Ref(rec.entry)
       /\ Cardinality(Callbacks(poll)) \in Nat
    BY <1>1, <1>8, Turns
<1>11. refs' = Cardinality(GroupNodes(ht')) + Cardinality(Callbacks(poll'))
    <2>1. Cardinality(GroupNodes(ht)) \in Nat
        BY <1>1, GroupFinite
    <2>2. Ref(e) \in Nat /\ Ref(poll[p].entry) \in Nat
        BY DEF Ref
    <2> QED BY <1>1, <1>6, <1>7, <1>10, <2>1, <2>2
<1>12. IInv'
    BY <1>1, <1>6, <1>9, <1>10, <1>11 DEF IInv, PollOK
<1>13. \A f \in Entries : ArmedTimes(ht, tid)[f] # Nothing =>
          ArmedTimes(ht, tid)[e] <= ArmedTimes(ht, tid)[f]
    <2>1. ArmedTimes(ht, tid)[e] = Value(ht, 0)
        BY <1>4 DEF ArmedTimes, Value
    <2>2. ASSUME NEW f \in Entries, ArmedTimes(ht, tid)[f] # Nothing
          PROVE  Value(ht, 0) <= ArmedTimes(ht, tid)[f]
        <3>1. tid[f] # -1 /\ ArmedTimes(ht, tid)[f] = ht.dups[tid[f]].value
            BY <2>2 DEF ArmedTimes
        <3>2. tid[f] \in Nodes(ht)
            BY <1>1, <3>1 DEF Linked
        <3>3. ht.ids[tid[f]] \in 0 .. n - 1 /\ ht.heap[ht.ids[tid[f]]] = tid[f]
            BY <1>1, <3>2, SoundNode
        <3>4. Value(ht, ht.ids[tid[f]]) = ArmedTimes(ht, tid)[f]
            BY <3>1, <3>3 DEF Value
        <3> QED BY <1>1, <3>3, <3>4, HeadFirst
    <2> QED BY <2>1, <2>2
<1>14. ArmedTimes(ht, tid)[e] = Value(ht, 0) /\ ArmedTimes(ht, tid)[e] # Nothing
    <2>1. ArmedTimes(ht, tid)[e] = Value(ht, 0)
        BY <1>4 DEF ArmedTimes, Value
    <2>2. Value(ht, 0) \in Times
        BY <1>1, <1>2, SoundSlot
    <2> QED BY <2>1, <2>2, TimerHeapAssumption DEF Times
<1>15. Calling(poll') = [Calling(poll) EXCEPT ![p] = e]
    BY <1>1, <1>7, <1>8 DEF Calling
<1>16. Promise!Take(p, e)
    BY <1>2, <1>4, <1>6, <1>13, <1>14, <1>15
       DEF Promise!Take, Promise!Due, Promise!Armed, ArmedTimes, Calling
<1> QED BY <1>12, <1>16

LEMMA PollStep ==
    ASSUME IInv, NEW p \in Pollers, Poll(p)
    PROVE  IInv' /\ \E e \in Entries : Promise!Take(p, e)
<1>1. /\ Expired /\ Pop(p) /\ poll[p].count < PerPoll
      /\ refs' = refs /\ now' = now /\ left' = left
    <2>1. poll[p].count = 0
        BY DEF Poll, Idle
    <2> QED BY <2>1, TimerHeapAssumption DEF Poll
<1>2. Ref(poll[p].entry) = 0
    <2>1. poll[p].entry = Nothing
        BY DEF Poll, Idle
    <2> QED BY <2>1, TimerHeapAssumption DEF Ref
<1>3. refs \in Int
    <2>1. IsFiniteSet(GroupNodes(ht)) /\ Cardinality(GroupNodes(ht)) \in Nat
        BY GroupFinite DEF IInv
    <2>2. Cardinality(Callbacks(poll)) \in Nat
        BY FS_CardinalityType DEF IInv
    <2> QED BY <2>1, <2>2 DEF IInv
<1>4. refs' = refs - Ref(poll[p].entry)
    BY <1>1, <1>2, <1>3
<1> QED BY <1>1, <1>4, Pops

LEMMA ReturnStep ==
    ASSUME IInv, NEW p \in Pollers, CallbackReturns(p)
    PROVE  IInv' /\ (Promise!Return(p) \/ \E e \in Entries : Promise!Take(p, e))
<1>1. CASE Expired /\ poll[p].count < PerPoll
    <2>1. /\ Pop(p) /\ refs' = refs - Ref(poll[p].entry)
          /\ now' = now /\ left' = left
        BY <1>1 DEF CallbackReturns
    <2> QED BY <1>1, <2>1, Pops
<1>2. CASE ~(Expired /\ poll[p].count < PerPoll)
    <2>1. /\ poll' = [poll EXCEPT ![p] = Idle] /\ ht' = ht /\ tid' = tid
          /\ refs' = refs - Ref(poll[p].entry) /\ now' = now /\ left' = left
          /\ poll[p].entry # Nothing
        BY <1>2 DEF CallbackReturns
    <2>2. /\ Sound(ht, cur_size(ht)) /\ Linked(ht, tid)
          /\ poll \in [Pollers -> [entry : Entries \cup {Nothing}, count : 0 .. PerPoll]]
          /\ IsFiniteSet(Callbacks(poll))
          /\ refs = Cardinality(GroupNodes(ht)) + Cardinality(Callbacks(poll))
          /\ now \in Times /\ left \in 0 .. MaxSched
        BY DEF IInv, PollOK
    <2>3. Idle.entry = Nothing /\ Ref(Idle.entry) = 0
        BY TimerHeapAssumption DEF Idle, Ref
    <2>4. Idle \in [entry : Entries \cup {Nothing}, count : 0 .. PerPoll]
        <3>1. 0 \in 0 .. PerPoll
            BY TimerHeapAssumption
        <3> QED BY <3>1 DEF Idle
    <2>5. poll' \in [Pollers -> [entry : Entries \cup {Nothing}, count : 0 .. PerPoll]]
        BY <2>1, <2>2, <2>4
    <2>6. /\ IsFiniteSet(Callbacks(poll'))
          /\ Cardinality(Callbacks(poll'))
             = Cardinality(Callbacks(poll)) - Ref(poll[p].entry) + Ref(Idle.entry)
          /\ Cardinality(Callbacks(poll)) \in Nat
        BY <2>1, <2>2, Turns
    <2>7. refs' = Cardinality(GroupNodes(ht')) + Cardinality(Callbacks(poll'))
        <3>1. Cardinality(GroupNodes(ht)) \in Nat
            BY <2>2, GroupFinite
        <3>2. Ref(poll[p].entry) \in Nat
            BY DEF Ref
        <3> QED BY <2>1, <2>2, <2>3, <2>6, <3>1, <3>2
    <2>8. IInv'
        BY <2>1, <2>2, <2>5, <2>6, <2>7 DEF IInv, PollOK
    <2>9. Calling(poll') = [Calling(poll) EXCEPT ![p] = Nothing]
        BY <2>1, <2>2, <2>3 DEF Calling
    <2>10. Calling(poll)[p] # Nothing
        BY <2>1 DEF Calling
    <2>11. ArmedTimes(ht', tid') = ArmedTimes(ht, tid)
        BY <2>1
    <2>12. Promise!Return(p)
        BY <2>1, <2>9, <2>10, <2>11 DEF Promise!Return, ArmedTimes, Calling
    <2> QED BY <2>8, <2>12
<1> QED BY <1>1, <1>2

LEMMA ScheduleStep ==
    ASSUME IInv, NEW e \in Entries, NEW expires \in Times, Schedule(e, expires)
    PROVE  IInv' /\ Promise!Schedule(e, expires)
<1>1. /\ Sound(ht, cur_size(ht)) /\ Linked(ht, tid)
      /\ IsFiniteSet(Callbacks(poll)) /\ PollOK
      /\ refs = Cardinality(GroupNodes(ht)) + Cardinality(Callbacks(poll))
      /\ now \in Times /\ left \in 0 .. MaxSched
    BY DEF IInv
<1>2. tid[e] = -1
    <2>1. tid[e] \in {-1} \cup Nodes(ht) /\ Nodes(ht) \subseteq 1 .. ht.max_size - 1
        BY <1>1 DEF Linked, Sound
    <2>2. ~(tid[e] >= 1)
        BY DEF Schedule, pj_timer_entry_running
    <2> QED BY <2>1, <2>2
<1>3. /\ ht' = schedule_entry(ht, e, expires) /\ tid' = [tid EXCEPT ![e] = ht.freelist]
      /\ refs' = refs + Ref(e) /\ left' = left - 1 /\ left > 0 /\ poll' = poll /\ now' = now
    BY DEF Schedule
<1>4. /\ Sound(ht', cur_size(ht')) /\ Linked(ht', tid')
      /\ ArmedTimes(ht', tid') = [ArmedTimes(ht, tid) EXCEPT ![e] = expires]
      /\ Cardinality(GroupNodes(ht')) = Cardinality(GroupNodes(ht)) + Ref(e)
    <2>1. /\ Rearmed(ht', tid', ht, tid, e, expires)
          /\ Cardinality(GroupNodes(ht')) = Cardinality(GroupNodes(ht)) + Ref(e)
        BY <1>1, <1>2, <1>3, Arms
    <2> QED BY <2>1 DEF Rearmed
<1>5. Cardinality(GroupNodes(ht)) \in Nat /\ Cardinality(Callbacks(poll)) \in Nat /\ Ref(e) \in Nat
    BY <1>1, GroupFinite, FS_CardinalityType DEF Ref
<1>6. refs' = Cardinality(GroupNodes(ht')) + Cardinality(Callbacks(poll'))
    BY <1>1, <1>3, <1>4, <1>5
<1>7. left' \in 0 .. MaxSched
    BY <1>1, <1>3, TimerHeapAssumption
<1>8. IInv'
    BY <1>1, <1>3, <1>4, <1>6, <1>7 DEF IInv, PollOK
<1>9. ArmedTimes(ht, tid)[e] = Nothing
    BY <1>2 DEF ArmedTimes
<1>10. Promise!Schedule(e, expires)
    BY <1>3, <1>4, <1>9 DEF Promise!Schedule, ArmedTimes
<1> QED BY <1>8, <1>10

\* The entry is always found, whatever it has been moved past.
LEMMA CancelStep ==
    ASSUME IInv, NEW e \in Entries, Cancel(e)
    PROVE  IInv' /\ Promise!Cancel(e)
<1>1. /\ Sound(ht, cur_size(ht)) /\ Linked(ht, tid)
      /\ IsFiniteSet(Callbacks(poll)) /\ PollOK
      /\ refs = Cardinality(GroupNodes(ht)) + Cardinality(Callbacks(poll))
      /\ now \in Times /\ left \in 0 .. MaxSched
    BY DEF IInv
<1>2. tid[e] # -1 /\ tid[e] \in Nodes(ht) /\ ht.dups[tid[e]].entry = e
    <2>1. tid[e] # -1
        BY DEF Cancel
    <2>2. tid[e] \in {-1} \cup Nodes(ht) /\ (tid[e] # -1 => ht.dups[tid[e]].entry = e)
        BY <1>1 DEF Linked
    <2> QED BY <2>1, <2>2
<1>3. ht.ids[tid[e]] \in 0 .. cur_size(ht) - 1 /\ ht.heap[ht.ids[tid[e]]] = tid[e]
    BY <1>1, <1>2, SoundNode
<1>4. ht.ids[tid[e]] >= 0 /\ ht.dups[ht.heap[ht.ids[tid[e]]]].entry = e
    BY <1>1, <1>2, <1>3 DEF Sound
<1>5. /\ ht' = remove_node(ht, ht.ids[tid[e]]) /\ tid' = [tid EXCEPT ![e] = -1]
      /\ refs' = refs - Ref(e) /\ left' = left /\ poll' = poll /\ now' = now
    BY <1>4 DEF Cancel
<1>6. /\ Sound(ht', cur_size(ht')) /\ Linked(ht', tid')
      /\ ArmedTimes(ht', tid') = [ArmedTimes(ht, tid) EXCEPT ![e] = Nothing]
      /\ Cardinality(GroupNodes(ht')) = Cardinality(GroupNodes(ht)) - Ref(e)
    <2>1. /\ Rearmed(ht', tid', ht, tid, e, Nothing)
          /\ Cardinality(GroupNodes(ht')) = Cardinality(GroupNodes(ht)) - Ref(e)
        BY <1>1, <1>2, <1>5, Disarms
    <2> QED BY <2>1 DEF Rearmed
<1>7. Cardinality(GroupNodes(ht)) \in Nat /\ Cardinality(Callbacks(poll)) \in Nat /\ Ref(e) \in Nat
    BY <1>1, GroupFinite, FS_CardinalityType DEF Ref
<1>8. refs' = Cardinality(GroupNodes(ht')) + Cardinality(Callbacks(poll'))
    BY <1>1, <1>5, <1>6, <1>7
<1>9. IInv'
    BY <1>1, <1>5, <1>6, <1>8 DEF IInv, PollOK
<1>10. ArmedTimes(ht, tid)[e] # Nothing
    <2>1. ht.dups[tid[e]] \in Dup
        BY <1>1, <1>2 DEF Sound
    <2>2. ht.dups[tid[e]].value # Nothing
        BY <2>1, TimerHeapAssumption DEF Dup, Times
    <2> QED BY <1>2, <2>2 DEF ArmedTimes
<1>11. Promise!Cancel(e)
    BY <1>5, <1>6, <1>10 DEF Promise!Cancel, ArmedTimes
<1> QED BY <1>9, <1>11

LEMMA TickStep ==
    ASSUME IInv, Tick
    PROVE  IInv' /\ \E t \in Times : Promise!Advance(t)
<1>1. now \in Times /\ now < MaxTime /\ now' = now + 1
      /\ ht' = ht /\ tid' = tid /\ poll' = poll /\ refs' = refs /\ left' = left
    BY DEF Tick, IInv
<1>2. now' \in Times /\ now' > now
    BY <1>1, TimerHeapAssumption DEF Times
<1>3. IInv'
    BY <1>1, <1>2 DEF IInv, PollOK
<1>4. Promise!Advance(now')
    BY <1>1, <1>2 DEF Promise!Advance
<1> QED BY <1>2, <1>3, <1>4

LEMMA InitSound ==
    ASSUME Init
    PROVE  IInv /\ Promise!Init
<1> DEFINE h == pj_timer_heap_create
           max == Size + 2
<1>1. /\ h.max_size = max /\ h.freelist = 1 /\ h.heap = [s \in {} |-> 0]
      /\ h.dups = [i \in {} |-> 0] /\ h.ids = [i \in 0 .. Size + 1 |-> -(i + 1)] /\ Shape(h)
    BY DEF pj_timer_heap_create, Shape
<1>2. ht = h /\ tid = [e \in Entries |-> -1] /\ poll = [p \in Pollers |-> Idle]
      /\ refs = 0 /\ now = 0 /\ left = MaxSched
    BY DEF Init
<1> HIDE DEF h
<1>3. Nodes(h) = {} /\ max \in Nat /\ max >= 2 /\ max - 1 = Size + 1
    BY <1>1, TimerHeapAssumption DEF Nodes
<1>4. 0 .. 0 - 1 = {} /\ 1 .. 0 - 1 = {}
    OBVIOUS
<1>5. Placed(h, 0) /\ Ordered(h, 0)
    BY <1>1, <1>4 DEF Placed, Ordered
<1>6. h.ids \in [0 .. max - 1 -> -max .. max]
    BY <1>1, <1>3
<1>7. \A i \in 0 .. max - 1 : IdNext(h)[i] = i + 1
    BY <1>1, <1>3 DEF IdNext
<1>8. Chain(Free(h), max, 1, IdNext(h))
    <2>1. Chain({}, 1, 1, IdNext(h))
        BY DEF Chain
    <2>2. \A i \in 1 .. max - 1 : IdNext(h)[i] = i + 1
        BY <1>3, <1>7
    <2>3. {} \subseteq 1 .. 1 - 1 /\ max > 1 /\ 1 \in Nat
        BY <1>3
    <2>4. Chain({} \cup 1 .. max - 1, max, 1, IdNext(h))
        BY <1>3, <2>1, <2>2, <2>3, ChainGrow
    <2> QED BY <1>1, <1>3, <2>4 DEF Free
<1>9. Sound(h, 0)
    BY <1>1, <1>3, <1>5, <1>6, <1>8 DEF Sound
<1>10. Sound(ht, cur_size(ht))
    BY <1>2, <1>9, SoundSize
<1>11. Linked(ht, tid)
    BY <1>2, <1>3 DEF Linked
<1>12. PollOK /\ now \in Times /\ left \in 0 .. MaxSched
    BY <1>2, TimerHeapAssumption DEF PollOK, Idle, Times
<1>13. Callbacks(poll) = {} /\ GroupNodes(ht) = {}
    BY <1>2, <1>3, TimerHeapAssumption DEF Callbacks, GroupNodes, Idle
<1>14. IInv
    BY <1>2, <1>10, <1>11, <1>12, <1>13, FS_EmptySet DEF IInv
<1>15. Promise!Init
    BY <1>2, <1>12 DEF Promise!Init, Idle
<1> QED BY <1>14, <1>15

LEMMA StepSound ==
    ASSUME IInv, [Next]_vars
    PROVE  IInv' /\ [Promise!Next]_(Promise!vars)
<1>1. CASE UNCHANGED vars
    BY <1>1 DEF vars, IInv, PollOK, Promise!vars
<1>2. ASSUME NEW e \in Entries, Cancel(e)
      PROVE  IInv' /\ Promise!Next
    BY <1>2, CancelStep DEF Promise!Next
<1>3. ASSUME NEW e \in Entries, NEW t \in Times, Schedule(e, t)
      PROVE  IInv' /\ Promise!Next
    BY <1>3, ScheduleStep DEF Promise!Next
<1>4. ASSUME NEW p \in Pollers, Poll(p)
      PROVE  IInv' /\ Promise!Next
    BY <1>4, PollStep DEF Promise!Next
<1>5. ASSUME NEW p \in Pollers, CallbackReturns(p)
      PROVE  IInv' /\ Promise!Next
    BY <1>5, ReturnStep DEF Promise!Next
<1>6. CASE Tick
    BY <1>6, TickStep DEF Promise!Next
<1> QED BY <1>1, <1>2, <1>3, <1>4, <1>5, <1>6 DEF Next

-------------------------------------------------------------------------------
(* The theorems.                                                           *)

LEMMA Names == InHeap = Nodes(ht) /\ Ids = 1 .. ht.max_size - 1 /\ Ids \ InHeap = Free(ht)
BY DEF InHeap, Nodes, Ids, Free

LEMMA IInvTypes == IInv => TypeOK
<1> SUFFICES ASSUME IInv PROVE TypeOK
    OBVIOUS
<1> DEFINE n == cur_size(ht)
<1>1. Sound(ht, n) /\ Linked(ht, tid) /\ PollOK /\ now \in Times /\ left \in 0 .. MaxSched
    BY DEF IInv
<1>2. /\ ht.max_size \in Nat /\ DOMAIN ht.heap = 0 .. n - 1
      /\ Nodes(ht) \subseteq 1 .. ht.max_size - 1
      /\ ht.ids \in [0 .. ht.max_size - 1 -> -ht.max_size .. ht.max_size]
      /\ DOMAIN ht.dups = Nodes(ht) /\ \A i \in Nodes(ht) : ht.dups[i] \in Dup
    BY <1>1 DEF Sound, Placed
<1>3. ht.freelist \in 1 .. ht.max_size
    <2>1. ht.freelist \in 1 .. ht.max_size - 1
        BY <1>1, Room DEF Free
    <2> QED BY <1>2, <2>1
<1>4. refs \in Nat
    <2>1. Cardinality(GroupNodes(ht)) \in Nat
        BY <1>1, GroupFinite
    <2>2. Cardinality(Callbacks(poll)) \in Nat
        BY FS_CardinalityType DEF IInv
    <2> QED BY <2>1, <2>2 DEF IInv
<1>5. tid \in [Entries -> {-1} \cup Ids]
    <2>1. tid \in [Entries -> {-1} \cup Nodes(ht)]
        BY <1>1 DEF Linked
    <2>2. {-1} \cup Nodes(ht) \subseteq {-1} \cup Ids
        BY <1>2, Names
    <2> QED BY <2>1, <2>2
<1>6. InHeap \subseteq Ids /\ \A i \in DOMAIN ht.dups : i \in Ids /\ ht.dups[i] \in Dup
    BY <1>2, Names
<1> QED BY <1>1, <1>2, <1>3, <1>4, <1>5, <1>6 DEF TypeOK, PollOK

LEMMA IInvLocated == IInv => Located
<1> SUFFICES ASSUME IInv PROVE Located
    OBVIOUS
<1> DEFINE n == cur_size(ht)
           Running == {e \in Entries : tid[e] # -1}
           f == [s \in 0 .. n - 1 |-> ht.dups[ht.heap[s]].entry]
<1>1. Sound(ht, n) /\ Linked(ht, tid) /\ n \in Nat
    BY DEF IInv, Sound
<1>2. DOMAIN ht.heap = 0 .. n - 1
    BY <1>1 DEF Sound, Placed
<1>3. \A s \in 0 .. n - 1 : /\ ht.heap[s] \in Nodes(ht) /\ ht.heap[s] \in 1 .. ht.max_size - 1
                            /\ ht.ids[ht.heap[s]] = s
    BY <1>1, SoundSlot
<1>4. /\ \A e \in Entries : tid[e] \in {-1} \cup Nodes(ht)
      /\ \A e \in Entries : tid[e] # -1 => ht.dups[tid[e]].entry = e
      /\ \A i \in Nodes(ht) : tid[ht.dups[i].entry] = i /\ ht.dups[i].entry \in Entries
    BY <1>1 DEF Linked, Sound, Dup
<1>5. \A e \in Entries : tid[e] # -1 =>
          /\ ht.ids[tid[e]] \in DOMAIN ht.heap /\ ht.heap[ht.ids[tid[e]]] = tid[e]
          /\ ht.dups[tid[e]].entry = e
    BY <1>1, <1>2, <1>4, SoundNode
<1> HIDE DEF n
<1>6. f \in Bijection(0 .. n - 1, Running)
    <2>1. \A s \in 0 .. n - 1 : f[s] \in Running /\ tid[f[s]] = ht.heap[s]
        <3>1. ASSUME NEW s \in 0 .. n - 1
              PROVE  f[s] \in Running /\ tid[f[s]] = ht.heap[s]
            <4>1. f[s] = ht.dups[ht.heap[s]].entry /\ ht.heap[s] \in Nodes(ht) /\ ht.heap[s] # -1
                BY <1>3
            <4> QED BY <1>4, <4>1
        <3> QED BY <3>1
    <2>2. \A s, t \in 0 .. n - 1 : f[s] = f[t] => s = t
        <3>1. ASSUME NEW s \in 0 .. n - 1, NEW t \in 0 .. n - 1, f[s] = f[t]
              PROVE  s = t
            <4>1. ht.heap[s] = ht.heap[t]
                BY <2>1, <3>1
            <4> QED BY <1>3, <4>1
        <3> QED BY <3>1
    <2>3. \A e \in Running : \E s \in 0 .. n - 1 : f[s] = e
        <3>1. ASSUME NEW e \in Running
              PROVE  \E s \in 0 .. n - 1 : f[s] = e
            <4>1. ht.ids[tid[e]] \in 0 .. n - 1 /\ ht.heap[ht.ids[tid[e]]] = tid[e]
                BY <1>2, <1>5
            <4>2. ht.dups[tid[e]].entry = e
                BY <1>5
            <4> QED BY <4>1, <4>2
        <3> QED BY <3>1
    <2>4. f \in [0 .. n - 1 -> Running]
        BY <2>1
    <2> HIDE DEF f, Running
    <2> QED BY <2>2, <2>3, <2>4 DEF Bijection, Injection, Surjection, IsInjective
<1>7. Cardinality(Running) = n
    <2>1. IsFiniteSet(0 .. n - 1) /\ Cardinality(0 .. n - 1) = n
        BY <1>1, Interval
    <2>2. ExistsBijection(0 .. n - 1, Running)
        BY <1>6 DEF ExistsBijection
    <2> HIDE DEF f, Running
    <2> QED BY <2>1, <2>2, FS_Bijection
<1> QED BY <1>5, <1>7 DEF Located, n

LEMMA IInvFreeList == IInv => FreeList
<1> SUFFICES ASSUME IInv PROVE FreeList
    OBVIOUS
<1> DEFINE next == [i \in Ids \ InHeap |-> -ht.ids[i]]
           F == Free(ht)
<1>1. /\ Chain(F, ht.max_size, ht.freelist, IdNext(ht))
      /\ DOMAIN ht.ids = 0 .. ht.max_size - 1 /\ ht.max_size \in Nat
    BY DEF IInv, Sound
<1>2. DOMAIN next = F
    BY Names
<1>3. \A i \in F : next[i] = IdNext(ht)[i]
    <2>1. \A i \in F : i \in 0 .. ht.max_size - 1
        BY <1>1 DEF Free
    <2>2. \A i \in F : i \in Ids \ InHeap
        BY Names
    <2> QED BY <1>1, <2>1, <2>2 DEF IdNext
<1> HIDE DEF F, next
<1>4. Chain(F, ht.max_size, ht.freelist, next)
    BY <1>1, <1>3, ChainFrame
<1>5. /\ ht.freelist \in F \cup {ht.max_size}
      /\ \A i \in F : next[i] \in F \cup {ht.max_size} /\ next[i] # ht.freelist
      /\ \A i, j \in F : next[i] = next[j] => i = j
      /\ \A x \in F \cup {ht.max_size} : x = ht.freelist \/ \E i \in F : next[i] = x
    BY <1>4 DEF Chain
<1>6. {next[i] : i \in F} \cup {ht.freelist} = F \cup {ht.max_size}
    BY <1>5
<1>7. /\ {next[i] : i \in DOMAIN next} \cup {ht.freelist} = DOMAIN next \cup {ht.max_size}
      /\ \A i, j \in DOMAIN next : next[i] = next[j] => i = j
      /\ \A i \in DOMAIN next : next[i] # ht.freelist
    BY <1>2, <1>5, <1>6
<1> QED BY <1>7 DEF FreeList, next

LEMMA IInvRefs == IInv => RefsCounted
<1>1. {i \in InHeap : ht.dups[i].entry \in Grouped} = GroupNodes(ht)
    BY Names DEF GroupNodes
<1> QED BY <1>1 DEF IInv, RefsCounted, Callbacks

\* The invariant holds in every state the heap can reach, whatever the entries, the
\* initial size and the number of pollers: what the other theorems rest on.
THEOREM Invariance == Spec => []IInv
<1>1. Init => IInv
    BY InitSound
<1>2. IInv /\ [Next]_vars => IInv'
    BY StepSound
<1> QED BY <1>1, <1>2, PTL DEF Spec

\* The arrays of pj_timer_heap_t are as long as max_size says and hold only ids that
\* are in range; a poll takes no more than max_entries_per_poll entries.
THEOREM TypeCorrect == Spec => []TypeOK
<1>1. IInv => TypeOK
    BY IInvTypes
<1> QED BY <1>1, Invariance, PTL

\* heap, timer_ids and timer_dups agree after every copy that reheap_up, reheap_down,
\* remove_node and grow_heap make: cancel finds its entry, and the free list holds
\* every other id exactly once.
THEOREM ArraysAgree == Spec => []Arrays
<1>1. IInv => Arrays
    BY IInvLocated, IInvFreeList DEF Arrays
<1> QED BY <1>1, Invariance, PTL

\* A group lock is referenced once for each armed entry and once for each callback of
\* such an entry that has not returned, across cancels that race the poll.
THEOREM ReferencesCounted == Spec => []RefsCounted
<1>1. IInv => RefsCounted
    BY IInvRefs
<1> QED BY <1>1, Invariance, PTL

\* The heap, its index and its free list implement the set of timers: a cancel disarms
\* its entry and no other, a schedule arms one, and a poll takes an entry that is due
\* with none due before it.
THEOREM Refines == Spec => ImplementsTimerSet
<1>1. Init => Promise!Init
    BY InitSound
<1>2. IInv /\ [Next]_vars => [Promise!Next]_(Promise!vars)
    BY StepSound
<1> QED BY <1>1, <1>2, Invariance, PTL DEF Spec, ImplementsTimerSet, Promise!Spec
===============================================================================
